------------------------------ MODULE TrapSwitch ------------------------------
(***************************************************************************)
(* Traps and context switches: kexcentry.S, genex.S, env_asm.S, traps.c    *)
(* and env_run, on top of the scheduler.                                   *)
(*                                                                         *)
(* sscratch is 0 in the kernel; for user mode RESTORE_ALL leaves the end   *)
(* of the running env's env_tf there.  SAVE_ALL takes it as its stack      *)
(* pointer, so a trap from user mode saves the registers straight into     *)
(* env_tf, and the handler's stack grows down from there: over the struct  *)
(* Env below it in envs[] (376 bytes; the handlers' frames take more).     *)
(* env_run, however, copies the frame at KSTACKTOP - 1 into env_tf, where  *)
(* only a trap out of the idle loop has saved registers.                   *)
(*                                                                         *)
(* The envs are the two that rv_main creates, envs[0] and envs[1].         *)
(***************************************************************************)
EXTENDS Sched

ASSUME TrapAssumption == Env = {0, 1}

VARIABLES
  cpu,       \* the context the CPU runs
  sscratch,  \* the env whose env_tf ends at sscratch, or NULL for 0
  env_tf,    \* the saved context in every struct Env
  kframe,    \* the context in the frame at KSTACKTOP - 1
  satp,      \* the env whose page table is in use, NULL for the kernel's
  smashed,   \* auxiliary: the envs whose struct a handler's stack overwrote
  last       \* auxiliary: the context every env would have to continue with

trapVars == <<cpu, sscratch, env_tf, kframe, satp, smashed, last>>

(* Contexts: the end of rv_main, the idle loop behind it (start.S), user    *)
(* code, and bytes that are no context at all.  step tells two user         *)
(* contexts apart; sp is what the frame holds for register x2.              *)
Tail_ == [kind |-> "tail"]
Spin == [kind |-> "spin"]
Garbage == [kind |-> "garbage"]
User(e, step, sp) == [kind |-> "user", env |-> e, step |-> step, sp |-> sp]

Context ==
  {Tail_, Spin, Garbage} \cup
  {User(e, step, sp) : e \in Env, step \in {0, 1}, sp \in {"0", "USTACKTOP"}}

InUser == cpu.kind = "user"

(* env_alloc puts the stack pointer into regs[29], the MIPS sp; x2 stays 0. *)
FreshFrame(e) == User(e, 0, "0")

TrapInit ==
  /\ Init
  /\ cpu = Tail_
  /\ sscratch = NULL
  /\ env_tf = [e \in Env |-> Garbage]
  /\ kframe = Garbage
  /\ satp = NULL
  /\ smashed = {}
  /\ last = [e \in Env |-> Garbage]
-----------------------------------------------------------------------------
(* The trap entry.  The tests of SAVE_ALL are on sscratch, not on the mode. *)

FromUser == sscratch # NULL

(* The env whose struct lies below the stack the handler runs on. *)
Below == IF FromUser THEN {sscratch - 1} \cap Env ELSE {}

(* env_tf after SAVE_ALL and the handler's use of its stack. *)
SavedFrames ==
  [e \in Env |-> IF e = sscratch THEN cpu
                 ELSE IF e \in Below THEN Garbage ELSE env_tf[e]]

(* Mutant of SavedKframe: every trap out of the kernel saves its frame there. *)
SavedKframeAlways == IF FromUser THEN kframe ELSE cpu

(* The frame at KSTACKTOP - 1: rv_main has returned when the idle loop is   *)
(* interrupted; at the end of rv_main the stack pointer is further down and *)
(* other bytes of the stack are found there.                                *)
SavedKframe ==
  IF FromUser THEN kframe ELSE IF cpu = Spin THEN Spin ELSE Garbage

(* Mutant of SmashedStatus: sscratch is set to the end of the struct, so the *)
(* handler's stack lies on the running env's own struct as well.             *)
SmashedStatusOwn ==
  [e \in Env |-> IF e \in Below \cup {sscratch} THEN "FREE" ELSE env_status[e]]

(* env_status lies under the frames of do_timer, env_run and print_tf,      *)
(* which leave the zero half of a saved s0 there: ENV_FREE (the frames are  *)
(* those of the -O0 build in the repository, mos_objdump: schedule takes 48 *)
(* bytes, do_timer saves s0 at -64, env_status is at -60).                  *)
SmashedStatus ==
  [e \in Env |-> IF e \in Below THEN "FREE" ELSE env_status[e]]

(* last follows what the interrupted program would continue with. *)
SavedLast == IF FromUser THEN [last EXCEPT ![sscratch] = cpu] ELSE last
-----------------------------------------------------------------------------
(* Mutant of RESTORE_ALL: sscratch is not set for user mode. *)
RESTORE_ALLNoScratch(e, frame) ==
  /\ cpu' = frame
  /\ sscratch' = NULL

(* Back to what frame says; e's env_tf ends where the stack pointer is. *)
RESTORE_ALL(e, frame) ==
  /\ cpu' = frame
  /\ sscratch' = IF frame.kind = "user" THEN e ELSE NULL

(* Mutant of switch: the address space is not switched. *)
switchKeepsSatp(tf, kf) ==
  LET copied == IF curenv # NULL THEN [tf EXCEPT ![curenv] = kf] ELSE tf
  IN  /\ env_tf' = copied
      /\ UNCHANGED satp
      /\ RESTORE_ALL(curenv', copied[curenv'])

(* env_run after its check: the frame at KSTACKTOP - 1 goes to the previous *)
(* env, then the next one is restored (env_pop_tf).                         *)
switch(tf, kf) ==
  LET copied == IF curenv # NULL THEN [tf EXCEPT ![curenv] = kf] ELSE tf
  IN  /\ env_tf' = copied
      /\ satp' = curenv'
      /\ RESTORE_ALL(curenv', copied[curenv'])

(* The timer interrupt: SAVE_ALL, handle_s_int, schedule(0), env_run. *)
TrapTimer ==
  /\ Alive
  /\ timer = "pending"
  /\ cpu # Garbage
  /\ schedule(FALSE, curenv, env_sched_list, SmashedStatus)
  /\ env_status' = SmashedStatus
  /\ UNCHANGED env_pri
  /\ kframe' = SavedKframe
  /\ smashed' = smashed \cup Below
  /\ last' = SavedLast
  /\ IF panic' = "no"
     THEN switch(SavedFrames, SavedKframe)
     ELSE env_tf' = SavedFrames /\ sscratch' = NULL /\ UNCHANGED <<cpu, satp>>

(* A breakpoint of a user program: do_ebreak steps over it. *)
TrapEbreak ==
  /\ Alive
  /\ InUser
  /\ env_status' = SmashedStatus
  /\ smashed' = smashed \cup Below
  /\ LET frame == [cpu EXCEPT !.step = 1 - @]
     IN  /\ env_tf' = [SavedFrames EXCEPT ![sscratch] = frame]
         /\ RESTORE_ALL(sscratch, frame)
         /\ last' = [last EXCEPT ![sscratch] = frame]
  /\ UNCHANGED <<env_pri, env_sched_list, curenv, count, ticks, timer, panic,
                 slice, waited, kframe, satp>>

(* Any other exception of a user program: do_reserved panics. *)
TrapReserved ==
  /\ Alive
  /\ InUser
  /\ env_status' = SmashedStatus
  /\ smashed' = smashed \cup Below
  /\ env_tf' = SavedFrames
  /\ sscratch' = NULL
  /\ last' = SavedLast
  /\ panic' = "reserve_exception"
  /\ UNCHANGED <<env_pri, env_sched_list, curenv, count, ticks, timer, slice,
                 waited, cpu, kframe, satp>>

(* The user program goes on. *)
UserStep ==
  /\ Alive
  /\ InUser
  /\ cpu' = [cpu EXCEPT !.step = 1 - @]
  /\ UNCHANGED <<vars, sscratch, env_tf, kframe, satp, smashed, last>>

(* rv_main returns to start.S, which loops. *)
MainReturns ==
  /\ cpu = Tail_
  /\ timer # "off"
  /\ cpu' = Spin
  /\ UNCHANGED <<vars, sscratch, env_tf, kframe, satp, smashed, last>>

(* rv_main creates envs[0], then envs[1]. *)
Create(e, priority) ==
  /\ env_create(e, priority)
  /\ e = 1 => env_status[0] # "FREE"
  /\ env_tf' = [env_tf EXCEPT ![e] = FreshFrame(e)]
  /\ last' = [last EXCEPT ![e] = FreshFrame(e)]
  /\ UNCHANGED <<cpu, sscratch, kframe, satp, smashed>>

TrapNext ==
  \/ \E e \in Env, priority \in PRI : Create(e, priority)
  \/ timerinit /\ env_status[1] # "FREE" /\ UNCHANGED trapVars
  \/ TimerExpire /\ UNCHANGED trapVars
  \/ MainReturns
  \/ UserStep
  \/ TrapTimer
  \/ TrapEbreak
  \/ TrapReserved

TrapSpec == TrapInit /\ [][TrapNext]_<<vars, trapVars>>
-----------------------------------------------------------------------------
(* Types of the trap state. *)
TrapTypeOK ==
  /\ cpu \in Context
  /\ sscratch \in Env \cup {NULL}
  /\ env_tf \in [Env -> Context]
  /\ kframe \in {Spin, Garbage}
  /\ satp \in Env \cup {NULL}
  /\ smashed \subseteq Env
  /\ last \in [Env -> Context]

(* The protocol SAVE_ALL relies on (kexcentry.S:13-18, genex.S:18-22): in    *)
(* user mode sscratch names the env_tf of curenv, in the kernel it is 0, so  *)
(* no trap saves its registers over another env or at a user address.        *)
ScratchProtocol ==
  Alive => sscratch = IF InUser THEN curenv ELSE NULL

(* What runs in user mode is curenv's own program in curenv's own address    *)
(* space (env_run, env.c:410-423).                                           *)
UserIsCurenv ==
  Alive /\ InUser => cpu.env = curenv /\ satp = curenv

(* An env whose struct was overwritten is never run again: the status test   *)
(* of env_run stops the kernel first (env.c:392-394).                        *)
SmashedNeverRuns ==
  Alive => curenv \notin smashed

(* env_run stops the kernel only at an env that is on the list with a struct *)
(* a handler's stack overwrote, perhaps many traps ago (env.c:392-394), and  *)
(* schedule never finds its list empty: rv_main has put envs there before    *)
(* the first interrupt, and no trap takes one off (sched.c:47-49).           *)
PanicsExplained ==
  /\ panic = "env_run" => env_sched_list[1] \in smashed
  /\ panic # "schedule"

(* "save its context into 'curenv->env_tf' first" (env.c:403-404): an env    *)
(* that is not running has the context it was interrupted in in env_tf.      *)
ContextPreserved ==
  Alive => \A e \in Runnable : (InUser /\ e = curenv) \/ env_tf[e] = last[e]

(* "Invariant: 'env' in 'env_sched_list' iff. 'env->env_status' is           *)
(* 'RUNNABLE'" (env.c:19), with the handlers' stacks taken into account.     *)
QueuedAreRunnable ==
  Alive => Range(env_sched_list) = Runnable
=============================================================================
