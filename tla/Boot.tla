--------------------------------- MODULE Boot ---------------------------------
(***************************************************************************)
(* rv_main and the first interrupt, on the supervisor's control registers  *)
(* (include/registers.h).                                                  *)
(*                                                                         *)
(* An interrupt may come between any two steps of rv_main once the bits    *)
(* for it are set, and the kernel's own code is never resumed: the handler *)
(* ends in schedule and env_run.  What rv_main has not done by then stays  *)
(* undone.  The model ends with that interrupt: env_run then finds curenv  *)
(* NULL, so it copies no frame, and the first env as env_create left it,   *)
(* so it does not panic.  TrapSwitch has the interrupts that follow.       *)
(* OpenSBI enters with sie, satp and sscratch 0 and stvec at the kernel's  *)
(* first instruction; sstatus may have any of its bits but SIE, and a      *)
(* timer interrupt of the firmware's may be pending.                       *)
(***************************************************************************)
EXTENDS Integers, Sequences

CONSTANT NCREATE  \* calls of ENV_CREATE_PRIORITY

ASSUME BootAssumption == NCREATE \in Nat \ {0}

(* Values of registers; addresses stand for themselves. *)
SSTATUS_SPP == 2^8
SSTATUS_SPIE == 2^5
SSTATUS_UPIE == 2^4
SSTATUS_SIE == 2^1
SSTATUS_UIE == 2^0
SIE_STIE == 2^5
SIP_STIP == 2^5
TICKS == 100
START == 1
KEXCENTRY == 2
KERNEL_SATP == 3
USER_SATP == 4

Has(x, bit) == (x \div bit) % 2 = 1
Or(x, bit) == IF Has(x, bit) THEN x ELSE x + bit
Clear(x, bit) == IF Has(x, bit) THEN x - bit ELSE x

VARIABLES
  csr,      \* the control registers
  step,     \* position in rv_main
  mode,     \* "boot", "idle" (spin), "user", or how the kernel stopped
  heap,     \* kinit has run
  table,    \* kernel_pagetable is built
  inited,   \* env_init has run
  envs,     \* envs on env_sched_list
  armed,    \* the SBI timer is set
  ticks     \* ticks of timer.c

bootvars == <<csr, step, mode, heap, table, inited, envs, armed, ticks>>

BootInit ==
  /\ \E spp \in {0, SSTATUS_SPP}, spie \in {0, SSTATUS_SPIE},
        upie \in {0, SSTATUS_UPIE}, uie \in {0, SSTATUS_UIE}, pending \in {0, SIP_STIP} :
       csr = [sstatus |-> spp + spie + upie + uie, sie |-> 0, sip |-> pending,
              stvec |-> START, satp |-> 0, sscratch |-> 0]
  /\ step = 1
  /\ mode = "boot"
  /\ heap = FALSE
  /\ table = FALSE
  /\ inited = FALSE
  /\ envs = 0
  /\ armed = FALSE
  /\ ticks = 0

r_sstatus == csr.sstatus
w_sstatus(x) == csr' = [csr EXCEPT !.sstatus = x]
r_sie == csr.sie
w_sie(x) == csr' = [csr EXCEPT !.sie = x]
w_stvec(x) == csr' = [csr EXCEPT !.stvec = x]
w_satp(x) == csr' = [csr EXCEPT !.satp = x]
-----------------------------------------------------------------------------
kvm_init == <<"w_satp">>
trapinit == <<"w_sstatus", "w_stvec">>
timerinit == <<"ticks", "w_sie", "sbi_set_timer">>

(* Mutant of rv_main: the timer is started where the commented-out call is. *)
rv_mainTimerFirst ==
  <<"kinit", "kpgtable_init">> \o kvm_init \o kvm_init \o trapinit \o timerinit \o <<"env_init">>
    \o [k \in 1 .. NCREATE |-> "env_create"]

(* Mutant of rv_main: the timer is never started. *)
rv_mainNoTimer ==
  <<"kinit", "kpgtable_init">> \o kvm_init \o kvm_init \o trapinit \o <<"env_init">>
    \o [k \in 1 .. NCREATE |-> "env_create"]

(* The steps that write memory or a register. *)
rv_main ==
  <<"kinit", "kpgtable_init">> \o kvm_init \o kvm_init \o trapinit \o <<"env_init">>
    \o [k \in 1 .. NCREATE |-> "env_create"] \o timerinit

At(s) == mode = "boot" /\ step <= Len(rv_main) /\ rv_main[step] = s
Goes(ok) == step' = step + 1 /\ mode' = IF ok THEN "boot" ELSE "crash"

kinit == At("kinit") /\ Goes(TRUE) /\ heap' = TRUE /\ UNCHANGED <<csr, table, inited, envs, armed, ticks>>

(* kvmcreate takes its pages from kalloc. *)
kpgtable_init ==
  /\ At("kpgtable_init") /\ Goes(heap)
  /\ table' = TRUE
  /\ UNCHANGED <<csr, heap, inited, envs, armed, ticks>>

(* Without a table the next instruction is not mapped. *)
WriteSatp ==
  /\ At("w_satp") /\ Goes(table)
  /\ w_satp(KERNEL_SATP)
  /\ UNCHANGED <<heap, table, inited, envs, armed, ticks>>

(* A plain write: the other bits of sstatus are cleared. *)
WriteSstatus ==
  /\ At("w_sstatus") /\ Goes(TRUE)
  /\ w_sstatus(SSTATUS_SIE)
  /\ UNCHANGED <<heap, table, inited, envs, armed, ticks>>

WriteStvec ==
  /\ At("w_stvec") /\ Goes(TRUE)
  /\ w_stvec(KEXCENTRY)
  /\ UNCHANGED <<heap, table, inited, envs, armed, ticks>>

env_init ==
  /\ At("env_init") /\ Goes(table)
  /\ inited' = TRUE
  /\ UNCHANGED <<csr, heap, table, envs, armed, ticks>>

env_create ==
  /\ At("env_create") /\ Goes(heap /\ table /\ inited)
  /\ envs' = envs + 1
  /\ UNCHANGED <<csr, heap, table, inited, armed, ticks>>

ResetTicks ==
  /\ At("ticks") /\ Goes(TRUE)
  /\ ticks' = 0
  /\ UNCHANGED <<csr, heap, table, inited, envs, armed>>

WriteSie ==
  /\ At("w_sie") /\ Goes(TRUE)
  /\ w_sie(Or(r_sie, SIE_STIE))
  /\ UNCHANGED <<heap, table, inited, envs, armed, ticks>>

(* The firmware takes back a pending interrupt and sets the timer anew. *)
sbi_set_timer ==
  /\ armed' = TRUE
  /\ csr' = [csr EXCEPT !.sip = Clear(csr.sip, SIP_STIP)]

SetTimer ==
  /\ At("sbi_set_timer") /\ Goes(TRUE)
  /\ sbi_set_timer
  /\ UNCHANGED <<heap, table, inited, envs, ticks>>

(* rv_main returns to the loop of start.S, which goes on for ever. *)
Spin ==
  /\ mode = "idle" \/ (mode = "boot" /\ step > Len(rv_main))
  /\ mode' = "idle"
  /\ UNCHANGED <<csr, step, heap, table, inited, envs, armed, ticks>>
-----------------------------------------------------------------------------
TimerExpires ==
  /\ armed
  /\ armed' = FALSE
  /\ csr' = [csr EXCEPT !.sip = Or(csr.sip, SIP_STIP)]
  /\ UNCHANGED <<step, mode, heap, table, inited, envs, ticks>>

(* The kernel's own code is interrupted only with SIE set. *)
Interruptible ==
  /\ mode \in {"boot", "idle"}
  /\ Has(csr.sip, SIP_STIP) /\ Has(csr.sie, SIE_STIE)
  /\ Has(r_sstatus, SSTATUS_SIE)

(* The trap does not reach kexcentry, SAVE_ALL takes the wrong stack, or    *)
(* schedule finds no env.                                                   *)
Stray ==
  \/ csr.stvec # KEXCENTRY
  \/ csr.sscratch # 0
  \/ csr.satp = 0
  \/ envs = 0

(* SAVE_ALL, handle_s_int, schedule (which begins with do_timer), env_run   *)
(* with curenv NULL, and RESTORE_ALL of the frame env_alloc made: sstatus   *)
(* is SPIE, which sret copies to SIE, and sscratch the end of the frame.    *)
TimerInterrupt ==
  /\ Interruptible
  /\ IF Stray THEN mode' = "crash" /\ UNCHANGED <<csr, armed, ticks>>
     ELSE /\ mode' = "user"
          /\ armed' = TRUE
          /\ ticks' = (ticks + 1) % TICKS
          /\ csr' = [csr EXCEPT !.sip = Clear(csr.sip, SIP_STIP), !.sstatus = SSTATUS_SPIE + SSTATUS_SIE,
                                !.satp = USER_SATP, !.sscratch = 1]
  /\ UNCHANGED <<step, heap, table, inited, envs>>

BootStep ==
  \/ kinit \/ kpgtable_init \/ WriteSatp \/ WriteSstatus \/ WriteStvec
  \/ env_init \/ env_create \/ ResetTicks \/ WriteSie \/ SetTimer \/ Spin

BootNext == BootStep \/ TimerExpires \/ TimerInterrupt

(* The hart executes, the timer runs, and interrupts that are enabled come. *)
BootFairness == WF_bootvars(BootStep) /\ WF_bootvars(TimerExpires) /\ WF_bootvars(TimerInterrupt)

BootSpec == BootInit /\ [][BootNext]_bootvars /\ BootFairness
-----------------------------------------------------------------------------
(* Whenever the first interrupt comes, between two steps of rv_main or from *)
(* the idle loop, it finds its handler, the kernel's stack, paging and envs *)
(* (SIE is set before stvec, traps.c:13-14, and STIE before the timer,      *)
(* timer.c:13-15), and what rv_main had left to do then is not missed: all  *)
(* envs are on the list and the timer will interrupt again.                 *)
NothingLeftBehind ==
  /\ mode # "crash"
  /\ mode = "user" => /\ envs = NCREATE /\ ticks < TICKS
                      /\ Has(csr.sie, SIE_STIE)
                      /\ armed \/ Has(csr.sip, SIP_STIP)

(* The kernel gets from rv_main to its first env: whether the interrupt     *)
(* that takes it there is one of the firmware's, pending since before boot  *)
(* and perhaps withdrawn by timer_set_next_event, or the timer's own, and   *)
(* wherever it comes, one does come and is taken (timer.c:13-15).           *)
FirstEnvRuns == <>(mode = "user")
=============================================================================
