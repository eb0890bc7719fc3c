-------------------------------- MODULE Sched --------------------------------
(***************************************************************************)
(* The scheduler: kern/sched.c, kern/timer.c and the parts of kern/env.c   *)
(* that put an env on env_sched_list, take it off, and run it.             *)
(*                                                                         *)
(* One hart; the timer interrupt is the only source of concurrency.        *)
(* Supervisor interrupts are off inside a trap, so a call of schedule is   *)
(* one step; between two calls the CPU is in user mode or in the idle loop *)
(* and the timer may expire at any time.  Struct Env is written only by    *)
(* the code below (TrapSwitch models the writes that come through the      *)
(* stack); TAILQ operations act on a sequence of envs.                     *)
(***************************************************************************)
EXTENDS Integers, SequencesExt, Tally

CONSTANTS
  Env,              \* the envs that can be created (envs[], a finite array)
  NULL,             \* the null pointer
  PRI,              \* the priorities ENV_CREATE_PRIORITY is called with
  TICK_WRAP,        \* do_timer reports every TICK_WRAP ticks (100)
  uvmunmap_returns  \* whether env_free's uvmunmap returns; as coded it
                    \* panics (vm.c:168 walks va, not a), so FALSE

(* rv_main uses priorities 1 and 2 (init.c:51-52), ENV_CREATE uses 1. *)
ASSUME SchedAssumption ==
  /\ IsFiniteSet(Env)
  /\ NULL \notin Env
  /\ PRI \subseteq Nat \ {0}
  /\ TICK_WRAP \in Nat \ {0}
  /\ uvmunmap_returns \in BOOLEAN

VARIABLES
  env_status,      \* "FREE" or "RUNNABLE" (nothing sets ENV_NOT_RUNNABLE)
  env_pri,         \* the priority of every env
  env_sched_list,  \* the runnable envs, first one first
  curenv,          \* the env that runs, or NULL
  count,           \* remaining time slices of curenv (static in schedule)
  ticks,           \* timer interrupts modulo TICK_WRAP
  timer,           \* "off" until timerinit; then "armed" or "pending"
  panic,           \* who called panic ("no" one: the kernel is alive)
  slice,           \* auxiliary: schedule calls curenv was chosen in, in a row
  waited           \* auxiliary: schedule calls since an env last ran

vars == <<env_status, env_pri, env_sched_list, curenv, count, ticks, timer,
          panic, slice, waited>>

(* env_init, the zeroed .bss and sie.STIE = 0. *)
Init ==
  /\ env_status = [e \in Env |-> "FREE"]
  /\ env_pri = [e \in Env |-> 0]
  /\ env_sched_list = <<>>
  /\ curenv = NULL
  /\ count = 0
  /\ ticks = 0
  /\ timer = "off"
  /\ panic = "no"
  /\ slice = 0
  /\ waited = [e \in Env |-> 0]

Alive == panic = "no"
-----------------------------------------------------------------------------
(* include/queue.h on sequences. *)
TAILQ_INSERT_HEAD(q, e) == <<e>> \o q

TAILQ_INSERT_TAIL(q, e) == Append(q, e)

TAILQ_REMOVE(q, e) == RemoveAt(q, CHOOSE i \in 1 .. Len(q) : q[i] = e)

TAILQ_FIRST(q) == Head(q)

TAILQ_EMPTY(q) == q = <<>>
-----------------------------------------------------------------------------
(* Priority and status are set, then the env goes to the head of the list  *)
(* (env_create; EnvTable models env_alloc and load_icode).  Envs are only  *)
(* created before timerinit.                                               *)
env_create(e, priority) ==
  /\ Alive
  /\ timer = "off"
  /\ env_status[e] = "FREE"
  /\ env_pri' = [env_pri EXCEPT ![e] = priority]
  /\ env_status' = [env_status EXCEPT ![e] = "RUNNABLE"]
  /\ env_sched_list' = TAILQ_INSERT_HEAD(env_sched_list, e)
  /\ UNCHANGED <<curenv, count, ticks, timer, panic, slice, waited>>

(* Mutant of timerinit: SIE_STIE is not set, so the timer stays off. *)
timerinitStaysOff ==
  /\ Alive
  /\ timer = "off"
  /\ ~TAILQ_EMPTY(env_sched_list)
  /\ ticks' = 0
  /\ timer' = "off"
  /\ UNCHANGED <<env_status, env_pri, env_sched_list, curenv, count, panic,
                 slice, waited>>

(* rv_main ends with timerinit, after it has created its envs. *)
timerinit ==
  /\ Alive
  /\ timer = "off"
  /\ ~TAILQ_EMPTY(env_sched_list)
  /\ ticks' = 0
  /\ timer' = "armed"
  /\ UNCHANGED <<env_status, env_pri, env_sched_list, curenv, count, panic,
                 slice, waited>>

(* The SBI timer fires. *)
TimerExpire ==
  /\ timer = "armed"
  /\ timer' = "pending"
  /\ UNCHANGED <<env_status, env_pri, env_sched_list, curenv, count, ticks,
                 panic, slice, waited>>

(* Mutant of do_timer: the tick counter is reset one tick late. *)
do_timerLate ==
  /\ timer' = "armed"
  /\ ticks' = IF ticks = TICK_WRAP THEN 0 ELSE ticks + 1

(* timer_set_next_event withdraws a pending interrupt and sets the timer. *)
do_timer ==
  /\ timer' = "armed"
  /\ ticks' = IF ticks + 1 = TICK_WRAP THEN 0 ELSE ticks + 1

(* Mutant of env_run: the status of e is not checked. *)
env_runUnchecked(e, prev, st) ==
  /\ curenv' = e
  /\ waited' = [x \in Env |->
       IF x = e \/ st[x] # "RUNNABLE" THEN 0 ELSE waited[x] + 1]
  /\ UNCHANGED panic

(* env_run(e), prev being curenv at the call and st the envs' status. *)
env_run(e, prev, st) ==
  IF st[e] = "RUNNABLE"
  THEN /\ curenv' = e
       /\ waited' = [x \in Env |->
            IF x = e \/ st[x] # "RUNNABLE" THEN 0 ELSE waited[x] + 1]
       /\ UNCHANGED panic
  ELSE /\ panic' = "env_run"
       /\ curenv' = prev
       /\ UNCHANGED waited

(* Mutant of Rotated: the preempted env goes back to the head. *)
RotatedToHead(e, q, st) ==
  IF e # NULL /\ st[e] = "RUNNABLE"
  THEN TAILQ_INSERT_HEAD(TAILQ_REMOVE(q, e), e)
  ELSE q

(* Mutant of Rotated: the preempted env is inserted but not removed. *)
RotatedTwice(e, q, st) ==
  IF e # NULL /\ st[e] = "RUNNABLE"
  THEN TAILQ_INSERT_TAIL(q, e)
  ELSE q

(* Mutant of Rotated: the list is rotated the wrong way round. *)
RotatedBack(e, q, st) ==
  IF e # NULL /\ st[e] = "RUNNABLE"
  THEN TAILQ_INSERT_HEAD(TAILQ_REMOVE(q, Last(q)), Last(q))
  ELSE q

(* The previous env, if it is still runnable, goes to the tail. *)
Rotated(e, q, st) ==
  IF e # NULL /\ st[e] = "RUNNABLE"
  THEN TAILQ_INSERT_TAIL(TAILQ_REMOVE(q, e), e)
  ELSE q

(* schedule picks the first env of list, for as many slices as its priority. *)
pick(e, list, st) ==
  IF TAILQ_EMPTY(list)
  THEN /\ panic' = "schedule"
       /\ curenv' = e
       /\ UNCHANGED <<count, slice, waited>>
  ELSE /\ count' = env_pri[TAILQ_FIRST(list)] - 1
       /\ slice' = 1
       /\ env_run(TAILQ_FIRST(list), e, st)

(* schedule runs the previous env for one more slice. *)
keep(e, st) ==
  /\ count' = count - 1
  /\ slice' = slice + 1
  /\ env_run(e, e, st)

(* Mutant of mustPick: the slices of an env are never used up. *)
mustPickIgnoresCount(yield, e, st) ==
  yield \/ e = NULL \/ st[e] # "RUNNABLE"

(* Mutant of mustPick: the yield flag is ignored. *)
mustPickIgnoresYield(yield, e, st) ==
  count = 0 \/ e = NULL \/ st[e] # "RUNNABLE"

mustPick(yield, e, st) ==
  yield \/ count = 0 \/ e = NULL \/ st[e] # "RUNNABLE"

(* schedule(yield), with curenv = e, env_sched_list = q and status st. *)
schedule(yield, e, q, st) ==
  /\ do_timer
  /\ IF mustPick(yield, e, st)
     THEN /\ env_sched_list' = Rotated(e, q, st)
          /\ pick(e, Rotated(e, q, st), st)
     ELSE /\ env_sched_list' = q
          /\ keep(e, st)

(* handle_s_int: the timer interrupt is taken. *)
TimerInterrupt ==
  /\ Alive
  /\ timer = "pending"
  /\ schedule(FALSE, curenv, env_sched_list, env_status)
  /\ UNCHANGED <<env_status, env_pri>>

(* schedule(1), the way to give up the CPU. *)
Yield ==
  /\ Alive
  /\ timer # "off"
  /\ schedule(TRUE, curenv, env_sched_list, env_status)
  /\ UNCHANGED <<env_status, env_pri>>

(* The list and the status env_free leaves behind. *)
env_free(e, q, st) ==
  [list |-> TAILQ_REMOVE(q, e), status |-> [st EXCEPT ![e] = "FREE"]]

(* env_destroy frees e and, when e is the current env, runs another one. *)
env_destroy(e) ==
  /\ Alive
  /\ timer # "off"
  /\ env_status[e] = "RUNNABLE"
  /\ IF uvmunmap_returns
     THEN LET freed == env_free(e, env_sched_list, env_status)
          IN  /\ env_status' = freed.status
              /\ IF curenv = e
                 THEN schedule(TRUE, NULL, freed.list, freed.status)
                 ELSE /\ env_sched_list' = freed.list
                      /\ UNCHANGED <<curenv, count, ticks, timer, panic,
                                     slice, waited>>
     ELSE /\ panic' = "uvmunmap"
          /\ UNCHANGED <<env_status, env_sched_list, curenv, count, ticks,
                         timer, slice, waited>>
  /\ UNCHANGED env_pri

Next ==
  \/ \E e \in Env, priority \in PRI : env_create(e, priority)
  \/ timerinit
  \/ TimerExpire
  \/ TimerInterrupt
  \/ Yield
  \/ \E e \in Env : env_destroy(e)

(* The machine runs: rv_main comes to its end, the timer expires, and an   *)
(* enabled interrupt is taken.  Nobody has to yield or to die.             *)
Fairness ==
  /\ WF_vars(timerinit)
  /\ WF_vars(TimerExpire)
  /\ WF_vars(TimerInterrupt)

Spec == Init /\ [][Next]_vars

FairSpec == Spec /\ Fairness
-----------------------------------------------------------------------------
Runnable == {e \in Env : env_status[e] = "RUNNABLE"}

(* Types; ticks stays below its wrap (do_timer, timer.c:22-32). *)
TypeOK ==
  /\ env_status \in [Env -> {"FREE", "RUNNABLE"}]
  /\ env_pri \in [Env -> PRI \cup {0}]
  /\ env_sched_list \in Seq(Env)
  /\ curenv \in Env \cup {NULL}
  /\ count \in Int
  /\ ticks \in 0 .. TICK_WRAP - 1
  /\ timer \in {"off", "armed", "pending"}
  /\ panic \in {"no", "schedule", "env_run", "uvmunmap"}
  /\ slice \in Nat
  /\ waited \in [Env -> Nat]

(* "Invariant: 'env' in 'env_sched_list' iff. 'env->env_status' is          *)
(* 'RUNNABLE'" (env.c:19), and no env is on the list twice, through         *)
(* rotations, yields and the death of any env.                              *)
RunnableIffQueued ==
  /\ IsInjective(env_sched_list)
  /\ Range(env_sched_list) = Runnable

(* The running env is at the head of the list, so the env that schedule     *)
(* moves to the tail is the one whose turn is over (sched.c:42-51).         *)
CurenvIsFirst ==
  curenv # NULL /\ Alive =>
    env_sched_list # <<>> /\ env_sched_list[1] = curenv

(* An env never runs past its priority: the slices it has had in this turn  *)
(* and the ones it has left add up to env_pri (count, sched.c:21-53).       *)
SliceAccounting ==
  curenv # NULL /\ Alive =>
    /\ slice >= 1
    /\ count >= 0
    /\ slice + count = env_pri[curenv]

(* Round robin: a runnable env waits at most as many schedule calls as the  *)
(* priorities of all other envs add up to (sched.c:7).                      *)
BoundedWait ==
  \A e \in Runnable : waited[e] <= Tally(env_pri, Env \ {e})

Before(q, a, b) ==
  \E i, j \in 1 .. Len(q) : i < j /\ q[i] = a /\ q[j] = b

(* Nobody jumps the queue: of two envs that stay on the list, only the one  *)
(* that was running can fall behind the other (sched.c:42-46).              *)
NoOvertaking ==
  [][\A a, b \in Env :
       /\ Before(env_sched_list, a, b)
       /\ a # curenv
       /\ {a, b} \subseteq Range(env_sched_list')
       => Before(env_sched_list', a, b)]_vars

(* "If 'yield' is set (non-zero), 'curenv' should not be scheduled again    *)
(* unless it is the only runnable env" (sched.c:9-11).                      *)
YieldGivesWay ==
  [][Yield /\ curenv # NULL => curenv' # curenv \/ Runnable = {curenv}]_vars

(* Every env created before timerinit gets the CPU again and again, unless  *)
(* it dies or the kernel panics (schedule, do_timer's re-arming).           *)
NoStarvation ==
  \A e \in Env :
    env_status[e] = "RUNNABLE" ~>
      (curenv = e \/ env_status[e] # "RUNNABLE" \/ ~Alive)
=============================================================================
