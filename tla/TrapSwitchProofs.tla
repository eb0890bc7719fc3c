--------------------------- MODULE TrapSwitchProofs ---------------------------
(***************************************************************************)
(* For all priorities, any number of slices and any number of traps: in    *)
(* user mode sscratch names curenv's own frame and in the kernel it is 0,  *)
(* what runs in user mode is curenv's program in curenv's address space,   *)
(* an env whose struct a handler's stack overwrote never runs again, and   *)
(* only such an env makes env_run panic.                                   *)
(***************************************************************************)
EXTENDS TrapSwitch, SchedProofs

(* The scheduler's state as far as traps depend on it.  SchedProofs' own     *)
(* invariant does not hold here: the handlers' stacks write env_status.      *)
SchedShape ==
  /\ env_status \in [Env -> {"FREE", "RUNNABLE"}]
  /\ env_sched_list \in Seq(Env)
  /\ curenv \in Env \cup {NULL}
  /\ Alive /\ curenv # NULL => curenv \in Range(env_sched_list)

(* Until timerinit rv_main itself runs and no trap has been taken. *)
BootPhase ==
  timer = "off" => curenv = NULL /\ sscratch = NULL /\ smashed = {}

(* A user context in env_tf is one of that env's own program. *)
FramesOwned ==
  \A e \in Env : env_tf[e].kind = "user" => env_tf[e].env = e

(* What the handlers' stacks leave in an overwritten struct is ENV_FREE. *)
SmashedAreFree == \A e \in smashed : env_status[e] = "FREE"

(* rv_main has created envs when it starts the timer, and a handler's stack  *)
(* alone makes an env of the list one that may not run.                      *)
QueueIntact ==
  /\ timer # "off" => env_sched_list # <<>>
  /\ \A e \in Range(env_sched_list) : env_status[e] = "RUNNABLE" \/ e \in smashed

TrapInv ==
  /\ TrapTypeOK
  /\ SchedShape
  /\ BootPhase
  /\ FramesOwned
  /\ SmashedAreFree
  /\ ScratchProtocol
  /\ UserIsCurenv
  /\ SmashedNeverRuns
  /\ QueueIntact
  /\ PanicsExplained
-----------------------------------------------------------------------------
(* Contexts. *)

(* A user context names an env and a step. *)
LEMMA UserContext ==
  ASSUME NEW c \in Context, c.kind = "user"
  PROVE  \E e \in Env, step \in {0, 1}, sp \in {"0", "USTACKTOP"} :
           c = User(e, step, sp)
  BY DEF Context, Tail_, Spin, Garbage

(* Going on, or stepping over a breakpoint, stays in the same program. *)
LEMMA SteppedContext ==
  ASSUME NEW c \in Context, c.kind = "user"
  PROVE  /\ [c EXCEPT !.step = 1 - @] \in Context
         /\ [c EXCEPT !.step = 1 - @].kind = "user"
         /\ [c EXCEPT !.step = 1 - @].env = c.env
<1>1. PICK e \in Env, step \in {0, 1}, sp \in {"0", "USTACKTOP"} :
        c = User(e, step, sp)
  BY UserContext
<1>2. [c EXCEPT !.step = 1 - @] = User(e, 1 - step, sp)
  BY <1>1 DEF User
<1>3. 1 - step \in {0, 1}
  OBVIOUS
<1> QED
  BY <1>1, <1>2, <1>3 DEF User, Context

(* What saves of the kernel leave at KSTACKTOP - 1 is no user context. *)
LEMMA KernelFrame ==
  ASSUME TrapTypeOK
  PROVE  /\ SavedKframe \in {Spin, Garbage}
         /\ SavedKframe \in Context
         /\ SavedKframe.kind # "user"
  BY DEF TrapTypeOK, SavedKframe, Context, Spin, Garbage
-----------------------------------------------------------------------------
(* The trap entry. *)

(* SAVE_ALL and the handler's stack: the running env's frame becomes the     *)
(* interrupted context, the env below it loses its own and its status.      *)
LEMMA EntryFacts ==
  ASSUME TrapInv, Alive
  PROVE  /\ SavedFrames \in [Env -> Context]
         /\ \A e \in Env : SavedFrames[e].kind = "user" => SavedFrames[e].env = e
         /\ SavedLast \in [Env -> Context]
         /\ Below \subseteq Env
         /\ curenv \notin Below
         /\ SmashedStatus \in [Env -> {"FREE", "RUNNABLE"}]
         /\ \A e \in smashed \cup Below : SmashedStatus[e] = "FREE"
<1>1. /\ cpu \in Context /\ env_tf \in [Env -> Context]
      /\ last \in [Env -> Context] /\ smashed \subseteq Env
      /\ sscratch \in Env \cup {NULL}
      /\ env_status \in [Env -> {"FREE", "RUNNABLE"}]
      /\ Garbage \in Context /\ Garbage.kind # "user"
  BY DEF TrapInv, TrapTypeOK, SchedShape, Context, Garbage
<1>2. FromUser => sscratch = curenv /\ InUser /\ cpu.env = curenv
  BY DEF TrapInv, ScratchProtocol, UserIsCurenv, FromUser
<1>3. Below \subseteq Env /\ curenv \notin Below
  <2>1. CASE FromUser
    <3>1. curenv \in {0, 1}
      BY <1>1, <1>2, <2>1, TrapAssumption DEF FromUser
    <3> QED
      BY <1>2, <2>1, <3>1 DEF Below
  <2>2. CASE ~FromUser
    BY <2>2 DEF Below
  <2> QED
    BY <2>1, <2>2
<1>4. SavedFrames \in [Env -> Context]
  BY <1>1 DEF SavedFrames
<1>5. ASSUME NEW e \in Env, SavedFrames[e].kind = "user"
      PROVE  SavedFrames[e].env = e
  <2>1. CASE e = sscratch
    <3>1. SavedFrames[e] = cpu /\ FromUser
      BY <2>1, SchedAssumption DEF SavedFrames, FromUser
    <3> QED
      BY <1>2, <2>1, <3>1
  <2>2. CASE e # sscratch
    <3>1. SavedFrames[e] = env_tf[e]
      BY <1>1, <1>5, <2>2 DEF SavedFrames
    <3> QED
      BY <1>5, <3>1 DEF TrapInv, FramesOwned
  <2> QED
    BY <2>1, <2>2
<1>6. SavedLast \in [Env -> Context]
  BY <1>1 DEF SavedLast
<1>7. /\ SmashedStatus \in [Env -> {"FREE", "RUNNABLE"}]
      /\ \A e \in smashed \cup Below : SmashedStatus[e] = "FREE"
  BY <1>1, <1>3 DEF SmashedStatus, TrapInv, SmashedAreFree
<1> QED
  BY <1>3, <1>4, <1>5, <1>6, <1>7
-----------------------------------------------------------------------------
(* What is on a list of envs is an env; one more at its head is all there is *)
(* in addition.                                                              *)
LEMMA RangeInEnv == \A q \in Seq(Env) : Range(q) \subseteq Env
  BY DEF Range

LEMMA HeadRange ==
  ASSUME NEW q \in Seq(Env), NEW e \in Env
  PROVE  /\ Range(<<e>> \o q) \subseteq Range(q) \cup {e}
         /\ <<e>> \o q # <<>>
<1> DEFINE r == <<e>> \o q
<1>1. /\ r \in Seq(Env) /\ Len(r) = Len(q) + 1 /\ r[1] = e
      /\ \A i \in 1 .. Len(q) : r[i + 1] = q[i]
  OBVIOUS
<1> HIDE DEF r
<1>2. ASSUME NEW i \in 1 .. Len(q) + 1
      PROVE  r[i] \in Range(q) \cup {e}
  <2>1. CASE i = 1
    BY <1>1, <2>1
  <2>2. CASE i # 1
    <3>1. i - 1 \in DOMAIN q /\ r[(i - 1) + 1] = q[i - 1] /\ (i - 1) + 1 = i
      BY <1>1, <2>2
    <3> QED
      BY <3>1 DEF Range
  <2> QED
    BY <2>1, <2>2
<1>3. DOMAIN r = 1 .. Len(q) + 1 /\ r # <<>>
  BY <1>1
<1> QED
  BY <1>2, <1>3 DEF Range, r

(* Taking an env off the list keeps no other one but those it held. *)
LEMMA RemoveKeepsOthers ==
  ASSUME NEW q \in Seq(Env), NEW e \in Range(q)
  PROVE  /\ TAILQ_REMOVE(q, e) \in Seq(Env)
         /\ Range(TAILQ_REMOVE(q, e)) \subseteq Range(q)
<1> DEFINE m == TAILQ_REMOVE(q, e)
<1>1. PICK k \in 1 .. Len(q) :
        /\ m \in Seq(Env)
        /\ Len(m) = Len(q) - 1
        /\ \A i \in 1 .. Len(q) - 1 : m[i] = IF i < k THEN q[i] ELSE q[i + 1]
  BY RemoveIndices
<1> HIDE DEF m
<1>2. ASSUME NEW i \in 1 .. Len(q) - 1
      PROVE  m[i] \in Range(q)
  <2>1. i \in DOMAIN q /\ i + 1 \in DOMAIN q
    OBVIOUS
  <2> QED
    BY <1>1, <2>1 DEF Range
<1>3. DOMAIN m = 1 .. Len(q) - 1
  BY <1>1
<1> QED
  BY <1>1, <1>2, <1>3 DEF Range, m

(* schedule, whatever the status array holds by now: if nobody panics, the  *)
(* env it runs is on the list and its status says that it may run.          *)
LEMMA ScheduleRuns ==
  ASSUME Alive, SchedShape, NEW st \in [Env -> {"FREE", "RUNNABLE"}],
         schedule(FALSE, curenv, env_sched_list, st)
  PROVE  /\ env_sched_list' \in Seq(Env)
         /\ timer' = "armed"
         /\ curenv' \in Env \cup {NULL}
         /\ panic' = "no" => /\ curenv' \in Env
                             /\ curenv' \in Range(env_sched_list')
                             /\ st[curenv'] = "RUNNABLE"
         /\ Range(env_sched_list') \subseteq Range(env_sched_list)
         /\ env_sched_list # <<>> =>
              /\ env_sched_list' # <<>>
              /\ panic' \in {"no", "env_run"}
              /\ panic' = "env_run" => st[env_sched_list'[1]] # "RUNNABLE"
<1> DEFINE q == env_sched_list
           r == Rotated(curenv, q, st)
<1>1. /\ q \in Seq(Env) /\ curenv \in Env \cup {NULL}
      /\ curenv # NULL => curenv \in Range(q)
      /\ panic = "no"
  BY DEF SchedShape, Alive
<1>2. timer' = "armed"
  BY DEF schedule, do_timer
<1>3. ASSUME NEW n \in Env, NEW prev \in Env \cup {NULL}, env_run(n, prev, st)
      PROVE  /\ curenv' \in Env \cup {NULL}
             /\ panic' = "no" => curenv' = n /\ st[n] = "RUNNABLE"
             /\ panic' \in {"no", "env_run"}
             /\ panic' = "env_run" => st[n] # "RUNNABLE"
  BY <1>1, <1>3 DEF env_run
<1>4. /\ r \in Seq(Env)
      /\ Range(r) \subseteq Range(q)
      /\ q # <<>> => r # <<>>
  <2>1. CASE curenv # NULL /\ st[curenv] = "RUNNABLE"
    <3> DEFINE m == TAILQ_REMOVE(q, curenv)
    <3>1. m \in Seq(Env) /\ Range(m) \subseteq Range(q)
      BY <1>1, <2>1, RemoveKeepsOthers
    <3>2. r = Append(m, curenv)
      BY <2>1 DEF Rotated, TAILQ_INSERT_TAIL
    <3> HIDE DEF m, r
    <3>3. /\ r \in Seq(Env) /\ Len(r) = Len(m) + 1 /\ r[Len(m) + 1] = curenv
          /\ \A i \in 1 .. Len(m) : r[i] = m[i]
      BY <1>1, <2>1, <3>1, <3>2
    <3>4. ASSUME NEW i \in 1 .. Len(m) + 1
          PROVE  r[i] \in Range(q)
      <4>1. CASE i = Len(m) + 1
        BY <1>1, <2>1, <3>3, <4>1
      <4>2. CASE i # Len(m) + 1
        <5>1. i \in DOMAIN m /\ r[i] = m[i]
          BY <3>1, <3>3, <4>2
        <5> QED
          BY <3>1, <5>1 DEF Range
      <4> QED
        BY <4>1, <4>2
    <3>5. DOMAIN r = 1 .. Len(m) + 1 /\ r # <<>>
      BY <3>1, <3>3
    <3> QED
      BY <3>3, <3>4, <3>5 DEF Range
  <2>2. CASE ~(curenv # NULL /\ st[curenv] = "RUNNABLE")
    BY <1>1, <2>2 DEF Rotated
  <2> QED
    BY <2>1, <2>2
<1>5. CASE mustPick(FALSE, curenv, st)
  <2>1. env_sched_list' = r /\ pick(curenv, r, st)
    BY <1>5 DEF schedule
  <2> HIDE DEF r
  <2>2. CASE r = <<>>
    BY <1>1, <1>2, <1>4, <2>1, <2>2 DEF pick, TAILQ_EMPTY
  <2>3. CASE r # <<>>
    <3>1. 1 \in DOMAIN r /\ r[1] \in Env /\ Head(r) = r[1]
      BY <1>4, <2>3
    <3>2. r[1] \in Range(r)
      BY <3>1 DEF Range
    <3>3. env_run(r[1], curenv, st)
      BY <2>1, <2>3, <3>1 DEF pick, TAILQ_EMPTY, TAILQ_FIRST
    <3> QED
      BY <1>1, <1>2, <1>3, <1>4, <2>1, <3>1, <3>2, <3>3
  <2> QED
    BY <2>2, <2>3
<1>6. CASE ~mustPick(FALSE, curenv, st)
  <2>1. curenv # NULL /\ curenv \in Env
    BY <1>1, <1>6 DEF mustPick
  <2>2. env_sched_list' = q /\ env_run(curenv, curenv, st)
    BY <1>6 DEF schedule, keep
  <2>3. st[curenv] = "RUNNABLE"
    BY <1>6 DEF mustPick
  <2> QED
    BY <1>1, <1>2, <1>3, <2>1, <2>2, <2>3
<1> QED
  BY <1>5, <1>6
-----------------------------------------------------------------------------
(* The steps. *)

(* Before anything is created nothing runs and nothing is saved. *)
LEMMA TrapInitInv == TrapInit => TrapInv
<1> SUFFICES ASSUME TrapInit
             PROVE  TrapInv
  OBVIOUS
<1>1. TrapTypeOK
  BY DEF TrapInit, TrapTypeOK, Context
<1>2. SchedShape
  BY DEF TrapInit, Init, SchedShape
<1>3. cpu.kind # "user" /\ Garbage.kind # "user"
  BY DEF TrapInit, Tail_, Garbage
<1> QED
  BY <1>1, <1>2, <1>3
    DEF TrapInit, Init, TrapInv, BootPhase, FramesOwned, SmashedAreFree,
        ScratchProtocol, UserIsCurenv, SmashedNeverRuns, InUser, QueueIntact,
        PanicsExplained, Range

(* env_create writes a fresh frame of the env's own program. *)
LEMMA TrapCreateStep ==
  ASSUME TrapInv, NEW e \in Env, NEW priority \in PRI, Create(e, priority)
  PROVE  TrapInv'
<1>1. /\ Alive /\ timer = "off"
      /\ env_status' = [env_status EXCEPT ![e] = "RUNNABLE"]
      /\ env_sched_list' = TAILQ_INSERT_HEAD(env_sched_list, e)
      /\ env_tf' = [env_tf EXCEPT ![e] = FreshFrame(e)]
      /\ last' = [last EXCEPT ![e] = FreshFrame(e)]
      /\ UNCHANGED <<curenv, timer, panic, cpu, sscratch, kframe, satp, smashed>>
  BY DEF Create, env_create
<1>2. /\ FreshFrame(e) \in Context
      /\ FreshFrame(e).env = e
  BY DEF FreshFrame, User, Context
<1>3. curenv = NULL /\ smashed = {}
  BY <1>1 DEF TrapInv, BootPhase
<1>4. TrapTypeOK'
  BY <1>1, <1>2 DEF TrapInv, TrapTypeOK
<1>5. SchedShape'
  <2>1. env_sched_list' \in Seq(Env)
    BY <1>1 DEF TrapInv, SchedShape, TAILQ_INSERT_HEAD
  <2> QED
    BY <1>1, <1>3, <2>1 DEF TrapInv, SchedShape
<1>6. FramesOwned'
  BY <1>1, <1>2 DEF TrapInv, TrapTypeOK, FramesOwned
<1>7. BootPhase' /\ SmashedAreFree'
  BY <1>1, <1>3 DEF TrapInv, BootPhase, SmashedAreFree
<1>8. ScratchProtocol' /\ UserIsCurenv' /\ SmashedNeverRuns'
  BY <1>1 DEF TrapInv, ScratchProtocol, UserIsCurenv, SmashedNeverRuns,
              InUser, Alive
<1>9. QueueIntact' /\ PanicsExplained'
  <2>1. Range(env_sched_list') \subseteq Range(env_sched_list) \cup {e}
    BY <1>1, HeadRange DEF TrapInv, SchedShape, TAILQ_INSERT_HEAD
  <2>2. \A x \in Range(env_sched_list) \cup {e} : env_status'[x] = "RUNNABLE"
    BY <1>1, <1>3, RangeInEnv DEF TrapInv, SchedShape, QueueIntact
  <2> QED
    BY <1>1, <2>1, <2>2 DEF QueueIntact, PanicsExplained, Alive
<1> QED
  BY <1>4, <1>5, <1>6, <1>7, <1>8, <1>9 DEF TrapInv

(* The timer interrupt, out of the kernel or out of a user program. *)
LEMMA TrapTimerStep ==
  ASSUME TrapInv, TrapTimer
  PROVE  TrapInv'
<1>1. /\ Alive
      /\ schedule(FALSE, curenv, env_sched_list, SmashedStatus)
      /\ env_status' = SmashedStatus
      /\ kframe' = SavedKframe
      /\ smashed' = smashed \cup Below
      /\ last' = SavedLast
      /\ IF panic' = "no"
         THEN switch(SavedFrames, SavedKframe)
         ELSE env_tf' = SavedFrames /\ sscratch' = NULL /\ UNCHANGED <<cpu, satp>>
  BY DEF TrapTimer
<1>2. /\ SavedFrames \in [Env -> Context]
      /\ \A e \in Env : SavedFrames[e].kind = "user" => SavedFrames[e].env = e
      /\ SavedLast \in [Env -> Context]
      /\ Below \subseteq Env
      /\ SmashedStatus \in [Env -> {"FREE", "RUNNABLE"}]
      /\ \A e \in smashed \cup Below : SmashedStatus[e] = "FREE"
  BY <1>1, EntryFacts
<1>3. TrapTypeOK /\ SchedShape
  BY DEF TrapInv
<1>4. /\ SavedKframe \in {Spin, Garbage}
      /\ SavedKframe \in Context
      /\ SavedKframe.kind # "user"
  BY <1>3, KernelFrame
<1>5. /\ env_sched_list' \in Seq(Env)
      /\ timer' = "armed"
      /\ curenv' \in Env \cup {NULL}
      /\ panic' = "no" => /\ curenv' \in Env
                          /\ curenv' \in Range(env_sched_list')
                          /\ SmashedStatus[curenv'] = "RUNNABLE"
      /\ Range(env_sched_list') \subseteq Range(env_sched_list)
      /\ env_sched_list # <<>> =>
           /\ env_sched_list' # <<>>
           /\ panic' \in {"no", "env_run"}
           /\ panic' = "env_run" => SmashedStatus[env_sched_list'[1]] # "RUNNABLE"
  BY <1>1, <1>2, <1>3, ScheduleRuns
<1>6. SchedShape' /\ BootPhase' /\ SmashedAreFree'
  BY <1>1, <1>2, <1>5 DEF SchedShape, BootPhase, SmashedAreFree, Alive
<1>7. SmashedNeverRuns'
  BY <1>1, <1>2, <1>5 DEF SmashedNeverRuns, Alive
<1>8. QueueIntact' /\ PanicsExplained'
  <2>1. env_sched_list # <<>>
    BY DEF TrapTimer, TrapInv, QueueIntact
  <2>2. \A e \in Range(env_sched_list') :
          SmashedStatus[e] = "RUNNABLE" \/ e \in smashed \cup Below
    BY <1>3, <1>5, RangeInEnv DEF TrapInv, QueueIntact, SchedShape, SmashedStatus
  <2>3. env_sched_list'[1] \in Range(env_sched_list')
    BY <1>5, <2>1 DEF Range
  <2> QED
    BY <1>1, <1>5, <2>1, <2>2, <2>3 DEF QueueIntact, PanicsExplained
<1>9. smashed' \subseteq Env /\ kframe' \in {Spin, Garbage}
      /\ last' \in [Env -> Context]
  BY <1>1, <1>2, <1>3, <1>4 DEF TrapTypeOK
<1>10. CASE panic' = "no"
  <2> DEFINE copied == IF curenv # NULL
                       THEN [SavedFrames EXCEPT ![curenv] = SavedKframe]
                       ELSE SavedFrames
  <2>1. /\ env_tf' = copied
        /\ satp' = curenv'
        /\ cpu' = copied[curenv']
        /\ sscratch' = IF copied[curenv'].kind = "user" THEN curenv' ELSE NULL
    BY <1>1, <1>10 DEF switch, RESTORE_ALL
  <2>2. copied \in [Env -> Context]
    BY <1>2, <1>4
  <2>3. \A e \in Env : copied[e].kind = "user" => copied[e].env = e
    BY <1>2, <1>4
  <2> HIDE DEF copied
  <2>4. TrapTypeOK'
    BY <1>5, <1>9, <1>10, <2>1, <2>2 DEF TrapTypeOK
  <2>5. FramesOwned'
    BY <2>1, <2>3 DEF FramesOwned
  <2>6. ScratchProtocol' /\ UserIsCurenv'
    BY <1>5, <1>10, <2>1, <2>3 DEF ScratchProtocol, UserIsCurenv, InUser
  <2> QED
    BY <1>6, <1>7, <1>8, <2>4, <2>5, <2>6 DEF TrapInv
<1>11. CASE panic' # "no"
  <2>1. env_tf' = SavedFrames /\ sscratch' = NULL /\ UNCHANGED <<cpu, satp>>
    BY <1>1, <1>11
  <2>2. TrapTypeOK'
    BY <1>2, <1>3, <1>9, <2>1 DEF TrapTypeOK
  <2>3. FramesOwned'
    BY <1>2, <2>1 DEF FramesOwned
  <2>4. ScratchProtocol' /\ UserIsCurenv'
    BY <1>11 DEF ScratchProtocol, UserIsCurenv, Alive
  <2> QED
    BY <1>6, <1>7, <1>8, <2>2, <2>3, <2>4 DEF TrapInv
<1> QED
  BY <1>10, <1>11

(* In user mode the running program is curenv's, and sscratch says so. *)
LEMMA UserFacts ==
  ASSUME TrapInv, Alive, InUser
  PROVE  /\ sscratch = curenv /\ cpu.env = curenv /\ satp = curenv
         /\ curenv \in Env
         /\ timer # "off"
<1>1. sscratch = curenv /\ cpu.env = curenv /\ satp = curenv
  BY DEF TrapInv, ScratchProtocol, UserIsCurenv
<1>2. cpu \in Context /\ cpu.kind = "user"
  BY DEF TrapInv, TrapTypeOK, InUser
<1>3. cpu.env \in Env
  BY <1>2, UserContext DEF User
<1>4. timer # "off"
  BY <1>1, <1>3, SchedAssumption DEF TrapInv, BootPhase
<1> QED
  BY <1>1, <1>3, <1>4

(* A trap that does not touch the list leaves it intact. *)
LEMMA QueueSurvives ==
  ASSUME TrapInv, SchedShape, env_status' = SmashedStatus,
         smashed' = smashed \cup Below, UNCHANGED <<env_sched_list, timer>>
  PROVE  QueueIntact'
  BY RangeInEnv DEF TrapInv, SchedShape, QueueIntact, SmashedStatus

(* A breakpoint: back to the same program, with the env below overwritten. *)
LEMMA TrapEbreakStep ==
  ASSUME TrapInv, TrapEbreak
  PROVE  TrapInv'
<1> DEFINE frame == [cpu EXCEPT !.step = 1 - @]
<1>1. /\ Alive /\ InUser
      /\ env_status' = SmashedStatus
      /\ smashed' = smashed \cup Below
      /\ env_tf' = [SavedFrames EXCEPT ![sscratch] = frame]
      /\ cpu' = frame
      /\ sscratch' = IF frame.kind = "user" THEN sscratch ELSE NULL
      /\ last' = [last EXCEPT ![sscratch] = frame]
      /\ UNCHANGED <<env_sched_list, curenv, timer, panic, kframe, satp>>
  BY DEF TrapEbreak, RESTORE_ALL
<1>2. /\ SavedFrames \in [Env -> Context]
      /\ \A e \in Env : SavedFrames[e].kind = "user" => SavedFrames[e].env = e
      /\ Below \subseteq Env /\ curenv \notin Below
      /\ SmashedStatus \in [Env -> {"FREE", "RUNNABLE"}]
      /\ \A e \in smashed \cup Below : SmashedStatus[e] = "FREE"
  BY <1>1, EntryFacts
<1>3. TrapTypeOK /\ SchedShape
  BY DEF TrapInv
<1>4. /\ sscratch = curenv /\ cpu.env = curenv /\ satp = curenv
      /\ curenv \in Env /\ timer # "off"
  BY <1>1, UserFacts
<1>5. frame \in Context /\ frame.kind = "user" /\ frame.env = cpu.env
  BY <1>1, <1>3, SteppedContext DEF TrapTypeOK, InUser
<1> HIDE DEF frame
<1>6. TrapTypeOK'
  BY <1>1, <1>2, <1>3, <1>4, <1>5 DEF TrapTypeOK
<1>7. SchedShape' /\ BootPhase' /\ SmashedAreFree'
  BY <1>1, <1>2, <1>3, <1>4 DEF SchedShape, BootPhase, SmashedAreFree, Alive
<1>8. FramesOwned'
  BY <1>1, <1>2, <1>4, <1>5 DEF FramesOwned
<1>9. ScratchProtocol' /\ UserIsCurenv'
  BY <1>1, <1>4, <1>5 DEF ScratchProtocol, UserIsCurenv, InUser
<1>10. SmashedNeverRuns'
  BY <1>1, <1>2 DEF TrapInv, SmashedNeverRuns
<1>11. QueueIntact' /\ PanicsExplained'
  BY <1>1, <1>3, QueueSurvives DEF Alive, PanicsExplained
<1> QED
  BY <1>6, <1>7, <1>8, <1>9, <1>10, <1>11 DEF TrapInv

(* Any other exception of a user program ends in a panic. *)
LEMMA TrapReservedStep ==
  ASSUME TrapInv, TrapReserved
  PROVE  TrapInv'
<1>1. /\ Alive /\ InUser
      /\ env_status' = SmashedStatus
      /\ smashed' = smashed \cup Below
      /\ env_tf' = SavedFrames
      /\ sscratch' = NULL
      /\ last' = SavedLast
      /\ panic' = "reserve_exception"
      /\ UNCHANGED <<env_sched_list, curenv, timer, cpu, kframe, satp>>
  BY DEF TrapReserved
<1>2. /\ SavedFrames \in [Env -> Context]
      /\ \A e \in Env : SavedFrames[e].kind = "user" => SavedFrames[e].env = e
      /\ SavedLast \in [Env -> Context]
      /\ Below \subseteq Env
      /\ SmashedStatus \in [Env -> {"FREE", "RUNNABLE"}]
      /\ \A e \in smashed \cup Below : SmashedStatus[e] = "FREE"
  BY <1>1, EntryFacts
<1>3. TrapTypeOK /\ SchedShape /\ timer # "off"
  BY <1>1, UserFacts DEF TrapInv
<1>4. TrapTypeOK'
  BY <1>1, <1>2, <1>3 DEF TrapTypeOK
<1>5. SchedShape' /\ BootPhase' /\ SmashedAreFree'
  BY <1>1, <1>2, <1>3 DEF SchedShape, BootPhase, SmashedAreFree, Alive
<1>6. FramesOwned'
  BY <1>1, <1>2 DEF FramesOwned
<1>7. ~Alive'
  BY <1>1 DEF Alive
<1>8. ScratchProtocol' /\ UserIsCurenv' /\ SmashedNeverRuns'
  BY <1>7 DEF ScratchProtocol, UserIsCurenv, SmashedNeverRuns
<1>9. QueueIntact' /\ PanicsExplained'
  BY <1>1, <1>3, QueueSurvives DEF PanicsExplained
<1> QED
  BY <1>4, <1>5, <1>6, <1>8, <1>9 DEF TrapInv

(* The steps that save and restore nothing. *)
LEMMA TrapQuietStep ==
  ASSUME TrapInv,
         \/ timerinit /\ UNCHANGED trapVars
         \/ TimerExpire /\ UNCHANGED trapVars
         \/ UNCHANGED <<vars, trapVars>>
  PROVE  TrapInv'
<1>1. /\ UNCHANGED <<env_status, env_sched_list, curenv, panic>>
      /\ UNCHANGED <<cpu, sscratch, env_tf, kframe, satp, smashed, last>>
      /\ timer' = "off" => timer = "off"
      /\ timer' # "off" => timer # "off" \/ env_sched_list # <<>>
  BY DEF timerinit, TimerExpire, vars, trapVars, TAILQ_EMPTY
<1> QED
  BY <1>1 DEF TrapInv, TrapTypeOK, SchedShape, BootPhase, FramesOwned,
              SmashedAreFree, ScratchProtocol, UserIsCurenv, SmashedNeverRuns,
              QueueIntact, PanicsExplained, InUser, Alive

(* The program that runs goes on; rv_main returns to the idle loop. *)
LEMMA RunStep ==
  ASSUME TrapInv, UserStep \/ MainReturns
  PROVE  TrapInv'
<1>1. /\ UNCHANGED <<env_status, env_sched_list, curenv, panic, timer>>
      /\ UNCHANGED <<sscratch, env_tf, kframe, satp, smashed, last>>
  BY DEF UserStep, MainReturns, vars
<1>2. /\ cpu' \in Context
      /\ InUser' = InUser
      /\ InUser => cpu'.env = cpu.env
  <2>1. CASE UserStep
    BY <2>1, SteppedContext DEF UserStep, InUser, TrapInv, TrapTypeOK
  <2>2. CASE MainReturns
    BY <2>2 DEF MainReturns, InUser, Context, Tail_, Spin
  <2> QED
    BY <2>1, <2>2
<1>3. TrapTypeOK'
  BY <1>1, <1>2 DEF TrapInv, TrapTypeOK
<1>4. ScratchProtocol' /\ UserIsCurenv'
  BY <1>1, <1>2 DEF TrapInv, ScratchProtocol, UserIsCurenv, Alive
<1> QED
  BY <1>1, <1>3, <1>4 DEF TrapInv, SchedShape, BootPhase, FramesOwned,
                          SmashedAreFree, SmashedNeverRuns, QueueIntact,
                          PanicsExplained, Alive

(* Every step of the machine keeps the invariant. *)
LEMMA TrapNextInv == TrapInv /\ [TrapNext]_<<vars, trapVars>> => TrapInv'
<1> SUFFICES ASSUME TrapInv, [TrapNext]_<<vars, trapVars>>
             PROVE  TrapInv'
  OBVIOUS
<1>1. CASE \E e \in Env, priority \in PRI : Create(e, priority)
  BY <1>1, TrapCreateStep
<1>2. CASE TrapTimer
  BY <1>2, TrapTimerStep
<1>3. CASE TrapEbreak
  BY <1>3, TrapEbreakStep
<1>4. CASE TrapReserved
  BY <1>4, TrapReservedStep
<1>5. CASE UserStep \/ MainReturns
  BY <1>5, RunStep
<1>6. CASE \/ timerinit /\ UNCHANGED trapVars
           \/ TimerExpire /\ UNCHANGED trapVars
           \/ UNCHANGED <<vars, trapVars>>
  BY <1>6, TrapQuietStep
<1> QED
  BY <1>1, <1>2, <1>3, <1>4, <1>5, <1>6 DEF TrapNext
-----------------------------------------------------------------------------
(* The theorems. *)

(* The invariant of traps and context switches, for any positive            *)
(* priorities and any number of traps (SAVE_ALL, schedule, env_run).        *)
THEOREM TrapInvariance == TrapSpec => []TrapInv
  BY TrapInitInv, TrapNextInv, PTL DEF TrapSpec

(* Frames, stacks and page tables keep their types: kframe never holds a     *)
(* user context, so env_run never copies one env's program into another.    *)
THEOREM TrapTyping == TrapSpec => []TrapTypeOK
<1>1. TrapInv => TrapTypeOK
  BY DEF TrapInv
<1> QED
  BY <1>1, TrapInvariance, PTL

(* sscratch is 0 in the kernel and curenv's frame in user mode at every trap *)
(* (kexcentry.S:13-18, genex.S:18-22).                                       *)
THEOREM ScratchIsRight == TrapSpec => []ScratchProtocol
<1>1. TrapInv => ScratchProtocol
  BY DEF TrapInv
<1> QED
  BY <1>1, TrapInvariance, PTL

(* In user mode curenv's own program runs in curenv's own address space     *)
(* (env_run, env.c:410-423).                                                *)
THEOREM RightProgramRuns == TrapSpec => []UserIsCurenv
<1>1. TrapInv => UserIsCurenv
  BY DEF TrapInv
<1> QED
  BY <1>1, TrapInvariance, PTL

(* An env whose struct was overwritten is stopped by the status test of     *)
(* env_run before it runs again (env.c:392-394).                            *)
THEOREM SmashedEnvsStop == TrapSpec => []SmashedNeverRuns
<1>1. TrapInv => SmashedNeverRuns
  BY DEF TrapInv
<1> QED
  BY <1>1, TrapInvariance, PTL

(* Only an env of the list whose struct was overwritten makes env_run panic, *)
(* and schedule always finds an env (env.c:392-394, sched.c:47-49).          *)
THEOREM PanicsHaveCause == TrapSpec => []PanicsExplained
<1>1. TrapInv => PanicsExplained
  BY DEF TrapInv
<1> QED
  BY <1>1, TrapInvariance, PTL
=============================================================================
