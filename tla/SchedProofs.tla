----------------------------- MODULE SchedProofs -----------------------------
(***************************************************************************)
(* For every set of envs and every choice of positive priorities: the list *)
(* holds exactly the runnable envs, every turn lasts exactly env_pri       *)
(* slices, nobody jumps the queue, a yield gives way and nobody waits      *)
(* longer than the turns of all others take.                               *)
(***************************************************************************)
EXTENDS Sched, TallyProofs, SequenceTheorems

(* A runnable env was given a priority of PRI, so its turn has a slice. *)
PriorityGiven == \A e \in Runnable : env_pri[e] \in PRI

(* No env runs before timerinit. *)
BootQuiet == timer = "off" => curenv = NULL

IInv ==
  /\ TypeOK
  /\ BootQuiet
  /\ RunnableIffQueued
  /\ CurenvIsFirst
  /\ SliceAccounting
  /\ PriorityGiven

(* Priorities are positive. *)
LEMMA PriPositive == \A x \in PRI : x \in Int /\ x >= 1
  BY SchedAssumption
-----------------------------------------------------------------------------
(* The list operations. *)

(* Removing an env from a list without repetitions. *)
LEMMA RemoveIndices ==
  ASSUME NEW q \in Seq(Env), NEW e \in Range(q)
  PROVE  \E k \in 1 .. Len(q) :
           /\ q[k] = e
           /\ TAILQ_REMOVE(q, e) \in Seq(Env)
           /\ Len(TAILQ_REMOVE(q, e)) = Len(q) - 1
           /\ \A i \in 1 .. Len(q) - 1 :
                TAILQ_REMOVE(q, e)[i] = IF i < k THEN q[i] ELSE q[i + 1]
<1> DEFINE k == CHOOSE i \in 1 .. Len(q) : q[i] = e
           l == SubSeq(q, 1, k - 1)
           r == SubSeq(q, k + 1, Len(q))
<1>1. k \in 1 .. Len(q) /\ q[k] = e
  BY DEF Range
<1>2. TAILQ_REMOVE(q, e) = l \o r
  BY DEF TAILQ_REMOVE, RemoveAt
<1> HIDE DEF k
<1>3. l \in Seq(Env) /\ Len(l) = k - 1 /\ \A i \in 1 .. k - 1 : l[i] = q[i]
  BY <1>1
<1>4. /\ r \in Seq(Env)
      /\ Len(r) = Len(q) - k
      /\ \A i \in 1 .. Len(q) - k : r[i] = q[k + i]
  BY <1>1
<1> HIDE DEF l, r
<1>5. l \o r \in Seq(Env) /\ Len(l \o r) = Len(q) - 1
  <2>1. l \o r \in Seq(Env) /\ Len(l \o r) = Len(l) + Len(r)
    BY <1>3, <1>4, ConcatProperties
  <2> QED
    BY <1>1, <1>3, <1>4, <2>1
<1>6. ASSUME NEW i \in 1 .. Len(q) - 1
      PROVE  (l \o r)[i] = IF i < k THEN q[i] ELSE q[i + 1]
  <2>1. CASE i < k
    BY <1>1, <1>3, <1>4, <2>1
  <2>2. CASE ~(i < k)
    <3>1. (l \o r)[i] = r[i - (k - 1)]
      <4>1. i \in 1 .. Len(l) + Len(r) /\ ~(i <= Len(l))
        BY <1>1, <1>3, <1>4, <2>2
      <4> QED
        BY <1>3, <1>4, <4>1, ConcatProperties
    <3>2. i - (k - 1) \in 1 .. Len(q) - k /\ k + (i - (k - 1)) = i + 1
      BY <1>1, <2>2
    <3> QED
      BY <1>4, <2>2, <3>1, <3>2
  <2> QED
    BY <2>1, <2>2
<1> QED
  BY <1>1, <1>2, <1>5, <1>6

(* What is left is the rest of the list, in the same order. *)
LEMMA RemoveFacts ==
  ASSUME NEW q \in Seq(Env), IsInjective(q), NEW e \in Range(q)
  PROVE  /\ TAILQ_REMOVE(q, e) \in Seq(Env)
         /\ IsInjective(TAILQ_REMOVE(q, e))
         /\ Range(TAILQ_REMOVE(q, e)) = Range(q) \ {e}
         /\ \A a, b \in Env \ {e} :
              Before(q, a, b) => Before(TAILQ_REMOVE(q, e), a, b)
         /\ q[1] # e => /\ TAILQ_REMOVE(q, e) # <<>>
                        /\ TAILQ_REMOVE(q, e)[1] = q[1]
<1> DEFINE r == TAILQ_REMOVE(q, e)
<1>1. PICK k \in 1 .. Len(q) :
           /\ q[k] = e
           /\ r \in Seq(Env)
           /\ Len(r) = Len(q) - 1
           /\ \A i \in 1 .. Len(q) - 1 : r[i] = IF i < k THEN q[i] ELSE q[i + 1]
  BY RemoveIndices
<1> HIDE DEF r
<1>2. \A i, j \in 1 .. Len(q) : q[i] = q[j] => i = j
  BY DEF IsInjective
<1>3. IsInjective(r)
  <2> SUFFICES ASSUME NEW i \in 1 .. Len(r), NEW j \in 1 .. Len(r), r[i] = r[j]
               PROVE  i = j
    BY <1>1 DEF IsInjective
  <2> QED
    BY <1>1, <1>2
<1>4. ASSUME NEW x \in Range(r)
      PROVE  x \in Range(q) \ {e}
  <2>1. PICK i \in 1 .. Len(r) : r[i] = x
    BY <1>1 DEF Range
  <2>2. PICK j \in 1 .. Len(q) : j # k /\ q[j] = x
    BY <1>1, <2>1
  <2> QED
    BY <1>1, <1>2, <2>2, SMTT(30) DEF Range
<1>5. ASSUME NEW j \in 1 .. Len(q), q[j] # e
      PROVE  /\ (IF j < k THEN j ELSE j - 1) \in 1 .. Len(r)
             /\ r[IF j < k THEN j ELSE j - 1] = q[j]
  BY <1>1, <1>5
<1>6. ASSUME NEW x \in Range(q) \ {e}
      PROVE  x \in Range(r)
  <2>1. PICK j \in 1 .. Len(q) : q[j] = x
    BY DEF Range
  <2> QED
    BY <1>1, <1>5, <2>1 DEF Range
<1>7. ASSUME NEW a \in Env \ {e}, NEW b \in Env \ {e}, Before(q, a, b)
      PROVE  Before(r, a, b)
  <2>1. PICK i \in 1 .. Len(q), j \in 1 .. Len(q) : i < j /\ q[i] = a /\ q[j] = b
    BY <1>7 DEF Before
  <2> DEFINE ii == IF i < k THEN i ELSE i - 1
             jj == IF j < k THEN j ELSE j - 1
  <2>2. /\ ii \in 1 .. Len(r) /\ r[ii] = a
        /\ jj \in 1 .. Len(r) /\ r[jj] = b
    BY <1>5, <2>1
  <2>3. ii < jj
    BY <1>1, <2>1
  <2> QED
    BY <2>2, <2>3 DEF Before
<1>8. ASSUME q[1] # e
      PROVE  r # <<>> /\ r[1] = q[1]
  <2>1. k > 1 /\ Len(q) > 1
    BY <1>1, <1>8
  <2> QED
    BY <1>1, <2>1
<1> QED
  BY <1>1, <1>3, <1>4, <1>6, <1>7, <1>8 DEF r

(* An env that is not on the list goes behind all others. *)
LEMMA InsertTailFacts ==
  ASSUME NEW q \in Seq(Env), IsInjective(q), NEW e \in Env, e \notin Range(q)
  PROVE  /\ TAILQ_INSERT_TAIL(q, e) \in Seq(Env)
         /\ IsInjective(TAILQ_INSERT_TAIL(q, e))
         /\ Range(TAILQ_INSERT_TAIL(q, e)) = Range(q) \cup {e}
         /\ \A a, b \in Env :
              Before(q, a, b) => Before(TAILQ_INSERT_TAIL(q, e), a, b)
         /\ TAILQ_INSERT_TAIL(q, e) # <<>>
         /\ q # <<>> => TAILQ_INSERT_TAIL(q, e)[1] = q[1]
         /\ q = <<>> => TAILQ_INSERT_TAIL(q, e)[1] = e
<1> DEFINE r == TAILQ_INSERT_TAIL(q, e)
<1>1. /\ r \in Seq(Env)
      /\ Len(r) = Len(q) + 1
      /\ r[Len(q) + 1] = e
      /\ \A i \in 1 .. Len(q) : r[i] = q[i]
  BY DEF TAILQ_INSERT_TAIL
<1> HIDE DEF r
<1>2. \A i \in 1 .. Len(q) : q[i] # e
  BY DEF Range
<1>3. \A i, j \in 1 .. Len(q) : q[i] = q[j] => i = j
  BY DEF IsInjective
<1>4. IsInjective(r)
  <2> SUFFICES ASSUME NEW i \in 1 .. Len(r), NEW j \in 1 .. Len(r), r[i] = r[j]
               PROVE  i = j
    BY <1>1 DEF IsInjective
  <2> QED
    BY <1>1, <1>2, <1>3
<1>5. Range(r) = Range(q) \cup {e}
  <2>1. \A i \in 1 .. Len(r) : r[i] \in Range(q) \cup {e}
    BY <1>1 DEF Range
  <2>2. \A i \in 1 .. Len(q) : q[i] \in Range(r)
    BY <1>1 DEF Range
  <2>3. e \in Range(r)
    BY <1>1 DEF Range
  <2>4. DOMAIN r = 1 .. Len(r) /\ DOMAIN q = 1 .. Len(q)
    BY <1>1
  <2>5. Range(r) \subseteq Range(q) \cup {e}
    BY <2>1, <2>4 DEF Range
  <2>6. Range(q) \subseteq Range(r)
    BY <2>2, <2>4 DEF Range
  <2> QED
    BY <2>3, <2>5, <2>6
<1>6. \A a, b \in Env : Before(q, a, b) => Before(r, a, b)
  BY <1>1 DEF Before
<1>7. r # <<>> /\ (q # <<>> => r[1] = q[1]) /\ (q = <<>> => r[1] = e)
  BY <1>1
<1> QED
  BY <1>1, <1>4, <1>5, <1>6, <1>7 DEF r

(* An env that is not on the list goes in front of all others. *)
LEMMA InsertHeadFacts ==
  ASSUME NEW q \in Seq(Env), IsInjective(q), NEW e \in Env, e \notin Range(q)
  PROVE  /\ TAILQ_INSERT_HEAD(q, e) \in Seq(Env)
         /\ IsInjective(TAILQ_INSERT_HEAD(q, e))
         /\ Range(TAILQ_INSERT_HEAD(q, e)) = Range(q) \cup {e}
         /\ \A a, b \in Env :
              Before(q, a, b) => Before(TAILQ_INSERT_HEAD(q, e), a, b)
<1> DEFINE r == TAILQ_INSERT_HEAD(q, e)
<1>1. /\ r \in Seq(Env)
      /\ Len(r) = Len(q) + 1
      /\ r[1] = e
      /\ \A i \in 1 .. Len(q) : r[i + 1] = q[i]
  BY DEF TAILQ_INSERT_HEAD
<1> HIDE DEF r
<1>2. \A i \in 1 .. Len(q) : q[i] # e
  BY DEF Range
<1>3. \A i, j \in 1 .. Len(q) : q[i] = q[j] => i = j
  BY DEF IsInjective
<1>4. \A i \in 2 .. Len(r) : i - 1 \in 1 .. Len(q) /\ r[i] = q[i - 1]
  BY <1>1
<1>5. IsInjective(r)
  <2> SUFFICES ASSUME NEW i \in 1 .. Len(r), NEW j \in 1 .. Len(r), r[i] = r[j]
               PROVE  i = j
    BY <1>1 DEF IsInjective
  <2>1. CASE i = 1 \/ j = 1
    BY <1>1, <1>2, <1>4, <2>1
  <2>2. CASE i # 1 /\ j # 1
    BY <1>3, <1>4, <2>2, SMTT(30)
  <2> QED
    BY <2>1, <2>2
<1>6. Range(r) = Range(q) \cup {e}
  <2>1. \A i \in 1 .. Len(r) : r[i] \in Range(q) \cup {e}
    BY <1>1, <1>4 DEF Range
  <2>2. \A i \in 1 .. Len(q) : q[i] \in Range(r)
    BY <1>1 DEF Range
  <2>3. e \in Range(r)
    BY <1>1 DEF Range
  <2>4. DOMAIN r = 1 .. Len(r) /\ DOMAIN q = 1 .. Len(q)
    BY <1>1
  <2>5. Range(r) \subseteq Range(q) \cup {e}
    BY <2>1, <2>4 DEF Range
  <2>6. Range(q) \subseteq Range(r)
    BY <2>2, <2>4 DEF Range
  <2> QED
    BY <2>3, <2>5, <2>6
<1>7. ASSUME NEW a \in Env, NEW b \in Env, Before(q, a, b)
      PROVE  Before(r, a, b)
  <2>1. PICK i \in 1 .. Len(q), j \in 1 .. Len(q) : i < j /\ q[i] = a /\ q[j] = b
    BY <1>7 DEF Before
  <2>2. /\ i + 1 \in 1 .. Len(r) /\ r[i + 1] = a
        /\ j + 1 \in 1 .. Len(r) /\ r[j + 1] = b
        /\ i + 1 < j + 1
    BY <1>1, <2>1
  <2> QED
    BY <2>2 DEF Before
<1> QED
  BY <1>1, <1>5, <1>6, <1>7 DEF r

(* Moving the first env to the tail keeps the others in order, and brings   *)
(* another env to the head unless there is none.                            *)
LEMMA RotatedFacts ==
  ASSUME NEW q \in Seq(Env), IsInjective(q),
         NEW st \in [Env -> {"FREE", "RUNNABLE"}],
         Range(q) = {x \in Env : st[x] = "RUNNABLE"},
         NEW e \in Env \cup {NULL},
         e # NULL => q # <<>> /\ q[1] = e
  PROVE  /\ Rotated(e, q, st) \in Seq(Env)
         /\ IsInjective(Rotated(e, q, st))
         /\ Range(Rotated(e, q, st)) = Range(q)
         /\ \A a, b \in Env :
              Before(q, a, b) /\ a # e => Before(Rotated(e, q, st), a, b)
         /\ e # NULL => /\ Rotated(e, q, st) # <<>>
                        /\ Rotated(e, q, st)[1] = e => Range(q) = {e}
<1> DEFINE m == TAILQ_REMOVE(q, e)
           r == Rotated(e, q, st)
<1>1. CASE e = NULL
  BY <1>1 DEF Rotated
<1>2. CASE e # NULL
  <2>1. e \in Range(q) /\ e \in Env /\ st[e] = "RUNNABLE"
    <3>1. 1 \in DOMAIN q /\ q[1] = e
      BY <1>2
    <3>2. e \in Range(q)
      BY <3>1 DEF Range
    <3> QED
      BY <3>2
  <2>2. r = TAILQ_INSERT_TAIL(m, e)
    BY <1>2, <2>1 DEF Rotated
  <2>3. /\ m \in Seq(Env)
        /\ IsInjective(m)
        /\ Range(m) = Range(q) \ {e}
        /\ \A a, b \in Env \ {e} : Before(q, a, b) => Before(m, a, b)
    BY <2>1, RemoveFacts
  <2> HIDE DEF m
  <2>4. /\ r \in Seq(Env)
        /\ IsInjective(r)
        /\ Range(r) = Range(m) \cup {e}
        /\ \A a, b \in Env : Before(m, a, b) => Before(r, a, b)
        /\ r # <<>>
        /\ m # <<>> => r[1] = m[1]
    BY <2>1, <2>2, <2>3, InsertTailFacts
  <2> HIDE DEF r
  <2>5. ASSUME NEW a \in Env, NEW b \in Env, Before(q, a, b), a # e
        PROVE  Before(r, a, b)
    <3>1. b # e
      <4>1. PICK i \in 1 .. Len(q), j \in 1 .. Len(q) :
              i < j /\ q[i] = a /\ q[j] = b
        BY <2>5 DEF Before
      <4>2. q[j] = q[1] => j = 1
        BY <1>2 DEF IsInjective
      <4> QED
        BY <1>2, <4>1, <4>2
    <3> QED
      BY <2>3, <2>4, <2>5, <3>1
  <2>6. ASSUME r[1] = e
        PROVE  Range(q) = {e}
    <3>1. m = <<>>
      <4>1. SUFFICES ASSUME m # <<>>
                     PROVE  FALSE
        OBVIOUS
      <4>2. 1 \in DOMAIN m /\ m[1] = e
        BY <2>3, <2>4, <2>6, <4>1
      <4> QED
        BY <2>3, <4>2 DEF Range
    <3>2. Range(m) = {}
      BY <3>1 DEF Range
    <3> QED
      BY <2>1, <2>3, <3>2
  <2> QED
    BY <2>1, <2>3, <2>4, <2>5, <2>6 DEF r
<1> QED
  BY <1>1, <1>2
-----------------------------------------------------------------------------
(* One call of schedule, by the timer interrupt, a yield or env_destroy. *)
LEMMA ScheduleFacts ==
  ASSUME IInv, Alive,
         NEW q \in Seq(Env), IsInjective(q),
         NEW st \in [Env -> {"FREE", "RUNNABLE"}],
         Range(q) = {x \in Env : st[x] = "RUNNABLE"},
         \A x \in Env : st[x] = "RUNNABLE" => env_pri[x] \in PRI,
         NEW e \in Env \cup {NULL},
         e # NULL => /\ q # <<>> /\ q[1] = e
                     /\ slice >= 1 /\ count >= 0 /\ slice + count = env_pri[e],
         NEW yield \in BOOLEAN,
         schedule(yield, e, q, st)
  PROVE  /\ env_sched_list' \in Seq(Env)
         /\ IsInjective(env_sched_list')
         /\ Range(env_sched_list') = Range(q)
         /\ \A a, b \in Env :
              Before(q, a, b) /\ a # e => Before(env_sched_list', a, b)
         /\ curenv' \in Env \cup {NULL}
         /\ count' \in Int
         /\ ticks' \in 0 .. TICK_WRAP - 1
         /\ timer' = "armed"
         /\ slice' \in Nat
         /\ waited' \in [Env -> Nat]
         /\ \/ panic' = "schedule" /\ Range(q) = {} /\ curenv' = e
            \/ /\ panic' = "no"
               /\ curenv' \in Env
               /\ env_sched_list' # <<>>
               /\ env_sched_list'[1] = curenv'
               /\ slice' >= 1
               /\ count' >= 0
               /\ slice' + count' = env_pri[curenv']
               /\ yield /\ e # NULL => curenv' # e \/ Range(q) = {e}
<1> USE SchedAssumption
<1>1. ticks' \in 0 .. TICK_WRAP - 1 /\ timer' = "armed"
  BY DEF schedule, do_timer, IInv, TypeOK
<1>2. /\ env_pri \in [Env -> PRI \cup {0}]
      /\ count \in Int
      /\ slice \in Nat
      /\ waited \in [Env -> Nat]
      /\ panic = "no"
  BY DEF IInv, TypeOK, Alive
<1>3. ASSUME NEW n \in Env, st[n] = "RUNNABLE",
             env_run(n, e, st) \/ env_run(n, n, st)
      PROVE  curenv' = n /\ waited' \in [Env -> Nat] /\ panic' = "no"
  <2>1. /\ curenv' = n
        /\ waited' = [x \in Env |->
             IF x = n \/ st[x] # "RUNNABLE" THEN 0 ELSE waited[x] + 1]
        /\ panic' = panic
    BY <1>3 DEF env_run
  <2> QED
    BY <1>2, <2>1
<1>4. CASE mustPick(yield, e, st)
  <2> DEFINE r == Rotated(e, q, st)
  <2>1. /\ r \in Seq(Env)
        /\ IsInjective(r)
        /\ Range(r) = Range(q)
        /\ \A a, b \in Env : Before(q, a, b) /\ a # e => Before(r, a, b)
        /\ e # NULL => r # <<>> /\ (r[1] = e => Range(q) = {e})
    BY RotatedFacts
  <2>2. env_sched_list' = r /\ pick(e, r, st)
    BY <1>4 DEF schedule
  <2> HIDE DEF r
  <2>3. CASE r = <<>>
    <3>1. Range(q) = {}
      BY <2>1, <2>3 DEF Range
    <3>2. /\ panic' = "schedule" /\ curenv' = e
          /\ count' = count /\ slice' = slice /\ waited' = waited
      BY <2>2, <2>3 DEF pick, TAILQ_EMPTY
    <3> QED
      BY <1>1, <1>2, <2>1, <2>2, <3>1, <3>2
  <2>4. CASE r # <<>>
    <3> DEFINE n == r[1]
    <3>1. n \in Env /\ st[n] = "RUNNABLE" /\ env_pri[n] \in PRI
      <4>1. 1 \in DOMAIN r
        BY <2>1, <2>4
      <4>2. n \in Range(q)
        BY <2>1, <4>1 DEF Range
      <4> QED
        BY <4>2
    <3>2. count' = env_pri[n] - 1 /\ slice' = 1 /\ env_run(n, e, st)
      BY <2>1, <2>2, <2>4 DEF pick, TAILQ_EMPTY, TAILQ_FIRST
    <3> HIDE DEF n
    <3>3. curenv' = n /\ waited' \in [Env -> Nat] /\ panic' = "no"
      BY <1>3, <3>1, <3>2
    <3>4. /\ count' \in Int /\ slice' \in Nat
          /\ slice' >= 1 /\ count' >= 0 /\ slice' + count' = env_pri[n]
      <4>1. env_pri[n] \in Int /\ env_pri[n] >= 1
        BY <3>1, PriPositive
      <4> QED
        BY <3>2, <4>1
    <3>5. env_sched_list' # <<>> /\ env_sched_list'[1] = n
      BY <2>2, <2>4 DEF n
    <3>6. e # NULL => n # e \/ Range(q) = {e}
      BY <2>1 DEF n
    <3> QED
      BY <1>1, <2>1, <2>2, <3>1, <3>3, <3>4, <3>5, <3>6
  <2> QED
    BY <2>3, <2>4
<1>5. CASE ~mustPick(yield, e, st)
  <2>1. ~yield /\ count # 0 /\ e # NULL /\ e \in Env /\ st[e] = "RUNNABLE"
    BY <1>5 DEF mustPick
  <2>2. /\ env_sched_list' = q
        /\ count' = count - 1
        /\ slice' = slice + 1
        /\ env_run(e, e, st)
    BY <1>5 DEF schedule, keep
  <2>3. curenv' = e /\ waited' \in [Env -> Nat] /\ panic' = "no"
    BY <1>3, <2>1, <2>2
  <2>4. /\ count' \in Int /\ slice' \in Nat
        /\ slice' >= 1 /\ count' >= 0 /\ slice' + count' = env_pri[e]
    <3>1. env_pri[e] \in Int
      BY <1>2, <2>1
    <3> QED
      BY <1>2, <2>1, <2>2, <3>1
  <2> QED
    BY <1>1, <2>1, <2>2, <2>3, <2>4
<1> QED
  BY <1>4, <1>5
-----------------------------------------------------------------------------
(* The steps. *)

(* The state after env_init satisfies the invariant. *)
LEMMA InitInv == Init => IInv
<1> SUFFICES ASSUME Init
             PROVE  IInv
  OBVIOUS
<1>1. TypeOK
  BY SchedAssumption DEF Init, TypeOK
<1>2. Runnable = {}
  BY DEF Init, Runnable
<1>3. RunnableIffQueued
  BY <1>2 DEF Init, RunnableIffQueued, IsInjective, Range
<1> QED
  BY <1>1, <1>2, <1>3 DEF Init, IInv, CurenvIsFirst, SliceAccounting,
                          PriorityGiven, BootQuiet, Alive

(* env_create keeps the invariant. *)
LEMMA CreateStep ==
  ASSUME IInv, NEW e \in Env, NEW priority \in PRI, env_create(e, priority)
  PROVE  /\ IInv'
         /\ \A a, b \in Env : Before(env_sched_list, a, b)
                                => Before(env_sched_list', a, b)
<1>1. /\ Alive
      /\ env_status[e] = "FREE"
      /\ env_pri' = [env_pri EXCEPT ![e] = priority]
      /\ env_status' = [env_status EXCEPT ![e] = "RUNNABLE"]
      /\ env_sched_list' = TAILQ_INSERT_HEAD(env_sched_list, e)
      /\ UNCHANGED <<curenv, count, ticks, timer, panic, slice, waited>>
      /\ curenv = NULL
  BY DEF env_create, IInv, BootQuiet
<1>2. /\ TypeOK
      /\ IsInjective(env_sched_list)
      /\ Range(env_sched_list) = Runnable
  BY DEF IInv, RunnableIffQueued
<1>3. e \notin Runnable /\ Runnable' = Runnable \cup {e}
  BY <1>1, <1>2 DEF Runnable, TypeOK
<1>4. /\ env_sched_list' \in Seq(Env)
      /\ IsInjective(env_sched_list')
      /\ Range(env_sched_list') = Range(env_sched_list) \cup {e}
      /\ \A a, b \in Env : Before(env_sched_list, a, b)
                             => Before(env_sched_list', a, b)
  BY <1>1, <1>2, <1>3, InsertHeadFacts DEF TypeOK
<1>5. TypeOK'
  BY <1>1, <1>2, <1>4 DEF TypeOK
<1>6. RunnableIffQueued'
  BY <1>2, <1>3, <1>4 DEF RunnableIffQueued
<1>7. PriorityGiven'
  BY <1>1, <1>2, <1>3 DEF PriorityGiven, IInv, TypeOK, Runnable
<1>8. CurenvIsFirst' /\ SliceAccounting' /\ BootQuiet'
  BY <1>1 DEF CurenvIsFirst, SliceAccounting, BootQuiet, Alive
<1> QED
  BY <1>4, <1>5, <1>6, <1>7, <1>8 DEF IInv

(* schedule from the current state. *)
LEMMA ScheduleStep ==
  ASSUME IInv, Alive, NEW yield \in BOOLEAN,
         schedule(yield, curenv, env_sched_list, env_status),
         UNCHANGED <<env_status, env_pri>>
  PROVE  /\ IInv'
         /\ \A a, b \in Env : Before(env_sched_list, a, b) /\ a # curenv
                                => Before(env_sched_list', a, b)
         /\ yield /\ curenv # NULL => curenv' # curenv \/ Runnable = {curenv}
<1>1. /\ TypeOK
      /\ IsInjective(env_sched_list)
      /\ Range(env_sched_list) = {x \in Env : env_status[x] = "RUNNABLE"}
      /\ \A x \in Env : env_status[x] = "RUNNABLE" => env_pri[x] \in PRI
      /\ curenv # NULL =>
           /\ env_sched_list # <<>> /\ env_sched_list[1] = curenv
           /\ slice >= 1 /\ count >= 0 /\ slice + count = env_pri[curenv]
  BY DEF IInv, RunnableIffQueued, CurenvIsFirst, SliceAccounting,
         PriorityGiven, Runnable
<1>2. /\ env_sched_list \in Seq(Env)
      /\ env_status \in [Env -> {"FREE", "RUNNABLE"}]
      /\ curenv \in Env \cup {NULL}
  BY <1>1 DEF TypeOK
<1>3. /\ env_sched_list' \in Seq(Env)
      /\ IsInjective(env_sched_list')
      /\ Range(env_sched_list') = Range(env_sched_list)
      /\ \A a, b \in Env : Before(env_sched_list, a, b) /\ a # curenv
                             => Before(env_sched_list', a, b)
      /\ curenv' \in Env \cup {NULL}
      /\ count' \in Int
      /\ ticks' \in 0 .. TICK_WRAP - 1
      /\ timer' = "armed"
      /\ slice' \in Nat
      /\ waited' \in [Env -> Nat]
      /\ \/ panic' = "schedule" /\ Range(env_sched_list) = {} /\ curenv' = curenv
         \/ /\ panic' = "no"
            /\ curenv' \in Env
            /\ env_sched_list' # <<>>
            /\ env_sched_list'[1] = curenv'
            /\ slice' >= 1
            /\ count' >= 0
            /\ slice' + count' = env_pri[curenv']
            /\ yield /\ curenv # NULL =>
                 curenv' # curenv \/ Range(env_sched_list) = {curenv}
  BY <1>1, <1>2, ScheduleFacts, ZenonT(30)
<1>4. TypeOK'
  BY <1>1, <1>3 DEF TypeOK
<1>5. Runnable' = Runnable /\ Runnable = Range(env_sched_list)
  BY <1>1 DEF Runnable
<1>6. RunnableIffQueued' /\ PriorityGiven'
  BY <1>3, <1>5 DEF RunnableIffQueued, PriorityGiven, IInv
<1>7. CurenvIsFirst' /\ SliceAccounting' /\ BootQuiet'
  BY <1>3 DEF CurenvIsFirst, SliceAccounting, BootQuiet, Alive
<1>8. curenv # NULL => env_sched_list # <<>> /\ Range(env_sched_list) # {}
  <2>1. curenv # NULL => 1 \in DOMAIN env_sched_list
    BY <1>1, <1>2
  <2> QED
    BY <1>1, <2>1 DEF Range
<1> QED
  BY <1>3, <1>4, <1>5, <1>6, <1>7, <1>8 DEF IInv

(* env_destroy keeps the invariant, whether or not e is running. *)
LEMMA DestroyStep ==
  ASSUME IInv, NEW e \in Env, env_destroy(e)
  PROVE  /\ IInv'
         /\ \A a, b \in Env :
              /\ Before(env_sched_list, a, b)
              /\ {a, b} \subseteq Range(env_sched_list')
              => Before(env_sched_list', a, b)
<1>1. /\ Alive /\ timer # "off" /\ env_status[e] = "RUNNABLE"
      /\ env_pri' = env_pri
  BY DEF env_destroy
<1>2. CASE ~uvmunmap_returns
  <2>1. /\ panic' = "uvmunmap"
        /\ UNCHANGED <<env_status, env_sched_list, curenv, count, ticks,
                       timer, slice, waited>>
    BY <1>2 DEF env_destroy
  <2>2. TypeOK'
    BY <1>1, <2>1 DEF IInv, TypeOK
  <2> QED
    BY <1>1, <2>1, <2>2
      DEF IInv, RunnableIffQueued, CurenvIsFirst, SliceAccounting, Runnable,
          PriorityGiven, BootQuiet, Alive
<1>3. CASE uvmunmap_returns
  <2> DEFINE q == TAILQ_REMOVE(env_sched_list, e)
             st == [env_status EXCEPT ![e] = "FREE"]
  <2>1. /\ TypeOK
        /\ env_sched_list \in Seq(Env)
        /\ IsInjective(env_sched_list)
        /\ Range(env_sched_list) = Runnable
        /\ e \in Range(env_sched_list)
    BY <1>1 DEF IInv, RunnableIffQueued, Runnable, TypeOK
  <2>2. /\ q \in Seq(Env)
        /\ IsInjective(q)
        /\ Range(q) = Range(env_sched_list) \ {e}
        /\ \A a, b \in Env \ {e} : Before(env_sched_list, a, b) => Before(q, a, b)
        /\ env_sched_list[1] # e => q # <<>> /\ q[1] = env_sched_list[1]
    BY <2>1, RemoveFacts
  <2>3. /\ env_status' = st
        /\ IF curenv = e
           THEN schedule(TRUE, NULL, q, st)
           ELSE /\ env_sched_list' = q
                /\ UNCHANGED <<curenv, count, ticks, timer, panic, slice, waited>>
    BY <1>3 DEF env_destroy, env_free
  <2> HIDE DEF q
  <2>4. /\ st \in [Env -> {"FREE", "RUNNABLE"}]
        /\ Range(q) = {x \in Env : st[x] = "RUNNABLE"}
        /\ \A x \in Env : st[x] = "RUNNABLE" => env_pri[x] \in PRI
    <3>1. st \in [Env -> {"FREE", "RUNNABLE"}]
      BY <2>1 DEF TypeOK
    <3>2. {x \in Env : st[x] = "RUNNABLE"} = Runnable \ {e}
      BY <2>1 DEF TypeOK, Runnable
    <3>3. \A x \in Runnable : env_pri[x] \in PRI
      BY DEF IInv, PriorityGiven
    <3> QED
      BY <2>1, <2>2, <3>1, <3>2, <3>3
  <2>5. Runnable' = Range(q) /\ PriorityGiven'
    BY <1>1, <2>3, <2>4 DEF Runnable, PriorityGiven
  <2> HIDE DEF st
  <2>6. CASE curenv = e
    <3>1. /\ env_sched_list' \in Seq(Env)
          /\ IsInjective(env_sched_list')
          /\ Range(env_sched_list') = Range(q)
          /\ \A a, b \in Env : Before(q, a, b) /\ a # NULL
                                 => Before(env_sched_list', a, b)
          /\ curenv' \in Env \cup {NULL}
          /\ count' \in Int
          /\ ticks' \in 0 .. TICK_WRAP - 1
          /\ timer' = "armed"
          /\ slice' \in Nat
          /\ waited' \in [Env -> Nat]
          /\ \/ panic' = "schedule" /\ Range(q) = {} /\ curenv' = NULL
             \/ /\ panic' = "no"
                /\ curenv' \in Env
                /\ env_sched_list' # <<>>
                /\ env_sched_list'[1] = curenv'
                /\ slice' >= 1
                /\ count' >= 0
                /\ slice' + count' = env_pri[curenv']
      BY <1>1, <2>2, <2>3, <2>4, <2>6, ScheduleFacts
    <3>2. TypeOK'
      BY <1>1, <2>1, <2>3, <2>4, <3>1 DEF TypeOK
    <3>3. RunnableIffQueued'
      BY <2>5, <3>1 DEF RunnableIffQueued
    <3>4. CurenvIsFirst' /\ SliceAccounting' /\ BootQuiet'
      BY <1>1, <3>1 DEF CurenvIsFirst, SliceAccounting, BootQuiet, Alive
    <3> QED
      BY <2>2, <2>5, <3>1, <3>2, <3>3, <3>4, SchedAssumption DEF IInv
  <2>7. CASE curenv # e
    <3>1. /\ env_sched_list' = q
          /\ UNCHANGED <<curenv, count, ticks, timer, panic, slice, waited>>
      BY <2>3, <2>7
    <3>2. TypeOK'
      BY <1>1, <2>1, <2>2, <2>3, <2>4, <3>1 DEF TypeOK
    <3>3. RunnableIffQueued'
      BY <2>2, <2>5, <3>1 DEF RunnableIffQueued
    <3>4. CurenvIsFirst'
      BY <1>1, <2>2, <2>7, <3>1 DEF IInv, CurenvIsFirst, Alive
    <3>5. SliceAccounting' /\ BootQuiet'
      BY <1>1, <3>1 DEF IInv, SliceAccounting, BootQuiet, Alive
    <3> QED
      BY <2>2, <2>5, <3>1, <3>2, <3>3, <3>4, <3>5 DEF IInv
  <2> QED
    BY <2>6, <2>7
<1> QED
  BY <1>2, <1>3

(* The steps that leave the list and the running env alone. *)
LEMMA QuietStep ==
  ASSUME IInv, timerinit \/ TimerExpire \/ UNCHANGED vars
  PROVE  IInv' /\ env_sched_list' = env_sched_list /\ curenv' = curenv
<1>1. /\ UNCHANGED <<env_status, env_pri, env_sched_list, curenv, count, panic,
                     slice, waited>>
      /\ ticks' \in {ticks, 0}
      /\ timer' \in {"armed", "pending", timer}
      /\ timer' = "off" => timer = "off"
  BY DEF timerinit, TimerExpire, vars
<1>2. TypeOK'
  BY <1>1, SchedAssumption DEF IInv, TypeOK
<1> QED
  BY <1>1, <1>2
    DEF IInv, RunnableIffQueued, CurenvIsFirst, SliceAccounting, Runnable,
        PriorityGiven, BootQuiet, Alive

(* Every step of the scheduler keeps the invariant. *)
LEMMA NextInv == IInv /\ [Next]_vars => IInv'
<1> SUFFICES ASSUME IInv, [Next]_vars
             PROVE  IInv'
  OBVIOUS
<1>1. CASE \E e \in Env, priority \in PRI : env_create(e, priority)
  BY <1>1, CreateStep
<1>2. CASE TimerInterrupt
  BY <1>2, ScheduleStep DEF TimerInterrupt
<1>3. CASE Yield
  BY <1>3, ScheduleStep DEF Yield
<1>4. CASE \E e \in Env : env_destroy(e)
  BY <1>4, DestroyStep
<1>5. CASE timerinit \/ TimerExpire \/ UNCHANGED vars
  BY <1>5, QuietStep
<1> QED
  BY <1>1, <1>2, <1>3, <1>4, <1>5 DEF Next
-----------------------------------------------------------------------------
(* The theorems. *)

(* The inductive invariant of the scheduler holds at all times, for any set *)
(* of envs and any positive priorities (schedule, env_create, env_destroy). *)
THEOREM Invariance == Spec => []IInv
  BY InitInv, NextInv, PTL DEF Spec

(* The invariant that env.c:19 states: the list holds the runnable envs and *)
(* only them, each once.                                                    *)
THEOREM ListIsRunnable == Spec => []RunnableIffQueued
<1>1. IInv => RunnableIffQueued
  BY DEF IInv
<1> QED
  BY <1>1, Invariance, PTL

(* Every turn lasts at most env_pri slices, counted without going negative. *)
THEOREM TurnsAreExact == Spec => []SliceAccounting
<1>1. IInv => SliceAccounting
  BY DEF IInv
<1> QED
  BY <1>1, Invariance, PTL

(* Of two envs that stay on the list only the running one falls behind. *)
THEOREM QueueOrder == Spec => NoOvertaking
<1> DEFINE Order ==
      \A a, b \in Env :
        /\ Before(env_sched_list, a, b)
        /\ a # curenv
        /\ {a, b} \subseteq Range(env_sched_list')
        => Before(env_sched_list', a, b)
<1>1. ASSUME IInv, [Next]_vars
      PROVE  Order
  <2>1. CASE \E e \in Env, priority \in PRI : env_create(e, priority)
    BY <1>1, <2>1, CreateStep
  <2>2. CASE TimerInterrupt
    BY <1>1, <2>2, ScheduleStep DEF TimerInterrupt
  <2>3. CASE Yield
    BY <1>1, <2>3, ScheduleStep DEF Yield
  <2>4. CASE \E e \in Env : env_destroy(e)
    BY <1>1, <2>4, DestroyStep
  <2>5. CASE timerinit \/ TimerExpire \/ UNCHANGED vars
    BY <1>1, <2>5, QuietStep
  <2> QED
    BY <1>1, <2>1, <2>2, <2>3, <2>4, <2>5 DEF Next
<1>2. IInv /\ [Next]_vars => [Order]_vars
  BY <1>1
<1> QED
  BY <1>2, Invariance, PTL DEF Spec, NoOvertaking

(* schedule(1) hands the CPU to another env whenever there is one. *)
THEOREM YieldWorks == Spec => YieldGivesWay
<1>1. IInv /\ [Next]_vars =>
        [Yield /\ curenv # NULL => curenv' # curenv \/ Runnable = {curenv}]_vars
  BY ScheduleStep DEF Yield
<1> QED
  BY <1>1, Invariance, PTL DEF Spec, YieldGivesWay
-----------------------------------------------------------------------------
(* How long an env waits. *)

(* The envs that do not come before e on the list: their turns may have     *)
(* passed since e last ran.                                                 *)
Behind(q, e) == Env \ ({e} \cup {f \in Env : Before(q, f, e)})

(* The slices of c's turn, so far, that e has been waiting through. *)
Lead(c, e) == IF c # NULL /\ c # e THEN slice ELSE 0

(* Since e ran last only envs behind it had their turns, and the running    *)
(* env a part of its own.                                                   *)
WaitsCovered ==
  \A e \in Runnable :
    waited[e] <= Tally(env_pri, Behind(env_sched_list, e)) + Lead(curenv, e)

WaitInv ==
  /\ timer = "off" => \A e \in Env : waited[e] = 0
  /\ Alive => (curenv # NULL => waited[curenv] = 0) /\ WaitsCovered
  /\ BoundedWait

(* Of two envs that both stay on the list, the one that is ahead after a    *)
(* step was ahead before it, unless that step moved the other one back.     *)
LEMMA AheadKept ==
  ASSUME NEW q \in Seq(Env), IsInjective(q), NEW r \in Seq(Env), IsInjective(r),
         NEW f \in Range(q), NEW a \in Range(q), Before(r, f, a),
         Before(q, a, f) => Before(r, a, f)
  PROVE  Before(q, f, a)
<1>1. \A i, j \in 1 .. Len(r) : r[i] = r[j] => i = j
  BY DEF IsInjective
<1>2. PICK i \in 1 .. Len(r), j \in 1 .. Len(r) : i < j /\ r[i] = f /\ r[j] = a
  BY DEF Before
<1>3. f # a
  BY <1>1, <1>2
<1>4. ~Before(r, a, f)
  <2> SUFFICES ASSUME NEW k \in 1 .. Len(r), NEW l \in 1 .. Len(r),
                      k < l, r[k] = a, r[l] = f
               PROVE  FALSE
    BY DEF Before
  <2>1. k = j /\ l = i
    BY <1>1, <1>2
  <2> QED
    BY <1>2, <2>1
<1>5. PICK k \in 1 .. Len(q) : q[k] = f
  BY DEF Range
<1>6. PICK l \in 1 .. Len(q) : q[l] = a
  BY DEF Range
<1>7. k < l \/ l < k
  BY <1>3, <1>5, <1>6
<1> QED
  BY <1>4, <1>5, <1>6, <1>7 DEF Before

(* Members of a list are envs, and who is before whom are members. *)
LEMMA BeforeMembers ==
  ASSUME NEW q \in Seq(Env), NEW a, NEW b, Before(q, a, b)
  PROVE  a \in Range(q) /\ b \in Range(q)
  BY DEF Before, Range

(* The first of a list is before all others. *)
LEMMA FirstIsAhead ==
  ASSUME NEW q \in Seq(Env), q # <<>>, NEW a \in Range(q), a # q[1]
  PROVE  q[1] \in Env /\ Before(q, q[1], a)
<1>1. PICK k \in 1 .. Len(q) : q[k] = a
  BY DEF Range
<1>2. k # 1 /\ 1 \in 1 .. Len(q) /\ 1 < k
  BY <1>1
<1> QED
  BY <1>1, <1>2 DEF Before

(* Sums over the envs behind one. *)
LEMMA BehindFinite ==
  ASSUME NEW q, NEW a
  PROVE  IsFiniteSet(Behind(q, a)) /\ Behind(q, a) \in SUBSET Env
<1>1. Behind(q, a) \in SUBSET Env
  BY DEF Behind
<1> QED
  BY <1>1, SchedAssumption, FS_Subset

(* When c, ahead of a before, is no longer ahead of it, c's whole turn has  *)
(* become part of what a may have waited for.                               *)
LEMMA TurnPasses ==
  ASSUME NEW g \in [Env -> Nat], NEW q, NEW r, NEW a \in Env, NEW c \in Env,
         Before(q, c, a), a # c,
         \A f \in Env : Before(r, f, a) => Before(q, f, a) /\ f # c
  PROVE  Tally(g, Behind(q, a)) + g[c] <= Tally(g, Behind(r, a))
<1>1. c \notin Behind(q, a)
  BY DEF Behind
<1>2. Behind(q, a) \cup {c} \subseteq Behind(r, a)
  BY DEF Behind
<1>3. Tally(g, Behind(q, a) \cup {c}) = Tally(g, Behind(q, a)) + g[c]
  BY <1>1, BehindFinite, TallyAdd
<1>4. Tally(g, Behind(q, a) \cup {c}) <= Tally(g, Behind(r, a))
  BY <1>2, BehindFinite, TallyMonotone
<1> QED
  BY <1>3, <1>4

(* When nobody new comes ahead of a, the sum does not shrink. *)
LEMMA BehindGrows ==
  ASSUME NEW g \in [Env -> Nat], NEW q, NEW r, NEW a \in Env,
         \A f \in Env : Before(r, f, a) => Before(q, f, a)
  PROVE  Tally(g, Behind(q, a)) <= Tally(g, Behind(r, a))
<1>1. Behind(q, a) \subseteq Behind(r, a)
  BY DEF Behind
<1> QED
  BY <1>1, BehindFinite, TallyMonotone

(* The env that Rotated moves is the last one then. *)
LEMMA RotatedLast ==
  ASSUME NEW q \in Seq(Env), IsInjective(q),
         NEW st \in [Env -> {"FREE", "RUNNABLE"}],
         NEW e \in Range(q), e # NULL, st[e] = "RUNNABLE", NEW a
  PROVE  Before(Rotated(e, q, st), e, a) => a = e
<1> DEFINE m == TAILQ_REMOVE(q, e)
           r == Rotated(e, q, st)
<1>1. m \in Seq(Env) /\ Range(m) = Range(q) \ {e}
  BY RemoveFacts
<1>2. r = Append(m, e)
  BY DEF Rotated, TAILQ_INSERT_TAIL
<1> HIDE DEF m
<1>3. e \in Env
  BY DEF Range
<1>4. /\ Len(r) = Len(m) + 1 /\ r[Len(m) + 1] = e
      /\ \A i \in 1 .. Len(m) : r[i] = m[i]
  BY <1>1, <1>2, <1>3
<1> HIDE DEF r
<1>5. ASSUME NEW i \in 1 .. Len(m)
      PROVE  m[i] # e
  <2>1. i \in DOMAIN m
    BY <1>1
  <2>2. m[i] \in Range(m)
    BY <2>1 DEF Range
  <2> QED
    BY <1>1, <2>2
<1> SUFFICES ASSUME NEW i \in 1 .. Len(r), NEW j \in 1 .. Len(r),
                    i < j, r[i] = e, r[j] = a
             PROVE  a = e
  BY DEF Before, r
<1>6. i \in 1 .. Len(m)
  BY <1>1, <1>4
<1> QED
  BY <1>4, <1>5, <1>6

(* What one call of schedule adds to the waiting. *)
LEMMA ScheduleWaits ==
  ASSUME IInv, Alive,
         NEW q \in Seq(Env), IsInjective(q),
         NEW st \in [Env -> {"FREE", "RUNNABLE"}],
         Range(q) = {x \in Env : st[x] = "RUNNABLE"},
         NEW e \in Env \cup {NULL},
         e # NULL => /\ q # <<>> /\ q[1] = e
                     /\ slice \in Nat /\ slice <= env_pri[e]
                     /\ waited[e] = 0,
         \A a \in Range(q) :
           waited[a] <= Tally(env_pri, Behind(q, a)) + Lead(e, a),
         NEW yield \in BOOLEAN,
         schedule(yield, e, q, st),
         panic' = "no"
  PROVE  /\ waited'[curenv'] = 0
         /\ \A a \in Range(q) :
              waited'[a] <= Tally(env_pri, Behind(env_sched_list', a))
                              + (IF curenv' # a THEN slice' ELSE 0)
<1> USE SchedAssumption
<1>1. /\ env_pri \in [Env -> Nat]
      /\ slice \in Nat
      /\ waited \in [Env -> Nat]
  <2>1. /\ env_pri \in [Env -> PRI \cup {0}]
        /\ slice \in Nat
        /\ waited \in [Env -> Nat]
    BY DEF IInv, TypeOK
  <2>2. PRI \cup {0} \subseteq Nat
    OBVIOUS
  <2> QED
    BY <2>1, <2>2
<1>2. ASSUME NEW n \in Env, NEW p, env_run(n, p, st)
      PROVE  /\ curenv' = n
             /\ waited' = [x \in Env |->
                  IF x = n \/ st[x] # "RUNNABLE" THEN 0 ELSE waited[x] + 1]
  <2>1. st[n] = "RUNNABLE"
    BY <1>2 DEF env_run
  <2> QED
    BY <1>2, <2>1 DEF env_run
<1>3. \A a \in Range(q) : a \in Env /\ Tally(env_pri, Behind(q, a)) \in Nat
                            /\ Tally(env_pri, Behind(env_sched_list', a)) \in Nat
  <2>1. Range(q) \subseteq Env
    OBVIOUS
  <2> QED
    BY <1>1, <2>1, BehindFinite, TallyNat
<1>4. CASE mustPick(yield, e, st)
  <2> DEFINE r == Rotated(e, q, st)
  <2>1. /\ r \in Seq(Env)
        /\ IsInjective(r)
        /\ Range(r) = Range(q)
        /\ \A a, b \in Env : Before(q, a, b) /\ a # e => Before(r, a, b)
    BY RotatedFacts
  <2>2. env_sched_list' = r /\ pick(e, r, st)
    BY <1>4 DEF schedule
  <2>3. e # NULL => e \in Range(q) /\ st[e] = "RUNNABLE"
    <3> SUFFICES ASSUME e # NULL
                 PROVE  e \in Range(q) /\ st[e] = "RUNNABLE"
      OBVIOUS
    <3>1. 1 \in DOMAIN q /\ q[1] = e
      OBVIOUS
    <3>2. e \in Range(q)
      BY <3>1 DEF Range
    <3> QED
      BY <3>2
  <2>4. \A a : e # NULL /\ Before(r, e, a) => a = e
    BY <2>3, RotatedLast
  <2> HIDE DEF r
  <2>5. r # <<>>
    BY <2>2 DEF pick, TAILQ_EMPTY
  <2>6. r[1] \in Env /\ r[1] = Head(r)
    BY <2>1, <2>5
  <2>7. slice' = 1 /\ env_run(r[1], e, st)
    BY <2>2, <2>5, <2>6 DEF pick, TAILQ_EMPTY, TAILQ_FIRST
  <2>8. /\ curenv' = r[1]
        /\ waited' = [x \in Env |->
             IF x = r[1] \/ st[x] # "RUNNABLE" THEN 0 ELSE waited[x] + 1]
    BY <1>2, <2>6, <2>7
  <2>9. ASSUME NEW a \in Range(q), a # r[1]
        PROVE  waited[a] <= Tally(env_pri, Behind(r, a))
    <3>1. a \in Env /\ waited[a] \in Nat
      BY <1>1, <1>3
    <3>2. ASSUME NEW f \in Env, Before(r, f, a), a # e
          PROVE  Before(q, f, a) /\ f # e
      <4>1. f \in Range(q)
        BY <2>1, <3>2, BeforeMembers
      <4>2. Before(q, f, a)
        BY <2>1, <3>1, <3>2, <4>1, AheadKept
      <4>3. f # e
        BY <2>3, <2>4, <3>2, SchedAssumption
      <4> QED
        BY <4>2, <4>3
    <3>3. CASE a = e
      BY <1>1, <1>3, <2>2, <3>1, <3>3
    <3>4. CASE a # e /\ e = NULL
      <4>1. waited[a] <= Tally(env_pri, Behind(q, a)) + 0
        BY <3>4 DEF Lead
      <4>2. Tally(env_pri, Behind(q, a)) <= Tally(env_pri, Behind(r, a))
        BY <1>1, <3>1, <3>2, <3>4, BehindGrows
      <4> QED
        BY <1>3, <2>2, <3>1, <4>1, <4>2
    <3>5. CASE a # e /\ e # NULL
      <4>1. waited[a] <= Tally(env_pri, Behind(q, a)) + slice
        BY <3>5 DEF Lead
      <4>2. Before(q, e, a)
        BY <3>5, FirstIsAhead
      <4>3. Tally(env_pri, Behind(q, a)) + env_pri[e] <= Tally(env_pri, Behind(r, a))
        BY <1>1, <3>1, <3>2, <3>5, <4>2, TurnPasses
      <4>4. env_pri[e] \in Nat /\ slice <= env_pri[e]
        BY <1>1, <3>5
      <4> QED
        BY <1>1, <1>3, <2>2, <3>1, <4>1, <4>3, <4>4
    <3> QED
      BY <3>3, <3>4, <3>5
  <2>10. ASSUME NEW a \in Range(q)
         PROVE  waited'[a] <= Tally(env_pri, Behind(r, a))
                                + (IF r[1] # a THEN 1 ELSE 0)
    <3>1. a \in Env /\ waited[a] \in Nat /\ Tally(env_pri, Behind(r, a)) \in Nat
      BY <1>1, <1>3, <2>2
    <3>2. CASE a = r[1]
      BY <2>8, <3>1, <3>2
    <3>3. CASE a # r[1]
      <4>1. waited'[a] <= waited[a] + 1
        BY <2>8, <3>1
      <4>2. waited'[a] \in Nat
        BY <2>8, <3>1
      <4> QED
        BY <2>9, <3>1, <3>3, <4>1, <4>2
    <3> QED
      BY <3>2, <3>3
  <2> QED
    BY <2>2, <2>6, <2>7, <2>8, <2>10
<1>5. CASE ~mustPick(yield, e, st)
  <2>1. e # NULL /\ e \in Env /\ st[e] = "RUNNABLE"
    BY <1>5 DEF mustPick
  <2>2. env_sched_list' = q /\ slice' = slice + 1 /\ env_run(e, e, st)
    BY <1>5 DEF schedule, keep
  <2>3. /\ curenv' = e
        /\ waited' = [x \in Env |->
             IF x = e \/ st[x] # "RUNNABLE" THEN 0 ELSE waited[x] + 1]
    BY <1>2, <2>1, <2>2
  <2>4. ASSUME NEW a \in Range(q)
        PROVE  waited'[a] <= Tally(env_pri, Behind(q, a))
                               + (IF e # a THEN slice + 1 ELSE 0)
    <3>1. /\ a \in Env /\ waited[a] \in Nat
          /\ Tally(env_pri, Behind(q, a)) \in Nat
      BY <1>1, <1>3
    <3>2. CASE a = e
      BY <2>3, <3>1, <3>2
    <3>3. CASE a # e
      <4>1. waited[a] <= Tally(env_pri, Behind(q, a)) + slice
        BY <2>1, <3>3 DEF Lead
      <4>2. waited'[a] <= waited[a] + 1 /\ waited'[a] \in Nat
        BY <2>3, <3>1
      <4> QED
        BY <1>1, <3>1, <3>3, <4>1, <4>2
    <3> QED
      BY <3>2, <3>3
  <2> QED
    BY <2>1, <2>2, <2>3, <2>4
<1> QED
  BY <1>4, <1>5

(* The envs that come before e and the ones behind it are all the others. *)
LEMMA BoundFromWaits == IInv /\ Alive /\ WaitsCovered => BoundedWait
<1> SUFFICES ASSUME IInv, Alive, WaitsCovered, NEW e \in Runnable
             PROVE  waited[e] <= Tally(env_pri, Env \ {e})
  BY DEF BoundedWait
<1> DEFINE B == Behind(env_sched_list, e)
<1>1. /\ env_pri \in [Env -> PRI \cup {0}] /\ PRI \cup {0} \subseteq Nat
      /\ waited \in [Env -> Nat] /\ slice \in Nat /\ count \in Int
      /\ env_sched_list \in Seq(Env) /\ curenv \in Env \cup {NULL}
      /\ e \in Env /\ e \in Range(env_sched_list)
  BY SchedAssumption DEF IInv, TypeOK, Runnable, RunnableIffQueued
<1>2. env_pri \in [Env -> Nat]
  BY <1>1
<1>3. IsFiniteSet(Env \ {e})
  BY SchedAssumption, FS_Subset
<1>4. B \subseteq Env \ {e} /\ IsFiniteSet(B) /\ B \in SUBSET Env
  BY BehindFinite DEF Behind
<1>5. Tally(env_pri, B) \in Nat /\ Tally(env_pri, Env \ {e}) \in Nat
  BY <1>2, <1>3, <1>4, TallyNat
<1>6. CASE curenv = NULL \/ curenv = e
  <2>1. waited[e] <= Tally(env_pri, B) + 0
    BY <1>6 DEF Lead, WaitsCovered
  <2>2. Tally(env_pri, B) <= Tally(env_pri, Env \ {e})
    BY <1>2, <1>3, <1>4, TallyMonotone
  <2> QED
    BY <1>1, <1>5, <2>1, <2>2
<1>7. CASE curenv # NULL /\ curenv # e
  <2>1. waited[e] <= Tally(env_pri, B) + slice
    BY <1>7 DEF Lead, WaitsCovered
  <2>2. /\ env_sched_list # <<>> /\ env_sched_list[1] = curenv
        /\ count >= 0 /\ slice + count = env_pri[curenv] /\ curenv \in Env
    BY <1>1, <1>7 DEF IInv, CurenvIsFirst, SliceAccounting
  <2>3. slice <= env_pri[curenv] /\ env_pri[curenv] \in Nat
    BY <1>1, <1>2, <2>2
  <2>4. curenv \notin B
    BY <1>1, <1>7, <2>2, FirstIsAhead DEF Behind
  <2>5. Tally(env_pri, B \cup {curenv}) = Tally(env_pri, B) + env_pri[curenv]
    BY <1>2, <1>4, <2>2, <2>4, TallyAdd
  <2>6. Tally(env_pri, B \cup {curenv}) <= Tally(env_pri, Env \ {e})
    BY <1>2, <1>3, <1>4, <1>7, <2>2, TallyMonotone
  <2> QED
    BY <1>1, <1>5, <2>1, <2>3, <2>5, <2>6
<1> QED
  BY <1>6, <1>7

(* Nobody waits before timerinit. *)
LEMMA WaitInit == Init => WaitInv
<1> SUFFICES ASSUME Init
             PROVE  WaitInv
  OBVIOUS
<1>1. Runnable = {}
  BY DEF Init, Runnable
<1> QED
  BY <1>1 DEF Init, WaitInv, BoundedWait, WaitsCovered

(* env_create: nobody has waited yet. *)
LEMMA WaitCreate ==
  ASSUME IInv, WaitInv, NEW e \in Env, NEW priority \in PRI,
         env_create(e, priority)
  PROVE  WaitInv'
<1>1. /\ timer = "off" /\ panic' = "no"
      /\ UNCHANGED <<curenv, timer, slice, waited>>
  BY DEF env_create, Alive
<1>2. curenv' = NULL /\ \A x \in Env : waited'[x] = 0
  BY <1>1 DEF IInv, BootQuiet, WaitInv
<1>3. IInv'
  BY CreateStep
<1>4. env_pri' \in [Env -> Nat]
  <2>1. env_pri' \in [Env -> PRI \cup {0}] /\ PRI \cup {0} \subseteq Nat
    BY <1>3, SchedAssumption DEF IInv, TypeOK
  <2> QED
    BY <2>1
<1>5. ASSUME NEW x \in Runnable'
      PROVE  waited'[x] <= Tally(env_pri', Behind(env_sched_list', x)) + Lead(curenv, x)'
  <2>1. Tally(env_pri', Behind(env_sched_list', x)) \in Nat
    BY <1>4, BehindFinite, TallyNat
  <2>2. Lead(curenv, x)' = 0 /\ waited'[x] = 0
    BY <1>2 DEF Lead, Runnable
  <2> QED
    BY <2>1, <2>2
<1>6. BoundedWait'
  <2> SUFFICES ASSUME NEW x \in Runnable'
               PROVE  waited'[x] <= Tally(env_pri', Env \ {x})
    BY DEF BoundedWait
  <2>1. Tally(env_pri', Env \ {x}) \in Nat
    BY <1>4, SchedAssumption, FS_Subset, TallyNat
  <2> QED
    BY <1>2, <2>1 DEF Runnable
<1> QED
  BY <1>2, <1>5, <1>6 DEF WaitInv, WaitsCovered

(* After a call of schedule the bound holds again: either an env runs, or   *)
(* nobody is left who could wait.                                           *)
LEMMA WaitsAfterSchedule ==
  ASSUME IInv', timer' = "armed",
         \/ panic' = "schedule" /\ Runnable' = {}
         \/ /\ panic' = "no"
            /\ curenv' \in Env
            /\ waited'[curenv'] = 0
            /\ \A a \in Runnable' :
                 waited'[a] <= Tally(env_pri', Behind(env_sched_list', a))
                                 + (IF curenv' # a THEN slice' ELSE 0)
  PROVE  WaitInv'
<1>1. CASE panic' = "schedule" /\ Runnable' = {}
  BY <1>1 DEF WaitInv, BoundedWait, Alive
<1>2. CASE panic' # "schedule"
  <2>1. \A a \in Runnable' : Lead(curenv, a)' = IF curenv' # a THEN slice' ELSE 0
    BY <1>2, SchedAssumption DEF Lead
  <2>2. \A a \in Runnable' :
          waited'[a] <= Tally(env_pri', Behind(env_sched_list', a)) + Lead(curenv, a)'
    BY <1>2, <2>1
  <2>3. Alive'
    BY <1>2 DEF Alive
  <2>4. WaitsCovered'
    BY <2>2 DEF WaitsCovered
  <2>5. BoundedWait'
    BY <2>3, <2>4, BoundFromWaits, PTL
  <2> QED
    BY <1>2, <2>4, <2>5 DEF WaitInv
<1> QED
  BY <1>1, <1>2

(* The timer interrupt and a yield. *)
LEMMA WaitSchedule ==
  ASSUME IInv, WaitInv, Alive, NEW yield \in BOOLEAN,
         schedule(yield, curenv, env_sched_list, env_status),
         UNCHANGED <<env_status, env_pri>>
  PROVE  WaitInv'
<1>1. /\ env_sched_list \in Seq(Env) /\ IsInjective(env_sched_list)
      /\ env_status \in [Env -> {"FREE", "RUNNABLE"}]
      /\ Range(env_sched_list) = {x \in Env : env_status[x] = "RUNNABLE"}
      /\ Range(env_sched_list) = Runnable
      /\ curenv \in Env \cup {NULL}
  BY DEF IInv, TypeOK, RunnableIffQueued, Runnable
<1>2. \A x \in Env : env_status[x] = "RUNNABLE" => env_pri[x] \in PRI
  BY DEF IInv, PriorityGiven, Runnable
<1>3. curenv # NULL =>
        /\ env_sched_list # <<>> /\ env_sched_list[1] = curenv
        /\ slice >= 1 /\ count >= 0 /\ slice + count = env_pri[curenv]
        /\ waited[curenv] = 0
  BY DEF IInv, CurenvIsFirst, SliceAccounting, WaitInv
<1>4. curenv # NULL => slice \in Nat /\ slice <= env_pri[curenv]
  <2>1. slice \in Nat /\ count \in Int
    BY DEF IInv, TypeOK
  <2>2. curenv # NULL => env_pri[curenv] \in Int
    <3>1. env_pri \in [Env -> PRI \cup {0}] /\ PRI \cup {0} \subseteq Nat
      BY SchedAssumption DEF IInv, TypeOK
    <3> QED
      BY <1>1, <3>1
  <2> QED
    BY <1>3, <2>1, <2>2
<1>5. IInv'
  BY ScheduleStep
<1>6. Runnable' = Runnable
  BY DEF Runnable
<1>7. /\ timer' = "armed"
      /\ \/ panic' = "schedule" /\ Range(env_sched_list) = {}
         \/ panic' = "no" /\ curenv' \in Env
  BY <1>1, <1>2, <1>3, ScheduleFacts
<1>8. CASE panic' = "schedule"
  BY <1>1, <1>5, <1>6, <1>7, <1>8, WaitsAfterSchedule
<1>9. CASE panic' = "no" /\ curenv' \in Env
  <2>1. \A a \in Range(env_sched_list) :
          waited[a] <= Tally(env_pri, Behind(env_sched_list, a)) + Lead(curenv, a)
    BY <1>1 DEF WaitInv, WaitsCovered
  <2>2. /\ waited'[curenv'] = 0
        /\ \A a \in Range(env_sched_list) :
             waited'[a] <= Tally(env_pri, Behind(env_sched_list', a))
                             + (IF curenv' # a THEN slice' ELSE 0)
    BY <1>1, <1>3, <1>4, <1>9, <2>1, ScheduleWaits, ZenonT(30)
  <2> QED
    BY <1>1, <1>5, <1>6, <1>7, <1>9, <2>2, WaitsAfterSchedule
<1> QED
  BY <1>7, <1>8, <1>9

(* env_destroy takes an env off the list, and then perhaps runs another. *)
LEMMA WaitDestroy ==
  ASSUME IInv, WaitInv, NEW e \in Env, env_destroy(e)
  PROVE  WaitInv'
<1>1. /\ Alive /\ timer # "off" /\ env_status[e] = "RUNNABLE"
      /\ env_pri' = env_pri
  BY DEF env_destroy
<1>2. IInv'
  BY DestroyStep
<1>3. CASE ~uvmunmap_returns
  <2>1. /\ panic' = "uvmunmap"
        /\ UNCHANGED <<env_status, env_sched_list, curenv, timer, slice, waited>>
    BY <1>3 DEF env_destroy
  <2> QED
    BY <1>1, <2>1 DEF WaitInv, BoundedWait, Runnable, Alive
<1>4. CASE uvmunmap_returns
  <2> DEFINE q == TAILQ_REMOVE(env_sched_list, e)
             st == [env_status EXCEPT ![e] = "FREE"]
  <2>1. /\ TypeOK
        /\ env_sched_list \in Seq(Env)
        /\ IsInjective(env_sched_list)
        /\ Range(env_sched_list) = Runnable
        /\ e \in Range(env_sched_list)
    BY <1>1 DEF IInv, RunnableIffQueued, Runnable, TypeOK
  <2>2. /\ q \in Seq(Env)
        /\ IsInjective(q)
        /\ Range(q) = Range(env_sched_list) \ {e}
        /\ \A a, b \in Env \ {e} : Before(env_sched_list, a, b) => Before(q, a, b)
    BY <2>1, RemoveFacts
  <2>3. /\ env_status' = st
        /\ IF curenv = e
           THEN schedule(TRUE, NULL, q, st)
           ELSE /\ env_sched_list' = q
                /\ UNCHANGED <<curenv, timer, panic, slice, waited>>
    BY <1>4 DEF env_destroy, env_free
  <2> HIDE DEF q
  <2>4. /\ st \in [Env -> {"FREE", "RUNNABLE"}]
        /\ Range(q) = {x \in Env : st[x] = "RUNNABLE"}
        /\ \A x \in Env : st[x] = "RUNNABLE" => env_pri[x] \in PRI
    <3>1. st \in [Env -> {"FREE", "RUNNABLE"}]
      BY <2>1 DEF TypeOK
    <3>2. {x \in Env : st[x] = "RUNNABLE"} = Runnable \ {e}
      BY <2>1 DEF TypeOK, Runnable
    <3>3. \A x \in Runnable : env_pri[x] \in PRI
      BY DEF IInv, PriorityGiven
    <3> QED
      BY <2>1, <2>2, <3>1, <3>2, <3>3
  <2>5. Runnable' = Range(q)
    BY <2>3, <2>4 DEF Runnable
  <2> HIDE DEF st
  <2>6. /\ env_pri \in [Env -> Nat] /\ waited \in [Env -> Nat] /\ slice \in Nat
        /\ count \in Int
    <3>1. env_pri \in [Env -> PRI \cup {0}] /\ PRI \cup {0} \subseteq Nat
      BY <2>1, SchedAssumption DEF TypeOK
    <3> QED
      BY <2>1, <3>1 DEF TypeOK
  <2>7. ASSUME NEW a \in Range(q), NEW f \in Env, Before(q, f, a)
        PROVE  Before(env_sched_list, f, a) /\ f # e
    <3>1. f \in Range(q)
      BY <2>2, <2>7, BeforeMembers
    <3>2. /\ f \in Range(env_sched_list) /\ f # e
          /\ a \in Range(env_sched_list) /\ a # e /\ a \in Env
      BY <2>1, <2>2, <2>4, <3>1
    <3> QED
      BY <2>1, <2>2, <2>7, <3>2, AheadKept
  <2>8. \A a \in Range(q) :
          /\ a \in Env /\ a \in Range(env_sched_list) /\ a # e
          /\ waited[a] \in Nat
          /\ Tally(env_pri, Behind(env_sched_list, a)) \in Nat
          /\ Tally(env_pri, Behind(q, a)) \in Nat
          /\ waited[a] <= Tally(env_pri, Behind(env_sched_list, a)) + Lead(curenv, a)
    <3> SUFFICES ASSUME NEW a \in Range(q)
                 PROVE  /\ a \in Env /\ a \in Range(env_sched_list) /\ a # e
                        /\ waited[a] \in Nat
                        /\ Tally(env_pri, Behind(env_sched_list, a)) \in Nat
                        /\ Tally(env_pri, Behind(q, a)) \in Nat
                        /\ waited[a] <= Tally(env_pri, Behind(env_sched_list, a))
                                          + Lead(curenv, a)
      OBVIOUS
    <3>1. a \in Env /\ a \in Range(env_sched_list) /\ a # e
      BY <2>2, <2>4
    <3>2. /\ Tally(env_pri, Behind(env_sched_list, a)) \in Nat
          /\ Tally(env_pri, Behind(q, a)) \in Nat
      BY <2>6, BehindFinite, TallyNat
    <3>3. waited[a] <= Tally(env_pri, Behind(env_sched_list, a)) + Lead(curenv, a)
      BY <1>1, <2>1, <3>1 DEF WaitInv, WaitsCovered
    <3> QED
      BY <2>6, <3>1, <3>2, <3>3
  <2>9. CASE curenv = e
    <3>1. /\ env_sched_list # <<>> /\ env_sched_list[1] = e
          /\ count >= 0 /\ slice + count = env_pri[e] /\ e # NULL
      BY <1>1, <2>9, SchedAssumption DEF IInv, CurenvIsFirst, SliceAccounting
    <3>2. slice <= env_pri[e] /\ env_pri[e] \in Nat
      BY <2>6, <3>1
    <3>3. ASSUME NEW a \in Range(q)
          PROVE  waited[a] <= Tally(env_pri, Behind(q, a)) + Lead(NULL, a)
      <4>1. a \in Env /\ a \in Range(env_sched_list) /\ a # e
        BY <2>8
      <4>2. Before(env_sched_list, e, a)
        BY <2>1, <3>1, <4>1, FirstIsAhead
      <4>3. Tally(env_pri, Behind(env_sched_list, a)) + env_pri[e]
              <= Tally(env_pri, Behind(q, a))
        BY <2>6, <2>7, <4>1, <4>2, TurnPasses
      <4>4. Lead(curenv, a) = slice /\ Lead(NULL, a) = 0
        BY <2>9, <3>1, <4>1 DEF Lead
      <4>5. /\ waited[a] \in Nat
            /\ Tally(env_pri, Behind(env_sched_list, a)) \in Nat
            /\ Tally(env_pri, Behind(q, a)) \in Nat
            /\ waited[a] <= Tally(env_pri, Behind(env_sched_list, a)) + slice
        BY <2>8, <4>4
      <4>6. waited[a] <= Tally(env_pri, Behind(q, a)) + 0
        BY <2>6, <3>2, <4>3, <4>5
      <4> QED
        BY <4>4, <4>6
    <3>4. schedule(TRUE, NULL, q, st)
      BY <2>3, <2>9
    <3>5. /\ timer' = "armed"
          /\ \/ panic' = "schedule" /\ Range(q) = {}
             \/ panic' = "no" /\ curenv' \in Env
      BY <1>1, <2>2, <2>4, <3>4, ScheduleFacts
    <3>6. CASE panic' = "schedule"
      BY <1>2, <2>5, <3>5, <3>6, WaitsAfterSchedule
    <3>7. CASE panic' = "no" /\ curenv' \in Env
      <4>1. /\ waited'[curenv'] = 0
            /\ \A a \in Range(q) :
                 waited'[a] <= Tally(env_pri, Behind(env_sched_list', a))
                                 + (IF curenv' # a THEN slice' ELSE 0)
        BY <1>1, <2>2, <2>4, <3>3, <3>4, <3>7, ScheduleWaits
      <4> QED
        BY <1>1, <1>2, <2>5, <3>5, <3>7, <4>1, WaitsAfterSchedule
    <3> QED
      BY <3>5, <3>6, <3>7
  <2>10. CASE curenv # e
    <3>1. env_sched_list' = q /\ UNCHANGED <<curenv, timer, panic, slice, waited>>
      BY <2>3, <2>10
    <3>2. ASSUME NEW a \in Runnable'
          PROVE  waited'[a] <= Tally(env_pri', Behind(env_sched_list', a))
                                 + Lead(curenv, a)'
      <4>1. Tally(env_pri, Behind(env_sched_list, a)) <= Tally(env_pri, Behind(q, a))
        BY <2>5, <2>6, <2>7, <2>8, BehindGrows
      <4>2. Lead(curenv, a)' = Lead(curenv, a) /\ Lead(curenv, a) \in Nat
        BY <2>6, <3>1 DEF Lead
      <4>3. waited[a] <= Tally(env_pri, Behind(q, a)) + Lead(curenv, a)
        BY <2>5, <2>8, <4>1, <4>2
      <4> QED
        BY <1>1, <3>1, <4>2, <4>3
    <3>3. Alive'
      BY <1>1, <3>1 DEF Alive
    <3>4. WaitsCovered'
      BY <3>2 DEF WaitsCovered
    <3>5. BoundedWait'
      BY <1>2, <3>3, <3>4, BoundFromWaits, PTL
    <3> QED
      BY <1>1, <3>1, <3>4, <3>5 DEF WaitInv
  <2> QED
    BY <2>9, <2>10
<1> QED
  BY <1>3, <1>4

(* The timer alone makes nobody wait. *)
LEMMA WaitQuiet ==
  ASSUME WaitInv, timerinit \/ TimerExpire \/ UNCHANGED vars
  PROVE  WaitInv'
<1>1. /\ UNCHANGED <<env_status, env_pri, env_sched_list, curenv, panic, slice,
                     waited>>
      /\ timer' = "off" => timer = "off"
  BY DEF timerinit, TimerExpire, vars
<1>2. Runnable' = Runnable /\ (Alive' <=> Alive) /\ \A e : Lead(curenv, e)' = Lead(curenv, e)
  BY <1>1 DEF Runnable, Alive, Lead
<1>3. BoundedWait' /\ (WaitsCovered' <=> WaitsCovered)
  BY <1>1, <1>2 DEF WaitInv, BoundedWait, WaitsCovered
<1> QED
  BY <1>1, <1>2, <1>3 DEF WaitInv

(* Every step keeps the bound. *)
LEMMA WaitStep == IInv /\ WaitInv /\ [Next]_vars => WaitInv'
<1> SUFFICES ASSUME IInv, WaitInv, [Next]_vars
             PROVE  WaitInv'
  OBVIOUS
<1>1. CASE \E e \in Env, priority \in PRI : env_create(e, priority)
  BY <1>1, WaitCreate
<1>2. CASE TimerInterrupt
  BY <1>2, WaitSchedule DEF TimerInterrupt
<1>3. CASE Yield
  BY <1>3, WaitSchedule DEF Yield
<1>4. CASE \E e \in Env : env_destroy(e)
  BY <1>4, WaitDestroy
<1>5. CASE timerinit \/ TimerExpire \/ UNCHANGED vars
  BY <1>5, WaitQuiet
<1> QED
  BY <1>1, <1>2, <1>3, <1>4, <1>5 DEF Next

(* A runnable env waits at most as many calls of schedule as the priorities *)
(* of all other envs add up to, whatever yields and deaths come in between  *)
(* (schedule, sched.c:7-56).                                                *)
THEOREM RoundRobinBound == Spec => []BoundedWait
<1>1. WaitInv => BoundedWait
  BY DEF WaitInv
<1> QED
  BY <1>1, InitInv, NextInv, WaitInit, WaitStep, PTL DEF Spec

(* The types of the scheduler; ticks stays below its wrap (do_timer).       *)
THEOREM SchedTyping == Spec => []TypeOK
<1>1. IInv => TypeOK
  BY DEF IInv
<1> QED
  BY <1>1, Invariance, PTL
=============================================================================
