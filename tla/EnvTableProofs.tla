---------------------------- MODULE EnvTableProofs ----------------------------
(***************************************************************************)
(* For every size of the table: free and live envs partition it, live envs *)
(* own their ASIDs, the phantom behind envs[] is never handed out, an id   *)
(* names its env and no later tenant of the slot, and no page is invented. *)
(***************************************************************************)
EXTENDS EnvTable, TallyProofs

(* The phantom stays where env_init put it: at the end of the free list. *)
PhantomIsLast ==
  /\ env_free_list # <<>>
  /\ env_free_list[Len(env_free_list)] = PHANTOM

IInv == TypeOK /\ FreeXorLive /\ AsidsMatchLive /\ PhantomIsLast

(* The phantom is a slot of its own behind the entries of envs[]. *)
LEMMA SlotFacts ==
  /\ NENV \in Nat /\ NENV >= 1
  /\ Slot \subseteq Nat
  /\ PHANTOM \in Slot
  /\ NASID \in Nat
  BY TableAssumption DEF Slot, PHANTOM

(* What env_init leaves behind satisfies the invariant. *)
LEMMA InitInv == Init => IInv
<1> SUFFICES ASSUME Init
             PROVE  IInv
  OBVIOUS
<1>1. /\ env_free_list \in Seq(Slot)
      /\ Len(env_free_list) = NENV + 1
      /\ \A i \in 1 .. NENV + 1 : env_free_list[i] = i - 1
  BY SlotFacts DEF Init, env_init, Slot
<1>2. Live = {}
  BY DEF Init, Live
<1>3. IsInjective(env_free_list)
  BY <1>1, SlotFacts DEF IsInjective
<1>4. Range(env_free_list) = Slot
  <2>1. Range(env_free_list) \subseteq Slot
    BY <1>1, SlotFacts DEF Range, Slot
  <2>2. ASSUME NEW e \in Slot
        PROVE  e \in Range(env_free_list)
    <3>1. e + 1 \in 1 .. NENV + 1 /\ (e + 1) - 1 = e
      BY SlotFacts DEF Slot
    <3>2. e + 1 \in DOMAIN env_free_list /\ env_free_list[e + 1] = e
      BY <1>1, <3>1
    <3> QED
      BY <3>2 DEF Range
  <2> QED
    BY <2>1, <2>2
<1>5. PhantomIsLast
  BY <1>1, SlotFacts DEF PhantomIsLast, PHANTOM
<1>6. TypeOK
  BY <1>1, TableAssumption, SlotFacts DEF Init, TypeOK
<1>7. AsidsMatchLive
  BY <1>2 DEF Init, AsidsMatchLive
<1> QED
  BY <1>2, <1>3, <1>4, <1>5, <1>6, <1>7 DEF IInv, FreeXorLive

(* When an ASID is free, so is some entry of envs[]: the first env of the   *)
(* list is not the phantom.                                                 *)
LEMMA HeadIsNotPhantom ==
  ASSUME IInv, NEW asid \in FreeAsids
  PROVE  Head(env_free_list) # PHANTOM /\ Len(env_free_list) > 1
<1> SUFFICES ASSUME Head(env_free_list) = PHANTOM \/ Len(env_free_list) <= 1
             PROVE  FALSE
  BY DEF IInv, TypeOK
<1>1. /\ env_free_list \in Seq(Slot) /\ env_free_list # <<>>
      /\ env_free_list[Len(env_free_list)] = PHANTOM
      /\ \A i, j \in 1 .. Len(env_free_list) :
           env_free_list[i] = env_free_list[j] => i = j
      /\ Range(env_free_list) = Slot \ Live
  <2>1. env_free_list \in Seq(Slot) /\ DOMAIN env_free_list = 1 .. Len(env_free_list)
    BY DEF IInv, TypeOK
  <2>2. IsInjective(env_free_list) /\ Range(env_free_list) = Slot \ Live
    BY DEF IInv, FreeXorLive
  <2>3. \A i, j \in 1 .. Len(env_free_list) :
           env_free_list[i] = env_free_list[j] => i = j
    BY <2>1, <2>2 DEF IsInjective
  <2> QED
    BY <2>1, <2>2, <2>3 DEF IInv, PhantomIsLast
<1>2. Len(env_free_list) = 1
  <2>1. 1 \in 1 .. Len(env_free_list)
    BY <1>1
  <2>2. Head(env_free_list) = env_free_list[1] /\ Len(env_free_list) \in 1 .. Len(env_free_list)
    BY <1>1
  <2>3. CASE Head(env_free_list) = PHANTOM
    BY <1>1, <2>1, <2>2, <2>3
  <2>4. CASE Len(env_free_list) <= 1
    <3> DEFINE n == Len(env_free_list)
    <3>1. n \in Nat /\ n # 0
      BY <1>1
    <3>2. n <= 1
      BY <2>4
    <3> HIDE DEF n
    <3>3. n = 1
      BY <3>1, <3>2
    <3> QED
      BY <3>3 DEF n
  <2> QED
    BY <2>3, <2>4
<1>3. Range(env_free_list) = {PHANTOM}
  BY <1>1, <1>2 DEF Range
<1>4. 0 .. NENV - 1 \subseteq Live
  BY <1>1, <1>3, SlotFacts DEF Slot, PHANTOM
<1> DEFINE S == 0 .. NENV - 1
           T == (0 .. NASID - 1) \ {asid}
           f == [e \in S |-> env_asid[e]]
<1>5. asid \in 0 .. NASID - 1 /\ asid \notin asid_bitmap
  BY DEF FreeAsids
<1>6. \A e \in S : env_asid[e] \in T
  BY <1>4, <1>5 DEF IInv, TypeOK, AsidsMatchLive
<1>7. f \in Injection(S, T)
  BY <1>4, <1>6 DEF Injection, IsInjective, IInv, AsidsMatchLive
<1>8. IsFiniteSet(S) /\ Cardinality(S) = NENV
  BY SlotFacts, FS_Interval
<1>9. IsFiniteSet(T) /\ Cardinality(T) = NASID - 1
  <2>1. IsFiniteSet(0 .. NASID - 1) /\ Cardinality(0 .. NASID - 1) = NASID
    BY SlotFacts, FS_Interval
  <2> QED
    BY <1>5, <2>1, FS_RemoveElement
<1>10. Cardinality(S) <= Cardinality(T)
  BY <1>7, <1>8, <1>9, FS_Injection
<1> QED
  BY <1>8, <1>9, <1>10, TableAssumption, SlotFacts

(* An env leaves the head of the free list and becomes live. *)
LEMMA CreateStep ==
  ASSUME IInv, NEW e \in Slot, NEW asid \in FreeAsids, env_create(e, asid)
  PROVE  IInv'
<1> DEFINE list == env_free_list
<1>1. /\ mkid < MAX_ALLOCS
      /\ list # <<>> /\ e = Head(list)
      /\ freepages > KTABLES
      /\ mkid' = mkid + 1
      /\ env_id' = [env_id EXCEPT ![e] = mkenvid(mkid + 1, e)]
      /\ asid_bitmap' = asid_bitmap \cup {asid}
      /\ env_asid' = [env_asid EXCEPT ![e] = asid]
      /\ env_free_list' = Tail(list)
      /\ env_status' = [env_status EXCEPT ![e] = "RUNNABLE"]
      /\ issued' = issued \cup {[id |-> mkenvid(mkid + 1, e), n |-> mkid + 1]}
      /\ curenv' = curenv /\ total' = total
  BY DEF env_create, setup, asid_alloc, LIST_REMOVE_FIRST
<1>2. /\ freepages' \in Nat
      /\ env_pgtable' \in [Slot -> Nat]
      /\ panic' \in {"no", "load_icode"}
      /\ loaded' \subseteq Slot
  <2> DEFINE left == freepages - (KTABLES + 1)
             used == IF left < IMAGE_PAGES THEN left ELSE IMAGE_PAGES
  <2>1. left \in Nat /\ used \in Nat /\ used <= left /\ KTABLES \in Nat
    BY <1>1, TableAssumption DEF IInv, TypeOK, IMAGE_PAGES
  <2>2. /\ freepages' = left - used
        /\ env_pgtable' = [env_pgtable EXCEPT ![e] =
             KTABLES + 1 + (IF used = IMAGE_PAGES \/ used = 0 THEN used ELSE used - 1)]
        /\ panic' = IF used = 0 THEN "load_icode" ELSE "no"
        /\ loaded' = IF used = IMAGE_PAGES THEN loaded \cup {e} ELSE loaded
    BY DEF env_create
  <2> HIDE DEF left, used
  <2>3. KTABLES + 1 + (IF used = IMAGE_PAGES \/ used = 0 THEN used ELSE used - 1) \in Nat
    BY <2>1
  <2> QED
    BY <2>1, <2>2, <2>3 DEF IInv, TypeOK
<1>3. /\ list \in Seq(Slot) /\ DOMAIN list = 1 .. Len(list)
      /\ IsInjective(list) /\ Range(list) = Slot \ Live
      /\ list[Len(list)] = PHANTOM
      /\ Len(list) > 1
  BY HeadIsNotPhantom, SMTT(30) DEF IInv, TypeOK, FreeXorLive, PhantomIsLast
<1>4. \A i, j \in 1 .. Len(list) : list[i] = list[j] => i = j
  BY <1>3 DEF IsInjective
<1>5. /\ env_free_list' \in Seq(Slot)
      /\ Len(env_free_list') = Len(list) - 1
      /\ \A i \in 1 .. Len(list) - 1 : env_free_list'[i] = list[i + 1]
  BY <1>1, <1>3
<1>6. e = list[1] /\ e \in Range(list) /\ e \notin Live
  BY <1>1, <1>3 DEF Range
<1>7. Live' = Live \cup {e}
  BY <1>1 DEF Live, IInv, TypeOK
<1>8. IsInjective(env_free_list')
  BY <1>4, <1>5 DEF IsInjective
<1>9. Range(env_free_list') = Range(list) \ {e}
  <2>1. DOMAIN env_free_list' = 1 .. Len(list) - 1
    BY <1>5
  <2>2. ASSUME NEW i \in 1 .. Len(list) - 1
        PROVE  env_free_list'[i] \in Range(list) \ {e}
    <3>1. i + 1 \in 1 .. Len(list) /\ i + 1 # 1
      BY <1>3
    <3>2. env_free_list'[i] = list[i + 1] /\ list[i + 1] # e
      BY <1>3, <1>4, <1>5, <1>6, <3>1
    <3> QED
      BY <1>3, <3>1, <3>2 DEF Range
  <2>3. ASSUME NEW x \in Range(list) \ {e}
        PROVE  x \in Range(env_free_list')
    <3>1. PICK i \in 1 .. Len(list) : list[i] = x
      BY <1>3 DEF Range
    <3>2. i - 1 \in 1 .. Len(list) - 1 /\ env_free_list'[i - 1] = x
      BY <1>3, <1>5, <1>6, <3>1
    <3> QED
      BY <2>1, <3>2 DEF Range
  <2>4. Range(env_free_list') \subseteq Range(list) \ {e}
    BY <2>1, <2>2 DEF Range
  <2> QED
    BY <2>3, <2>4
<1>10. FreeXorLive'
  BY <1>3, <1>7, <1>8, <1>9 DEF FreeXorLive
<1>11. PhantomIsLast'
  BY <1>3, <1>5 DEF PhantomIsLast
<1>12. TypeOK'
  <2>1. mkenvid(mkid + 1, e) \in Nat
    BY TableAssumption, SlotFacts DEF mkenvid, IInv, TypeOK
  <2>2. asid \in 0 .. NASID - 1 /\ asid \in Nat
    BY SlotFacts DEF FreeAsids
  <2>3. env_id' \in [Slot -> Nat] /\ env_asid' \in [Slot -> Nat]
    BY <1>1, <2>1, <2>2 DEF IInv, TypeOK
  <2>4. env_status' \in [Slot -> {"FREE", "RUNNABLE"}]
    BY <1>1 DEF IInv, TypeOK
  <2>5. asid_bitmap' \subseteq 0 .. NASID - 1 /\ issued' \subseteq [id : Nat, n : Nat]
    BY <1>1, <2>1, <2>2, SMTT(30) DEF IInv, TypeOK
  <2>6. mkid' \in 0 .. MAX_ALLOCS
    BY <1>1, TableAssumption DEF IInv, TypeOK
  <2>7. curenv' \in Slot \cup {NULL} /\ total' \in Nat
    BY <1>1 DEF IInv, TypeOK
  <2> QED
    BY <1>2, <1>5, <2>3, <2>4, <2>5, <2>6, <2>7 DEF TypeOK
<1>13. AsidsMatchLive'
  <2>1. asid \notin asid_bitmap /\ asid_bitmap = {env_asid[x] : x \in Live}
    BY DEF FreeAsids, IInv, AsidsMatchLive
  <2>2. /\ env_asid'[e] = asid
        /\ \A x \in Live : x # e /\ env_asid'[x] = env_asid[x]
    BY <1>1, <1>6 DEF IInv, TypeOK, Live
  <2>3. \A x, y \in Live : env_asid[x] = env_asid[y] => x = y
    BY DEF IInv, AsidsMatchLive
  <2>4. \A x, y \in Live' : env_asid'[x] = env_asid'[y] => x = y
    BY <1>7, <2>1, <2>2, <2>3
  <2>5. asid_bitmap' = {env_asid'[x] : x \in Live'}
    BY <1>1, <1>7, <2>1, <2>2
  <2> QED
    BY <2>4, <2>5 DEF AsidsMatchLive
<1> QED
  BY <1>10, <1>11, <1>12, <1>13 DEF IInv

(* A live env dies and goes to the head of the free list. *)
LEMMA DestroyStep ==
  ASSUME IInv, NEW e \in Slot, NEW next \in Slot, env_destroy(e, next)
  PROVE  IInv'
<1> DEFINE list == env_free_list
<1>1. /\ e \in Live
      /\ freepages' = freepages + env_pgtable[e]
      /\ asid_bitmap' = asid_bitmap \ {env_asid[e]}
      /\ env_status' = [env_status EXCEPT ![e] = "FREE"]
      /\ env_free_list' = <<e>> \o list
      /\ curenv' \in {curenv, NULL, next}
      /\ panic' \in {panic, "schedule"}
      /\ loaded' = loaded \ {e}
      /\ UNCHANGED <<env_id, env_asid, mkid, env_pgtable, issued, total>>
  BY DEF env_destroy, env_free, asid_free
<1>2. /\ list \in Seq(Slot) /\ DOMAIN list = 1 .. Len(list)
      /\ IsInjective(list) /\ Range(list) = Slot \ Live
      /\ list # <<>> /\ list[Len(list)] = PHANTOM
  BY DEF IInv, TypeOK, FreeXorLive, PhantomIsLast
<1>3. /\ env_free_list' \in Seq(Slot)
      /\ Len(env_free_list') = Len(list) + 1
      /\ env_free_list'[1] = e
      /\ \A i \in 1 .. Len(list) : env_free_list'[i + 1] = list[i]
  BY <1>1, <1>2
<1>4. Live' = Live \ {e}
  BY <1>1 DEF Live, IInv, TypeOK
<1>5. \A i \in 2 .. Len(list) + 1 : i - 1 \in 1 .. Len(list) /\ env_free_list'[i] = list[i - 1]
  BY <1>2, <1>3
<1>6. \A i \in 1 .. Len(list) : list[i] # e
  BY <1>1, <1>2 DEF Range
<1>7. \A i, j \in 1 .. Len(list) : list[i] = list[j] => i = j
  BY <1>2 DEF IsInjective
<1>8. IsInjective(env_free_list')
  <2> SUFFICES ASSUME NEW i \in 1 .. Len(list) + 1, NEW j \in 1 .. Len(list) + 1,
                      env_free_list'[i] = env_free_list'[j]
               PROVE  i = j
    BY <1>3 DEF IsInjective
  <2>1. CASE i = 1 \/ j = 1
    BY <1>2, <1>3, <1>5, <1>6, <2>1
  <2>2. CASE i # 1 /\ j # 1
    BY <1>2, <1>5, <1>7, <2>2
  <2> QED
    BY <2>1, <2>2
<1>9. Range(env_free_list') = Range(list) \cup {e}
  <2>1. DOMAIN env_free_list' = 1 .. Len(list) + 1
    BY <1>3
  <2>2. ASSUME NEW i \in 1 .. Len(list) + 1
        PROVE  env_free_list'[i] \in Range(list) \cup {e}
    <3>1. CASE i = 1
      BY <1>3, <3>1
    <3>2. CASE i # 1
      <4>1. i - 1 \in DOMAIN list /\ env_free_list'[i] = list[i - 1]
        BY <1>2, <1>5, <3>2
      <4> QED
        BY <4>1 DEF Range
    <3> QED
      BY <3>1, <3>2
  <2>3. \A i \in 1 .. Len(list) : list[i] \in Range(env_free_list')
    BY <1>2, <1>3, <2>1 DEF Range
  <2>4. e \in Range(env_free_list')
    BY <1>2, <1>3, <2>1 DEF Range
  <2>5. Range(env_free_list') \subseteq Range(list) \cup {e}
    BY <2>1, <2>2 DEF Range
  <2>6. Range(list) \subseteq Range(env_free_list')
    BY <1>2, <2>3 DEF Range
  <2> QED
    BY <2>4, <2>5, <2>6
<1>10. FreeXorLive'
  BY <1>1, <1>2, <1>4, <1>8, <1>9 DEF FreeXorLive, Live
<1>11. PhantomIsLast'
  BY <1>2, <1>3 DEF PhantomIsLast
<1>12. TypeOK'
  <2>1. freepages' \in Nat /\ asid_bitmap' \subseteq 0 .. NASID - 1
    <3>1. freepages \in Nat /\ env_pgtable[e] \in Nat
      BY DEF IInv, TypeOK
    <3>2. asid_bitmap \subseteq 0 .. NASID - 1
      BY DEF IInv, TypeOK
    <3>3. freepages' = freepages + env_pgtable[e]
      BY <1>1
    <3>4. asid_bitmap' \subseteq asid_bitmap
      BY <1>1
    <3>5. freepages' \in Nat
      BY <3>1, <3>3
    <3> QED
      BY <3>2, <3>4, <3>5
  <2>2. env_status' \in [Slot -> {"FREE", "RUNNABLE"}]
    BY <1>1 DEF IInv, TypeOK
  <2>3. /\ curenv' \in Slot \cup {NULL} /\ loaded' \subseteq Slot
        /\ panic' \in {"no", "env_create", "env_setup_vm", "load_icode",
                       "schedule", "uvmunmap"}
    BY <1>1 DEF IInv, TypeOK
  <2>4. /\ env_id' \in [Slot -> Nat] /\ env_asid' \in [Slot -> Nat]
        /\ env_pgtable' \in [Slot -> Nat] /\ mkid' \in 0 .. MAX_ALLOCS
        /\ issued' \subseteq [id : Nat, n : Nat] /\ total' \in Nat
    BY <1>1 DEF IInv, TypeOK
  <2> QED
    BY <1>3, <2>1, <2>2, <2>3, <2>4 DEF TypeOK
<1>13. AsidsMatchLive'
  BY <1>1, <1>4 DEF IInv, AsidsMatchLive
<1> QED
  BY <1>10, <1>11, <1>12, <1>13 DEF IInv

(* The steps that leave the lists, the states and the ASIDs alone. *)
LEMMA QuietStep ==
  ASSUME IInv,
         \/ env_create_no_page
         \/ env_create_no_tables
         \/ \E e \in Slot : env_create_no_asid(e)
         \/ \E e \in Slot : schedule(e)
         \/ \E e \in Slot : env_destroy_panics(e)
         \/ UNCHANGED vars
  PROVE  IInv'
<1>1. UNCHANGED <<env_free_list, env_status, env_asid, asid_bitmap, loaded,
                  issued, total>>
  BY DEF env_create_no_page, env_create_no_tables, env_create_no_asid, schedule,
         env_destroy_panics, vars
<1>2. /\ env_id' \in [Slot -> Nat] /\ mkid' \in 0 .. MAX_ALLOCS
      /\ env_pgtable' \in [Slot -> Nat] /\ freepages' \in Nat
      /\ curenv' \in Slot \cup {NULL}
      /\ panic' \in {"no", "env_create", "env_setup_vm", "load_icode",
                     "schedule", "uvmunmap"}
  <2>1. CASE \E e \in Slot : env_create_no_asid(e)
    <3>1. PICK e \in Slot : env_create_no_asid(e)
      BY <2>1
    <3>2. mkenvid(mkid + 1, e) \in Nat
      BY TableAssumption, SlotFacts DEF mkenvid, IInv, TypeOK
    <3>3. /\ env_id' = [env_id EXCEPT ![e] = mkenvid(mkid + 1, e)]
          /\ mkid < MAX_ALLOCS /\ mkid' = mkid + 1
          /\ env_pgtable' = [env_pgtable EXCEPT ![e] = KTABLES + 1]
          /\ freepages > KTABLES
          /\ freepages' = freepages - (KTABLES + 1)
          /\ panic' = "env_create" /\ curenv' = curenv
      BY <3>1 DEF env_create_no_asid, setup
    <3> QED
      BY <3>2, <3>3, TableAssumption DEF IInv, TypeOK
  <2>2. CASE env_create_no_page \/ env_create_no_tables
    <3>1. /\ UNCHANGED <<env_id, mkid, env_pgtable, curenv>>
          /\ freepages' \in {freepages, 0}
          /\ panic' \in {"env_create", "env_setup_vm"}
      BY <2>2 DEF env_create_no_page, env_create_no_tables
    <3> QED
      BY <3>1 DEF IInv, TypeOK
  <2>3. CASE \E e \in Slot : schedule(e) \/ env_destroy_panics(e)
    BY <2>3 DEF schedule, env_destroy_panics, IInv, TypeOK
  <2>4. CASE UNCHANGED vars
    BY <2>4 DEF vars, IInv, TypeOK
  <2> QED
    BY <2>1, <2>2, <2>3, <2>4
<1>3. TypeOK'
  BY <1>1, <1>2 DEF IInv, TypeOK
<1> QED
  BY <1>1, <1>3 DEF IInv, FreeXorLive, AsidsMatchLive, PhantomIsLast, Live

(* Every step of the table keeps the invariant. *)
LEMMA NextInv == IInv /\ [Next]_vars => IInv'
<1> SUFFICES ASSUME IInv, [Next]_vars
             PROVE  IInv'
  OBVIOUS
<1>1. CASE \E e \in Slot, asid \in FreeAsids : env_create(e, asid)
  BY <1>1, CreateStep
<1>2. CASE \E e, next \in Slot : env_destroy(e, next)
  BY <1>2, DestroyStep
<1> QED
  BY <1>1, <1>2, QuietStep DEF Next

(* Nobody but the creation and the death of an env moves it between the     *)
(* free list and the live envs, for tables of every size.                    *)
THEOREM Partition == Spec => []FreeXorLive
<1>1. IInv => FreeXorLive
  BY DEF IInv
<1> QED
  BY <1>1, InitInv, NextInv, PTL DEF Spec

(* Live envs have ASIDs of their own, and no ASID is leaked. *)
THEOREM AsidsOwned == Spec => []AsidsMatchLive
<1>1. IInv => AsidsMatchLive
  BY DEF IInv
<1> QED
  BY <1>1, InitInv, NextInv, PTL DEF Spec

(* The entry that env_init links behind the end of envs[] stays free for    *)
(* ever because there are at most as many ASIDs as envs (NASID <= NENV).    *)
THEOREM PhantomHarmless == Spec => []PhantomNeverAllocated
<1>1. IInv => PhantomNeverAllocated
  <2> SUFFICES ASSUME IInv
               PROVE  PHANTOM \notin Live
    BY DEF PhantomNeverAllocated
  <2>1. Len(env_free_list) \in DOMAIN env_free_list
    BY DEF IInv, TypeOK, PhantomIsLast
  <2>2. PHANTOM \in Range(env_free_list)
    BY <2>1 DEF IInv, PhantomIsLast, Range
  <2> QED
    BY <2>2 DEF IInv, FreeXorLive
<1> QED
  BY <1>1, InitInv, NextInv, PTL DEF Spec
-----------------------------------------------------------------------------
(* Pages. *)

(* The live envs are finitely many. *)
LEMMA LiveFinite == IsFiniteSet(Live) /\ Live \in SUBSET Slot
<1>1. IsFiniteSet(Slot)
  BY SlotFacts, FS_Interval DEF Slot
<1>2. Live \in SUBSET Slot
  BY DEF Live
<1> QED
  BY <1>1, <1>2, FS_Subset

(* A new env takes at least the pages its table reaches from the free ones. *)
LEMMA CreatePages ==
  ASSUME IInv, PagesNotInvented,
         NEW e \in Slot, NEW asid \in FreeAsids, env_create(e, asid)
  PROVE  PagesNotInvented'
<1>1. /\ env_free_list # <<>> /\ e = Head(env_free_list)
      /\ freepages > KTABLES
      /\ env_status' = [env_status EXCEPT ![e] = "RUNNABLE"]
      /\ total' = total
  BY DEF env_create, setup
<1>2. /\ env_free_list \in Seq(Slot) /\ env_status \in [Slot -> {"FREE", "RUNNABLE"}]
      /\ env_pgtable \in [Slot -> Nat] /\ freepages \in Nat /\ total \in Nat
  BY DEF IInv, TypeOK
<1>3. PICK reach \in Nat :
        /\ env_pgtable' = [env_pgtable EXCEPT ![e] = reach]
        /\ freepages' \in Nat
        /\ freepages' + reach <= freepages
  <2> DEFINE left == freepages - (KTABLES + 1)
             used == IF left < IMAGE_PAGES THEN left ELSE IMAGE_PAGES
             r == KTABLES + 1 + (IF used = IMAGE_PAGES \/ used = 0 THEN used ELSE used - 1)
  <2>1. /\ freepages' = left - used
        /\ env_pgtable' = [env_pgtable EXCEPT ![e] = r]
    BY DEF env_create
  <2>2. r \in Nat /\ left - used \in Nat /\ (left - used) + r <= freepages
    BY <1>1, <1>2, TableAssumption DEF IMAGE_PAGES
  <2> QED
    BY <2>1, <2>2
<1>4. e \notin Live /\ Live' = Live \cup {e}
  <2>1. 1 \in DOMAIN env_free_list /\ env_free_list[1] = e
    BY <1>1, <1>2
  <2>2. e \in Range(env_free_list)
    BY <2>1 DEF Range
  <2> QED
    BY <1>1, <1>2, <2>2 DEF IInv, FreeXorLive, Live
<1>5. env_pgtable' \in [Slot -> Nat] /\ env_pgtable'[e] = reach
  BY <1>2, <1>3
<1>6. Tally(env_pgtable', Live \cup {e}) = Tally(env_pgtable', Live) + reach
  BY <1>4, <1>5, LiveFinite, TallyAdd
<1>7. Tally(env_pgtable', Live) = Tally(env_pgtable, Live)
  <2>1. \A x \in Live : env_pgtable'[x] = env_pgtable[x]
    BY <1>2, <1>3, <1>4, LiveFinite
  <2> QED
    BY <2>1, TallySame
<1>8. Tally(env_pgtable, Live) \in Nat
  BY <1>2, LiveFinite, TallyNat
<1>9. freepages + Tally(env_pgtable, Live) <= total
  BY DEF PagesNotInvented
<1>10. freepages' + (Tally(env_pgtable, Live) + reach) <= total
  <2>1. \A f \in Nat : f + reach <= freepages =>
                         f + (Tally(env_pgtable, Live) + reach) <= total
    BY <1>2, <1>8, <1>9
  <2> QED
    BY <1>3, <2>1
<1> QED
  BY <1>1, <1>4, <1>6, <1>7, <1>10 DEF PagesNotInvented

(* A dying env returns what its table reaches, and is counted no more. *)
LEMMA DestroyPages ==
  ASSUME IInv, PagesNotInvented,
         NEW e \in Slot, NEW next \in Slot, env_destroy(e, next)
  PROVE  PagesNotInvented'
<1>1. /\ e \in Live
      /\ freepages' = freepages + env_pgtable[e]
      /\ env_status' = [env_status EXCEPT ![e] = "FREE"]
      /\ env_pgtable' = env_pgtable /\ total' = total
  BY DEF env_destroy, env_free
<1>2. /\ env_status \in [Slot -> {"FREE", "RUNNABLE"}]
      /\ env_pgtable \in [Slot -> Nat] /\ freepages \in Nat /\ total \in Nat
  BY DEF IInv, TypeOK
<1>3. Live' = Live \ {e}
  BY <1>1, <1>2 DEF Live
<1>4. Tally(env_pgtable, Live) = Tally(env_pgtable, Live \ {e}) + env_pgtable[e]
  BY <1>1, <1>2, LiveFinite, TallyRemove
<1>5. Tally(env_pgtable, Live \ {e}) \in Nat /\ env_pgtable[e] \in Nat
  <2>1. IsFiniteSet(Live \ {e}) /\ Live \ {e} \in SUBSET Slot
    BY LiveFinite, FS_Subset
  <2> QED
    BY <1>2, <2>1, TallyNat
<1>6. freepages + (Tally(env_pgtable, Live \ {e}) + env_pgtable[e]) <= total
  BY <1>4 DEF PagesNotInvented
<1>7. (freepages + env_pgtable[e]) + Tally(env_pgtable, Live \ {e}) <= total
  BY <1>2, <1>5, <1>6
<1> QED
  BY <1>1, <1>3, <1>7 DEF PagesNotInvented

(* Every other step leaves the pages of live envs alone and frees none. *)
LEMMA QuietPages ==
  ASSUME IInv, PagesNotInvented,
         \/ env_create_no_page
         \/ env_create_no_tables
         \/ \E e \in Slot : env_create_no_asid(e)
         \/ \E e \in Slot : schedule(e)
         \/ \E e \in Slot : env_destroy_panics(e)
         \/ UNCHANGED vars
  PROVE  PagesNotInvented'
<1>1. /\ env_status \in [Slot -> {"FREE", "RUNNABLE"}]
      /\ env_pgtable \in [Slot -> Nat] /\ freepages \in Nat /\ total \in Nat
      /\ env_free_list \in Seq(Slot)
  BY DEF IInv, TypeOK
<1>2. /\ env_status' = env_status /\ total' = total
      /\ freepages' \in Nat /\ freepages' <= freepages
      /\ \A x \in Live : env_pgtable'[x] = env_pgtable[x]
  <2>1. CASE \E e \in Slot : env_create_no_asid(e)
    <3>1. PICK e \in Slot : env_create_no_asid(e)
      BY <2>1
    <3>2. /\ env_free_list # <<>> /\ e = Head(env_free_list)
          /\ freepages > KTABLES
          /\ freepages' = freepages - (KTABLES + 1)
          /\ env_pgtable' = [env_pgtable EXCEPT ![e] = KTABLES + 1]
          /\ env_status' = env_status /\ total' = total
      BY <3>1 DEF env_create_no_asid, setup
    <3>3. 1 \in DOMAIN env_free_list /\ env_free_list[1] = e
      BY <1>1, <3>2
    <3>4. e \notin Live
      BY <3>3 DEF Range, IInv, FreeXorLive
    <3> QED
      BY <1>1, <3>2, <3>4, LiveFinite, TableAssumption
  <2>2. CASE env_create_no_page \/ env_create_no_tables
    BY <1>1, <2>2 DEF env_create_no_page, env_create_no_tables
  <2>3. CASE \E e \in Slot : schedule(e) \/ env_destroy_panics(e)
    <3>1. UNCHANGED <<env_status, total, freepages, env_pgtable>>
      BY <2>3 DEF schedule, env_destroy_panics
    <3> QED
      BY <1>1, <3>1
  <2>4. CASE UNCHANGED vars
    BY <1>1, <2>4 DEF vars
  <2> QED
    BY <2>1, <2>2, <2>3, <2>4
<1>3. Live' = Live
  BY <1>2 DEF Live
<1>4. Tally(env_pgtable', Live) = Tally(env_pgtable, Live)
  BY <1>2, TallySame
<1>5. Tally(env_pgtable, Live) \in Nat
  BY <1>1, LiveFinite, TallyNat
<1>6. freepages' + Tally(env_pgtable, Live) <= total
  BY <1>1, <1>2, <1>5 DEF PagesNotInvented
<1> QED
  BY <1>2, <1>3, <1>4, <1>6 DEF PagesNotInvented

(* All steps account for the pages they move. *)
LEMMA PagesStep ==
  IInv /\ PagesNotInvented /\ [Next]_vars => PagesNotInvented'
<1> SUFFICES ASSUME IInv, PagesNotInvented, [Next]_vars
             PROVE  PagesNotInvented'
  OBVIOUS
<1>1. CASE \E e \in Slot, asid \in FreeAsids : env_create(e, asid)
  BY <1>1, CreatePages
<1>2. CASE \E e, next \in Slot : env_destroy(e, next)
  BY <1>2, DestroyPages
<1> QED
  BY <1>1, <1>2, QuietPages DEF Next

(* At first all pages are free. *)
LEMMA PagesInit == Init => PagesNotInvented
<1> SUFFICES ASSUME Init
             PROVE  PagesNotInvented
  OBVIOUS
<1>1. Live = {}
  BY DEF Init, Live
<1>2. Parts(env_pgtable, {}) = {}
  BY DEF Parts
<1>3. Tally(env_pgtable, Live) = 0
  BY <1>1, <1>2, FS_EmptySet DEF Tally
<1>4. freepages \in Nat /\ total = freepages
  BY TableAssumption DEF Init
<1> QED
  BY <1>3, <1>4 DEF PagesNotInvented

(* The types of the table, for every size (asid_alloc, mkenvid).            *)
THEOREM TableTyping == Spec => []TypeOK
<1>1. IInv => TypeOK
  BY DEF IInv
<1> QED
  BY <1>1, InitInv, NextInv, PTL DEF Spec

(* Free pages and the pages that live envs reach never exceed the memory    *)
(* there was, for any memory and any sequence of creations and deaths       *)
(* (env_create, env_free).                                                  *)
THEOREM PagesAccounted == Spec => []PagesNotInvented
  BY InitInv, NextInv, PagesInit, PagesStep, PTL DEF Spec
-----------------------------------------------------------------------------
(* Ids. *)

(* The counter of mkenvid counts the ids: every id handed out and every id   *)
(* of a live env comes from one call of mkenvid, for an entry of envs[].     *)
IdsInv ==
  /\ \A i \in issued :
       /\ i.n \in 1 .. mkid
       /\ \E e \in 0 .. NENV - 1 : i.id = mkenvid(i.n, e)
  /\ \A i, j \in issued : i.n = j.n => i = j
  /\ \A e \in Live : \E n \in 1 .. mkid : env_id[e] = mkenvid(n, e)
  /\ curenv # NULL => curenv \in Live

(* A number has one quotient and one remainder. *)
LEMMA OneQuotient ==
  ASSUME NEW w \in Nat, NEW p \in Nat, NEW q \in Nat,
         NEW r \in 0 .. w - 1, NEW s \in 0 .. w - 1, p * w + r = q * w + s
  PROVE  p = q /\ r = s
<1>1. p * w \in Nat /\ q * w \in Nat
  OBVIOUS
<1>2. ~(p + 1 <= q)
  <2> SUFFICES ASSUME p + 1 <= q
               PROVE  FALSE
    OBVIOUS
  <2>1. (p + 1) * w <= q * w
    BY TimesMonotone
  <2>2. (p + 1) * w = p * w + w
    OBVIOUS
  <2> QED
    BY <1>1, <2>1, <2>2
<1>3. ~(q + 1 <= p)
  <2> SUFFICES ASSUME q + 1 <= p
               PROVE  FALSE
    OBVIOUS
  <2>1. (q + 1) * w <= p * w
    BY TimesMonotone
  <2>2. (q + 1) * w = q * w + w
    OBVIOUS
  <2> QED
    BY <1>1, <2>1, <2>2
<1>4. p = q
  BY <1>2, <1>3
<1> QED
  BY <1>1, <1>4

(* What stands above a remainder does not count. *)
LEMMA Remainder ==
  ASSUME NEW k \in Nat, NEW u \in Nat, u >= 1, NEW r \in 0 .. u - 1
  PROVE  (k * u + r) % u = r
  BY SMTT(30)

(* Within the bound no id wraps: the counter stands above the index, and    *)
(* ENVX finds the index again.                                              *)
LEMMA IdParts ==
  ASSUME NEW n \in 0 .. MAX_ALLOCS, NEW e \in 0 .. NENV - 1
  PROVE  /\ mkenvid(n, e) = n * (2 * NENV) + e
         /\ ENVX(mkenvid(n, e)) = e
         /\ n >= 1 => mkenvid(n, e) # 0
<1> DEFINE w == 2 * NENV
<1>1. NENV \in Nat /\ NENV >= 1 /\ MAX_ALLOCS \in Nat /\ UINT \in Nat
  BY TableAssumption
<1>2. n \in Nat /\ n + 1 <= MAX_ALLOCS + 1 /\ w \in Nat /\ w >= 2
  BY <1>1
<1>3. (n + 1) * w <= (MAX_ALLOCS + 1) * w
  BY <1>1, <1>2, TimesMonotone
<1>4. (MAX_ALLOCS + 1) * w = (MAX_ALLOCS + 1) * 2 * NENV /\ n * w = n * 2 * NENV
  BY <1>1, <1>2
<1>5. (MAX_ALLOCS + 1) * 2 * NENV <= UINT
  BY TableAssumption
<1>6. (n + 1) * w = n * w + w /\ n * w \in Nat /\ (MAX_ALLOCS + 1) * w \in Nat
  BY <1>1, <1>2
<1>7. n * w < UINT
  <2> DEFINE a == n * w
             b == (MAX_ALLOCS + 1) * w
  <2>1. a \in Nat /\ b \in Nat /\ a + w <= b /\ b <= UINT
    BY <1>3, <1>4, <1>5, <1>6
  <2> HIDE DEF a, b, w
  <2>2. a < UINT
    BY <1>1, <1>2, <2>1
  <2> QED
    BY <2>2 DEF a
<1>8. \A x, u \in Nat : x < u => x % u = x
  OBVIOUS
<1>9. (n * 2 * NENV) % UINT = n * w
  BY <1>1, <1>4, <1>6, <1>7, <1>8
<1>10. mkenvid(n, e) = n * w + e
  BY <1>9 DEF mkenvid
<1>11. ENVX(mkenvid(n, e)) = e
  <2>1. n * w + e = (2 * n) * NENV + e /\ 2 * n \in Nat
    BY <1>1, <1>2
  <2>2. ((2 * n) * NENV + e) % NENV = e
    BY <1>1, <2>1, Remainder
  <2> QED
    BY <1>10, <2>1, <2>2 DEF ENVX
<1>12. ASSUME n >= 1
       PROVE  n * w >= 2
  <2>1. 1 * w <= n * w
    BY <1>2, <1>12, TimesMonotone
  <2> QED
    BY <1>2, <1>6, <2>1
<1>13. n >= 1 => mkenvid(n, e) # 0
  <2> SUFFICES ASSUME n >= 1
               PROVE  n * w + e # 0
    BY <1>10
  <2>1. n * w >= 2 /\ n * w \in Nat /\ e \in Nat
    BY <1>6, <1>12
  <2> HIDE DEF w
  <2> QED
    BY <2>1
<1> QED
  BY <1>10, <1>11, <1>13

(* Two calls of mkenvid return the same id only if they are the same call. *)
LEMMA IdsDiffer ==
  ASSUME NEW n \in 0 .. MAX_ALLOCS, NEW m \in 0 .. MAX_ALLOCS,
         NEW e \in 0 .. NENV - 1, NEW f \in 0 .. NENV - 1,
         mkenvid(n, e) = mkenvid(m, f)
  PROVE  n = m /\ e = f
<1> DEFINE w == 2 * NENV
<1>1. w \in Nat /\ n \in Nat /\ m \in Nat /\ e \in 0 .. w - 1 /\ f \in 0 .. w - 1
  BY TableAssumption
<1>2. n * w + e = m * w + f
  BY IdParts
<1> HIDE DEF w
<1> QED
  BY <1>1, <1>2, OneQuotient

(* Live envs are entries of envs[]. *)
LEMMA LiveInArray ==
  ASSUME IInv
  PROVE  Live \subseteq 0 .. NENV - 1
<1>1. Len(env_free_list) \in DOMAIN env_free_list
  BY DEF IInv, TypeOK, PhantomIsLast
<1>2. PHANTOM \in Range(env_free_list)
  BY <1>1 DEF IInv, PhantomIsLast, Range
<1>3. PHANTOM \notin Live
  BY <1>2 DEF IInv, FreeXorLive
<1> QED
  BY <1>3, SlotFacts DEF Live, Slot, PHANTOM

(* A new env gets the next id; the ids of the others stay. *)
LEMMA CreateIds ==
  ASSUME IInv, IdsInv, NEW e \in Slot, NEW asid \in FreeAsids, env_create(e, asid)
  PROVE  IdsInv'
<1> DEFINE new == [id |-> mkenvid(mkid + 1, e), n |-> mkid + 1]
<1>1. /\ env_free_list # <<>> /\ e = Head(env_free_list)
      /\ mkid < MAX_ALLOCS /\ mkid' = mkid + 1
      /\ env_id' = [env_id EXCEPT ![e] = mkenvid(mkid + 1, e)]
      /\ env_status' = [env_status EXCEPT ![e] = "RUNNABLE"]
      /\ issued' = issued \cup {new}
      /\ curenv' = curenv
  BY DEF env_create, setup
<1>2. /\ env_free_list \in Seq(Slot) /\ env_status \in [Slot -> {"FREE", "RUNNABLE"}]
      /\ env_id \in [Slot -> Nat] /\ mkid \in Nat
  BY DEF IInv, TypeOK
<1>3. e \notin Live /\ Live' = Live \cup {e} /\ Live \subseteq Slot
  <2>1. 1 \in DOMAIN env_free_list /\ env_free_list[1] = e
    BY <1>1, <1>2
  <2>2. e \in Range(env_free_list)
    BY <2>1 DEF Range
  <2> QED
    BY <1>1, <1>2, <2>2 DEF IInv, FreeXorLive, Live
<1>4. e \in 0 .. NENV - 1
  BY <1>1, HeadIsNotPhantom, SlotFacts DEF Slot, PHANTOM
<1>5. 1 .. mkid \subseteq 1 .. mkid' /\ mkid + 1 \in 1 .. mkid' /\ mkid + 1 \notin 1 .. mkid
  BY <1>1, <1>2
<1>6. new.n = mkid + 1 /\ new.id = mkenvid(mkid + 1, e)
  OBVIOUS
<1> HIDE DEF new
<1>7. ASSUME NEW i \in issued'
      PROVE  i.n \in 1 .. mkid' /\ \E f \in 0 .. NENV - 1 : i.id = mkenvid(i.n, f)
  <2>1. CASE i \in issued
    BY <1>5, <2>1 DEF IdsInv
  <2>2. CASE i = new
    BY <1>4, <1>5, <1>6, <2>2
  <2> QED
    BY <1>1, <1>7, <2>1, <2>2
<1>8. ASSUME NEW i \in issued', NEW j \in issued', i.n = j.n
      PROVE  i = j
  <2>1. \A k \in issued : k.n # new.n
    BY <1>5, <1>6 DEF IdsInv
  <2> QED
    BY <1>1, <1>8, <2>1 DEF IdsInv
<1>9. ASSUME NEW f \in Live'
      PROVE  \E n \in 1 .. mkid' : env_id'[f] = mkenvid(n, f)
  <2>1. CASE f = e
    BY <1>1, <1>2, <1>5, <2>1
  <2>2. CASE f \in Live
    <3>1. env_id'[f] = env_id[f]
      BY <1>1, <1>2, <1>3, <2>2
    <3> QED
      BY <1>5, <2>2, <3>1 DEF IdsInv
  <2> QED
    BY <1>3, <1>9, <2>1, <2>2
<1>10. (curenv # NULL => curenv \in Live)'
  BY <1>1, <1>3 DEF IdsInv
<1> QED
  BY <1>7, <1>8, <1>9, <1>10 DEF IdsInv

(* The other steps hand out no id. *)
LEMMA OtherIds ==
  ASSUME IInv, IdsInv,
         \/ env_create_no_page
         \/ env_create_no_tables
         \/ \E e \in Slot : env_create_no_asid(e)
         \/ \E e \in Slot : schedule(e)
         \/ \E e, next \in Slot : env_destroy(e, next)
         \/ \E e \in Slot : env_destroy_panics(e)
         \/ UNCHANGED vars
  PROVE  IdsInv'
<1>1. /\ env_status \in [Slot -> {"FREE", "RUNNABLE"}] /\ env_id \in [Slot -> Nat]
      /\ mkid \in Nat /\ env_free_list \in Seq(Slot)
  BY DEF IInv, TypeOK
<1>2. /\ issued' = issued
      /\ mkid' \in {mkid, mkid + 1}
      /\ Live' \subseteq Live
      /\ \A e \in Live : env_id'[e] = env_id[e]
      /\ curenv' # NULL => curenv' \in Live'
  <2>1. CASE \E e \in Slot : env_create_no_asid(e)
    <3>1. PICK e \in Slot : env_create_no_asid(e)
      BY <2>1
    <3>2. /\ env_free_list # <<>> /\ e = Head(env_free_list)
          /\ mkid' = mkid + 1
          /\ env_id' = [env_id EXCEPT ![e] = mkenvid(mkid + 1, e)]
          /\ UNCHANGED <<env_status, issued, curenv>>
      BY <3>1 DEF env_create_no_asid, setup
    <3>3. 1 \in DOMAIN env_free_list /\ env_free_list[1] = e
      BY <1>1, <3>2
    <3>4. e \notin Live
      BY <3>3 DEF Range, IInv, FreeXorLive
    <3>5. Live' = Live
      BY <3>2 DEF Live
    <3>6. \A x \in Live : env_id'[x] = env_id[x]
      BY <1>1, <3>2, <3>4 DEF Live
    <3> QED
      BY <3>2, <3>5, <3>6 DEF IdsInv
  <2>2. CASE env_create_no_page \/ env_create_no_tables
    <3>1. UNCHANGED <<env_status, env_id, mkid, issued, curenv>>
      BY <2>2 DEF env_create_no_page, env_create_no_tables
    <3> QED
      BY <3>1 DEF IdsInv, Live
  <2>3. CASE \E e \in Slot : schedule(e)
    <3>1. curenv' \in Live /\ UNCHANGED <<env_status, env_id, mkid, issued>>
      BY <2>3 DEF schedule
    <3> QED
      BY <3>1 DEF Live
  <2>4. CASE \E e, next \in Slot : env_destroy(e, next)
    <3>1. PICK e \in Slot, next \in Slot : env_destroy(e, next)
      BY <2>4
    <3>2. /\ e \in Live
          /\ env_status' = [env_status EXCEPT ![e] = "FREE"]
          /\ curenv = e => curenv' = NULL \/ curenv' \in Live \ {e}
          /\ curenv # e => curenv' = curenv
          /\ UNCHANGED <<env_id, mkid, issued>>
      BY <3>1 DEF env_destroy, env_free
    <3>3. Live' = Live \ {e}
      BY <1>1, <3>2 DEF Live
    <3> QED
      BY <3>2, <3>3 DEF IdsInv
  <2>5. CASE \E e \in Slot : env_destroy_panics(e)
    <3>1. UNCHANGED <<env_status, env_id, mkid, issued, curenv>>
      BY <2>5 DEF env_destroy_panics
    <3> QED
      BY <3>1 DEF IdsInv, Live
  <2>6. CASE UNCHANGED vars
    <3>1. UNCHANGED <<env_status, env_id, mkid, issued, curenv>>
      BY <2>6 DEF vars
    <3> QED
      BY <3>1 DEF IdsInv, Live
  <2> QED
    BY <2>1, <2>2, <2>3, <2>4, <2>5, <2>6
<1>3. 1 .. mkid \subseteq 1 .. mkid'
  BY <1>1, <1>2
<1>4. \A e \in Live' : \E n \in 1 .. mkid' : env_id'[e] = mkenvid(n, e)
  BY <1>2, <1>3 DEF IdsInv
<1>5. \A i \in issued' : /\ i.n \in 1 .. mkid'
                         /\ \E e \in 0 .. NENV - 1 : i.id = mkenvid(i.n, e)
  BY <1>2, <1>3 DEF IdsInv
<1> QED
  BY <1>2, <1>4, <1>5 DEF IdsInv

(* No step breaks the link between counter, ids and envs. *)
LEMMA IdsStep == IInv /\ IdsInv /\ [Next]_vars => IdsInv'
<1> SUFFICES ASSUME IInv, IdsInv, [Next]_vars
             PROVE  IdsInv'
  OBVIOUS
<1>1. CASE \E e \in Slot, asid \in FreeAsids : env_create(e, asid)
  BY <1>1, CreateIds
<1> QED
  BY <1>1, OtherIds DEF Next

(* A kept id names its own env or nobody. *)
LEMMA IdsFromInv == IInv /\ IdsInv => IdsResolve
<1> SUFFICES ASSUME IInv, IdsInv
             PROVE  IdsResolve
  OBVIOUS
<1>1. mkid \in 0 .. MAX_ALLOCS /\ 1 .. mkid \subseteq 0 .. MAX_ALLOCS
  BY TableAssumption DEF IInv, TypeOK
<1>2. ASSUME NEW i \in issued, NEW j \in issued, i.id = j.id
      PROVE  i = j
  <2>1. PICK e \in 0 .. NENV - 1 : i.id = mkenvid(i.n, e)
    BY DEF IdsInv
  <2>2. PICK f \in 0 .. NENV - 1 : j.id = mkenvid(j.n, f)
    BY DEF IdsInv
  <2>3. i.n \in 0 .. MAX_ALLOCS /\ j.n \in 0 .. MAX_ALLOCS
    BY <1>1 DEF IdsInv
  <2>4. i.n = j.n
    BY <1>2, <2>1, <2>2, <2>3, IdsDiffer, ZenonT(60)
  <2> QED
    BY <2>4 DEF IdsInv
<1>3. ASSUME NEW e \in Live
      PROVE  ENVX(env_id[e]) = e /\ env_id[e] # 0
  <2>1. e \in 0 .. NENV - 1
    BY LiveInArray
  <2>2. PICK n \in 1 .. mkid : env_id[e] = mkenvid(n, e)
    BY DEF IdsInv
  <2>3. n \in 0 .. MAX_ALLOCS /\ n >= 1
    BY <1>1
  <2> QED
    BY <2>1, <2>2, <2>3, IdParts
<1>4. ASSUME NEW i \in issued
      PROVE  /\ envid2env(i.id, FALSE) =
                  IF \E e \in Live : env_id[e] = i.id
                  THEN CHOOSE e \in Live : env_id[e] = i.id
                  ELSE E_BAD_ENV
             /\ curenv # NULL => envid2env(i.id, TRUE) \in {curenv, E_BAD_ENV}
             /\ envid2env(i.id, TRUE) \in {envid2env(i.id, FALSE), E_BAD_ENV, FAULT}
  <2> DEFINE x == ENVX(i.id)
  <2>1. PICK f \in 0 .. NENV - 1 : i.id = mkenvid(i.n, f)
    BY DEF IdsInv
  <2>2. i.n \in 0 .. MAX_ALLOCS /\ i.n >= 1
    BY <1>1 DEF IdsInv
  <2>3. x = f /\ i.id # 0
    BY <2>1, <2>2, IdParts
  <2>4. x \in Slot
    BY <2>3, SlotFacts DEF Slot
  <2> HIDE DEF x
  <2>5. x \in Live <=> env_status[x] # "FREE"
    BY <2>4 DEF Live, IInv, TypeOK
  <2>6. \A e \in Live : env_id[e] = i.id => e = x
    BY <1>3 DEF x
  <2>7. curenv # NULL => env_id[curenv] # 0
    BY <1>3 DEF IdsInv
  <2>8. /\ envid2env(i.id, FALSE) =
             IF env_status[x] = "FREE" \/ env_id[x] # i.id THEN E_BAD_ENV ELSE x
        /\ envid2env(i.id, TRUE) =
             IF env_status[x] = "FREE" \/ env_id[x] # i.id THEN E_BAD_ENV
             ELSE IF x = curenv THEN x
             ELSE IF curenv = NULL THEN FAULT
             ELSE IF 0 = env_id[curenv] THEN x ELSE E_BAD_ENV
    BY <2>3 DEF envid2env, env_parent_id, x
  <2>9. CASE x \in Live /\ env_id[x] = i.id
    <3>1. (CHOOSE e \in Live : env_id[e] = i.id) = x
      BY <2>6, <2>9
    <3> QED
      BY <2>5, <2>7, <2>8, <2>9, <3>1
  <2>10. CASE ~(x \in Live /\ env_id[x] = i.id)
    <3>1. ~\E e \in Live : env_id[e] = i.id
      BY <2>6, <2>10
    <3> QED
      BY <2>5, <2>8, <2>10, <3>1
  <2> QED
    BY <2>9, <2>10
<1> QED
  BY <1>2, <1>4 DEF IdsResolve

(* No id has been handed out before the first env. *)
LEMMA IdsInit == Init => IdsInv
<1> SUFFICES ASSUME Init
             PROVE  IdsInv
  OBVIOUS
<1>1. Live = {}
  BY DEF Init, Live
<1> QED
  BY <1>1 DEF Init, IdsInv

(* An id names the env it was given to while that lives and nobody after it *)
(* has died, for tables of every size and until the counter of mkenvid      *)
(* wraps (mkenvid, envid2env, env.c:88-123).                                *)
THEOREM IdsNameTheirEnv == Spec => []IdsResolve
  BY InitInv, NextInv, IdsInit, IdsStep, IdsFromInv, PTL DEF Spec
=============================================================================
