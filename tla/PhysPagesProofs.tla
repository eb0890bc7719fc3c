--------------------------- MODULE PhysPagesProofs ---------------------------
(***************************************************************************)
(* For every heap: the free list is sound, and the allocator implements    *)
(* the pool of pages.                                                      *)
(***************************************************************************)
EXTENDS PhysPages, TLAPS

(* The loop of freerange: nothing is handed out before it ends. *)
LoopInv ==
  /\ p % PAGE_SIZE = 0
  /\ KERNEND <= p /\ p <= PHYEND
  /\ Booting => held = {}

IInv == TypeOK /\ LoopInv /\ FreeListSound

(* Page is the set of aligned addresses of the heap. *)
LEMMA PageIsAligned ==
  \A a \in Int : a \in Page <=> KERNEND <= a /\ a < PHYEND /\ a % PAGE_SIZE = 0
<1> SUFFICES ASSUME NEW a \in Int
             PROVE  a \in Page <=> KERNEND <= a /\ a < PHYEND /\ a % PAGE_SIZE = 0
  OBVIOUS
<1>1. ASSUME a \in Page
      PROVE  KERNEND <= a /\ a < PHYEND /\ a % PAGE_SIZE = 0
  <2>1. PICK i \in KERNEND \div PAGE_SIZE .. (PHYEND \div PAGE_SIZE) - 1 :
          a = PAGE_SIZE * i
    BY <1>1 DEF Page
  <2> QED
    BY <2>1, HeapAssumption DEF PAGE_SIZE
<1>2. ASSUME KERNEND <= a, a < PHYEND, a % PAGE_SIZE = 0
      PROVE  a \in Page
  <2>1. a = PAGE_SIZE * (a \div PAGE_SIZE)
    BY <1>2 DEF PAGE_SIZE
  <2>2. a \div PAGE_SIZE \in KERNEND \div PAGE_SIZE .. (PHYEND \div PAGE_SIZE) - 1
    BY <1>2, HeapAssumption DEF PAGE_SIZE
  <2> QED
    BY <2>1, <2>2 DEF Page
<1> QED
  BY <1>1, <1>2

(* Page addresses are positive numbers, so none of them is NULL. *)
LEMMA PageIsNat ==
  /\ Page \subseteq Nat
  /\ NULL \notin Page
<1>1. Page \subseteq Nat
  BY HeapAssumption DEF Page, PAGE_SIZE
<1>2. NULL \notin Page
  BY <1>1, PageIsAligned, HeapAssumption DEF NULL
<1> QED
  BY <1>1, <1>2

(* In front of the list goes a page that is not on it. *)
LEMMA PushSound ==
  ASSUME IInv, NEW pa \in Page, pa \notin FreePages, kfree(pa)
  PROVE  /\ freelist' \in Page \cup {NULL}
         /\ next' \in [Page -> Page \cup {NULL}]
         /\ chain' \in Seq(Page)
         /\ held' = held \ {pa}
         /\ ~panicked => ~panicked'
         /\ UNCHANGED panicked
         /\ ChainLinked'
         /\ ChainNoDup'
         /\ {chain'[i] : i \in 1 .. Len(chain')} = FreePages \cup {pa}
<1> USE DEF IInv, TypeOK, FreeListSound
<1>1. /\ next' = [next EXCEPT ![pa] = freelist]
      /\ freelist' = pa
      /\ held' = held \ {pa}
      /\ chain' = <<pa>> \o chain
      /\ UNCHANGED panicked
  <2>1. ~BadAddress(pa)
    <3>1. pa \in Int
      BY PageIsNat
    <3> HIDE DEF IInv
    <3> QED
      BY <3>1, PageIsAligned, HeapAssumption DEF BadAddress
  <2> QED
    BY <2>1 DEF kfree
<1>2. /\ chain' \in Seq(Page)
      /\ Len(chain') = Len(chain) + 1
      /\ chain'[1] = pa
      /\ \A i \in 1 .. Len(chain) : chain'[i + 1] = chain[i]
  BY <1>1
<1>3. \A i \in 1 .. Len(chain) : chain[i] \in Page /\ chain[i] # pa
  BY DEF ChainIsFree
<1>4. ASSUME NEW i \in 2 .. Len(chain')
      PROVE  /\ i - 1 \in 1 .. Len(chain)
             /\ chain'[i] = chain[i - 1]
  BY <1>2
<1>5. ChainNoDup'
  <2> SUFFICES ASSUME NEW i \in 1 .. Len(chain'), NEW j \in 1 .. Len(chain'),
                      chain'[i] = chain'[j]
               PROVE  i = j
    BY DEF ChainNoDup
  <2>1. CASE i = 1 /\ j = 1
    BY <2>1
  <2>2. CASE i # 1 /\ j # 1
    <3>1. i \in 2 .. Len(chain') /\ j \in 2 .. Len(chain')
      BY <2>2, <1>2
    <3>2. /\ i - 1 \in 1 .. Len(chain) /\ chain'[i] = chain[i - 1]
          /\ j - 1 \in 1 .. Len(chain) /\ chain'[j] = chain[j - 1]
      BY <3>1, <1>4
    <3>3. i - 1 = j - 1
      BY <3>2 DEF ChainNoDup
    <3> QED
      BY <3>3
  <2>3. CASE i = 1 /\ j # 1
    BY <2>3, <1>2, <1>3, <1>4
  <2>4. CASE i # 1 /\ j = 1
    BY <2>4, <1>2, <1>3, <1>4, SMTT(30)
  <2> QED
    BY <2>1, <2>2, <2>3, <2>4
<1>6. ChainLinked'
  <2>1. chain' # <<>> /\ freelist' = chain'[1]
    BY <1>1, <1>2
  <2>2. ASSUME NEW i \in 1 .. Len(chain')
        PROVE  next'[chain'[i]] = IF i = Len(chain') THEN NULL ELSE chain'[i + 1]
    <3>1. CASE i = 1
      <4>1. next'[chain'[i]] = freelist
        BY <3>1, <1>1, <1>2
      <4>2. chain = <<>> <=> Len(chain) = 0
        OBVIOUS
      <4> QED
        BY <3>1, <4>1, <4>2, <1>2 DEF ChainLinked
    <3>2. CASE i # 1
      <4>1. next'[chain'[i]] = next[chain[i - 1]]
        BY <3>2, <1>1, <1>3, <1>4
      <4> QED
        BY <3>2, <4>1, <1>2, <1>4 DEF ChainLinked
    <3> QED
      BY <3>1, <3>2
  <2> QED
    BY <2>1, <2>2 DEF ChainLinked
<1>7. {chain'[i] : i \in 1 .. Len(chain')} = FreePages \cup {pa}
  <2>1. ASSUME NEW i \in 1 .. Len(chain')
        PROVE  chain'[i] \in FreePages \cup {pa}
    BY <1>2, <1>4, SMTT(30) DEF ChainIsFree
  <2>2. ASSUME NEW x \in FreePages
        PROVE  \E i \in 1 .. Len(chain') : chain'[i] = x
    <3>1. PICK i \in 1 .. Len(chain) : chain[i] = x
      BY DEF ChainIsFree
    <3>2. i + 1 \in 1 .. Len(chain') /\ chain'[i + 1] = x
      BY <3>1, <1>2
    <3> QED
      BY <3>2
  <2>3. 1 \in 1 .. Len(chain') /\ chain'[1] = pa
    BY <1>2
  <2> QED
    BY <2>1, <2>2, <2>3
<1> QED
  BY <1>1, <1>2, <1>5, <1>6, <1>7

(* The first page leaves the list; 0 is returned only if there is none. *)
LEMMA PopSound ==
  ASSUME IInv, kalloc
  PROVE  /\ freelist' \in Page \cup {NULL}
         /\ next' \in [Page -> Page \cup {NULL}]
         /\ ret' = freelist
         /\ chain' \in Seq(Page)
         /\ UNCHANGED panicked
         /\ ChainLinked'
         /\ ChainNoDup'
         /\ {chain'[i] : i \in 1 .. Len(chain')} = FreePages \ {freelist}
         /\ \/ freelist = NULL /\ FreePages = {} /\ held' = held
            \/ freelist \in FreePages /\ held' = held \cup {freelist}
<1> USE DEF IInv, TypeOK, FreeListSound
<1>1. CASE freelist = NULL
  <2>1. chain = <<>>
    BY <1>1, PageIsNat DEF ChainLinked
  <2>2. FreePages = {}
    BY <2>1 DEF ChainIsFree
  <2>3. UNCHANGED <<freelist, next, held, chain, panicked>> /\ ret' = freelist
    BY <1>1 DEF kalloc
  <2>4. ChainLinked' /\ ChainNoDup' /\ chain' = <<>>
    BY <2>1, <2>3 DEF ChainLinked, ChainNoDup
  <2> QED
    BY <1>1, <2>2, <2>3, <2>4
<1>2. CASE freelist # NULL
  <2>1. chain # <<>> /\ freelist = chain[1] /\ Len(chain) >= 1
    BY <1>2 DEF ChainLinked
  <2>2. /\ freelist' = next[freelist]
        /\ next' = [next EXCEPT ![freelist] = 0]
        /\ held' = held \cup {freelist}
        /\ chain' = Tail(chain)
        /\ ret' = freelist
        /\ UNCHANGED panicked
    BY <1>2, <2>1 DEF kalloc
  <2>3. /\ chain' \in Seq(Page)
        /\ Len(chain') = Len(chain) - 1
        /\ \A i \in 1 .. Len(chain') : chain'[i] = chain[i + 1]
    BY <2>1, <2>2
  <2>4. \A i \in 1 .. Len(chain') : chain'[i] \in Page /\ chain'[i] # freelist
    BY <2>1, <2>3 DEF ChainNoDup
  <2>5. ChainNoDup'
    BY <2>1, <2>3 DEF ChainNoDup
  <2>6. ChainLinked'
    <3>1. freelist' = IF chain' = <<>> THEN NULL ELSE chain'[1]
      <4>1. chain' = <<>> <=> Len(chain) = 1
        BY <2>1, <2>3
      <4>2. next[chain[1]] = IF 1 = Len(chain) THEN NULL ELSE chain[1 + 1]
        <5>1. 1 \in 1 .. Len(chain)
          BY <2>1
        <5> QED
          BY <5>1 DEF ChainLinked
      <4> QED
        BY <4>1, <4>2, <2>1, <2>2, <2>3
    <3>2. ASSUME NEW i \in 1 .. Len(chain')
          PROVE  next'[chain'[i]] = IF i = Len(chain') THEN NULL ELSE chain'[i + 1]
      <4>1. next'[chain'[i]] = next[chain[i + 1]]
        BY <2>2, <2>3, <2>4
      <4> QED
        BY <4>1, <2>1, <2>3 DEF ChainLinked
    <3> QED
      BY <3>1, <3>2 DEF ChainLinked
  <2>7. {chain'[i] : i \in 1 .. Len(chain')} = FreePages \ {freelist}
    <3>1. ASSUME NEW i \in 1 .. Len(chain')
          PROVE  chain'[i] \in FreePages \ {freelist}
      BY <2>3, <2>4 DEF ChainIsFree
    <3>2. ASSUME NEW x \in FreePages \ {freelist}
          PROVE  \E i \in 1 .. Len(chain') : chain'[i] = x
      <4>1. PICK i \in 1 .. Len(chain) : chain[i] = x
        BY DEF ChainIsFree
      <4>2. i - 1 \in 1 .. Len(chain') /\ chain'[i - 1] = x
        BY <4>1, <2>1, <2>3
      <4> QED
        BY <4>2
    <3> QED
      BY <3>1, <3>2
  <2>8. freelist \in FreePages
    BY <2>1 DEF ChainIsFree
  <2>9. next[freelist] \in Page \cup {NULL} /\ freelist \in Page
    BY <1>2
  <2> QED
    BY <2>2, <2>3, <2>5, <2>6, <2>7, <2>8, <2>9 DEF NULL
<1> QED
  BY <1>1, <1>2

(* freerange frees the next page of the heap, which is not free yet. *)
LEMMA DonateSound ==
  ASSUME IInv, freerange
  PROVE  /\ IInv'
         /\ p \in Page
         /\ p \notin FreePages \cup held
         /\ FreePages' = FreePages \cup {p}
         /\ held' = held
         /\ ret' = ret /\ odd' = odd
<1> USE DEF IInv
<1>1. p \in Nat /\ p % PAGE_SIZE = 0 /\ KERNEND <= p /\ p + PAGE_SIZE <= PHYEND
  BY DEF TypeOK, LoopInv, freerange, Booting
<1>2. p \in Page
  BY <1>1, PageIsAligned, HeapAssumption DEF PAGE_SIZE
<1>3. held = {}
  BY DEF LoopInv, freerange
<1>4. p \notin FreePages
  BY <1>1 DEF FreePages
<1>5. kfree(p) /\ p' = p + PAGE_SIZE /\ ret' = ret /\ odd' = odd /\ ~panicked
  BY DEF freerange
<1>6. /\ TypeOK'
      /\ ChainLinked'
      /\ ChainNoDup'
      /\ held' = {}
      /\ {chain'[i] : i \in 1 .. Len(chain')} = FreePages \cup {p}
  BY <1>1, <1>2, <1>3, <1>4, <1>5, PushSound DEF TypeOK, PAGE_SIZE
<1>7. LoopInv'
  BY <1>1, <1>5, <1>6, HeapAssumption DEF LoopInv, PAGE_SIZE
<1>8. FreePages' = FreePages \cup {p}
  <2>1. ASSUME NEW x \in Page
        PROVE  x < p + PAGE_SIZE <=> x < p \/ x = p
    <3>1. x \in Nat /\ x % PAGE_SIZE = 0
      BY PageIsNat, PageIsAligned
    <3> QED
      BY <1>1, <3>1 DEF PAGE_SIZE
  <2> QED
    BY <2>1, <1>2, <1>3, <1>5, <1>6 DEF FreePages
<1> QED
  BY <1>2, <1>3, <1>4, <1>5, <1>6, <1>7, <1>8 DEF FreeListSound, ChainIsFree

(* kalloc keeps the free list sound, on an empty list too. *)
LEMMA KAllocSound ==
  ASSUME IInv, KAlloc
  PROVE  /\ IInv'
         /\ odd' = 1 - odd
         /\ \/ /\ FreePages = {} /\ ret' = NULL
               /\ held' = held /\ FreePages' = FreePages
            \/ /\ ret' \in FreePages
               /\ held' = held \cup {ret'}
               /\ FreePages' = FreePages \ {ret'}
<1> USE DEF IInv
<1>1. kalloc /\ p' = p /\ odd' = 1 - odd /\ ~Booting /\ ~panicked
  BY DEF KAlloc
<1>2. FreePages \subseteq Page
  BY DEF FreePages
<1>3. TypeOK' /\ ChainLinked' /\ ChainNoDup'
  BY <1>1, <1>2, PopSound DEF TypeOK
<1>4. LoopInv'
  BY <1>1 DEF LoopInv, Booting
<1>5. CASE freelist = NULL /\ FreePages = {} /\ held' = held
  <2>1. FreePages' = FreePages
    BY <1>1, <1>5 DEF FreePages
  <2>2. ChainIsFree'
    BY <1>1, <1>5, <2>1, PopSound DEF ChainIsFree
  <2> QED
    BY <1>1, <1>3, <1>4, <1>5, <2>1, <2>2, PopSound DEF FreeListSound
<1>6. CASE freelist \in FreePages /\ held' = held \cup {freelist}
  <2>1. FreePages' = FreePages \ {freelist}
    BY <1>1, <1>6 DEF FreePages
  <2>2. ChainIsFree'
    BY <1>1, <2>1, PopSound DEF ChainIsFree
  <2> QED
    BY <1>1, <1>3, <1>4, <1>6, <2>1, <2>2, PopSound DEF FreeListSound
<1> QED
  BY <1>1, <1>5, <1>6, PopSound

(* kfree of a held page keeps the free list sound. *)
LEMMA KFreeSound ==
  ASSUME IInv, NEW pa \in held, KFree(pa)
  PROVE  /\ IInv'
         /\ FreePages' = FreePages \cup {pa}
         /\ held' = held \ {pa}
         /\ ret' = ret /\ odd' = odd
<1> USE DEF IInv
<1>1. kfree(pa) /\ p' = p /\ ret' = ret /\ odd' = odd /\ ~Booting
  BY DEF KFree
<1>2. pa \in Page /\ pa \notin FreePages
  BY DEF TypeOK, FreePages
<1>3. /\ TypeOK'
      /\ ChainLinked'
      /\ ChainNoDup'
      /\ held' = held \ {pa}
      /\ {chain'[i] : i \in 1 .. Len(chain')} = FreePages \cup {pa}
  BY <1>1, <1>2, PushSound DEF TypeOK
<1>4. LoopInv'
  BY <1>1 DEF LoopInv, Booting
<1>5. FreePages' = FreePages \cup {pa}
  <2>1. FreePages = {x \in Page : x < p} \ held
    BY DEF FreePages
  <2>2. pa < p
    <3>1. p = PHYEND
      BY <1>1, HeapAssumption DEF TypeOK, LoopInv, Booting, PAGE_SIZE
    <3> QED
      BY <1>2, <3>1, PageIsNat, PageIsAligned
  <2> QED
    BY <1>1, <1>2, <1>3, <2>1, <2>2 DEF FreePages
<1> QED
  BY <1>1, <1>3, <1>4, <1>5 DEF FreeListSound, ChainIsFree

(* kfree refuses the addresses that are not pages of the heap. *)
LEMMA StraySound ==
  ASSUME IInv, NEW pa \in StrayAddress, KFree(pa)
  PROVE  /\ IInv' /\ FreePages' = FreePages
         /\ held' = held /\ ret' = ret /\ odd' = odd
<1>1. BadAddress(pa)
  <2>1. CASE pa = KERNEND + 1
    BY <2>1, HeapAssumption DEF BadAddress, PAGE_SIZE
  <2>2. CASE pa # KERNEND + 1
    BY <2>2, HeapAssumption DEF BadAddress, StrayAddress, PAGE_SIZE, NULL
  <2> QED
    BY <2>1, <2>2
<1>2. panicked' = TRUE /\ UNCHANGED <<freelist, next, held, chain, p, ret, odd>>
  BY <1>1 DEF KFree, kfree
<1> QED
  BY <1>2 DEF IInv, TypeOK, LoopInv, Booting, FreeListSound, ChainLinked,
              ChainNoDup, ChainIsFree, FreePages

(* The list does not run through held pages, so holders cannot break it. *)
LEMMA HolderSound ==
  ASSUME IInv, NEW page \in held, NEW word \in Page \cup {NULL},
         HolderWrites(page, word)
  PROVE  /\ IInv' /\ FreePages' = FreePages
         /\ held' = held /\ ret' = ret /\ odd' = odd
<1> USE DEF IInv
<1>1. /\ next' = [next EXCEPT ![page] = word]
      /\ UNCHANGED <<freelist, p, ret, panicked, held, odd, chain>>
  BY DEF HolderWrites
<1>2. \A i \in 1 .. Len(chain) : chain[i] \in FreePages
  BY DEF FreeListSound, ChainIsFree
<1>3. \A i \in 1 .. Len(chain) : chain[i] \in Page /\ chain[i] # page
  BY <1>2 DEF FreePages
<1>4. TypeOK'
  BY <1>1 DEF TypeOK
<1>5. FreePages' = FreePages /\ LoopInv'
  BY <1>1 DEF FreePages, LoopInv, Booting
<1>6. ChainLinked'
  BY <1>1, <1>3 DEF FreeListSound, ChainLinked, TypeOK
<1>7. ChainNoDup' /\ ChainIsFree'
  BY <1>1, <1>5 DEF FreeListSound, ChainNoDup, ChainIsFree
<1> QED
  BY <1>1, <1>4, <1>5, <1>6, <1>7 DEF FreeListSound

(* The zeroed kmem is an empty list, and an empty pool. *)
LEMMA InitSound ==
  Init => IInv /\ FreePages = {} /\ held = {} /\ ret = NULL /\ odd = 0
<1> SUFFICES ASSUME Init
             PROVE  IInv /\ FreePages = {} /\ held = {} /\ ret = NULL /\ odd = 0
  OBVIOUS
<1>1. p = KERNEND
  BY HeapAssumption DEF Init, ROUND, PAGE_SIZE
<1>2. FreePages = {}
  <2>1. \A x \in Page : x \in Int /\ KERNEND <= x
    BY PageIsNat, PageIsAligned
  <2> QED
    BY <1>1, <2>1, HeapAssumption DEF FreePages
<1>3. TypeOK
  <2>1. chain \in Seq(Page) /\ held \subseteq Page
    BY DEF Init
  <2>2. freelist \in Page \cup {NULL} /\ next \in [Page -> Page \cup {NULL}]
    BY DEF Init
  <2>3. p \in Nat /\ odd \in 0 .. 1 /\ ret \in Page \cup {NULL}
    BY <1>1, HeapAssumption DEF Init
  <2>4. panicked \in BOOLEAN
    BY Zenon DEF Init
  <2> QED
    BY <2>1, <2>2, <2>3, <2>4 DEF TypeOK
<1>4. LoopInv
  BY <1>1, HeapAssumption DEF Init, LoopInv
<1>5. FreeListSound
  BY <1>2 DEF Init, FreeListSound, ChainLinked, ChainNoDup, ChainIsFree
<1> QED
  BY <1>2, <1>3, <1>4, <1>5 DEF Init, IInv

(* Every step of the allocator keeps the invariant. *)
LEMMA StepSound == IInv /\ [Next]_vars => IInv'
<1> SUFFICES ASSUME IInv, [Next]_vars
             PROVE  IInv'
  OBVIOUS
<1>1. CASE freerange
  BY <1>1, DonateSound
<1>2. CASE KAlloc
  BY <1>2, KAllocSound
<1>3. CASE \E pa \in held \cup StrayAddress : KFree(pa)
  BY <1>3, KFreeSound, StraySound
<1>4. CASE \E page \in held, word \in Page \cup {NULL} : HolderWrites(page, word)
  BY <1>4, HolderSound
<1>5. CASE UNCHANGED vars
  BY <1>5 DEF vars, IInv, TypeOK, LoopInv, Booting, FreeListSound, ChainLinked,
              ChainNoDup, ChainIsFree, FreePages
<1> QED
  BY <1>1, <1>2, <1>3, <1>4, <1>5 DEF Next

(* The allocator's pointers are pages of the heap or NULL at all times. *)
THEOREM TypeCorrect == Spec => []TypeOK
<1>1. IInv => TypeOK
  BY DEF IInv
<1> QED
  BY <1>1, InitSound, StepSound, PTL DEF Spec

(* The free list is sound for every heap and every order of calls. *)
THEOREM ListSound == Spec => []FreeListSound
<1>1. IInv => FreeListSound
  BY DEF IInv
<1> QED
  BY <1>1, InitSound, StepSound, PTL DEF Spec

(* kern/phypage.c implements the pool: every step of the allocator is a     *)
(* step of PagePool, or changes nothing the pool's callers can see.         *)
THEOREM ImplementsPool == Spec => PoolSpec
<1>1. Init => Pool!Init
  BY InitSound DEF Pool!Init
<1>2. IInv /\ [Next]_vars => [Pool!Next]_Pool!vars
  <2> SUFFICES ASSUME IInv, [Next]_vars
               PROVE  Pool!Next \/ UNCHANGED Pool!vars
    OBVIOUS
  <2>1. CASE freerange
    <3>1. Pool!Donate(p) /\ p \in Page
      BY <2>1, DonateSound DEF Pool!Donate
    <3> QED
      BY <3>1 DEF Pool!Next
  <2>2. CASE KAlloc
    <3>1. CASE /\ FreePages = {} /\ ret' = NULL
               /\ held' = held /\ FreePages' = FreePages
      BY <2>2, <3>1, KAllocSound DEF Pool!AllocFail, Pool!Next
    <3>2. CASE /\ ret' \in FreePages
               /\ held' = held \cup {ret'}
               /\ FreePages' = FreePages \ {ret'}
      <4>1. Pool!Alloc(ret') /\ ret' \in Page
        BY <2>2, <3>2, KAllocSound DEF Pool!Alloc, FreePages
      <4> QED
        BY <4>1 DEF Pool!Next
    <3> QED
      BY <2>2, <3>1, <3>2, KAllocSound
  <2>3. ASSUME NEW pa \in held, KFree(pa)
        PROVE  Pool!Next
    <3>1. Pool!Free(pa) /\ pa \in Page
      BY <2>3, KFreeSound DEF Pool!Free, IInv, TypeOK
    <3> QED
      BY <3>1 DEF Pool!Next
  <2>4. ASSUME NEW pa \in StrayAddress, KFree(pa)
        PROVE  UNCHANGED Pool!vars
    BY <2>4, StraySound DEF Pool!vars
  <2>5. CASE \E page \in held, word \in Page \cup {NULL} : HolderWrites(page, word)
    BY <2>5, HolderSound DEF Pool!vars
  <2>6. CASE UNCHANGED vars
    BY <2>6 DEF vars, Pool!vars, FreePages
  <2> QED
    BY <2>1, <2>2, <2>3, <2>4, <2>5, <2>6 DEF Next
<1> QED
  BY <1>1, <1>2, InitSound, StepSound, PTL DEF Spec, PoolSpec, Pool!Spec
=============================================================================
