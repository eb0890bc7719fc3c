------------------------------ MODULE PhysPages ------------------------------
(***************************************************************************)
(* The physical page allocator, kern/phypage.c.                            *)
(*                                                                         *)
(* Free pages are linked through their own first word (struct run), so the *)
(* allocator's only private state is the list head.  The word of a page    *)
(* that is handed out belongs to its holder, who may write anything there. *)
(***************************************************************************)
EXTENDS Integers, Sequences

CONSTANTS
  KERNEND,  \* first byte after the kernel image (0x80400000 in mmu.h)
  PHYEND    \* first byte after physical memory  (0x88000000 in mmu.h)

PAGE_SIZE == 4096

(* Both ends of the heap are page addresses, and address 0 is not in it. *)
ASSUME HeapAssumption ==
  /\ KERNEND \in Nat \ {0}
  /\ PHYEND \in Nat
  /\ KERNEND % PAGE_SIZE = 0
  /\ PHYEND % PAGE_SIZE = 0
  /\ KERNEND <= PHYEND

NULL == 0

ROUND(a) == ((a + PAGE_SIZE - 1) \div PAGE_SIZE) * PAGE_SIZE

(* The starting addresses of the pages between KERNEND and PHYEND. *)
Page == {PAGE_SIZE * i : i \in KERNEND \div PAGE_SIZE .. (PHYEND \div PAGE_SIZE) - 1}

VARIABLES
  freelist,  \* kmem.freelist: the first free page, or NULL
  next,      \* the first word of every page: r->next while the page is free
  p,         \* the loop variable of freerange: the pages below it were freed
  ret,       \* what the last kalloc returned
  panicked,  \* panic was called: the kernel spins for ever
  held,      \* auxiliary: the pages callers hold
  odd,       \* auxiliary: 1 after an odd number of calls of kalloc
  chain      \* auxiliary: the free pages in the order they would be handed out

vars == <<freelist, next, p, ret, panicked, held, odd, chain>>

(* kmem is in .bss; physical memory holds anything before kinit writes it. *)
Init ==
  /\ freelist = NULL
  /\ next \in [Page -> Page \cup {NULL}]
  /\ p = ROUND(KERNEND)
  /\ ret = NULL
  /\ panicked = FALSE
  /\ held = {}
  /\ odd = 0
  /\ chain = <<>>

(* Mutant of BadAddress: the end of memory is taken for a page. *)
BadAddressOffByOne(pa) ==
  \/ pa % PAGE_SIZE # 0
  \/ pa < KERNEND
  \/ pa > PHYEND

(* The addresses kfree refuses. *)
BadAddress(pa) ==
  \/ pa % PAGE_SIZE # 0
  \/ pa < KERNEND
  \/ pa >= PHYEND

(* kfree without its caller: link pa in front of the list, or panic. *)
kfree(pa) ==
  IF BadAddress(pa)
  THEN /\ panicked' = TRUE
       /\ UNCHANGED <<freelist, next, held, chain>>
  ELSE /\ next' = [next EXCEPT ![pa] = freelist]
       /\ freelist' = pa
       /\ held' = held \ {pa}
       /\ chain' = <<pa>> \o chain
       /\ UNCHANGED panicked

(* Mutant of kalloc: the page is cleared before its link is read. *)
kallocClearsFirst ==
  /\ ret' = freelist
  /\ IF freelist # NULL
     THEN /\ freelist' = 0
          /\ next' = [next EXCEPT ![freelist] = 0]
          /\ held' = held \cup {freelist}
          /\ chain' = IF chain = <<>> THEN <<>> ELSE Tail(chain)
     ELSE UNCHANGED <<freelist, next, held, chain>>
  /\ UNCHANGED panicked

(* Mutant of kalloc: the list head is not moved on. *)
kallocKeepsHead ==
  /\ ret' = freelist
  /\ IF freelist # NULL
     THEN /\ freelist' = freelist
          /\ next' = [next EXCEPT ![freelist] = 0]
          /\ held' = held \cup {freelist}
          /\ chain' = IF chain = <<>> THEN <<>> ELSE Tail(chain)
     ELSE UNCHANGED <<freelist, next, held, chain>>
  /\ UNCHANGED panicked

(* kalloc without its caller: unlink the first page, cleared; 0 if none. *)
kalloc ==
  /\ ret' = freelist
  /\ IF freelist # NULL
     THEN /\ freelist' = next[freelist]
          /\ next' = [next EXCEPT ![freelist] = 0]
          /\ held' = held \cup {freelist}
          /\ chain' = IF chain = <<>> THEN <<>> ELSE Tail(chain)
     ELSE UNCHANGED <<freelist, next, held, chain>>
  /\ UNCHANGED panicked

Booting == p + PAGE_SIZE <= PHYEND

(* One round of the loop of freerange, which kinit runs over the heap. *)
freerange ==
  /\ ~panicked
  /\ Booting
  /\ kfree(p)
  /\ p' = p + PAGE_SIZE
  /\ UNCHANGED <<ret, odd>>

KAlloc ==
  /\ ~panicked
  /\ ~Booting
  /\ kalloc
  /\ odd' = 1 - odd
  /\ UNCHANGED p

KFree(pa) ==
  /\ ~panicked
  /\ ~Booting
  /\ kfree(pa)
  /\ UNCHANGED <<p, ret, odd>>

(* A holder writes the first word of its page (a PTE, user data, ...). *)
HolderWrites(page, word) ==
  /\ ~panicked
  /\ page \in held
  /\ next' = [next EXCEPT ![page] = word]
  /\ UNCHANGED <<freelist, p, ret, panicked, held, odd, chain>>

(* Addresses no kalloc returned: the null page, an unaligned one, the ends. *)
StrayAddress == {NULL, KERNEND - PAGE_SIZE, KERNEND + 1, PHYEND}

Next ==
  \/ freerange
  \/ KAlloc
  \/ \E pa \in held \cup StrayAddress : KFree(pa)
  \/ \E page \in held, word \in Page \cup {NULL} : HolderWrites(page, word)

Spec == Init /\ [][Next]_vars
-----------------------------------------------------------------------------
(* The pages kinit has given to the allocator and nobody holds. *)
FreePages == {page \in Page : page < p} \ held

(* Types: the list head is NULL or a page, so no call dereferences a wild   *)
(* pointer, and only pages of the heap are ever held.                       *)
TypeOK ==
  /\ freelist \in Page \cup {NULL}
  /\ next \in [Page -> Page \cup {NULL}]
  /\ p \in Nat
  /\ ret \in Page \cup {NULL}
  /\ panicked \in BOOLEAN
  /\ held \subseteq Page
  /\ odd \in 0 .. 1
  /\ chain \in Seq(Page)

(* Following r->next from kmem.freelist runs along chain and ends at NULL. *)
ChainLinked ==
  /\ freelist = IF chain = <<>> THEN NULL ELSE chain[1]
  /\ \A i \in 1 .. Len(chain) :
       next[chain[i]] = IF i = Len(chain) THEN NULL ELSE chain[i + 1]

ChainNoDup == \A i, j \in 1 .. Len(chain) : chain[i] = chain[j] => i = j

ChainIsFree == {chain[i] : i \in 1 .. Len(chain)} = FreePages

(* Following r->next from kmem.freelist visits exactly the free pages, each *)
(* once, and ends at NULL: no free page is lost, none is handed out twice,  *)
(* and the list never runs through a page somebody holds, whatever holders  *)
(* write into their pages (kalloc and kfree, phypage.c:34-56).              *)
FreeListSound == ChainLinked /\ ChainNoDup /\ ChainIsFree

(* The allocator implements the pool of pages: a successful kalloc returns  *)
(* a page that was free, kalloc returns 0 only when no page is free         *)
(* (phypage.c:31-33), kfree makes exactly its page free again.              *)
Pool == INSTANCE PagePool WITH free <- FreePages
PoolSpec == Pool!Spec
=============================================================================
