--------------------------------- MODULE Vm ---------------------------------
(***************************************************************************)
(* Page tables: kern/vm.c and its callers in kern/env.c.                   *)
(*                                                                         *)
(* A page table is a tree of physical pages, three levels as in Sv39 with  *)
(* fewer entries.  All of vm.c runs without being interrupted, so a call   *)
(* is one step, and a function of vm.c is an operator from memory to       *)
(* memory.  kalloc takes a page of the pool that PhysPages implements; as  *)
(* pages are cleared and interchangeable, the model takes the least one.   *)
(* The TLB and the bytes of data pages are left out.                       *)
(***************************************************************************)
EXTENDS Integers, FiniteSetsExt

CONSTANTS
  PAGE_SIZE,  \* bytes of a page (4096)
  FAN,        \* entries of a table of level 0 and 1 (512)
  FAN2,       \* entries of a root below MAXVA (256)
  NFREE,      \* how many pages of the pool are free at boot
  Env,        \* the envs that get a page table
  KBASE,      \* where the kernel begins (0x80000000)
  KVAS,       \* the pages of the kernel image, devices and memory
  NENV,       \* entries of envs[], a page each (1024)
  SEGVAS,     \* addresses load_icode_mapper is called with
  SIZES       \* heap sizes uvmalloc and uvmdealloc are called with

MAXVA == FAN2 * FAN * FAN * PAGE_SIZE

(* Where the table maps itself: a page below the last entry of the root. *)
UVPT == MAXVA - PAGE_SIZE - FAN * FAN * PAGE_SIZE

(* Where envs[i] is. *)
ENVS(i) == UVPT - (i + 1) * PAGE_SIZE

(* UVPT and all of envs[] are under one entry of the root, the user's part  *)
(* of an address space under those before it, as in mmu.h.                  *)
ASSUME VmAssumption ==
  /\ {PAGE_SIZE, FAN, FAN2} \subseteq Nat \ {0}
  /\ FAN2 >= 2
  /\ NFREE \subseteq Nat \ {0}
  /\ \E n \in NFREE : \A k \in NFREE : k <= n
  /\ NENV \in Nat /\ NENV < FAN * FAN
  /\ KBASE \in 0 .. (FAN2 - 2) * (FAN * FAN * PAGE_SIZE) - 1
  /\ KVAS \subseteq KBASE .. ENVS(NENV - 1) - 1
  /\ \A va \in {KBASE} \cup KVAS : va % PAGE_SIZE = 0
  /\ SEGVAS \subseteq 0 .. KBASE - 1
  /\ SIZES \subseteq 0 .. KBASE

NULL == 0
NPAGES == CHOOSE n \in NFREE : \A k \in NFREE : k <= n
Page == 1 .. NPAGES        \* the pool; physical page 0 is not in it
KFRAME == NPAGES + 1       \* a page of the kernel image or a device
Index == 0 .. (IF FAN > FAN2 THEN FAN ELSE FAN2) - 1

(* Entries: invalid, V only, V with R/W/X, and V with R/W/X and U. *)
NoPte == [pa |-> 0, kind |-> "none"]
TableAt(pa) == [pa |-> pa, kind |-> "table"]
Zero == [i \in Index |-> NoPte]

VARIABLES
  pt,                \* the entries of every page of the pool, as a table
  free,              \* the free pages of the pool
  panic,             \* who called panic, or "no" one
  kernel_pagetable,  \* the kernel's root
  env_pgtable,       \* the root of every env, or NULL
  sz,                \* the size of every env's heap, kept by the caller
  lost               \* auxiliary: allocated pages nobody can reach any more

vars == <<pt, free, panic, kernel_pagetable, env_pgtable, sz, lost>>

Mem == [pt |-> pt, free |-> free, panic |-> panic]
Up(m) == m.panic = "no"
Stop(m, who) == IF Up(m) THEN [m EXCEPT !.panic = who] ELSE m
Write(m, slot, pte) == [m EXCEPT !.pt[slot.table][slot.index] = pte]

(* A loop of n rounds; Body has what the rounds before made of x. *)
For(n, x, Body(_, _)) ==
  LET loop[k \in 0 .. n] == IF k = 0 THEN x ELSE Body(loop[k - 1], k)
  IN  loop[n]

PagesIn(size) == (size + PAGE_SIZE - 1) \div PAGE_SIZE
ROUND(a) == PagesIn(a) * PAGE_SIZE

VPN_L(level, va) ==
  CASE level = 2 -> va \div (PAGE_SIZE * FAN * FAN)
    [] level = 1 -> (va \div (PAGE_SIZE * FAN)) % FAN
    [] level = 0 -> (va \div PAGE_SIZE) % FAN
-----------------------------------------------------------------------------
(* kern/phypage.c: a page and the memory without it; NULL if none is free. *)
kalloc(m) ==
  IF m.free = {} THEN [m |-> m, pa |-> NULL]
  ELSE LET page == Min(m.free)
       IN  [m |-> [m EXCEPT !.free = @ \ {page}, !.pt[page] = Zero],
            pa |-> page]

kfree(m, pa) ==
  IF pa \notin Page THEN Stop(m, "kfree")
  ELSE [m EXCEPT !.free = @ \cup {pa}, !.pt[pa] = Zero]

(* walk is at slot, which holds no entry: a new table is linked there. *)
LinkTable(new, slot) ==
  [m |-> IF new.pa = NULL THEN new.m ELSE Write(new.m, slot, TableAt(new.pa)),
   table |-> new.pa]

Follow(w, slot, alloc) ==
  IF w.m.pt[slot.table][slot.index] # NoPte
  THEN [w EXCEPT !.table = w.m.pt[slot.table][slot.index].pa]
  ELSE IF alloc THEN LinkTable(kalloc(w.m), slot)
  ELSE [w EXCEPT !.table = NULL]

(* One round of walk's loop, from a table to the one below it. *)
Descend(w, level, va, alloc) ==
  IF w.table = NULL THEN w
  ELSE Follow(w, [table |-> w.table, index |-> VPN_L(level, va)], alloc)

SlotIn(w, va) == [m |-> w.m, slot |-> [table |-> w.table, index |-> VPN_L(0, va)]]

(* The slot of va's entry; its table is NULL when there is none. *)
walk(m, root, va, alloc) ==
  IF va >= MAXVA
  THEN [m |-> Stop(m, "walk"), slot |-> [table |-> NULL, index |-> 0]]
  ELSE SlotIn(Descend(Descend([m |-> m, table |-> root], 2, va, alloc), 1, va, alloc),
              va)

(* What the slot that walk returned holds; invalid if it returned 0. *)
PteAt(w) ==
  IF w.slot.table = NULL THEN NoPte ELSE w.m.pt[w.slot.table][w.slot.index]

entry(m, root, va) == PteAt(walk(m, root, va, FALSE))

UserPa(pte) == IF pte.kind = "user" THEN pte.pa ELSE 0

(* The physical page behind va that user mode may access, or 0. *)
lookup(m, root, va) == UserPa(entry(m, root, va))

(* The body of mappages' loop after walk. *)
Install(w, pte) ==
  IF w.slot.table = NULL THEN [m |-> w.m, ret |-> -1]
  ELSE IF PteAt(w) # NoPte THEN [m |-> Stop(w.m, "mappages: remap"), ret |-> 0]
  ELSE [m |-> Write(w.m, w.slot, pte), ret |-> 0]

(* One round of mappages: va is mapped to pa.  r carries the result. *)
MapPage(r, root, va, pa, kind) ==
  IF ~Up(r.m) \/ r.ret # 0 THEN r
  ELSE Install(walk(r.m, root, va, TRUE), [pa |-> pa, kind |-> kind])

(* Mutant of LastPage: the address behind the last byte is taken. *)
LastPageOneMore(va, size) == (va + size) \div PAGE_SIZE

LastPage(va, size) == (va + size - 1) \div PAGE_SIZE

(* size bytes from va on are mapped to the pages from pa on. *)
mappages(m, root, va, size, pa, kind) ==
  LET first == va \div PAGE_SIZE
  IN  For(LastPage(va, size) - first + 1, [m |-> m, ret |-> 0],
          LAMBDA r, k : MapPage(r, root, (first + k - 1) * PAGE_SIZE, pa + k - 1, kind))

Erase(m, slot) == IF Up(m) THEN Write(m, slot, NoPte) ELSE m

(* The body of uvmunmap's loop after walk. *)
Unmap(w, do_free) ==
  IF PteAt(w) = NoPte THEN Stop(w.m, "uvmunmap: not mapped")
  ELSE IF PteAt(w).kind = "table" THEN Stop(w.m, "uvmunmap: not leaf")
  ELSE Erase(IF do_free THEN kfree(w.m, PteAt(w).pa) ELSE w.m, w.slot)

(* The loop of uvmunmap looks at va, not at a, in every round. *)
uvmunmap(m, root, va, npages, do_free) ==
  IF va % PAGE_SIZE # 0 THEN Stop(m, "uvmunmap: va not aligned")
  ELSE For(npages, m, LAMBDA n, k : IF Up(n) THEN Unmap(walk(n, root, va, FALSE), do_free)
                                    ELSE n)

(* The memory after the heap shrank from old to new. *)
uvmdealloc(m, root, old, new) ==
  IF ROUND(new) < ROUND(old)
  THEN uvmunmap(m, root, ROUND(new), (ROUND(old) - ROUND(new)) \div PAGE_SIZE, TRUE)
  ELSE m

(* Mutant of Undo: the pages mapped so far are kept. *)
UndoNothing(m, root, a, old) == [m |-> m, ok |-> FALSE]

(* uvmalloc gives up at a. *)
Undo(m, root, a, old) == [m |-> uvmdealloc(m, root, a, old), ok |-> FALSE]

(* Mutant of Grown: the page that cannot be mapped is not freed. *)
GrownLeaks(mapped, pa, root, a, old) ==
  IF mapped.ret # 0 THEN Undo(mapped.m, root, a, old)
  ELSE [m |-> mapped.m, ok |-> TRUE]

(* The body of uvmalloc's loop after mappages. *)
Grown(mapped, pa, root, a, old) ==
  IF mapped.ret # 0 THEN Undo(kfree(mapped.m, pa), root, a, old)
  ELSE [m |-> mapped.m, ok |-> TRUE]

(* The body of uvmalloc's loop after kalloc. *)
GrowWith(new, root, a, old) ==
  IF new.pa = NULL THEN Undo(new.m, root, a, old)
  ELSE Grown(mappages(new.m, root, a, PAGE_SIZE, new.pa, "user"), new.pa, root, a, old)

Result(grown, new) == [m |-> grown.m, ret |-> IF grown.ok THEN new ELSE 0]

uvmalloc(m, root, old, new) ==
  LET first == PagesIn(old)
  IN  IF new < old THEN [m |-> m, ret |-> old]
      ELSE Result(For(PagesIn(new) - first, [m |-> m, ok |-> TRUE],
                      LAMBDA r, k : IF Up(r.m) /\ r.ok
                                    THEN GrowWith(kalloc(r.m), root, (first + k - 1) * PAGE_SIZE, ROUND(old))
                                    ELSE r),
                  new)

(* A table is freed once FreeBelow has freed the tables it points to. *)
FreeTable(m, table, FreeBelow(_, _)) ==
  LET FreeEntry(n, k) ==
        IF ~Up(n) \/ n.pt[table][k - 1] = NoPte THEN n
        ELSE IF n.pt[table][k - 1].kind # "table" THEN Stop(n, "freewalk: leaf still mapped")
        ELSE Erase(FreeBelow(n, n.pt[table][k - 1].pa), [table |-> table, index |-> k - 1])
      FreeSelf(n) == IF Up(n) THEN kfree(n, table) ELSE n
  IN  FreeSelf(For(Cardinality(Index), m, FreeEntry))

(* The recursion of freewalk, which ends at the third level. *)
freewalk(m, root) ==
  FreeTable(m, root, LAMBDA n, mid :
    FreeTable(n, mid, LAMBDA l, low : FreeTable(l, low, LAMBDA k, page : k)))

(* An empty table, or NULL; kalloc has cleared the page already. *)
uvmcreate(m) == kalloc(m)

(* Nothing is freed after a panic. *)
uvmfree(m, root, size) ==
  IF ~Up(m) THEN m
  ELSE freewalk(IF size > 0 THEN uvmunmap(m, root, 0, PagesIn(size), TRUE) ELSE m, root)

(* The body of the loop of kvm_copy_to_user_pagetable after mappages. *)
Copied(mapped, root, i) ==
  IF mapped.ret = 0 THEN mapped
  ELSE [m |-> uvmunmap(mapped.m, root, KBASE, i, FALSE), ret |-> -1]

(* One round: the page number i, for which the kernel has pte. *)
CopyPage(r, pte, root, i) ==
  IF ~Up(r.m) \/ r.ret # 0 \/ pte = NoPte THEN r
  ELSE Copied(mappages(r.m, root, i * PAGE_SIZE, PAGE_SIZE, pte.pa, pte.kind), root, i)

CopyEntry(r, kroot, root, i) == CopyPage(r, entry(r.m, kroot, i * PAGE_SIZE), root, i)

(* Mutant of kvm_copy_to_user_pagetable: it begins one page too late. *)
kvm_copyLate(m, kroot, root) ==
  For((MAXVA - KBASE) \div PAGE_SIZE - 1, [m |-> m, ret |-> 0],
      LAMBDA r, k : CopyEntry(r, kroot, root, KBASE \div PAGE_SIZE + k))

(* All pages from KBASE on that the kernel's table maps. *)
kvm_copy_to_user_pagetable(m, kroot, root) ==
  For((MAXVA - KBASE) \div PAGE_SIZE, [m |-> m, ret |-> 0],
      LAMBDA r, k : CopyEntry(r, kroot, root, KBASE \div PAGE_SIZE + k - 1))

MapOrPanic(mapped) == IF mapped.ret # 0 THEN Stop(mapped.m, "kvmmap") ELSE mapped.m

kvmmap(m, root, va, pa) == MapOrPanic(mappages(m, root, va, PAGE_SIZE, pa, "leaf"))

(* One round of env_create_envs, new being what kalloc returned. *)
MapEnv(new, root, va) ==
  IF new.pa = NULL THEN Stop(new.m, "env_create_envs: out of memory")
  ELSE kvmmap(new.m, root, va, new.pa)

env_create_envs(m, root) ==
  For(NENV, m, LAMBDA n, k : IF Up(n) THEN MapEnv(kalloc(n), root, ENVS(k - 1)) ELSE n)

(* The kernel's own pages, one call of kvmmap for each. *)
MapImage(m, root) ==
  For(ENVS(NENV - 1) \div PAGE_SIZE, m,
      LAMBDA n, k : IF (k - 1) * PAGE_SIZE \in KVAS THEN kvmmap(n, root, (k - 1) * PAGE_SIZE, KFRAME)
                    ELSE n)

(* The kernel's table: the pages of KVAS, then the pages for envs. *)
MapKernel(root) ==
  [m |-> env_create_envs(MapImage(root.m, root.pa), root.pa), root |-> root.pa]

kvmcreate(m) == MapKernel(kalloc(m))

Init ==
  \E n \in NFREE :
    LET boot == kvmcreate([pt |-> [page \in Page |-> Zero], free |-> 1 .. n,
                           panic |-> "no"])
    IN  /\ pt = boot.m.pt /\ free = boot.m.free /\ panic = boot.m.panic
        /\ kernel_pagetable = boot.root
        /\ env_pgtable = [e \in Env |-> NULL]
        /\ sz = [e \in Env |-> 0]
        /\ lost = n + 1 .. NPAGES   \* pages the machine does not have
-----------------------------------------------------------------------------
Becomes(m) == pt' = m.pt /\ free' = m.free /\ panic' = m.panic

Alive == panic = "no"

(* The tables of the tree under root. *)
Below(p, tables) ==
  {p[s[1]][s[2]].pa : s \in {x \in tables \X Index : p[x[1]][x[2]].kind = "table"}}

Tables(p, root) ==
  {root} \cup Below(p, {root}) \cup Below(p, Below(p, {root}))

(* The self-mapping takes the root entry that led to envs[]. *)
SelfMap(m, root) ==
  Write(m, [table |-> root, index |-> VPN_L(2, UVPT)], [pa |-> root, kind |-> "user"])

(* env_setup_vm with the copy of the kernel's table under root. *)
UseCopy(e, root, copy) ==
  IF Up(copy.m) /\ copy.ret = 0
  THEN /\ Becomes(SelfMap(copy.m, root))
       /\ env_pgtable' = [env_pgtable EXCEPT ![e] = root]
       /\ lost' = lost \cup (Tables(copy.m.pt, root) \ Tables(pt', root))
  ELSE /\ Becomes(Stop(copy.m, "env_setup_vm"))
       /\ UNCHANGED <<env_pgtable, lost>>

(* A page table for e: uvmcreate, the kernel's entries, the self-mapping.   *)
(* With no page it returns an error and changes nothing.                    *)
env_setup_vm(e) ==
  /\ Alive
  /\ env_pgtable[e] = NULL
  /\ free # {}
  /\ LET root == uvmcreate(Mem)
     IN  UseCopy(e, root.pa, kvm_copy_to_user_pagetable(root.m, kernel_pagetable, root.pa))
  /\ UNCHANGED <<kernel_pagetable, sz>>

(* load_icode_mapper after mappages: a page that cannot be mapped is lost. *)
UsePage(pa, mapped) ==
  /\ Becomes(mapped.m)
  /\ lost' = IF mapped.ret # 0 THEN lost \cup ({pa} \ {NULL}) ELSE lost

(* A page of e's image, with or without bytes to copy.  kalloc's result is  *)
(* not looked at: without a page the copy faults, and a page without bytes  *)
(* is mapped to physical address 0.                                         *)
load_icode_mapper(e, va, src) ==
  /\ Alive
  /\ env_pgtable[e] # NULL
  /\ IF src /\ free = {}
     THEN Becomes(Stop(Mem, "page fault")) /\ UNCHANGED lost
     ELSE LET new == kalloc(Mem)
          IN  UsePage(new.pa, mappages(new.m, env_pgtable[e], va, PAGE_SIZE, new.pa, "user"))
  /\ UNCHANGED <<kernel_pagetable, env_pgtable, sz>>

(* The caller of uvmalloc keeps the new size; 0 tells it that there is none. *)
UseGrown(e, grown) ==
  /\ Becomes(grown.m)
  /\ sz' = IF grown.ret # 0 /\ Up(grown.m) THEN [sz EXCEPT ![e] = grown.ret] ELSE sz

(* The heap grows. *)
Grow(e, new) ==
  /\ Alive
  /\ env_pgtable[e] # NULL
  /\ UseGrown(e, uvmalloc(Mem, env_pgtable[e], sz[e], new))
  /\ UNCHANGED <<kernel_pagetable, env_pgtable, lost>>

(* The heap shrinks. *)
Shrink(e, new) ==
  /\ Alive
  /\ env_pgtable[e] # NULL
  /\ new < sz[e]
  /\ Becomes(uvmdealloc(Mem, env_pgtable[e], sz[e], new))
  /\ sz' = IF panic' = "no" THEN [sz EXCEPT ![e] = new] ELSE sz
  /\ UNCHANGED <<kernel_pagetable, env_pgtable, lost>>

(* env_free: the kernel's entries are unmapped, the user's pages and the    *)
(* tables are freed (the image and the heap end below USTACKTOP).           *)
env_free(e) ==
  /\ Alive
  /\ env_pgtable[e] # NULL
  /\ Becomes(uvmfree(uvmunmap(Mem, env_pgtable[e], KBASE, MAXVA \div PAGE_SIZE, FALSE),
                     env_pgtable[e], KBASE - PAGE_SIZE))
  /\ IF panic' = "no"
     THEN env_pgtable' = [env_pgtable EXCEPT ![e] = NULL] /\ sz' = [sz EXCEPT ![e] = 0]
     ELSE UNCHANGED <<env_pgtable, sz>>
  /\ UNCHANGED <<kernel_pagetable, lost>>

Next ==
  \E e \in Env :
    \/ env_setup_vm(e)
    \/ \E va \in SEGVAS, src \in BOOLEAN : load_icode_mapper(e, va, src)
    \/ \E new \in SIZES : Grow(e, new) \/ Shrink(e, new)
    \/ env_free(e)

Spec == Init /\ [][Next]_vars
-----------------------------------------------------------------------------
(* Types: entries point to pages of the pool, the kernel image or nothing.  *)
VmTypeOK ==
  /\ pt \in [Page -> [Index -> [pa : 0 .. KFRAME,
                                kind : {"none", "table", "leaf", "user"}]]]
  /\ free \subseteq Page
  /\ kernel_pagetable \in Page
  /\ env_pgtable \in [Env -> Page \cup {NULL}]
  /\ sz \in [Env -> SIZES \cup {0}]
  /\ lost \subseteq Page

EnvRoots == {env_pgtable[e] : e \in Env} \ {NULL}

Roots == EnvRoots \cup {kernel_pagetable}

(* The entries that own the page they point to: those to a table and those  *)
(* to a user's page (the self-mapping of a root is neither).                *)
OwningSlots ==
  {s \in [table : UNION {Tables(pt, r) : r \in Roots}, index : Index] :
     /\ pt[s.table][s.index].kind \in {"table", "user"}
     /\ pt[s.table][s.index].pa # s.table}

EnvPages == {entry(Mem, kernel_pagetable, ENVS(i)).pa : i \in 0 .. NENV - 1}

(* Every page of memory has exactly one owner: it is free, a root, holds an *)
(* env, is reached through exactly one entry of one tree, or is known to be *)
(* lost.  So no operation maps or frees a page somebody else uses, and      *)
(* apart from the two known leaks (env.c:183, env.c:274) none is leaked,    *)
(* also when memory runs out in the middle of walk, uvmalloc or mappages    *)
(* (vm.c:69-72, 194-204).                                                   *)
PagesOwnedOnce ==
  Alive => \A page \in Page :
    Cardinality({s \in OwningSlots : pt[s.table][s.index].pa = page})
    + Cardinality({S \in {<<1, free>>, <<2, lost>>, <<3, Roots>>, <<4, EnvPages>>} :
                     page \in S[2]}) = 1

KernelVas == {va \in KBASE .. MAXVA - 1 : va % PAGE_SIZE = 0}

(* Every env's table maps the kernel as the kernel's own table does, through *)
(* all that happens in its user part, so that traps need no switch of satp   *)
(* (env.c:166-169); but for the entry of UVPT, which leads to the env's own  *)
(* table and to no other's, neither the kernel's nor another env's           *)
(* (env.c:183).                                                              *)
KernelShared ==
  Alive => \A root \in EnvRoots :
    /\ Mem.pt[root][VPN_L(2, UVPT)] = [pa |-> root, kind |-> "user"]
    /\ \A va \in KernelVas :
         VPN_L(2, va) # VPN_L(2, UVPT) =>
           entry(Mem, root, va) = entry(Mem, kernel_pagetable, va)

(* The three-level tables implement address spaces: load_icode_mapper adds   *)
(* one page, uvmalloc adds all pages or none, uvmdealloc removes exactly the *)
(* pages behind the new end, and no env's table is changed by another's.     *)
Space == INSTANCE AddressSpace WITH
  Vpn <- 0 .. (KBASE \div PAGE_SIZE) - 1,
  Pages <- PagesIn,
  maps <- [e \in Env |-> [v \in 0 .. (KBASE \div PAGE_SIZE) - 1 |->
            IF env_pgtable[e] = NULL THEN 0
            ELSE lookup(Mem, env_pgtable[e], v * PAGE_SIZE)]],
  size <- sz,
  alive <- Alive
SpaceSpec == Space!Spec
-----------------------------------------------------------------------------

(* "remove npages of mapping starting from va ... the mappings must exsit    *)
(* beforehand" (vm.c:159-161): taking away a heap that is mapped does not    *)
(* panic.                                                                    *)
ShrinkReturns ==
  [][\A e \in Env, new \in SIZES : Shrink(e, new) => Alive']_vars

(* "Load a page into the user address space" (env.c:240): one page of the    *)
(* image makes one page accessible to the user.                              *)
LoadsOnePage ==
  [][\A e \in Env, va \in SEGVAS, src \in BOOLEAN :
       load_icode_mapper(e, va, src) /\ Alive' =>
         Cardinality({v \in 0 .. (KBASE \div PAGE_SIZE) - 1 :
           lookup(Mem, env_pgtable[e], v * PAGE_SIZE) #
           lookup(Mem, env_pgtable[e], v * PAGE_SIZE)'}) <= 1]_vars
=============================================================================
