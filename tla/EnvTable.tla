------------------------------- MODULE EnvTable -------------------------------
(***************************************************************************)
(* The env table of kern/env.c: the free list, env ids, ASIDs and the      *)
(* creation and death of envs.                                             *)
(*                                                                         *)
(* An env is its index in envs[].  env_init also links &envs[NENV], which  *)
(* lies behind the array: the phantom env NENV.  Memory is counted in      *)
(* pages; KTABLES is the number of tables the copy of the kernel's page    *)
(* table needs, and the image of user/bare/loop takes one page for its     *)
(* text and two tables to map it.                                          *)
(***************************************************************************)
EXTENDS Integers, SequencesExt, Tally

CONSTANTS
  NENV,             \* entries of envs[] (1024)
  NASID,            \* address space identifiers (256)
  UINT,             \* number of u_int values (2^32)
  NPAGES,           \* how many pages may be free when the first env is created
  KTABLES,          \* pages of a copy of the kernel page table, without root
  MAX_ALLOCS,       \* bound: calls of mkenvid in a behaviour
  NULL,             \* the null pointer
  E_BAD_ENV,        \* error of envid2env
  FAULT,            \* envid2env dereferences a null pointer
  uvmunmap_returns  \* the outcomes of env_free's uvmunmap: FALSE, it panics as
                    \* coded (vm.c:168); TRUE, it and uvmfree return

(* NASID <= NENV as in mmu.h and env.h; NENV is a power of two in the code *)
(* so that ENVX is a remainder; ids do not wrap within the bound.          *)
ASSUME TableAssumption ==
  /\ NENV \in Nat \ {0}
  /\ NASID \in Nat /\ NASID <= NENV
  /\ UINT \in Nat \ {0} /\ NPAGES \subseteq Nat /\ KTABLES \in Nat
  /\ MAX_ALLOCS \in Nat /\ (MAX_ALLOCS + 1) * 2 * NENV <= UINT
  /\ NULL \notin Int /\ E_BAD_ENV \notin Int /\ FAULT \notin Int
  /\ uvmunmap_returns \subseteq BOOLEAN

VARIABLES
  env_free_list,  \* free envs, first one first
  env_status,     \* "FREE" or "RUNNABLE"
  env_id,         \* id of every env (0 before the first allocation)
  env_asid,       \* ASID of every env
  asid_bitmap,    \* the ASIDs in use
  mkid,           \* the counter i of mkenvid
  curenv,         \* the env that runs, or NULL
  env_pgtable,    \* the pages an env's page table reaches, itself included
  freepages,      \* free physical pages (PhysPages models the list)
  panic,          \* who stopped the kernel, or "no"
  loaded,         \* auxiliary: envs whose image is mapped completely
  issued,         \* auxiliary: every id handed out, with the count of its mkenvid
  total           \* auxiliary: the value freepages had at first

vars == <<env_free_list, env_status, env_id, env_asid, asid_bitmap, mkid,
          curenv, env_pgtable, freepages, panic, loaded, issued,
          total>>

PHANTOM == NENV
Slot == 0 .. NENV   \* envs[] and the phantom behind it

(* The list env_init leaves behind: 0, 1, ..., NENV. *)
env_init == [i \in 1 .. NENV + 1 |-> i - 1]

Init ==
  /\ env_free_list = env_init
  /\ env_status = [e \in Slot |-> "FREE"]
  /\ env_id = [e \in Slot |-> 0]
  /\ env_asid = [e \in Slot |-> 0]
  /\ asid_bitmap = {}
  /\ mkid = 0
  /\ curenv = NULL
  /\ env_pgtable = [e \in Slot |-> 0]
  /\ freepages \in NPAGES
  /\ panic = "no"
  /\ loaded = {}
  /\ issued = {}
  /\ total = freepages

Alive == panic = "no"
-----------------------------------------------------------------------------
(* Mutant of mkenvid: the counter is left out of the id. *)
mkenvidIndexOnly(i, e) == 2 * NENV + e

(* The i-th id goes to e: the low bits hold the index. *)
mkenvid(i, e) == ((i * 2 * NENV) % UINT) + e

ENVX(envid) == envid % NENV

env_parent_id == 0  \* env_create makes every env an orphan

(* What envid2env stores in *penv, or its error.  With checkperm it faults  *)
(* when it has to ask for the id of a curenv that is NULL.                  *)
envid2env(envid, checkperm) ==
  IF envid = 0
  THEN curenv
  ELSE LET e == ENVX(envid)
       IN  IF env_status[e] = "FREE" \/ env_id[e] # envid THEN E_BAD_ENV
           ELSE IF ~checkperm \/ e = curenv THEN e
           ELSE IF curenv = NULL THEN FAULT
           ELSE IF env_parent_id = env_id[curenv] THEN e ELSE E_BAD_ENV

(* Mutant of FreeAsids: the loop over the bitmap runs one too far. *)
FreeAsidsOneTooMany == (0 .. NASID) \ asid_bitmap

(* The ASIDs whose bit is clear. *)
FreeAsids == (0 .. NASID - 1) \ asid_bitmap

(* Mutant of asid_alloc: the bit of the ASID is not set. *)
asid_allocForgets(i) ==
  /\ i \in FreeAsids
  /\ \A j \in FreeAsids : i <= j
  /\ UNCHANGED asid_bitmap

(* The first ASID whose bit is clear. *)
asid_alloc(i) ==
  /\ i \in FreeAsids
  /\ \A j \in FreeAsids : i <= j
  /\ asid_bitmap' = asid_bitmap \cup {i}

(* Mutant of asid_free: the bit stays set. *)
asid_freeForgets(i) == UNCHANGED asid_bitmap

asid_free(i) == asid_bitmap' = asid_bitmap \ {i}
-----------------------------------------------------------------------------
(* env_create does not look at the result of env_alloc: when env_alloc has *)
(* failed, e is uninitialised and what follows (writes through e, then a   *)
(* second mapping of an image or a store to an unmapped address) ends in a *)
(* panic.                                                                  *)

(* env_alloc fails before it changes anything. *)
env_create_no_page ==
  /\ Alive
  /\ env_free_list = <<>> \/ freepages = 0
  /\ panic' = "env_create"
  /\ UNCHANGED <<env_free_list, env_status, env_id, env_asid, asid_bitmap,
                 mkid, curenv, env_pgtable, freepages, loaded, issued,
                 total>>

(* kvm_copy_to_user_pagetable runs out of pages: it, or env_setup_vm, panics. *)
env_create_no_tables ==
  /\ Alive
  /\ env_free_list # <<>>
  /\ freepages \in 1 .. KTABLES
  /\ freepages' = 0
  /\ panic' = "env_setup_vm"
  /\ UNCHANGED <<env_free_list, env_status, env_id, env_asid, asid_bitmap,
                 mkid, curenv, env_pgtable, loaded, issued,
                 total>>

(* env_setup_vm and mkenvid succeed, whatever comes next. *)
setup(e) ==
  /\ Alive
  /\ mkid < MAX_ALLOCS
  /\ env_free_list # <<>> /\ e = Head(env_free_list)
  /\ freepages > KTABLES
  /\ mkid' = mkid + 1
  /\ env_id' = [env_id EXCEPT ![e] = mkenvid(mkid + 1, e)]

(* No ASID is left: env_alloc fails and the page table is leaked. *)
env_create_no_asid(e) ==
  /\ setup(e)
  /\ FreeAsids = {}
  /\ env_pgtable' = [env_pgtable EXCEPT ![e] = KTABLES + 1]
  /\ freepages' = freepages - (KTABLES + 1)
  /\ panic' = "env_create"
  /\ UNCHANGED <<env_free_list, env_status, env_asid, asid_bitmap, curenv,
                 loaded, issued,
                 total>>

(* Mutant of LIST_REMOVE_FIRST: the env stays on the list. *)
LIST_KEEP_FIRST(list) == list

(* LIST_REMOVE(e, env_link) for e = LIST_FIRST. *)
LIST_REMOVE_FIRST(list) == Tail(list)

(* Pages load_icode wants for loop.b: its text and two tables to map it. *)
IMAGE_PAGES == 3

(* env_alloc succeeds.  load_icode ignores the result of elf_load_seg, so   *)
(* the env becomes runnable even if its text could not be mapped; without a *)
(* page for the text, load_icode_mapper copies to address 0 and faults.     *)
env_create(e, asid) ==
  LET left == freepages - (KTABLES + 1)
      used == IF left < IMAGE_PAGES THEN left ELSE IMAGE_PAGES
      whole == used = IMAGE_PAGES
  IN  /\ setup(e)
      /\ asid_alloc(asid)
      /\ env_asid' = [env_asid EXCEPT ![e] = asid]
      /\ env_free_list' = LIST_REMOVE_FIRST(env_free_list)
      /\ env_status' = [env_status EXCEPT ![e] = "RUNNABLE"]
      /\ freepages' = left - used
      /\ env_pgtable' = [env_pgtable EXCEPT ![e] =
           KTABLES + 1 + (IF whole \/ used = 0 THEN used ELSE used - 1)]
      /\ panic' = IF used = 0 THEN "load_icode" ELSE "no"
      /\ loaded' = IF whole THEN loaded \cup {e} ELSE loaded
      /\ issued' = issued \cup {[id |-> mkenvid(mkid + 1, e), n |-> mkid + 1]}
      /\ UNCHANGED <<curenv, total>>

Live == {e \in Slot : env_status[e] = "RUNNABLE"}

(* schedule runs some runnable env (Sched says which). *)
schedule(e) ==
  /\ Alive
  /\ e \in Live
  /\ curenv' = e
  /\ UNCHANGED <<env_free_list, env_status, env_id, env_asid, asid_bitmap,
                 mkid, env_pgtable, freepages, panic, loaded, issued,
                 total>>

(* Mutant of env_free: the pages of a whole image are freed in any case. *)
env_freeWholeImage(e) ==
  /\ freepages' = freepages + KTABLES + 1 + IMAGE_PAGES
  /\ asid_free(env_asid[e])
  /\ env_status' = [env_status EXCEPT ![e] = "FREE"]
  /\ env_free_list' = <<e>> \o env_free_list

(* env_free when uvmunmap and uvmfree return: all pages, the ASID and the   *)
(* env go back.                                                             *)
env_free(e) ==
  /\ freepages' = freepages + env_pgtable[e]
  /\ asid_free(env_asid[e])
  /\ env_status' = [env_status EXCEPT ![e] = "FREE"]
  /\ env_free_list' = <<e>> \o env_free_list

(* env_destroy; if e was running, schedule(1) runs next, or panics. *)
env_destroy(e, next) ==
  /\ Alive
  /\ TRUE \in uvmunmap_returns
  /\ e \in Live
  /\ env_free(e)
  /\ IF curenv = e
     THEN IF Live = {e}
          THEN panic' = "schedule" /\ curenv' = NULL
          ELSE next \in Live \ {e} /\ curenv' = next /\ UNCHANGED panic
     ELSE UNCHANGED <<curenv, panic>>
  /\ loaded' = loaded \ {e}
  /\ UNCHANGED <<env_id, env_asid, mkid, env_pgtable, issued, total>>

(* env_destroy as coded: uvmunmap panics on its second page. *)
env_destroy_panics(e) ==
  /\ Alive
  /\ FALSE \in uvmunmap_returns
  /\ e \in Live
  /\ panic' = "uvmunmap"
  /\ UNCHANGED <<env_free_list, env_status, env_id, env_asid, asid_bitmap,
                 mkid, curenv, env_pgtable, freepages, loaded, issued,
                 total>>

Next ==
  \/ env_create_no_page
  \/ env_create_no_tables
  \/ \E e \in Slot : env_create_no_asid(e)
  \/ \E e \in Slot, asid \in FreeAsids : env_create(e, asid)
  \/ \E e \in Slot : schedule(e)
  \/ \E e, next \in Slot : env_destroy(e, next)
  \/ \E e \in Slot : env_destroy_panics(e)

Spec == Init /\ [][Next]_vars
-----------------------------------------------------------------------------
(* Types; no ASID of NASID or above is used (asid_alloc, env.c:51-62). *)
TypeOK ==
  /\ env_free_list \in Seq(Slot)
  /\ env_status \in [Slot -> {"FREE", "RUNNABLE"}]
  /\ env_id \in [Slot -> Nat]
  /\ env_asid \in [Slot -> Nat]
  /\ asid_bitmap \subseteq 0 .. NASID - 1
  /\ mkid \in 0 .. MAX_ALLOCS
  /\ curenv \in Slot \cup {NULL}
  /\ env_pgtable \in [Slot -> Nat]
  /\ freepages \in Nat
  /\ panic \in {"no", "env_create", "env_setup_vm", "load_icode", "schedule",
                "uvmunmap"}
  /\ loaded \subseteq Slot
  /\ issued \subseteq [id : Nat, n : Nat]
  /\ total \in Nat

(* An env is on env_free_list, once, or it is alive; none is lost and none  *)
(* is handed out while it lives (env_alloc, env_free).                      *)
FreeXorLive ==
  /\ IsInjective(env_free_list)
  /\ Range(env_free_list) = Slot \ Live

(* No two live envs share an ASID, and no ASID stays taken by a dead env,   *)
(* on the paths where env_alloc fails too (env.c:211-233, 349).             *)
AsidsMatchLive ==
  /\ \A e, f \in Live : env_asid[e] = env_asid[f] => e = f
  /\ asid_bitmap = {env_asid[e] : e \in Live}

(* &envs[NENV], which env_init links behind the end of envs[], is never     *)
(* handed out: the ASIDs run out first (env.c:161, 223).                    *)
PhantomNeverAllocated == PHANTOM \notin Live

(* No id is handed out twice, so an id somebody kept never names the next  *)
(* tenant of a slot: envid2env finds a live env under its own id and        *)
(* rejects the id of every env that has died (mkenvid, env.c:88-91;         *)
(* envid2env, env.c:115-123).  With checkperm "the requested env must be    *)
(* either 'curenv' or its immediate child" (env.c:96-97): a running env     *)
(* reaches nobody else, as no env has a parent.                             *)
IdsResolve ==
  /\ \A i, j \in issued : i.id = j.id => i = j
  /\ \A i \in issued :
       envid2env(i.id, FALSE) =
         IF \E e \in Live : env_id[e] = i.id
         THEN CHOOSE e \in Live : env_id[e] = i.id
         ELSE E_BAD_ENV
  /\ \A i \in issued :
       /\ curenv # NULL => envid2env(i.id, TRUE) \in {curenv, E_BAD_ENV}
       /\ envid2env(i.id, TRUE) \in {envid2env(i.id, FALSE), E_BAD_ENV, FAULT}

(* No page is freed that was not taken: what is free and what live envs     *)
(* reach never exceeds the memory there was (env_free, env_create).         *)
PagesNotInvented ==
  freepages + Tally(env_pgtable, Live) <= total

(* "Load program segments from 'binary' into user space of the env 'e'"     *)
(* (env.c:278): an env that may be scheduled has its whole image mapped.    *)
RunnableIsLoaded == Alive => Live \subseteq loaded
=============================================================================
