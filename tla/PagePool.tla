------------------------------ MODULE PagePool ------------------------------
(***************************************************************************)
(* What the physical page allocator promises, with no list in sight: a     *)
(* pool of pages, each of them either free or held by one caller.          *)
(*                                                                         *)
(* PhysPages (kern/phypage.c) is shown to implement this specification.    *)
(***************************************************************************)
EXTENDS Naturals

CONSTANTS
  Page,   \* the pages of physical memory that can be handed out
  NULL    \* the result of a failed allocation

VARIABLES
  free,   \* the pages in the pool
  held,   \* the pages some caller holds
  ret,    \* the result of the last allocation
  odd     \* 1 after an odd number of allocations: every one of them is a step

vars == <<free, held, ret, odd>>

Init ==
  /\ free = {}
  /\ held = {}
  /\ ret = NULL
  /\ odd = 0

(* Boot hands a page to the pool, once. *)
Donate(p) ==
  /\ p \notin free \cup held
  /\ free' = free \cup {p}
  /\ UNCHANGED <<held, ret, odd>>

(* Any free page may be handed out, to one caller at a time. *)
Alloc(p) ==
  /\ p \in free
  /\ free' = free \ {p}
  /\ held' = held \cup {p}
  /\ ret' = p
  /\ odd' = 1 - odd

(* An allocation fails only when the pool is empty. *)
AllocFail ==
  /\ free = {}
  /\ ret' = NULL
  /\ odd' = 1 - odd
  /\ UNCHANGED <<free, held>>

Free(p) ==
  /\ p \in held
  /\ free' = free \cup {p}
  /\ held' = held \ {p}
  /\ UNCHANGED <<ret, odd>>

Next ==
  \/ \E p \in Page : Donate(p) \/ Alloc(p) \/ Free(p)
  \/ AllocFail

Spec == Init /\ [][Next]_vars
=============================================================================
