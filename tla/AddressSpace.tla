---------------------------- MODULE AddressSpace ----------------------------
(***************************************************************************)
(* What kern/vm.c promises its callers: the user part of an address space  *)
(* is a partial function from virtual to physical pages.  Pages are added  *)
(* to it one by one (load_icode_mapper) or as the heap grows (uvmalloc),   *)
(* always fresh ones, and the heap grows completely or not at all.         *)
(***************************************************************************)
EXTENDS Integers

CONSTANTS
  Env,        \* the envs
  Vpn,        \* virtual page numbers of the user part
  Pages(_)    \* the number of pages a size takes

VARIABLES
  maps,   \* the physical page behind every virtual page, 0 if there is none
  size,   \* the size of every env's heap
  alive   \* the kernel has not panicked

(* No pages yet; memory may have been too small for the kernel itself. *)
Init ==
  /\ maps = [e \in Env |-> [v \in Vpn |-> 0]]
  /\ size = [e \in Env |-> 0]
  /\ alive \in BOOLEAN

Mapped == {maps[e][v] : e \in Env, v \in Vpn}

(* The pages in S, and no other, get physical pages that were not in use. *)
Add(e, S) ==
  /\ \A v \in S : maps[e][v] = 0 /\ maps'[e][v] \notin Mapped \cup {0}
  /\ \A v, w \in S : maps'[e][v] = maps'[e][w] => v = w
  /\ \A v \in Vpn \ S : maps'[e][v] = maps[e][v]
  /\ \A f \in Env \ {e} : maps'[f] = maps[f]

(* One page of the image. *)
Load(e, v) ==
  /\ alive /\ alive' = alive
  /\ Add(e, {v})
  /\ size' = size

(* The heap grows: every page between the old and the new end is mapped. *)
Grow(e, new) ==
  /\ alive /\ alive' = alive
  /\ new >= size[e]
  /\ Add(e, Pages(size[e]) .. Pages(new) - 1)
  /\ size' = [size EXCEPT ![e] = new]

(* The heap shrinks: the pages behind the new end are not mapped any more. *)
Shrink(e, new) ==
  /\ alive /\ alive' = alive
  /\ new <= size[e]
  /\ maps' = [maps EXCEPT ![e] = [v \in Vpn |->
       IF v \in Pages(new) .. Pages(size[e]) - 1 THEN 0 ELSE @[v]]]
  /\ size' = [size EXCEPT ![e] = new]

(* A panic: nobody looks at the tables any more. *)
Panic == alive /\ alive' = FALSE

Next ==
  \/ \E e \in Env, v \in Vpn : Load(e, v)
  \/ \E e \in Env : Grow(e, size'[e]) \/ Shrink(e, size'[e])
  \/ Panic

Spec == Init /\ [][Next]_<<maps, size, alive>>
=============================================================================
