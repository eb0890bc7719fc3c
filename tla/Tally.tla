-------------------------------- MODULE Tally --------------------------------
(***************************************************************************)
(* The sum of a function over a finite set, written as the size of a set:  *)
(* the slices of several envs, or the pages of several page tables.  It is *)
(* SumFunctionOnSet of the community modules in a form that facts about    *)
(* cardinalities apply to.                                                 *)
(***************************************************************************)
EXTENDS Integers, FiniteSets

(* g[x] numbered parts for every x of S. *)
Parts(g, S) == UNION {{x} \X (1 .. g[x]) : x \in S}

Tally(g, S) == Cardinality(Parts(g, S))
=============================================================================
