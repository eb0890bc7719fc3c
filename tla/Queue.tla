-------------------------------- MODULE Queue --------------------------------
(***************************************************************************)
(* The lists and tail queues of include/queue.h, on pointers.              *)
(*                                                                         *)
(* An entry is a pair of a pointer to the next element and the address of  *)
(* the pointer that points to this element.  That pointer is the next      *)
(* field of another element or the first field of a head, so its address   *)
(* is named by the struct it is in, its owner; the last field of a tail    *)
(* queue is such an address too.  An element here is one link field: an    *)
(* env has two, env_link and env_sched_link.  Callers insert what is on no *)
(* list and remove what is on one; removed entries keep their pointers.    *)
(***************************************************************************)
EXTENDS Integers, SequencesExt

CONSTANTS
  Elm,     \* elements
  LISTS,   \* heads declared with LIST_HEAD
  TAILQS,  \* heads declared with TAILQ_HEAD
  NULL     \* the null pointer

Heads == LISTS \cup TAILQS
Owner == Elm \cup Heads

(* Elements and heads are different structs, and none is at address 0. *)
ASSUME StructAssumption ==
  /\ Elm \cap Heads = {}
  /\ LISTS \cap TAILQS = {}
  /\ NULL \notin Owner

VARIABLES
  nxt,  \* le_next, tqe_next of elements; lh_first, tqh_first of heads
  prv,  \* le_prev, tqe_prev of elements; tqh_last of tail queues
  seq   \* auxiliary: the elements of every list, in order

vars == <<nxt, prv, seq>>

(* Zeroed elements; LIST_INIT and TAILQ_INIT have been called. *)
Init ==
  /\ nxt = [o \in Owner |-> NULL]
  /\ prv = [x \in Elm \cup TAILQS |-> IF x \in TAILQS THEN x ELSE NULL]
  /\ seq = [h \in Heads |-> <<>>]

Unlisted(e) == \A h \in Heads : e \notin Range(seq[h])
-----------------------------------------------------------------------------
(* The list is reset; what was on it is on no list. *)
LIST_INIT(h) ==
  /\ nxt' = [nxt EXCEPT ![h] = NULL]
  /\ seq' = [seq EXCEPT ![h] = <<>>]
  /\ UNCHANGED prv

(* f with the entry of x, if there is an x, pointing back to o. *)
PointBack(f, x, o) == IF x # NULL THEN [f EXCEPT ![x] = o] ELSE f

LIST_INSERT_HEAD(h, e) ==
  /\ nxt' = [nxt EXCEPT ![e] = nxt[h], ![h] = e]
  /\ prv' = [PointBack(prv, nxt[h], e) EXCEPT ![e] = h]
  /\ seq' = [seq EXCEPT ![h] = <<e>> \o seq[h]]

(* After the k-th element. *)
LIST_INSERT_AFTER(h, k, e) ==
  LET listelm == seq[h][k]
  IN  /\ nxt' = [nxt EXCEPT ![e] = nxt[listelm], ![listelm] = e]
      /\ prv' = [PointBack(prv, nxt[listelm], e) EXCEPT ![e] = listelm]
      /\ seq' = [seq EXCEPT ![h] = InsertAt(seq[h], k + 1, e)]

(* Mutant of LIST_INSERT_BEFORE: the arrow back to elm is forgotten. *)
LIST_INSERT_BEFORENoBack(h, k, e) ==
  LET listelm == seq[h][k]
  IN  /\ nxt' = [nxt EXCEPT ![e] = listelm, ![prv[listelm]] = e]
      /\ prv' = [prv EXCEPT ![e] = prv[listelm]]
      /\ seq' = [seq EXCEPT ![h] = InsertAt(seq[h], k, e)]

(* Before the k-th element.  TAILQ_INSERT_BEFORE is the same assignments. *)
LIST_INSERT_BEFORE(h, k, e) ==
  LET listelm == seq[h][k]
  IN  /\ nxt' = [nxt EXCEPT ![e] = listelm, ![prv[listelm]] = e]
      /\ prv' = [prv EXCEPT ![e] = prv[listelm], ![listelm] = e]
      /\ seq' = [seq EXCEPT ![h] = InsertAt(seq[h], k, e)]

LIST_REMOVE(h, k) ==
  LET elm == seq[h][k]
  IN  /\ nxt' = [nxt EXCEPT ![prv[elm]] = nxt[elm]]
      /\ prv' = PointBack(prv, nxt[elm], prv[elm])
      /\ seq' = [seq EXCEPT ![h] = RemoveAt(seq[h], k)]
-----------------------------------------------------------------------------
TAILQ_INIT(h) ==
  /\ nxt' = [nxt EXCEPT ![h] = NULL]
  /\ prv' = [prv EXCEPT ![h] = h]
  /\ seq' = [seq EXCEPT ![h] = <<>>]

(* In a tail queue, the head's last field takes the place of the entry that *)
(* the last element does not have behind it.                                *)
Behind(h, x) == IF x # NULL THEN x ELSE h

TAILQ_INSERT_HEAD(h, e) ==
  /\ nxt' = [nxt EXCEPT ![e] = nxt[h], ![h] = e]
  /\ prv' = [prv EXCEPT ![Behind(h, nxt[h])] = e, ![e] = h]
  /\ seq' = [seq EXCEPT ![h] = <<e>> \o seq[h]]

TAILQ_INSERT_TAIL(h, e) ==
  /\ nxt' = [nxt EXCEPT ![e] = NULL, ![prv[h]] = e]
  /\ prv' = [prv EXCEPT ![e] = prv[h], ![h] = e]
  /\ seq' = [seq EXCEPT ![h] = Append(seq[h], e)]

TAILQ_INSERT_AFTER(h, k, e) ==
  LET listelm == seq[h][k]
  IN  /\ nxt' = [nxt EXCEPT ![e] = nxt[listelm], ![listelm] = e]
      /\ prv' = [prv EXCEPT ![Behind(h, nxt[listelm])] = e, ![e] = listelm]
      /\ seq' = [seq EXCEPT ![h] = InsertAt(seq[h], k + 1, e)]

TAILQ_INSERT_BEFORE(h, k, e) == LIST_INSERT_BEFORE(h, k, e)

(* Mutant of TAILQ_REMOVE: tqh_last is not moved when the last one goes. *)
TAILQ_REMOVEKeepsLast(h, k) ==
  LET elm == seq[h][k]
  IN  /\ nxt' = [nxt EXCEPT ![prv[elm]] = nxt[elm]]
      /\ prv' = PointBack(prv, nxt[elm], prv[elm])
      /\ seq' = [seq EXCEPT ![h] = RemoveAt(seq[h], k)]

TAILQ_REMOVE(h, k) ==
  LET elm == seq[h][k]
  IN  /\ nxt' = [nxt EXCEPT ![prv[elm]] = nxt[elm]]
      /\ prv' = [prv EXCEPT ![Behind(h, nxt[elm])] = prv[elm]]
      /\ seq' = [seq EXCEPT ![h] = RemoveAt(seq[h], k)]

(* The elements of g go behind those of h. *)
TAILQ_CONCAT(h, g) ==
  /\ nxt[g] # NULL
  /\ nxt' = [nxt EXCEPT ![prv[h]] = nxt[g], ![g] = NULL]
  /\ prv' = [prv EXCEPT ![nxt[g]] = prv[h], ![h] = prv[g], ![g] = g]
  /\ seq' = [seq EXCEPT ![h] = seq[h] \o seq[g], ![g] = <<>>]

(* Entry and head have the same layout, which the casts of the reading      *)
(* macros rely on: what is behind the address prv[x] is read as a head.     *)
TAILQ_PREV(x) == nxt[prv[prv[x]]]

TAILQ_LAST(h) == TAILQ_PREV(h)

LIST_FIRST(h) == nxt[h]
LIST_EMPTY(h) == LIST_FIRST(h) = NULL
TAILQ_NEXT(x) == nxt[x]

(* The body of a loop over h is executed for the elements of w, in order.  *)
LIST_FOREACH(h, w) ==
  /\ LIST_FIRST(h) = IF w = <<>> THEN NULL ELSE w[1]
  /\ \A i \in 1 .. Len(w) : nxt[w[i]] = IF i = Len(w) THEN NULL ELSE w[i + 1]

TAILQ_FOREACH(h, w) ==
  /\ nxt[h] = IF w = <<>> THEN NULL ELSE w[1]
  /\ \A i \in 1 .. Len(w) : TAILQ_NEXT(w[i]) = IF i = Len(w) THEN NULL ELSE w[i + 1]

(* The same from the end; w is still in the order of the list. *)
TAILQ_FOREACH_REVERSE(h, w) ==
  /\ TAILQ_LAST(h) = IF w = <<>> THEN NULL ELSE w[Len(w)]
  /\ \A i \in 1 .. Len(w) : TAILQ_PREV(w[i]) = IF i = 1 THEN NULL ELSE w[i - 1]

ListStep(h) ==
  \/ LIST_INIT(h)
  \/ \E e \in Elm : Unlisted(e) /\ LIST_INSERT_HEAD(h, e)
  \/ \E k \in 1 .. Len(seq[h]) :
       \/ LIST_REMOVE(h, k)
       \/ \E e \in Elm : /\ Unlisted(e)
                         /\ LIST_INSERT_AFTER(h, k, e) \/ LIST_INSERT_BEFORE(h, k, e)

TailqStep(h) ==
  \/ TAILQ_INIT(h)
  \/ \E e \in Elm : /\ Unlisted(e)
                    /\ TAILQ_INSERT_HEAD(h, e) \/ TAILQ_INSERT_TAIL(h, e)
  \/ \E k \in 1 .. Len(seq[h]) :
       \/ TAILQ_REMOVE(h, k)
       \/ \E e \in Elm : /\ Unlisted(e)
                         /\ TAILQ_INSERT_AFTER(h, k, e) \/ TAILQ_INSERT_BEFORE(h, k, e)
  \/ \E g \in TAILQS \ {h} : TAILQ_CONCAT(h, g)

Next ==
  \/ \E h \in LISTS : ListStep(h)
  \/ \E h \in TAILQS : TailqStep(h)

Spec == Init /\ [][Next]_vars
-----------------------------------------------------------------------------
(* Types: a next field holds an element or NULL, a prev field the address   *)
(* of a next field, so that *le_prev = ... never writes elsewhere.          *)
TypeOK ==
  /\ nxt \in [Owner -> Elm \cup {NULL}]
  /\ prv \in [Elm \cup TAILQS -> Owner \cup {NULL}]
  /\ seq \in [Heads -> Seq(Elm)]

(* The i-th owner of the list h with the elements s: the head, then the     *)
(* elements in order.                                                       *)
At(h, s, i) == IF i = 0 THEN h ELSE s[i]

Forward(h) ==
  \A i \in 0 .. Len(seq[h]) :
    nxt[At(h, seq[h], i)] = IF i = Len(seq[h]) THEN NULL ELSE At(h, seq[h], i + 1)

Backward(h) ==
  /\ \A i \in 1 .. Len(seq[h]) : prv[seq[h][i]] = At(h, seq[h], i - 1)
  /\ h \in TAILQS => prv[h] = At(h, seq[h], Len(seq[h]))

(* No element is on two lists, or twice on one. *)
Disjoint ==
  \A g, h \in Heads :
    \A i \in 1 .. Len(seq[g]), j \in 1 .. Len(seq[h]) :
      seq[g][i] = seq[h][j] => g = h /\ i = j

(* The pointers of every list and tail queue run through exactly its        *)
(* elements in order, forwards and back, and tqh_last points to the end,    *)
(* after any sequence of insertions, removals, resets and concatenations    *)
(* (queue.h:98-251): the sequences Sched and EnvTable use are what the      *)
(* macros keep.                                                             *)
ListsSound == Disjoint /\ \A h \in Heads : Forward(h) /\ Backward(h)

(* The loops visit every element of the list once and end, forwards and,    *)
(* through TAILQ_LAST and TAILQ_PREV, which read an entry through a cast to *)
(* a head, backwards (queue.h:94-95, 237-242, 261-262); LIST_EMPTY is true  *)
(* of the lists without an element only.                                    *)
LoopsVisitAll ==
  /\ \A h \in LISTS : LIST_FOREACH(h, seq[h]) /\ (LIST_EMPTY(h) <=> seq[h] = <<>>)
  /\ \A h \in TAILQS : TAILQ_FOREACH(h, seq[h]) /\ TAILQ_FOREACH_REVERSE(h, seq[h])
=============================================================================
