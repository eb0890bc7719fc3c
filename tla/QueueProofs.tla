----------------------------- MODULE QueueProofs -----------------------------
(***************************************************************************)
(* For any number of elements, lists and tail queues: the macros of        *)
(* include/queue.h keep the sequences their callers see.                   *)
(*                                                                         *)
(* Every insertion puts an element behind an owner (InsertSound), every    *)
(* removal takes one from behind an owner (RemoveSound); what remains for  *)
(* a macro is to find out which owner its pointers lead to.                *)
(***************************************************************************)
EXTENDS Queue, SequenceTheorems, TLAPS

Inv == TypeOK /\ ListsSound

(* The owners of a list after an insertion behind the k-th. *)
LEMMA AtInsert ==
  ASSUME NEW s \in Seq(Elm), NEW k \in 0 .. Len(s), NEW e \in Elm, NEW h
  PROVE  /\ InsertAt(s, k + 1, e) \in Seq(Elm)
         /\ Len(InsertAt(s, k + 1, e)) = Len(s) + 1
         /\ \A i \in 0 .. k : At(h, InsertAt(s, k + 1, e), i) = At(h, s, i)
         /\ At(h, InsertAt(s, k + 1, e), k + 1) = e
         /\ \A i \in k + 2 .. Len(s) + 1 :
              At(h, InsertAt(s, k + 1, e), i) = At(h, s, i - 1)
<1> DEFINE l == SubSeq(s, 1, k)
           r == SubSeq(s, k + 1, Len(s))
           m == l \o <<e>>
<1>1. InsertAt(s, k + 1, e) = m \o r
  <2>1. (k + 1) - 1 = k
    OBVIOUS
  <2> QED
    BY <2>1 DEF InsertAt
<1>2. l \in Seq(Elm) /\ Len(l) = k /\ \A i \in 1 .. k : l[i] = s[i]
  OBVIOUS
<1>3. /\ r \in Seq(Elm) /\ Len(r) = Len(s) - k
      /\ \A i \in 1 .. Len(s) - k : r[i] = s[k + i]
  OBVIOUS
<1> HIDE DEF l, r
<1>4. /\ m \in Seq(Elm) /\ Len(m) = k + 1 /\ m[k + 1] = e
      /\ \A i \in 1 .. k : m[i] = s[i]
  BY <1>2
<1> HIDE DEF m
<1>5. /\ m \o r \in Seq(Elm) /\ Len(m \o r) = Len(m) + Len(r)
      /\ \A i \in 1 .. Len(m) + Len(r) :
           (m \o r)[i] = IF i <= Len(m) THEN m[i] ELSE r[i - Len(m)]
  BY <1>3, <1>4, ConcatProperties
<1>6. ASSUME NEW i \in 0 .. k
      PROVE  At(h, m \o r, i) = At(h, s, i)
  <2>1. CASE i = 0
    BY <2>1 DEF At
  <2>2. CASE i # 0
    <3>1. i \in 1 .. k /\ i \in 1 .. Len(m) + Len(r) /\ i <= Len(m)
      BY <1>3, <1>4, <2>2
    <3>2. (m \o r)[i] = s[i]
      BY <1>4, <1>5, <3>1
    <3> QED
      BY <2>2, <3>2 DEF At
  <2> QED
    BY <2>1, <2>2
<1>7. At(h, m \o r, k + 1) = e
  <2>1. k + 1 \in 1 .. Len(m) + Len(r) /\ k + 1 <= Len(m) /\ k + 1 # 0
    BY <1>3, <1>4
  <2>2. (m \o r)[k + 1] = e
    BY <1>4, <1>5, <2>1
  <2> QED
    BY <2>1, <2>2 DEF At
<1>8. ASSUME NEW i \in k + 2 .. Len(s) + 1
      PROVE  At(h, m \o r, i) = At(h, s, i - 1)
  <2>1. /\ i \in 1 .. Len(m) + Len(r) /\ ~(i <= Len(m)) /\ i # 0 /\ i - 1 # 0
        /\ i - Len(m) \in 1 .. Len(s) - k /\ k + (i - Len(m)) = i - 1
    BY <1>3, <1>4
  <2>2. (m \o r)[i] = r[i - Len(m)]
    BY <1>5, <2>1
  <2>3. r[i - Len(m)] = s[k + (i - Len(m))]
    BY <1>3, <2>1
  <2>4. (m \o r)[i] = s[i - 1]
    BY <2>1, <2>2, <2>3
  <2> QED
    BY <2>1, <2>4 DEF At
<1>9. Len(m \o r) = Len(s) + 1
  BY <1>3, <1>4, <1>5
<1> QED
  BY <1>1, <1>5, <1>6, <1>7, <1>8, <1>9

(* The owners of a list after the removal of its k-th element. *)
LEMMA AtRemove ==
  ASSUME NEW s \in Seq(Elm), NEW k \in 1 .. Len(s), NEW h
  PROVE  /\ RemoveAt(s, k) \in Seq(Elm)
         /\ Len(RemoveAt(s, k)) = Len(s) - 1
         /\ \A i \in 0 .. k - 1 : At(h, RemoveAt(s, k), i) = At(h, s, i)
         /\ \A i \in k .. Len(s) - 1 : At(h, RemoveAt(s, k), i) = At(h, s, i + 1)
<1> DEFINE l == SubSeq(s, 1, k - 1)
           r == SubSeq(s, k + 1, Len(s))
<1>1. RemoveAt(s, k) = l \o r
  BY DEF RemoveAt
<1>2. l \in Seq(Elm) /\ Len(l) = k - 1 /\ \A i \in 1 .. k - 1 : l[i] = s[i]
  OBVIOUS
<1>3. /\ r \in Seq(Elm) /\ Len(r) = Len(s) - k
      /\ \A i \in 1 .. Len(s) - k : r[i] = s[k + i]
  OBVIOUS
<1> HIDE DEF l, r
<1>4. /\ l \o r \in Seq(Elm) /\ Len(l \o r) = Len(l) + Len(r)
      /\ \A i \in 1 .. Len(l) + Len(r) :
           (l \o r)[i] = IF i <= Len(l) THEN l[i] ELSE r[i - Len(l)]
  BY <1>2, <1>3, ConcatProperties
<1>5. ASSUME NEW i \in 0 .. k - 1
      PROVE  At(h, l \o r, i) = At(h, s, i)
  <2>1. CASE i = 0
    BY <2>1 DEF At
  <2>2. CASE i # 0
    <3>1. i \in 1 .. k - 1 /\ i \in 1 .. Len(l) + Len(r) /\ i <= Len(l)
      BY <1>2, <1>3, <2>2
    <3>2. (l \o r)[i] = s[i]
      BY <1>2, <1>4, <3>1
    <3> QED
      BY <2>2, <3>2 DEF At
  <2> QED
    BY <2>1, <2>2
<1>6. ASSUME NEW i \in k .. Len(s) - 1
      PROVE  At(h, l \o r, i) = At(h, s, i + 1)
  <2>1. /\ i \in 1 .. Len(l) + Len(r) /\ ~(i <= Len(l)) /\ i # 0 /\ i + 1 # 0
        /\ i - Len(l) \in 1 .. Len(s) - k /\ k + (i - Len(l)) = i + 1
    BY <1>2, <1>3
  <2>2. (l \o r)[i] = r[i - Len(l)]
    BY <1>4, <2>1
  <2>3. r[i - Len(l)] = s[k + (i - Len(l))]
    BY <1>3, <2>1
  <2>4. (l \o r)[i] = s[i + 1]
    BY <2>1, <2>2, <2>3
  <2> QED
    BY <2>1, <2>4 DEF At
<1>7. Len(l \o r) = Len(s) - 1
  BY <1>2, <1>3, <1>4
<1> QED
  BY <1>1, <1>4, <1>5, <1>6, <1>7

(* An owner has one place: heads and elements never coincide. *)
LEMMA OwnersDiffer ==
  ASSUME Inv
  PROVE  /\ \A h \in Heads : Len(seq[h]) \in Nat
         /\ \A h \in Heads : \A i \in 0 .. Len(seq[h]) : At(h, seq[h], i) \in Owner
         /\ \A h \in Heads : \A i \in 1 .. Len(seq[h]) :
              At(h, seq[h], i) = seq[h][i] /\ At(h, seq[h], i) \in Elm
         /\ \A h \in Heads : At(h, seq[h], 0) = h
         /\ \A g, h \in Heads :
              \A i \in 0 .. Len(seq[g]), j \in 0 .. Len(seq[h]) :
                At(g, seq[g], i) = At(h, seq[h], j) => g = h /\ i = j
<1>1. \A h \in Heads : seq[h] \in Seq(Elm) /\ Len(seq[h]) \in Nat
  BY DEF Inv, TypeOK
<1>2. \A h \in Heads : \A i \in 1 .. Len(seq[h]) :
        At(h, seq[h], i) = seq[h][i] /\ At(h, seq[h], i) \in Elm
  BY <1>1 DEF At
<1>3. \A h \in Heads : At(h, seq[h], 0) = h
  BY DEF At
<1>4. \A h \in Heads : \A i \in 0 .. Len(seq[h]) : At(h, seq[h], i) \in Owner
  BY <1>1, <1>2, <1>3 DEF Owner
<1>5. ASSUME NEW g \in Heads, NEW h \in Heads, NEW i \in 0 .. Len(seq[g]),
             NEW j \in 0 .. Len(seq[h]), At(g, seq[g], i) = At(h, seq[h], j)
      PROVE  g = h /\ i = j
  <2>1. CASE i = 0 /\ j = 0
    BY <1>3, <1>5, <2>1
  <2>2. CASE i # 0 /\ j # 0
    <3>1. i \in 1 .. Len(seq[g]) /\ j \in 1 .. Len(seq[h])
      BY <1>1, <2>2
    <3> QED
      BY <1>2, <1>5, <3>1 DEF Inv, ListsSound, Disjoint
  <2>3. CASE i = 0 /\ j # 0
    <3>1. At(g, seq[g], i) \in Heads /\ At(h, seq[h], j) \in Elm
      BY <1>1, <1>2, <1>3, <2>3
    <3> QED
      BY <1>5, <3>1, StructAssumption
  <2>4. CASE i # 0 /\ j = 0
    <3>1. At(h, seq[h], j) \in Heads /\ At(g, seq[g], i) \in Elm
      BY <1>1, <1>2, <1>3, <2>4
    <3> QED
      BY <1>5, <3>1, StructAssumption
  <2> QED
    BY <2>1, <2>2, <2>3, <2>4
<1> QED
  BY <1>1, <1>2, <1>3, <1>4, <1>5

(* The invariant, place by place. *)
LEMMA Places ==
  ASSUME Inv, NEW h \in Heads
  PROVE  /\ \A i \in 0 .. Len(seq[h]) :
              nxt[At(h, seq[h], i)] = IF i = Len(seq[h]) THEN NULL ELSE At(h, seq[h], i + 1)
         /\ \A i \in 1 .. Len(seq[h]) : prv[At(h, seq[h], i)] = At(h, seq[h], i - 1)
         /\ h \in TAILQS => prv[h] = At(h, seq[h], Len(seq[h]))
<1>1. Forward(h) /\ Backward(h)
  BY DEF Inv, ListsSound
<1> QED
  BY <1>1, OwnersDiffer DEF Forward, Backward

(* What has to be shown of a list of the next state. *)
LEMMA ForwardOf ==
  ASSUME NEW h \in Heads, NEW m \in Nat, Len(seq'[h]) = m,
         \A i \in 0 .. m :
           nxt'[At(h, seq'[h], i)] = IF i = m THEN NULL ELSE At(h, seq'[h], i + 1)
  PROVE  Forward(h)'
BY DEF Forward

(* A list none of whose pointers is written stays as it is. *)
LEMMA Untouched ==
  ASSUME Inv, NEW g \in Heads, seq'[g] = seq[g],
         \A i \in 0 .. Len(seq[g]) :
           nxt'[At(g, seq[g], i)] = nxt[At(g, seq[g], i)],
         \A i \in 1 .. Len(seq[g]) :
           prv'[At(g, seq[g], i)] = prv[At(g, seq[g], i)],
         g \in TAILQS => prv'[g] = prv[g]
  PROVE  Forward(g)' /\ Backward(g)'
<1>1. Forward(g)'
  BY Places DEF Forward
<1>2. ASSUME NEW i \in 1 .. Len(seq[g])
      PROVE  prv'[seq[g][i]] = At(g, seq[g], i - 1)
  <2>1. At(g, seq[g], i) = seq[g][i]
    BY OwnersDiffer
  <2> QED
    BY <2>1, Places
<1> QED
  BY <1>1, <1>2, Places DEF Backward

(* An element that was on no list goes behind the k-th owner. *)
LEMMA InsertSound ==
  ASSUME Inv, NEW h \in Heads, NEW k \in 0 .. Len(seq[h]), NEW e \in Elm,
         Unlisted(e),
         nxt' = [nxt EXCEPT ![e] = nxt[At(h, seq[h], k)], ![At(h, seq[h], k)] = e],
         prv' \in [Elm \cup TAILQS -> Owner \cup {NULL}],
         prv'[e] = At(h, seq[h], k),
         \A x \in (Elm \cup TAILQS) \ {e} :
           prv'[x] = IF x = Behind(h, nxt[At(h, seq[h], k)]) THEN e ELSE prv[x],
         seq' = [seq EXCEPT ![h] = InsertAt(seq[h], k + 1, e)]
  PROVE  Inv'
<1> DEFINE o == At(h, seq[h], k)
           b == Behind(h, nxt[At(h, seq[h], k)])
<1>0. PICK n \in Nat : n = Len(seq[h])
  BY OwnersDiffer
<1>1. n \in Nat /\ k \in Nat /\ k <= n /\ seq[h] \in Seq(Elm)
  BY <1>0 DEF Inv, TypeOK
<1>2. /\ seq' \in [Heads -> Seq(Elm)]
      /\ seq'[h] = InsertAt(seq[h], k + 1, e)
      /\ Len(seq'[h]) = n + 1
      /\ \A g \in Heads \ {h} : seq'[g] = seq[g]
  <2>1. seq'[h] = InsertAt(seq[h], k + 1, e) /\ \A g \in Heads \ {h} : seq'[g] = seq[g]
    BY DEF Inv, TypeOK
  <2>2. InsertAt(seq[h], k + 1, e) \in Seq(Elm)
    BY <1>1, AtInsert
  <2>3. Len(InsertAt(seq[h], k + 1, e)) = Len(seq[h]) + 1
    <3>1. ASSUME NEW s \in Seq(Elm), NEW m \in 0 .. Len(s)
          PROVE  Len(InsertAt(s, m + 1, e)) = Len(s) + 1
      BY AtInsert
    <3> QED
      BY <1>1, <3>1
  <2>4. seq' \in [Heads -> Seq(Elm)]
    BY <2>2 DEF Inv, TypeOK
  <2> QED
    BY <1>0, <2>1, <2>3, <2>4
<1>3. \A i \in 0 .. n + 1 :
        At(h, seq'[h], i) = IF i <= k THEN At(h, seq[h], i)
                            ELSE IF i = k + 1 THEN e ELSE At(h, seq[h], i - 1)
  <2> DEFINE t == InsertAt(seq[h], k + 1, e)
  <2>1. /\ \A i \in 0 .. k : At(h, t, i) = At(h, seq[h], i)
        /\ At(h, t, k + 1) = e
        /\ \A i \in k + 2 .. Len(seq[h]) + 1 : At(h, t, i) = At(h, seq[h], i - 1)
    <3>1. ASSUME NEW s \in Seq(Elm), NEW m \in 0 .. Len(s)
          PROVE  /\ \A i \in 0 .. m : At(h, InsertAt(s, m + 1, e), i) = At(h, s, i)
                 /\ At(h, InsertAt(s, m + 1, e), m + 1) = e
                 /\ \A i \in m + 2 .. Len(s) + 1 :
                      At(h, InsertAt(s, m + 1, e), i) = At(h, s, i - 1)
      BY AtInsert
    <3> QED
      BY <1>1, <3>1
  <2> HIDE DEF t
  <2>2. seq'[h] = t
    BY <1>2 DEF t
  <2>3. ASSUME NEW i \in 0 .. n + 1
        PROVE  At(h, t, i) = IF i <= k THEN At(h, seq[h], i)
                             ELSE IF i = k + 1 THEN e ELSE At(h, seq[h], i - 1)
    <3>1. \/ i <= k /\ i \in 0 .. k
          \/ ~(i <= k) /\ i = k + 1
          \/ ~(i <= k) /\ i # k + 1 /\ i \in k + 2 .. Len(seq[h]) + 1
      BY <1>0, <1>1
    <3> QED
      BY <2>1, <3>1
  <2> QED
    BY <2>2, <2>3
<1>4. \A g \in Heads \ {h} : \A i \in 0 .. Len(seq[g]) : At(g, seq'[g], i) = At(g, seq[g], i)
  BY <1>2 DEF At
<1>5. \A g \in Heads : \A i \in 0 .. Len(seq[g]) : At(g, seq[g], i) # e
  <2> SUFFICES ASSUME NEW g \in Heads, NEW i \in 0 .. Len(seq[g])
               PROVE  At(g, seq[g], i) # e
    OBVIOUS
  <2>1. CASE i = 0
    BY <2>1, OwnersDiffer, StructAssumption
  <2>2. CASE i # 0
    <3>1. i \in 1 .. Len(seq[g]) /\ DOMAIN seq[g] = 1 .. Len(seq[g])
      BY <2>2 DEF Inv, TypeOK
    <3>2. e \notin Range(seq[g])
      BY DEF Unlisted
    <3> QED
      BY <3>1, <3>2, OwnersDiffer DEF Range
  <2> QED
    BY <2>1, <2>2
<1>6. /\ nxt'[e] = nxt[o] /\ nxt'[o] = e
      /\ \A x \in Owner : x # e /\ x # o => nxt'[x] = nxt[x]
      /\ nxt' \in [Owner -> Elm \cup {NULL}]
  <2>1. e \in Owner /\ o \in Owner /\ o # e
    BY <1>5, OwnersDiffer DEF Owner
  <2> QED
    BY <2>1 DEF Inv, TypeOK
<1>7. nxt[o] = (IF k = n THEN NULL ELSE At(h, seq[h], k + 1)) /\ b = IF k = n THEN h ELSE At(h, seq[h], k + 1)
  <2>1. nxt[o] = IF k = n THEN NULL ELSE At(h, seq[h], k + 1)
    BY <1>0, Places
  <2>2. k # n => At(h, seq[h], k + 1) # NULL
    <3> SUFFICES ASSUME k # n
                 PROVE  At(h, seq[h], k + 1) # NULL
      OBVIOUS
    <3>1. k + 1 \in 0 .. Len(seq[h])
      BY <1>0, <1>1
    <3> QED
      BY <3>1, OwnersDiffer, StructAssumption
  <2> QED
    BY <2>1, <2>2 DEF Behind
<1> DEFINE From(i) == IF i <= k THEN i ELSE i - 1
<1>a. /\ \A i, j \in 0 .. n : At(h, seq[h], i) = At(h, seq[h], j) => i = j
      /\ \A i \in 1 .. n : At(h, seq[h], i) \in Elm
      /\ At(h, seq[h], 0) = h
      /\ o = At(h, seq[h], k)
  BY <1>0, OwnersDiffer
<1>b. \A g \in Heads \ {h} : \A i \in 0 .. Len(seq[g]), j \in 0 .. n : At(g, seq[g], i) # At(h, seq[h], j)
  BY <1>0, OwnersDiffer
<1>c. /\ \A i \in 0 .. n : nxt[At(h, seq[h], i)] = IF i = n THEN NULL ELSE At(h, seq[h], i + 1)
      /\ \A i \in 1 .. n : prv[At(h, seq[h], i)] = At(h, seq[h], i - 1)
      /\ h \in TAILQS => prv[h] = At(h, seq[h], n)
  BY <1>0, Places
<1>d. \A i \in 0 .. n : At(h, seq[h], i) # e
  BY <1>0, <1>5
<1>e. ASSUME NEW i \in 0 .. n + 1, i # k + 1
      PROVE  At(h, seq'[h], i) = At(h, seq[h], From(i)) /\ From(i) \in 0 .. n
  BY <1>1, <1>3, <1>e
<1>f. \A x \in (Elm \cup TAILQS) \ {e} : prv'[x] = IF x = b THEN e ELSE prv[x]
  OBVIOUS
<1> HIDE DEF o, b
<1>8. TypeOK'
  BY <1>2, <1>6 DEF TypeOK
<1>9. Disjoint'
  <2> SUFFICES ASSUME NEW g \in Heads, NEW g2 \in Heads,
                      NEW i \in 1 .. Len(seq'[g]), NEW j \in 1 .. Len(seq'[g2]),
                      seq'[g][i] = seq'[g2][j]
               PROVE  g = g2 /\ i = j
    BY DEF Disjoint
  <2>1. At(g, seq'[g], i) = seq'[g][i] /\ At(g2, seq'[g2], j) = seq'[g2][j]
    BY DEF At
  <2>2. CASE g # h /\ g2 # h
    BY <1>2, <1>4, <2>1, <2>2, OwnersDiffer
  <2>3. CASE g = h /\ g2 = h
    <3>1. i \in 0 .. n + 1 /\ j \in 0 .. n + 1
      BY <1>1, <1>2, <2>3
    <3>2. CASE i = k + 1 \/ j = k + 1
      BY <1>1, <1>3, <1>d, <1>e, <2>1, <2>3, <3>1, <3>2
    <3>3. CASE i # k + 1 /\ j # k + 1
      <4>1. From(i) = From(j)
        BY <1>a, <1>e, <2>1, <2>3, <3>1, <3>3
      <4> QED
        BY <1>1, <2>3, <3>1, <3>3, <4>1
    <3> QED
      BY <3>2, <3>3
  <2>4. ASSUME NEW x \in 1 .. n + 1, NEW f \in Heads \ {h}, NEW y \in 1 .. Len(seq[f])
        PROVE  At(h, seq'[h], x) # At(f, seq'[f], y)
    <3>1. x \in 0 .. n + 1 /\ y \in 0 .. Len(seq[f]) /\ At(f, seq'[f], y) = At(f, seq[f], y)
      BY <1>1, <1>4, OwnersDiffer
    <3>2. CASE x = k + 1
      <4>1. At(h, seq'[h], x) = e
        BY <1>1, <1>3, <3>1, <3>2
      <4> QED
        BY <1>5, <3>1, <4>1
    <3>3. CASE x # k + 1
      BY <1>b, <1>e, <3>1, <3>3, SMTT(30)
    <3> QED
      BY <3>2, <3>3
  <2>5. CASE g = h /\ g2 # h
    BY <1>2, <2>1, <2>4, <2>5
  <2>6. CASE g # h /\ g2 = h
    BY <1>2, <2>1, <2>4, <2>6
  <2> QED
    BY <2>2, <2>3, <2>5, <2>6
<1>10. Forward(h)'
  <2> SUFFICES ASSUME NEW i \in 0 .. n + 1
               PROVE  nxt'[At(h, seq'[h], i)] = IF i = n + 1 THEN NULL ELSE At(h, seq'[h], i + 1)
    <3>1. Len(seq'[h]) = n + 1 /\ n + 1 \in Nat
      BY <1>2
    <3> QED
      BY <3>1, ForwardOf
  <2>1. CASE i < k
    <3>1. i \in 0 .. n /\ i + 1 \in 0 .. n /\ i # n /\ i # k /\ k \in 0 .. n
      BY <1>1, <2>1
    <3>2. At(h, seq[h], i) \in Owner
      BY <3>1, <1>0, OwnersDiffer
    <3>3. nxt'[At(h, seq[h], i)] = nxt[At(h, seq[h], i)]
      BY <1>6, <1>a, <1>d, <3>1, <3>2
    <3> QED
      BY <1>1, <1>3, <1>c, <2>1, <3>1, <3>3
  <2>2. CASE i = k
    BY <1>1, <1>3, <1>6, <2>2 DEF o
  <2>3. CASE i = k + 1
    BY <1>1, <1>3, <1>6, <1>7, <2>3
  <2>4. CASE i > k + 1
    <3>1. i - 1 \in 0 .. n /\ i - 1 # k /\ k \in 0 .. n /\ At(h, seq'[h], i) = At(h, seq[h], i - 1)
      BY <1>1, <1>3, <2>4
    <3>2. At(h, seq[h], i - 1) \in Owner
      BY <3>1, <1>0, OwnersDiffer
    <3>3. nxt'[At(h, seq[h], i - 1)] = nxt[At(h, seq[h], i - 1)]
      BY <1>6, <1>a, <1>d, <3>1, <3>2
    <3>4. nxt[At(h, seq[h], i - 1)] = IF i - 1 = n THEN NULL ELSE At(h, seq[h], (i - 1) + 1)
      BY <1>c, <3>1
    <3>5. ASSUME i # n + 1
          PROVE  At(h, seq'[h], i + 1) = At(h, seq[h], i)
      <4>1. i + 1 \in 0 .. n + 1 /\ ~(i + 1 <= k) /\ i + 1 # k + 1 /\ (i + 1) - 1 = i
        BY <1>1, <2>4, <3>5, SMTT(30)
      <4> QED
        BY <1>3, <4>1
    <3>6. (i - 1) + 1 = i /\ (i - 1 = n <=> i = n + 1)
      BY <1>1, <2>4
    <3> QED
      BY <3>1, <3>3, <3>4, <3>5, <3>6
  <2> QED
    BY <1>1, <2>1, <2>2, <2>3, <2>4
<1>11. ASSUME NEW g \in Heads \ {h}
       PROVE  Forward(g)' /\ Backward(g)'
  <2>1. \A i \in 0 .. Len(seq[g]) : At(g, seq[g], i) # e /\ At(g, seq[g], i) # o /\ At(g, seq[g], i) # b
    <3>1. k \in 0 .. n /\ 0 \in 0 .. n /\ (k # n => k + 1 \in 0 .. n)
      BY <1>1
    <3>2. b = At(h, seq[h], 0) \/ (k # n /\ b = At(h, seq[h], k + 1))
      BY <1>7, <1>a
    <3> QED
      BY <1>5, <1>a, <1>b, <3>1, <3>2
  <2>2. \A i \in 0 .. Len(seq[g]) :
          nxt'[At(g, seq[g], i)] = nxt[At(g, seq[g], i)]
    BY <1>6, <2>1, OwnersDiffer
  <2>3. \A i \in 1 .. Len(seq[g]) :
          prv'[At(g, seq[g], i)] = prv[At(g, seq[g], i)]
    BY <1>f, <2>1, OwnersDiffer
  <2>4. g \in TAILQS => prv'[g] = prv[g]
    BY <1>f, <2>1, OwnersDiffer
  <2> QED
    BY <1>2, <2>2, <2>3, <2>4, Untouched
<1>12. Backward(h)'
  <2>1. ASSUME NEW i \in 1 .. n + 1
        PROVE  prv'[seq'[h][i]] = At(h, seq'[h], i - 1)
    <3>1. seq'[h][i] = At(h, seq'[h], i)
      BY DEF At
    <3>2. CASE i <= k
      <4>1. /\ i \in 1 .. n /\ i \in 0 .. n
            /\ At(h, seq'[h], i) = At(h, seq[h], i) /\ At(h, seq'[h], i - 1) = At(h, seq[h], i - 1)
        BY <1>1, <1>3, <3>2
      <4>2. At(h, seq[h], i) # e /\ At(h, seq[h], i) # b /\ At(h, seq[h], i) \in Elm
        <5>1. k # n => k + 1 \in 0 .. n
          BY <1>1
        <5>2. 0 \in 0 .. n /\ i # 0 /\ i # k + 1
          BY <1>1, <3>2
        <5> QED
          BY <1>7, <1>a, <1>d, <4>1, <5>1, <5>2
      <4>3. prv'[At(h, seq[h], i)] = prv[At(h, seq[h], i)]
        BY <1>f, <4>2
      <4> QED
        BY <1>c, <3>1, <4>1, <4>3
    <3>3. CASE i = k + 1
      BY <1>1, <1>3, <3>1, <3>3
    <3>4. CASE i = k + 2
      <4>1. k # n /\ b = At(h, seq[h], k + 1) /\ b # e /\ b \in Elm
        BY <1>1, <1>7, <1>a, <1>d, <3>4, SMTT(60)
      <4>2. prv'[b] = e
        BY <1>f, <4>1
      <4> QED
        BY <1>1, <1>3, <3>1, <3>4, <4>1, <4>2
    <3>5. CASE i > k + 2
      <4>1. /\ i - 1 \in 1 .. n /\ i - 1 \in 0 .. n /\ i - 1 # k + 1 /\ i - 1 # 0
            /\ At(h, seq'[h], i) = At(h, seq[h], i - 1) /\ At(h, seq'[h], i - 1) = At(h, seq[h], (i - 1) - 1)
        BY <1>1, <1>3, <3>5
      <4>2. At(h, seq[h], i - 1) # e /\ At(h, seq[h], i - 1) # b /\ At(h, seq[h], i - 1) \in Elm
        <5>1. 0 \in 0 .. n /\ (k # n => k + 1 \in 0 .. n)
          BY <1>1
        <5> QED
          BY <1>7, <1>a, <1>d, <4>1, <5>1
      <4>3. prv'[At(h, seq[h], i - 1)] = prv[At(h, seq[h], i - 1)]
        BY <1>f, <4>2
      <4> QED
        BY <1>c, <3>1, <4>1, <4>3
    <3> QED
      BY <1>1, <3>2, <3>3, <3>4, <3>5
  <2>2. h \in TAILQS => prv'[h] = At(h, seq'[h], n + 1)
    <3> SUFFICES ASSUME h \in TAILQS
                 PROVE  prv'[h] = At(h, seq'[h], n + 1)
      OBVIOUS
    <3>1. h # e /\ h \in Elm \cup TAILQS
      BY <1>1, <1>a, <1>d
    <3>2. CASE k = n
      <4>1. prv'[h] = e
        BY <1>7, <1>f, <3>1, <3>2
      <4>2. At(h, seq'[h], n + 1) = e
        BY <1>1, <1>3, <3>2
      <4> QED
        BY <4>1, <4>2
    <3>3. CASE k # n
      <4>1. b # h
        <5>1. k + 1 \in 0 .. n /\ 0 \in 0 .. n /\ k + 1 # 0
          BY <1>1, <3>3
        <5> QED
          BY <1>7, <1>a, <3>3, <5>1
      <4>2. prv'[h] = prv[h]
        BY <1>f, <3>1, <4>1
      <4>3. At(h, seq'[h], n + 1) = At(h, seq[h], n)
        BY <1>1, <1>3, <3>3
      <4> QED
        BY <1>c, <4>2, <4>3
    <3> QED
      BY <3>2, <3>3
  <2> QED
    BY <1>2, <2>1, <2>2 DEF Backward, At
<1> QED
  BY <1>8, <1>9, <1>10, <1>11, <1>12 DEF Inv, ListsSound

(* The k-th element is taken from behind its owner. *)
LEMMA RemoveSound ==
  ASSUME Inv, NEW h \in Heads, NEW k \in 1 .. Len(seq[h]),
         nxt' = [nxt EXCEPT ![At(h, seq[h], k - 1)] = nxt[seq[h][k]]],
         prv' \in [Elm \cup TAILQS -> Owner \cup {NULL}],
         \A x \in Elm \cup TAILQS :
           prv'[x] = IF x = Behind(h, nxt[seq[h][k]])
                     THEN At(h, seq[h], k - 1) ELSE prv[x],
         seq' = [seq EXCEPT ![h] = RemoveAt(seq[h], k)]
  PROVE  Inv'
<1> DEFINE o == At(h, seq[h], k - 1)
           b == Behind(h, nxt[seq[h][k]])
<1>0. PICK n \in Nat : n = Len(seq[h])
  BY OwnersDiffer
<1>1. n \in Nat /\ k \in Nat /\ 1 <= k /\ k <= n /\ seq[h] \in Seq(Elm)
  BY <1>0 DEF Inv, TypeOK
<1>2. /\ seq' \in [Heads -> Seq(Elm)]
      /\ seq'[h] = RemoveAt(seq[h], k)
      /\ Len(seq'[h]) = n - 1
      /\ \A g \in Heads \ {h} : seq'[g] = seq[g]
  <2>1. seq'[h] = RemoveAt(seq[h], k) /\ \A g \in Heads \ {h} : seq'[g] = seq[g]
    BY DEF Inv, TypeOK
  <2>2. RemoveAt(seq[h], k) \in Seq(Elm) /\ Len(RemoveAt(seq[h], k)) = Len(seq[h]) - 1
    <3>1. ASSUME NEW s \in Seq(Elm), NEW m \in 1 .. Len(s)
          PROVE  RemoveAt(s, m) \in Seq(Elm) /\ Len(RemoveAt(s, m)) = Len(s) - 1
      BY AtRemove
    <3> QED
      BY <1>1, <3>1
  <2>3. seq' \in [Heads -> Seq(Elm)]
    BY <2>2 DEF Inv, TypeOK
  <2> QED
    BY <1>0, <2>1, <2>2, <2>3
<1>3. \A i \in 0 .. n - 1 :
        At(h, seq'[h], i) = IF i < k THEN At(h, seq[h], i) ELSE At(h, seq[h], i + 1)
  <2> DEFINE t == RemoveAt(seq[h], k)
  <2>1. /\ \A i \in 0 .. k - 1 : At(h, t, i) = At(h, seq[h], i)
        /\ \A i \in k .. Len(seq[h]) - 1 : At(h, t, i) = At(h, seq[h], i + 1)
    <3>1. ASSUME NEW s \in Seq(Elm), NEW m \in 1 .. Len(s)
          PROVE  /\ \A i \in 0 .. m - 1 : At(h, RemoveAt(s, m), i) = At(h, s, i)
                 /\ \A i \in m .. Len(s) - 1 :
                      At(h, RemoveAt(s, m), i) = At(h, s, i + 1)
      BY AtRemove
    <3> QED
      BY <1>1, <3>1
  <2> HIDE DEF t
  <2>2. seq'[h] = t
    BY <1>2 DEF t
  <2>3. ASSUME NEW i \in 0 .. n - 1
        PROVE  At(h, t, i) = IF i < k THEN At(h, seq[h], i) ELSE At(h, seq[h], i + 1)
    <3>1. \/ i < k /\ i \in 0 .. k - 1
          \/ ~(i < k) /\ i \in k .. Len(seq[h]) - 1
      BY <1>0, <1>1
    <3> QED
      BY <2>1, <3>1
  <2> QED
    BY <2>2, <2>3
<1>4. /\ \A i, j \in 0 .. n : At(h, seq[h], i) = At(h, seq[h], j) => i = j
      /\ \A i \in 1 .. n : At(h, seq[h], i) \in Elm
      /\ \A i \in 0 .. n : At(h, seq[h], i) \in Owner
      /\ At(h, seq[h], 0) = h
      /\ At(h, seq[h], k) = seq[h][k]
  BY <1>0, OwnersDiffer
<1>5. \A g \in Heads \ {h} : \A i \in 0 .. Len(seq[g]), j \in 0 .. n :
        At(g, seq[g], i) # At(h, seq[h], j)
  BY <1>0, OwnersDiffer
<1>6. /\ \A i \in 0 .. n :
           nxt[At(h, seq[h], i)] = IF i = n THEN NULL ELSE At(h, seq[h], i + 1)
      /\ \A i \in 1 .. n : prv[At(h, seq[h], i)] = At(h, seq[h], i - 1)
      /\ h \in TAILQS => prv[h] = At(h, seq[h], n)
  BY <1>0, Places
<1>7. k - 1 \in 0 .. n /\ k \in 0 .. n /\ 0 \in 0 .. n /\ (k # n => k + 1 \in 0 .. n)
  BY <1>1
<1>8. /\ nxt[seq[h][k]] = IF k = n THEN NULL ELSE At(h, seq[h], k + 1)
      /\ b = IF k = n THEN h ELSE At(h, seq[h], k + 1)
  <2>1. nxt[seq[h][k]] = IF k = n THEN NULL ELSE At(h, seq[h], k + 1)
    BY <1>4, <1>6, <1>7
  <2>2. k # n => At(h, seq[h], k + 1) # NULL
    BY <1>4, <1>7, StructAssumption
  <2> QED
    BY <2>1, <2>2 DEF Behind
<1>9. /\ nxt'[o] = nxt[seq[h][k]]
      /\ \A x \in Owner : x # o => nxt'[x] = nxt[x]
      /\ nxt' \in [Owner -> Elm \cup {NULL}]
  <2>1. o \in Owner /\ seq[h][k] \in Owner
    BY <1>4, <1>7
  <2> QED
    BY <2>1 DEF Inv, TypeOK
<1>10. \A x \in Elm \cup TAILQS : prv'[x] = IF x = b THEN o ELSE prv[x]
  OBVIOUS
<1>11. o = At(h, seq[h], k - 1)
  OBVIOUS
<1> HIDE DEF o, b
<1>12. TypeOK'
  BY <1>2, <1>9 DEF TypeOK
<1> DEFINE From(i) == IF i < k THEN i ELSE i + 1
<1>13. ASSUME NEW i \in 0 .. n - 1
       PROVE  At(h, seq'[h], i) = At(h, seq[h], From(i)) /\ From(i) \in 0 .. n
  BY <1>1, <1>3
<1>14. Disjoint'
  <2> SUFFICES ASSUME NEW g \in Heads, NEW g2 \in Heads,
                      NEW i \in 1 .. Len(seq'[g]), NEW j \in 1 .. Len(seq'[g2]),
                      seq'[g][i] = seq'[g2][j]
               PROVE  g = g2 /\ i = j
    BY DEF Disjoint
  <2>1. At(g, seq'[g], i) = seq'[g][i] /\ At(g2, seq'[g2], j) = seq'[g2][j]
    BY DEF At
  <2>2. CASE g # h /\ g2 # h
    BY <1>2, <2>1, <2>2, OwnersDiffer, SMTT(30)
  <2>3. CASE g = h /\ g2 = h
    <3>1. i \in 0 .. n - 1 /\ j \in 0 .. n - 1
      BY <1>1, <1>2, <2>3
    <3>2. From(i) = From(j)
      BY <1>4, <1>13, <2>1, <2>3, <3>1
    <3> QED
      BY <1>1, <2>3, <3>1, <3>2
  <2>4. ASSUME NEW x \in 1 .. n - 1, NEW f \in Heads \ {h}, NEW y \in 1 .. Len(seq[f])
        PROVE  At(h, seq'[h], x) # At(f, seq[f], y)
    <3>1. x \in 0 .. n - 1 /\ y \in 0 .. Len(seq[f])
      BY <1>1, OwnersDiffer
    <3> QED
      BY <1>5, <1>13, <3>1, SMTT(30)
  <2>5. CASE g = h /\ g2 # h
    BY <1>2, <2>1, <2>4, <2>5
  <2>6. CASE g # h /\ g2 = h
    BY <1>2, <2>1, <2>4, <2>6
  <2> QED
    BY <2>2, <2>3, <2>5, <2>6
<1>15. Forward(h)'
  <2> SUFFICES ASSUME NEW i \in 0 .. n - 1
               PROVE  nxt'[At(h, seq'[h], i)] =
                        IF i = n - 1 THEN NULL ELSE At(h, seq'[h], i + 1)
    BY <1>2 DEF Forward
  <2>1. CASE i < k - 1
    <3>1. /\ i \in 0 .. n /\ i # k - 1 /\ i # n /\ i # n - 1
          /\ At(h, seq'[h], i) = At(h, seq[h], i)
          /\ At(h, seq'[h], i + 1) = At(h, seq[h], i + 1)
      <4>1. /\ i \in 0 .. n /\ i # k - 1 /\ i # n /\ i # n - 1
            /\ i \in 0 .. n - 1 /\ i < k /\ i + 1 \in 0 .. n - 1 /\ i + 1 < k
        BY <1>1, <2>1
      <4> QED
        BY <1>3, <4>1
    <3>2. nxt'[At(h, seq[h], i)] = nxt[At(h, seq[h], i)]
      BY <1>4, <1>7, <1>9, <1>11, <3>1
    <3> QED
      BY <1>6, <3>1, <3>2
  <2>2. CASE i = k - 1
    <3>1. At(h, seq'[h], i) = o
      BY <1>1, <1>3, <1>11, <2>2
    <3>2. ASSUME i # n - 1
          PROVE  At(h, seq'[h], i + 1) = At(h, seq[h], k + 1)
      <4>1. i + 1 \in 0 .. n - 1 /\ ~(i + 1 < k) /\ (i + 1) + 1 = k + 1
        BY <1>1, <2>2, <3>2
      <4> QED
        BY <1>3, <4>1
    <3>3. i = n - 1 <=> k = n
      BY <1>1, <2>2
    <3> QED
      BY <1>8, <1>9, <3>1, <3>2, <3>3
  <2>3. CASE i > k - 1
    <3>1. /\ i + 1 \in 0 .. n /\ i + 1 # k - 1 /\ (i = n - 1 <=> i + 1 = n)
          /\ At(h, seq'[h], i) = At(h, seq[h], i + 1)
      BY <1>1, <1>3, <2>3
    <3>2. nxt'[At(h, seq[h], i + 1)] = nxt[At(h, seq[h], i + 1)]
      BY <1>4, <1>7, <1>9, <1>11, <3>1
    <3>3. ASSUME i # n - 1
          PROVE  At(h, seq'[h], i + 1) = At(h, seq[h], (i + 1) + 1)
      <4>1. i + 1 \in 0 .. n - 1 /\ ~(i + 1 < k)
        BY <1>1, <2>3, <3>3, SMTT(30)
      <4> QED
        BY <1>3, <4>1
    <3> QED
      BY <1>6, <3>1, <3>2, <3>3
  <2> QED
    BY <1>1, <2>1, <2>2, <2>3
<1>16. Backward(h)'
  <2>1. ASSUME NEW i \in 1 .. n - 1
        PROVE  prv'[seq'[h][i]] = At(h, seq'[h], i - 1)
    <3>1. seq'[h][i] = At(h, seq'[h], i)
      BY DEF At
    <3>2. CASE i < k
      <4>1. /\ i \in 1 .. n /\ i \in 0 .. n /\ i # 0 /\ i # k + 1
            /\ At(h, seq'[h], i) = At(h, seq[h], i)
            /\ At(h, seq'[h], i - 1) = At(h, seq[h], i - 1)
        <5>1. /\ i \in 1 .. n /\ i \in 0 .. n /\ i # 0 /\ i # k + 1
              /\ i \in 0 .. n - 1 /\ i - 1 \in 0 .. n - 1 /\ i - 1 < k
          BY <1>1, <3>2
        <5> QED
          BY <1>3, <3>2, <5>1
      <4>2. At(h, seq[h], i) # b /\ At(h, seq[h], i) \in Elm
        BY <1>4, <1>7, <1>8, <4>1
      <4> QED
        BY <1>6, <1>10, <3>1, <4>1, <4>2
    <3>3. CASE i = k
      <4>1. k # n /\ At(h, seq'[h], i) = At(h, seq[h], k + 1) /\ k + 1 \in 1 .. n
        BY <1>1, <1>3, <3>3
      <4>2. At(h, seq'[h], i - 1) = o
        BY <1>1, <1>3, <1>11, <3>3
      <4>3. b = At(h, seq[h], k + 1) /\ b \in Elm
        BY <1>4, <1>8, <4>1
      <4> QED
        BY <1>10, <3>1, <4>1, <4>2, <4>3
    <3>4. CASE i > k
      <4>1. /\ i + 1 \in 1 .. n /\ i + 1 \in 0 .. n /\ i + 1 # 0 /\ i + 1 # k + 1
            /\ At(h, seq'[h], i) = At(h, seq[h], i + 1)
            /\ At(h, seq'[h], i - 1) = At(h, seq[h], (i + 1) - 1)
        <5>1. /\ i + 1 \in 1 .. n /\ i + 1 \in 0 .. n /\ i + 1 # 0 /\ i + 1 # k + 1
              /\ i \in 0 .. n - 1 /\ i - 1 \in 0 .. n - 1
              /\ ~(i < k) /\ ~(i - 1 < k) /\ (i - 1) + 1 = (i + 1) - 1
          BY <1>1, <3>4, SMTT(30)
        <5> QED
          BY <1>3, <5>1
      <4>2. At(h, seq[h], i + 1) # b /\ At(h, seq[h], i + 1) \in Elm
        BY <1>4, <1>7, <1>8, <4>1
      <4> QED
        BY <1>6, <1>10, <3>1, <4>1, <4>2
    <3> QED
      BY <1>1, <3>2, <3>3, <3>4
  <2>2. ASSUME h \in TAILQS
        PROVE  prv'[h] = At(h, seq'[h], n - 1)
    <3>1. CASE k = n
      BY <1>1, <1>3, <1>8, <1>10, <1>11, <2>2, <3>1
    <3>2. CASE k # n
      <4>1. b # h
        <5>1. k + 1 # 0
          BY <1>1
        <5> QED
          BY <1>4, <1>7, <1>8, <3>2, <5>1
      <4>2. At(h, seq'[h], n - 1) = At(h, seq[h], n)
        <5>1. n - 1 \in 0 .. n - 1 /\ ~(n - 1 < k) /\ (n - 1) + 1 = n
          BY <1>1, <3>2
        <5> QED
          BY <1>3, <5>1
      <4> QED
        BY <1>6, <1>10, <2>2, <4>1, <4>2
    <3> QED
      BY <3>1, <3>2
  <2> QED
    BY <1>2, <2>1, <2>2 DEF Backward
<1>17. ASSUME NEW g \in Heads \ {h}
       PROVE  Forward(g)' /\ Backward(g)'
  <2>1. \A i \in 0 .. Len(seq[g]) : At(g, seq[g], i) # o /\ At(g, seq[g], i) # b
    BY <1>4, <1>5, <1>7, <1>8, <1>11
  <2>2. \A i \in 0 .. Len(seq[g]) :
          nxt'[At(g, seq[g], i)] = nxt[At(g, seq[g], i)]
    BY <1>9, <2>1, OwnersDiffer
  <2>3. \A i \in 1 .. Len(seq[g]) :
          prv'[At(g, seq[g], i)] = prv[At(g, seq[g], i)]
    BY <1>10, <2>1, OwnersDiffer
  <2>4. g \in TAILQS => prv'[g] = prv[g]
    BY <1>10, <2>1, OwnersDiffer
  <2> QED
    BY <1>2, <2>2, <2>3, <2>4, Untouched
<1> QED
  BY <1>12, <1>14, <1>15, <1>16, <1>17 DEF Inv, ListsSound

(* A list is reset: its pointers no longer lead anywhere. *)
LEMMA ResetSound ==
  ASSUME Inv, NEW h \in Heads,
         nxt' = [nxt EXCEPT ![h] = NULL],
         prv' \in [Elm \cup TAILQS -> Owner \cup {NULL}],
         \A x \in Elm \cup TAILQS : prv'[x] = IF x = h THEN h ELSE prv[x],
         seq' = [seq EXCEPT ![h] = <<>>]
  PROVE  Inv'
<1>1. /\ seq' \in [Heads -> Seq(Elm)] /\ seq'[h] = <<>>
      /\ \A g \in Heads \ {h} : seq'[g] = seq[g]
  BY DEF Inv, TypeOK
<1>2. /\ nxt'[h] = NULL /\ nxt' \in [Owner -> Elm \cup {NULL}]
      /\ \A x \in Owner \ {h} : nxt'[x] = nxt[x]
  BY DEF Inv, TypeOK, Owner
<1>3. TypeOK'
  BY <1>1, <1>2 DEF TypeOK
<1>4. Disjoint'
  <2> SUFFICES ASSUME NEW g \in Heads, NEW g2 \in Heads,
                      NEW i \in 1 .. Len(seq'[g]), NEW j \in 1 .. Len(seq'[g2]),
                      seq'[g][i] = seq'[g2][j]
               PROVE  g = g2 /\ i = j
    BY DEF Disjoint
  <2>1. g # h /\ g2 # h
    BY <1>1
  <2> QED
    BY <1>1, <2>1 DEF Inv, ListsSound, Disjoint
<1>5. Forward(h)' /\ Backward(h)'
  BY <1>1, <1>2 DEF Forward, Backward, At
<1>6. ASSUME NEW g \in Heads \ {h}
      PROVE  Forward(g)' /\ Backward(g)'
  <2>1. \A i \in 0 .. Len(seq[g]) : At(g, seq[g], i) # h
    <3>1. 0 \in 0 .. Len(seq[h]) /\ At(h, seq[h], 0) = h
      BY OwnersDiffer
    <3> QED
      BY <3>1, OwnersDiffer
  <2>2. \A i \in 0 .. Len(seq[g]) :
          nxt'[At(g, seq[g], i)] = nxt[At(g, seq[g], i)]
    BY <1>2, <2>1, OwnersDiffer
  <2>3. \A i \in 1 .. Len(seq[g]) :
          prv'[At(g, seq[g], i)] = prv[At(g, seq[g], i)]
    BY <2>1, OwnersDiffer
  <2> QED
    BY <1>1, <2>2, <2>3, Untouched
<1> QED
  BY <1>3, <1>4, <1>5, <1>6 DEF Inv, ListsSound

(* The owners of a list after the elements of another are put behind it. *)
LEMMA AtConcat ==
  ASSUME NEW s \in Seq(Elm), NEW t \in Seq(Elm), NEW h \in Heads, NEW g \in Heads
  PROVE  /\ s \o t \in Seq(Elm)
         /\ Len(s \o t) = Len(s) + Len(t)
         /\ \A i \in 0 .. Len(s) : At(h, s \o t, i) = At(h, s, i)
         /\ \A i \in Len(s) + 1 .. Len(s) + Len(t) :
              At(h, s \o t, i) = At(g, t, i - Len(s))
<1>1. /\ s \o t \in Seq(Elm) /\ Len(s \o t) = Len(s) + Len(t)
      /\ \A i \in 1 .. Len(s) + Len(t) :
           (s \o t)[i] = IF i <= Len(s) THEN s[i] ELSE t[i - Len(s)]
  BY ConcatProperties
<1>2. ASSUME NEW i \in 0 .. Len(s)
      PROVE  At(h, s \o t, i) = At(h, s, i)
  <2>1. CASE i = 0
    BY <2>1 DEF At
  <2>2. CASE i # 0
    <3>1. i \in 1 .. Len(s) + Len(t) /\ i <= Len(s)
      BY <2>2
    <3>2. (s \o t)[i] = s[i]
      BY <1>1, <3>1
    <3> QED
      BY <2>2, <3>2 DEF At
  <2> QED
    BY <2>1, <2>2
<1>3. ASSUME NEW i \in Len(s) + 1 .. Len(s) + Len(t)
      PROVE  At(h, s \o t, i) = At(g, t, i - Len(s))
  <2>1. /\ i \in 1 .. Len(s) + Len(t) /\ ~(i <= Len(s))
        /\ i # 0 /\ i - Len(s) # 0
    OBVIOUS
  <2>2. (s \o t)[i] = t[i - Len(s)]
    BY <1>1, <2>1
  <2> QED
    BY <2>1, <2>2 DEF At
<1> QED
  BY <1>1, <1>2, <1>3

(* The elements of one tail queue go behind those of another. *)
LEMMA ConcatSound ==
  ASSUME Inv, NEW h \in TAILQS, NEW g \in TAILQS \ {h}, TAILQ_CONCAT(h, g)
  PROVE  Inv'
<1>0. PICK n \in Nat, m \in Nat : n = Len(seq[h]) /\ m = Len(seq[g])
  BY OwnersDiffer DEF Heads
<1> DEFINE H(i) == At(h, seq[h], i)
           G(i) == At(g, seq[g], i)
<1>1. /\ h \in Heads /\ g \in Heads /\ h # g
      /\ seq[h] \in Seq(Elm) /\ seq[g] \in Seq(Elm)
  BY DEF Heads, Inv, TypeOK
<1>2. /\ \A i, j \in 0 .. n : H(i) = H(j) => i = j
      /\ \A i, j \in 0 .. m : G(i) = G(j) => i = j
      /\ \A i \in 0 .. n, j \in 0 .. m : H(i) # G(j)
      /\ \A i \in 1 .. n : H(i) \in Elm
      /\ \A i \in 1 .. m : G(i) \in Elm
      /\ \A i \in 0 .. n : H(i) \in Owner
      /\ \A i \in 0 .. m : G(i) \in Owner
      /\ H(0) = h /\ G(0) = g
  BY <1>0, <1>1, OwnersDiffer
<1>3. /\ \A i \in 0 .. n : nxt[H(i)] = IF i = n THEN NULL ELSE H(i + 1)
      /\ \A i \in 1 .. n : prv[H(i)] = H(i - 1)
      /\ prv[h] = H(n)
      /\ \A i \in 0 .. m : nxt[G(i)] = IF i = m THEN NULL ELSE G(i + 1)
      /\ \A i \in 1 .. m : prv[G(i)] = G(i - 1)
      /\ prv[g] = G(m)
  BY <1>0, <1>1, Places
<1>4. /\ \A f \in Heads \ {h, g} : \A i \in 0 .. Len(seq[f]) :
           /\ \A j \in 0 .. n : At(f, seq[f], i) # H(j)
           /\ \A j \in 0 .. m : At(f, seq[f], i) # G(j)
  BY <1>0, <1>1, OwnersDiffer
<1>5. /\ seq' \in [Heads -> Seq(Elm)]
      /\ seq'[h] = seq[h] \o seq[g] /\ seq'[g] = <<>>
      /\ Len(seq'[h]) = n + m
      /\ \A f \in Heads \ {h, g} : seq'[f] = seq[f]
  <2>1. seq' = [seq EXCEPT ![h] = seq[h] \o seq[g], ![g] = <<>>]
    BY DEF TAILQ_CONCAT
  <2>2. seq[h] \o seq[g] \in Seq(Elm) /\ Len(seq[h] \o seq[g]) = n + m
    BY <1>0, <1>1, AtConcat
  <2>3. seq'[h] = seq[h] \o seq[g] /\ seq'[g] = <<>>
    BY <1>1, <2>1 DEF Inv, TypeOK
  <2>4. \A f \in Heads \ {h, g} : seq'[f] = seq[f]
    BY <1>1, <2>1 DEF Inv, TypeOK
  <2>5. seq' \in [Heads -> Seq(Elm)]
    <3>1. <<>> \in Seq(Elm)
      OBVIOUS
    <3>2. ASSUME NEW c \in Seq(Elm), NEW d \in Seq(Elm)
          PROVE  [seq EXCEPT ![h] = c, ![g] = d] \in [Heads -> Seq(Elm)]
      BY <1>1 DEF Inv, TypeOK
    <3> QED
      BY <2>1, <2>2, <3>1, <3>2
  <2> QED
    BY <2>2, <2>3, <2>4, <2>5
<1>6. /\ \A i \in 0 .. n : At(h, seq'[h], i) = H(i)
      /\ \A i \in n + 1 .. n + m : At(h, seq'[h], i) = G(i - n)
  <2>1. \A i \in 0 .. Len(seq[h]) :
          At(h, seq[h] \o seq[g], i) = At(h, seq[h], i)
    BY <1>1, AtConcat
  <2>2. \A i \in Len(seq[h]) + 1 .. Len(seq[h]) + Len(seq[g]) :
          At(h, seq[h] \o seq[g], i) = At(g, seq[g], i - Len(seq[h]))
    BY <1>1, AtConcat, ZenonT(60)
  <2> QED
    BY <1>0, <1>5, <2>1, <2>2
<1> HIDE DEF H, G
<1>7. m # 0 /\ nxt[g] = G(1) /\ 1 \in 1 .. m /\ 1 \in 0 .. m /\ 0 \in 0 .. m /\ n \in 0 .. n
  <2>1. nxt[G(0)] # NULL
    BY <1>2 DEF TAILQ_CONCAT
  <2> QED
    BY <1>2, <1>3, <2>1
<1>8. /\ nxt' \in [Owner -> Elm \cup {NULL}]
      /\ nxt'[H(n)] = G(1) /\ nxt'[g] = NULL
      /\ \A x \in Owner : x # H(n) /\ x # g => nxt'[x] = nxt[x]
  <2>1. nxt' = [nxt EXCEPT ![H(n)] = G(1), ![g] = NULL]
    BY <1>3, <1>7 DEF TAILQ_CONCAT
  <2>2. H(n) \in Owner /\ g \in Owner /\ H(n) # g /\ G(1) \in Elm
    BY <1>1, <1>2, <1>7 DEF Owner
  <2> QED
    BY <2>1, <2>2 DEF Inv, TypeOK
<1>9. /\ prv' \in [Elm \cup TAILQS -> Owner \cup {NULL}]
      /\ prv'[G(1)] = H(n) /\ prv'[h] = G(m) /\ prv'[g] = g
      /\ \A x \in Elm \cup TAILQS : x # G(1) /\ x # h /\ x # g => prv'[x] = prv[x]
  <2>1. prv' = [prv EXCEPT ![G(1)] = H(n), ![h] = G(m), ![g] = g]
    BY <1>3, <1>7 DEF TAILQ_CONCAT
  <2>2. 0 \in 0 .. n /\ m \in 0 .. m
    OBVIOUS
  <2>3. /\ G(1) \in Elm /\ G(1) # h /\ G(1) # g /\ h # g
        /\ H(n) \in Owner /\ G(m) \in Owner /\ g \in Owner
    BY <1>1, <1>2, <1>7, <2>2 DEF Owner
  <2> QED
    BY <2>1, <2>3 DEF Inv, TypeOK
<1>10. TypeOK'
  BY <1>5, <1>8, <1>9 DEF TypeOK
<1>11. Disjoint'
  <2> SUFFICES ASSUME NEW f \in Heads, NEW f2 \in Heads,
                      NEW i \in 1 .. Len(seq'[f]), NEW j \in 1 .. Len(seq'[f2]),
                      seq'[f][i] = seq'[f2][j]
               PROVE  f = f2 /\ i = j
    BY DEF Disjoint
  <2>1. At(f, seq'[f], i) = seq'[f][i] /\ At(f2, seq'[f2], j) = seq'[f2][j]
    BY DEF At
  <2>2. f # g /\ f2 # g
    BY <1>5
  <2>3. ASSUME NEW x \in 1 .. n + m
        PROVE  \/ x \in 0 .. n /\ At(h, seq'[h], x) = H(x)
               \/ x - n \in 0 .. m /\ x - n # 0 /\ x > n /\ At(h, seq'[h], x) = G(x - n)
    <3>1. x \in 0 .. n \/ (x \in n + 1 .. n + m /\ x - n \in 0 .. m /\ x - n # 0 /\ x > n)
      OBVIOUS
    <3> QED
      BY <1>6, <3>1
  <2>4. CASE f # h /\ f2 # h
    BY <1>5, <2>1, <2>2, <2>4, OwnersDiffer
  <2>5. CASE f = h /\ f2 = h
    <3>1. i \in 1 .. n + m /\ j \in 1 .. n + m
      BY <1>5, <2>5
    <3>2. (i \in 0 .. n /\ j \in 0 .. n) \/ i - n = j - n
      BY <1>2, <2>1, <2>3, <2>5, <3>1
    <3> QED
      BY <1>2, <2>1, <2>3, <2>5, <3>1, <3>2
  <2>6. ASSUME NEW x \in 1 .. n + m, NEW d \in Heads \ {h, g}, NEW y \in 1 .. Len(seq[d])
        PROVE  At(h, seq'[h], x) # At(d, seq[d], y)
    <3>1. y \in 0 .. Len(seq[d])
      BY OwnersDiffer
    <3> QED
      BY <1>4, <2>3, <3>1
  <2>7. CASE f = h /\ f2 # h
    BY <1>5, <2>1, <2>2, <2>6, <2>7
  <2>8. CASE f # h /\ f2 = h
    BY <1>5, <2>1, <2>2, <2>6, <2>8
  <2> QED
    BY <2>4, <2>5, <2>7, <2>8
<1>12. Forward(h)'
  <2> SUFFICES ASSUME NEW i \in 0 .. n + m
               PROVE  nxt'[At(h, seq'[h], i)] =
                        IF i = n + m THEN NULL ELSE At(h, seq'[h], i + 1)
    BY <1>5 DEF Forward
  <2>1. CASE i < n
    <3>1. i \in 0 .. n /\ i + 1 \in 0 .. n /\ i # n /\ i # n + m
      BY <2>1
    <3>2. H(i) # H(n) /\ H(i) # g /\ H(i) \in Owner
      BY <1>2, <1>7, <3>1
    <3> QED
      BY <1>3, <1>6, <1>8, <3>1, <3>2
  <2>2. CASE i = n
    <3>1. n + 1 \in n + 1 .. n + m /\ (n + 1) - n = 1 /\ n # n + m
      BY <1>7
    <3> QED
      BY <1>6, <1>7, <1>8, <2>2, <3>1
  <2>3. CASE i > n
    <3>1. /\ i \in n + 1 .. n + m /\ i - n \in 0 .. m /\ i - n # 0
          /\ (i = n + m <=> i - n = m)
      BY <2>3
    <3>2. G(i - n) # H(n) /\ G(i - n) # g /\ G(i - n) \in Owner
      BY <1>2, <1>7, <3>1
    <3>3. nxt'[At(h, seq'[h], i)] = IF i - n = m THEN NULL ELSE G((i - n) + 1)
      BY <1>3, <1>6, <1>8, <3>1, <3>2
    <3>4. ASSUME i # n + m
          PROVE  At(h, seq'[h], i + 1) = G((i - n) + 1)
      <4>1. i + 1 \in n + 1 .. n + m /\ (i + 1) - n = (i - n) + 1
        BY <2>3, <3>4
      <4> QED
        BY <1>6, <4>1
    <3> QED
      BY <3>1, <3>3, <3>4
  <2> QED
    BY <2>1, <2>2, <2>3
<1>13. Backward(h)'
  <2>1. ASSUME NEW i \in 1 .. n + m
        PROVE  prv'[seq'[h][i]] = At(h, seq'[h], i - 1)
    <3>1. seq'[h][i] = At(h, seq'[h], i)
      BY DEF At
    <3>2. CASE i <= n
      <4>1. i \in 1 .. n /\ i \in 0 .. n /\ i - 1 \in 0 .. n /\ i # 0 /\ 0 \in 0 .. n
        BY <3>2
      <4>2. H(i) # G(1) /\ H(i) # h /\ H(i) # g /\ H(i) \in Elm
        BY <1>2, <1>7, <4>1
      <4> QED
        BY <1>3, <1>6, <1>9, <3>1, <4>1, <4>2
    <3>3. CASE i = n + 1
      <4>1. i \in n + 1 .. n + m /\ i - n = 1 /\ i - 1 = n
        BY <3>3
      <4> QED
        BY <1>6, <1>7, <1>9, <3>1, <4>1
    <3>4. CASE i > n + 1
      <4>1. /\ i \in n + 1 .. n + m /\ i - n \in 0 .. m /\ i - n \in 1 .. m
            /\ i - n # 0 /\ i - n # 1
            /\ i - 1 \in n + 1 .. n + m /\ (i - 1) - n = (i - n) - 1 /\ 0 \in 0 .. n
        BY <3>4
      <4>2. G(i - n) # G(1) /\ G(i - n) # h /\ G(i - n) # g /\ G(i - n) \in Elm
        BY <1>2, <1>7, <4>1
      <4>3. prv'[G(i - n)] = G((i - n) - 1)
        BY <1>3, <1>9, <4>1, <4>2
      <4> QED
        BY <1>6, <3>1, <4>1, <4>3
    <3> QED
      BY <3>2, <3>3, <3>4
  <2>2. prv'[h] = At(h, seq'[h], n + m)
    <3>1. n + m \in n + 1 .. n + m /\ (n + m) - n = m
      BY <1>7
    <3> QED
      BY <1>6, <1>9, <3>1
  <2> QED
    BY <1>5, <2>1, <2>2 DEF Backward
<1>14. Forward(g)' /\ Backward(g)'
  BY <1>5, <1>8, <1>9 DEF Forward, Backward, At
<1>15. ASSUME NEW f \in Heads \ {h, g}
       PROVE  Forward(f)' /\ Backward(f)'
  <2>1. \A i \in 0 .. Len(seq[f]) :
          /\ At(f, seq[f], i) # H(n) /\ At(f, seq[f], i) # G(1)
          /\ At(f, seq[f], i) # h /\ At(f, seq[f], i) # g
    <3>1. 0 \in 0 .. n
      OBVIOUS
    <3> QED
      BY <1>2, <1>4, <1>7, <3>1
  <2>2. \A i \in 0 .. Len(seq[f]) :
          nxt'[At(f, seq[f], i)] = nxt[At(f, seq[f], i)]
    BY <1>8, <2>1, OwnersDiffer
  <2>3. \A i \in 1 .. Len(seq[f]) :
          prv'[At(f, seq[f], i)] = prv[At(f, seq[f], i)]
    BY <1>9, <2>1, OwnersDiffer
  <2>4. f \in TAILQS => prv'[f] = prv[f]
    BY <1>9, <2>1, OwnersDiffer
  <2> QED
    BY <1>5, <2>2, <2>3, <2>4, Untouched
<1> QED
  BY <1>10, <1>11, <1>12, <1>13, <1>14, <1>15 DEF Inv, ListsSound

(* An element put at the front or at the back goes behind the head or      *)
(* behind the last element.                                                *)
LEMMA EndInserts ==
  ASSUME NEW s \in Seq(Elm), NEW e \in Elm
  PROVE  /\ <<e>> \o s = InsertAt(s, 0 + 1, e)
         /\ Append(s, e) = InsertAt(s, Len(s) + 1, e)
<1>1. <<e>> \o s = InsertAt(s, 0 + 1, e)
  <2>1. SubSeq(s, 1, (0 + 1) - 1) = <<>> /\ SubSeq(s, 0 + 1, Len(s)) = s
    OBVIOUS
  <2>2. <<>> \o <<e>> = <<e>>
    OBVIOUS
  <2> QED
    BY <2>1, <2>2 DEF InsertAt
<1>2. Append(s, e) = InsertAt(s, Len(s) + 1, e)
  <2>1. SubSeq(s, 1, (Len(s) + 1) - 1) = s /\ SubSeq(s, Len(s) + 1, Len(s)) = <<>>
    OBVIOUS
  <2>2. Append(s, e) = (s \o <<e>>) \o <<>>
    OBVIOUS
  <2> QED
    BY <2>1, <2>2 DEF InsertAt
<1> QED
  BY <1>1, <1>2

(* Where the pointers of the macros lead. *)
LEMMA Arrows ==
  ASSUME Inv, NEW h \in Heads, NEW k \in 1 .. Len(seq[h])
  PROVE  /\ seq[h][k] \in Elm
         /\ At(h, seq[h], k) = seq[h][k]
         /\ prv[seq[h][k]] = At(h, seq[h], k - 1)
         /\ nxt[At(h, seq[h], k - 1)] = seq[h][k]
         /\ At(h, seq[h], k - 1) \in Owner
         /\ k - 1 \in 0 .. Len(seq[h]) /\ k \in 0 .. Len(seq[h])
<1>1. /\ k - 1 \in 0 .. Len(seq[h]) /\ k \in 0 .. Len(seq[h])
      /\ k - 1 # Len(seq[h]) /\ (k - 1) + 1 = k
  BY OwnersDiffer
<1>2. At(h, seq[h], k) = seq[h][k] /\ seq[h][k] \in Elm
  BY OwnersDiffer
<1>3. nxt[At(h, seq[h], k - 1)] = seq[h][k]
  <2>1. nxt[At(h, seq[h], k - 1)] = At(h, seq[h], (k - 1) + 1)
    BY <1>1, Places
  <2> QED
    BY <1>1, <1>2, <2>1
<1> QED
  BY <1>1, <1>2, <1>3, OwnersDiffer, Places

(* What a next field holds has an entry; a list head has none. *)
LEMMA Entries ==
  ASSUME Inv, NEW o \in Owner
  PROVE  nxt[o] # NULL => nxt[o] \in Elm
BY DEF Inv, TypeOK

(* A list's insertions, which tell the entry behind from none. *)
LEMMA ListInsert ==
  ASSUME Inv, NEW h \in LISTS, NEW k \in 0 .. Len(seq[h]), NEW e \in Elm, Unlisted(e),
         NEW o, o = At(h, seq[h], k),
         nxt' = [nxt EXCEPT ![e] = nxt[o], ![o] = e],
         prv' = [PointBack(prv, nxt[o], e) EXCEPT ![e] = o],
         seq' = [seq EXCEPT ![h] = InsertAt(seq[h], k + 1, e)]
  PROVE  Inv'
<1>1. h \in Heads /\ o \in Owner /\ e \in Owner /\ h \notin Elm \cup TAILQS
  BY OwnersDiffer, StructAssumption DEF Heads, Owner
<1>2. nxt[o] # NULL => nxt[o] \in Elm
  BY <1>1, Entries
<1>3. prv \in [Elm \cup TAILQS -> Owner \cup {NULL}]
  BY DEF Inv, TypeOK
<1> DEFINE f == PointBack(prv, nxt[o], e)
<1>4. /\ f \in [Elm \cup TAILQS -> Owner \cup {NULL}]
      /\ \A x \in Elm \cup TAILQS : f[x] = IF x = Behind(h, nxt[o]) THEN e ELSE prv[x]
  BY <1>1, <1>2, <1>3 DEF PointBack, Behind
<1> HIDE DEF f
<1>5. prv' = [f EXCEPT ![e] = o]
  BY DEF f
<1>6. /\ prv' \in [Elm \cup TAILQS -> Owner \cup {NULL}] /\ prv'[e] = o
      /\ \A x \in (Elm \cup TAILQS) \ {e} : prv'[x] = f[x]
  <2>1. ASSUME NEW c \in [Elm \cup TAILQS -> Owner \cup {NULL}]
        PROVE  /\ [c EXCEPT ![e] = o] \in [Elm \cup TAILQS -> Owner \cup {NULL}]
               /\ [c EXCEPT ![e] = o][e] = o
               /\ \A x \in (Elm \cup TAILQS) \ {e} : [c EXCEPT ![e] = o][x] = c[x]
    BY <1>1
  <2> QED
    BY <1>4, <1>5, <2>1
<1>7. \A x \in (Elm \cup TAILQS) \ {e} :
        prv'[x] = IF x = Behind(h, nxt[o]) THEN e ELSE prv[x]
  BY <1>4, <1>6
<1>8. /\ nxt' = [nxt EXCEPT ![e] = nxt[At(h, seq[h], k)], ![At(h, seq[h], k)] = e]
      /\ prv'[e] = At(h, seq[h], k)
      /\ \A x \in (Elm \cup TAILQS) \ {e} :
           prv'[x] = IF x = Behind(h, nxt[At(h, seq[h], k)]) THEN e ELSE prv[x]
      /\ prv' \in [Elm \cup TAILQS -> Owner \cup {NULL}]
      /\ h \in Heads
  BY <1>1, <1>6, <1>7
<1> QED
  BY <1>8, InsertSound, Zenon

(* A tail queue's, where the last field stands in for the entry behind. *)
LEMMA TailqInsert ==
  ASSUME Inv, NEW h \in TAILQS, NEW k \in 0 .. Len(seq[h]), NEW e \in Elm, Unlisted(e),
         NEW o, o = At(h, seq[h], k),
         nxt' = [nxt EXCEPT ![e] = nxt[o], ![o] = e],
         prv' = [prv EXCEPT ![Behind(h, nxt[o])] = e, ![e] = o],
         seq' = [seq EXCEPT ![h] = InsertAt(seq[h], k + 1, e)]
  PROVE  Inv'
<1>1. h \in Heads /\ o \in Owner /\ e \in Owner
  BY OwnersDiffer DEF Heads, Owner
<1>2. Behind(h, nxt[o]) \in Elm \cup TAILQS
  BY <1>1, Entries DEF Behind
<1>3. /\ prv' \in [Elm \cup TAILQS -> Owner \cup {NULL}] /\ prv'[e] = o
      /\ \A x \in (Elm \cup TAILQS) \ {e} :
           prv'[x] = IF x = Behind(h, nxt[o]) THEN e ELSE prv[x]
  BY <1>1, <1>2 DEF Inv, TypeOK
<1> QED
  BY <1>1, <1>3, InsertSound

(* Insertion before the k-th element: its entry is the one behind. *)
LEMMA InsertBefore ==
  ASSUME Inv, NEW h \in Heads, NEW k \in 1 .. Len(seq[h]), NEW e \in Elm, Unlisted(e),
         LIST_INSERT_BEFORE(h, k, e)
  PROVE  Inv'
<1> DEFINE listelm == seq[h][k]
           o == At(h, seq[h], k - 1)
<1>1. /\ listelm \in Elm /\ prv[listelm] = o /\ nxt[o] = listelm /\ o \in Owner
      /\ k - 1 \in 0 .. Len(seq[h])
  BY Arrows
<1>2. e # listelm
  BY DEF Unlisted, Range, Inv, TypeOK
<1>3. /\ nxt' = [nxt EXCEPT ![e] = nxt[o], ![o] = e]
      /\ prv' = [prv EXCEPT ![e] = o, ![listelm] = e]
      /\ seq' = [seq EXCEPT ![h] = InsertAt(seq[h], (k - 1) + 1, e)]
  <2>1. (k - 1) + 1 = k
    OBVIOUS
  <2> QED
    BY <1>1, <2>1 DEF LIST_INSERT_BEFORE
<1>4. Behind(h, nxt[o]) = listelm
  BY <1>1, StructAssumption DEF Behind, Owner
<1>5. /\ prv' \in [Elm \cup TAILQS -> Owner \cup {NULL}] /\ prv'[e] = o
      /\ \A x \in (Elm \cup TAILQS) \ {e} :
           prv'[x] = IF x = Behind(h, nxt[o]) THEN e ELSE prv[x]
  <2> HIDE DEF listelm, o
  <2> QED
    BY <1>1, <1>2, <1>3, <1>4 DEF Inv, TypeOK, Owner
<1>6. PICK m \in 0 .. Len(seq[h]) : m = k - 1
  BY <1>1
<1>7. /\ nxt' = [nxt EXCEPT ![e] = nxt[At(h, seq[h], m)], ![At(h, seq[h], m)] = e]
      /\ prv'[e] = At(h, seq[h], m)
      /\ \A x \in (Elm \cup TAILQS) \ {e} :
           prv'[x] = IF x = Behind(h, nxt[At(h, seq[h], m)]) THEN e ELSE prv[x]
      /\ seq' = [seq EXCEPT ![h] = InsertAt(seq[h], m + 1, e)]
  BY <1>3, <1>5, <1>6
<1> QED
  BY <1>5, <1>7, InsertSound

(* Insertion behind the last element, which tqh_last points to. *)
LEMMA InsertTail ==
  ASSUME Inv, NEW h \in TAILQS, NEW e \in Elm, Unlisted(e), TAILQ_INSERT_TAIL(h, e)
  PROVE  Inv'
<1>0. PICK n \in Nat : n = Len(seq[h])
  BY OwnersDiffer DEF Heads
<1> DEFINE o == At(h, seq[h], n)
<1>1. /\ h \in Heads /\ seq[h] \in Seq(Elm) /\ n \in 0 .. Len(seq[h])
      /\ h \in Owner /\ e \in Owner /\ h # e
  BY <1>0, StructAssumption DEF Heads, Owner, Inv, TypeOK
<1>2. prv[h] = o /\ nxt[o] = NULL /\ o \in Owner
  BY <1>0, <1>1, Places, OwnersDiffer
<1>3. /\ nxt' = [nxt EXCEPT ![e] = nxt[o], ![o] = e]
      /\ prv' = [prv EXCEPT ![e] = o, ![h] = e]
      /\ seq' = [seq EXCEPT ![h] = Append(seq[h], e)]
  BY <1>2 DEF TAILQ_INSERT_TAIL
<1>4. seq' = [seq EXCEPT ![h] = InsertAt(seq[h], n + 1, e)]
  BY <1>0, <1>1, <1>3, EndInserts
<1>5. Behind(h, nxt[o]) = h
  BY <1>2 DEF Behind
<1>6. /\ prv' \in [Elm \cup TAILQS -> Owner \cup {NULL}] /\ prv'[e] = o
      /\ \A x \in (Elm \cup TAILQS) \ {e} :
           prv'[x] = IF x = Behind(h, nxt[o]) THEN e ELSE prv[x]
  <2> HIDE DEF o
  <2> QED
    BY <1>1, <1>2, <1>3, <1>5 DEF Inv, TypeOK
<1> QED
  BY <1>1, <1>3, <1>4, <1>6, InsertSound

(* Every macro on a list keeps the invariant. *)
LEMMA ListStepSound ==
  ASSUME Inv, NEW h \in LISTS, ListStep(h)
  PROVE  Inv'
<1>1. /\ h \in Heads /\ h \notin Elm \cup TAILQS /\ seq[h] \in Seq(Elm)
      /\ prv \in [Elm \cup TAILQS -> Owner \cup {NULL}]
  BY StructAssumption DEF Heads, Inv, TypeOK
<1>2. CASE LIST_INIT(h)
  <2>1. \A x \in Elm \cup TAILQS : prv'[x] = IF x = h THEN h ELSE prv[x]
    BY <1>1, <1>2 DEF LIST_INIT
  <2>2. /\ nxt' = [nxt EXCEPT ![h] = NULL]
        /\ prv' \in [Elm \cup TAILQS -> Owner \cup {NULL}]
        /\ seq' = [seq EXCEPT ![h] = <<>>]
    BY <1>1, <1>2 DEF LIST_INIT
  <2> QED
    BY <1>1, <2>1, <2>2, ResetSound
<1>3. ASSUME NEW e \in Elm, Unlisted(e), LIST_INSERT_HEAD(h, e)
      PROVE  Inv'
  <2>1. h = At(h, seq[h], 0) /\ 0 \in 0 .. Len(seq[h])
    BY <1>1, OwnersDiffer
  <2>2. /\ nxt' = [nxt EXCEPT ![e] = nxt[h], ![h] = e]
        /\ prv' = [PointBack(prv, nxt[h], e) EXCEPT ![e] = h]
        /\ seq' = [seq EXCEPT ![h] = InsertAt(seq[h], 0 + 1, e)]
    BY <1>1, <1>3, EndInserts DEF LIST_INSERT_HEAD
  <2> QED
    BY <1>3, <2>1, <2>2, ListInsert
<1>4. ASSUME NEW k \in 1 .. Len(seq[h]), NEW e \in Elm, Unlisted(e),
             LIST_INSERT_AFTER(h, k, e)
      PROVE  Inv'
  <2>1. PICK o \in Elm : o = At(h, seq[h], k) /\ o = seq[h][k]
    BY <1>1, Arrows
  <2>2. k \in 0 .. Len(seq[h])
    OBVIOUS
  <2>3. /\ nxt' = [nxt EXCEPT ![e] = nxt[o], ![o] = e]
        /\ prv' = [PointBack(prv, nxt[o], e) EXCEPT ![e] = o]
        /\ seq' = [seq EXCEPT ![h] = InsertAt(seq[h], k + 1, e)]
    BY <1>4, <2>1 DEF LIST_INSERT_AFTER
  <2> QED
    BY <1>4, <2>1, <2>2, <2>3, ListInsert
<1>5. ASSUME NEW k \in 1 .. Len(seq[h]), NEW e \in Elm, Unlisted(e),
             LIST_INSERT_BEFORE(h, k, e)
      PROVE  Inv'
  BY <1>1, <1>5, InsertBefore
<1>6. ASSUME NEW k \in 1 .. Len(seq[h]), LIST_REMOVE(h, k)
      PROVE  Inv'
  <2> DEFINE o == At(h, seq[h], k - 1)
             x == nxt[seq[h][k]]
  <2>1. prv[seq[h][k]] = o /\ seq[h][k] \in Owner /\ o \in Owner
    BY <1>1, Arrows DEF Owner
  <2>2. x # NULL => x \in Elm
    BY <2>1, Entries
  <2>3. prv' = PointBack(prv, x, o)
    BY <1>6, <2>1 DEF LIST_REMOVE
  <2>4. /\ prv' \in [Elm \cup TAILQS -> Owner \cup {NULL}]
        /\ \A y \in Elm \cup TAILQS : prv'[y] = IF y = Behind(h, x) THEN o ELSE prv[y]
    <3> HIDE DEF o, x
    <3> QED
      BY <1>1, <2>1, <2>2, <2>3 DEF PointBack, Behind
  <2>5. /\ nxt' = [nxt EXCEPT ![o] = x]
        /\ seq' = [seq EXCEPT ![h] = RemoveAt(seq[h], k)]
    BY <1>6, <2>1 DEF LIST_REMOVE
  <2> QED
    BY <1>1, <2>4, <2>5, RemoveSound
<1> QED
  BY <1>2, <1>3, <1>4, <1>5, <1>6 DEF ListStep

(* Every macro on a tail queue keeps the invariant. *)
LEMMA TailqStepSound ==
  ASSUME Inv, NEW h \in TAILQS, TailqStep(h)
  PROVE  Inv'
<1>1. /\ h \in Heads /\ seq[h] \in Seq(Elm)
      /\ prv \in [Elm \cup TAILQS -> Owner \cup {NULL}]
  BY DEF Heads, Inv, TypeOK
<1>2. CASE TAILQ_INIT(h)
  <2>1. \A x \in Elm \cup TAILQS : prv'[x] = IF x = h THEN h ELSE prv[x]
    BY <1>1, <1>2 DEF TAILQ_INIT
  <2>2. /\ nxt' = [nxt EXCEPT ![h] = NULL]
        /\ prv' \in [Elm \cup TAILQS -> Owner \cup {NULL}]
        /\ seq' = [seq EXCEPT ![h] = <<>>]
    BY <1>1, <1>2 DEF TAILQ_INIT, Owner
  <2> QED
    BY <1>1, <2>1, <2>2, ResetSound
<1>3. ASSUME NEW e \in Elm, Unlisted(e), TAILQ_INSERT_HEAD(h, e)
      PROVE  Inv'
  <2>1. h = At(h, seq[h], 0) /\ 0 \in 0 .. Len(seq[h])
    BY <1>1, OwnersDiffer
  <2>2. /\ nxt' = [nxt EXCEPT ![e] = nxt[h], ![h] = e]
        /\ prv' = [prv EXCEPT ![Behind(h, nxt[h])] = e, ![e] = h]
        /\ seq' = [seq EXCEPT ![h] = InsertAt(seq[h], 0 + 1, e)]
    BY <1>1, <1>3, EndInserts DEF TAILQ_INSERT_HEAD
  <2> QED
    BY <1>3, <2>1, <2>2, TailqInsert
<1>4. ASSUME NEW k \in 1 .. Len(seq[h]), NEW e \in Elm, Unlisted(e),
             TAILQ_INSERT_AFTER(h, k, e)
      PROVE  Inv'
  <2>1. PICK o \in Elm : o = At(h, seq[h], k) /\ o = seq[h][k]
    BY <1>1, Arrows
  <2>2. k \in 0 .. Len(seq[h])
    OBVIOUS
  <2>3. /\ nxt' = [nxt EXCEPT ![e] = nxt[o], ![o] = e]
        /\ prv' = [prv EXCEPT ![Behind(h, nxt[o])] = e, ![e] = o]
        /\ seq' = [seq EXCEPT ![h] = InsertAt(seq[h], k + 1, e)]
    BY <1>4, <2>1 DEF TAILQ_INSERT_AFTER
  <2> QED
    BY <1>4, <2>1, <2>2, <2>3, TailqInsert
<1>5. ASSUME NEW k \in 1 .. Len(seq[h]), NEW e \in Elm, Unlisted(e),
             TAILQ_INSERT_BEFORE(h, k, e)
      PROVE  Inv'
  BY <1>1, <1>5, InsertBefore DEF TAILQ_INSERT_BEFORE
<1>6. ASSUME NEW k \in 1 .. Len(seq[h]), TAILQ_REMOVE(h, k)
      PROVE  Inv'
  <2> DEFINE o == At(h, seq[h], k - 1)
             x == nxt[seq[h][k]]
  <2>1. prv[seq[h][k]] = o /\ seq[h][k] \in Owner /\ o \in Owner
    BY <1>1, Arrows DEF Owner
  <2>2. x # NULL => x \in Elm
    BY <2>1, Entries
  <2>3. prv' = [prv EXCEPT ![Behind(h, x)] = o]
    BY <1>6, <2>1 DEF TAILQ_REMOVE
  <2>4. /\ prv' \in [Elm \cup TAILQS -> Owner \cup {NULL}]
        /\ \A y \in Elm \cup TAILQS : prv'[y] = IF y = Behind(h, x) THEN o ELSE prv[y]
    <3> HIDE DEF o, x
    <3> QED
      BY <1>1, <2>1, <2>2, <2>3 DEF Behind
  <2>5. /\ nxt' = [nxt EXCEPT ![o] = x]
        /\ seq' = [seq EXCEPT ![h] = RemoveAt(seq[h], k)]
    BY <1>6, <2>1 DEF TAILQ_REMOVE
  <2> QED
    BY <1>1, <2>4, <2>5, RemoveSound
<1> QED
  BY <1>2, <1>3, <1>4, <1>5, <1>6, InsertTail, ConcatSound DEF TailqStep

(* The zeroed elements and initialised heads. *)
LEMMA InitSound == Init => Inv
<1> SUFFICES ASSUME Init
             PROVE  Inv
  OBVIOUS
<1>1. TypeOK
  BY DEF Init, TypeOK, Owner, Heads
<1>2. \A h \in Heads : seq[h] = <<>> /\ nxt[h] = NULL /\ (h \in TAILQS => prv[h] = h)
  BY DEF Init, Owner, Heads
<1>3. Disjoint
  BY <1>2 DEF Disjoint
<1>4. \A h \in Heads : Forward(h) /\ Backward(h)
  BY <1>2 DEF Forward, Backward, At
<1> QED
  BY <1>1, <1>3, <1>4 DEF Inv, ListsSound

(* After any sequence of list and tail queue macros, on any number of       *)
(* elements and heads, the pointers run through the elements in order, both *)
(* ways.                                                                    *)
THEOREM ListsStaySound == Spec => [](TypeOK /\ ListsSound)
<1>1. Inv /\ [Next]_vars => Inv'
  <2> SUFFICES ASSUME Inv, [Next]_vars
               PROVE  Inv'
    OBVIOUS
  <2>1. CASE Next
    BY <2>1, ListStepSound, TailqStepSound DEF Next
  <2>2. CASE UNCHANGED vars
    BY <2>2 DEF Inv, TypeOK, ListsSound, Disjoint, Forward, Backward, At, vars
  <2> QED
    BY <2>1, <2>2
<1>2. Inv => TypeOK /\ ListsSound
  BY DEF Inv
<1> QED
  BY InitSound, <1>1, <1>2, PTL DEF Spec

(* What the casts of TAILQ_LAST and TAILQ_PREV read. *)
LEMMA ReadsBackward ==
  ASSUME Inv, NEW h \in TAILQS
  PROVE  TAILQ_FOREACH_REVERSE(h, seq[h])
<1>0. PICK n \in Nat : n = Len(seq[h])
  BY OwnersDiffer DEF Heads
<1>1. h \in Heads
  BY DEF Heads
<1>2. /\ \A i \in 1 .. n : prv[seq[h][i]] = At(h, seq[h], i - 1)
      /\ \A i \in 1 .. n : nxt[At(h, seq[h], i - 1)] = seq[h][i]
      /\ \A i \in 1 .. n : At(h, seq[h], i) = seq[h][i]
  BY <1>0, <1>1, Arrows
<1>3. prv[h] = At(h, seq[h], n) /\ nxt[At(h, seq[h], n)] = NULL /\ At(h, seq[h], 0) = h
  BY <1>0, <1>1, Places, OwnersDiffer
<1>4. TAILQ_LAST(h) = IF n = 0 THEN NULL ELSE seq[h][n]
  <2>1. CASE n = 0
    BY <1>3, <2>1 DEF TAILQ_LAST, TAILQ_PREV
  <2>2. CASE n # 0
    <3>1. n \in 1 .. n
      BY <2>2
    <3> QED
      BY <1>2, <1>3, <2>2, <3>1 DEF TAILQ_LAST, TAILQ_PREV
  <2> QED
    BY <2>1, <2>2
<1>5. ASSUME NEW k \in 1 .. n
      PROVE  TAILQ_PREV(seq[h][k]) = IF k = 1 THEN NULL ELSE seq[h][k - 1]
  <2>1. CASE k = 1
    BY <1>2, <1>3, <2>1 DEF TAILQ_PREV
  <2>2. CASE k # 1
    <3>1. k - 1 \in 1 .. n
      BY <2>2
    <3> QED
      BY <1>2, <2>2, <3>1 DEF TAILQ_PREV
  <2> QED
    BY <2>1, <2>2
<1>6. seq[h] = <<>> <=> n = 0
  BY <1>0, <1>1, EmptySeq DEF Inv, TypeOK
<1> QED
  BY <1>0, <1>4, <1>5, <1>6 DEF TAILQ_FOREACH_REVERSE

(* The next pointers of a sound list, as the loops read them. *)
LEMMA ReadsForward ==
  ASSUME Inv, NEW h \in Heads
  PROVE  /\ nxt[h] = IF seq[h] = <<>> THEN NULL ELSE seq[h][1]
         /\ \A i \in 1 .. Len(seq[h]) :
              nxt[seq[h][i]] = IF i = Len(seq[h]) THEN NULL ELSE seq[h][i + 1]
         /\ seq[h] # <<>> => seq[h][1] \in Elm
<1>0. PICK n \in Nat : n = Len(seq[h])
  BY OwnersDiffer
<1>1. /\ \A i \in 1 .. n : nxt[At(h, seq[h], i - 1)] = seq[h][i]
      /\ \A i \in 1 .. n : At(h, seq[h], i) = seq[h][i]
  BY <1>0, Arrows
<1>2. nxt[At(h, seq[h], n)] = NULL /\ At(h, seq[h], 0) = h
  BY <1>0, Places, OwnersDiffer
<1>3. seq[h] = <<>> <=> n = 0
  BY <1>0, EmptySeq DEF Inv, TypeOK
<1>4. nxt[h] = IF n = 0 THEN NULL ELSE seq[h][1]
  BY <1>1, <1>2
<1>5. ASSUME NEW i \in 1 .. n
      PROVE  nxt[seq[h][i]] = IF i = n THEN NULL ELSE seq[h][i + 1]
  <2>1. CASE i = n
    BY <1>1, <1>2, <2>1
  <2>2. CASE i # n
    <3>1. i + 1 \in 1 .. n /\ (i + 1) - 1 = i
      BY <2>2
    <3> QED
      BY <1>1, <2>2, <3>1
  <2> QED
    BY <2>1, <2>2
<1>6. n # 0 => seq[h][1] \in Elm
  BY <1>0 DEF Inv, TypeOK
<1> QED
  BY <1>0, <1>3, <1>4, <1>5, <1>6

(* The loops over every list and tail queue visit exactly its elements, in  *)
(* order, forwards and backwards.                                           *)
LEMMA SoundReads == Inv => LoopsVisitAll
<1> SUFFICES ASSUME Inv
             PROVE  LoopsVisitAll
  OBVIOUS
<1>1. ASSUME NEW h \in LISTS
      PROVE  LIST_FOREACH(h, seq[h]) /\ (LIST_EMPTY(h) <=> seq[h] = <<>>)
  <2>1. h \in Heads /\ NULL \notin Elm
    BY StructAssumption DEF Heads, Owner
  <2> QED
    BY <2>1, ReadsForward DEF LIST_FOREACH, LIST_EMPTY, LIST_FIRST
<1>2. ASSUME NEW h \in TAILQS
      PROVE  TAILQ_FOREACH(h, seq[h]) /\ TAILQ_FOREACH_REVERSE(h, seq[h])
  <2>1. h \in Heads
    BY DEF Heads
  <2> QED
    BY <2>1, ReadsForward, ReadsBackward DEF TAILQ_FOREACH, TAILQ_NEXT
<1> QED
  BY <1>1, <1>2 DEF LoopsVisitAll

(* LIST_FOREACH, TAILQ_FOREACH and TAILQ_FOREACH_REVERSE reach every element *)
(* and end, after any sequence of insertions, removals and concatenations.  *)
THEOREM LoopsReachAll == Spec => []LoopsVisitAll
<1>1. TypeOK /\ ListsSound => LoopsVisitAll
  BY SoundReads DEF Inv
<1> QED
  BY ListsStaySound, <1>1, PTL
=============================================================================
