------------------------------ MODULE VmProofs ------------------------------
(***************************************************************************)
(* Proofs about the page tables of Vm, for all sizes of pages, tables and  *)
(* memory: every page has one owner, the kernel's part is shared by all    *)
(* tables, and the tables implement the address spaces of AddressSpace.    *)
(*                                                                         *)
(* The argument goes through a ghost: for every page its role (free, lost, *)
(* root, mid, low, data, env, held by the running call) and, for those in  *)
(* a tree, the one entry that points to it.  Shape says that memory and    *)
(* ghost agree.  Every function of vm.c is shown to turn a memory with a   *)
(* shape into one with a shape, and to change the mapping of a root, as    *)
(* Ent reads it, where it should and nowhere else.  Loops go by induction  *)
(* over their rounds (Rounds of TallyProofs).                              *)
(***************************************************************************)
EXTENDS Vm, TallyProofs

-----------------------------------------------------------------------------
(* Numbers: virtual pages and their indices. *)

(* Pages under an entry of a root, of an address space, below KBASE, and     *)
(* before the entry of UVPT.                                                 *)
FF == FAN * FAN
NV == FAN2 * FF
KV == KBASE \div PAGE_SIZE
UV == (FAN2 - 2) * FF     \* the first page number under the entry of envs[] and UVPT

(* Virtual page numbers, and the three indices walk makes of one. *)
Vpn == 0 .. NV - 1

H2(v) == v \div FF
H1(v) == (v \div FAN) % FAN
H0(v) == v % FAN

(* The constants are numbers. *)
LEMMA Sizes ==
  /\ PAGE_SIZE \in Nat /\ PAGE_SIZE >= 1 /\ FAN \in Nat /\ FAN >= 1
  /\ FAN2 \in Nat /\ FAN2 >= 2 /\ KBASE \in Nat /\ NENV \in Nat
  BY VmAssumption

(* MAXVA and the divisors of VPN_L, in pages. *)
LEMMA Products ==
  /\ FF \in Nat /\ FF >= 1 /\ NV \in Nat /\ UV \in Nat
  /\ NV = UV + 2 * FF
  /\ MAXVA = NV * PAGE_SIZE
  /\ PAGE_SIZE * FAN * FAN = FF * PAGE_SIZE
<1>1. FF \in Nat /\ FF >= 1
  BY Sizes DEF FF
<1>2. PICK d \in Nat : FAN2 = d + 2
  BY Sizes
<1>3. UV = d * FF /\ NV = (d + 2) * FF
  BY <1>2 DEF UV, NV
<1>4. UV \in Nat /\ NV = UV + 2 * FF
  BY <1>1, <1>3
<1>5. MAXVA = NV * PAGE_SIZE /\ PAGE_SIZE * FAN * FAN = FF * PAGE_SIZE
  BY Sizes DEF MAXVA, NV, FF
<1> QED BY <1>1, <1>4, <1>5

(* The kernel begins at a page, below the entry of envs[] and UVPT. *)
LEMMA KernelBegins == KV \in 0 .. UV - 1 /\ KBASE = KV * PAGE_SIZE
<1>1. PICK n \in Nat, r \in 0 .. PAGE_SIZE - 1 :
        n = KBASE \div PAGE_SIZE /\ r = KBASE % PAGE_SIZE /\ n * PAGE_SIZE \in Nat /\ KBASE = n * PAGE_SIZE + r
  BY Sizes, Divide
<1>2. r = 0
  BY <1>1, VmAssumption
<1>3. KV = n /\ KBASE = n * PAGE_SIZE
  BY <1>1, <1>2 DEF KV
<1>4. KBASE < UV * PAGE_SIZE
  <2>1. (FAN2 - 2) * (FAN * FAN * PAGE_SIZE) = UV * PAGE_SIZE
    BY Sizes DEF UV, FF
  <2> QED BY <2>1, VmAssumption, Products, Sizes
<1>5. ~(UV <= n)
  <2>1. UV <= n => UV * PAGE_SIZE <= n * PAGE_SIZE
    BY TimesMonotone, Products, Sizes
  <2>2. UV * PAGE_SIZE \in Nat
    BY Products, Sizes
  <2> QED BY <2>1, <2>2, <1>3, <1>4, Sizes
<1> QED BY <1>3, <1>5, Products

(* An address below KV pages. *)
LEMMA PageNumber ==
  ASSUME NEW v \in Nat
  PROVE  v * PAGE_SIZE \in Nat /\ (v * PAGE_SIZE) \div PAGE_SIZE = v /\ (v * PAGE_SIZE) % PAGE_SIZE = 0
<1>1. 0 \in 0 .. PAGE_SIZE - 1 /\ v * PAGE_SIZE + 0 = v * PAGE_SIZE
  BY Sizes
<1>2. v * PAGE_SIZE + 0 \in Nat /\ (v * PAGE_SIZE + 0) \div PAGE_SIZE = v /\ (v * PAGE_SIZE + 0) % PAGE_SIZE = 0
  BY <1>1, Sizes, Quotient
<1> QED BY <1>1, <1>2

(* Page numbers are ordered as their addresses. *)
LEMMA PageOrder ==
  ASSUME NEW v \in Nat, NEW w \in Nat
  PROVE  v < w <=> v * PAGE_SIZE < w * PAGE_SIZE
<1>1. v + 1 <= w => (v + 1) * PAGE_SIZE <= w * PAGE_SIZE
  BY TimesMonotone, Sizes
<1>2. w <= v => w * PAGE_SIZE <= v * PAGE_SIZE
  BY TimesMonotone, Sizes
<1>3. (v + 1) * PAGE_SIZE = v * PAGE_SIZE + PAGE_SIZE /\ v * PAGE_SIZE \in Nat /\ w * PAGE_SIZE \in Nat
  BY Sizes
<1> QED BY <1>1, <1>2, <1>3, Sizes

(* Quotients of a product. *)
LEMMA DivideTwice ==
  ASSUME NEW v \in Nat, NEW k \in Nat, k >= 1, NEW u \in Nat, u >= 1
  PROVE  (v * u) \div (k * u) = v \div k
<1>1. PICK n \in Nat, r \in 0 .. k - 1 : n = v \div k /\ r = v % k /\ n * k \in Nat /\ v = n * k + r
  BY Divide
<1>2. r * u \in 0 .. (k * u) - 1 /\ k * u >= 1 /\ k * u \in Nat
  <2>1. (r + 1) * u <= k * u
    BY TimesMonotone
  <2>2. (r + 1) * u = r * u + u /\ r * u \in Nat /\ k * u \in Nat
    OBVIOUS
  <2> QED BY <2>1, <2>2
<1>3. v * u = n * (k * u) + r * u
  BY <1>1
<1>4. (n * (k * u) + r * u) \div (k * u) = n
  BY <1>2, Quotient
<1> QED BY <1>1, <1>3, <1>4

(* The three indices of a page number. *)
LEMMA Indices ==
  ASSUME NEW v \in Vpn
  PROVE  /\ v \in Nat /\ v * PAGE_SIZE < MAXVA
         /\ H2(v) \in 0 .. FAN2 - 1 /\ H1(v) \in 0 .. FAN - 1 /\ H0(v) \in 0 .. FAN - 1
         /\ VPN_L(2, v * PAGE_SIZE) = H2(v)
         /\ VPN_L(1, v * PAGE_SIZE) = H1(v)
         /\ VPN_L(0, v * PAGE_SIZE) = H0(v)
         /\ v = (H2(v) * FAN + H1(v)) * FAN + H0(v)
<1>1. v \in Nat /\ v < NV
  BY Products DEF Vpn
<1>2. v * PAGE_SIZE < MAXVA
  BY <1>1, PageOrder, Products
<1>3. PICK n \in Nat, c \in 0 .. FAN - 1 : n = v \div FAN /\ c = v % FAN /\ n * FAN \in Nat /\ v = n * FAN + c
  BY <1>1, Sizes, Divide
<1>4. PICK a \in Nat, b \in 0 .. FAN - 1 : a = n \div FAN /\ b = n % FAN /\ a * FAN \in Nat /\ n = a * FAN + b
  BY Sizes, Divide
<1>5. v = a * FF + (b * FAN + c)
  <2>1. (a * FAN + b) * FAN = a * (FAN * FAN) + b * FAN
    BY Sizes
  <2>2. n * FAN = a * FF + b * FAN
    BY <1>4, <2>1 DEF FF
  <2> QED BY <1>3, <2>2, Products, Sizes
<1>6. b * FAN + c \in 0 .. FF - 1
  <2>1. (b + 1) * FAN <= FAN * FAN
    BY TimesMonotone, Sizes
  <2>2. (b + 1) * FAN = b * FAN + FAN /\ b * FAN \in Nat
    BY Sizes
  <2> QED BY <2>1, <2>2, Sizes DEF FF
<1>7. H2(v) = a
  <2>1. (a * FF + (b * FAN + c)) \div FF = a
    BY <1>6, Quotient, Products
  <2> QED BY <2>1, <1>5 DEF H2
<1>8. H1(v) = b /\ H0(v) = c
  BY <1>3, <1>4 DEF H1, H0
<1>9. a \in 0 .. FAN2 - 1
  <2>1. FAN2 <= a => FAN2 * FF <= a * FF
    BY TimesMonotone, Products, Sizes
  <2>2. a * FF \in Nat
    BY Products
  <2> QED BY <2>1, <2>2, <1>1, <1>5, <1>6, Products, Sizes DEF NV
<1>10. VPN_L(2, v * PAGE_SIZE) = H2(v)
  <2>1. (v * PAGE_SIZE) \div (FF * PAGE_SIZE) = v \div FF
    BY <1>1, DivideTwice, Products, Sizes
  <2> QED BY <2>1, Products DEF VPN_L, H2
<1>11. VPN_L(1, v * PAGE_SIZE) = H1(v)
  <2>1. (v * PAGE_SIZE) \div (FAN * PAGE_SIZE) = v \div FAN
    BY <1>1, DivideTwice, Products, Sizes
  <2>2. FAN * PAGE_SIZE = PAGE_SIZE * FAN
    BY Sizes
  <2> QED BY <2>1, <2>2 DEF VPN_L, H1
<1>12. VPN_L(0, v * PAGE_SIZE) = H0(v)
  BY <1>1, PageNumber DEF VPN_L, H0
<1>13. v = (H2(v) * FAN + H1(v)) * FAN + H0(v)
  BY <1>3, <1>4, <1>7, <1>8
<1> QED BY <1>1, <1>2, <1>4, <1>3, <1>7, <1>8, <1>9, <1>10, <1>11, <1>12, <1>13

(* Two pages with the same indices are one page. *)
LEMMA SameIndices ==
  ASSUME NEW v \in Vpn, NEW w \in Vpn, H2(v) = H2(w), H1(v) = H1(w), H0(v) = H0(w)
  PROVE  v = w
  BY Indices

(* The entry of the root. *)
LEMMA RootIndex ==
  ASSUME NEW v \in Vpn
  PROVE  /\ v < UV => H2(v) < FAN2 - 2
         /\ v \in UV .. UV + FF - 1 => H2(v) = FAN2 - 2
<1>0. v \in Nat
  BY Products DEF Vpn
<1>1. PICK a \in Nat, r \in 0 .. FF - 1 : a = v \div FF /\ r = v % FF /\ a * FF \in Nat /\ v = a * FF + r
  BY <1>0, Divide, Products
<1>2. a = H2(v)
  BY <1>1 DEF H2
<1>3. FAN2 - 2 <= a => UV <= a * FF
  <2>1. FAN2 - 2 <= a => (FAN2 - 2) * FF <= a * FF
    BY TimesMonotone, Products, Sizes
  <2> QED BY <2>1 DEF UV
<1>4. FAN2 - 2 \in Nat
  BY Sizes
<1>5. a + 1 <= FAN2 - 2 => (a + 1) * FF <= UV
  <2>1. a + 1 <= FAN2 - 2 => (a + 1) * FF <= (FAN2 - 2) * FF
    BY <1>4, TimesMonotone, Products
  <2> QED BY <2>1 DEF UV
<1>6. (a + 1) * FF = a * FF + FF
  BY Products
<1>7. FAN2 - 1 <= a => UV + FF <= a * FF
  <2>1. FAN2 - 1 <= a => (FAN2 - 1) * FF <= a * FF
    BY TimesMonotone, Products, Sizes
  <2>2. (FAN2 - 1) * FF = UV + FF
    BY Products, Sizes DEF UV
  <2> QED BY <2>1, <2>2
<1> QED BY <1>1, <1>2, <1>3, <1>4, <1>5, <1>6, <1>7, Products, Sizes

(* Where the table maps itself and where envs[i] is. *)
LEMMA EnvsPlace ==
  ASSUME NEW k \in 0 .. NENV
  PROVE  /\ UVPT = (UV + FF - 1) * PAGE_SIZE
         /\ VPN_L(2, UVPT) = FAN2 - 2
         /\ UV + FF - 1 - k \in Vpn /\ UV + FF - 1 - k \in UV .. UV + FF - 1
         /\ ENVS(k - 1) = (UV + FF - 1 - k) * PAGE_SIZE
<1>1. UVPT = (UV + FF - 1) * PAGE_SIZE
  <2>1. FAN * FAN * PAGE_SIZE = FF * PAGE_SIZE
    BY Sizes DEF FF
  <2>2. UVPT = NV * PAGE_SIZE - PAGE_SIZE - FF * PAGE_SIZE
    BY <2>1, Products DEF UVPT
  <2>3. (UV + FF - 1) * PAGE_SIZE = UV * PAGE_SIZE + FF * PAGE_SIZE - PAGE_SIZE
    BY Products, Sizes
  <2>4. NV * PAGE_SIZE = UV * PAGE_SIZE + 2 * (FF * PAGE_SIZE)
    BY Products, Sizes
  <2>5. FF * PAGE_SIZE \in Nat /\ UV * PAGE_SIZE \in Nat
    BY Products, Sizes
  <2> QED BY <2>2, <2>3, <2>4, <2>5, Sizes
<1>2. k \in Nat /\ k < FF
  BY VmAssumption DEF FF
<1>3. UV + FF - 1 - k \in Vpn /\ UV + FF - 1 - k \in UV .. UV + FF - 1
  BY <1>2, Products DEF Vpn
<1>4. ENVS(k - 1) = (UV + FF - 1 - k) * PAGE_SIZE
  <2>1. ENVS(k - 1) = (UV + FF - 1) * PAGE_SIZE - k * PAGE_SIZE
    BY <1>1, <1>2 DEF ENVS
  <2>2. (UV + FF - 1) * PAGE_SIZE - k * PAGE_SIZE = (UV + FF - 1 - k) * PAGE_SIZE
    BY <1>2, Products, Sizes
  <2> QED BY <2>1, <2>2
<1>5. VPN_L(2, UVPT) = FAN2 - 2
  <2>1. UV + FF - 1 \in Vpn /\ UV + FF - 1 \in UV .. UV + FF - 1
    BY Products DEF Vpn
  <2>2. VPN_L(2, (UV + FF - 1) * PAGE_SIZE) = H2(UV + FF - 1)
    BY <2>1, Indices
  <2>3. H2(UV + FF - 1) = FAN2 - 2
    BY <2>1, RootIndex
  <2> QED BY <2>2, <2>3, <1>1
<1> QED BY <1>1, <1>3, <1>4, <1>5

-----------------------------------------------------------------------------
(* Memory and its ghost: the shape of the page tables. *)

(* The types of memory and of its ghost, which says of every page what it is *)
(* used for and, if it is part of a tree, which entry (up, ix) points to it. *)
Kind == {"none", "table", "leaf", "user"}
Pte == [pa : 0 .. KFRAME, kind : Kind]
Who ==
  {"no", "kfree", "walk", "mappages: remap", "uvmunmap: not mapped", "uvmunmap: not leaf",
   "uvmunmap: va not aligned", "freewalk: leaf still mapped", "kvmmap",
   "env_create_envs: out of memory", "env_setup_vm", "page fault"}
Memory == [pt : [Page -> [Index -> Pte]], free : SUBSET Page, panic : Who]

Role == {"free", "lost", "root", "env", "held", "mid", "low", "data"}
Ghost == [role : [Page -> Role], up : [Page -> Page], ix : [Page -> Index]]

(* The roles of tables, the entry to a page of the user, the role and the    *)
(* entry one level down.                                                     *)
Inner == {"root", "mid", "low"}

UserAt(pa) == [pa |-> pa, kind |-> "user"]

(* What is below a table, and the entry that points to it. *)
Lower(role) == IF role = "root" THEN "mid" ELSE IF role = "mid" THEN "low" ELSE "data"
Link(role, pa) == [pa |-> pa, kind |-> IF role = "low" THEN "user" ELSE "table"]

(* An entry i of the page p, in that role, that owns nothing. *)
Loose(role, p, i, pte) ==
  \/ pte = NoPte
  \/ role = "root" /\ i = FAN2 - 2 /\ pte = UserAt(p)
  \/ role = "low" /\ (pte.kind = "leaf" \/ pte = UserAt(0))

(* An entry i of the page p that owns the page it points to. *)
Owning(g, p, i, pte) ==
  /\ pte.pa \in Page
  /\ pte = Link(g.role[p], pte.pa)
  /\ g.role[pte.pa] = Lower(g.role[p])
  /\ g.up[pte.pa] = p /\ g.ix[pte.pa] = i

(* The page that an entry of a root, or of a table of level 1, points to. *)
MidAt(m, g, r, a) ==
  /\ m.pt[r][a].pa \in Page /\ g.role[m.pt[r][a].pa] = "mid"
  /\ g.up[m.pt[r][a].pa] = r /\ g.ix[m.pt[r][a].pa] = a

LowAt(m, g, q, b) ==
  /\ m.pt[q][b].pa \in Page /\ g.role[m.pt[q][b].pa] = "low"
  /\ g.up[m.pt[q][b].pa] = q /\ g.ix[m.pt[q][b].pa] = b

(* From a table to what it points to, and back. *)
DownShape(m, g) ==
  \A p \in Page, i \in Index :
    g.role[p] \in Inner => Loose(g.role[p], p, i, m.pt[p][i]) \/ Owning(g, p, i, m.pt[p][i])

UpShape(m, g) ==
  \A p \in Page : g.role[p] \in {"mid", "low", "data"} =>
    /\ g.role[g.up[p]] \in Inner
    /\ g.role[p] = Lower(g.role[g.up[p]])
    /\ m.pt[g.up[p]][g.ix[p]] = Link(g.role[g.up[p]], p)

(* Memory is what the ghost says it is. *)
Shape(m, g) ==
  /\ m \in Memory /\ g \in Ghost
  /\ \A p \in Page : g.role[p] = "free" <=> p \in m.free
  /\ DownShape(m, g) /\ UpShape(m, g)

(* The entry of the path a, b, c below r. *)
Ent(p, r, a, b, c) ==
  IF p[r][a] = NoPte THEN NoPte
  ELSE IF p[p[r][a].pa][b] = NoPte THEN NoPte
  ELSE p[p[p[r][a].pa][b].pa][c]

(* The entry of virtual page v. *)
At(p, r, v) == Ent(p, r, H2(v), H1(v), H0(v))

(* The self-mappings of the roots stay. *)
SelfSame(p, q, g) ==
  \A r \in Page, a \in Index : g.role[r] = "root" =>
    /\ p[r][a].kind = "user" <=> q[r][a].kind = "user"
    /\ p[r][a].kind = "user" => q[r][a] = p[r][a]

(* Every root maps what it did; every root but for one page maps what it     *)
(* did.                                                                      *)
Same(p, q, g) ==
  /\ SelfSame(p, q, g)
  /\ \A r \in Page, a, b, c \in Index :
        g.role[r] = "root" /\ p[r][a].kind # "user" => Ent(q, r, a, b, c) = Ent(p, r, a, b, c)
SameBut(p, q, g, r0, a0, b0, c0, pte) ==
  /\ SelfSame(p, q, g)
  /\ \A r \in Page, a, b, c \in Index :
        g.role[r] = "root" /\ p[r][a].kind # "user" =>
          Ent(q, r, a, b, c) = IF r = r0 /\ a = a0 /\ b = b0 /\ c = c0 THEN pte ELSE Ent(p, r, a, b, c)

(* Free pages may have become tables, nothing else has changed. *)
Ext(g, h) ==
  \A p \in Page : IF g.role[p] = "free" THEN h.role[p] \in {"free", "mid", "low"}
                  ELSE h.role[p] = g.role[p]

(* A page changes its role, or becomes part of a tree. *)
Given(g, p, role) == [g EXCEPT !.role[p] = role]
Placed(g, p, role, t, i) == [g EXCEPT !.role[p] = role, !.up[p] = t, !.ix[p] = i]

(* The pool begins at page 1. *)
LEMMA Pool ==
  /\ NPAGES \in Nat /\ NPAGES >= 1 /\ NPAGES \in NFREE /\ \A k \in NFREE : k <= NPAGES
  /\ KFRAME = NPAGES + 1 /\ Page = 1 .. NPAGES /\ 0 \notin Page
  /\ Page \subseteq 0 .. KFRAME /\ 0 \in 0 .. KFRAME
<1>1. NPAGES \in NFREE /\ \A k \in NFREE : k <= NPAGES
  BY VmAssumption DEF NPAGES
<1> QED BY <1>1, VmAssumption DEF KFRAME, Page

(* All indices of VPN_L are indices of a table. *)
LEMMA IndexRange == /\ 0 .. FAN - 1 \subseteq Index /\ 0 .. FAN2 - 1 \subseteq Index
                    /\ FAN2 - 2 \in Index /\ Index \subseteq Nat
  BY Sizes DEF Index

(* Types of empty entries and tables. *)
LEMMA NoPteType == NoPte \in Pte /\ Zero \in [Index -> Pte] /\ \A i \in Index : Zero[i] = NoPte
  BY Pool DEF NoPte, Pte, Zero, Kind

(* Types of entries. *)
LEMMA PteFacts ==
  ASSUME NEW pa \in 0 .. KFRAME, NEW kind \in Kind
  PROVE  /\ [pa |-> pa, kind |-> kind] \in Pte
         /\ kind # "none" => [pa |-> pa, kind |-> kind] # NoPte
  BY DEF Pte, NoPte

(* What Write changes, and what it does not. *)
LEMMA WriteIs ==
  ASSUME NEW m \in Memory, NEW p \in Page, NEW i \in Index, NEW pte \in Pte,
         NEW n, n = Write(m, [table |-> p, index |-> i], pte)
  PROVE  /\ n \in Memory /\ n.free = m.free /\ n.panic = m.panic
         /\ n.pt[p][i] = pte
         /\ \A q \in Page, j \in Index : q # p \/ j # i => n.pt[q][j] = m.pt[q][j]
<1>1. n.pt = [m.pt EXCEPT ![p] = [m.pt[p] EXCEPT ![i] = pte]]
  BY DEF Write, Memory
<1> QED BY <1>1 DEF Write, Memory

(* Types of roles and of entries to pages of a tree. *)
LEMMA Roles ==
  /\ \A role \in Inner : Lower(role) \in {"mid", "low", "data"} /\ Lower(role) \in Role
  /\ \A role \in Inner, pa \in Page : Link(role, pa) \in Pte /\ Link(role, pa) # NoPte /\ Link(role, pa).pa = pa
  BY Pool DEF Inner, Lower, Link, Role, Pte, NoPte, Kind

(* An entry points to one page. *)
LEMMA LinkOnly ==
  \A role, pa, qa : Link(role, pa) = Link(role, qa) => pa = qa
  BY DEF Link

(* What Placed changes, and what it does not. *)
LEMMA PlacedIs ==
  ASSUME NEW g \in Ghost, NEW t \in Page, NEW role \in Role, NEW p \in Page, NEW i \in Index,
         NEW h, h = Placed(g, t, role, p, i)
  PROVE  /\ h \in Ghost /\ h.role[t] = role /\ h.up[t] = p /\ h.ix[t] = i
         /\ \A q \in Page : q # t => h.role[q] = g.role[q] /\ h.up[q] = g.up[q] /\ h.ix[q] = g.ix[q]
  BY DEF Placed, Ghost

(* A page in hand is put below a table. *)
LEMMA Graft ==
  ASSUME NEW m, NEW g, Shape(m, g), NEW t \in Page, g.role[t] = "held",
         NEW p \in Page, NEW i \in Index, g.role[p] \in Inner, m.pt[p][i] = NoPte,
         g.role[p] # "low" => m.pt[t] = Zero,
         NEW n, n = Write(m, [table |-> p, index |-> i], Link(g.role[p], t)),
         NEW h, h = Placed(g, t, Lower(g.role[p]), p, i)
  PROVE  Shape(n, h)
<1>1. g \in Ghost /\ m \in Memory
  BY DEF Shape
<1>2. /\ h \in Ghost /\ h.role[t] = Lower(g.role[p]) /\ h.up[t] = p /\ h.ix[t] = i
      /\ \A q \in Page : q # t => h.role[q] = g.role[q] /\ h.up[q] = g.up[q] /\ h.ix[q] = g.ix[q]
  BY <1>1, PlacedIs, Roles
<1>3. /\ n \in Memory /\ n.free = m.free /\ n.pt[p][i] = Link(g.role[p], t)
      /\ \A q \in Page, j \in Index : q # p \/ j # i => n.pt[q][j] = m.pt[q][j]
  BY WriteIs, Roles, <1>1
<1>4. p # t /\ (g.role[p] # "low" => \A j \in Index : n.pt[t][j] = NoPte)
  BY <1>3, NoPteType DEF Inner
<1>5. DownShape(n, h)
  <2> SUFFICES ASSUME NEW q \in Page, NEW j \in Index, h.role[q] \in Inner
               PROVE  Loose(h.role[q], q, j, n.pt[q][j]) \/ Owning(h, q, j, n.pt[q][j])
    BY DEF DownShape
  <2>1. CASE q = t
    BY <2>1, <1>2, <1>4 DEF Loose, Lower, Inner
  <2>2. CASE q = p /\ j = i
    <3>1. n.pt[q][j] = Link(g.role[p], t) /\ h.role[q] = g.role[p]
      BY <2>2, <1>2, <1>3, <1>4
    <3>2. n.pt[q][j].pa = t
      BY <3>1, Roles
    <3> QED BY ONLY <3>1, <3>2, <2>2, <1>2, t \in Page DEF Owning
  <2>3. CASE q # t /\ ~(q = p /\ j = i)
    <3>1. h.role[q] = g.role[q] /\ n.pt[q][j] = m.pt[q][j] /\ g.role[q] \in Inner
      BY <2>3, <1>2, <1>3
    <3>2. Loose(g.role[q], q, j, m.pt[q][j]) \/ Owning(g, q, j, m.pt[q][j])
      BY <3>1 DEF Shape, DownShape
    <3>3. Owning(g, q, j, m.pt[q][j]) => m.pt[q][j].pa # t
      BY <3>1, Roles DEF Owning
    <3> QED BY <3>1, <3>2, <3>3, <1>2, ZenonT(30) DEF Owning
  <2> QED BY <2>1, <2>2, <2>3
<1>6. UpShape(n, h)
  <2> SUFFICES ASSUME NEW q \in Page, h.role[q] \in {"mid", "low", "data"}
               PROVE  /\ h.role[h.up[q]] \in Inner
                      /\ h.role[q] = Lower(h.role[h.up[q]])
                      /\ n.pt[h.up[q]][h.ix[q]] = Link(h.role[h.up[q]], q)
    BY DEF UpShape
  <2>1. CASE q = t
    BY <2>1, <1>2, <1>3, <1>4
  <2>2. CASE q # t
    <3>1. /\ g.role[g.up[q]] \in Inner
          /\ g.role[q] = Lower(g.role[g.up[q]])
          /\ m.pt[g.up[q]][g.ix[q]] = Link(g.role[g.up[q]], q)
      BY <2>2, <1>2 DEF Shape, UpShape
    <3>2. g.up[q] \in Page /\ g.ix[q] \in Index
      BY <1>1 DEF Ghost
    <3>3. g.up[q] # t /\ ~(g.up[q] = p /\ g.ix[q] = i)
      BY <3>1, <3>2, Roles DEF Inner
    <3>4. PICK u, j : u = g.up[q] /\ j = g.ix[q]
      OBVIOUS
    <3>5. h.up[q] = u /\ h.ix[q] = j /\ h.role[q] = g.role[q]
      BY ONLY <2>2, <3>4, <1>2, q \in Page
    <3>6. h.role[u] = g.role[u]
      BY ONLY <3>2, <3>3, <3>4, <1>2
    <3>7. n.pt[u][j] = m.pt[u][j]
      BY ONLY <3>2, <3>3, <3>4, <1>3
    <3> QED BY ONLY <3>1, <3>4, <3>5, <3>6, <3>7
  <2> QED BY <2>1, <2>2
<1>7. \A q \in Page : h.role[q] = "free" <=> q \in n.free
  BY <1>2, <1>3, Roles DEF Shape
<1> QED BY <1>2, <1>3, <1>5, <1>6, <1>7 DEF Shape

(* The tables on the way to an entry. *)
LEMMA PathMid ==
  ASSUME NEW m, NEW g, Shape(m, g), NEW r \in Page, g.role[r] = "root", NEW a \in Index,
         m.pt[r][a].kind # "user", m.pt[r][a] # NoPte
  PROVE  /\ m.pt[r][a].pa \in Page /\ g.role[m.pt[r][a].pa] = "mid"
         /\ g.up[m.pt[r][a].pa] = r /\ g.ix[m.pt[r][a].pa] = a
         /\ m.pt[r][a].kind = "table"
<1>1. Loose(g.role[r], r, a, m.pt[r][a]) \/ Owning(g, r, a, m.pt[r][a])
  BY DEF Shape, DownShape, Inner
<1>2. ~Loose(g.role[r], r, a, m.pt[r][a])
  BY DEF Loose, UserAt
<1> QED BY <1>1, <1>2 DEF Owning, Lower, Link

(* An entry of a table of level 1 points to a table of level 0. *)
LEMMA PathLow ==
  ASSUME NEW m, NEW g, Shape(m, g), NEW q \in Page, g.role[q] = "mid", NEW b \in Index,
         m.pt[q][b] # NoPte
  PROVE  /\ m.pt[q][b].pa \in Page /\ g.role[m.pt[q][b].pa] = "low"
         /\ g.up[m.pt[q][b].pa] = q /\ g.ix[m.pt[q][b].pa] = b
         /\ m.pt[q][b].kind = "table"
<1>1. Owning(g, q, b, m.pt[q][b])
  BY DEF Shape, DownShape, Loose, Inner, UserAt
<1> QED BY <1>1 DEF Owning, Lower, Link, TableAt

(* The two lemmas, for whom only the pages matter. *)
LEMMA AtMid ==
  ASSUME NEW m, NEW g, Shape(m, g), NEW r \in Page, g.role[r] = "root", NEW a \in Index,
         m.pt[r][a].kind # "user", m.pt[r][a] # NoPte
  PROVE  MidAt(m, g, r, a)
  BY PathMid DEF MidAt

LEMMA AtLow ==
  ASSUME NEW m, NEW g, Shape(m, g), NEW q \in Page, g.role[q] = "mid", NEW b \in Index,
         m.pt[q][b] # NoPte
  PROVE  LowAt(m, g, q, b)
  BY PathLow DEF LowAt

(* Pages that are not tables do not matter. *)
LEMMA SameTables ==
  ASSUME NEW m, NEW g, Shape(m, g), NEW n,
         \A q \in Page, j \in Index : g.role[q] \in Inner => n.pt[q][j] = m.pt[q][j]
  PROVE  Same(m.pt, n.pt, g)
<1>1. SelfSame(m.pt, n.pt, g)
  BY DEF SelfSame, Inner
<1>2. ASSUME NEW r \in Page, NEW a \in Index, NEW b \in Index, NEW c \in Index,
             g.role[r] = "root", m.pt[r][a].kind # "user"
      PROVE  Ent(n.pt, r, a, b, c) = Ent(m.pt, r, a, b, c)
  <2>1. n.pt[r][a] = m.pt[r][a]
    BY <1>2 DEF Inner
  <2>2. CASE m.pt[r][a] = NoPte
    BY <2>1, <2>2 DEF Ent
  <2>3. CASE m.pt[r][a] # NoPte
    <3> DEFINE q == m.pt[r][a].pa
    <3>1. q \in Page /\ g.role[q] = "mid"
      BY <1>2, <2>3, PathMid
    <3>2. n.pt[q][b] = m.pt[q][b]
      BY <3>1 DEF Inner
    <3>3. m.pt[q][b] # NoPte => n.pt[m.pt[q][b].pa][c] = m.pt[m.pt[q][b].pa][c]
      <4>1. SUFFICES ASSUME m.pt[q][b] # NoPte PROVE n.pt[m.pt[q][b].pa][c] = m.pt[m.pt[q][b].pa][c]
        OBVIOUS
      <4>2. m.pt[q][b].pa \in Page /\ g.role[m.pt[q][b].pa] = "low"
        <5>1. LowAt(m, g, q, b)
          BY <3>1, <4>1, AtLow
        <5> QED BY <5>1 DEF LowAt
      <4> QED BY <4>2 DEF Inner
    <3> QED BY <2>1, <3>2, <3>3 DEF Ent
  <2> QED BY <2>2, <2>3
<1> QED BY <1>1, <1>2 DEF Same

(* A new table below a table maps nothing. *)
LEMMA GraftSame ==
  ASSUME NEW m, NEW g, Shape(m, g), NEW t \in Page, g.role[t] = "held", m.pt[t] = Zero,
         NEW p \in Page, NEW i \in Index, g.role[p] \in {"root", "mid"}, m.pt[p][i] = NoPte,
         NEW n, n = Write(m, [table |-> p, index |-> i], Link(g.role[p], t))
  PROVE  Same(m.pt, n.pt, g)
<1>1. g \in Ghost /\ m \in Memory
  BY DEF Shape
<1>3. /\ n.pt[p][i] = Link(g.role[p], t)
      /\ \A q \in Page, j \in Index : q # p \/ j # i => n.pt[q][j] = m.pt[q][j]
  <2>1. Link(g.role[p], t) \in Pte
    BY Roles DEF Inner
  <2> QED BY WriteIs, <2>1, <1>1
<1>4. p # t /\ \A j \in Index : n.pt[t][j] = NoPte
  BY <1>3, NoPteType
<1>5. n.pt[p][i] = TableAt(t) /\ n.pt[p][i] # NoPte /\ n.pt[p][i].pa = t /\ n.pt[p][i].kind = "table"
  BY <1>3, Roles DEF Link, TableAt, NoPte
<1>6. SelfSame(m.pt, n.pt, g)
  BY <1>3, <1>5 DEF SelfSame, NoPte
<1>2. ASSUME NEW r \in Page, NEW a \in Index, NEW b \in Index, NEW c \in Index,
             g.role[r] = "root", m.pt[r][a].kind # "user"
      PROVE  Ent(n.pt, r, a, b, c) = Ent(m.pt, r, a, b, c)
  <2>1. CASE m.pt[r][a] = NoPte
    <3>1. n.pt[r][a] = NoPte \/ n.pt[r][a].pa = t
      BY <2>1, <1>3, <1>5
    <3> QED BY <2>1, <3>1, <1>4 DEF Ent
  <2>2. CASE m.pt[r][a] # NoPte
    <3> DEFINE q == m.pt[r][a].pa
    <3>0. q \in Page /\ g.role[q] = "mid"
      BY <1>2, <2>2, PathMid
    <3>1. q \in Page /\ g.role[q] = "mid" /\ n.pt[r][a] = m.pt[r][a]
      BY <3>0, <1>3, <2>2
    <3>2. CASE m.pt[q][b] = NoPte
      <4>1. n.pt[q][b] = NoPte \/ n.pt[q][b].pa = t
        BY <3>1, <3>2, <1>3, <1>5
      <4> QED BY <3>1, <3>2, <4>1, <1>4 DEF Ent
    <3>3. CASE m.pt[q][b] # NoPte
      <4>0. m.pt[q][b].pa \in Page /\ g.role[m.pt[q][b].pa] = "low"
        <5>1. LowAt(m, g, q, b)
          BY <3>1, <3>3, AtLow
        <5> QED BY <5>1 DEF LowAt
      <4>1. m.pt[q][b].pa \in Page /\ g.role[m.pt[q][b].pa] = "low" /\ n.pt[q][b] = m.pt[q][b]
        BY <4>0, <3>1, <3>3, <1>3
      <4>2. n.pt[m.pt[q][b].pa][c] = m.pt[m.pt[q][b].pa][c]
        BY <4>1, <1>3
      <4> QED BY <2>2, <3>1, <3>3, <4>1, <4>2 DEF Ent
    <3> QED BY <3>2, <3>3
  <2> QED BY <2>1, <2>2
<1> QED BY <1>2, <1>6 DEF Same

(* The path a, b leads from r by way of q to p. *)
OnPath(g, r, a, b, q, p) ==
  /\ r \in Page /\ q \in Page /\ p \in Page
  /\ g.role[r] = "root" /\ g.role[q] = "mid" /\ g.role[p] = "low"
  /\ g.up[q] = r /\ g.ix[q] = a /\ g.up[p] = q /\ g.ix[p] = b

(* Of the tables only the entry c of p changes. *)
OnlyAt(m, n, g, p, c) ==
  \A q \in Page, j \in Index :
    g.role[q] \in Inner /\ (q # p \/ j # c) => n.pt[q][j] = m.pt[q][j]

(* An entry of the last level belongs to one page of one address space. *)
LEMMA LowSame ==
  ASSUME NEW m, NEW g, Shape(m, g), NEW n, NEW r0, NEW a0 \in Index, NEW b0 \in Index, NEW c0 \in Index,
         NEW q0, NEW p, OnPath(g, r0, a0, b0, q0, p), OnlyAt(m, n, g, p, c0),
         NEW pte, n.pt[p][c0] = pte
  PROVE  SameBut(m.pt, n.pt, g, r0, a0, b0, c0, pte)
<1>0. \A q \in Page, b \in Index : g.role[q] = "mid" /\ m.pt[q][b] # NoPte =>
        /\ m.pt[q][b].pa \in Page /\ g.role[m.pt[q][b].pa] = "low"
        /\ g.up[m.pt[q][b].pa] = q /\ g.ix[m.pt[q][b].pa] = b
  BY PathLow
<1>1. /\ g.role[q0] = "mid" /\ g.up[q0] = r0 /\ g.ix[q0] = a0
      /\ g.role[p] = "low" /\ g.up[p] = q0 /\ g.ix[p] = b0
      /\ r0 \in Page /\ q0 \in Page /\ p \in Page /\ g.role[r0] = "root"
  BY DEF OnPath
<1>4. m.pt[r0][a0] # NoPte /\ m.pt[r0][a0].pa = q0 /\ m.pt[q0][b0] # NoPte /\ m.pt[q0][b0].pa = p
  <2>1. m.pt[r0][a0] = Link("root", q0) /\ m.pt[q0][b0] = Link("mid", p)
    BY <1>1 DEF Shape, UpShape
  <2> QED BY <2>1, <1>1, Roles DEF Inner
<1>2. SelfSame(m.pt, n.pt, g)
  BY <1>1 DEF SelfSame, Inner, OnlyAt
<1>3. ASSUME NEW r \in Page, NEW a \in Index, NEW b \in Index, NEW c \in Index,
             g.role[r] = "root", m.pt[r][a].kind # "user"
      PROVE  Ent(n.pt, r, a, b, c) =
               IF r = r0 /\ a = a0 /\ b = b0 /\ c = c0 THEN pte ELSE Ent(m.pt, r, a, b, c)
  <2>1. n.pt[r][a] = m.pt[r][a]
    BY <1>1, <1>3 DEF Inner, OnlyAt
  <2>2. CASE m.pt[r][a] = NoPte
    <3>1. ~(r = r0 /\ a = a0)
      BY <2>2, <1>4
    <3> QED BY <2>1, <2>2, <3>1 DEF Ent
  <2>3. CASE m.pt[r][a] # NoPte
    <3>1. PICK q \in Page : q = m.pt[r][a].pa /\ g.role[q] = "mid" /\ g.up[q] = r /\ g.ix[q] = a
      BY <1>3, <2>3, PathMid
    <3>2. n.pt[q][b] = m.pt[q][b]
      BY <3>1, <1>1 DEF Inner, OnlyAt
    <3>4. q = q0 => r = r0 /\ a = a0
      BY <3>1, <1>1
    <3>5. CASE m.pt[q][b] = NoPte
      <4>1. ~(r = r0 /\ a = a0 /\ b = b0)
        BY <3>1, <3>5, <1>4
      <4>2. Ent(n.pt, r, a, b, c) = NoPte /\ Ent(m.pt, r, a, b, c) = NoPte
        BY <2>1, <2>3, <3>1, <3>2, <3>5 DEF Ent
      <4> QED BY <4>1, <4>2
    <3>6. CASE m.pt[q][b] # NoPte
      <4>1. PICK s \in Page : s = m.pt[q][b].pa /\ g.role[s] = "low" /\ g.up[s] = q /\ g.ix[s] = b
        <5>1. q \in Page /\ b \in Index /\ g.role[q] = "mid" /\ m.pt[q][b] # NoPte
          BY <3>1, <3>6
        <5> QED BY ONLY <5>1, <1>0
      <4>2. s = p <=> r = r0 /\ a = a0 /\ b = b0
        <5>1. s = p => q = q0 /\ b = b0
          BY ONLY <4>1, <1>1
        <5>2. r = r0 /\ a = a0 => q = q0
          BY <3>1, <1>4
        <5>3. q = q0 /\ b = b0 => s = p
          BY ONLY <4>1, <1>4
        <5> QED BY ONLY <5>1, <5>2, <5>3, <3>4
      <4>3. Ent(n.pt, r, a, b, c) = n.pt[s][c] /\ Ent(m.pt, r, a, b, c) = m.pt[s][c]
        BY <2>1, <2>3, <3>1, <3>2, <3>6, <4>1 DEF Ent
      <4>4. n.pt[s][c] = IF s = p /\ c = c0 THEN pte ELSE m.pt[s][c]
        BY <4>1 DEF Inner, OnlyAt
      <4> QED BY <4>2, <4>3, <4>4
    <3> QED BY <3>5, <3>6
  <2> QED BY <2>2, <2>3
<1> QED BY <1>2, <1>3 DEF SameBut

-----------------------------------------------------------------------------
(* kalloc and kfree. *)

(* The roles of pages that are part of a tree. *)
Tree == {"root", "mid", "low", "data"}

(* Types of roles of a tree. *)
LEMMA TreeRoles ==
  /\ \A role \in Inner : role \in Tree /\ Lower(role) \in Tree /\ role \in Role
  /\ \A role \in {"mid", "low", "data"} : role \in Tree
  /\ \A role \in Tree : role # "free" /\ role # "held"
  BY DEF Inner, Tree, Lower, Role

(* What Given changes, and what it does not. *)
LEMMA GivenIs ==
  ASSUME NEW g \in Ghost, NEW t \in Page, NEW role \in Role, NEW h, h = Given(g, t, role)
  PROVE  /\ h \in Ghost /\ h.role[t] = role /\ h.up = g.up /\ h.ix = g.ix
         /\ \A q \in Page : q # t => h.role[q] = g.role[q]
  BY DEF Given, Ghost

(* What is not part of a tree may change. *)
LEMMA Outside ==
  ASSUME NEW m, NEW g, Shape(m, g), NEW n \in Memory, NEW h \in Ghost,
         \A q \in Page : g.role[q] \in Tree => h.role[q] = g.role[q] /\ h.up[q] = g.up[q] /\ h.ix[q] = g.ix[q],
         \A q \in Page : g.role[q] \notin Tree => h.role[q] \notin Tree,
         \A q \in Page, j \in Index : g.role[q] \in Inner => n.pt[q][j] = m.pt[q][j],
         \A q \in Page : h.role[q] = "free" <=> q \in n.free
  PROVE  Shape(n, h) /\ Same(m.pt, n.pt, g)
<1>1. Same(m.pt, n.pt, g)
  BY SameTables
<1>0. g \in Ghost
  BY DEF Shape
<1>2. DownShape(n, h)
  <2> SUFFICES ASSUME NEW q \in Page, NEW j \in Index, h.role[q] \in Inner
               PROVE  Loose(h.role[q], q, j, n.pt[q][j]) \/ Owning(h, q, j, n.pt[q][j])
    BY DEF DownShape
  <2>1. h.role[q] = g.role[q] /\ g.role[q] \in Inner /\ n.pt[q][j] = m.pt[q][j]
    BY TreeRoles
  <2>2. Loose(g.role[q], q, j, m.pt[q][j]) \/ Owning(g, q, j, m.pt[q][j])
    BY <2>1 DEF Shape, DownShape
  <2>3. Owning(g, q, j, m.pt[q][j]) => Owning(h, q, j, m.pt[q][j])
    BY <2>1, TreeRoles DEF Owning
  <2> QED BY <2>1, <2>2, <2>3
<1>3. UpShape(n, h)
  <2> SUFFICES ASSUME NEW q \in Page, h.role[q] \in {"mid", "low", "data"}
               PROVE  /\ h.role[h.up[q]] \in Inner
                      /\ h.role[q] = Lower(h.role[h.up[q]])
                      /\ n.pt[h.up[q]][h.ix[q]] = Link(h.role[h.up[q]], q)
    BY DEF UpShape
  <2>1. h.role[q] = g.role[q] /\ h.up[q] = g.up[q] /\ h.ix[q] = g.ix[q]
    BY TreeRoles
  <2>2. /\ g.role[g.up[q]] \in Inner
        /\ g.role[q] = Lower(g.role[g.up[q]])
        /\ m.pt[g.up[q]][g.ix[q]] = Link(g.role[g.up[q]], q)
    BY <2>1 DEF Shape, UpShape
  <2>3. g.up[q] \in Page /\ g.ix[q] \in Index
    BY <1>0 DEF Ghost
  <2>4. h.role[g.up[q]] = g.role[g.up[q]]
    BY <2>2, <2>3, TreeRoles
  <2> QED BY <2>1, <2>2, <2>3, <2>4
<1> QED BY <1>1, <1>2, <1>3 DEF Shape

(* Min of the community modules, for the pool. *)
LEMMA LeastFree ==
  ASSUME NEW S \in SUBSET Page, S # {}
  PROVE  Min(S) \in S
<1>1. \E x \in S : \A y \in S : x <= y
  <2>1. S \subseteq Nat
    BY Pool
  <2> QED BY <2>1, Least
<1> QED BY <1>1 DEF Min

(* kalloc with a free page: it is held by the caller, no table changes. *)
LEMMA KallocIs ==
  ASSUME NEW m, NEW g, Shape(m, g), NEW x, x = kalloc(m), m.free # {}
  PROVE  /\ x.pa \in Page /\ g.role[x.pa] = "free"
         /\ Shape(x.m, Given(g, x.pa, "held")) /\ Same(m.pt, x.m.pt, g)
         /\ x.m.pt[x.pa] = Zero /\ x.m.panic = m.panic
         /\ \A q \in Page : q # x.pa => x.m.pt[q] = m.pt[q]
<1>1. m \in Memory /\ g \in Ghost /\ m.free \in SUBSET Page
  BY DEF Shape, Memory
<1>2. PICK page \in m.free : page = Min(m.free)
  BY <1>1, LeastFree
<1>3. x = [m |-> [m EXCEPT !.free = @ \ {page}, !.pt[page] = Zero], pa |-> page]
  BY <1>2 DEF kalloc
<1>4. /\ x.m \in Memory /\ x.pa = page /\ x.m.free = m.free \ {page} /\ x.m.pt[page] = Zero
      /\ x.m.panic = m.panic
      /\ \A q \in Page : q # page => x.m.pt[q] = m.pt[q]
  <2>1. x.pa = page /\ x.m = [m EXCEPT !.free = m.free \ {page}, !.pt = [m.pt EXCEPT ![page] = Zero]]
    BY <1>3, <1>1 DEF Memory
  <2>2. PICK n : n = [m EXCEPT !.free = m.free \ {page}, !.pt = [m.pt EXCEPT ![page] = Zero]]
    OBVIOUS
  <2>3. n \in Memory /\ n.free = m.free \ {page} /\ n.pt = [m.pt EXCEPT ![page] = Zero] /\ n.panic = m.panic
    BY ONLY <2>2, <1>1, <1>2, NoPteType DEF Memory
  <2>4. n.pt[page] = Zero /\ \A q \in Page : q # page => n.pt[q] = m.pt[q]
    BY ONLY <2>3, <1>1, <1>2 DEF Memory
  <2>5. x.m = n
    BY <2>1, <2>2
  <2> QED BY ONLY <2>1, <2>3, <2>4, <2>5
<1>5. page \in Page /\ g.role[page] = "free"
  BY <1>1 DEF Shape
<1>6. PICK h : h = Given(g, page, "held")
  OBVIOUS
<1>7. /\ h \in Ghost /\ h.role[page] = "held" /\ h.up = g.up /\ h.ix = g.ix
      /\ \A q \in Page : q # page => h.role[q] = g.role[q]
  <2>1. "held" \in Role
    BY DEF Role
  <2> QED BY ONLY <2>1, <1>1, <1>5, <1>6, GivenIs
<1>8. /\ \A q \in Page : g.role[q] \in Tree => h.role[q] = g.role[q] /\ h.up[q] = g.up[q] /\ h.ix[q] = g.ix[q]
      /\ \A q \in Page : g.role[q] \notin Tree => h.role[q] \notin Tree
  BY <1>5, <1>7, TreeRoles
<1>9. \A q \in Page, j \in Index : g.role[q] \in Inner => x.m.pt[q][j] = m.pt[q][j]
  BY <1>4, <1>5, TreeRoles
<1>10. \A q \in Page : h.role[q] = "free" <=> q \in x.m.free
  BY <1>4, <1>5, <1>7 DEF Shape
<1>11. Shape(x.m, h) /\ Same(m.pt, x.m.pt, g)
  BY <1>4, <1>7, <1>8, <1>9, <1>10, Outside
<1> QED BY <1>4, <1>5, <1>6, <1>11

(* kalloc without one. *)
LEMMA KallocNone ==
  ASSUME NEW m, NEW x, x = kalloc(m), m.free = {}
  PROVE  x.pa = 0 /\ x.m = m
  BY DEF kalloc, NULL

(* A panic keeps the type of memory. *)
LEMMA StopIs ==
  ASSUME NEW m \in Memory, NEW who \in Who, who # "no"
  PROVE  Stop(m, who) \in Memory /\ ~Up(Stop(m, who))
  BY DEF Stop, Up, Memory

(* What kfree changes, and what it does not. *)
LEMMA KfreeIs ==
  ASSUME NEW m \in Memory, NEW pa \in Page, NEW n, n = kfree(m, pa)
  PROVE  /\ n \in Memory /\ n.free = m.free \cup {pa} /\ n.panic = m.panic
         /\ n.pt[pa] = Zero /\ \A q \in Page : q # pa => n.pt[q] = m.pt[q]
<1>1. PICK k : k = [m EXCEPT !.free = m.free \cup {pa}, !.pt = [m.pt EXCEPT ![pa] = Zero]]
  OBVIOUS
<1>2. n = k
  BY <1>1 DEF kfree, Memory
<1>3. k \in Memory /\ k.free = m.free \cup {pa} /\ k.pt = [m.pt EXCEPT ![pa] = Zero] /\ k.panic = m.panic
  BY <1>1, NoPteType DEF Memory
<1>4. k.pt[pa] = Zero /\ \A q \in Page : q # pa => k.pt[q] = m.pt[q]
  BY <1>3 DEF Memory
<1> QED BY ONLY <1>2, <1>3, <1>4

(* A page in hand is given back. *)
LEMMA KfreeHeld ==
  ASSUME NEW m, NEW g, Shape(m, g), NEW pa \in Page, g.role[pa] = "held", NEW n, n = kfree(m, pa)
  PROVE  Shape(n, Given(g, pa, "free")) /\ Same(m.pt, n.pt, g) /\ n.panic = m.panic
<1>1. m \in Memory /\ g \in Ghost
  BY DEF Shape
<1>2. /\ n \in Memory /\ n.free = m.free \cup {pa} /\ n.panic = m.panic
      /\ n.pt[pa] = Zero /\ \A q \in Page : q # pa => n.pt[q] = m.pt[q]
  BY <1>1, KfreeIs
<1>3. PICK h : h = Given(g, pa, "free")
  OBVIOUS
<1>4. /\ h \in Ghost /\ h.role[pa] = "free" /\ h.up = g.up /\ h.ix = g.ix
      /\ \A q \in Page : q # pa => h.role[q] = g.role[q]
  <2>1. "free" \in Role
    BY DEF Role
  <2> QED BY ONLY <2>1, <1>1, <1>3, pa \in Page, GivenIs
<1>5. /\ \A q \in Page : g.role[q] \in Tree => h.role[q] = g.role[q] /\ h.up[q] = g.up[q] /\ h.ix[q] = g.ix[q]
      /\ \A q \in Page : g.role[q] \notin Tree => h.role[q] \notin Tree
  BY <1>4, TreeRoles
<1>6. \A q \in Page, j \in Index : g.role[q] \in Inner => n.pt[q][j] = m.pt[q][j]
  BY <1>2, TreeRoles
<1>7. \A q \in Page : h.role[q] = "free" <=> q \in n.free
  BY <1>2, <1>4 DEF Shape
<1>8. Shape(n, h) /\ Same(m.pt, n.pt, g)
  BY <1>2, <1>4, <1>5, <1>6, <1>7, Outside
<1> QED BY <1>2, <1>3, <1>8

(* A page in hand becomes the page of an env, or is forgotten. *)
LEMMA Rename ==
  ASSUME NEW m, NEW g, Shape(m, g), NEW pa \in Page, g.role[pa] = "held", NEW role \in {"env", "lost"}
  PROVE  Shape(m, Given(g, pa, role))
<1>1. m \in Memory /\ g \in Ghost
  BY DEF Shape
<1>3. PICK h : h = Given(g, pa, role)
  OBVIOUS
<1>4. /\ h \in Ghost /\ h.role[pa] = role /\ h.up = g.up /\ h.ix = g.ix
      /\ \A q \in Page : q # pa => h.role[q] = g.role[q]
  <2>1. role \in Role
    BY DEF Role
  <2> QED BY ONLY <2>1, <1>1, <1>3, pa \in Page, GivenIs
<1>5. /\ \A q \in Page : g.role[q] \in Tree => h.role[q] = g.role[q] /\ h.up[q] = g.up[q] /\ h.ix[q] = g.ix[q]
      /\ \A q \in Page : g.role[q] \notin Tree => h.role[q] \notin Tree
  BY <1>4, TreeRoles DEF Tree
<1>7. \A q \in Page : h.role[q] = "free" <=> q \in m.free
  BY <1>4 DEF Shape
<1>8. Shape(m, h)
  BY <1>1, <1>4, <1>5, <1>7, Outside
<1> QED BY <1>3, <1>8

(* An empty page in hand becomes a root. *)
LEMMA NewRoot ==
  ASSUME NEW m, NEW g, Shape(m, g), NEW pa \in Page, g.role[pa] = "held", m.pt[pa] = Zero
  PROVE  Shape(m, Given(g, pa, "root"))
<1>1. m \in Memory /\ g \in Ghost
  BY DEF Shape
<1>3. PICK h : h = Given(g, pa, "root")
  OBVIOUS
<1>4. /\ h \in Ghost /\ h.role[pa] = "root" /\ h.up = g.up /\ h.ix = g.ix
      /\ \A q \in Page : q # pa => h.role[q] = g.role[q]
  <2>1. "root" \in Role
    BY DEF Role
  <2> QED BY ONLY <2>1, <1>1, <1>3, pa \in Page, GivenIs
<1>5. DownShape(m, h)
  <2> SUFFICES ASSUME NEW q \in Page, NEW j \in Index, h.role[q] \in Inner
               PROVE  Loose(h.role[q], q, j, m.pt[q][j]) \/ Owning(h, q, j, m.pt[q][j])
    BY DEF DownShape
  <2>1. CASE q = pa
    BY <2>1, NoPteType DEF Loose
  <2>2. CASE q # pa
    <3>1. h.role[q] = g.role[q] /\ g.role[q] \in Inner
      BY <2>2, <1>4
    <3>2. Loose(g.role[q], q, j, m.pt[q][j]) \/ Owning(g, q, j, m.pt[q][j])
      BY <3>1 DEF Shape, DownShape
    <3>3. Owning(g, q, j, m.pt[q][j]) => m.pt[q][j].pa # pa
      BY <3>1, Roles DEF Owning
    <3> QED BY <3>1, <3>2, <3>3, <1>4 DEF Owning
  <2> QED BY <2>1, <2>2
<1>6. UpShape(m, h)
  <2> SUFFICES ASSUME NEW q \in Page, h.role[q] \in {"mid", "low", "data"}
               PROVE  /\ h.role[h.up[q]] \in Inner
                      /\ h.role[q] = Lower(h.role[h.up[q]])
                      /\ m.pt[h.up[q]][h.ix[q]] = Link(h.role[h.up[q]], q)
    BY DEF UpShape
  <2>1. h.role[q] = g.role[q] /\ h.up[q] = g.up[q] /\ h.ix[q] = g.ix[q]
    BY <1>4
  <2>2. /\ g.role[g.up[q]] \in Inner
        /\ g.role[q] = Lower(g.role[g.up[q]])
        /\ m.pt[g.up[q]][g.ix[q]] = Link(g.role[g.up[q]], q)
    BY <2>1 DEF Shape, UpShape
  <2>3. g.up[q] \in Page /\ g.up[q] # pa
    BY <1>1, <2>2 DEF Ghost, Inner
  <2> QED BY <2>1, <2>2, <2>3, <1>4
<1>7. \A q \in Page : h.role[q] = "free" <=> q \in m.free
  BY <1>4 DEF Shape
<1> QED BY <1>1, <1>3, <1>4, <1>5, <1>6, <1>7 DEF Shape

(* An entry of the last level that owns no page is overwritten by another. *)
LEMMA PutLoose ==
  ASSUME NEW m, NEW g, Shape(m, g), NEW p \in Page, NEW i \in Index, g.role[p] = "low",
         Loose("low", p, i, m.pt[p][i]), NEW pte \in Pte, Loose("low", p, i, pte),
         NEW n, n = Write(m, [table |-> p, index |-> i], pte)
  PROVE  Shape(n, g)
<1>1. m \in Memory /\ g \in Ghost
  BY DEF Shape
<1>2. /\ n \in Memory /\ n.free = m.free /\ n.pt[p][i] = pte
      /\ \A q \in Page, j \in Index : q # p \/ j # i => n.pt[q][j] = m.pt[q][j]
  BY WriteIs, <1>1
<1>3. DownShape(n, g)
  <2> SUFFICES ASSUME NEW q \in Page, NEW j \in Index, g.role[q] \in Inner
               PROVE  Loose(g.role[q], q, j, n.pt[q][j]) \/ Owning(g, q, j, n.pt[q][j])
    BY DEF DownShape
  <2>1. Loose(g.role[q], q, j, m.pt[q][j]) \/ Owning(g, q, j, m.pt[q][j])
    BY DEF Shape, DownShape
  <2> QED BY <2>1, <1>2
<1>4. UpShape(n, g)
  <2> SUFFICES ASSUME NEW q \in Page, g.role[q] \in {"mid", "low", "data"}
               PROVE  /\ g.role[g.up[q]] \in Inner
                      /\ g.role[q] = Lower(g.role[g.up[q]])
                      /\ n.pt[g.up[q]][g.ix[q]] = Link(g.role[g.up[q]], q)
    BY DEF UpShape
  <2>2. /\ g.role[g.up[q]] \in Inner
        /\ g.role[q] = Lower(g.role[g.up[q]])
        /\ m.pt[g.up[q]][g.ix[q]] = Link(g.role[g.up[q]], q)
    BY DEF Shape, UpShape
  <2>3. g.up[q] \in Page /\ g.ix[q] \in Index
    BY <1>1 DEF Ghost
  <2>4. ~(g.up[q] = p /\ g.ix[q] = i)
    BY <2>2, Pool DEF Loose, Link, NoPte, UserAt
  <2> QED BY <2>2, <2>3, <2>4, <1>2
<1> QED BY <1>1, <1>2, <1>3, <1>4 DEF Shape

(* The page an entry of the last level owns is freed, the entry cleared. *)
LEMMA TakeOut ==
  ASSUME NEW m, NEW g, Shape(m, g), NEW p \in Page, NEW i \in Index, g.role[p] = "low",
         NEW t \in Page, Owning(g, p, i, m.pt[p][i]), m.pt[p][i].pa = t,
         NEW n \in Memory, n.free = m.free \cup {t}, n.pt[p][i] = NoPte,
         \A q \in Page, j \in Index : q # t /\ (q # p \/ j # i) => n.pt[q][j] = m.pt[q][j]
  PROVE  Shape(n, Given(g, t, "free"))
<1>1. m \in Memory /\ g \in Ghost
  BY DEF Shape
<1>2. g.role[t] = "data" /\ g.up[t] = p /\ g.ix[t] = i
  BY DEF Owning, Lower
<1>3. PICK h : h = Given(g, t, "free")
  OBVIOUS
<1>4. /\ h \in Ghost /\ h.role[t] = "free" /\ h.up = g.up /\ h.ix = g.ix
      /\ \A q \in Page : q # t => h.role[q] = g.role[q]
  <2>1. "free" \in Role
    BY DEF Role
  <2> QED BY ONLY <2>1, <1>1, <1>3, t \in Page, GivenIs
<1>5. DownShape(n, h)
  <2> SUFFICES ASSUME NEW q \in Page, NEW j \in Index, h.role[q] \in Inner
               PROVE  Loose(h.role[q], q, j, n.pt[q][j]) \/ Owning(h, q, j, n.pt[q][j])
    BY DEF DownShape
  <2>1. q # t /\ h.role[q] = g.role[q] /\ g.role[q] \in Inner
    BY <1>4 DEF Inner
  <2>2. CASE q = p /\ j = i
    BY <2>2 DEF Loose
  <2>3. CASE ~(q = p /\ j = i)
    <3>1. n.pt[q][j] = m.pt[q][j]
      BY <2>1, <2>3
    <3>2. Loose(g.role[q], q, j, m.pt[q][j]) \/ Owning(g, q, j, m.pt[q][j])
      BY <2>1 DEF Shape, DownShape
    <3>3. Owning(g, q, j, m.pt[q][j]) => m.pt[q][j].pa # t
      BY <2>3, <1>2 DEF Owning
    <3> QED BY <2>1, <3>1, <3>2, <3>3, <1>4 DEF Owning
  <2> QED BY <2>2, <2>3
<1>6. UpShape(n, h)
  <2> SUFFICES ASSUME NEW q \in Page, h.role[q] \in {"mid", "low", "data"}
               PROVE  /\ h.role[h.up[q]] \in Inner
                      /\ h.role[q] = Lower(h.role[h.up[q]])
                      /\ n.pt[h.up[q]][h.ix[q]] = Link(h.role[h.up[q]], q)
    BY DEF UpShape
  <2>1. q # t /\ h.role[q] = g.role[q] /\ h.up[q] = g.up[q] /\ h.ix[q] = g.ix[q]
    BY <1>4
  <2>2. /\ g.role[g.up[q]] \in Inner
        /\ g.role[q] = Lower(g.role[g.up[q]])
        /\ m.pt[g.up[q]][g.ix[q]] = Link(g.role[g.up[q]], q)
    BY <2>1 DEF Shape, UpShape
  <2>3. g.up[q] \in Page /\ g.up[q] # t /\ g.ix[q] \in Index
    BY <1>1, <1>2, <2>2 DEF Ghost, Inner
  <2>4. ~(g.up[q] = p /\ g.ix[q] = i)
    <3>1. m.pt[g.up[q]][g.ix[q]].pa = q
      BY <2>2, Roles
    <3> QED BY <3>1, <2>1
  <2> QED BY <2>1, <2>2, <2>3, <2>4, <1>4
<1>7. \A q \in Page : h.role[q] = "free" <=> q \in n.free
  BY <1>4 DEF Shape
<1> QED BY <1>3, <1>4, <1>5, <1>6, <1>7 DEF Shape

-----------------------------------------------------------------------------
(* walk. *)

(* Same is transitive. *)
LEMMA SameTrans ==
  ASSUME NEW p, NEW q, NEW s, NEW g, NEW h, Same(p, q, g), Same(q, s, h),
         \A r \in Page : g.role[r] = "root" => h.role[r] = "root"
  PROVE  Same(p, s, g)
<1>1. SelfSame(p, s, g)
  BY DEF Same, SelfSame
<1>2. ASSUME NEW r \in Page, NEW a \in Index, NEW b \in Index, NEW c \in Index,
             g.role[r] = "root", p[r][a].kind # "user"
      PROVE  Ent(s, r, a, b, c) = Ent(p, r, a, b, c)
  <2>1. h.role[r] = "root" /\ q[r][a].kind # "user"
    BY <1>2 DEF Same, SelfSame
  <2>2. Ent(q, r, a, b, c) = Ent(p, r, a, b, c)
    BY <1>2 DEF Same
  <2>3. Ent(s, r, a, b, c) = Ent(q, r, a, b, c)
    BY <2>1 DEF Same
  <2> QED BY <2>2, <2>3
<1> QED BY <1>1, <1>2 DEF Same

(* Same is reflexive. *)
LEMMA SameSelf ==
  ASSUME NEW p, NEW g
  PROVE  Same(p, p, g)
  BY DEF Same, SelfSame

(* Ext is reflexive. *)
LEMMA ExtSelf ==
  ASSUME NEW g
  PROVE  Ext(g, g)
  BY DEF Ext

(* Ext is transitive. *)
LEMMA ExtTrans ==
  ASSUME NEW g, NEW h, NEW k, Ext(g, h), Ext(h, k)
  PROVE  Ext(g, k)
  BY DEF Ext

(* Ext keeps the roots. *)
LEMMA ExtRoots ==
  ASSUME NEW g, NEW h, Ext(g, h)
  PROVE  \A r \in Page : h.role[r] = "root" <=> g.role[r] = "root"
  BY DEF Ext

(* The fields of LinkTable. *)
LEMMA LinkTableIs ==
  ASSUME NEW x, NEW slot
  PROVE  /\ LinkTable(x, slot).table = x.pa
         /\ x.pa = 0 => LinkTable(x, slot).m = x.m
         /\ x.pa # 0 => LinkTable(x, slot).m = Write(x.m, slot, TableAt(x.pa))
  BY DEF LinkTable, NULL

(* One round of walk's loop with alloc set. *)
NextTable(m, p, i) == Follow([m |-> m, table |-> p], [table |-> p, index |-> i], TRUE)

(* One round of walk: the table below p, made if there is none. *)
LEMMA DownStep ==
  ASSUME NEW m, NEW g, Shape(m, g), NEW p \in Page, g.role[p] \in {"root", "mid"}, NEW i \in Index,
         m.pt[p][i].kind # "user",
         NEW w, w = NextTable(m, p, i)
  PROVE  \E h : /\ Shape(w.m, h) /\ Ext(g, h) /\ Same(m.pt, w.m.pt, g) /\ w.m.panic = m.panic
                /\ \/ w.table = 0
                   \/ /\ w.table \in Page /\ h.role[w.table] = Lower(g.role[p])
                      /\ w.m.pt[p][i] # NoPte /\ w.m.pt[p][i].pa = w.table
<1>1. CASE m.pt[p][i] # NoPte
  <2>1. w.m = m /\ w.table = m.pt[p][i].pa
    BY <1>1 DEF NextTable, Follow
  <2>2. m.pt[p][i].pa \in Page /\ g.role[m.pt[p][i].pa] = Lower(g.role[p])
    <3>1. CASE g.role[p] = "root"
      <4>1. m.pt[p][i].pa \in Page /\ g.role[m.pt[p][i].pa] = "mid"
        BY <1>1, <3>1, PathMid
      <4> QED BY <3>1, <4>1 DEF Lower
    <3>2. CASE g.role[p] = "mid"
      <4>1. m.pt[p][i].pa \in Page /\ g.role[m.pt[p][i].pa] = "low"
        BY <1>1, <3>2, PathLow
      <4> QED BY <3>2, <4>1 DEF Lower
    <3> QED BY <3>1, <3>2
  <2>3. Ext(g, g) /\ Same(m.pt, m.pt, g)
    BY ExtSelf, SameSelf
  <2> WITNESS g
  <2> QED BY <1>1, <2>1, <2>2, <2>3
<1>2. ASSUME m.pt[p][i] = NoPte, m.free = {}
      PROVE  w.m = m /\ w.table = 0
  <2>1. PICK x : x = kalloc(m)
    OBVIOUS
  <2>2. x.pa = 0 /\ x.m = m
    BY <1>2, <2>1, KallocNone
  <2>3. w = LinkTable(x, [table |-> p, index |-> i])
    BY <1>2, <2>1 DEF NextTable, Follow
  <2> QED BY ONLY <2>2, <2>3, LinkTableIs
<1>3. CASE m.pt[p][i] = NoPte /\ m.free = {}
  <2>1. w.m = m /\ w.table = 0
    BY <1>2, <1>3
  <2>3. Ext(g, g) /\ Same(m.pt, m.pt, g)
    BY ExtSelf, SameSelf
  <2> WITNESS g
  <2> QED BY <2>1, <2>3
<1>4. CASE m.pt[p][i] = NoPte /\ m.free # {}
  <2>1. PICK x : x = kalloc(m)
    OBVIOUS
  <2>2. PICK t : t = x.pa
    OBVIOUS
  <2>3. PICK k : k = Given(g, t, "held")
    OBVIOUS
  <2>4. /\ t \in Page /\ g.role[t] = "free" /\ Shape(x.m, k) /\ Same(m.pt, x.m.pt, g)
        /\ x.m.pt[t] = Zero /\ x.m.panic = m.panic /\ \A q \in Page : q # t => x.m.pt[q] = m.pt[q]
    <3>1. m.free # {}
      BY <1>4
    <3> QED BY <3>1, <2>1, <2>2, <2>3, KallocIs
  <2>5. /\ k \in Ghost /\ k.role[t] = "held" /\ k.up = g.up /\ k.ix = g.ix
        /\ \A q \in Page : q # t => k.role[q] = g.role[q]
    <3>1. g \in Ghost /\ "held" \in Role
      BY DEF Shape, Role
    <3> QED BY ONLY <3>1, <2>3, <2>4, GivenIs
  <2>6. p # t /\ k.role[p] = g.role[p] /\ x.m.pt[p][i] = NoPte
    BY <2>4, <2>5, <1>4
  <2>7. PICK n : n = Write(x.m, [table |-> p, index |-> i], Link(k.role[p], t))
    OBVIOUS
  <2>8. PICK h : h = Placed(k, t, Lower(k.role[p]), p, i)
    OBVIOUS
  <2>9. k.role[p] \in {"root", "mid"} /\ k.role[p] \in Inner /\ k.role[p] # "low"
    BY <2>6 DEF Inner
  <2>10. Shape(n, h)
    BY <2>4, <2>5, <2>6, <2>7, <2>8, <2>9, Graft
  <2>11. Same(x.m.pt, n.pt, k)
    BY <2>4, <2>5, <2>6, <2>7, <2>9, GraftSame
  <2>12. Same(m.pt, n.pt, g)
    <3>1. \A r \in Page : g.role[r] = "root" => k.role[r] = "root"
      BY <2>4, <2>5
    <3> QED BY ONLY <3>1, <2>4, <2>11, SameTrans
  <2>13. Lower(k.role[p]) \in Role /\ Lower(k.role[p]) \in {"mid", "low"}
    BY <2>9 DEF Lower, Role
  <2>14. /\ h.role[t] = Lower(k.role[p])
         /\ \A q \in Page : q # t => h.role[q] = k.role[q]
    BY <2>4, <2>5, <2>8, <2>13, PlacedIs
  <2>15. Ext(g, h)
    BY <2>4, <2>5, <2>13, <2>14 DEF Ext
  <2>16. w.m = n /\ w.table = t
    <3>1. w = LinkTable(x, [table |-> p, index |-> i])
      BY <1>4, <2>1 DEF NextTable, Follow
    <3>2. Link(k.role[p], t) = TableAt(t)
      BY <2>9 DEF Link, TableAt
    <3>3. t # 0
      BY <2>4, Pool
    <3> QED BY ONLY <3>1, <3>2, <3>3, <2>2, <2>7, LinkTableIs
  <2>17. n.panic = m.panic /\ n.pt[p][i] = Link(k.role[p], t) /\ n.pt[p][i] # NoPte /\ n.pt[p][i].pa = t
    <3>1. x.m \in Memory /\ Link(k.role[p], t) \in Pte /\ Link(k.role[p], t) # NoPte /\ Link(k.role[p], t).pa = t
      BY <2>4, <2>9, Roles DEF Shape
    <3>2. n.panic = x.m.panic /\ n.pt[p][i] = Link(k.role[p], t)
      BY ONLY <3>1, <2>7, p \in Page, i \in Index, WriteIs
    <3> QED BY <3>1, <3>2, <2>4
  <2> WITNESS h
  <2> QED BY <2>4, <2>6, <2>10, <2>12, <2>14, <2>15, <2>16, <2>17
<1> QED BY <1>1, <1>3, <1>4

(* What walk carries from round to round. *)
IsWalk(w) == w = [m |-> w.m, table |-> w.table]

(* Follow returns a record of its two fields. *)
LEMMA FollowForm ==
  ASSUME NEW m, NEW p, NEW slot, NEW alloc \in BOOLEAN
  PROVE  IsWalk(Follow([m |-> m, table |-> p], slot, alloc))
  BY DEF IsWalk, Follow, LinkTable

(* The path of page v below root, down to the table low. *)
Path(m, root, v, low) ==
  /\ m.pt[root][H2(v)].kind # "user" /\ m.pt[root][H2(v)] # NoPte
  /\ m.pt[m.pt[root][H2(v)].pa][H1(v)] # NoPte
  /\ m.pt[m.pt[root][H2(v)].pa][H1(v)].pa = low

(* The fields of SlotIn. *)
LEMMA SlotInIs ==
  ASSUME NEW w, NEW va
  PROVE  SlotIn(w, va).m = w.m /\ SlotIn(w, va).slot.table = w.table /\ SlotIn(w, va).slot.index = VPN_L(0, va)
  BY DEF SlotIn

(* walk with alloc, and walk that only looks, at page v. *)
Reach(m, root, v) == walk(m, root, v * PAGE_SIZE, TRUE)

(* walk to page v, not allocating. *)
Look(m, root, v) == walk(m, root, v * PAGE_SIZE, FALSE)

(* walk that allocates: new tables change no mapping; it ends at a table of  *)
(* level 0, or nowhere when memory runs out.                                 *)
LEMMA WalkAlloc ==
  ASSUME NEW m, NEW g, Shape(m, g), NEW root \in Page, g.role[root] = "root", NEW v \in Vpn,
         m.pt[root][H2(v)].kind # "user",
         NEW x, x = Reach(m, root, v)
  PROVE  \E h : /\ Shape(x.m, h) /\ Ext(g, h) /\ Same(m.pt, x.m.pt, g) /\ x.m.panic = m.panic
                /\ x.slot.index = H0(v)
                /\ \/ x.slot.table = 0
                   \/ /\ x.slot.table \in Page /\ h.role[x.slot.table] = "low"
                      /\ Path(x.m, root, v, x.slot.table)
<1>1. /\ v * PAGE_SIZE < MAXVA
      /\ H2(v) \in Index /\ H1(v) \in Index /\ H0(v) \in Index
      /\ VPN_L(2, v * PAGE_SIZE) = H2(v)
      /\ VPN_L(1, v * PAGE_SIZE) = H1(v)
      /\ VPN_L(0, v * PAGE_SIZE) = H0(v)
  BY Indices, IndexRange
<1>2. root # 0
  BY Pool
<1>3. PICK w : w = NextTable(m, root, H2(v))
  OBVIOUS
<1>4. Descend([m |-> m, table |-> root], 2, v * PAGE_SIZE, TRUE) = w
  BY <1>1, <1>2, <1>3 DEF NextTable, Descend, NULL
<1>5. PICK y : y = Descend(w, 1, v * PAGE_SIZE, TRUE)
  OBVIOUS
<1>6. x.m = y.m /\ x.slot.table = y.table /\ x.slot.index = H0(v)
  <2>1. ~(v * PAGE_SIZE >= MAXVA)
    <3>1. v * PAGE_SIZE \in Nat /\ MAXVA \in Nat
      BY Indices, PageNumber, Products, Sizes
    <3> QED BY <3>1, <1>1
  <2>2. x = SlotIn(y, v * PAGE_SIZE)
    BY <1>4, <1>5, <2>1 DEF Reach, walk
  <2>3. SlotIn(y, v * PAGE_SIZE).m = y.m /\ SlotIn(y, v * PAGE_SIZE).slot.table = y.table
           /\ SlotIn(y, v * PAGE_SIZE).slot.index = VPN_L(0, v * PAGE_SIZE)
    BY ONLY SlotInIs
  <2> QED BY ONLY <2>2, <2>3, <1>1
<1>7. PICK h1 : /\ Shape(w.m, h1) /\ Ext(g, h1) /\ Same(m.pt, w.m.pt, g) /\ w.m.panic = m.panic
                /\ \/ w.table = 0
                   \/ /\ w.table \in Page /\ h1.role[w.table] = Lower(g.role[root])
                      /\ w.m.pt[root][H2(v)] # NoPte /\ w.m.pt[root][H2(v)].pa = w.table
  BY <1>1, <1>3, DownStep
<1>8. CASE w.table = 0
  <2>1. y = w
    BY <1>5, <1>8 DEF Descend, NULL
  <2>2. x.slot.table = 0 /\ x.slot.index = H0(v)
    BY <2>1, <1>6, <1>8
  <2> WITNESS h1
  <2> QED BY <1>6, <1>7, <2>1, <2>2
<1>9. CASE w.table # 0
  <2>1. PICK q : q = w.table
    OBVIOUS
  <2>2. PICK n : n = w.m
    OBVIOUS
  <2>3. q \in Page /\ h1.role[q] = "mid" /\ n.pt[root][H2(v)] # NoPte /\ n.pt[root][H2(v)].pa = q
    BY <1>7, <1>9, <2>1, <2>2 DEF Lower
  <2>4. w = [m |-> n, table |-> q]
    <3>1. IsWalk(w)
      BY <1>3, FollowForm DEF NextTable
    <3> QED BY <3>1, <2>1, <2>2 DEF IsWalk
  <2>5. y = NextTable(n, q, H1(v))
    BY <2>4, <1>1, <1>5, <1>9, <2>1 DEF NextTable, Descend, NULL
  <2>6. h1.role[root] = "root" /\ n.pt[root][H2(v)].kind # "user"
    BY <1>1, <1>7, <2>2, ExtRoots DEF Same, SelfSame
  <2>7. n.pt[q][H1(v)].kind # "user"
    <3>1. Shape(n, h1)
      BY <1>7, <2>2
    <3>2. n.pt[q][H1(v)] # NoPte => n.pt[q][H1(v)].kind = "table"
      BY ONLY <3>1, <2>3, <1>1, PathLow
    <3> QED BY <3>2 DEF NoPte
  <2>8. PICK h2 : /\ Shape(y.m, h2) /\ Ext(h1, h2) /\ Same(n.pt, y.m.pt, h1) /\ y.m.panic = n.panic
                  /\ \/ y.table = 0
                     \/ /\ y.table \in Page /\ h2.role[y.table] = Lower(h1.role[q])
                        /\ y.m.pt[q][H1(v)] # NoPte /\ y.m.pt[q][H1(v)].pa = y.table
    <3>1. Shape(n, h1) /\ h1.role[q] \in {"root", "mid"}
      BY <1>7, <2>2, <2>3
    <3> QED BY ONLY <3>1, <2>3, <1>1, <2>5, <2>7, DownStep
  <2>9. Ext(g, h2) /\ Same(m.pt, y.m.pt, g) /\ y.m.panic = m.panic
    <3>1. \A r \in Page : g.role[r] = "root" => h1.role[r] = "root"
      BY <1>7, ExtRoots
    <3>2. Same(m.pt, n.pt, g) /\ Same(n.pt, y.m.pt, h1) /\ Ext(g, h1) /\ Ext(h1, h2)
      BY <1>7, <2>2, <2>8
    <3>3. Same(m.pt, y.m.pt, g)
      BY ONLY <3>1, <3>2, SameTrans
    <3>4. Ext(g, h2)
      BY ONLY <3>2, ExtTrans
    <3> QED BY <3>3, <3>4, <1>7, <2>2, <2>8
  <2>10. y.table # 0 => /\ y.table \in Page /\ h2.role[y.table] = "low"
                        /\ Path(y.m, root, v, y.table)
    <3> SUFFICES ASSUME y.table # 0 PROVE /\ y.table \in Page /\ h2.role[y.table] = "low"
                                          /\ Path(y.m, root, v, y.table)
      OBVIOUS
    <3>1. /\ y.table \in Page /\ h2.role[y.table] = "low"
          /\ y.m.pt[q][H1(v)] # NoPte /\ y.m.pt[q][H1(v)].pa = y.table
      BY <2>8, <2>3 DEF Lower
    <3>2. h2.role[q] = "mid" /\ Shape(y.m, h2)
      BY <2>3, <2>8 DEF Ext
    <3>3. h2.up[q] = root /\ h2.ix[q] = H2(v) /\ y.m.pt[root][H2(v)] # NoPte
             /\ y.m.pt[root][H2(v)].pa = q /\ y.m.pt[root][H2(v)].kind # "user"
      <4>1. y.m.pt[root][H2(v)].kind # "user"
        BY <2>6, <2>8, <1>1 DEF Same, SelfSame
      <4>2. y.m.pt[root][H2(v)] = n.pt[root][H2(v)]
        <5>1. n.pt[q][H1(v)] # NoPte => y.m = n
          BY <2>5 DEF NextTable, Follow
        <5>2. n.pt[q][H1(v)] = NoPte => y = LinkTable(kalloc(n), [table |-> q, index |-> H1(v)])
          BY <2>5 DEF NextTable, Follow
        <5>3. CASE n.pt[q][H1(v)] = NoPte
          <6>1. PICK z : z = kalloc(n)
            OBVIOUS
          <6>2. z.pa # 0 /\ y.m = Write(z.m, [table |-> q, index |-> H1(v)], TableAt(z.pa))
            <7>1. y = LinkTable(z, [table |-> q, index |-> H1(v)])
              BY <5>2, <5>3, <6>1
            <7>2. y.table = z.pa
              BY ONLY <7>1, LinkTableIs
            <7> QED BY <7>1, <7>2, LinkTableIs
          <6>3. n.free # {}
            BY <6>1, <6>2, KallocNone
          <6>4. /\ z.pa \in Page /\ h1.role[z.pa] = "free"
                /\ z.m.pt[z.pa] = Zero /\ \A u \in Page : u # z.pa => z.m.pt[u] = n.pt[u]
                /\ Shape(z.m, Given(h1, z.pa, "held"))
            <7>1. Shape(n, h1)
              BY <1>7, <2>2
            <7> QED BY ONLY <7>1, <6>1, <6>3, KallocIs
          <6>5. z.m.pt[root] = n.pt[root] /\ q # root
            BY <6>4, <2>3, <2>6
          <6>6. TableAt(z.pa) \in Pte /\ z.m \in Memory
            BY <6>4, PteFacts, Pool DEF TableAt, Kind, Shape
          <6>7. y.m.pt[root][H2(v)] = z.m.pt[root][H2(v)]
            BY ONLY <6>2, <6>5, <6>6, <2>3, <1>1, root \in Page, WriteIs
          <6> QED BY <6>5, <6>7
        <5> QED BY <5>1, <5>3
      <4>3. y.m.pt[root][H2(v)] # NoPte /\ y.m.pt[root][H2(v)].pa = q
        BY <4>2, <2>3
      <4>4. h2.role[root] = "root"
        BY <2>6, <2>8, ExtRoots
      <4>5. h2.up[y.m.pt[root][H2(v)].pa] = root /\ h2.ix[y.m.pt[root][H2(v)].pa] = H2(v)
        BY ONLY <3>2, <4>1, <4>3, <4>4, <1>1, root \in Page, PathMid
      <4> QED BY <4>1, <4>3, <4>5
    <3> QED BY <3>1, <3>3 DEF Path
  <2>11. x.slot.table = y.table /\ x.slot.index = H0(v)
    BY <1>6
  <2> WITNESS h2
  <2> QED BY <1>6, <2>8, <2>9, <2>10, <2>11
<1> QED BY <1>8, <1>9

-----------------------------------------------------------------------------
(* mappages. *)

(* walk without alloc, which only looks. *)
LEMMA WalkLook ==
  ASSUME NEW m, NEW g, Shape(m, g), NEW root \in Page, g.role[root] = "root", NEW v \in Vpn,
         m.pt[root][H2(v)].kind # "user",
         NEW x, x = Look(m, root, v)
  PROVE  /\ x.m = m /\ x.slot.index = H0(v) /\ PteAt(x) = At(m.pt, root, v)
         /\ \/ x.slot.table = 0 /\ At(m.pt, root, v) = NoPte
            \/ /\ x.slot.table \in Page /\ g.role[x.slot.table] = "low"
               /\ Path(m, root, v, x.slot.table)
               /\ At(m.pt, root, v) = m.pt[x.slot.table][H0(v)]
<1>1. /\ v * PAGE_SIZE < MAXVA
      /\ H2(v) \in Index /\ H1(v) \in Index /\ H0(v) \in Index
      /\ VPN_L(2, v * PAGE_SIZE) = H2(v)
      /\ VPN_L(1, v * PAGE_SIZE) = H1(v)
      /\ VPN_L(0, v * PAGE_SIZE) = H0(v)
  BY Indices, IndexRange
<1>2. root # 0
  BY Pool
<1>3. PICK w : w = Descend([m |-> m, table |-> root], 2, v * PAGE_SIZE, FALSE)
  OBVIOUS
<1>4. w = IF m.pt[root][H2(v)] # NoPte THEN [m |-> m, table |-> m.pt[root][H2(v)].pa]
          ELSE [m |-> m, table |-> 0]
  BY <1>1, <1>2, <1>3 DEF Descend, Follow, NULL
<1>5. PICK y : y = Descend(w, 1, v * PAGE_SIZE, FALSE)
  OBVIOUS
<1>6. x.m = y.m /\ x.slot.table = y.table /\ x.slot.index = H0(v)
  <2>1. ~(v * PAGE_SIZE >= MAXVA)
    <3>1. v * PAGE_SIZE \in Nat /\ MAXVA \in Nat
      BY Indices, PageNumber, Products, Sizes
    <3> QED BY <3>1, <1>1
  <2>2. x = SlotIn(y, v * PAGE_SIZE)
    BY <1>3, <1>5, <2>1 DEF Look, walk
  <2>3. SlotIn(y, v * PAGE_SIZE).m = y.m /\ SlotIn(y, v * PAGE_SIZE).slot.table = y.table
           /\ SlotIn(y, v * PAGE_SIZE).slot.index = VPN_L(0, v * PAGE_SIZE)
    BY ONLY SlotInIs
  <2> QED BY ONLY <2>2, <2>3, <1>1
<1>7. CASE m.pt[root][H2(v)] = NoPte
  <2>1. w.table = 0 /\ w.m = m
    BY <1>4, <1>7
  <2>2. y = w
    BY <1>5, <2>1 DEF Descend, NULL
  <2>3. At(m.pt, root, v) = NoPte
    BY <1>7 DEF At, Ent
  <2>4. x.slot.table = 0 /\ x.m = m
    BY <2>1, <2>2, <1>6
  <2> QED BY <2>3, <2>4, <1>6 DEF PteAt, NULL
<1>8. CASE m.pt[root][H2(v)] # NoPte
  <2>1. PICK q : q = m.pt[root][H2(v)].pa
    OBVIOUS
  <2>2. q \in Page /\ g.role[q] = "mid"
    <3>1. m.pt[root][H2(v)].pa \in Page /\ g.role[m.pt[root][H2(v)].pa] = "mid"
      BY ONLY Shape(m, g), root \in Page, g.role[root] = "root", m.pt[root][H2(v)].kind # "user", <1>1, <1>8, PathMid
    <3> QED BY <2>1, <3>1
  <2>3. w = [m |-> m, table |-> q]
    BY <1>4, <1>8, <2>1
  <2>4. y = IF m.pt[q][H1(v)] # NoPte THEN [m |-> m, table |-> m.pt[q][H1(v)].pa]
            ELSE [m |-> m, table |-> 0]
    <3>1. q # 0
      BY <2>2, Pool
    <3> QED BY <1>1, <1>5, <2>3, <3>1 DEF Descend, Follow, NULL
  <2>5. CASE m.pt[q][H1(v)] = NoPte
    <3>1. y.m = m /\ y.table = 0
      BY <2>4, <2>5
    <3>2. At(m.pt, root, v) = NoPte
      BY <2>1, <2>5 DEF At, Ent
    <3>3. x.slot.table = 0 /\ x.m = m
      BY <3>1, <1>6
    <3> QED BY <3>2, <3>3, <1>6 DEF PteAt, NULL
  <2>6. CASE m.pt[q][H1(v)] # NoPte
    <3>1. y.m = m /\ y.table = m.pt[q][H1(v)].pa
      BY <2>4, <2>6
    <3>2. m.pt[q][H1(v)].pa \in Page /\ g.role[m.pt[q][H1(v)].pa] = "low"
      BY ONLY Shape(m, g), <2>2, <2>6, <1>1, PathLow
    <3>3. PICK s : s = y.table
      OBVIOUS
    <3>4. s \in Page /\ g.role[s] = "low" /\ x.slot.table = s /\ x.m = m /\ s = m.pt[q][H1(v)].pa
      BY <3>1, <3>2, <3>3, <1>6
    <3>5. s # 0
      BY <3>4, Pool
    <3>6. At(m.pt, root, v) = m.pt[s][H0(v)]
      BY <1>8, <2>1, <2>6, <3>4 DEF At, Ent
    <3>7. Path(m, root, v, s)
      BY <1>8, <2>1, <2>6, <3>4 DEF Path
    <3>8. PteAt(x) = m.pt[s][H0(v)]
      BY <3>4, <3>5, <1>6 DEF PteAt, NULL
    <3> QED BY <3>4, <3>6, <3>7, <3>8, <1>6
  <2> QED BY <2>5, <2>6
<1> QED BY <1>7, <1>8

(* What entry finds. *)
LEMMA EntryIs ==
  ASSUME NEW m, NEW g, Shape(m, g), NEW root \in Page, g.role[root] = "root", NEW v \in Vpn,
         m.pt[root][H2(v)].kind # "user"
  PROVE  entry(m, root, v * PAGE_SIZE) = At(m.pt, root, v)
<1>1. PICK x : x = Look(m, root, v)
  OBVIOUS
<1>2. PteAt(x) = At(m.pt, root, v)
  BY ONLY Shape(m, g), root \in Page, g.role[root] = "root", v \in Vpn, m.pt[root][H2(v)].kind # "user",
          <1>1, WalkLook
<1> QED BY <1>1, <1>2 DEF entry, Look

(* A slot is its two fields. *)
LEMMA WriteAt ==
  ASSUME NEW m, NEW slot, NEW pte
  PROVE  Write(m, slot, pte) = Write(m, [table |-> slot.table, index |-> slot.index], pte)
  BY DEF Write

(* Same, then SameBut, is SameBut. *)
LEMMA SameThenBut ==
  ASSUME NEW p, NEW q, NEW s, NEW g, NEW h, NEW r0, NEW a0, NEW b0, NEW c0, NEW pte,
         Same(p, q, g), SameBut(q, s, h, r0, a0, b0, c0, pte),
         \A r \in Page : g.role[r] = "root" => h.role[r] = "root"
  PROVE  SameBut(p, s, g, r0, a0, b0, c0, pte)
<1>1. SelfSame(p, s, g)
  BY DEF Same, SameBut, SelfSame
<1>2. ASSUME NEW r \in Page, NEW a \in Index, NEW b \in Index, NEW c \in Index,
             g.role[r] = "root", p[r][a].kind # "user"
      PROVE  Ent(s, r, a, b, c) = IF r = r0 /\ a = a0 /\ b = b0 /\ c = c0 THEN pte ELSE Ent(p, r, a, b, c)
  <2>1. h.role[r] = "root" /\ q[r][a].kind # "user"
    BY <1>2 DEF Same, SelfSame
  <2>2. Ent(q, r, a, b, c) = Ent(p, r, a, b, c)
    BY <1>2 DEF Same
  <2>3. Ent(s, r, a, b, c) = IF r = r0 /\ a = a0 /\ b = b0 /\ c = c0 THEN pte ELSE Ent(q, r, a, b, c)
    BY <2>1 DEF SameBut
  <2> QED BY <2>2, <2>3
<1> QED BY <1>1, <1>2 DEF SameBut

(* What is known of the pages once pa has been mapped. *)
Mapped(g, pa, kind) == IF kind = "user" /\ pa # 0 THEN Given(g, pa, "data") ELSE g

(* The result of mapping v is x: all is well, or there is no page for a     *)
(* table, or mappages has panicked.                                         *)
MapDone(m, g, x, root, v, pa, kind) ==
  /\ Up(x.m) /\ x.ret = 0 /\ At(m.pt, root, v) = NoPte
  /\ SameBut(m.pt, x.m.pt, g, root, H2(v), H1(v), H0(v), [pa |-> pa, kind |-> kind])
  /\ \E h : Shape(x.m, h) /\ Ext(Mapped(g, pa, kind), h)

(* No memory for a table; a panic. *)
MapFailed(m, g, x) ==
  /\ Up(x.m) /\ x.ret = -1 /\ Same(m.pt, x.m.pt, g)
  /\ \E h : Shape(x.m, h) /\ Ext(g, h)
Panicked(x) == x.m \in Memory /\ ~Up(x.m) /\ x.ret = 0

(* An entry for pa is written into the table that walk found. *)
LEMMA PutEntry ==
  ASSUME NEW m, NEW g, Shape(m, g), NEW p \in Page, NEW i \in Index, g.role[p] = "low", m.pt[p][i] = NoPte,
         NEW pa \in 0 .. KFRAME, NEW kind \in {"leaf", "user"},
         kind = "user" => pa = 0 \/ (pa \in Page /\ g.role[pa] = "held"),
         NEW n, n = Write(m, [table |-> p, index |-> i], [pa |-> pa, kind |-> kind])
  PROVE  \E h : Shape(n, h) /\ Ext(Mapped(g, pa, kind), h)
<1>1. CASE kind = "user" /\ pa # 0
  <2>1. pa \in Page /\ g.role[pa] = "held" /\ g \in Ghost
    BY <1>1 DEF Shape
  <2>2. [pa |-> pa, kind |-> kind] = Link(g.role[p], pa) /\ Lower(g.role[p]) = "data"
    BY <1>1 DEF Link, Lower
  <2>3. PICK h : h = Placed(g, pa, Lower(g.role[p]), p, i)
    OBVIOUS
  <2>4. g.role[p] \in Inner /\ n = Write(m, [table |-> p, index |-> i], Link(g.role[p], pa))
    BY <2>2 DEF Inner
  <2>5. Shape(n, h)
    BY ONLY Shape(m, g), p \in Page, i \in Index, g.role[p] = "low", m.pt[p][i] = NoPte, <2>1, <2>3, <2>4, Graft
  <2>6. /\ h.role[pa] = "data"
        /\ \A q \in Page : q # pa => h.role[q] = g.role[q]
    <3>1. Lower(g.role[p]) \in Role
      BY <2>2 DEF Role
    <3>2. /\ h.role[pa] = Lower(g.role[p])
          /\ \A q \in Page : q # pa => h.role[q] = g.role[q]
      BY ONLY <3>1, <2>1, <2>3, p \in Page, i \in Index, PlacedIs
    <3> QED BY <3>2, <2>2
  <2>7. PICK k : k = Given(g, pa, "data")
    OBVIOUS
  <2>8. k.role[pa] = "data" /\ \A q \in Page : q # pa => k.role[q] = g.role[q]
    <3>1. "data" \in Role
      BY DEF Role
    <3> QED BY ONLY <3>1, <2>1, <2>7, GivenIs
  <2>9. Ext(k, h)
    BY <2>6, <2>8 DEF Ext
  <2>10. Mapped(g, pa, kind) = k
    BY <1>1, <2>7 DEF Mapped
  <2> QED BY <2>5, <2>9, <2>10
<1>2. CASE ~(kind = "user" /\ pa # 0)
  <2>1. Mapped(g, pa, kind) = g
    BY <1>2 DEF Mapped
  <2>2. PICK pte : pte = [pa |-> pa, kind |-> kind]
    OBVIOUS
  <2>3. pte \in Pte /\ Loose("low", p, i, pte) /\ Loose("low", p, i, m.pt[p][i])
    BY <1>2, <2>2 DEF Pte, Kind, Loose, UserAt
  <2>4. n = Write(m, [table |-> p, index |-> i], pte)
    BY <2>2
  <2>5. Shape(n, g)
    BY ONLY Shape(m, g), p \in Page, i \in Index, g.role[p] = "low", <2>3, <2>4, PutLoose
  <2> QED BY <2>1, <2>5, ExtSelf
<1> QED BY <1>1, <1>2

(* A round of mappages maps its page, fails without a trace, or panics. *)
LEMMA MapStep ==
  ASSUME NEW m, NEW g, Shape(m, g), Up(m), NEW root \in Page, g.role[root] = "root", NEW v \in Vpn,
         m.pt[root][H2(v)].kind # "user",
         NEW pa \in 0 .. KFRAME, NEW kind \in {"leaf", "user"},
         kind = "user" => pa = 0 \/ (pa \in Page /\ g.role[pa] = "held"),
         NEW x, x = MapPage([m |-> m, ret |-> 0], root, v * PAGE_SIZE, pa, kind)
  PROVE  MapDone(m, g, x, root, v, pa, kind) \/ MapFailed(m, g, x) \/ Panicked(x)
<1>1. PICK w : w = Reach(m, root, v)
  OBVIOUS
<1>2. PICK pte : pte = [pa |-> pa, kind |-> kind]
  OBVIOUS
<1>3. x = Install(w, pte)
  BY <1>1, <1>2 DEF MapPage, Reach
<1>4. PICK h : /\ Shape(w.m, h) /\ Ext(g, h) /\ Same(m.pt, w.m.pt, g) /\ w.m.panic = m.panic
               /\ w.slot.index = H0(v)
               /\ \/ w.slot.table = 0
                  \/ /\ w.slot.table \in Page /\ h.role[w.slot.table] = "low"
                     /\ Path(w.m, root, v, w.slot.table)
  BY ONLY Shape(m, g), root \in Page, g.role[root] = "root", v \in Vpn,
          m.pt[root][H2(v)].kind # "user", <1>1, WalkAlloc
<1>5. Up(w.m) /\ w.m \in Memory
  BY <1>4 DEF Up, Shape
<1>6. CASE w.slot.table = 0
  <2>1. x.m = w.m /\ x.ret = -1
    BY <1>3, <1>6 DEF Install, NULL
  <2>2. MapFailed(m, g, x)
    BY <2>1, <1>4, <1>5 DEF MapFailed
  <2> QED BY <2>2
<1>7. CASE w.slot.table # 0
  <2>1. PICK p : p = w.slot.table
    OBVIOUS
  <2>2. p \in Page /\ h.role[p] = "low" /\ Path(w.m, root, v, p) /\ p # 0
    BY <1>4, <1>7, <2>1
  <2>3. PteAt(w) = w.m.pt[p][H0(v)]
    BY <1>4, <2>1, <2>2 DEF PteAt, NULL
  <2>4. H2(v) \in Index /\ H1(v) \in Index /\ H0(v) \in Index
    BY Indices, IndexRange
  <2>5. CASE w.m.pt[p][H0(v)] # NoPte
    <3>1. x.m = Stop(w.m, "mappages: remap") /\ x.ret = 0
      <4>1. w.slot.table # NULL /\ PteAt(w) # NoPte
        BY <1>7, <2>3, <2>5 DEF NULL
      <4> QED BY ONLY <4>1, <1>3 DEF Install
    <3>2. Panicked(x)
      <4>1. Stop(w.m, "mappages: remap") \in Memory /\ ~Up(Stop(w.m, "mappages: remap"))
        <5>1. "mappages: remap" \in Who /\ "mappages: remap" # "no"
          BY DEF Who
        <5> QED BY ONLY <5>1, <1>5, StopIs
      <4> QED BY ONLY <4>1, <3>1 DEF Panicked
    <3> QED BY <3>2
  <2>6. CASE w.m.pt[p][H0(v)] = NoPte
    <3>1. x.m = Write(w.m, w.slot, pte) /\ x.ret = 0
      BY <1>3, <1>7, <2>3, <2>6 DEF Install, NULL
    <3>2. PICK n : n = Write(w.m, [table |-> p, index |-> H0(v)], pte)
      OBVIOUS
    <3>3. x.m = n
      <4>1. Write(w.m, w.slot, pte) = Write(w.m, [table |-> w.slot.table, index |-> w.slot.index], pte)
        BY ONLY WriteAt
      <4> QED BY <4>1, <3>1, <3>2, <1>4, <2>1
    <3>4. pte \in Pte
      BY <1>2 DEF Pte, Kind
    <3>5. /\ n \in Memory /\ n.free = w.m.free /\ n.panic = w.m.panic /\ n.pt[p][H0(v)] = pte
          /\ \A q \in Page, j \in Index : q # p \/ j # H0(v) => n.pt[q][j] = w.m.pt[q][j]
      BY ONLY <1>5, <2>2, <2>4, <3>2, <3>4, WriteIs
    <3>6. At(w.m.pt, root, v) = NoPte
      BY <2>2, <2>6 DEF At, Ent, Path
    <3>7. At(m.pt, root, v) = NoPte
      BY <3>6, <1>4, <2>4 DEF At, Same
    <3>8. h.role[root] = "root" /\ \A r \in Page : g.role[r] = "root" => h.role[r] = "root"
      BY <1>4, ExtRoots
    <3>9. SameBut(w.m.pt, n.pt, h, root, H2(v), H1(v), H0(v), pte)
      <4>1. PICK q0 : q0 = w.m.pt[root][H2(v)].pa
        OBVIOUS
      <4>2. /\ w.m.pt[root][H2(v)].kind # "user" /\ w.m.pt[root][H2(v)] # NoPte
            /\ w.m.pt[q0][H1(v)] # NoPte /\ p = w.m.pt[q0][H1(v)].pa
        BY <2>2, <4>1 DEF Path
      <4>3. q0 \in Page /\ h.role[q0] = "mid" /\ h.up[q0] = root /\ h.ix[q0] = H2(v)
        <5>1. LET q == w.m.pt[root][H2(v)].pa
              IN  q \in Page /\ h.role[q] = "mid" /\ h.up[q] = root /\ h.ix[q] = H2(v)
          <6>1. MidAt(w.m, h, root, H2(v))
            BY ONLY <1>4, <3>8, root \in Page, <2>4, <4>2, AtMid
          <6> QED BY ONLY <6>1 DEF MidAt
        <5> QED BY ONLY <5>1, <4>1
      <4>6. h.role[p] = "low" /\ h.up[p] = q0 /\ h.ix[p] = H1(v)
        <5>1. LET q == w.m.pt[q0][H1(v)].pa
              IN  h.role[q] = "low" /\ h.up[q] = q0 /\ h.ix[q] = H1(v)
          <6>1. LowAt(w.m, h, q0, H1(v))
            BY ONLY <1>4, <2>4, <4>2, <4>3, AtLow
          <6> QED BY ONLY <6>1 DEF LowAt
        <5> QED BY ONLY <5>1, <4>2
      <4>4. \A q \in Page, j \in Index :
              h.role[q] \in Inner /\ (q # p \/ j # H0(v)) => n.pt[q][j] = w.m.pt[q][j]
        BY <3>5
      <4>5. Shape(w.m, h)
        BY <1>4
      <4>7. OnPath(h, root, H2(v), H1(v), q0, p) /\ OnlyAt(w.m, n, h, p, H0(v))
        BY <4>3, <4>4, <4>6, <3>8, <2>2 DEF OnPath, OnlyAt
      <4> QED BY ONLY <4>5, <4>7, <3>5, <2>4, LowSame
    <3>10. SameBut(m.pt, n.pt, g, root, H2(v), H1(v), H0(v), pte)
      BY ONLY <3>8, <3>9, <1>4, SameThenBut
    <3>11. kind = "user" => pa = 0 \/ (pa \in Page /\ h.role[pa] = "held")
      BY <1>4 DEF Ext
    <3>12. PICK k : Shape(n, k) /\ Ext(Mapped(h, pa, kind), k)
      <4>1. Shape(w.m, h) /\ n = Write(w.m, [table |-> p, index |-> H0(v)], [pa |-> pa, kind |-> kind])
        BY <1>2, <1>4, <3>2
      <4> QED BY ONLY <4>1, <2>2, <2>4, <2>6, pa \in 0 .. KFRAME, kind \in {"leaf", "user"}, <3>11, PutEntry
    <3>13. Ext(Mapped(g, pa, kind), k)
      <4>1. CASE kind = "user" /\ pa # 0
        <5>1. Mapped(g, pa, kind) = Given(g, pa, "data") /\ Mapped(h, pa, kind) = Given(h, pa, "data")
          BY <4>1 DEF Mapped
        <5>2. g \in Ghost /\ h \in Ghost /\ "data" \in Role /\ pa \in Page
          BY <1>4, <4>1 DEF Shape, Role
        <5>3. PICK g1, h1 : g1 = Given(g, pa, "data") /\ h1 = Given(h, pa, "data")
          OBVIOUS
        <5>4. g1.role[pa] = "data" /\ \A q \in Page : q # pa => g1.role[q] = g.role[q]
          BY ONLY <5>2, <5>3, GivenIs
        <5>5. h1.role[pa] = "data" /\ \A q \in Page : q # pa => h1.role[q] = h.role[q]
          BY ONLY <5>2, <5>3, GivenIs
        <5>6. Ext(g1, h1)
          BY <5>4, <5>5, <1>4 DEF Ext
        <5> QED BY <5>1, <5>3, <5>6, <3>12, ExtTrans
      <4>2. CASE ~(kind = "user" /\ pa # 0)
        <5>1. Mapped(g, pa, kind) = g /\ Mapped(h, pa, kind) = h
          BY <4>2 DEF Mapped
        <5> QED BY <5>1, <3>12, <1>4, ExtTrans
      <4> QED BY <4>1, <4>2
    <3>14. Up(x.m)
      BY <3>3, <3>5, <1>5 DEF Up
    <3>15. SameBut(m.pt, x.m.pt, g, root, H2(v), H1(v), H0(v), [pa |-> pa, kind |-> kind])
      BY <3>3, <3>10, <1>2
    <3>16. MapDone(m, g, x, root, v, pa, kind)
      BY <3>1, <3>3, <3>7, <3>12, <3>13, <3>14, <3>15 DEF MapDone
    <3> QED BY <3>16
  <2> QED BY <2>5, <2>6
<1> QED BY <1>6, <1>7

(* The last page that one page of memory takes. *)
LEMMA LastOfOne ==
  ASSUME NEW v \in Nat
  PROVE  LastPage(v * PAGE_SIZE, PAGE_SIZE) = v
<1>1. PAGE_SIZE - 1 \in 0 .. PAGE_SIZE - 1 /\ v * PAGE_SIZE \in Nat
  BY Sizes
<1>2. (v * PAGE_SIZE + (PAGE_SIZE - 1)) \div PAGE_SIZE = v
  BY <1>1, Sizes, Quotient
<1>3. v * PAGE_SIZE + PAGE_SIZE - 1 = v * PAGE_SIZE + (PAGE_SIZE - 1)
  BY <1>1, Sizes
<1> QED BY <1>2, <1>3 DEF LastPage

(* A call of mappages for one page is one round of its loop. *)
LEMMA MapOne ==
  ASSUME NEW m, NEW root, NEW v \in Nat, NEW pa \in Nat, NEW kind
  PROVE  mappages(m, root, v * PAGE_SIZE, PAGE_SIZE, pa, kind)
           = MapPage([m |-> m, ret |-> 0], root, v * PAGE_SIZE, pa, kind)
<1>1. (v * PAGE_SIZE) \div PAGE_SIZE = v
  BY PageNumber
<1>2. LastPage(v * PAGE_SIZE, PAGE_SIZE) - v + 1 = 1
  BY LastOfOne
<1>3. (v + 1 - 1) * PAGE_SIZE = v * PAGE_SIZE /\ pa + 1 - 1 = pa
  OBVIOUS
<1> DEFINE x == [m |-> m, ret |-> 0]
           y == MapPage(x, root, v * PAGE_SIZE, pa, kind)
           Is(f) == f = [k \in 0 .. 1 |-> IF k = 0 THEN x
                           ELSE MapPage(f[k - 1], root, (v + k - 1) * PAGE_SIZE, pa + k - 1, kind)]
<1>4. mappages(m, root, v * PAGE_SIZE, PAGE_SIZE, pa, kind) = (CHOOSE f : Is(f))[1]
  BY <1>1, <1>2, ZenonT(30) DEF mappages, For
<1>5. \E f : Is(f)
  <2>1. PICK f : f = [k \in 0 .. 1 |-> IF k = 0 THEN x ELSE y]
    OBVIOUS
  <2>2. f[0] = x /\ f[1] = y
    BY <2>1
  <2>3. ASSUME NEW k \in 0 .. 1
        PROVE  (IF k = 0 THEN x ELSE y) = (IF k = 0 THEN x
                           ELSE MapPage(f[k - 1], root, (v + k - 1) * PAGE_SIZE, pa + k - 1, kind))
    <3>1. CASE k = 0
      BY <3>1
    <3>2. CASE k = 1
      <4>1. f[k - 1] = x /\ (v + k - 1) * PAGE_SIZE = v * PAGE_SIZE /\ pa + k - 1 = pa
        BY <3>2, <2>2
      <4> QED BY <3>2, <4>1
    <3> QED BY <3>1, <3>2
  <2> QED BY <2>1, <2>3
<1>6. PICK f : f = (CHOOSE h : Is(h)) /\ Is(f)
  BY <1>5
<1>7. f[0] = x
  BY <1>6
<1>8. f[1] = MapPage(f[0], root, v * PAGE_SIZE, pa, kind)
  BY <1>3, <1>6
<1> QED BY <1>4, <1>6, <1>7, <1>8

(* So mapping one page has one of three outcomes. *)
LEMMA MapOnePage ==
  ASSUME NEW m, NEW g, Shape(m, g), Up(m), NEW root \in Page, g.role[root] = "root", NEW v \in Vpn,
         m.pt[root][H2(v)].kind # "user",
         NEW pa \in 0 .. KFRAME, NEW kind \in {"leaf", "user"},
         kind = "user" => pa = 0 \/ (pa \in Page /\ g.role[pa] = "held"),
         NEW x, x = mappages(m, root, v * PAGE_SIZE, PAGE_SIZE, pa, kind)
  PROVE  MapDone(m, g, x, root, v, pa, kind) \/ MapFailed(m, g, x) \/ Panicked(x)
<1>1. v \in Nat /\ pa \in Nat
  BY Indices, Pool
<1>2. x = MapPage([m |-> m, ret |-> 0], root, v * PAGE_SIZE, pa, kind)
  BY <1>1, MapOne
<1> QED BY <1>2, MapStep

-----------------------------------------------------------------------------
(* uvmunmap. *)

(* The path of walk in terms of the ghost. *)
LEMMA PathOf ==
  ASSUME NEW m, NEW g, Shape(m, g), NEW root \in Page, g.role[root] = "root", NEW v \in Vpn,
         NEW p \in Page, Path(m, root, v, p)
  PROVE  OnPath(g, root, H2(v), H1(v), m.pt[root][H2(v)].pa, p)
<1>0. H2(v) \in Index /\ H1(v) \in Index
  BY Indices, IndexRange
<1>1. PICK q : q = m.pt[root][H2(v)].pa
  OBVIOUS
<1>2. /\ m.pt[root][H2(v)].kind # "user" /\ m.pt[root][H2(v)] # NoPte
      /\ m.pt[q][H1(v)] # NoPte /\ p = m.pt[q][H1(v)].pa
  BY <1>1 DEF Path
<1>3. q \in Page /\ g.role[q] = "mid" /\ g.up[q] = root /\ g.ix[q] = H2(v)
  <2>1. LET k == m.pt[root][H2(v)].pa
        IN  k \in Page /\ g.role[k] = "mid" /\ g.up[k] = root /\ g.ix[k] = H2(v)
    BY ONLY Shape(m, g), root \in Page, g.role[root] = "root", <1>0, <1>2, PathMid
  <2> QED BY ONLY <2>1, <1>1
<1>4. g.role[p] = "low" /\ g.up[p] = q /\ g.ix[p] = H1(v)
  <2>1. LET k == m.pt[q][H1(v)].pa
        IN  g.role[k] = "low" /\ g.up[k] = q /\ g.ix[k] = H1(v)
    BY ONLY Shape(m, g), <1>0, <1>2, <1>3, PathLow
  <2> QED BY ONLY <2>1, <1>2
<1> QED BY <1>1, <1>3, <1>4 DEF OnPath

(* One round of uvmunmap's loop, with do_free and without. *)
FreeRound(m, root, v) == IF Up(m) THEN Unmap(walk(m, root, v * PAGE_SIZE, FALSE), TRUE) ELSE m

(* A round of uvmunmap that does not free; the memory after a panic. *)
ForgetRound(m, root, v) == IF Up(m) THEN Unmap(walk(m, root, v * PAGE_SIZE, FALSE), FALSE) ELSE m

Dead(m) == m \in Memory /\ ~Up(m)

(* What walk looks at in a table of the last level. *)
Seen(m, g, root, v, p) ==
  /\ p \in Page /\ g.role[p] = "low" /\ Path(m, root, v, p)
  /\ At(m.pt, root, v) = m.pt[p][H0(v)]

(* uvmunmap panics where nothing is mapped. *)
LEMMA UnmapNone ==
  ASSUME NEW m, NEW g, Shape(m, g), Up(m), NEW root \in Page, g.role[root] = "root", NEW v \in Vpn,
         m.pt[root][H2(v)].kind # "user", At(m.pt, root, v) = NoPte
  PROVE  Dead(FreeRound(m, root, v)) /\ Dead(ForgetRound(m, root, v))
<1>1. PICK w : w = Look(m, root, v)
  OBVIOUS
<1>2. w.m = m /\ PteAt(w) = NoPte
  BY ONLY Shape(m, g), root \in Page, g.role[root] = "root", v \in Vpn, m.pt[root][H2(v)].kind # "user",
          At(m.pt, root, v) = NoPte, <1>1, WalkLook
<1>3. PICK n : n = Stop(m, "uvmunmap: not mapped")
  OBVIOUS
<1>4. FreeRound(m, root, v) = n /\ ForgetRound(m, root, v) = n
  BY <1>1, <1>2, <1>3 DEF FreeRound, ForgetRound, Look, Unmap
<1>5. Dead(n)
  <2>1. m \in Memory /\ "uvmunmap: not mapped" \in Who /\ "uvmunmap: not mapped" # "no"
    BY DEF Shape, Who
  <2> QED BY ONLY <2>1, <1>3, StopIs DEF Dead
<1> QED BY <1>4, <1>5

(* Where something is mapped, walk ends at its slot. *)
LEMMA SlotSeen ==
  ASSUME NEW m, NEW g, Shape(m, g), NEW root \in Page, g.role[root] = "root", NEW v \in Vpn,
         m.pt[root][H2(v)].kind # "user", At(m.pt, root, v) # NoPte,
         NEW w, w = Look(m, root, v)
  PROVE  /\ w.m = m /\ PteAt(w) = At(m.pt, root, v) /\ w.slot.index = H0(v)
         /\ Seen(m, g, root, v, w.slot.table)
  BY WalkLook DEF Seen

(* The entry of the page v is replaced, the tables are otherwise as before. *)
LEMMA Replaced ==
  ASSUME NEW m, NEW g, Shape(m, g), NEW root \in Page, g.role[root] = "root", NEW v \in Vpn,
         NEW p, Seen(m, g, root, v, p), NEW n, OnlyAt(m, n, g, p, H0(v)), NEW pte, n.pt[p][H0(v)] = pte
  PROVE  SameBut(m.pt, n.pt, g, root, H2(v), H1(v), H0(v), pte)
<1>1. PICK q : q = m.pt[root][H2(v)].pa
  OBVIOUS
<1>2. p \in Page /\ Path(m, root, v, p)
  BY DEF Seen
<1>3. OnPath(g, root, H2(v), H1(v), q, p)
  BY <1>1, <1>2, PathOf
<1>4. H2(v) \in Index /\ H1(v) \in Index /\ H0(v) \in Index
  BY Indices, IndexRange
<1> QED BY ONLY Shape(m, g), <1>3, <1>4, OnlyAt(m, n, g, p, H0(v)), n.pt[p][H0(v)] = pte, LowSame

(* A leaf of the kernel is taken out. *)
LEMMA ForgetStep ==
  ASSUME NEW m, NEW g, Shape(m, g), Up(m), NEW root \in Page, g.role[root] = "root", NEW v \in Vpn,
         m.pt[root][H2(v)].kind # "user", At(m.pt, root, v).kind = "leaf",
         NEW n, n = ForgetRound(m, root, v)
  PROVE  /\ Up(n) /\ Shape(n, g)
         /\ SameBut(m.pt, n.pt, g, root, H2(v), H1(v), H0(v), NoPte)
<1>1. PICK w : w = Look(m, root, v)
  OBVIOUS
<1>2. At(m.pt, root, v) # NoPte
  BY DEF NoPte
<1>3. PICK p : p = w.slot.table
  OBVIOUS
<1>4. w.m = m /\ PteAt(w) = At(m.pt, root, v) /\ w.slot.index = H0(v) /\ Seen(m, g, root, v, p)
  BY <1>1, <1>2, <1>3, SlotSeen
<1>5. n = Write(m, w.slot, NoPte)
  BY <1>1, <1>2, <1>4 DEF ForgetRound, Look, Unmap, Erase
<1>6. n = Write(m, [table |-> p, index |-> H0(v)], NoPte)
  BY <1>3, <1>4, <1>5, WriteAt
<1>7. /\ p \in Page /\ g.role[p] = "low" /\ m.pt[p][H0(v)].kind = "leaf"
      /\ H0(v) \in Index /\ m \in Memory
  BY <1>4, Indices, IndexRange DEF Seen, Shape
<1>8. /\ n \in Memory /\ n.panic = m.panic /\ n.pt[p][H0(v)] = NoPte
      /\ \A q \in Page, j \in Index : q # p \/ j # H0(v) => n.pt[q][j] = m.pt[q][j]
  BY ONLY <1>6, <1>7, NoPteType, WriteIs
<1>9. Shape(n, g)
  <2>1. Loose("low", p, H0(v), m.pt[p][H0(v)]) /\ Loose("low", p, H0(v), NoPte)
    BY <1>7 DEF Loose
  <2> QED BY ONLY <2>1, <1>6, <1>7, Shape(m, g), NoPteType, PutLoose
<1>10. OnlyAt(m, n, g, p, H0(v))
  BY <1>8 DEF OnlyAt
<1>11. SameBut(m.pt, n.pt, g, root, H2(v), H1(v), H0(v), NoPte)
  BY ONLY Shape(m, g), root \in Page, g.role[root] = "root", v \in Vpn, <1>4, <1>8, <1>10, Replaced
<1> QED BY <1>8, <1>9, <1>11 DEF Up

(* A user's page is taken out and freed; physical page 0 cannot be freed. *)
LEMMA FreeStep ==
  ASSUME NEW m, NEW g, Shape(m, g), Up(m), NEW root \in Page, g.role[root] = "root", NEW v \in Vpn,
         m.pt[root][H2(v)].kind # "user", At(m.pt, root, v).kind = "user",
         NEW n, n = FreeRound(m, root, v), ~Dead(n),
         NEW t, t = At(m.pt, root, v).pa
  PROVE  /\ Up(n) /\ t \in Page /\ g.role[t] = "data" /\ Shape(n, Given(g, t, "free"))
         /\ SameBut(m.pt, n.pt, g, root, H2(v), H1(v), H0(v), NoPte)
<1>1. PICK w : w = Look(m, root, v)
  OBVIOUS
<1>2. At(m.pt, root, v) # NoPte
  BY DEF NoPte
<1>3. PICK p : p = w.slot.table
  OBVIOUS
<1>4. w.m = m /\ PteAt(w) = At(m.pt, root, v) /\ w.slot.index = H0(v) /\ Seen(m, g, root, v, p)
  BY <1>1, <1>2, <1>3, SlotSeen
<1>5. PICK f : f = kfree(m, t)
  OBVIOUS
<1>6. n = Erase(f, w.slot)
  BY <1>1, <1>2, <1>4, <1>5 DEF FreeRound, Look, Unmap
<1>7. /\ p \in Page /\ g.role[p] = "low" /\ m.pt[p][H0(v)].kind = "user" /\ m.pt[p][H0(v)].pa = t
      /\ H0(v) \in Index /\ m \in Memory
  BY <1>4, Indices, IndexRange DEF Seen, Shape
<1>8. CASE t \notin Page
  <2>1. f = Stop(m, "kfree")
    BY <1>5, <1>8 DEF kfree
  <2>2. Dead(f)
    <3>1. "kfree" \in Who /\ "kfree" # "no"
      BY DEF Who
    <3> QED BY ONLY <3>1, <2>1, <1>7, StopIs DEF Dead
  <2>3. n = f
    BY <1>6, <2>2 DEF Erase, Dead
  <2> QED BY <2>2, <2>3
<1>9. CASE t \in Page
  <2>1. /\ f \in Memory /\ f.free = m.free \cup {t} /\ f.panic = m.panic
        /\ f.pt[t] = Zero /\ \A q \in Page : q # t => f.pt[q] = m.pt[q]
    <3>1. m \in Memory
      BY <1>7
    <3> QED BY ONLY <3>1, <1>5, <1>9, KfreeIs, SMTT(30)
  <2>2. n = Write(f, [table |-> p, index |-> H0(v)], NoPte)
    <3>1. Up(f)
      BY <2>1 DEF Up
    <3> QED BY <3>1, <1>3, <1>4, <1>6, WriteAt DEF Erase
  <2>3. /\ n \in Memory /\ n.free = f.free /\ n.panic = f.panic /\ n.pt[p][H0(v)] = NoPte
        /\ \A q \in Page, j \in Index : q # p \/ j # H0(v) => n.pt[q][j] = f.pt[q][j]
    BY ONLY <2>1, <2>2, <1>7, NoPteType, WriteIs
  <2>4. Owning(g, p, H0(v), m.pt[p][H0(v)])
    <3>1. Loose(g.role[p], p, H0(v), m.pt[p][H0(v)]) \/ Owning(g, p, H0(v), m.pt[p][H0(v)])
      BY <1>7 DEF Shape, DownShape, Inner
    <3>2. ~Loose(g.role[p], p, H0(v), m.pt[p][H0(v)])
      BY <1>7, <1>9, Pool DEF Loose, NoPte, UserAt
    <3> QED BY <3>1, <3>2
  <2>5. g.role[t] = "data"
    BY <2>4, <1>7 DEF Owning, Lower
  <2>6. \A q \in Page, j \in Index : q # t /\ (q # p \/ j # H0(v)) => n.pt[q][j] = m.pt[q][j]
    BY <2>1, <2>3
  <2>7. Shape(n, Given(g, t, "free"))
    <3>1. n.free = m.free \cup {t}
      BY <2>1, <2>3
    <3> QED BY ONLY Shape(m, g), <1>7, <1>9, <2>3, <2>4, <2>6, <3>1, TakeOut
  <2>8. OnlyAt(m, n, g, p, H0(v))
    BY <2>5, <2>6 DEF OnlyAt, Inner
  <2>9. SameBut(m.pt, n.pt, g, root, H2(v), H1(v), H0(v), NoPte)
    BY ONLY Shape(m, g), root \in Page, g.role[root] = "root", v \in Vpn, <1>4, <2>3, <2>8, Replaced
  <2> QED BY <1>9, <2>1, <2>3, <2>5, <2>7, <2>9 DEF Up
<1> QED BY <1>8, <1>9

(* uvmunmap looks at the same page in every round: two rounds panic. *)
LEMMA FreeLoop ==
  ASSUME NEW m, NEW root, NEW v \in Nat, NEW n \in Nat,
         n >= 2 => ~Up(FreeRound(FreeRound(m, root, v), root, v))
  PROVE  uvmunmap(m, root, v * PAGE_SIZE, n, TRUE)
           = IF n = 0 THEN m ELSE IF n = 1 THEN FreeRound(m, root, v) ELSE FreeRound(FreeRound(m, root, v), root, v)
<1> DEFINE F(x) == FreeRound(x, root, v)
           Is(f) == f = [k \in 0 .. n |-> IF k = 0 THEN m ELSE F(f[k - 1])]
           value(k) == IF k = 0 THEN m ELSE IF k = 1 THEN F(m) ELSE F(F(m))
<1>1. uvmunmap(m, root, v * PAGE_SIZE, n, TRUE) = (CHOOSE f : Is(f))[n]
  <2>1. (v * PAGE_SIZE) % PAGE_SIZE = 0
    BY PageNumber
  <2> QED BY <2>1 DEF uvmunmap, For, FreeRound
<1>2. \A k \in 1 .. n : value(k) = F(value(k - 1))
  <2>1. n >= 2 => F(F(F(m))) = F(F(m))
    BY DEF FreeRound
  <2> HIDE DEF F
  <2> QED BY <2>1
<1>3. \E f : Is(f)
  <2>1. PICK f : f = [k \in 0 .. n |-> value(k)]
    OBVIOUS
  <2>2. \A k \in 0 .. n : value(k) = IF k = 0 THEN m ELSE F(f[k - 1])
    <3> HIDE DEF F
    <3>1. \A k \in 1 .. n : f[k - 1] = value(k - 1)
      BY <2>1
    <3> QED BY <3>1, <1>2
  <2> HIDE DEF F, value
  <2> QED BY <2>1, <2>2
<1>4. PICK f : f = (CHOOSE h : Is(h)) /\ Is(f)
  <2> HIDE DEF Is
  <2> QED BY <1>3
<1>5. \A k \in 0 .. n : f[k] = IF k = 0 THEN m ELSE F(f[k - 1])
  <2>1. Is(f)
    BY <1>4
  <2> HIDE DEF F
  <2> QED BY ONLY <2>1
<1>6. f[n] = value(n)
  <2> DEFINE Good == {k \in 0 .. n : f[k] = value(k)}
  <2> HIDE DEF F
  <2>1. 0 \in Good
    BY <1>5
  <2>2. \A k \in 1 .. n : k - 1 \in Good => k \in Good
    <3> SUFFICES ASSUME NEW k \in 1 .. n, f[k - 1] = value(k - 1) PROVE f[k] = value(k)
      OBVIOUS
    <3>1. f[k] = F(f[k - 1])
      BY <1>5
    <3> QED BY <3>1, <1>2
  <2>3. \A k \in 0 .. n : k \in Good
    <3> HIDE DEF Good
    <3> QED BY <2>1, <2>2, Rounds
  <2> QED BY <2>3
<1> QED BY <1>1, <1>4, <1>6

(* The same without do_free. *)
LEMMA ForgetLoop ==
  ASSUME NEW m, NEW root, NEW v \in Nat, NEW n \in Nat,
         n >= 2 => ~Up(ForgetRound(ForgetRound(m, root, v), root, v))
  PROVE  uvmunmap(m, root, v * PAGE_SIZE, n, FALSE)
           = IF n = 0 THEN m ELSE IF n = 1 THEN ForgetRound(m, root, v) ELSE ForgetRound(ForgetRound(m, root, v), root, v)
<1> DEFINE F(x) == ForgetRound(x, root, v)
           Is(f) == f = [k \in 0 .. n |-> IF k = 0 THEN m ELSE F(f[k - 1])]
           value(k) == IF k = 0 THEN m ELSE IF k = 1 THEN F(m) ELSE F(F(m))
<1>1. uvmunmap(m, root, v * PAGE_SIZE, n, FALSE) = (CHOOSE f : Is(f))[n]
  <2>1. (v * PAGE_SIZE) % PAGE_SIZE = 0
    BY PageNumber
  <2> QED BY <2>1 DEF uvmunmap, For, ForgetRound
<1>2. \A k \in 1 .. n : value(k) = F(value(k - 1))
  <2>1. n >= 2 => F(F(F(m))) = F(F(m))
    BY DEF ForgetRound
  <2> HIDE DEF F
  <2> QED BY <2>1
<1>3. \E f : Is(f)
  <2>1. PICK f : f = [k \in 0 .. n |-> value(k)]
    OBVIOUS
  <2>2. \A k \in 0 .. n : value(k) = IF k = 0 THEN m ELSE F(f[k - 1])
    <3> HIDE DEF F
    <3>1. \A k \in 1 .. n : f[k - 1] = value(k - 1)
      BY <2>1
    <3> QED BY <3>1, <1>2
  <2> HIDE DEF F, value
  <2> QED BY <2>1, <2>2
<1>4. PICK f : f = (CHOOSE h : Is(h)) /\ Is(f)
  <2> HIDE DEF Is
  <2> QED BY <1>3
<1>5. \A k \in 0 .. n : f[k] = IF k = 0 THEN m ELSE F(f[k - 1])
  <2>1. Is(f)
    BY <1>4
  <2> HIDE DEF F
  <2> QED BY ONLY <2>1
<1>6. f[n] = value(n)
  <2> DEFINE Good == {k \in 0 .. n : f[k] = value(k)}
  <2> HIDE DEF F
  <2>1. 0 \in Good
    BY <1>5
  <2>2. \A k \in 1 .. n : k - 1 \in Good => k \in Good
    <3> SUFFICES ASSUME NEW k \in 1 .. n, f[k - 1] = value(k - 1) PROVE f[k] = value(k)
      OBVIOUS
    <3>1. f[k] = F(f[k - 1])
      BY <1>5
    <3> QED BY <3>1, <1>2
  <2>3. \A k \in 0 .. n : k \in Good
    <3> HIDE DEF Good
    <3> QED BY <2>1, <2>2, Rounds
  <2> QED BY <2>3
<1> QED BY <1>1, <1>4, <1>6

(* The page v of root is unmapped and free again. *)
Freed(m, g, x, root, v) ==
  /\ Up(x) /\ At(m.pt, root, v).kind = "user"
  /\ At(m.pt, root, v).pa \in Page /\ g.role[At(m.pt, root, v).pa] = "data"
  /\ Shape(x, Given(g, At(m.pt, root, v).pa, "free"))
  /\ SameBut(m.pt, x.pt, g, root, H2(v), H1(v), H0(v), NoPte)

(* One round of uvmunmap on a user page. *)
LEMMA FreeOnce ==
  ASSUME NEW m, NEW g, Shape(m, g), Up(m), NEW root \in Page, g.role[root] = "root", NEW v \in Vpn,
         m.pt[root][H2(v)].kind # "user", At(m.pt, root, v) = NoPte \/ At(m.pt, root, v).kind = "user",
         NEW x, x = FreeRound(m, root, v)
  PROVE  Dead(x) \/ Freed(m, g, x, root, v)
<1>1. CASE At(m.pt, root, v) = NoPte
  BY <1>1, UnmapNone
<1>2. CASE At(m.pt, root, v).kind = "user" /\ ~Dead(x)
  <2>1. PICK t : t = At(m.pt, root, v).pa
    OBVIOUS
  <2>2. /\ Up(x) /\ t \in Page /\ g.role[t] = "data" /\ Shape(x, Given(g, t, "free"))
        /\ SameBut(m.pt, x.pt, g, root, H2(v), H1(v), H0(v), NoPte)
    BY <1>2, <2>1, FreeStep
  <2> QED BY <1>2, <2>1, <2>2 DEF Freed
<1> QED BY <1>1, <1>2

(* A second round finds nothing to unmap. *)
LEMMA FreeTwice ==
  ASSUME NEW m, NEW g, Shape(m, g), NEW root \in Page, g.role[root] = "root", NEW v \in Vpn,
         m.pt[root][H2(v)].kind # "user",
         NEW x, Dead(x) \/ Freed(m, g, x, root, v)
  PROVE  Dead(FreeRound(x, root, v))
<1>1. CASE Dead(x)
  BY <1>1 DEF Dead, FreeRound
<1>2. CASE Freed(m, g, x, root, v)
  <2>1. PICK t : t = At(m.pt, root, v).pa
    OBVIOUS
  <2>2. PICK h : h = Given(g, t, "free")
    OBVIOUS
  <2>3. /\ Up(x) /\ t \in Page /\ g.role[t] = "data" /\ Shape(x, h)
        /\ SameBut(m.pt, x.pt, g, root, H2(v), H1(v), H0(v), NoPte)
    BY <1>2, <2>1, <2>2 DEF Freed
  <2>4. h.role[root] = "root"
    <3>1. g \in Ghost /\ "free" \in Role /\ t # root
      BY <2>3 DEF Shape, Role
    <3> QED BY ONLY <3>1, <2>2, <2>3, root \in Page, g.role[root] = "root", GivenIs
  <2>5. H2(v) \in Index /\ H1(v) \in Index /\ H0(v) \in Index
    BY Indices, IndexRange
  <2>6. x.pt[root][H2(v)].kind # "user" /\ At(x.pt, root, v) = NoPte
    BY <2>3, <2>5 DEF SameBut, SelfSame, At
  <2> QED BY ONLY <2>3, <2>4, <2>6, root \in Page, v \in Vpn, UnmapNone
<1> QED BY <1>1, <1>2

(* uvmunmap that frees: with two pages or more it panics, as all rounds look *)
(* at the same page.                                                         *)
LEMMA UnmapFree ==
  ASSUME NEW m, NEW g, Shape(m, g), Up(m), NEW root \in Page, g.role[root] = "root", NEW v \in Vpn,
         m.pt[root][H2(v)].kind # "user", At(m.pt, root, v) = NoPte \/ At(m.pt, root, v).kind = "user",
         NEW n \in Nat \ {0}, NEW x, x = uvmunmap(m, root, v * PAGE_SIZE, n, TRUE)
  PROVE  Dead(x) \/ (n = 1 /\ Freed(m, g, x, root, v))
<1>1. PICK y : y = FreeRound(m, root, v)
  OBVIOUS
<1>2. Dead(y) \/ Freed(m, g, y, root, v)
  BY <1>1, FreeOnce
<1>3. PICK z : z = FreeRound(y, root, v)
  OBVIOUS
<1>4. Dead(z)
  BY ONLY <1>2, <1>3, Shape(m, g), root \in Page, g.role[root] = "root", v \in Vpn,
          m.pt[root][H2(v)].kind # "user", FreeTwice
<1>5. x = IF n = 1 THEN y ELSE z
  <2>1. v \in Nat /\ n \in Nat /\ n # 0 /\ ~Up(FreeRound(FreeRound(m, root, v), root, v))
    BY Indices, <1>1, <1>3, <1>4 DEF Dead
  <2>2. x = IF n = 0 THEN m ELSE IF n = 1 THEN FreeRound(m, root, v) ELSE FreeRound(FreeRound(m, root, v), root, v)
    BY ONLY <2>1, x = uvmunmap(m, root, v * PAGE_SIZE, n, TRUE), FreeLoop, ZenonT(30)
  <2> QED BY <2>1, <2>2, <1>1, <1>3
<1> QED BY <1>2, <1>4, <1>5

(* uvmunmap that does not free: the same. *)
LEMMA UnmapForget ==
  ASSUME NEW m, NEW g, Shape(m, g), Up(m), NEW root \in Page, g.role[root] = "root", NEW v \in Vpn,
         m.pt[root][H2(v)].kind # "user", At(m.pt, root, v) = NoPte \/ At(m.pt, root, v).kind = "leaf",
         NEW n \in Nat, NEW x, x = uvmunmap(m, root, v * PAGE_SIZE, n, FALSE)
  PROVE  x \in Memory /\ (n >= 2 => Dead(x))
<1>0. m \in Memory
  BY DEF Shape
<1>1. PICK y : y = ForgetRound(m, root, v)
  OBVIOUS
<1>2. Dead(y) \/ (/\ Up(y) /\ Shape(y, g)
                  /\ SameBut(m.pt, y.pt, g, root, H2(v), H1(v), H0(v), NoPte))
  <2>1. CASE At(m.pt, root, v) = NoPte
    BY <1>1, <2>1, UnmapNone
  <2>2. CASE At(m.pt, root, v).kind = "leaf"
    BY <1>1, <2>2, ForgetStep
  <2> QED BY <2>1, <2>2
<1>3. PICK z : z = ForgetRound(y, root, v)
  OBVIOUS
<1>4. Dead(z)
  <2>1. CASE Dead(y)
    BY <1>3, <2>1 DEF Dead, ForgetRound
  <2>2. CASE ~Dead(y)
    <3>1. H2(v) \in Index /\ H1(v) \in Index /\ H0(v) \in Index
      BY Indices, IndexRange
    <3>2. Up(y) /\ Shape(y, g) /\ y.pt[root][H2(v)].kind # "user" /\ At(y.pt, root, v) = NoPte
      BY <1>2, <2>2, <3>1 DEF SameBut, SelfSame, At
    <3> QED BY ONLY <3>2, <1>3, root \in Page, g.role[root] = "root", v \in Vpn, UnmapNone
  <2> QED BY <2>1, <2>2
<1>5. x = IF n = 0 THEN m ELSE IF n = 1 THEN y ELSE z
  <2>1. v \in Nat /\ ~Up(ForgetRound(ForgetRound(m, root, v), root, v))
    BY Indices, <1>1, <1>3, <1>4 DEF Dead
  <2>2. x = IF n = 0 THEN m ELSE IF n = 1 THEN ForgetRound(m, root, v) ELSE ForgetRound(ForgetRound(m, root, v), root, v)
    BY <2>1, ForgetLoop, ZenonT(30)
  <2> QED BY <2>2, <1>1, <1>3
<1>6. y \in Memory /\ z \in Memory
  BY <1>2, <1>4 DEF Dead, Shape
<1>7. n >= 2 => x = z
  BY ONLY <1>5, n \in Nat
<1>8. x = m \/ x = y \/ x = z
  BY ONLY <1>5
<1> QED BY ONLY <1>0, <1>4, <1>6, <1>7, <1>8

(* Sizes in pages. *)
LEMMA PagesInIs ==
  ASSUME NEW a \in Nat
  PROVE  /\ PagesIn(a) \in Nat /\ ROUND(a) = PagesIn(a) * PAGE_SIZE /\ ROUND(a) \in Nat
         /\ a <= ROUND(a) /\ ROUND(a) < a + PAGE_SIZE
<1>1. a + PAGE_SIZE - 1 \in Nat
  BY Sizes
<1>2. PICK n \in Nat, r \in 0 .. PAGE_SIZE - 1 :
        n = (a + PAGE_SIZE - 1) \div PAGE_SIZE /\ n * PAGE_SIZE \in Nat /\ a + PAGE_SIZE - 1 = n * PAGE_SIZE + r
  BY <1>1, Sizes, Divide
<1>3. n = PagesIn(a) /\ ROUND(a) = n * PAGE_SIZE
  BY <1>2 DEF PagesIn, ROUND
<1> QED BY <1>2, <1>3, Sizes

(* v pages take v pages. *)
LEMMA PagesInPage ==
  ASSUME NEW v \in Nat
  PROVE  PagesIn(v * PAGE_SIZE) = v
<1>1. PAGE_SIZE - 1 \in 0 .. PAGE_SIZE - 1 /\ v * PAGE_SIZE \in Nat
  BY Sizes
<1>2. (v * PAGE_SIZE + (PAGE_SIZE - 1)) \div PAGE_SIZE = v
  BY <1>1, Sizes, Quotient
<1>3. v * PAGE_SIZE + PAGE_SIZE - 1 = v * PAGE_SIZE + (PAGE_SIZE - 1)
  BY <1>1, Sizes
<1> QED BY <1>2, <1>3 DEF PagesIn

(* PagesIn is monotone. *)
LEMMA PagesInOrder ==
  ASSUME NEW a \in Nat, NEW b \in Nat, a <= b
  PROVE  PagesIn(a) <= PagesIn(b)
<1>1. PICK i : i = PagesIn(a)
  OBVIOUS
<1>2. PICK j : j = PagesIn(b)
  OBVIOUS
<1>3. i \in Nat /\ j \in Nat /\ i * PAGE_SIZE < a + PAGE_SIZE /\ b <= j * PAGE_SIZE
  BY <1>1, <1>2, PagesInIs
<1>4. j + 1 <= i => (j + 1) * PAGE_SIZE <= i * PAGE_SIZE
  BY <1>3, TimesMonotone, Sizes
<1>5. (j + 1) * PAGE_SIZE = j * PAGE_SIZE + PAGE_SIZE /\ j * PAGE_SIZE \in Nat /\ i * PAGE_SIZE \in Nat
  BY <1>3, Sizes
<1>6. i <= j
  BY <1>3, <1>4, <1>5, Sizes
<1> QED BY <1>1, <1>2, <1>6

(* uvmdealloc in pages. *)
LEMMA DeallocIs ==
  ASSUME NEW m, NEW root, NEW old \in Nat, NEW new \in Nat
  PROVE  uvmdealloc(m, root, old, new) =
           IF PagesIn(new) < PagesIn(old)
           THEN uvmunmap(m, root, PagesIn(new) * PAGE_SIZE, PagesIn(old) - PagesIn(new), TRUE)
           ELSE m
<1>1. PICK i : i = PagesIn(new)
  OBVIOUS
<1>2. PICK j : j = PagesIn(old)
  OBVIOUS
<1>3. i \in Nat /\ j \in Nat /\ ROUND(new) = i * PAGE_SIZE /\ ROUND(old) = j * PAGE_SIZE
  BY <1>1, <1>2, PagesInIs
<1>4. i < j <=> i * PAGE_SIZE < j * PAGE_SIZE
  BY <1>3, PageOrder
<1>5. ASSUME i < j PROVE (j * PAGE_SIZE - i * PAGE_SIZE) \div PAGE_SIZE = j - i
  <2>1. j - i \in Nat /\ (j - i) * PAGE_SIZE = j * PAGE_SIZE - i * PAGE_SIZE
    BY <1>3, <1>5, Sizes
  <2> QED BY <2>1, PageNumber
<1>6. uvmdealloc(m, root, old, new) =
           IF i < j THEN uvmunmap(m, root, i * PAGE_SIZE, j - i, TRUE) ELSE m
  BY <1>3, <1>4, <1>5 DEF uvmdealloc
<1> QED BY <1>1, <1>2, <1>6

-----------------------------------------------------------------------------
(* uvmalloc and uvmdealloc. *)

(* The root maps nothing itself below the kernel. *)
UserPart(m, root) == \A v \in 0 .. KV - 1 : m.pt[root][H2(v)].kind # "user"

(* The entry a, b, c is not one of the pages first to first + k - 1. *)
NotOf(first, k, a, b, c) ==
  \A v \in first .. first + k - 1 : ~(a = H2(v) /\ b = H1(v) /\ c = H0(v))

(* The page v of root was not mapped, and is now mapped to a page that was free. *)
IsNew(m, g, n, root, v) ==
  /\ At(m.pt, root, v) = NoPte /\ At(n.pt, root, v).kind = "user"
  /\ At(n.pt, root, v).pa \in Page /\ g.role[At(n.pt, root, v).pa] = "free"

(* The roles after uvmalloc has mapped k pages from first on. *)
GrewRoles(g, n, h, root, first, k) ==
  \A p \in Page :
    IF g.role[p] = "free"
    THEN \/ h.role[p] \in {"free", "mid", "low"}
         \/ h.role[p] = "data" /\ \E v \in first .. first + k - 1 : At(n.pt, root, v).pa = p
    ELSE h.role[p] = g.role[p]

(* In n the k pages from first on are mapped, and m is otherwise the same. *)
Grew(m, g, n, h, root, first, k) ==
  /\ Up(n) /\ Shape(n, h) /\ GrewRoles(g, n, h, root, first, k)
  /\ SelfSame(m.pt, n.pt, g)
  /\ \A r \in Page, a, b, c \in Index :
       g.role[r] = "root" /\ m.pt[r][a].kind # "user" /\ (r # root \/ NotOf(first, k, a, b, c)) =>
         Ent(n.pt, r, a, b, c) = Ent(m.pt, r, a, b, c)
  /\ \A v \in first .. first + k - 1 : IsNew(m, g, n, root, v)

(* The page numbers of the user part, and where their entries are. *)
LEMMA UserPages ==
  ASSUME NEW v \in 0 .. KV - 1
  PROVE  v \in Nat /\ v \in Vpn /\ H2(v) \in Index /\ H1(v) \in Index /\ H0(v) \in Index
           /\ H2(v) # FAN2 - 2
<1>1. KV \in Nat /\ KV < UV /\ UV \in Nat /\ UV <= NV
  BY KernelBegins, Products
<1>2. v \in Vpn /\ v < UV
  BY <1>1, Products DEF Vpn
<1>3. H2(v) < FAN2 - 2 /\ H2(v) \in 0 .. FAN2 - 1
  BY <1>2, RootIndex, Indices
<1> QED BY <1>2, <1>3, Indices, IndexRange, Sizes

(* No page is mapped yet. *)
LEMMA GrewNone ==
  ASSUME NEW m, NEW g, Shape(m, g), Up(m), NEW root, NEW first \in Nat
  PROVE  Grew(m, g, m, g, root, first, 0)
<1>1. first .. first + 0 - 1 = {}
  OBVIOUS
<1>2. GrewRoles(g, m, g, root, first, 0)
  BY DEF GrewRoles
<1>3. SelfSame(m.pt, m.pt, g)
  BY DEF SelfSame
<1> QED BY <1>1, <1>2, <1>3 DEF Grew

(* New tables change nothing of what has grown. *)
LEMMA GrewSame ==
  ASSUME NEW m, NEW g, NEW n, NEW h, NEW root \in Page, NEW first \in Nat, NEW k \in Nat,
         Grew(m, g, n, h, root, first, k), g.role[root] = "root",
         first + k <= KV, UserPart(m, root),
         NEW q, NEW e, Up(q), Shape(q, e), Same(n.pt, q.pt, h), Ext(h, e)
  PROVE  Grew(m, g, q, e, root, first, k)
<1>1. \A r \in Page : g.role[r] = "root" => h.role[r] = "root"
  BY DEF Grew, GrewRoles
<1>2. SelfSame(m.pt, q.pt, g)
  BY <1>1 DEF Grew, Same, SelfSame
<1>3. \A v \in first .. first + k - 1 : v \in 0 .. KV - 1
  BY KernelBegins
<1>4. \A v \in first .. first + k - 1 : At(q.pt, root, v) = At(n.pt, root, v)
  <2> SUFFICES ASSUME NEW v \in first .. first + k - 1 PROVE At(q.pt, root, v) = At(n.pt, root, v)
    OBVIOUS
  <2>1. v \in 0 .. KV - 1 /\ H2(v) \in Index /\ H1(v) \in Index /\ H0(v) \in Index
    BY <1>3, UserPages
  <2>2. n.pt[root][H2(v)].kind # "user" /\ h.role[root] = "root"
    BY <2>1, <1>1 DEF UserPart, Grew, SelfSame
  <2> QED BY <2>1, <2>2 DEF Same, At
<1>5. \A v \in first .. first + k - 1 : IsNew(m, g, q, root, v)
  BY <1>4 DEF Grew, IsNew
<1>6. GrewRoles(g, q, e, root, first, k)
  <2> SUFFICES ASSUME NEW p \in Page
               PROVE  IF g.role[p] = "free"
                      THEN \/ e.role[p] \in {"free", "mid", "low"}
                           \/ e.role[p] = "data" /\ \E v \in first .. first + k - 1 : At(q.pt, root, v).pa = p
                      ELSE e.role[p] = g.role[p]
    BY DEF GrewRoles
  <2>1. IF g.role[p] = "free"
        THEN \/ h.role[p] \in {"free", "mid", "low"}
             \/ h.role[p] = "data" /\ \E v \in first .. first + k - 1 : At(n.pt, root, v).pa = p
        ELSE h.role[p] = g.role[p]
    BY DEF Grew, GrewRoles
  <2>2. IF h.role[p] = "free" THEN e.role[p] \in {"free", "mid", "low"} ELSE e.role[p] = h.role[p]
    BY DEF Ext
  <2> QED BY <2>1, <2>2, <1>4
<1>7. ASSUME NEW r \in Page, NEW a \in Index, NEW b \in Index, NEW c \in Index,
             g.role[r] = "root", m.pt[r][a].kind # "user", r # root \/ NotOf(first, k, a, b, c)
      PROVE  Ent(q.pt, r, a, b, c) = Ent(m.pt, r, a, b, c)
  <2>1. Ent(n.pt, r, a, b, c) = Ent(m.pt, r, a, b, c)
    BY <1>7 DEF Grew
  <2>2. h.role[r] = "root" /\ n.pt[r][a].kind # "user"
    BY <1>1, <1>7 DEF Grew, SelfSame
  <2> QED BY <2>1, <2>2 DEF Same
<1> QED BY <1>2, <1>5, <1>6, <1>7 DEF Grew

(* One page more. *)
LEMMA GrewMore ==
  ASSUME NEW m, NEW g, NEW n, NEW h, NEW root \in Page, NEW first \in Nat, NEW k \in Nat,
         Grew(m, g, n, h, root, first, k), g.role[root] = "root",
         first + k < KV, UserPart(m, root),
         NEW v, v = first + k, At(n.pt, root, v) = NoPte,
         NEW pa \in Page, h.role[pa] = "free",
         NEW q, NEW e, Up(q), Shape(q, e),
         SameBut(n.pt, q.pt, h, root, H2(v), H1(v), H0(v), UserAt(pa)),
         e.role[pa] = "data",
         \A p \in Page : p # pa => IF h.role[p] = "free" THEN e.role[p] \in {"free", "mid", "low"}
                                   ELSE e.role[p] = h.role[p]
  PROVE  Grew(m, g, q, e, root, first, k + 1)
<1>1. \A r \in Page : g.role[r] = "root" => h.role[r] = "root"
  BY DEF Grew, GrewRoles
<1>2. SelfSame(m.pt, q.pt, g)
  BY <1>1 DEF Grew, SameBut, SelfSame
<1>3. \A w \in first .. first + (k + 1) - 1 : w \in 0 .. KV - 1 /\ (w = v \/ w \in first .. first + k - 1)
  BY KernelBegins
<1>4. v \in 0 .. KV - 1 /\ v \notin first .. first + k - 1 /\ v \in first .. first + (k + 1) - 1
  BY KernelBegins
<1>5. ASSUME NEW w \in 0 .. KV - 1
      PROVE  At(q.pt, root, w) = IF w = v THEN UserAt(pa) ELSE At(n.pt, root, w)
  <2>1. H2(w) \in Index /\ H1(w) \in Index /\ H0(w) \in Index /\ w \in Vpn
    BY <1>5, UserPages
  <2>2. n.pt[root][H2(w)].kind # "user" /\ h.role[root] = "root"
    BY <2>1, <1>1 DEF UserPart, Grew, SelfSame
  <2>3. v \in Vpn
    BY <1>4, UserPages
  <2>4. H2(w) = H2(v) /\ H1(w) = H1(v) /\ H0(w) = H0(v) => w = v
    BY <2>1, <2>3, SameIndices
  <2> QED BY <2>1, <2>2, <2>4 DEF SameBut, At
<1>6. ASSUME NEW r \in Page, NEW a \in Index, NEW b \in Index, NEW c \in Index,
             g.role[r] = "root", m.pt[r][a].kind # "user", r # root \/ NotOf(first, k + 1, a, b, c)
      PROVE  Ent(q.pt, r, a, b, c) = Ent(m.pt, r, a, b, c)
  <2>0. r # root \/ (NotOf(first, k, a, b, c) /\ ~(a = H2(v) /\ b = H1(v) /\ c = H0(v)))
    <3>1. first .. first + k - 1 \subseteq first .. first + (k + 1) - 1
      OBVIOUS
    <3> QED BY <3>1, <1>4, <1>6 DEF NotOf
  <2>1. Ent(n.pt, r, a, b, c) = Ent(m.pt, r, a, b, c)
    BY <1>6, <2>0 DEF Grew
  <2>2. h.role[r] = "root" /\ n.pt[r][a].kind # "user"
    BY <1>1, <1>6 DEF Grew, SelfSame
  <2> QED BY <2>0, <2>1, <2>2 DEF SameBut
<1>7. g.role[pa] = "free"
  BY DEF Grew, GrewRoles
<1>8. \A w \in first .. first + (k + 1) - 1 : IsNew(m, g, q, root, w)
  <2> SUFFICES ASSUME NEW w \in first .. first + (k + 1) - 1 PROVE IsNew(m, g, q, root, w)
    OBVIOUS
  <2>1. CASE w = v
    <3>1. At(q.pt, root, v) = UserAt(pa)
      BY <1>4, <1>5
    <3>2. At(m.pt, root, v) = NoPte
      <4>1. H2(v) \in Index /\ H1(v) \in Index /\ H0(v) \in Index /\ v \in Vpn
        BY <1>4, UserPages
      <4>2. NotOf(first, k, H2(v), H1(v), H0(v))
        <5> SUFFICES ASSUME NEW u \in first .. first + k - 1
                     PROVE  ~(H2(v) = H2(u) /\ H1(v) = H1(u) /\ H0(v) = H0(u))
          BY DEF NotOf
        <5>1. u \in 0 .. KV - 1
          BY KernelBegins
        <5>2. u \in Vpn
          BY <5>1, UserPages
        <5> QED BY <5>2, <4>1, <1>4, SameIndices
      <4>3. Ent(n.pt, root, H2(v), H1(v), H0(v)) = Ent(m.pt, root, H2(v), H1(v), H0(v))
        <5>1. m.pt[root][H2(v)].kind # "user"
          BY <1>4 DEF UserPart
        <5> QED BY <4>1, <4>2, <5>1 DEF Grew
      <4> QED BY <4>3 DEF At
    <3> QED BY <2>1, <3>1, <3>2, <1>7 DEF IsNew, UserAt
  <2>2. CASE w # v
    <3>1. IsNew(m, g, n, root, w)
      BY <2>2, <1>3 DEF Grew
    <3>2. At(q.pt, root, w) = At(n.pt, root, w)
      BY <2>2, <1>3, <1>5
    <3> QED BY <3>1, <3>2 DEF IsNew
  <2> QED BY <2>1, <2>2
<1>9. GrewRoles(g, q, e, root, first, k + 1)
  <2> SUFFICES ASSUME NEW p \in Page
               PROVE  IF g.role[p] = "free"
                      THEN \/ e.role[p] \in {"free", "mid", "low"}
                           \/ e.role[p] = "data" /\ \E w \in first .. first + (k + 1) - 1 : At(q.pt, root, w).pa = p
                      ELSE e.role[p] = g.role[p]
    BY DEF GrewRoles
  <2>1. IF g.role[p] = "free"
        THEN \/ h.role[p] \in {"free", "mid", "low"}
             \/ h.role[p] = "data" /\ \E w \in first .. first + k - 1 : At(n.pt, root, w).pa = p
        ELSE h.role[p] = g.role[p]
    BY DEF Grew, GrewRoles
  <2>2. CASE p = pa
    <3>1. At(q.pt, root, v).pa = pa
      BY <1>4, <1>5 DEF UserAt
    <3> QED BY <2>2, <3>1, <1>4, <1>7
  <2>3. CASE p # pa /\ g.role[p] = "free" /\ h.role[p] = "data"
    <3>1. PICK w \in first .. first + k - 1 : At(n.pt, root, w).pa = p
      BY <2>1, <2>3
    <3>2. w \in 0 .. KV - 1 /\ w # v /\ w \in first .. first + (k + 1) - 1
      BY <1>4, KernelBegins
    <3>3. At(q.pt, root, w).pa = p
      BY <3>1, <3>2, <1>5
    <3> QED BY <2>3, <3>2, <3>3
  <2>4. CASE p # pa /\ ~(g.role[p] = "free" /\ h.role[p] = "data")
    BY <2>1, <2>4
  <2> QED BY <2>2, <2>3, <2>4
<1> QED BY <1>2, <1>6, <1>8, <1>9 DEF Grew

(* uvmalloc has taken back what it did. *)
TakenBack(m, g, n) == Up(n) /\ Same(m.pt, n.pt, g) /\ \E h : Shape(n, h) /\ Ext(g, h)

(* uvmdealloc takes back what uvmalloc mapped, or panics. *)
LEMMA UndoIs ==
  ASSUME NEW m, NEW g, NEW n, NEW h, NEW root \in Page, NEW first \in Nat, NEW k \in Nat,
         Grew(m, g, n, h, root, first, k), g.role[root] = "root",
         first + k <= KV, UserPart(m, root),
         NEW x, x = uvmdealloc(n, root, (first + k) * PAGE_SIZE, first * PAGE_SIZE)
  PROVE  Dead(x) \/ TakenBack(m, g, x)
<1>1. (first + k) * PAGE_SIZE \in Nat /\ first * PAGE_SIZE \in Nat /\ first + k \in Nat
  BY PageNumber
<1>2. PagesIn((first + k) * PAGE_SIZE) = first + k /\ PagesIn(first * PAGE_SIZE) = first
  BY <1>1, PagesInPage
<1>3. x = IF first < first + k THEN uvmunmap(n, root, first * PAGE_SIZE, first + k - first, TRUE) ELSE n
  <2>1. PICK old : old = (first + k) * PAGE_SIZE
    OBVIOUS
  <2>2. PICK new : new = first * PAGE_SIZE
    OBVIOUS
  <2>3. old \in Nat /\ new \in Nat /\ PagesIn(old) = first + k /\ PagesIn(new) = first /\ x = uvmdealloc(n, root, old, new)
    BY <1>1, <1>2, <2>1, <2>2
  <2>4. x = IF PagesIn(new) < PagesIn(old)
            THEN uvmunmap(n, root, PagesIn(new) * PAGE_SIZE, PagesIn(old) - PagesIn(new), TRUE) ELSE n
    BY ONLY <2>3, DeallocIs
  <2> QED BY ONLY <2>3, <2>4
<1>4. CASE k = 0
  <2>1. x = n
    <3>1. ~(first < first + k)
      BY <1>4
    <3> QED BY ONLY <1>3, <3>1
  <2>2. first .. first + k - 1 = {}
    BY <1>4
  <2>3. Same(m.pt, n.pt, g)
    BY <2>2 DEF Grew, Same, NotOf
  <2>4. Ext(g, h)
    BY <2>2 DEF Grew, GrewRoles, Ext
  <2> QED BY <2>1, <2>3, <2>4 DEF TakenBack, Grew
<1>5. CASE k >= 1
  <2>1. first \in 0 .. KV - 1 /\ first \in first .. first + k - 1
    BY <1>5, KernelBegins
  <2>2. first \in Vpn /\ H2(first) \in Index /\ H1(first) \in Index /\ H0(first) \in Index
    BY <2>1, UserPages
  <2>3. x = uvmunmap(n, root, first * PAGE_SIZE, k, TRUE)
    <3>1. first < first + k /\ first + k - first = k
      BY <1>5
    <3> QED BY <1>3, <3>1
  <2>4. IsNew(m, g, n, root, first) /\ Up(n) /\ Shape(n, h)
    BY <2>1 DEF Grew
  <2>5. \A r \in Page : g.role[r] = "root" => h.role[r] = "root"
    BY DEF Grew, GrewRoles
  <2>6. n.pt[root][H2(first)].kind # "user" /\ m.pt[root][H2(first)].kind # "user" /\ h.role[root] = "root"
    BY <2>1, <2>2, <2>5 DEF UserPart, Grew, SelfSame
  <2>7. At(n.pt, root, first).kind = "user"
    BY <2>4 DEF IsNew
  <2>8. k \in Nat \ {0}
    BY <1>5
  <2>9. Dead(x) \/ (k = 1 /\ Freed(n, h, x, root, first))
    BY ONLY <2>2, <2>3, <2>4, <2>6, <2>7, <2>5, <2>8, root \in Page, UnmapFree
  <2>10. CASE k = 1 /\ Freed(n, h, x, root, first)
    <3>1. PICK t : t = At(n.pt, root, first).pa
      OBVIOUS
    <3>2. PICK e : e = Given(h, t, "free")
      OBVIOUS
    <3>3. Up(x) /\ t \in Page /\ h.role[t] = "data" /\ Shape(x, e)
             /\ SameBut(n.pt, x.pt, h, root, H2(first), H1(first), H0(first), NoPte)
      BY <2>10, <3>1, <3>2 DEF Freed
    <3>4. e.role[t] = "free" /\ \A p \in Page : p # t => e.role[p] = h.role[p]
      <4>1. h \in Ghost /\ "free" \in Role
        BY <2>4 DEF Shape, Role
      <4> QED BY ONLY <4>1, <3>2, <3>3, GivenIs
    <3>5. first .. first + k - 1 = {first}
      BY <2>10
    <3>6. Ext(g, e)
      <4> SUFFICES ASSUME NEW p \in Page
                   PROVE  IF g.role[p] = "free" THEN e.role[p] \in {"free", "mid", "low"}
                          ELSE e.role[p] = g.role[p]
        BY DEF Ext
      <4>1. IF g.role[p] = "free"
            THEN \/ h.role[p] \in {"free", "mid", "low"}
                 \/ h.role[p] = "data" /\ \E v \in {first} : At(n.pt, root, v).pa = p
            ELSE h.role[p] = g.role[p]
        BY <3>5 DEF Grew, GrewRoles
      <4>2. g.role[t] = "free"
        BY <2>4, <3>1 DEF IsNew
      <4> QED BY <4>1, <4>2, <3>1, <3>4
    <3>7. SelfSame(m.pt, x.pt, g)
      BY <2>5, <3>3 DEF Grew, SameBut, SelfSame
    <3>8. ASSUME NEW r \in Page, NEW a \in Index, NEW b \in Index, NEW c \in Index,
                 g.role[r] = "root", m.pt[r][a].kind # "user"
          PROVE  Ent(x.pt, r, a, b, c) = Ent(m.pt, r, a, b, c)
      <4>1. h.role[r] = "root" /\ n.pt[r][a].kind # "user"
        BY <2>5, <3>8 DEF Grew, SelfSame
      <4>2. Ent(x.pt, r, a, b, c) = IF r = root /\ a = H2(first) /\ b = H1(first) /\ c = H0(first)
                                    THEN NoPte ELSE Ent(n.pt, r, a, b, c)
        BY <4>1, <3>3 DEF SameBut
      <4>3. CASE r = root /\ a = H2(first) /\ b = H1(first) /\ c = H0(first)
        BY <4>2, <4>3, <2>4 DEF IsNew, At
      <4>4. CASE ~(r = root /\ a = H2(first) /\ b = H1(first) /\ c = H0(first))
        <5>1. r # root \/ NotOf(first, k, a, b, c)
          BY <4>4, <3>5 DEF NotOf
        <5> QED BY <5>1, <4>2, <4>4, <3>8 DEF Grew
      <4> QED BY <4>3, <4>4
    <3> QED BY <3>3, <3>6, <3>7, <3>8 DEF TakenBack, Same
  <2> QED BY <2>9, <2>10
<1> QED BY <1>4, <1>5

(* One round of uvmalloc's loop. *)
GrowRound(r, root, first, k) ==
  IF Up(r.m) /\ r.ok THEN GrowWith(kalloc(r.m), root, (first + k - 1) * PAGE_SIZE, first * PAGE_SIZE) ELSE r

(* What k rounds may have come to. *)
GrownBy(m, g, x, root, first, k) ==
  \/ Dead(x.m)
  \/ x.ok /\ \E h : Grew(m, g, x.m, h, root, first, k)
  \/ ~x.ok /\ TakenBack(m, g, x.m)

(* The fields of Undo. *)
LEMMA UndoFields ==
  ASSUME NEW n, NEW root, NEW a, NEW old
  PROVE  Undo(n, root, a, old).m = uvmdealloc(n, root, a, old) /\ ~Undo(n, root, a, old).ok
  BY DEF Undo

(* A round of uvmalloc maps one page more, or takes back what was mapped. *)
LEMMA GrowStep ==
  ASSUME NEW m, NEW g, Shape(m, g), NEW root \in Page, g.role[root] = "root", NEW first \in Nat, NEW k \in Nat,
         first + k < KV, UserPart(m, root),
         NEW r, r.ok, NEW h, Grew(m, g, r.m, h, root, first, k),
         NEW x, x = GrowRound(r, root, first, k + 1)
  PROVE  GrownBy(m, g, x, root, first, k + 1)
<1>1. PICK v : v = first + k
  OBVIOUS
<1>2. v \in 0 .. KV - 1 /\ v \in Nat /\ first + (k + 1) - 1 = v /\ first + k <= KV
  BY <1>1, KernelBegins
<1>3. PICK n : n = r.m
  OBVIOUS
<1>4. Grew(m, g, n, h, root, first, k) /\ Up(n) /\ Shape(n, h)
  BY <1>3 DEF Grew
<1>5. PICK y : y = kalloc(n)
  OBVIOUS
<1>6. x = GrowWith(y, root, v * PAGE_SIZE, first * PAGE_SIZE)
  BY <1>2, <1>3, <1>4, <1>5 DEF GrowRound
<1>7. ASSUME NEW f, NEW e, Grew(m, g, f, e, root, first, k), x = Undo(f, root, v * PAGE_SIZE, first * PAGE_SIZE)
      PROVE  GrownBy(m, g, x, root, first, k + 1)
  <2>1. ~x.ok
    BY <1>7, UndoFields
  <2>2. PICK z : z = uvmdealloc(f, root, (first + k) * PAGE_SIZE, first * PAGE_SIZE)
    OBVIOUS
  <2>3. Dead(z) \/ TakenBack(m, g, z)
    BY ONLY <1>7, <2>2, root \in Page, first \in Nat, k \in Nat, g.role[root] = "root", <1>2,
            UserPart(m, root), UndoIs
  <2>4. x.m = z
    BY <1>1, <1>7, <2>2, UndoFields
  <2> QED BY <2>1, <2>3, <2>4 DEF GrownBy
<1>8. CASE n.free = {}
  <2>1. y.pa = 0 /\ y.m = n
    BY <1>5, <1>8, KallocNone
  <2>2. x = Undo(n, root, v * PAGE_SIZE, first * PAGE_SIZE)
    BY <1>6, <2>1 DEF GrowWith, NULL
  <2> QED BY <2>2, <1>4, <1>7
<1>9. CASE n.free # {}
  <2>1. PICK pa : pa = y.pa
    OBVIOUS
  <2>2. PICK h1 : h1 = Given(h, pa, "held")
    OBVIOUS
  <2>3. /\ pa \in Page /\ h.role[pa] = "free" /\ Shape(y.m, h1) /\ Same(n.pt, y.m.pt, h)
        /\ y.m.panic = n.panic
    BY ONLY <1>4, <1>5, <1>9, <2>1, <2>2, KallocIs
  <2>4. h1.role[pa] = "held" /\ \A p \in Page : p # pa => h1.role[p] = h.role[p]
    <3>1. h \in Ghost /\ "held" \in Role
      BY <1>4 DEF Shape, Role
    <3> QED BY ONLY <3>1, <2>2, <2>3, GivenIs
  <2>5. Up(y.m) /\ pa # 0 /\ pa \in 0 .. KFRAME
    BY <2>3, <1>4, Pool DEF Up
  <2>6. \A s \in Page : h.role[s] = "root" => h1.role[s] = "root"
    BY <2>3, <2>4
  <2>7. h.role[root] = "root" /\ h1.role[root] = "root"
    BY <2>6, <1>4 DEF Grew, GrewRoles
  <2>8. v \in Vpn /\ H2(v) \in Index /\ H1(v) \in Index /\ H0(v) \in Index
    BY <1>2, UserPages
  <2>9. n.pt[root][H2(v)].kind # "user" /\ y.m.pt[root][H2(v)].kind # "user"
    BY <1>2, <1>4, <2>3, <2>7, <2>8 DEF UserPart, Grew, Same, SelfSame
  <2>10. PICK z : z = mappages(y.m, root, v * PAGE_SIZE, PAGE_SIZE, pa, "user")
    OBVIOUS
  <2>11. x = Grown(z, pa, root, v * PAGE_SIZE, first * PAGE_SIZE)
    BY <1>6, <2>1, <2>5, <2>10 DEF GrowWith, NULL
  <2>12. MapDone(y.m, h1, z, root, v, pa, "user") \/ MapFailed(y.m, h1, z) \/ Panicked(z)
    <3>1. PICK kind : kind = "user"
      OBVIOUS
    <3>2. kind \in {"leaf", "user"} /\ (kind = "user" => pa = 0 \/ (pa \in Page /\ h1.role[pa] = "held"))
      BY <3>1, <2>3, <2>4
    <3>3. z = mappages(y.m, root, v * PAGE_SIZE, PAGE_SIZE, pa, kind)
      BY <2>10, <3>1
    <3>4. MapDone(y.m, h1, z, root, v, pa, kind) \/ MapFailed(y.m, h1, z) \/ Panicked(z)
      BY ONLY <3>2, <3>3, <2>3, <2>5, <2>7, <2>8, <2>9, root \in Page, MapOnePage
    <3> QED BY <3>1, <3>4
  <2>13. CASE Panicked(z)
    <3>1. x.m = z.m
      BY <2>11, <2>13 DEF Grown, Panicked
    <3> QED BY <3>1, <2>13 DEF GrownBy, Panicked, Dead
  <2>14. CASE MapFailed(y.m, h1, z)
    <3>1. PICK h2 : Shape(z.m, h2) /\ Ext(h1, h2)
      BY <2>14 DEF MapFailed
    <3>2. Up(z.m) /\ z.ret = -1 /\ Same(y.m.pt, z.m.pt, h1)
      BY <2>14 DEF MapFailed
    <3>3. PICK f : f = kfree(z.m, pa)
      OBVIOUS
    <3>4. PICK e : e = Given(h2, pa, "free")
      OBVIOUS
    <3>5. h2.role[pa] = "held"
      BY <3>1, <2>3, <2>4 DEF Ext
    <3>6. Shape(f, e) /\ Same(z.m.pt, f.pt, h2) /\ f.panic = z.m.panic
      BY ONLY <3>1, <3>3, <3>4, <3>5, <2>3, KfreeHeld
    <3>7. e.role[pa] = "free" /\ \A p \in Page : p # pa => e.role[p] = h2.role[p]
      <4>1. h2 \in Ghost /\ "free" \in Role
        BY <3>1 DEF Shape, Role
      <4> QED BY ONLY <4>1, <3>4, <2>3, GivenIs
    <3>8. Ext(h, e)
      BY <3>1, <3>7, <2>3, <2>4 DEF Ext
    <3>9. Same(n.pt, f.pt, h)
      <4>1. Same(n.pt, z.m.pt, h)
        BY ONLY <2>3, <2>6, <3>2, SameTrans
      <4>2. \A s \in Page : h.role[s] = "root" => h2.role[s] = "root"
        BY <2>6, <3>1 DEF Ext
      <4> QED BY ONLY <4>1, <4>2, <3>6, SameTrans
    <3>10. Up(f)
      BY <3>2, <3>6 DEF Up
    <3>11. Grew(m, g, f, e, root, first, k)
      BY ONLY <1>4, <1>2, <3>6, <3>8, <3>9, <3>10, root \in Page, first \in Nat, k \in Nat,
              g.role[root] = "root", UserPart(m, root), GrewSame
    <3>12. x = Undo(f, root, v * PAGE_SIZE, first * PAGE_SIZE)
      BY <2>11, <3>2, <3>3 DEF Grown
    <3> QED BY <3>11, <3>12, <1>7
  <2>15. CASE MapDone(y.m, h1, z, root, v, pa, "user")
    <3>1. PICK e : Shape(z.m, e) /\ Ext(Given(h1, pa, "data"), e)
      BY <2>15, <2>5 DEF MapDone, Mapped
    <3>2. Up(z.m) /\ z.ret = 0 /\ At(y.m.pt, root, v) = NoPte
             /\ SameBut(y.m.pt, z.m.pt, h1, root, H2(v), H1(v), H0(v), UserAt(pa))
      BY <2>15 DEF MapDone, UserAt
    <3>3. x.m = z.m /\ x.ok
      BY <2>11, <3>2 DEF Grown
    <3>4. At(n.pt, root, v) = NoPte
      BY <3>2, <2>3, <2>7, <2>8, <2>9 DEF Same, At
    <3>5. SameBut(n.pt, z.m.pt, h, root, H2(v), H1(v), H0(v), UserAt(pa))
      BY ONLY <2>3, <2>6, <3>2, SameThenBut
    <3>6. PICK d : d = Given(h1, pa, "data")
      OBVIOUS
    <3>7. d.role[pa] = "data" /\ \A p \in Page : p # pa => d.role[p] = h1.role[p]
      <4>1. h1 \in Ghost /\ "data" \in Role
        BY <2>3 DEF Shape, Role
      <4> QED BY ONLY <4>1, <3>6, <2>3, GivenIs
    <3>8. /\ e.role[pa] = "data"
          /\ \A p \in Page : p # pa => IF h.role[p] = "free" THEN e.role[p] \in {"free", "mid", "low"}
                                       ELSE e.role[p] = h.role[p]
      BY <3>1, <3>6, <3>7, <2>3, <2>4 DEF Ext
    <3>9. Shape(z.m, e)
      BY <3>1
    <3>10. PICK q : q = z.m
      OBVIOUS
    <3>11. Up(q) /\ Shape(q, e) /\ SameBut(n.pt, q.pt, h, root, H2(v), H1(v), H0(v), UserAt(pa))
      BY <3>2, <3>5, <3>9, <3>10
    <3>12. pa \in Page /\ h.role[pa] = "free" /\ Grew(m, g, n, h, root, first, k)
      BY <2>3, <1>4
    <3>13. Grew(m, g, q, e, root, first, k + 1)
      BY ONLY <1>1, first + k < KV, <3>4, <3>8, <3>11, <3>12, root \in Page, first \in Nat, k \in Nat,
              g.role[root] = "root", UserPart(m, root), GrewMore
    <3> QED BY <3>3, <3>10, <3>13 DEF GrownBy
  <2> QED BY <2>12, <2>13, <2>14, <2>15
<1> QED BY <1>8, <1>9

(* f holds what the rounds of uvmalloc's loop make of x, up to the n-th. *)
GrowRun(f, x, root, first, n) ==
  f = [k \in 0 .. n |-> IF k = 0 THEN x ELSE GrowRound(f[k - 1], root, first, k)]

(* The loop of uvmalloc is defined. *)
LEMMA GrowRuns ==
  ASSUME NEW x, NEW root, NEW first, NEW n \in Nat
  PROVE  \E f : GrowRun(f, x, root, first, n)
<1> DEFINE Good == {k \in 0 .. n : \E f : GrowRun(f, x, root, first, k)}
<1>1. 0 \in Good
  <2>1. PICK f : f = [k \in 0 .. 0 |-> x]
    OBVIOUS
  <2>2. GrowRun(f, x, root, first, 0)
    BY <2>1 DEF GrowRun
  <2> QED BY <2>2
<1>2. ASSUME NEW k \in 1 .. n, k - 1 \in Good PROVE k \in Good
  <2>1. PICK f : GrowRun(f, x, root, first, k - 1)
    BY <1>2
  <2>2. PICK y : y = GrowRound(f[k - 1], root, first, k)
    OBVIOUS
  <2>3. PICK h : h = [j \in 0 .. k |-> IF j = k THEN y ELSE f[j]]
    OBVIOUS
  <2>4. \A j \in 0 .. k - 1 : f[j] = IF j = 0 THEN x ELSE GrowRound(f[j - 1], root, first, j)
    BY <2>1 DEF GrowRun
  <2>5. \A j \in 1 .. k : h[j - 1] = f[j - 1]
    BY <2>3
  <2>6. \A j \in 0 .. k : (IF j = k THEN y ELSE f[j]) = IF j = 0 THEN x ELSE GrowRound(h[j - 1], root, first, j)
    <3> SUFFICES ASSUME NEW j \in 0 .. k
                 PROVE  (IF j = k THEN y ELSE f[j]) = IF j = 0 THEN x ELSE GrowRound(h[j - 1], root, first, j)
      OBVIOUS
    <3>1. j # 0 => h[j - 1] = f[j - 1]
      BY <2>5
    <3>2. CASE j = k
      BY <3>1, <3>2, <2>2
    <3>3. CASE j # k
      BY <3>1, <3>3, <2>4
    <3> QED BY <3>2, <3>3
  <2>7. GrowRun(h, x, root, first, k)
    BY <2>3, <2>6 DEF GrowRun
  <2> QED BY <2>7
<1>3. \A k \in 0 .. n : k \in Good
  <2> HIDE DEF Good
  <2> QED BY <1>1, <1>2, Rounds
<1> QED BY <1>3

(* uvmalloc maps all pages or none. *)
LEMMA AllocIs ==
  ASSUME NEW m, NEW g, Shape(m, g), Up(m), NEW root \in Page, g.role[root] = "root",
         NEW old \in Nat, NEW new \in Nat, old <= new, PagesIn(new) <= KV, UserPart(m, root),
         NEW x, x = uvmalloc(m, root, old, new)
  PROVE  \/ Dead(x.m)
         \/ x.ret = new /\ \E h : Grew(m, g, x.m, h, root, PagesIn(old), PagesIn(new) - PagesIn(old))
         \/ x.ret = 0 /\ TakenBack(m, g, x.m)
<1>1. PICK first : first = PagesIn(old)
  OBVIOUS
<1>2. PICK n : n = PagesIn(new) - first
  OBVIOUS
<1>3. first \in Nat /\ n \in Nat /\ first + n <= KV /\ KV \in Nat
  BY <1>1, <1>2, PagesInIs, PagesInOrder, KernelBegins
<1>4. PICK y : y = [m |-> m, ok |-> TRUE]
  OBVIOUS
<1>5. PICK f : f = CHOOSE h : GrowRun(h, y, root, first, n)
  OBVIOUS
<1>6. x = Result(f[n], new)
  <2>1. ~(new < old)
    OBVIOUS
  <2> QED BY <2>1, <1>1, <1>2, <1>4, <1>5 DEF uvmalloc, For, GrowRun, GrowRound, ROUND
<1>7. GrowRun(f, y, root, first, n)
  BY <1>3, <1>5, GrowRuns
<1>8. f[0] = y /\ \A k \in 1 .. n : f[k] = GrowRound(f[k - 1], root, first, k)
  BY <1>3, <1>7 DEF GrowRun
<1> DEFINE Good == {k \in 0 .. n : GrownBy(m, g, f[k], root, first, k)}
<1>9. 0 \in Good
  <2>1. Grew(m, g, m, g, root, first, 0)
    BY <1>3, GrewNone
  <2>2. f[0].ok /\ f[0].m = m
    BY <1>4, <1>8
  <2> QED BY <1>3, <2>1, <2>2 DEF GrownBy
<1>10. ASSUME NEW k \in 1 .. n, k - 1 \in Good PROVE k \in Good
  <2>1. PICK r : r = f[k - 1]
    OBVIOUS
  <2>2. PICK j : j = k - 1
    OBVIOUS
  <2>3. f[k] = GrowRound(r, root, first, k) /\ j \in Nat /\ k = j + 1 /\ first + j < KV
    BY <1>3, <1>8, <2>1, <2>2
  <2>4. GrownBy(m, g, r, root, first, j)
    BY <1>10, <2>1, <2>2
  <2>5. CASE Dead(r.m) \/ (~r.ok /\ TakenBack(m, g, r.m))
    <3>1. f[k] = r
      BY <2>3, <2>5 DEF GrowRound, Dead
    <3>2. GrownBy(m, g, f[k], root, first, k)
      BY <2>5, <3>1 DEF GrownBy
    <3> QED BY <3>2
  <2>6. CASE r.ok /\ \E h : Grew(m, g, r.m, h, root, first, j)
    <3>1. PICK h : Grew(m, g, r.m, h, root, first, j)
      BY <2>6
    <3>2. f[k] = GrowRound(r, root, first, j + 1)
      BY <2>3
    <3>3. r.ok
      BY <2>6
    <3>4. GrownBy(m, g, f[k], root, first, j + 1)
      BY ONLY <3>1, <3>2, <3>3, <2>3, <1>3, Shape(m, g), root \in Page, g.role[root] = "root", UserPart(m, root), GrowStep
    <3> QED BY <3>4, <2>3
  <2> QED BY <2>4, <2>5, <2>6 DEF GrownBy
<1>11. GrownBy(m, g, f[n], root, first, n)
  <2>1. \A k \in 0 .. n : k \in Good
    <3> HIDE DEF Good
    <3> QED BY <1>3, <1>9, <1>10, Rounds
  <2> QED BY <1>3, <2>1
<1>12. x.m = f[n].m /\ x.ret = IF f[n].ok THEN new ELSE 0
  BY <1>6 DEF Result
<1> QED BY <1>1, <1>2, <1>11, <1>12 DEF GrownBy

-----------------------------------------------------------------------------
(* kvm_copy_to_user_pagetable. *)

(* The tree of root maps no page of a user. *)
Plain(p, root) ==
  \A a, b, c \in Index : Ent(p, root, a, b, c) = NoPte \/ Ent(p, root, a, b, c).kind = "leaf"

(* A table without a self-mapping. *)
NoSelf(p, root) == \A a \in Index : p[root][a].kind # "user"

(* In n the first k pages of the kernel are under root as they are under    *)
(* kroot, and m is otherwise the same.                                      *)
Copies(m, g, n, h, kroot, root, k) ==
  /\ Up(n) /\ Shape(n, h) /\ Ext(g, h)
  /\ SelfSame(m.pt, n.pt, g)
  /\ \A r \in Page, a, b, c \in Index :
       g.role[r] = "root" /\ r # root /\ m.pt[r][a].kind # "user" => Ent(n.pt, r, a, b, c) = Ent(m.pt, r, a, b, c)
  /\ Plain(n.pt, root)
  /\ \A v \in Vpn : At(n.pt, root, v) = IF v \in KV .. KV + k - 1 THEN At(m.pt, kroot, v) ELSE NoPte

(* Before the copy: root is empty, kroot is the kernel's. *)
CanCopy(m, g, kroot, root) ==
  /\ Shape(m, g) /\ Up(m) /\ root \in Page /\ kroot \in Page /\ root # kroot
  /\ g.role[root] = "root" /\ g.role[kroot] = "root"
  /\ m.pt[root] = Zero /\ NoSelf(m.pt, kroot) /\ Plain(m.pt, kroot)

(* The page numbers of the kernel part. *)
LEMMA KernelPages ==
  ASSUME NEW v \in KV .. NV - 1
  PROVE  v \in Vpn /\ v \in Nat /\ H2(v) \in Index /\ H1(v) \in Index /\ H0(v) \in Index
<1>1. v \in Vpn
  BY KernelBegins, Products DEF Vpn
<1> QED BY <1>1, Indices, IndexRange

(* Entries that walk finds have the type of entries. *)
LEMMA AtType ==
  ASSUME NEW m, NEW g, Shape(m, g), NEW root \in Page, g.role[root] = "root", NEW v \in Vpn,
         m.pt[root][H2(v)].kind # "user"
  PROVE  At(m.pt, root, v) \in Pte
<1>1. PICK x : x = Look(m, root, v)
  OBVIOUS
<1>2. \/ At(m.pt, root, v) = NoPte
      \/ x.slot.table \in Page /\ At(m.pt, root, v) = m.pt[x.slot.table][H0(v)]
  BY ONLY <1>1, Shape(m, g), root \in Page, g.role[root] = "root", v \in Vpn, m.pt[root][H2(v)].kind # "user", WalkLook
<1>3. H0(v) \in Index
  BY Indices, IndexRange
<1>4. \A q \in Page : m.pt[q][H0(v)] \in Pte
  BY <1>3 DEF Shape, Memory
<1> QED BY <1>2, <1>4, NoPteType

(* Nothing is copied yet. *)
LEMMA CopiesNone ==
  ASSUME NEW m, NEW g, NEW kroot, NEW root, CanCopy(m, g, kroot, root)
  PROVE  Copies(m, g, m, g, kroot, root, 0)
<1>1. \A a, b, c \in Index : Ent(m.pt, root, a, b, c) = NoPte
  BY NoPteType DEF CanCopy, Ent
<1>2. \A v \in Vpn : At(m.pt, root, v) = NoPte
  <2>1. \A v \in Vpn : H2(v) \in Index
    BY Indices, IndexRange
  <2> QED BY <2>1, NoPteType DEF CanCopy, At, Ent
<1>3. KV .. KV + 0 - 1 = {}
  BY KernelBegins
<1>4. Plain(m.pt, root) /\ SelfSame(m.pt, m.pt, g) /\ Ext(g, g)
  BY <1>1, ExtSelf DEF Plain, SelfSame
<1> QED BY <1>2, <1>3, <1>4 DEF Copies, CanCopy

(* One more page, mapped for the kernel or not. *)
LEMMA CopiesMore ==
  ASSUME NEW m, NEW g, NEW kroot, NEW root, CanCopy(m, g, kroot, root),
         NEW n, NEW h, NEW k \in Nat, Copies(m, g, n, h, kroot, root, k),
         NEW v, v = KV + k, v \in Vpn,
         NEW q, NEW e, Up(q), Shape(q, e), Ext(h, e),
         SameBut(n.pt, q.pt, h, root, H2(v), H1(v), H0(v), At(m.pt, kroot, v)),
         At(m.pt, kroot, v) = NoPte \/ At(m.pt, kroot, v).kind = "leaf"
  PROVE  Copies(m, g, q, e, kroot, root, k + 1)
<1>1. Ext(g, e)
  BY ExtTrans DEF Copies
<1>2. root \in Page /\ g.role[root] = "root" /\ \A r \in Page : g.role[r] = "root" => h.role[r] = "root"
  BY ExtRoots DEF Copies, CanCopy
<1>3. SelfSame(m.pt, q.pt, g)
  BY <1>2 DEF Copies, SameBut, SelfSame
<1>4. NoSelf(n.pt, root)
  BY <1>2, NoPteType DEF Copies, CanCopy, SelfSame, NoSelf, NoPte
<1>5. ASSUME NEW r \in Page, NEW a \in Index, NEW b \in Index, NEW c \in Index,
             g.role[r] = "root", r # root, m.pt[r][a].kind # "user"
      PROVE  Ent(q.pt, r, a, b, c) = Ent(m.pt, r, a, b, c)
  <2>1. Ent(n.pt, r, a, b, c) = Ent(m.pt, r, a, b, c)
    BY <1>5 DEF Copies
  <2>2. h.role[r] = "root" /\ n.pt[r][a].kind # "user"
    BY <1>2, <1>5 DEF Copies, SelfSame
  <2> QED BY <2>1, <2>2, <1>5 DEF SameBut
<1>6. \A a, b, c \in Index :
        Ent(q.pt, root, a, b, c) = IF a = H2(v) /\ b = H1(v) /\ c = H0(v) THEN At(m.pt, kroot, v)
                                   ELSE Ent(n.pt, root, a, b, c)
  BY <1>2, <1>4 DEF SameBut, NoSelf
<1>7. Plain(q.pt, root)
  BY <1>6 DEF Plain, Copies
<1>8. ASSUME NEW w \in Vpn
      PROVE  At(q.pt, root, w) = IF w \in KV .. KV + (k + 1) - 1 THEN At(m.pt, kroot, w) ELSE NoPte
  <2>1. H2(w) \in Index /\ H1(w) \in Index /\ H0(w) \in Index /\ w \in Nat /\ KV \in Nat
    BY Indices, IndexRange, KernelBegins
  <2>2. H2(w) = H2(v) /\ H1(w) = H1(v) /\ H0(w) = H0(v) => w = v
    BY SameIndices
  <2>3. At(q.pt, root, w) = IF w = v THEN At(m.pt, kroot, v) ELSE At(n.pt, root, w)
    BY <2>1, <2>2, <1>6 DEF At
  <2>4. At(n.pt, root, w) = IF w \in KV .. KV + k - 1 THEN At(m.pt, kroot, w) ELSE NoPte
    BY DEF Copies
  <2>5. w \in KV .. KV + (k + 1) - 1 <=> w = v \/ w \in KV .. KV + k - 1
    BY <2>1
  <2> QED BY <2>3, <2>4, <2>5
<1> QED BY <1>1, <1>3, <1>5, <1>7, <1>8 DEF Copies

(* What k rounds may have come to. *)
CopiedBy(m, g, x, kroot, root, k) ==
  \/ Dead(x.m)
  \/ x.ret = 0 /\ \E h : Copies(m, g, x.m, h, kroot, root, k)
  \/ x.ret # 0 /\ x.m \in Memory

(* The fields of Copied when mappages fails. *)
LEMMA CopiedFails ==
  ASSUME NEW z, NEW root, NEW i, z.ret = -1
  PROVE  Copied(z, root, i).m = uvmunmap(z.m, root, KBASE, i, FALSE) /\ Copied(z, root, i).ret = -1
<1>1. z.ret # 0
  OBVIOUS
<1>2. Copied(z, root, i) = [m |-> uvmunmap(z.m, root, KBASE, i, FALSE), ret |-> -1]
  BY <1>1 DEF Copied
<1> QED BY ONLY <1>2

(* A round of kvm_copy_to_user_pagetable. *)
LEMMA CopyStep ==
  ASSUME NEW m, NEW g, NEW kroot, NEW root, CanCopy(m, g, kroot, root),
         NEW k \in Nat, KV + k < NV, NEW r, r.ret = 0, NEW h, Copies(m, g, r.m, h, kroot, root, k),
         NEW x, x = CopyEntry(r, kroot, root, KV + k)
  PROVE  CopiedBy(m, g, x, kroot, root, k + 1)
<1>1. PICK v : v = KV + k
  OBVIOUS
<1>2. KV \in Nat /\ v \in KV .. NV - 1 /\ KV \in KV .. NV - 1
  BY <1>1, KernelBegins, Products
<1>3. /\ v \in Vpn /\ v \in Nat /\ H2(v) \in Index /\ H1(v) \in Index /\ H0(v) \in Index
      /\ KV \in Vpn /\ H2(KV) \in Index /\ H1(KV) \in Index /\ H0(KV) \in Index
  BY <1>2, KernelPages
<1>4. PICK n : n = r.m
  OBVIOUS
<1>5. Copies(m, g, n, h, kroot, root, k) /\ Up(n) /\ Shape(n, h) /\ Ext(g, h)
  BY <1>4 DEF Copies
<1>6. /\ root \in Page /\ kroot \in Page /\ root # kroot /\ g.role[root] = "root" /\ g.role[kroot] = "root"
      /\ Shape(m, g)
  BY DEF CanCopy
<1>7. h.role[root] = "root" /\ h.role[kroot] = "root"
  BY <1>5, <1>6, ExtRoots
<1>8. NoSelf(m.pt, kroot) /\ NoSelf(n.pt, kroot) /\ NoSelf(n.pt, root)
  BY <1>5, <1>6, NoPteType DEF CanCopy, Copies, NoSelf, SelfSame, NoPte
<1>9. PICK pte : pte = At(m.pt, kroot, v)
  OBVIOUS
<1>10. entry(n, kroot, v * PAGE_SIZE) = pte
  <2>1. n.pt[kroot][H2(v)].kind # "user"
    BY <1>3, <1>8 DEF NoSelf
  <2>2. entry(n, kroot, v * PAGE_SIZE) = At(n.pt, kroot, v)
    BY ONLY <2>1, <1>3, <1>5, <1>6, <1>7, EntryIs
  <2>3. At(n.pt, kroot, v) = At(m.pt, kroot, v)
    BY <1>3, <1>5, <1>6, <1>8 DEF At, Copies, NoSelf
  <2> QED BY <2>2, <2>3, <1>9
<1>11. pte \in Pte /\ (pte = NoPte \/ pte.kind = "leaf")
  <2>1. m.pt[kroot][H2(v)].kind # "user"
    BY <1>3, <1>8 DEF NoSelf
  <2>2. At(m.pt, kroot, v) \in Pte
    BY ONLY <2>1, <1>3, <1>6, AtType
  <2> QED BY <2>2, <1>3, <1>9 DEF CanCopy, Plain, At
<1>12. x = CopyPage(r, pte, root, v)
  BY <1>1, <1>4, <1>10 DEF CopyEntry
<1>13. CASE pte = NoPte
  <2>1. x = r
    BY <1>12, <1>13 DEF CopyPage
  <2>2. At(n.pt, root, v) = NoPte
    <3>1. v \notin KV .. KV + k - 1
      BY <1>1, <1>2
    <3> QED BY <3>1, <1>3, <1>5 DEF Copies
  <2>3. SameBut(n.pt, n.pt, h, root, H2(v), H1(v), H0(v), At(m.pt, kroot, v))
    BY <2>2, <1>9, <1>13 DEF SameBut, SelfSame, At
  <2>4. Ext(h, h)
    BY ExtSelf
  <2>5. At(m.pt, kroot, v) = NoPte \/ At(m.pt, kroot, v).kind = "leaf"
    BY <1>9, <1>13
  <2>6. Copies(m, g, n, h, kroot, root, k + 1)
    BY ONLY <2>3, <2>4, <2>5, <1>1, <1>3, <1>5, CanCopy(m, g, kroot, root), k \in Nat, CopiesMore
  <2> QED BY <2>1, <2>6, <1>4 DEF CopiedBy
<1>14. CASE pte # NoPte
  <2>1. PICK pa : pa = pte.pa
    OBVIOUS
  <2>2. PICK kind : kind = pte.kind
    OBVIOUS
  <2>3. pa \in 0 .. KFRAME /\ kind \in {"leaf", "user"} /\ kind # "user" /\ pte = [pa |-> pa, kind |-> kind]
    BY <2>1, <2>2, <1>11, <1>14 DEF Pte
  <2>4. PICK z : z = mappages(n, root, v * PAGE_SIZE, PAGE_SIZE, pa, kind)
    OBVIOUS
  <2>5. x = Copied(z, root, v)
    BY <1>4, <1>5, <1>12, <1>14, <2>1, <2>2, <2>4 DEF CopyPage
  <2>6. MapDone(n, h, z, root, v, pa, kind) \/ MapFailed(n, h, z) \/ Panicked(z)
    <3>1. n.pt[root][H2(v)].kind # "user"
      BY <1>3, <1>8 DEF NoSelf
    <3> QED BY ONLY <3>1, <2>3, <2>4, <1>3, <1>5, <1>6, <1>7, MapOnePage
  <2>7. CASE Panicked(z)
    <3>1. x = z
      BY <2>5, <2>7 DEF Copied, Panicked
    <3> QED BY <3>1, <2>7 DEF CopiedBy, Panicked, Dead
  <2>8. CASE MapFailed(n, h, z)
    <3>1. PICK f : f = z.m
      OBVIOUS
    <3>2. PICK e : Shape(f, e) /\ Ext(h, e)
      BY <2>8, <3>1 DEF MapFailed
    <3>3. Up(f) /\ z.ret = -1 /\ Same(n.pt, f.pt, h)
      BY <2>8, <3>1 DEF MapFailed
    <3>4. e.role[root] = "root"
      BY <1>6, <1>7, <3>2, ExtRoots
    <3>5. f.pt[root][H2(KV)].kind # "user" /\ (At(f.pt, root, KV) = NoPte \/ At(f.pt, root, KV).kind = "leaf")
      <4>1. n.pt[root][H2(KV)].kind # "user"
        BY <1>3, <1>8 DEF NoSelf
      <4>2. f.pt[root][H2(KV)].kind # "user" /\ At(f.pt, root, KV) = At(n.pt, root, KV)
        BY <4>1, <3>3, <1>3, <1>6, <1>7 DEF Same, SelfSame, At
      <4> QED BY <4>2, <1>3, <1>5 DEF Copies, Plain, At
    <3>6. PICK u : u = uvmunmap(f, root, KBASE, v, FALSE)
      OBVIOUS
    <3>7. u \in Memory
      <4>1. u = uvmunmap(f, root, KV * PAGE_SIZE, v, FALSE)
        BY <3>6, KernelBegins
      <4> QED BY ONLY <4>1, <3>2, <3>3, <3>4, <3>5, <1>3, <1>6, UnmapForget
    <3>8. x.m = u /\ x.ret = -1
      BY ONLY <2>5, <3>1, <3>3, <3>6, CopiedFails
    <3> QED BY <3>7, <3>8 DEF CopiedBy
  <2>9. CASE MapDone(n, h, z, root, v, pa, kind)
    <3>1. PICK f : f = z.m
      OBVIOUS
    <3>2. PICK e : Shape(f, e) /\ Ext(h, e)
      BY <2>3, <2>9, <3>1 DEF MapDone, Mapped
    <3>3. Up(f) /\ z.ret = 0 /\ SameBut(n.pt, f.pt, h, root, H2(v), H1(v), H0(v), At(m.pt, kroot, v))
      BY <2>3, <2>9, <3>1, <1>9 DEF MapDone
    <3>4. At(m.pt, kroot, v) = NoPte \/ At(m.pt, kroot, v).kind = "leaf"
      BY <1>9, <1>11
    <3>5. Copies(m, g, f, e, kroot, root, k + 1)
      BY ONLY <3>2, <3>3, <3>4, <1>1, <1>3, <1>5, CanCopy(m, g, kroot, root), k \in Nat, CopiesMore
    <3>6. x = z
      BY <2>5, <3>3 DEF Copied
    <3> QED BY <3>1, <3>3, <3>5, <3>6 DEF CopiedBy
  <2> QED BY <2>6, <2>7, <2>8, <2>9
<1> QED BY <1>13, <1>14

(* The k-th round of the loop of kvm_copy_to_user_pagetable. *)
CopyRound(r, kroot, root, k) == CopyEntry(r, kroot, root, KBASE \div PAGE_SIZE + k - 1)

(* The loop of kvm_copy_to_user_pagetable. *)
CopyRun(f, x, kroot, root, n) ==
  f = [k \in 0 .. n |-> IF k = 0 THEN x ELSE CopyRound(f[k - 1], kroot, root, k)]

(* It is defined. *)
LEMMA CopyRuns ==
  ASSUME NEW x, NEW kroot, NEW root, NEW n \in Nat
  PROVE  \E f : CopyRun(f, x, kroot, root, n)
<1> DEFINE Good == {k \in 0 .. n : \E f : CopyRun(f, x, kroot, root, k)}
<1>1. 0 \in Good
  <2>1. PICK f : f = [k \in 0 .. 0 |-> x]
    OBVIOUS
  <2>2. CopyRun(f, x, kroot, root, 0)
    BY <2>1 DEF CopyRun
  <2> QED BY <2>2
<1>2. ASSUME NEW k \in 1 .. n, k - 1 \in Good PROVE k \in Good
  <2>1. PICK f : CopyRun(f, x, kroot, root, k - 1)
    BY <1>2
  <2>2. PICK y : y = CopyRound(f[k - 1], kroot, root, k)
    OBVIOUS
  <2>3. PICK h : h = [j \in 0 .. k |-> IF j = k THEN y ELSE f[j]]
    OBVIOUS
  <2>4. \A j \in 0 .. k - 1 : f[j] = IF j = 0 THEN x ELSE CopyRound(f[j - 1], kroot, root, j)
    BY <2>1 DEF CopyRun
  <2>5. \A j \in 1 .. k : h[j - 1] = f[j - 1]
    BY <2>3
  <2>6. \A j \in 0 .. k : (IF j = k THEN y ELSE f[j]) = IF j = 0 THEN x ELSE CopyRound(h[j - 1], kroot, root, j)
    <3> SUFFICES ASSUME NEW j \in 0 .. k
                 PROVE  (IF j = k THEN y ELSE f[j]) = IF j = 0 THEN x ELSE CopyRound(h[j - 1], kroot, root, j)
      OBVIOUS
    <3>1. j # 0 => h[j - 1] = f[j - 1]
      BY <2>5
    <3>2. CASE j = k
      BY <3>1, <3>2, <2>2
    <3>3. CASE j # k
      BY <3>1, <3>3, <2>4
    <3> QED BY <3>2, <3>3
  <2>7. CopyRun(h, x, kroot, root, k)
    BY <2>3, <2>6 DEF CopyRun
  <2> QED BY <2>7
<1>3. \A k \in 0 .. n : k \in Good
  <2> HIDE DEF Good
  <2> QED BY <1>1, <1>2, Rounds
<1> QED BY <1>3

(* kvm_copy_to_user_pagetable copies every page of the kernel part, or       *)
(* fails.                                                                    *)
LEMMA CopyIs ==
  ASSUME NEW m, NEW g, NEW kroot, NEW root, CanCopy(m, g, kroot, root),
         NEW x, x = kvm_copy_to_user_pagetable(m, kroot, root)
  PROVE  CopiedBy(m, g, x, kroot, root, NV - KV)
<1>1. PICK n : n = (MAXVA - KBASE) \div PAGE_SIZE
  OBVIOUS
<1>2. n = NV - KV /\ n \in Nat /\ KV \in Nat /\ NV \in Nat
  <2>1. NV - KV \in Nat /\ KV \in Nat /\ NV \in Nat
    BY KernelBegins, Products
  <2>2. (NV - KV) * PAGE_SIZE = NV * PAGE_SIZE - KV * PAGE_SIZE
    BY <2>1, Sizes
  <2>3. ((NV - KV) * PAGE_SIZE) \div PAGE_SIZE = NV - KV
    BY <2>1, PageNumber
  <2> QED BY <2>1, <2>2, <2>3, <1>1, Products, KernelBegins
<1>3. PICK y : y = [m |-> m, ret |-> 0]
  OBVIOUS
<1>4. PICK f : f = CHOOSE h : CopyRun(h, y, kroot, root, n)
  OBVIOUS
<1>5. x = f[n]
  BY <1>1, <1>3, <1>4 DEF kvm_copy_to_user_pagetable, For, CopyRun, CopyRound
<1>6. CopyRun(f, y, kroot, root, n)
  BY <1>2, <1>4, CopyRuns
<1>7. f[0] = y /\ \A k \in 1 .. n : f[k] = CopyEntry(f[k - 1], kroot, root, KV + (k - 1))
  <2>1. f[0] = y /\ \A k \in 1 .. n : f[k] = CopyRound(f[k - 1], kroot, root, k)
    BY <1>2, <1>6 DEF CopyRun
  <2>2. \A k \in 1 .. n : KBASE \div PAGE_SIZE + k - 1 = KV + (k - 1)
    BY <1>2 DEF KV
  <2> QED BY <2>1, <2>2 DEF CopyRound
<1> DEFINE Good == {k \in 0 .. n : CopiedBy(m, g, f[k], kroot, root, k)}
<1>8. 0 \in Good
  <2>1. Copies(m, g, m, g, kroot, root, 0)
    BY CopiesNone
  <2>2. f[0].ret = 0 /\ f[0].m = m
    BY <1>3, <1>7
  <2> QED BY <1>2, <2>1, <2>2 DEF CopiedBy
<1>9. ASSUME NEW k \in 1 .. n, k - 1 \in Good PROVE k \in Good
  <2>1. PICK r : r = f[k - 1]
    OBVIOUS
  <2>2. PICK j : j = k - 1
    OBVIOUS
  <2>3. f[k] = CopyEntry(r, kroot, root, KV + j) /\ j \in Nat /\ k = j + 1 /\ KV + j < NV
    BY <1>2, <1>7, <2>1, <2>2
  <2>4. CopiedBy(m, g, r, kroot, root, j)
    BY <1>9, <2>1, <2>2
  <2>5. CASE Dead(r.m) \/ (r.ret # 0 /\ r.m \in Memory)
    <3>1. f[k] = r
      BY <2>3, <2>5 DEF CopyEntry, CopyPage, Dead
    <3>2. CopiedBy(m, g, f[k], kroot, root, k)
      BY <2>5, <3>1 DEF CopiedBy
    <3> QED BY <3>2
  <2>6. CASE r.ret = 0 /\ \E h : Copies(m, g, r.m, h, kroot, root, j)
    <3>1. PICK h : Copies(m, g, r.m, h, kroot, root, j)
      BY <2>6
    <3>2. CopiedBy(m, g, f[k], kroot, root, j + 1)
      BY <2>3, <2>6, <3>1, CopyStep
    <3> QED BY <3>2, <2>3
  <2> QED BY <2>4, <2>5, <2>6 DEF CopiedBy
<1>10. CopiedBy(m, g, f[n], kroot, root, n)
  <2>1. \A k \in 0 .. n : k \in Good
    <3> HIDE DEF Good
    <3> QED BY <1>2, <1>8, <1>9, Rounds
  <2> QED BY <1>2, <2>1
<1> QED BY <1>2, <1>5, <1>10

-----------------------------------------------------------------------------
(* The tables of a tree, and the self-mapping. *)

(* Membership in Below. *)
LEMMA BelowIs ==
  ASSUME NEW p, NEW tables, NEW x
  PROVE  x \in Below(p, tables) <=>
           \E t \in tables, i \in Index : p[t][i].kind = "table" /\ x = p[t][i].pa
<1>1. ASSUME NEW t \in tables, NEW i \in Index, p[t][i].kind = "table" PROVE p[t][i].pa \in Below(p, tables)
  <2>1. <<t, i>> \in {s \in tables \X Index : p[s[1]][s[2]].kind = "table"}
    BY <1>1
  <2> QED BY <2>1 DEF Below
<1>2. ASSUME x \in Below(p, tables) PROVE \E t \in tables, i \in Index : p[t][i].kind = "table" /\ x = p[t][i].pa
  BY <1>2 DEF Below
<1> QED BY <1>1, <1>2

(* The tables of a tree. *)
InTree(g, r, p) ==
  \/ p = r
  \/ p \in Page /\ g.role[p] = "mid" /\ g.up[p] = r
  \/ p \in Page /\ g.role[p] = "low" /\ g.up[g.up[p]] = r

(* The tables of the tree under a root, in terms of the ghost. *)
LEMMA TablesIs ==
  ASSUME NEW m, NEW g, Shape(m, g), NEW r \in Page, g.role[r] = "root", NEW p
  PROVE  p \in Tables(m.pt, r) <=> InTree(g, r, p)
<1>0. g \in Ghost
  BY DEF Shape
<1>1. \A x : x \in Below(m.pt, {r}) <=> x \in Page /\ g.role[x] = "mid" /\ g.up[x] = r
  <2> SUFFICES ASSUME NEW x PROVE x \in Below(m.pt, {r}) <=> x \in Page /\ g.role[x] = "mid" /\ g.up[x] = r
    OBVIOUS
  <2>1. x \in Below(m.pt, {r}) <=> \E i \in Index : m.pt[r][i].kind = "table" /\ x = m.pt[r][i].pa
    BY BelowIs
  <2>2. ASSUME NEW i \in Index, m.pt[r][i].kind = "table", x = m.pt[r][i].pa
        PROVE  x \in Page /\ g.role[x] = "mid" /\ g.up[x] = r
    <3>1. m.pt[r][i].kind # "user" /\ m.pt[r][i] # NoPte
      BY <2>2 DEF NoPte
    <3>2. LET y == m.pt[r][i].pa IN y \in Page /\ g.role[y] = "mid" /\ g.up[y] = r
      BY ONLY <3>1, Shape(m, g), r \in Page, g.role[r] = "root", i \in Index, PathMid
    <3> QED BY <2>2, <3>2
  <2>3. ASSUME x \in Page, g.role[x] = "mid", g.up[x] = r
        PROVE  \E i \in Index : m.pt[r][i].kind = "table" /\ x = m.pt[r][i].pa
    <3>1. g.ix[x] \in Index /\ m.pt[r][g.ix[x]] = Link("root", x)
      BY <2>3, <1>0 DEF Shape, UpShape, Ghost
    <3> QED BY <3>1 DEF Link
  <2> QED BY <2>1, <2>2, <2>3
<1>2. ASSUME NEW x PROVE x \in Below(m.pt, Below(m.pt, {r})) <=> x \in Page /\ g.role[x] = "low" /\ g.up[g.up[x]] = r
  <2>1. x \in Below(m.pt, Below(m.pt, {r})) <=>
          \E q \in Below(m.pt, {r}), i \in Index : m.pt[q][i].kind = "table" /\ x = m.pt[q][i].pa
    BY BelowIs
  <2>2. ASSUME NEW q \in Below(m.pt, {r}), NEW i \in Index, m.pt[q][i].kind = "table", x = m.pt[q][i].pa
        PROVE  x \in Page /\ g.role[x] = "low" /\ g.up[g.up[x]] = r
    <3>1. q \in Page /\ g.role[q] = "mid" /\ g.up[q] = r /\ m.pt[q][i] # NoPte
      BY <1>1, <2>2, SMTT(30) DEF NoPte
    <3>2. LET y == m.pt[q][i].pa IN y \in Page /\ g.role[y] = "low" /\ g.up[y] = q
      BY ONLY <3>1, Shape(m, g), i \in Index, PathLow
    <3> QED BY <2>2, <3>1, <3>2
  <2>3. ASSUME x \in Page, g.role[x] = "low", g.up[g.up[x]] = r
        PROVE  \E q \in Below(m.pt, {r}), i \in Index : m.pt[q][i].kind = "table" /\ x = m.pt[q][i].pa
    <3>1. PICK q : q = g.up[x]
      OBVIOUS
    <3>2. q \in Page /\ g.ix[x] \in Index /\ g.role[q] \in Inner /\ Lower(g.role[q]) = "low"
            /\ m.pt[q][g.ix[x]] = Link(g.role[q], x)
      BY <2>3, <1>0, <3>1 DEF Shape, UpShape, Ghost
    <3>3. g.role[q] = "mid"
      BY <3>2 DEF Lower, Inner
    <3>4. q \in Below(m.pt, {r})
      BY <1>1, <2>3, <3>1, <3>2, <3>3
    <3>5. m.pt[q][g.ix[x]].kind = "table" /\ m.pt[q][g.ix[x]].pa = x
      BY <3>2, <3>3 DEF Link
    <3> QED BY <3>2, <3>4, <3>5
  <2> QED BY <2>1, <2>2, <2>3
<1> QED BY <1>1, <1>2 DEF Tables, InTree

(* The tables under the entry of root that leads to envs[]. *)
Cut(g, root, p) ==
  \/ g.role[p] = "mid" /\ g.up[p] = root /\ g.ix[p] = FAN2 - 2
  \/ g.role[p] = "low" /\ g.up[g.up[p]] = root /\ g.ix[g.up[p]] = FAN2 - 2

(* The ghost after the self-mapping has cut off the tables below its entry. *)
CutOff(g, root) == [g EXCEPT !.role = [p \in Page |-> IF Cut(g, root, p) THEN "lost" ELSE g.role[p]]]

(* What CutOff changes, and what it does not. *)
LEMMA CutOffIs ==
  ASSUME NEW g \in Ghost, NEW root, NEW e, e = CutOff(g, root)
  PROVE  /\ e \in Ghost /\ e.up = g.up /\ e.ix = g.ix
         /\ \A p \in Page : e.role[p] = IF Cut(g, root, p) THEN "lost" ELSE g.role[p]
  BY DEF CutOff, Ghost, Role

(* Nothing of a user is lost with them. *)
LEMMA NoDataCut ==
  ASSUME NEW m, NEW g, Shape(m, g), NEW root \in Page, g.role[root] = "root", Plain(m.pt, root),
         NEW p \in Page, g.role[p] = "data"
  PROVE  ~Cut(g, root, g.up[p])
<1>1. g \in Ghost
  BY DEF Shape
<1>2. PICK l : l = g.up[p]
  OBVIOUS
<1>3. PICK c : c = g.ix[p]
  OBVIOUS
<1>4. l \in Page /\ c \in Index /\ g.role[l] \in Inner /\ Lower(g.role[l]) = "data" /\ m.pt[l][c] = Link(g.role[l], p)
  BY <1>1, <1>2, <1>3 DEF Shape, UpShape, Ghost
<1>5. g.role[l] = "low" /\ m.pt[l][c] = UserAt(p)
  BY <1>4 DEF Lower, Inner, Link, UserAt
<1>6. SUFFICES ASSUME g.up[g.up[l]] = root, g.ix[g.up[l]] = FAN2 - 2 PROVE FALSE
  BY <1>2, <1>5 DEF Cut
<1>7. PICK q : q = g.up[l]
  OBVIOUS
<1>8. PICK b : b = g.ix[l]
  OBVIOUS
<1>9. q \in Page /\ b \in Index /\ g.role[q] \in Inner /\ Lower(g.role[q]) = "low" /\ m.pt[q][b] = Link(g.role[q], l)
  BY <1>1, <1>4, <1>5, <1>7, <1>8 DEF Shape, UpShape, Ghost
<1>10. g.role[q] = "mid" /\ m.pt[q][b] # NoPte /\ m.pt[q][b].pa = l
  BY <1>9 DEF Lower, Inner, Link, NoPte
<1>11. m.pt[root][FAN2 - 2] = Link("root", q)
  BY <1>6, <1>7, <1>9, <1>10 DEF Shape, UpShape
<1>12. m.pt[root][FAN2 - 2] # NoPte /\ m.pt[root][FAN2 - 2].pa = q
  BY <1>11 DEF Link, NoPte
<1>13. Ent(m.pt, root, FAN2 - 2, b, c) = UserAt(p)
  BY <1>5, <1>10, <1>12 DEF Ent
<1>14. Ent(m.pt, root, FAN2 - 2, b, c) = NoPte \/ Ent(m.pt, root, FAN2 - 2, b, c).kind = "leaf"
  BY <1>4, <1>9, IndexRange DEF Plain
<1> QED BY ONLY <1>13, <1>14 DEF UserAt, NoPte

(* The self-mapping cuts them off. *)
LEMMA CutShape ==
  ASSUME NEW m, NEW g, Shape(m, g), NEW root \in Page, g.role[root] = "root", Plain(m.pt, root),
         NEW n, n = Write(m, [table |-> root, index |-> FAN2 - 2], UserAt(root)),
         NEW e, e = CutOff(g, root)
  PROVE  Shape(n, e)
<1>1. g \in Ghost /\ m \in Memory /\ FAN2 - 2 \in Index
  BY IndexRange DEF Shape
<1>2. UserAt(root) \in Pte
  BY Pool DEF UserAt, Pte, Kind
<1>3. /\ n \in Memory /\ n.free = m.free /\ n.pt[root][FAN2 - 2] = UserAt(root)
      /\ \A q \in Page, j \in Index : q # root \/ j # FAN2 - 2 => n.pt[q][j] = m.pt[q][j]
  BY ONLY <1>1, <1>2, root \in Page, n = Write(m, [table |-> root, index |-> FAN2 - 2], UserAt(root)), WriteIs
<1>4. /\ e \in Ghost /\ e.up = g.up /\ e.ix = g.ix
      /\ \A p \in Page : e.role[p] = IF Cut(g, root, p) THEN "lost" ELSE g.role[p]
  BY ONLY <1>1, e = CutOff(g, root), CutOffIs
<1>5. DownShape(n, e)
  <2> SUFFICES ASSUME NEW p \in Page, NEW i \in Index, e.role[p] \in Inner
               PROVE  Loose(e.role[p], p, i, n.pt[p][i]) \/ Owning(e, p, i, n.pt[p][i])
    BY DEF DownShape
  <2>1. ~Cut(g, root, p) /\ e.role[p] = g.role[p] /\ g.role[p] \in Inner
    BY <1>4 DEF Inner
  <2>2. CASE p = root /\ i = FAN2 - 2
    BY <2>1, <2>2, <1>3 DEF Loose
  <2>3. CASE ~(p = root /\ i = FAN2 - 2)
    <3>1. n.pt[p][i] = m.pt[p][i]
      BY <2>3, <1>3
    <3>2. Loose(g.role[p], p, i, m.pt[p][i]) \/ Owning(g, p, i, m.pt[p][i])
      BY <2>1 DEF Shape, DownShape
    <3>3. ASSUME Owning(g, p, i, m.pt[p][i]) PROVE Owning(e, p, i, m.pt[p][i])
      <4>1. PICK t \in Page : t = m.pt[p][i].pa
        BY <3>3 DEF Owning
      <4>2. m.pt[p][i] = Link(g.role[p], t) /\ g.role[t] = Lower(g.role[p]) /\ g.up[t] = p /\ g.ix[t] = i
        BY <3>3, <4>1 DEF Owning
      <4>3. ~Cut(g, root, t)
        <5>1. g.role[t] = "low" => g.role[p] = "mid"
          BY <4>2, <2>1 DEF Lower, Inner
        <5>2. CASE g.role[t] = "mid"
          BY <5>2, <4>2, <2>3 DEF Cut
        <5>3. CASE g.role[t] = "low"
          BY <5>1, <5>3, <4>2, <2>1 DEF Cut
        <5> QED BY <5>2, <5>3 DEF Cut
      <4>4. e.role[t] = g.role[t] /\ e.up[t] = p /\ e.ix[t] = i
        BY <4>2, <4>3, <1>4
      <4> QED BY <4>1, <4>2, <4>4, <2>1 DEF Owning
    <3> QED BY <2>1, <3>1, <3>2, <3>3
  <2> QED BY <2>2, <2>3
<1>6. UpShape(n, e)
  <2> SUFFICES ASSUME NEW p \in Page, e.role[p] \in {"mid", "low", "data"}
               PROVE  /\ e.role[e.up[p]] \in Inner
                      /\ e.role[p] = Lower(e.role[e.up[p]])
                      /\ n.pt[e.up[p]][e.ix[p]] = Link(e.role[e.up[p]], p)
    BY DEF UpShape
  <2>1. ~Cut(g, root, p) /\ e.role[p] = g.role[p]
    BY <1>4
  <2>2. PICK t : t = g.up[p]
    OBVIOUS
  <2>3. PICK i : i = g.ix[p]
    OBVIOUS
  <2>4. /\ t \in Page /\ i \in Index /\ g.role[t] \in Inner /\ g.role[p] = Lower(g.role[t])
        /\ m.pt[t][i] = Link(g.role[t], p)
    BY <1>1, <2>1, <2>2, <2>3 DEF Shape, UpShape, Ghost
  <2>5. ~Cut(g, root, t)
    <3>1. CASE g.role[p] = "mid"
      <4>1. g.role[t] = "root"
        BY <3>1, <2>4 DEF Lower, Inner
      <4> QED BY <4>1 DEF Cut
    <3>2. CASE g.role[p] = "low"
      <4>1. g.role[t] = "mid"
        BY <3>2, <2>4 DEF Lower, Inner
      <4> QED BY <4>1, <3>2, <2>1, <2>2 DEF Cut
    <3>3. CASE g.role[p] = "data"
      BY <3>3, <2>2, NoDataCut
    <3> QED BY <3>1, <3>2, <3>3, <2>1
  <2>6. ~(t = root /\ i = FAN2 - 2)
    <3>1. SUFFICES ASSUME t = root, i = FAN2 - 2 PROVE FALSE
      OBVIOUS
    <3>2. g.role[p] = "mid"
      BY <3>1, <2>4 DEF Lower
    <3> QED BY <3>1, <3>2, <2>1, <2>2, <2>3 DEF Cut
  <2>7. e.role[t] = g.role[t] /\ e.up[p] = t /\ e.ix[p] = i /\ n.pt[t][i] = m.pt[t][i]
    BY <2>2, <2>3, <2>4, <2>5, <2>6, <1>3, <1>4
  <2> QED BY <2>1, <2>4, <2>7
<1>7. \A p \in Page : e.role[p] = "free" <=> p \in n.free
  <2>1. \A p \in Page : Cut(g, root, p) => g.role[p] # "free"
    BY DEF Cut
  <2> QED BY <2>1, <1>3, <1>4 DEF Shape
<1> QED BY <1>3, <1>4, <1>5, <1>6, <1>7 DEF Shape

(* What they were is what the table does not reach any more. *)
LEMMA CutTables ==
  ASSUME NEW m, NEW g, Shape(m, g), NEW root \in Page, g.role[root] = "root",
         NEW n, NEW e, e = CutOff(g, root), Shape(n, e), NEW p \in Page
  PROVE  p \in Tables(m.pt, root) \ Tables(n.pt, root) <=> Cut(g, root, p)
<1>1. g \in Ghost
  BY DEF Shape
<1>2. /\ e.up = g.up /\ e.ix = g.ix
      /\ \A q \in Page : e.role[q] = IF Cut(g, root, q) THEN "lost" ELSE g.role[q]
  BY <1>1, CutOffIs
<1>3. ~Cut(g, root, root) /\ e.role[root] = "root"
  BY <1>2 DEF Cut
<1>4. p \in Tables(m.pt, root) <=> InTree(g, root, p)
  BY TablesIs
<1>5. p \in Tables(n.pt, root) <=> InTree(e, root, p)
  BY ONLY <1>3, Shape(n, e), root \in Page, TablesIs
<1>6. Cut(g, root, p) => InTree(g, root, p) /\ ~InTree(e, root, p)
  BY <1>2, <1>3 DEF Cut, InTree
<1>7. ~Cut(g, root, p) => (InTree(g, root, p) <=> InTree(e, root, p))
  BY <1>2 DEF InTree
<1> QED BY <1>4, <1>5, <1>6, <1>7

(* The rest of the tables is as it was. *)
LEMMA CutSame ==
  ASSUME NEW m, NEW g, Shape(m, g), NEW root \in Page, g.role[root] = "root",
         NEW n, n = Write(m, [table |-> root, index |-> FAN2 - 2], UserAt(root)),
         NEW r \in Page, g.role[r] = "root", NEW a \in Index, NEW b \in Index, NEW c \in Index,
         r # root \/ a # FAN2 - 2
  PROVE  /\ n.pt[r][a] = m.pt[r][a]
         /\ m.pt[r][a].kind # "user" => Ent(n.pt, r, a, b, c) = Ent(m.pt, r, a, b, c)
<1>1. g \in Ghost /\ m \in Memory /\ FAN2 - 2 \in Index
  BY IndexRange DEF Shape
<1>2. UserAt(root) \in Pte
  BY Pool DEF UserAt, Pte, Kind
<1>3. \A q \in Page, j \in Index : q # root \/ j # FAN2 - 2 => n.pt[q][j] = m.pt[q][j]
  BY ONLY <1>1, <1>2, root \in Page, n = Write(m, [table |-> root, index |-> FAN2 - 2], UserAt(root)), WriteIs
<1>4. n.pt[r][a] = m.pt[r][a]
  BY <1>3
<1>5. CASE m.pt[r][a].kind # "user" /\ m.pt[r][a] # NoPte
  <2>1. PICK q : q = m.pt[r][a].pa
    OBVIOUS
  <2>2. q \in Page /\ g.role[q] = "mid"
    <3>1. LET y == m.pt[r][a].pa IN y \in Page /\ g.role[y] = "mid"
      BY ONLY <1>5, Shape(m, g), r \in Page, g.role[r] = "root", a \in Index, PathMid
    <3> QED BY <2>1, <3>1
  <2>3. n.pt[q][b] = m.pt[q][b]
    BY <2>2, <1>3
  <2>4. m.pt[q][b] # NoPte => n.pt[m.pt[q][b].pa][c] = m.pt[m.pt[q][b].pa][c]
    <3>1. SUFFICES ASSUME m.pt[q][b] # NoPte PROVE n.pt[m.pt[q][b].pa][c] = m.pt[m.pt[q][b].pa][c]
      OBVIOUS
    <3>2. LET y == m.pt[q][b].pa IN y \in Page /\ g.role[y] = "low"
      BY ONLY <3>1, <2>2, Shape(m, g), b \in Index, PathLow
    <3> QED BY <3>2, <1>3
  <2> QED BY <1>4, <2>1, <2>3, <2>4 DEF Ent
<1>6. CASE m.pt[r][a] = NoPte
  BY <1>4, <1>6 DEF Ent
<1> QED BY <1>4, <1>5, <1>6

-----------------------------------------------------------------------------
(* The boot: MapImage and env_create_envs. *)

(* What is known of the kernel's table from the first page to the last. *)
BootTables(n, root) ==
  /\ NoSelf(n.pt, root) /\ Plain(n.pt, root)
  /\ \A v \in Vpn : v < KV => At(n.pt, root, v) = NoPte

(* The kernel's table is what it was. *)
LEMMA BootSame ==
  ASSUME NEW n, NEW q, NEW g, NEW root \in Page, g.role[root] = "root", BootTables(n, root), Same(n.pt, q.pt, g)
  PROVE  BootTables(q, root) /\ \A w \in Vpn : At(q.pt, root, w) = At(n.pt, root, w)
<1>1. NoSelf(q.pt, root)
  BY DEF BootTables, Same, SelfSame, NoSelf
<1>2. \A a, b, c \in Index : Ent(q.pt, root, a, b, c) = Ent(n.pt, root, a, b, c)
  BY DEF BootTables, Same, NoSelf
<1>3. \A w \in Vpn : H2(w) \in Index /\ H1(w) \in Index /\ H0(w) \in Index
  BY Indices, IndexRange
<1>4. \A w \in Vpn : At(q.pt, root, w) = At(n.pt, root, w)
  BY <1>2, <1>3 DEF At
<1>5. Plain(q.pt, root)
  BY <1>2 DEF Plain, BootTables
<1> QED BY <1>1, <1>4, <1>5 DEF BootTables

(* The kernel's table maps one page more. *)
LEMMA BootMore ==
  ASSUME NEW n, NEW q, NEW g, NEW root \in Page, g.role[root] = "root", BootTables(n, root),
         NEW v \in Vpn, v >= KV, NEW pte, pte.kind = "leaf",
         SameBut(n.pt, q.pt, g, root, H2(v), H1(v), H0(v), pte)
  PROVE  /\ BootTables(q, root)
         /\ \A w \in Vpn : At(q.pt, root, w) = IF w = v THEN pte ELSE At(n.pt, root, w)
<1>1. NoSelf(q.pt, root)
  BY DEF BootTables, SameBut, SelfSame, NoSelf
<1>2. \A a, b, c \in Index : Ent(q.pt, root, a, b, c) =
        IF a = H2(v) /\ b = H1(v) /\ c = H0(v) THEN pte ELSE Ent(n.pt, root, a, b, c)
  BY DEF BootTables, SameBut, NoSelf
<1>3. ASSUME NEW w \in Vpn PROVE At(q.pt, root, w) = IF w = v THEN pte ELSE At(n.pt, root, w)
  <2>1. H2(w) \in Index /\ H1(w) \in Index /\ H0(w) \in Index
    BY Indices, IndexRange
  <2>2. H2(w) = H2(v) /\ H1(w) = H1(v) /\ H0(w) = H0(v) => w = v
    BY SameIndices
  <2> QED BY <1>2, <2>1, <2>2 DEF At
<1>4. Plain(q.pt, root)
  BY <1>2 DEF Plain, BootTables
<1>5. \A w \in Vpn : w < KV => w # v
  BY KernelBegins, Products DEF Vpn
<1> QED BY <1>1, <1>3, <1>4, <1>5 DEF BootTables

(* kvmmap maps one page, or panics. *)
KvmDone(m, g, x, root, v, pa) ==
  /\ Up(x) /\ SameBut(m.pt, x.pt, g, root, H2(v), H1(v), H0(v), [pa |-> pa, kind |-> "leaf"])
  /\ \E h : Shape(x, h) /\ Ext(g, h)

(* kvmmap maps its page or panics. *)
LEMMA KvmStep ==
  ASSUME NEW m, NEW g, Shape(m, g), Up(m), NEW root \in Page, g.role[root] = "root", NoSelf(m.pt, root),
         NEW v \in Vpn, NEW pa \in 0 .. KFRAME, NEW x, x = kvmmap(m, root, v * PAGE_SIZE, pa)
  PROVE  Dead(x) \/ KvmDone(m, g, x, root, v, pa)
<1>1. PICK kind : kind = "leaf"
  OBVIOUS
<1>2. PICK z : z = mappages(m, root, v * PAGE_SIZE, PAGE_SIZE, pa, kind)
  OBVIOUS
<1>3. x = MapOrPanic(z)
  BY <1>1, <1>2 DEF kvmmap
<1>4. kind \in {"leaf", "user"} /\ (kind = "user" => pa = 0 \/ (pa \in Page /\ g.role[pa] = "held"))
  BY <1>1
<1>5. m.pt[root][H2(v)].kind # "user"
  BY Indices, IndexRange DEF NoSelf
<1>6. MapDone(m, g, z, root, v, pa, kind) \/ MapFailed(m, g, z) \/ Panicked(z)
  BY ONLY <1>2, <1>4, <1>5, Shape(m, g), Up(m), root \in Page, g.role[root] = "root", v \in Vpn, pa \in 0 .. KFRAME, MapOnePage
<1>7. CASE Panicked(z)
  BY <1>3, <1>7 DEF MapOrPanic, Panicked, Dead
<1>8. CASE MapFailed(m, g, z)
  <2>1. z.m \in Memory /\ x = Stop(z.m, "kvmmap")
    BY <1>3, <1>8 DEF MapOrPanic, MapFailed, Shape
  <2>2. "kvmmap" \in Who /\ "kvmmap" # "no"
    BY DEF Who
  <2> QED BY ONLY <2>1, <2>2, StopIs DEF Dead
<1>9. CASE MapDone(m, g, z, root, v, pa, kind)
  <2>1. x = z.m
    BY <1>3, <1>9 DEF MapOrPanic, MapDone
  <2>2. Mapped(g, pa, kind) = g
    BY <1>1 DEF Mapped
  <2> QED BY <2>1, <2>2, <1>1, <1>9 DEF MapDone, KvmDone
<1> QED BY <1>6, <1>7, <1>8, <1>9

(* After a panic kvmmap does nothing. *)
LEMMA KvmDead ==
  ASSUME NEW m, Dead(m), NEW root, NEW v \in Nat, NEW pa \in Nat
  PROVE  kvmmap(m, root, v * PAGE_SIZE, pa) = m
<1>1. mappages(m, root, v * PAGE_SIZE, PAGE_SIZE, pa, "leaf") = MapPage([m |-> m, ret |-> 0], root, v * PAGE_SIZE, pa, "leaf")
  BY MapOne
<1>2. MapPage([m |-> m, ret |-> 0], root, v * PAGE_SIZE, pa, "leaf") = [m |-> m, ret |-> 0]
  BY DEF MapPage, Dead
<1> QED BY <1>1, <1>2 DEF kvmmap, MapOrPanic

(* Who has which page while the kernel's table is built. *)
BootRoles(g, root, lostpages) ==
  \A p \in Page : /\ g.role[p] = "root" <=> p = root
                  /\ g.role[p] = "lost" <=> p \in lostpages
                  /\ g.role[p] \notin {"held", "data"}

(* New tables do not touch the roles of the boot. *)
LEMMA BootRolesExt ==
  ASSUME NEW g, NEW h, NEW root, NEW lostpages, BootRoles(g, root, lostpages), Ext(g, h)
  PROVE  BootRoles(h, root, lostpages) /\ \A p \in Page : h.role[p] = "env" <=> g.role[p] = "env"
  BY DEF BootRoles, Ext

(* The pages of the image are mapped, none is an env's yet. *)
ImageBy(n, root, lostpages) ==
  Dead(n) \/ \E g : /\ Up(n) /\ Shape(n, g) /\ BootTables(n, root) /\ BootRoles(g, root, lostpages)
                    /\ \A p \in Page : g.role[p] # "env"

(* A round of MapImage. *)
ImageRound(n, root, k) ==
  IF (k - 1) * PAGE_SIZE \in KVAS THEN kvmmap(n, root, (k - 1) * PAGE_SIZE, KFRAME) ELSE n

(* It keeps what the boot has made of memory. *)
LEMMA ImageStep ==
  ASSUME NEW n, NEW root \in Page, NEW lostpages, ImageBy(n, root, lostpages),
         NEW k \in Nat, k - 1 \in Vpn
  PROVE  ImageBy(ImageRound(n, root, k), root, lostpages)
<1>1. CASE (k - 1) * PAGE_SIZE \notin KVAS
  BY <1>1 DEF ImageRound
<1>2. CASE (k - 1) * PAGE_SIZE \in KVAS
  <2>1. PICK v \in Vpn : v = k - 1
    OBVIOUS
  <2>2. v \in Nat /\ KFRAME \in Nat /\ KFRAME \in 0 .. KFRAME
    BY Indices, Pool
  <2>3. PICK x : x = kvmmap(n, root, v * PAGE_SIZE, KFRAME)
    OBVIOUS
  <2>4. ImageRound(n, root, k) = x
    BY <1>2, <2>1, <2>3 DEF ImageRound
  <2>5. CASE Dead(n)
    BY <2>2, <2>3, <2>4, <2>5, KvmDead
  <2>6. CASE ~Dead(n)
    <3>1. PICK g : /\ Up(n) /\ Shape(n, g) /\ BootTables(n, root) /\ BootRoles(g, root, lostpages)
                   /\ \A p \in Page : g.role[p] # "env"
      BY <2>6 DEF ImageBy
    <3>2. g.role[root] = "root" /\ NoSelf(n.pt, root)
      BY <3>1 DEF BootRoles, BootTables
    <3>3. Dead(x) \/ KvmDone(n, g, x, root, v, KFRAME)
      BY ONLY <3>1, <3>2, <2>2, <2>3, v \in Vpn, root \in Page, KvmStep
    <3>4. CASE KvmDone(n, g, x, root, v, KFRAME)
      <4>1. PICK h : Shape(x, h) /\ Ext(g, h)
        BY <3>4 DEF KvmDone
      <4>2. v >= KV
        <5>1. v * PAGE_SIZE \in KVAS
          BY <1>2, <2>1
        <5>2. v * PAGE_SIZE >= KV * PAGE_SIZE
          <6>1. KVAS \subseteq KBASE .. ENVS(NENV - 1) - 1
            BY VmAssumption
          <6>2. ENVS(NENV - 1) - 1 \in Int
            <7>1. NENV \in 0 .. NENV /\ NENV \in Nat
              BY Sizes
            <7>2. UV + FF - 1 - NENV \in Vpn /\ ENVS(NENV - 1) = (UV + FF - 1 - NENV) * PAGE_SIZE
              BY <7>1, EnvsPlace
            <7> QED BY <7>1, <7>2, Products, Sizes
          <6>3. v * PAGE_SIZE >= KBASE
            <7>1. PICK top \in Int : top = ENVS(NENV - 1) - 1
              BY <6>2
            <7>2. PICK a : a = v * PAGE_SIZE
              OBVIOUS
            <7>3. a \in KBASE .. top
              BY <5>1, <6>1, <7>1, <7>2
            <7>4. a >= KBASE
              BY ONLY <7>3, top \in Int, Sizes
            <7> QED BY <7>2, <7>4
          <6> QED BY ONLY <6>3, KernelBegins
        <5>3. KV \in Nat /\ (v < KV => v * PAGE_SIZE < KV * PAGE_SIZE)
          BY <2>2, KernelBegins, PageOrder
        <5> QED BY <5>2, <5>3, <2>2, PageNumber
      <4>3. PICK pte : pte = [pa |-> KFRAME, kind |-> "leaf"]
        OBVIOUS
      <4>4. pte.kind = "leaf" /\ SameBut(n.pt, x.pt, g, root, H2(v), H1(v), H0(v), pte) /\ Up(x)
        BY <4>3, <3>4 DEF KvmDone
      <4>5. BootTables(x, root)
        BY ONLY <4>2, <4>4, <3>1, <3>2, v \in Vpn, root \in Page, BootMore
      <4>6. BootRoles(h, root, lostpages) /\ \A p \in Page : h.role[p] # "env"
        BY <3>1, <4>1, BootRolesExt
      <4> QED BY <2>4, <4>1, <4>4, <4>5, <4>6 DEF ImageBy
    <3> QED BY <3>3, <3>4, <2>4 DEF ImageBy
  <2> QED BY <2>5, <2>6
<1> QED BY <1>1, <1>2

(* The loop of MapImage. *)
ImageRun(f, x, root, n) == f = [k \in 0 .. n |-> IF k = 0 THEN x ELSE ImageRound(f[k - 1], root, k)]

(* It is defined. *)
LEMMA ImageRuns ==
  ASSUME NEW x, NEW root, NEW n \in Nat
  PROVE  \E f : ImageRun(f, x, root, n)
<1> DEFINE Good == {k \in 0 .. n : \E f : ImageRun(f, x, root, k)}
<1>1. 0 \in Good
  <2>1. PICK f : f = [k \in 0 .. 0 |-> x]
    OBVIOUS
  <2>2. ImageRun(f, x, root, 0)
    BY <2>1 DEF ImageRun
  <2> QED BY <2>2
<1>2. ASSUME NEW k \in 1 .. n, k - 1 \in Good PROVE k \in Good
  <2>1. PICK f : ImageRun(f, x, root, k - 1)
    BY <1>2
  <2>2. PICK y : y = ImageRound(f[k - 1], root, k)
    OBVIOUS
  <2>3. PICK h : h = [j \in 0 .. k |-> IF j = k THEN y ELSE f[j]]
    OBVIOUS
  <2>4. \A j \in 0 .. k - 1 : f[j] = IF j = 0 THEN x ELSE ImageRound(f[j - 1], root, j)
    BY <2>1 DEF ImageRun
  <2>5. \A j \in 1 .. k : h[j - 1] = f[j - 1]
    BY <2>3
  <2>6. \A j \in 0 .. k : (IF j = k THEN y ELSE f[j]) = IF j = 0 THEN x ELSE ImageRound(h[j - 1], root, j)
    <3> SUFFICES ASSUME NEW j \in 0 .. k
                 PROVE  (IF j = k THEN y ELSE f[j]) = IF j = 0 THEN x ELSE ImageRound(h[j - 1], root, j)
      OBVIOUS
    <3>1. j # 0 => h[j - 1] = f[j - 1]
      BY <2>5
    <3>2. CASE j = k
      BY <3>1, <3>2, <2>2
    <3>3. CASE j # k
      BY <3>1, <3>3, <2>4
    <3> QED BY <3>2, <3>3
  <2>7. ImageRun(h, x, root, k)
    BY <2>3, <2>6 DEF ImageRun
  <2> QED BY <2>7
<1>3. \A k \in 0 .. n : k \in Good
  <2> HIDE DEF Good
  <2> QED BY <1>1, <1>2, Rounds
<1> QED BY <1>3

(* The kernel's image is mapped, or the kernel has panicked. *)
LEMMA ImageIs ==
  ASSUME NEW m, NEW root \in Page, NEW lostpages, ImageBy(m, root, lostpages)
  PROVE  ImageBy(MapImage(m, root), root, lostpages)
<1>1. PICK n : n = ENVS(NENV - 1) \div PAGE_SIZE
  OBVIOUS
<1>2. n \in Vpn /\ n \in Nat
  <2>1. NENV \in 0 .. NENV
    BY Sizes
  <2>2. UV + FF - 1 - NENV \in Vpn /\ ENVS(NENV - 1) = (UV + FF - 1 - NENV) * PAGE_SIZE
    BY <2>1, EnvsPlace
  <2>3. UV + FF - 1 - NENV \in Nat
    BY <2>2, Indices
  <2>4. n = UV + FF - 1 - NENV
    BY <1>1, <2>2, <2>3, PageNumber
  <2> QED BY <2>2, <2>3, <2>4
<1>3. PICK f : f = CHOOSE h : ImageRun(h, m, root, n)
  OBVIOUS
<1>4. MapImage(m, root) = f[n]
  BY <1>1, <1>3 DEF MapImage, For, ImageRun, ImageRound
<1>5. ImageRun(f, m, root, n)
  BY <1>2, <1>3, ImageRuns
<1>6. f[0] = m /\ \A k \in 1 .. n : f[k] = ImageRound(f[k - 1], root, k)
  BY <1>2, <1>5 DEF ImageRun
<1> DEFINE Good == {k \in 0 .. n : ImageBy(f[k], root, lostpages)}
<1>7. 0 \in Good
  BY <1>2, <1>6
<1>8. ASSUME NEW k \in 1 .. n, k - 1 \in Good PROVE k \in Good
  <2>1. PICK r : r = f[k - 1]
    OBVIOUS
  <2>2. f[k] = ImageRound(r, root, k) /\ ImageBy(r, root, lostpages)
    BY <1>6, <1>8, <2>1
  <2>3. k \in Nat /\ k - 1 \in Vpn
    BY <1>2, Products DEF Vpn
  <2>4. ImageBy(f[k], root, lostpages)
    BY <2>2, <2>3, ImageStep
  <2> QED BY <2>4
<1>9. \A k \in 0 .. n : k \in Good
  <2> HIDE DEF Good
  <2> QED BY <1>2, <1>7, <1>8, Rounds
<1> QED BY <1>2, <1>4, <1>9

(* The page of envs[k - 1]. *)
EnvVpn(k) == UV + FF - 1 - k

(* The pages of envs[] lie in the kernel part, one for each env. *)
LEMMA EnvVpns ==
  ASSUME NEW k \in 0 .. NENV
  PROVE  /\ EnvVpn(k) \in Vpn /\ EnvVpn(k) >= KV /\ ENVS(k - 1) = EnvVpn(k) * PAGE_SIZE
         /\ EnvVpn(k) \in Nat
         /\ \A j \in 0 .. NENV : EnvVpn(j) = EnvVpn(k) => j = k
<1>1. EnvVpn(k) \in Vpn /\ EnvVpn(k) \in UV .. UV + FF - 1 /\ ENVS(k - 1) = EnvVpn(k) * PAGE_SIZE
  BY EnvsPlace DEF EnvVpn
<1>2. \A j \in 0 .. NENV : EnvVpn(j) = EnvVpn(k) => j = k
  BY Products, Sizes DEF EnvVpn
<1> QED BY <1>1, <1>2, KernelBegins, Products

(* The pages for the first k envs are there. *)
EnvsBy(n, root, lostpages, k) ==
  Dead(n) \/ \E g : /\ Up(n) /\ Shape(n, g) /\ BootTables(n, root) /\ BootRoles(g, root, lostpages)
                    /\ \A p \in Page : g.role[p] = "env" <=> \E j \in 1 .. k : At(n.pt, root, EnvVpn(j)).pa = p

(* A round of env_create_envs. *)
EnvRound(n, root, k) == IF Up(n) THEN MapEnv(kalloc(n), root, ENVS(k - 1)) ELSE n

(* It maps one page more for envs[], or panics. *)
LEMMA EnvStep ==
  ASSUME NEW n, NEW root \in Page, NEW lostpages, NEW k \in 1 .. NENV, EnvsBy(n, root, lostpages, k - 1),
         NEW x, x = EnvRound(n, root, k)
  PROVE  EnvsBy(x, root, lostpages, k)
<1>1. CASE Dead(n)
  BY <1>1 DEF EnvRound, Dead, EnvsBy
<1>2. CASE ~Dead(n)
  <2>1. PICK g : /\ Up(n) /\ Shape(n, g) /\ BootTables(n, root) /\ BootRoles(g, root, lostpages)
                 /\ \A p \in Page : g.role[p] = "env" <=> \E j \in 1 .. k - 1 : At(n.pt, root, EnvVpn(j)).pa = p
    BY <1>2 DEF EnvsBy
  <2>2. PICK v : v = EnvVpn(k)
    OBVIOUS
  <2>3. /\ v \in Vpn /\ v >= KV /\ ENVS(k - 1) = v * PAGE_SIZE /\ k \in 0 .. NENV
        /\ \A j \in 0 .. NENV : EnvVpn(j) = v => j = k
    BY <2>2, EnvVpns, Sizes
  <2>4. PICK y : y = kalloc(n)
    OBVIOUS
  <2>5. x = MapEnv(y, root, v * PAGE_SIZE)
    BY <2>1, <2>3, <2>4 DEF EnvRound
  <2>6. CASE n.free = {}
    <3>1. y.pa = 0 /\ y.m = n
      BY <2>4, <2>6, KallocNone
    <3>2. x = Stop(n, "env_create_envs: out of memory")
      BY <2>5, <3>1 DEF MapEnv, NULL
    <3>3. n \in Memory /\ "env_create_envs: out of memory" \in Who /\ "env_create_envs: out of memory" # "no"
      BY <2>1 DEF Shape, Who
    <3>4. Dead(x)
      BY ONLY <3>2, <3>3, StopIs DEF Dead
    <3> QED BY <3>4 DEF EnvsBy
  <2>7. CASE n.free # {}
    <3>1. PICK pa : pa = y.pa
      OBVIOUS
    <3>2. PICK g1 : g1 = Given(g, pa, "held")
      OBVIOUS
    <3>3. /\ pa \in Page /\ g.role[pa] = "free" /\ Shape(y.m, g1) /\ Same(n.pt, y.m.pt, g)
          /\ y.m.panic = n.panic
      BY ONLY <2>1, <2>4, <2>7, <3>1, <3>2, KallocIs
    <3>4. g1.role[pa] = "held" /\ \A p \in Page : p # pa => g1.role[p] = g.role[p]
      <4>1. g \in Ghost /\ "held" \in Role
        BY <2>1 DEF Shape, Role
      <4> QED BY ONLY <4>1, <3>2, <3>3, GivenIs
    <3>5. g.role[root] = "root" /\ g1.role[root] = "root"
      BY <2>1, <3>3, <3>4 DEF BootRoles
    <3>0. PICK q : q = y.m
      OBVIOUS
    <3>6. BootTables(q, root) /\ \A w \in Vpn : At(q.pt, root, w) = At(n.pt, root, w)
      <4>1. BootTables(n, root) /\ Same(n.pt, q.pt, g) /\ g.role[root] = "root"
        BY <2>1, <3>0, <3>3, <3>5
      <4> QED BY ONLY <4>1, root \in Page, BootSame
    <3>7. pa # 0 /\ pa \in 0 .. KFRAME /\ Up(q) /\ NoSelf(q.pt, root)
      BY <2>1, <3>0, <3>3, <3>6, Pool DEF Up, BootTables
    <3>8. x = kvmmap(q, root, v * PAGE_SIZE, pa)
      BY <2>5, <3>0, <3>1, <3>7 DEF MapEnv, NULL
    <3>9. Dead(x) \/ KvmDone(q, g1, x, root, v, pa)
      <4>1. Shape(q, g1)
        BY <3>0, <3>3
      <4> QED BY ONLY <4>1, <3>5, <3>7, <3>8, <2>3, root \in Page, KvmStep
    <3>10. CASE KvmDone(q, g1, x, root, v, pa)
      <4>1. PICK h : Shape(x, h) /\ Ext(g1, h)
        BY <3>10 DEF KvmDone
      <4>2. PICK e : e = Given(h, pa, "env")
        OBVIOUS
      <4>3. h.role[pa] = "held" /\ "env" \in {"env", "lost"} /\ "env" \in Role /\ h \in Ghost
        BY <3>3, <3>4, <4>1 DEF Ext, Role, Shape
      <4>4. Shape(x, e)
        BY ONLY <3>3, <4>1, <4>2, <4>3, Rename
      <4>5. e.role[pa] = "env" /\ \A p \in Page : p # pa => e.role[p] = h.role[p]
        BY ONLY <3>3, <4>2, <4>3, GivenIs
      <4>6. \A p \in Page : p # pa => IF g.role[p] = "free" THEN e.role[p] \in {"free", "mid", "low"}
                                      ELSE e.role[p] = g.role[p]
        BY <3>4, <4>1, <4>5 DEF Ext
      <4>7. BootRoles(e, root, lostpages)
        BY <2>1, <3>3, <4>5, <4>6 DEF BootRoles
      <4>8. PICK pte : pte = [pa |-> pa, kind |-> "leaf"]
        OBVIOUS
      <4>9. pte.kind = "leaf" /\ pte.pa = pa /\ SameBut(q.pt, x.pt, g1, root, H2(v), H1(v), H0(v), pte) /\ Up(x)
        BY <4>8, <3>10 DEF KvmDone
      <4>10. /\ BootTables(x, root)
             /\ \A w \in Vpn : At(x.pt, root, w) = IF w = v THEN pte ELSE At(q.pt, root, w)
        <5>1. BootTables(q, root) /\ v \in Vpn /\ v >= KV /\ g1.role[root] = "root"
                /\ pte.kind = "leaf" /\ SameBut(q.pt, x.pt, g1, root, H2(v), H1(v), H0(v), pte)
          BY <2>3, <3>5, <3>6, <4>9
        <5>2. BootTables(x, root)
          BY ONLY <5>1, root \in Page, BootMore
        <5>3. \A w \in Vpn : At(x.pt, root, w) = IF w = v THEN pte ELSE At(q.pt, root, w)
          BY ONLY <5>1, root \in Page, BootMore
        <5> QED BY <5>2, <5>3
      <4>11. ASSUME NEW p \in Page
             PROVE  e.role[p] = "env" <=> \E j \in 1 .. k : At(x.pt, root, EnvVpn(j)).pa = p
        <5>1. At(x.pt, root, EnvVpn(k)).pa = pa
          BY <2>2, <2>3, <4>9, <4>10
        <5>2. \A j \in 1 .. k - 1 : At(x.pt, root, EnvVpn(j)) = At(n.pt, root, EnvVpn(j))
          <6> SUFFICES ASSUME NEW j \in 1 .. k - 1 PROVE At(x.pt, root, EnvVpn(j)) = At(n.pt, root, EnvVpn(j))
            OBVIOUS
          <6>1. j \in 0 .. NENV /\ j # k
            BY Sizes
          <6>2. EnvVpn(j) \in Vpn /\ EnvVpn(j) # v
            BY <6>1, <2>3, EnvVpns
          <6> QED BY <6>2, <3>6, <4>10
        <5>3. \A j \in 1 .. k : j = k \/ j \in 1 .. k - 1
          OBVIOUS
        <5>4. \A j \in 1 .. k - 1 : j \in 1 .. k
          OBVIOUS
        <5>5. k \in 1 .. k
          OBVIOUS
        <5>6. (\E j \in 1 .. k : At(x.pt, root, EnvVpn(j)).pa = p) <=>
                p = pa \/ \E j \in 1 .. k - 1 : At(n.pt, root, EnvVpn(j)).pa = p
          BY <5>1, <5>2, <5>3, <5>4, <5>5
        <5>7. e.role[p] = "env" <=> p = pa \/ g.role[p] = "env"
          BY <4>5, <4>6
        <5> QED BY <5>6, <5>7, <2>1
      <4> QED BY <4>4, <4>7, <4>9, <4>10, <4>11 DEF EnvsBy
    <3> QED BY <3>9, <3>10 DEF EnvsBy
  <2> QED BY <2>6, <2>7
<1> QED BY <1>1, <1>2

(* The loop of env_create_envs. *)
EnvRun(f, x, root, n) == f = [k \in 0 .. n |-> IF k = 0 THEN x ELSE EnvRound(f[k - 1], root, k)]

(* It is defined. *)
LEMMA EnvRuns ==
  ASSUME NEW x, NEW root, NEW n \in Nat
  PROVE  \E f : EnvRun(f, x, root, n)
<1> DEFINE Good == {k \in 0 .. n : \E f : EnvRun(f, x, root, k)}
<1>1. 0 \in Good
  <2>1. PICK f : f = [k \in 0 .. 0 |-> x]
    OBVIOUS
  <2>2. EnvRun(f, x, root, 0)
    BY <2>1 DEF EnvRun
  <2> QED BY <2>2
<1>2. ASSUME NEW k \in 1 .. n, k - 1 \in Good PROVE k \in Good
  <2>1. PICK f : EnvRun(f, x, root, k - 1)
    BY <1>2
  <2>2. PICK y : y = EnvRound(f[k - 1], root, k)
    OBVIOUS
  <2>3. PICK h : h = [j \in 0 .. k |-> IF j = k THEN y ELSE f[j]]
    OBVIOUS
  <2>4. \A j \in 0 .. k - 1 : f[j] = IF j = 0 THEN x ELSE EnvRound(f[j - 1], root, j)
    BY <2>1 DEF EnvRun
  <2>5. \A j \in 1 .. k : h[j - 1] = f[j - 1]
    BY <2>3
  <2>6. \A j \in 0 .. k : (IF j = k THEN y ELSE f[j]) = IF j = 0 THEN x ELSE EnvRound(h[j - 1], root, j)
    <3> SUFFICES ASSUME NEW j \in 0 .. k
                 PROVE  (IF j = k THEN y ELSE f[j]) = IF j = 0 THEN x ELSE EnvRound(h[j - 1], root, j)
      OBVIOUS
    <3>1. j # 0 => h[j - 1] = f[j - 1]
      BY <2>5
    <3>2. CASE j = k
      BY <3>1, <3>2, <2>2
    <3>3. CASE j # k
      BY <3>1, <3>3, <2>4
    <3> QED BY <3>2, <3>3
  <2>7. EnvRun(h, x, root, k)
    BY <2>3, <2>6 DEF EnvRun
  <2> QED BY <2>7
<1>3. \A k \in 0 .. n : k \in Good
  <2> HIDE DEF Good
  <2> QED BY <1>1, <1>2, Rounds
<1> QED BY <1>3

(* All pages of envs[] are mapped, or the kernel has panicked. *)
LEMMA EnvsIs ==
  ASSUME NEW m, NEW root \in Page, NEW lostpages, ImageBy(m, root, lostpages)
  PROVE  EnvsBy(env_create_envs(m, root), root, lostpages, NENV)
<1>1. NENV \in Nat
  BY Sizes
<1>3. PICK f : f = CHOOSE h : EnvRun(h, m, root, NENV)
  OBVIOUS
<1>4. env_create_envs(m, root) = f[NENV]
  BY <1>3 DEF env_create_envs, For, EnvRun, EnvRound
<1>5. EnvRun(f, m, root, NENV)
  BY <1>1, <1>3, EnvRuns
<1>6. f[0] = m /\ \A k \in 1 .. NENV : f[k] = EnvRound(f[k - 1], root, k)
  BY <1>1, <1>5 DEF EnvRun
<1> DEFINE Good == {k \in 0 .. NENV : EnvsBy(f[k], root, lostpages, k)}
<1>7. 0 \in Good
  <2>1. 1 .. 0 = {}
    OBVIOUS
  <2>2. EnvsBy(m, root, lostpages, 0)
    BY <2>1 DEF ImageBy, EnvsBy
  <2> QED BY <1>1, <1>6, <2>2
<1>8. ASSUME NEW k \in 1 .. NENV, k - 1 \in Good PROVE k \in Good
  <2>1. PICK r : r = f[k - 1]
    OBVIOUS
  <2>2. f[k] = EnvRound(r, root, k) /\ EnvsBy(r, root, lostpages, k - 1)
    BY <1>6, <1>8, <2>1
  <2>4. EnvsBy(f[k], root, lostpages, k)
    BY <2>2, EnvStep
  <2> QED BY <2>4
<1>9. \A k \in 0 .. NENV : k \in Good
  <2> HIDE DEF Good
  <2> QED BY <1>1, <1>7, <1>8, Rounds
<1> QED BY <1>1, <1>4, <1>9

-----------------------------------------------------------------------------
(* The memory of all, and what the calls do to it. *)

(* The table of an env, k being the kernel's. *)
EnvTable(m, k, root) ==
  /\ m.pt[root][FAN2 - 2] = UserAt(root)
  /\ \A v \in Vpn : v >= KV /\ H2(v) # FAN2 - 2 => At(m.pt, root, v) = At(m.pt, k, v)
  /\ \A v \in 0 .. KV - 1 : At(m.pt, root, v) = NoPte \/ At(m.pt, root, v).kind = "user"

(* Who has which page. *)
Owners(m, g, k, tabs, lostpages) ==
  \A p \in Page : /\ g.role[p] = "root" <=> p = k \/ \E e \in Env : tabs[e] = p
                  /\ g.role[p] = "lost" <=> p \in lostpages
                  /\ g.role[p] = "env" <=> \E j \in 1 .. NENV : At(m.pt, k, EnvVpn(j)).pa = p
                  /\ g.role[p] # "held"

(* No two roots are the same. *)
Distinct(k, tabs) ==
  /\ k \in Page /\ tabs \in [Env -> Page \cup {NULL}]
  /\ \A e \in Env : tabs[e] # k
  /\ \A e, f \in Env : tabs[e] = tabs[f] /\ tabs[e] # NULL => e = f

(* The whole of memory, between two calls. *)
World(m, g, k, tabs, lostpages) ==
  /\ Shape(m, g) /\ Distinct(k, tabs) /\ Owners(m, g, k, tabs, lostpages)
  /\ BootTables(m, k)
  /\ \A e \in Env : tabs[e] # NULL => EnvTable(m, k, tabs[e])

(* The self-mapping is the only entry of a root that is not a table. *)
LEMMA RootEntry ==
  ASSUME NEW m, NEW g, Shape(m, g), NEW r \in Page, g.role[r] = "root", NEW a \in Index, a # FAN2 - 2
  PROVE  m.pt[r][a].kind # "user"
<1>1. Loose(g.role[r], r, a, m.pt[r][a]) \/ Owning(g, r, a, m.pt[r][a])
  BY DEF Shape, DownShape, Inner
<1> QED BY <1>1 DEF Loose, Owning, Link, NoPte

(* It is not in the user part. *)
LEMMA RootUserPart ==
  ASSUME NEW m, NEW g, Shape(m, g), NEW r \in Page, g.role[r] = "root"
  PROVE  UserPart(m, r)
  BY UserPages, RootEntry DEF UserPart

(* A page of the user part. *)
OfUser(a, b, c) == \E v \in 0 .. KV - 1 : a = H2(v) /\ b = H1(v) /\ c = H0(v)

(* Only the user part of root changes. *)
Touches(m, n, g, root) ==
  /\ SelfSame(m.pt, n.pt, g)
  /\ \A r \in Page, a, b, c \in Index :
       g.role[r] = "root" /\ m.pt[r][a].kind # "user" /\ (r # root \/ ~OfUser(a, b, c)) =>
         Ent(n.pt, r, a, b, c) = Ent(m.pt, r, a, b, c)
  /\ \A v \in 0 .. KV - 1 : At(n.pt, root, v) = NoPte \/ At(n.pt, root, v).kind = "user"

(* The roots and the pages of envs stay what they are. *)
Keeps(g, h, lostpages) ==
  \A p \in Page : /\ h.role[p] = "root" <=> g.role[p] = "root"
                  /\ h.role[p] = "env" <=> g.role[p] = "env"
                  /\ h.role[p] = "lost" <=> p \in lostpages
                  /\ h.role[p] # "held"

(* A call that changes only the user part of one env's table keeps the       *)
(* whole.                                                                    *)
LEMMA WorldKept ==
  ASSUME NEW m, NEW g, NEW k, NEW tabs, NEW L, World(m, g, k, tabs, L),
         NEW n, NEW h, Shape(n, h), NEW M, Keeps(g, h, M),
         NEW root, root # k, Touches(m, n, g, root)
  PROVE  World(n, h, k, tabs, M)
<1>1. Shape(m, g) /\ Distinct(k, tabs) /\ k \in Page /\ tabs \in [Env -> Page \cup {NULL}] /\ BootTables(m, k)
  BY DEF World, Distinct
<1>2. \A p \in Page : g.role[p] = "root" <=> p = k \/ \E e \in Env : tabs[e] = p
  BY DEF World, Owners
<1>3. g.role[k] = "root" /\ \A e \in Env : tabs[e] # NULL => tabs[e] \in Page /\ g.role[tabs[e]] = "root" /\ tabs[e] # k
  BY <1>1, <1>2 DEF Distinct
<1>4. NoSelf(m.pt, k)
  BY <1>1 DEF BootTables
<1>5. \A a, b, c \in Index : Ent(n.pt, k, a, b, c) = Ent(m.pt, k, a, b, c)
  BY <1>1, <1>3, <1>4 DEF Touches, NoSelf
<1>6. Same(m.pt, n.pt, [role |-> [p \in Page |-> IF p = k THEN "root" ELSE "free"]])
  <2>1. PICK d : d = [role |-> [p \in Page |-> IF p = k THEN "root" ELSE "free"]]
    OBVIOUS
  <2>2. \A p \in Page : d.role[p] = "root" <=> p = k
    BY <2>1
  <2>3. SelfSame(m.pt, n.pt, d)
    BY <2>2, <1>3 DEF Touches, SelfSame
  <2>4. Same(m.pt, n.pt, d)
    BY <2>2, <2>3, <1>5 DEF Same
  <2> QED BY <2>1, <2>4
<1>7. BootTables(n, k) /\ \A w \in Vpn : At(n.pt, k, w) = At(m.pt, k, w)
  <2>1. PICK d : d = [role |-> [p \in Page |-> IF p = k THEN "root" ELSE "free"]]
    OBVIOUS
  <2>2. d.role[k] = "root" /\ Same(m.pt, n.pt, d)
    BY <2>1, <1>1, <1>6
  <2> QED BY ONLY <2>2, <1>1, BootSame
<1>8. Owners(n, h, k, tabs, M)
  <2>1. \A j \in 1 .. NENV : At(n.pt, k, EnvVpn(j)) = At(m.pt, k, EnvVpn(j))
    <3>1. \A j \in 1 .. NENV : EnvVpn(j) \in Vpn
      BY EnvVpns, Sizes
    <3> QED BY <3>1, <1>7
  <2> QED BY <2>1 DEF World, Owners, Keeps
<1>9. ASSUME NEW e \in Env, tabs[e] # NULL PROVE EnvTable(n, k, tabs[e])
  <2>1. PICK r : r = tabs[e]
    OBVIOUS
  <2>2. r \in Page /\ g.role[r] = "root" /\ r # k /\ EnvTable(m, k, r)
    BY <1>3, <1>9, <2>1 DEF World
  <2>3. n.pt[r][FAN2 - 2] = UserAt(r)
    <3>1. PICK u : u = UserAt(r)
      OBVIOUS
    <3>2. u.kind = "user"
      BY <3>1 DEF UserAt
    <3>3. m.pt[r][FAN2 - 2] = u
      BY ONLY <3>1, <2>2 DEF EnvTable
    <3>4. PICK i \in Index : i = FAN2 - 2
      BY IndexRange
    <3>5. SelfSame(m.pt, n.pt, g)
      BY DEF Touches
    <3>6. n.pt[r][i] = m.pt[r][i]
      BY ONLY <2>2, <3>2, <3>3, <3>4, <3>5 DEF SelfSame
    <3> QED BY ONLY <3>1, <3>3, <3>4, <3>6
  <2>4. ASSUME NEW v \in Vpn, H2(v) # FAN2 - 2, r # root \/ v >= KV
        PROVE  At(n.pt, r, v) = At(m.pt, r, v)
    <3>1. H2(v) \in Index /\ H1(v) \in Index /\ H0(v) \in Index /\ v \in Nat /\ KV \in Nat
      BY Indices, IndexRange, KernelBegins
    <3>2. m.pt[r][H2(v)].kind # "user"
      BY ONLY <3>1, <2>4, <2>2, <1>1, RootEntry
    <3>3. v >= KV => ~OfUser(H2(v), H1(v), H0(v))
      <4>1. \A w \in 0 .. KV - 1 : w \in Vpn /\ (v >= KV => w # v)
        BY <3>1, UserPages
      <4> QED BY <4>1, SameIndices DEF OfUser
    <3> QED BY <3>1, <3>2, <3>3, <2>2, <2>4 DEF Touches, At
  <2>5. \A v \in Vpn : v >= KV /\ H2(v) # FAN2 - 2 => At(n.pt, r, v) = At(n.pt, k, v)
    BY <2>2, <2>4, <1>7 DEF EnvTable
  <2>6. \A v \in 0 .. KV - 1 : At(n.pt, r, v) = NoPte \/ At(n.pt, r, v).kind = "user"
    <3>1. CASE r = root
      BY <3>1 DEF Touches
    <3>2. CASE r # root
      <4>1. \A v \in 0 .. KV - 1 : v \in Vpn /\ H2(v) # FAN2 - 2
        BY UserPages
      <4> QED BY <4>1, <3>2, <2>2, <2>4 DEF EnvTable
    <3> QED BY <3>1, <3>2
  <2> QED BY <2>1, <2>3, <2>5, <2>6 DEF EnvTable
<1> QED BY <1>1, <1>7, <1>8, <1>9 DEF World

(* A user page of the table at root, or none of them, changes to pte. *)
ButView(m, n, root, v, pte) ==
  \A w \in 0 .. KV - 1 : At(n.pt, root, w) = IF w = v THEN pte ELSE At(m.pt, root, w)

(* No user page changes; user pages are mapped for the user or not at all. *)
SameView(m, n, root) == \A w \in 0 .. KV - 1 : At(n.pt, root, w) = At(m.pt, root, w)

UserEntries(m, root) == \A w \in 0 .. KV - 1 : At(m.pt, root, w) = NoPte \/ At(m.pt, root, w).kind = "user"

(* What World says of the table of an env. *)
LEMMA EnvRoot ==
  ASSUME NEW m, NEW g, NEW k, NEW tabs, NEW L, World(m, g, k, tabs, L), NEW e \in Env, tabs[e] # NULL
  PROVE  /\ Shape(m, g) /\ tabs[e] \in Page /\ g.role[tabs[e]] = "root" /\ tabs[e] # k
         /\ k \in Page /\ g.role[k] = "root"
         /\ UserPart(m, tabs[e]) /\ UserEntries(m, tabs[e])
<1>1. Shape(m, g) /\ tabs[e] \in Page /\ tabs[e] # k /\ k \in Page
  BY DEF World, Distinct
<1>2. g.role[tabs[e]] = "root" /\ g.role[k] = "root"
  BY <1>1 DEF World, Owners
<1>3. UserPart(m, tabs[e])
  BY ONLY <1>1, <1>2, RootUserPart
<1>4. UserEntries(m, tabs[e])
  BY DEF World, EnvTable, UserEntries
<1> QED BY <1>1, <1>2, <1>3, <1>4

(* A change of one user page touches nothing else. *)
LEMMA ButTouches ==
  ASSUME NEW m, NEW g, NEW root \in Page, g.role[root] = "root", UserPart(m, root), UserEntries(m, root),
         NEW v \in 0 .. KV - 1, NEW pte, pte = NoPte \/ pte.kind = "user", NEW n,
         SameBut(m.pt, n.pt, g, root, H2(v), H1(v), H0(v), pte)
  PROVE  Touches(m, n, g, root) /\ ButView(m, n, root, v, pte)
<1>1. \A w \in 0 .. KV - 1 : /\ w \in Vpn /\ H2(w) \in Index /\ H1(w) \in Index /\ H0(w) \in Index
                             /\ m.pt[root][H2(w)].kind # "user"
  BY UserPages DEF UserPart
<1>2. ButView(m, n, root, v, pte)
  <2> SUFFICES ASSUME NEW w \in 0 .. KV - 1
               PROVE  At(n.pt, root, w) = IF w = v THEN pte ELSE At(m.pt, root, w)
    BY DEF ButView
  <2>1. w # v => ~(H2(w) = H2(v) /\ H1(w) = H1(v) /\ H0(w) = H0(v))
    BY <1>1, SameIndices
  <2> QED BY <1>1, <2>1 DEF SameBut, At
<1>3. \A w \in 0 .. KV - 1 : At(n.pt, root, w) = NoPte \/ At(n.pt, root, w).kind = "user"
  BY <1>2 DEF ButView, UserEntries
<1>4. ASSUME NEW r \in Page, NEW a \in Index, NEW b \in Index, NEW c \in Index,
             g.role[r] = "root", m.pt[r][a].kind # "user", r # root \/ ~OfUser(a, b, c)
      PROVE  Ent(n.pt, r, a, b, c) = Ent(m.pt, r, a, b, c)
  <2>1. ~(r = root /\ a = H2(v) /\ b = H1(v) /\ c = H0(v))
    BY <1>4 DEF OfUser
  <2> QED BY <2>1, <1>4 DEF SameBut
<1> QED BY <1>2, <1>3, <1>4 DEF Touches, SameBut

(* No change touches nothing. *)
LEMMA SameTouches ==
  ASSUME NEW m, NEW g, NEW root \in Page, g.role[root] = "root", UserPart(m, root), UserEntries(m, root),
         NEW n, Same(m.pt, n.pt, g)
  PROVE  Touches(m, n, g, root) /\ SameView(m, n, root)
<1>1. \A w \in 0 .. KV - 1 : /\ w \in Vpn /\ H2(w) \in Index /\ H1(w) \in Index /\ H0(w) \in Index
                             /\ m.pt[root][H2(w)].kind # "user"
  BY UserPages DEF UserPart
<1>2. SameView(m, n, root)
  BY <1>1 DEF SameView, Same, At
<1>3. \A w \in 0 .. KV - 1 : At(n.pt, root, w) = NoPte \/ At(n.pt, root, w).kind = "user"
  BY <1>2 DEF SameView, UserEntries
<1> QED BY <1>2, <1>3 DEF Touches, Same

(* A page that was free, or none, is mapped at v. *)
Loaded(m, g, x, k, tabs, L, root, v, pa) ==
  /\ Up(x.m) /\ x.ret = 0 /\ \E h : World(x.m, h, k, tabs, L)
  /\ Touches(m, x.m, g, root) /\ ButView(m, x.m, root, v, UserAt(pa))
  /\ At(m.pt, root, v) = NoPte
  /\ pa = 0 \/ (pa \in Page /\ g.role[pa] = "free")

(* The page could not be mapped and is lost. *)
NotLoaded(m, g, x, k, tabs, L, root, pa) ==
  /\ Up(x.m) /\ x.ret # 0 /\ \E h : World(x.m, h, k, tabs, L \cup ({pa} \ {NULL}))
  /\ Touches(m, x.m, g, root) /\ SameView(m, x.m, root)

(* New tables keep the roots, the pages of envs[] and the lost pages. *)
LEMMA KeepsExt ==
  ASSUME NEW m, NEW g, NEW k, NEW tabs, NEW L, World(m, g, k, tabs, L), NEW h, Ext(g, h)
  PROVE  Keeps(g, h, L)
<1>1. \A p \in Page : (g.role[p] = "lost" <=> p \in L) /\ g.role[p] # "held"
  BY DEF World, Owners
<1> QED BY <1>1 DEF Keeps, Ext

(* load_icode_mapper when kalloc has returned 0, which it does not look at. *)
LEMMA LoadNone ==
  ASSUME NEW m, NEW g, NEW k, NEW tabs, NEW L, World(m, g, k, tabs, L), Up(m),
         NEW e \in Env, tabs[e] # NULL, NEW v \in 0 .. KV - 1,
         NEW x, x = mappages(m, tabs[e], v * PAGE_SIZE, PAGE_SIZE, 0, "user")
  PROVE  \/ Dead(x.m) /\ x.ret = 0
         \/ Loaded(m, g, x, k, tabs, L, tabs[e], v, 0)
         \/ NotLoaded(m, g, x, k, tabs, L, tabs[e], 0)
<1>1. PICK root : root = tabs[e]
  OBVIOUS
<1>2. /\ Shape(m, g) /\ root \in Page /\ g.role[root] = "root" /\ root # k
      /\ UserPart(m, root) /\ UserEntries(m, root)
  BY ONLY <1>1, World(m, g, k, tabs, L), e \in Env, tabs[e] # NULL, EnvRoot
<1>3. v \in Vpn /\ m.pt[root][H2(v)].kind # "user" /\ 0 \in 0 .. KFRAME
  BY <1>2, UserPages, Pool DEF UserPart
<1>4. PICK kind : kind = "user"
  OBVIOUS
<1>5. kind \in {"leaf", "user"} /\ x = mappages(m, root, v * PAGE_SIZE, PAGE_SIZE, 0, kind)
  BY <1>1, <1>4
<1>6. MapDone(m, g, x, root, v, 0, kind) \/ MapFailed(m, g, x) \/ Panicked(x)
  <2>1. kind = "user" => 0 = 0 \/ (0 \in Page /\ g.role[0] = "held")
    OBVIOUS
  <2> QED BY ONLY <1>2, <1>3, <1>5, <2>1, Up(m), MapOnePage
<1>7. PICK q : q = x.m
  OBVIOUS
<1>8. CASE MapDone(m, g, x, root, v, 0, kind)
  <2>1. Mapped(g, 0, kind) = g
    BY DEF Mapped
  <2>2. PICK h : Shape(q, h) /\ Ext(g, h)
    BY <1>8, <2>1, <1>7 DEF MapDone
  <2>3. UserAt(0) = [pa |-> 0, kind |-> kind] /\ UserAt(0).kind = "user"
    BY <1>4 DEF UserAt
  <2>4. SameBut(m.pt, q.pt, g, root, H2(v), H1(v), H0(v), UserAt(0)) /\ Up(q) /\ x.ret = 0 /\ At(m.pt, root, v) = NoPte
    BY <1>7, <1>8, <2>3 DEF MapDone
  <2>5. Touches(m, q, g, root) /\ ButView(m, q, root, v, UserAt(0))
    BY ONLY <1>2, v \in 0 .. KV - 1, <2>3, <2>4, ButTouches
  <2>6. Keeps(g, h, L)
    BY ONLY World(m, g, k, tabs, L), <2>2, KeepsExt
  <2>7. World(q, h, k, tabs, L)
    BY ONLY World(m, g, k, tabs, L), <2>2, <2>6, <1>2, <2>5, WorldKept
  <2> QED BY <1>1, <1>7, <2>4, <2>5, <2>7 DEF Loaded
<1>9. CASE MapFailed(m, g, x)
  <2>2. PICK h : Shape(q, h) /\ Ext(g, h)
    BY <1>9, <1>7 DEF MapFailed
  <2>4. Same(m.pt, q.pt, g) /\ Up(q) /\ x.ret # 0
    BY <1>7, <1>9 DEF MapFailed
  <2>5. Touches(m, q, g, root) /\ SameView(m, q, root)
    BY ONLY <1>2, <2>4, SameTouches
  <2>6. Keeps(g, h, L)
    BY ONLY World(m, g, k, tabs, L), <2>2, KeepsExt
  <2>7. World(q, h, k, tabs, L)
    BY ONLY World(m, g, k, tabs, L), <2>2, <2>6, <1>2, <2>5, WorldKept
  <2>8. L \cup ({0} \ {NULL}) = L
    BY DEF NULL
  <2> QED BY <1>1, <1>7, <2>4, <2>5, <2>7, <2>8 DEF NotLoaded
<1>10. CASE Panicked(x)
  BY <1>10 DEF Panicked, Dead
<1> QED BY <1>6, <1>8, <1>9, <1>10

(* load_icode_mapper with a page. *)
LEMMA LoadOne ==
  ASSUME NEW m, NEW g, NEW k, NEW tabs, NEW L, World(m, g, k, tabs, L), Up(m), m.free # {},
         NEW e \in Env, tabs[e] # NULL, NEW v \in 0 .. KV - 1, NEW z, z = kalloc(m),
         NEW x, x = mappages(z.m, tabs[e], v * PAGE_SIZE, PAGE_SIZE, z.pa, "user")
  PROVE  \/ Dead(x.m) /\ x.ret = 0
         \/ Loaded(m, g, x, k, tabs, L, tabs[e], v, z.pa)
         \/ NotLoaded(m, g, x, k, tabs, L, tabs[e], z.pa)
<1>1. PICK root : root = tabs[e]
  OBVIOUS
<1>2. /\ Shape(m, g) /\ root \in Page /\ g.role[root] = "root" /\ root # k
      /\ UserPart(m, root) /\ UserEntries(m, root)
  BY ONLY <1>1, World(m, g, k, tabs, L), e \in Env, tabs[e] # NULL, EnvRoot
<1>3. PICK o, pa : o = z.m /\ pa = z.pa
  OBVIOUS
<1>4. PICK gh : gh = Given(g, pa, "held")
  OBVIOUS
<1>5. /\ pa \in Page /\ g.role[pa] = "free" /\ Shape(o, gh) /\ Same(m.pt, o.pt, g)
      /\ o.panic = m.panic /\ \A q \in Page : q # pa => o.pt[q] = m.pt[q]
  BY ONLY <1>2, <1>3, <1>4, z = kalloc(m), m.free # {}, KallocIs
<1>6. g \in Ghost /\ "held" \in Role /\ "data" \in Role /\ "lost" \in Role
  BY <1>2 DEF Shape, Role
<1>7. gh \in Ghost /\ gh.role[pa] = "held" /\ \A q \in Page : q # pa => gh.role[q] = g.role[q]
  <2>1. PICK role \in Role : role = "held"
    BY <1>6
  <2>2. g \in Ghost
    BY <1>6
  <2> QED BY ONLY <1>4, <1>5, <2>1, <2>2, GivenIs
<1>8. Up(o) /\ root # pa /\ gh.role[root] = "root" /\ o.pt[root] = m.pt[root]
  BY <1>2, <1>5, <1>7 DEF Up
<1>9. v \in Vpn /\ o.pt[root][H2(v)].kind # "user" /\ pa \in 0 .. KFRAME
  BY <1>2, <1>5, <1>8, UserPages, Pool DEF UserPart
<1>10. PICK kind : kind = "user"
  OBVIOUS
<1>11. kind \in {"leaf", "user"} /\ x = mappages(o, root, v * PAGE_SIZE, PAGE_SIZE, pa, kind)
  BY <1>1, <1>3, <1>10
<1>12. MapDone(o, gh, x, root, v, pa, kind) \/ MapFailed(o, gh, x) \/ Panicked(x)
  <2>1. kind = "user" => pa = 0 \/ (pa \in Page /\ gh.role[pa] = "held")
    BY <1>5, <1>7
  <2> QED BY ONLY <1>2, <1>5, <1>8, <1>9, <1>11, <2>1, MapOnePage
<1>13. PICK q : q = x.m
  OBVIOUS
<1>14. \A r \in Page : g.role[r] = "root" => gh.role[r] = "root"
  BY <1>5, <1>7
<1>15. \A p \in Page : (g.role[p] = "lost" <=> p \in L) /\ g.role[p] # "held"
  BY DEF World, Owners
<1>16. CASE MapDone(o, gh, x, root, v, pa, kind)
  <2>1. PICK gd : gd = Given(gh, pa, "data")
    OBVIOUS
  <2>2. gd.role[pa] = "data" /\ \A p \in Page : p # pa => gd.role[p] = g.role[p]
    <3>1. PICK role \in Role : role = "data"
      BY <1>6
    <3> QED BY ONLY <3>1, <2>1, <1>5, <1>7, GivenIs
  <2>3. Mapped(gh, pa, kind) = gd
    BY <2>1, <1>5, <1>10, Pool DEF Mapped
  <2>4. PICK h : Shape(q, h) /\ Ext(gd, h)
    BY <1>16, <2>3, <1>13 DEF MapDone
  <2>5. UserAt(pa) = [pa |-> pa, kind |-> kind] /\ UserAt(pa).kind = "user"
    BY <1>10 DEF UserAt
  <2>6. SameBut(o.pt, q.pt, gh, root, H2(v), H1(v), H0(v), UserAt(pa)) /\ Up(q) /\ x.ret = 0 /\ At(o.pt, root, v) = NoPte
    BY <1>13, <1>16, <2>5 DEF MapDone
  <2>7. SameBut(m.pt, q.pt, g, root, H2(v), H1(v), H0(v), UserAt(pa))
    BY ONLY <1>5, <1>14, <2>6, SameThenBut
  <2>8. Touches(m, q, g, root) /\ ButView(m, q, root, v, UserAt(pa))
    BY ONLY <1>2, v \in 0 .. KV - 1, <2>5, <2>7, ButTouches
  <2>9. Keeps(g, h, L)
    BY <1>5, <1>15, <2>2, <2>4 DEF Keeps, Ext
  <2>10. World(q, h, k, tabs, L)
    BY ONLY World(m, g, k, tabs, L), <2>4, <2>9, <1>2, <2>8, WorldKept
  <2>11. At(m.pt, root, v) = NoPte
    <3>1. SameView(m, o, root)
      BY ONLY <1>2, <1>5, SameTouches
    <3> QED BY <2>6, <3>1 DEF SameView
  <2> QED BY <1>1, <1>3, <1>5, <1>13, <2>6, <2>8, <2>10, <2>11 DEF Loaded
<1>17. CASE MapFailed(o, gh, x)
  <2>2. PICK h : Shape(q, h) /\ Ext(gh, h)
    BY <1>17, <1>13 DEF MapFailed
  <2>3. PICK hl : hl = Given(h, pa, "lost")
    OBVIOUS
  <2>4. h.role[pa] = "held" /\ h \in Ghost
    BY <2>2, <1>5, <1>7 DEF Ext, Shape
  <2>5. Shape(q, hl)
    <3>1. PICK role \in {"env", "lost"} : role = "lost"
      OBVIOUS
    <3>2. Shape(q, Given(h, pa, role))
      BY ONLY <1>5, <2>2, <2>4, Rename
    <3> QED BY <2>3, <3>1, <3>2
  <2>6. hl.role[pa] = "lost" /\ \A p \in Page : p # pa => hl.role[p] = h.role[p]
    <3>1. PICK role \in Role : role = "lost"
      BY <1>6
    <3> QED BY ONLY <3>1, <2>3, <2>4, <1>5, GivenIs
  <2>7. Same(o.pt, q.pt, gh) /\ Up(q) /\ x.ret # 0
    BY <1>13, <1>17 DEF MapFailed
  <2>8. Same(m.pt, q.pt, g)
    BY ONLY <1>5, <1>14, <2>7, SameTrans
  <2>9. Touches(m, q, g, root) /\ SameView(m, q, root)
    BY ONLY <1>2, <2>8, SameTouches
  <2>10. PICK M : M = L \cup ({pa} \ {NULL})
    OBVIOUS
  <2>11. \A p \in Page : p \in M <=> p \in L \/ p = pa
    BY <2>10, Pool DEF NULL
  <2>12. Keeps(g, hl, M)
    BY <1>5, <1>7, <1>15, <2>2, <2>6, <2>11 DEF Keeps, Ext
  <2>13. World(q, hl, k, tabs, M)
    BY ONLY World(m, g, k, tabs, L), <2>5, <2>12, <1>2, <2>9, WorldKept
  <2> QED BY <1>1, <1>3, <1>13, <2>7, <2>9, <2>10, <2>13 DEF NotLoaded
<1>18. CASE Panicked(x)
  BY <1>18 DEF Panicked, Dead
<1> QED BY <1>12, <1>16, <1>17, <1>18

(* The user pages from a on, before b, are new ones, the others stay. *)
GrewView(m, g, n, root, a, b) ==
  \A w \in 0 .. KV - 1 : IF w \in a .. b - 1 THEN IsNew(m, g, n, root, w)
                         ELSE At(n.pt, root, w) = At(m.pt, root, w)

(* The user pages from a on, before b, are gone, the others stay. *)
ShrankView(m, n, root, a, b) ==
  \A w \in 0 .. KV - 1 : At(n.pt, root, w) = IF w \in a .. b - 1 THEN NoPte ELSE At(m.pt, root, w)

(* A heap ends below KBASE. *)
LEMMA HeapPages ==
  ASSUME NEW size \in 0 .. KBASE
  PROVE  PagesIn(size) \in 0 .. KV
<1>1. KV \in Nat /\ KBASE = KV * PAGE_SIZE /\ KBASE \in Nat
  BY KernelBegins, Sizes, Products
<1>2. size \in Nat /\ size <= KBASE
  BY <1>1
<1>3. PagesIn(KBASE) = KV
  BY <1>1, PagesInPage
<1>4. PagesIn(size) <= KV
  BY <1>1, <1>2, <1>3, PagesInOrder
<1>5. PagesIn(size) \in Nat
  BY ONLY <1>2, PagesInIs
<1> QED BY <1>1, <1>4, <1>5

(* A growing heap touches nothing but its own pages. *)
LEMMA GrewTouches ==
  ASSUME NEW m, NEW g, NEW n, NEW h, NEW root \in Page, g.role[root] = "root",
         UserPart(m, root), UserEntries(m, root), NEW a \in 0 .. KV, NEW b \in 0 .. KV, a <= b,
         Grew(m, g, n, h, root, a, b - a)
  PROVE  Touches(m, n, g, root) /\ GrewView(m, g, n, root, a, b)
<1>1. \A w \in 0 .. KV - 1 : /\ w \in Vpn /\ H2(w) \in Index /\ H1(w) \in Index /\ H0(w) \in Index
                             /\ m.pt[root][H2(w)].kind # "user"
  BY UserPages DEF UserPart
<1>2. KV \in Nat /\ a \in Nat /\ b \in Nat /\ a + (b - a) - 1 = b - 1
  BY KernelBegins, Products
<1>3. PICK top \in Int : top = b - 1
  BY <1>2
<1>4. \A w \in a .. top : w \in 0 .. KV - 1
  BY <1>2, <1>3
<1>5. GrewView(m, g, n, root, a, b)
  <2> SUFFICES ASSUME NEW w \in 0 .. KV - 1
               PROVE  IF w \in a .. top THEN IsNew(m, g, n, root, w) ELSE At(n.pt, root, w) = At(m.pt, root, w)
    BY <1>3 DEF GrewView
  <2>1. CASE w \in a .. top
    BY <2>1, <1>2, <1>3 DEF Grew
  <2>2. CASE w \notin a .. top
    <3>1. \A u \in a .. top : ~(H2(w) = H2(u) /\ H1(w) = H1(u) /\ H0(w) = H0(u))
      BY <1>1, <1>4, <2>2, SameIndices
    <3>2. NotOf(a, b - a, H2(w), H1(w), H0(w))
      BY <3>1, <1>2, <1>3 DEF NotOf
    <3>3. Ent(n.pt, root, H2(w), H1(w), H0(w)) = Ent(m.pt, root, H2(w), H1(w), H0(w))
      BY <3>2, <1>1 DEF Grew
    <3> QED BY <2>2, <3>3 DEF At
  <2> QED BY <2>1, <2>2
<1>6. \A w \in 0 .. KV - 1 : At(n.pt, root, w) = NoPte \/ At(n.pt, root, w).kind = "user"
  BY <1>5 DEF GrewView, UserEntries, IsNew
<1>7. ASSUME NEW r \in Page, NEW i \in Index, NEW j \in Index, NEW c \in Index,
             g.role[r] = "root", m.pt[r][i].kind # "user", r # root \/ ~OfUser(i, j, c)
      PROVE  Ent(n.pt, r, i, j, c) = Ent(m.pt, r, i, j, c)
  <2>1. r # root \/ NotOf(a, b - a, i, j, c)
    BY <1>2, <1>3, <1>4, <1>7 DEF OfUser, NotOf
  <2> QED BY <2>1, <1>7 DEF Grew
<1> QED BY <1>5, <1>6, <1>7 DEF Touches, Grew

(* It keeps the roots, the pages of envs[] and the lost pages. *)
LEMMA GrewKeeps ==
  ASSUME NEW m, NEW g, NEW k, NEW tabs, NEW L, World(m, g, k, tabs, L), NEW n, NEW h, NEW root, NEW a, NEW b,
         Grew(m, g, n, h, root, a, b)
  PROVE  Keeps(g, h, L)
<1>1. \A p \in Page : (g.role[p] = "lost" <=> p \in L) /\ g.role[p] # "held"
  BY DEF World, Owners
<1>2. \A p \in Page : IF g.role[p] = "free" THEN h.role[p] \in {"free", "mid", "low", "data"}
                      ELSE h.role[p] = g.role[p]
  BY DEF Grew, GrewRoles
<1> QED BY <1>1, <1>2 DEF Keeps

(* What uvmalloc does to the memory of all. *)
GrowDone(m, g, x, k, tabs, L, root, a, b) ==
  /\ Up(x) /\ \E h : World(x, h, k, tabs, L)
  /\ Touches(m, x, g, root) /\ GrewView(m, g, x, root, a, b)

(* uvmalloc has taken back what it mapped. *)
GrowNot(m, g, x, k, tabs, L, root) ==
  /\ Up(x) /\ \E h : World(x, h, k, tabs, L)
  /\ Touches(m, x, g, root) /\ SameView(m, x, root)

(* uvmalloc on the memory of all: complete, without a trace, or a panic. *)
LEMMA GrowIs ==
  ASSUME NEW m, NEW g, NEW k, NEW tabs, NEW L, World(m, g, k, tabs, L), Up(m),
         NEW e \in Env, tabs[e] # NULL, NEW old \in 0 .. KBASE, NEW new \in 0 .. KBASE, old <= new,
         NEW x, x = uvmalloc(m, tabs[e], old, new)
  PROVE  \/ Dead(x.m)
         \/ x.ret = new /\ GrowDone(m, g, x.m, k, tabs, L, tabs[e], PagesIn(old), PagesIn(new))
         \/ x.ret = 0 /\ GrowNot(m, g, x.m, k, tabs, L, tabs[e])
<1>1. PICK root : root = tabs[e]
  OBVIOUS
<1>2. /\ Shape(m, g) /\ root \in Page /\ g.role[root] = "root" /\ root # k
      /\ UserPart(m, root) /\ UserEntries(m, root)
  BY ONLY <1>1, World(m, g, k, tabs, L), e \in Env, tabs[e] # NULL, EnvRoot
<1>3. PICK a, b : a = PagesIn(old) /\ b = PagesIn(new)
  OBVIOUS
<1>4. old \in Nat /\ new \in Nat
  BY Sizes
<1>5. a \in 0 .. KV /\ b \in 0 .. KV /\ a <= b /\ PagesIn(new) <= KV
  BY <1>3, <1>4, HeapPages, PagesInOrder, KernelBegins, Products
<1>6. PICK q : q = x.m
  OBVIOUS
<1>7. x = uvmalloc(m, root, old, new)
  BY <1>1
<1>8. \/ Dead(q)
      \/ x.ret = new /\ \E h : Grew(m, g, q, h, root, a, b - a)
      \/ x.ret = 0 /\ TakenBack(m, g, q)
  BY ONLY <1>2, <1>3, <1>4, <1>5, <1>6, <1>7, Up(m), old <= new, AllocIs
<1>9. CASE x.ret = new /\ \E h : Grew(m, g, q, h, root, a, b - a)
  <2>1. PICK h : Grew(m, g, q, h, root, a, b - a)
    BY <1>9
  <2>2. Touches(m, q, g, root) /\ GrewView(m, g, q, root, a, b)
    BY ONLY <2>1, <1>2, <1>5, GrewTouches
  <2>3. Keeps(g, h, L)
    BY ONLY <2>1, World(m, g, k, tabs, L), GrewKeeps
  <2>4. Up(q) /\ Shape(q, h)
    BY <2>1 DEF Grew
  <2>5. World(q, h, k, tabs, L)
    BY ONLY World(m, g, k, tabs, L), <2>2, <2>3, <2>4, <1>2, WorldKept
  <2> QED BY <1>1, <1>3, <1>6, <1>9, <2>2, <2>4, <2>5 DEF GrowDone
<1>10. CASE x.ret = 0 /\ TakenBack(m, g, q)
  <2>1. PICK h : Shape(q, h) /\ Ext(g, h)
    BY <1>10 DEF TakenBack
  <2>2. Up(q) /\ Same(m.pt, q.pt, g)
    BY <1>10 DEF TakenBack
  <2>3. Touches(m, q, g, root) /\ SameView(m, q, root)
    BY ONLY <1>2, <2>2, SameTouches
  <2>4. Keeps(g, h, L)
    BY ONLY World(m, g, k, tabs, L), <2>1, KeepsExt
  <2>5. World(q, h, k, tabs, L)
    BY ONLY World(m, g, k, tabs, L), <2>1, <2>3, <2>4, <1>2, WorldKept
  <2> QED BY <1>1, <1>6, <1>10, <2>2, <2>3, <2>5 DEF GrowNot
<1> QED BY <1>6, <1>8, <1>9, <1>10

(* uvmdealloc has returned. *)
ShrinkDone(m, g, x, k, tabs, L, root, a, b) ==
  /\ b <= a + 1
  /\ Up(x) /\ \E h : World(x, h, k, tabs, L)
  /\ Touches(m, x, g, root) /\ ShrankView(m, x, root, a, b)

(* uvmdealloc on the memory of all: one page at most is unmapped and freed,  *)
(* or a panic.                                                               *)
LEMMA ShrinkIs ==
  ASSUME NEW m, NEW g, NEW k, NEW tabs, NEW L, World(m, g, k, tabs, L), Up(m),
         NEW e \in Env, tabs[e] # NULL, NEW old \in 0 .. KBASE, NEW new \in 0 .. KBASE, new <= old,
         NEW x, x = uvmdealloc(m, tabs[e], old, new)
  PROVE  Dead(x) \/ ShrinkDone(m, g, x, k, tabs, L, tabs[e], PagesIn(new), PagesIn(old))
<1>1. PICK root : root = tabs[e]
  OBVIOUS
<1>2. /\ Shape(m, g) /\ root \in Page /\ g.role[root] = "root" /\ root # k
      /\ UserPart(m, root) /\ UserEntries(m, root)
  BY ONLY <1>1, World(m, g, k, tabs, L), e \in Env, tabs[e] # NULL, EnvRoot
<1>3. PICK a, b : a = PagesIn(new) /\ b = PagesIn(old)
  OBVIOUS
<1>4. old \in Nat /\ new \in Nat
  BY Sizes
<1>5. a \in 0 .. KV /\ b \in 0 .. KV /\ a <= b /\ KV \in Nat
  BY <1>3, <1>4, HeapPages, PagesInOrder, KernelBegins, Products
<1>6. x = IF a < b THEN uvmunmap(m, root, a * PAGE_SIZE, b - a, TRUE) ELSE m
  BY <1>1, <1>3, <1>4, DeallocIs
<1>7. CASE a = b
  <2>4. ~(a < b)
    BY <1>5, <1>7
  <2>1. x = m
    BY ONLY <1>6, <2>4
  <2>2. Touches(m, m, g, root) /\ SameView(m, m, root)
    BY ONLY <1>2, SameSelf, SameTouches
  <2>3. ShrankView(m, m, root, a, b)
    BY <1>5, <1>7 DEF ShrankView
  <2>5. b <= a + 1
    BY <1>5, <1>7
  <2> QED BY <1>1, <1>3, <2>1, <2>2, <2>3, <2>5 DEF ShrinkDone
<1>8. CASE a < b
  <2>1. x = uvmunmap(m, root, a * PAGE_SIZE, b - a, TRUE)
    BY ONLY <1>6, <1>8
  <2>2. a \in 0 .. KV - 1 /\ b - a \in Nat \ {0}
    BY <1>5, <1>8
  <2>3. a \in Vpn /\ m.pt[root][H2(a)].kind # "user" /\ (At(m.pt, root, a) = NoPte \/ At(m.pt, root, a).kind = "user")
    BY <1>2, <2>2, UserPages DEF UserPart, UserEntries
  <2>4. Dead(x) \/ (b - a = 1 /\ Freed(m, g, x, root, a))
    BY ONLY <1>2, <2>1, <2>2, <2>3, Up(m), UnmapFree
  <2>5. CASE b - a = 1 /\ Freed(m, g, x, root, a)
    <3>1. PICK t : t = At(m.pt, root, a).pa
      OBVIOUS
    <3>2. PICK h : h = Given(g, t, "free")
      OBVIOUS
    <3>3. /\ t \in Page /\ g.role[t] = "data" /\ Shape(x, h) /\ Up(x)
          /\ SameBut(m.pt, x.pt, g, root, H2(a), H1(a), H0(a), NoPte)
      BY <2>5, <3>1, <3>2 DEF Freed
    <3>4. Touches(m, x, g, root) /\ ButView(m, x, root, a, NoPte)
      BY ONLY <1>2, <2>2, <3>3, ButTouches
    <3>5. h.role[t] = "free" /\ \A p \in Page : p # t => h.role[p] = g.role[p]
      <4>1. PICK role \in Role : role = "free"
        BY DEF Role
      <4>2. g \in Ghost
        BY <1>2 DEF Shape
      <4> QED BY ONLY <4>1, <4>2, <3>2, <3>3, GivenIs
    <3>6. Keeps(g, h, L)
      <4>1. \A p \in Page : (g.role[p] = "lost" <=> p \in L) /\ g.role[p] # "held"
        BY DEF World, Owners
      <4> QED BY <4>1, <3>3, <3>5 DEF Keeps
    <3>7. World(x, h, k, tabs, L)
      BY ONLY World(m, g, k, tabs, L), <3>3, <3>4, <3>6, <1>2, WorldKept
    <3>8. ShrankView(m, x, root, a, b)
      <4>1. \A w \in 0 .. KV - 1 : w \in a .. b - 1 <=> w = a
        BY <1>5, <2>5
      <4> QED BY <4>1, <3>4 DEF ButView, ShrankView
    <3>9. b <= a + 1
      BY <1>5, <2>5
    <3> QED BY <1>1, <1>3, <3>3, <3>4, <3>7, <3>8, <3>9 DEF ShrinkDone
  <2> QED BY <2>4, <2>5
<1> QED BY <1>5, <1>7, <1>8

(* env_free panics. *)
LEMMA FreeIs ==
  ASSUME NEW m, NEW g, NEW k, NEW tabs, NEW L, World(m, g, k, tabs, L), Up(m),
         NEW e \in Env, tabs[e] # NULL,
         NEW x, x = uvmfree(uvmunmap(m, tabs[e], KBASE, MAXVA \div PAGE_SIZE, FALSE), tabs[e], KBASE - PAGE_SIZE)
  PROVE  Dead(x)
<1>1. PICK root : root = tabs[e]
  OBVIOUS
<1>2. /\ Shape(m, g) /\ root \in Page /\ g.role[root] = "root"
      /\ k \in Page /\ g.role[k] = "root"
  BY ONLY <1>1, World(m, g, k, tabs, L), e \in Env, tabs[e] # NULL, EnvRoot
<1>3. KV \in Vpn /\ KBASE = KV * PAGE_SIZE /\ H2(KV) # FAN2 - 2 /\ H2(KV) \in Index /\ H1(KV) \in Index /\ H0(KV) \in Index
  <2>1. KV \in 0 .. UV - 1 /\ UV \in Nat /\ FF \in Nat /\ NV = UV + 2 * FF
    BY KernelBegins, Products
  <2>2. KV \in Vpn /\ KV < UV
    BY <2>1 DEF Vpn
  <2>3. H2(KV) < FAN2 - 2 /\ H2(KV) \in 0 .. FAN2 - 1 /\ H1(KV) \in 0 .. FAN - 1 /\ H0(KV) \in 0 .. FAN - 1
    BY ONLY <2>2, RootIndex, Indices
  <2> QED BY <2>2, <2>3, KernelBegins, IndexRange, Sizes
<1>4. m.pt[root][H2(KV)].kind # "user"
  BY ONLY <1>2, <1>3, RootEntry
<1>5. At(m.pt, root, KV) = NoPte \/ At(m.pt, root, KV).kind = "leaf"
  <2>1. EnvTable(m, k, root) /\ Plain(m.pt, k)
    BY <1>1 DEF World, BootTables
  <2>2. At(m.pt, root, KV) = At(m.pt, k, KV)
    BY <2>1, <1>3, KernelBegins, Products DEF EnvTable
  <2> QED BY <2>1, <2>2, <1>3 DEF Plain, At
<1>6. PICK n \in Nat : n = MAXVA \div PAGE_SIZE /\ n >= 2
  <2>1. NV \in Nat /\ MAXVA = NV * PAGE_SIZE /\ NV >= 2
    BY Products
  <2>2. MAXVA \div PAGE_SIZE = NV
    BY ONLY <2>1, PageNumber
  <2> QED BY <2>1, <2>2
<1>7. PICK y : y = uvmunmap(m, root, KV * PAGE_SIZE, n, FALSE)
  OBVIOUS
<1>8. y \in Memory /\ (n >= 2 => Dead(y))
  BY ONLY <1>2, <1>3, <1>4, <1>5, <1>7, Up(m), UnmapForget
<1>9. x = uvmfree(y, root, KBASE - PAGE_SIZE)
  BY ONLY <1>1, <1>3, <1>6, <1>7, x = uvmfree(uvmunmap(m, tabs[e], KBASE, MAXVA \div PAGE_SIZE, FALSE), tabs[e], KBASE - PAGE_SIZE)
<1>10. x = y
  BY ONLY <1>6, <1>8, <1>9 DEF uvmfree, Dead
<1> QED BY <1>6, <1>8, <1>10

(* Same on the pages of a root. *)
LEMMA AtSame ==
  ASSUME NEW m, NEW g, Shape(m, g), NEW n, Same(m.pt, n.pt, g), NEW r \in Page, g.role[r] = "root",
         NEW v \in Vpn, H2(v) # FAN2 - 2
  PROVE  At(n.pt, r, v) = At(m.pt, r, v)
<1>1. H2(v) \in Index /\ H1(v) \in Index /\ H0(v) \in Index
  BY Indices, IndexRange
<1>2. m.pt[r][H2(v)].kind # "user"
  BY ONLY <1>1, Shape(m, g), r \in Page, g.role[r] = "root", H2(v) # FAN2 - 2, RootEntry
<1> QED BY <1>1, <1>2 DEF Same, At

(* Same keeps the table of an env. *)
LEMMA SameEnv ==
  ASSUME NEW m, NEW g, Shape(m, g), NEW n, Same(m.pt, n.pt, g), NEW r \in Page, g.role[r] = "root",
         NEW k \in Page, g.role[k] = "root", EnvTable(m, k, r)
  PROVE  EnvTable(n, k, r)
<1>1. n.pt[r][FAN2 - 2] = UserAt(r)
  <2>1. PICK u : u = UserAt(r)
    OBVIOUS
  <2>2. u.kind = "user"
    BY <2>1 DEF UserAt
  <2>3. m.pt[r][FAN2 - 2] = u
    BY ONLY <2>1, EnvTable(m, k, r) DEF EnvTable
  <2>4. PICK i \in Index : i = FAN2 - 2
    BY IndexRange
  <2>5. SelfSame(m.pt, n.pt, g)
    BY DEF Same
  <2>6. n.pt[r][i] = m.pt[r][i]
    BY ONLY <2>2, <2>3, <2>4, <2>5, r \in Page, g.role[r] = "root" DEF SelfSame
  <2> QED BY ONLY <2>1, <2>3, <2>4, <2>6
<1>2. \A v \in Vpn : H2(v) # FAN2 - 2 => At(n.pt, r, v) = At(m.pt, r, v) /\ At(n.pt, k, v) = At(m.pt, k, v)
  BY AtSame
<1>3. \A v \in Vpn : v >= KV /\ H2(v) # FAN2 - 2 => At(n.pt, r, v) = At(n.pt, k, v)
  BY <1>2 DEF EnvTable
<1>4. \A v \in 0 .. KV - 1 : At(n.pt, r, v) = NoPte \/ At(n.pt, r, v).kind = "user"
  BY <1>2, UserPages DEF EnvTable
<1> QED BY <1>1, <1>3, <1>4 DEF EnvTable

(* A root that was free gets its copy of the kernel's part. *)
LEMMA SetupCopy ==
  ASSUME NEW m, NEW g, NEW k, NEW tabs, NEW L, World(m, g, k, tabs, L), Up(m), m.free # {},
         NEW o, NEW pa, o = kalloc(m).m, pa = kalloc(m).pa,
         NEW x, x = kvm_copy_to_user_pagetable(o, k, pa)
  PROVE  /\ pa \in Page /\ g.role[pa] = "free"
         /\ \/ Dead(x.m)
            \/ x.ret # 0 /\ x.m \in Memory
            \/ /\ x.ret = 0
               /\ \E gr, h : /\ Copies(o, gr, x.m, h, k, pa, NV - KV)
                             /\ gr.role[pa] = "root" /\ \A p \in Page : p # pa => gr.role[p] = g.role[p]
                             /\ Same(m.pt, o.pt, g)
<1>1. Shape(m, g) /\ k \in Page /\ BootTables(m, k)
  BY DEF World, Distinct
<1>2. g.role[k] = "root"
  BY <1>1 DEF World, Owners
<1>3. PICK z : z = kalloc(m)
  OBVIOUS
<1>4. o = z.m /\ pa = z.pa
  BY <1>3
<1>5. PICK gh : gh = Given(g, pa, "held")
  OBVIOUS
<1>6. /\ pa \in Page /\ g.role[pa] = "free" /\ Shape(o, gh) /\ Same(m.pt, o.pt, g)
      /\ o.pt[pa] = Zero /\ o.panic = m.panic
  BY ONLY <1>1, <1>3, <1>4, <1>5, m.free # {}, KallocIs
<1>7. g \in Ghost
  BY <1>1 DEF Shape
<1>8. gh \in Ghost /\ gh.role[pa] = "held" /\ \A q \in Page : q # pa => gh.role[q] = g.role[q]
  <2>1. PICK role \in Role : role = "held"
    BY DEF Role
  <2> QED BY ONLY <2>1, <1>5, <1>6, <1>7, GivenIs
<1>9. PICK gr : gr = Given(gh, pa, "root")
  OBVIOUS
<1>10. gr.role[pa] = "root" /\ \A q \in Page : q # pa => gr.role[q] = g.role[q]
  <2>1. PICK role \in Role : role = "root"
    BY DEF Role
  <2> QED BY ONLY <2>1, <1>6, <1>8, <1>9, GivenIs
<1>11. Shape(o, gr)
  BY ONLY <1>6, <1>8, <1>9, NewRoot
<1>12. BootTables(o, k)
  BY ONLY <1>1, <1>2, <1>6, BootSame
<1>13. CanCopy(o, gr, k, pa)
  BY <1>1, <1>2, <1>6, <1>10, <1>11, <1>12 DEF CanCopy, BootTables, Up
<1>14. CopiedBy(o, gr, x, k, pa, NV - KV)
  BY ONLY <1>13, x = kvm_copy_to_user_pagetable(o, k, pa), CopyIs
<1> QED BY <1>6, <1>10, <1>14 DEF CopiedBy

(* The self-mapping after the copy makes the table of an env. *)
LEMMA SetupSelf ==
  ASSUME NEW m, NEW g, NEW k, NEW tabs, NEW L, World(m, g, k, tabs, L),
         NEW o, NEW pa \in Page, g.role[pa] = "free", Same(m.pt, o.pt, g),
         NEW gr, gr.role[pa] = "root", \A p \in Page : p # pa => gr.role[p] = g.role[p],
         NEW q, NEW h, Copies(o, gr, q, h, k, pa, NV - KV),
         NEW n, n = SelfMap(q, pa), NEW hc, hc = CutOff(h, pa)
  PROVE  /\ Up(n) /\ Shape(n, hc) /\ Same(m.pt, n.pt, g)
         /\ Shape(q, h) /\ h.role[pa] = "root" /\ Ext(gr, h)
         /\ EnvTable(n, k, pa) /\ \A v \in 0 .. KV - 1 : At(n.pt, pa, v) = NoPte
<1>1. Shape(m, g) /\ k \in Page /\ BootTables(m, k)
  BY DEF World, Distinct
<1>2. g.role[k] = "root" /\ k # pa
  BY <1>1 DEF World, Owners
<1>3. Up(q) /\ Shape(q, h) /\ Ext(gr, h) /\ Plain(q.pt, pa) /\ SelfSame(o.pt, q.pt, gr)
  BY DEF Copies
<1>4. \A p \in Page : gr.role[p] = "root" => h.role[p] = "root"
  BY <1>3, ExtRoots
<1>5. PICK i \in Index : i = FAN2 - 2
  BY IndexRange
<1>6. n = Write(q, [table |-> pa, index |-> FAN2 - 2], UserAt(pa))
  <2>1. VPN_L(2, UVPT) = FAN2 - 2
    BY EnvsPlace, Sizes
  <2> QED BY <2>1 DEF SelfMap, UserAt
<1>7. UserAt(pa) \in Pte /\ q \in Memory
  BY <1>3, Pool DEF UserAt, Pte, Kind, Shape
<1>8. n.pt[pa][FAN2 - 2] = UserAt(pa) /\ n.panic = q.panic
  BY ONLY <1>5, <1>6, <1>7, pa \in Page, WriteIs
<1>9. Up(n)
  BY <1>3, <1>8 DEF Up
<1>10. Shape(n, hc)
  BY ONLY <1>3, <1>4, <1>6, pa \in Page, gr.role[pa] = "root", hc = CutOff(h, pa), CutShape
<1>11. Same(o.pt, q.pt, g)
  <2>1. \A r \in Page : g.role[r] = "root" => gr.role[r] = "root" /\ r # pa
    OBVIOUS
  <2>2. SelfSame(o.pt, q.pt, g)
    BY <1>3, <2>1 DEF SelfSame
  <2> QED BY <2>1, <2>2 DEF Same, Copies
<1>12. Same(q.pt, n.pt, g)
  <2>1. \A r \in Page : g.role[r] = "root" => h.role[r] = "root" /\ r # pa
    BY <1>4
  <2>2. ASSUME NEW r \in Page, g.role[r] = "root", NEW a \in Index, NEW b \in Index, NEW c \in Index
        PROVE  /\ n.pt[r][a] = q.pt[r][a]
               /\ q.pt[r][a].kind # "user" => Ent(n.pt, r, a, b, c) = Ent(q.pt, r, a, b, c)
    BY ONLY <1>3, <1>4, <1>6, <2>1, <2>2, pa \in Page, gr.role[pa] = "root", CutSame
  <2>3. SelfSame(q.pt, n.pt, g)
    BY <2>2, <1>5 DEF SelfSame
  <2> QED BY <2>2, <2>3 DEF Same
<1>13. Same(m.pt, n.pt, g)
  <2>1. \A r \in Page : g.role[r] = "root" => g.role[r] = "root"
    OBVIOUS
  <2>2. Same(m.pt, q.pt, g)
    BY ONLY Same(m.pt, o.pt, g), <1>11, <2>1, SameTrans
  <2> QED BY ONLY <2>1, <2>2, <1>12, SameTrans
<1>14. ASSUME NEW v \in Vpn, H2(v) # FAN2 - 2
       PROVE  At(n.pt, pa, v) = IF v >= KV THEN At(n.pt, k, v) ELSE NoPte
  <2>1. H2(v) \in Index /\ H1(v) \in Index /\ H0(v) \in Index /\ v \in Nat /\ KV \in Nat /\ NV \in Nat /\ v <= NV - 1
    BY Indices, IndexRange, KernelBegins, Products DEF Vpn
  <2>2. q.pt[pa][H2(v)].kind # "user" /\ h.role[pa] = "root"
    BY ONLY <2>1, <1>3, <1>4, <1>14, pa \in Page, gr.role[pa] = "root", RootEntry
  <2>3. At(n.pt, pa, v) = At(q.pt, pa, v)
    <3>1. Ent(n.pt, pa, H2(v), H1(v), H0(v)) = Ent(q.pt, pa, H2(v), H1(v), H0(v))
      BY ONLY <1>3, <1>6, <1>14, <2>1, <2>2, pa \in Page, CutSame
    <3> QED BY <3>1 DEF At
  <2>4. At(q.pt, pa, v) = IF v \in KV .. KV + (NV - KV) - 1 THEN At(o.pt, k, v) ELSE NoPte
    BY DEF Copies
  <2>5. v \in KV .. KV + (NV - KV) - 1 <=> v >= KV
    BY <2>1
  <2>6. At(n.pt, k, v) = At(m.pt, k, v) /\ At(o.pt, k, v) = At(m.pt, k, v)
    BY ONLY <1>1, <1>2, <1>13, <1>14, Same(m.pt, o.pt, g), AtSame
  <2> QED BY <2>3, <2>4, <2>5, <2>6
<1>15. \A v \in 0 .. KV - 1 : At(n.pt, pa, v) = NoPte
  <2>1. \A v \in 0 .. KV - 1 : v \in Vpn /\ H2(v) # FAN2 - 2 /\ ~(v >= KV)
    BY UserPages, KernelBegins, Products
  <2> QED BY <2>1, <1>14
<1>16. EnvTable(n, k, pa)
  BY <1>8, <1>14, <1>15 DEF EnvTable
<1> QED BY <1>3, <1>4, <1>9, <1>10, <1>13, <1>15, <1>16

(* The memory of all with the new table; the tables that were cut off are    *)
(* lost.                                                                     *)
LEMMA SetupWorld ==
  ASSUME NEW m, NEW g, NEW k, NEW tabs, NEW L, World(m, g, k, tabs, L),
         NEW e \in Env, tabs[e] = NULL,
         NEW pa \in Page, g.role[pa] = "free",
         NEW gr, gr.role[pa] = "root", \A p \in Page : p # pa => gr.role[p] = g.role[p],
         NEW q, NEW h, Shape(q, h), h.role[pa] = "root", Ext(gr, h),
         NEW n, NEW hc, hc = CutOff(h, pa), Shape(n, hc), Same(m.pt, n.pt, g), EnvTable(n, k, pa)
  PROVE  World(n, hc, k, [tabs EXCEPT ![e] = pa], L \cup (Tables(q.pt, pa) \ Tables(n.pt, pa)))
<1>1. Shape(m, g) /\ k \in Page /\ BootTables(m, k) /\ Distinct(k, tabs) /\ tabs \in [Env -> Page \cup {NULL}]
  BY DEF World, Distinct
<1>2. \A p \in Page : /\ g.role[p] = "root" <=> p = k \/ \E f \in Env : tabs[f] = p
                      /\ g.role[p] = "lost" <=> p \in L
                      /\ g.role[p] = "env" <=> \E j \in 1 .. NENV : At(m.pt, k, EnvVpn(j)).pa = p
                      /\ g.role[p] # "held"
  BY DEF World, Owners
<1>3. PICK new : new = [tabs EXCEPT ![e] = pa]
  OBVIOUS
<1>4. PICK M : M = L \cup (Tables(q.pt, pa) \ Tables(n.pt, pa))
  OBVIOUS
<1>5. new \in [Env -> Page \cup {NULL}] /\ new[e] = pa /\ \A f \in Env : f # e => new[f] = tabs[f]
  BY <1>1, <1>3
<1>6. g.role[k] = "root" /\ k # pa /\ \A f \in Env : tabs[f] # pa
  BY <1>1, <1>2
<1>7. Distinct(k, new)
  BY <1>1, <1>5, <1>6 DEF Distinct
<1>8. BootTables(n, k) /\ \A w \in Vpn : At(n.pt, k, w) = At(m.pt, k, w)
  BY ONLY <1>1, <1>6, Same(m.pt, n.pt, g), BootSame
<1>9. \A p \in Page : hc.role[p] = IF Cut(h, pa, p) THEN "lost" ELSE h.role[p]
  <2>1. h \in Ghost
    BY DEF Shape
  <2> QED BY ONLY <2>1, hc = CutOff(h, pa), CutOffIs
<1>10. \A p \in Page : Cut(h, pa, p) <=> p \in Tables(q.pt, pa) \ Tables(n.pt, pa)
  BY ONLY Shape(q, h), pa \in Page, h.role[pa] = "root", hc = CutOff(h, pa), Shape(n, hc), CutTables
<1>11. ASSUME NEW p \in Page
       PROVE  /\ hc.role[p] = "root" <=> p = pa \/ g.role[p] = "root"
              /\ hc.role[p] = "lost" <=> p \in M
              /\ hc.role[p] = "env" <=> g.role[p] = "env"
              /\ hc.role[p] # "held"
  <2>1. Cut(h, pa, p) => h.role[p] \in {"mid", "low"}
    BY DEF Cut
  <2>2. IF gr.role[p] = "free" THEN h.role[p] \in {"free", "mid", "low"} ELSE h.role[p] = gr.role[p]
    BY DEF Ext
  <2>3. p \in M <=> p \in L \/ Cut(h, pa, p)
    BY <1>4, <1>10
  <2> QED BY <1>2, <1>9, <2>1, <2>2, <2>3
<1>12. Owners(n, hc, k, new, M)
  <2>1. \A j \in 1 .. NENV : At(n.pt, k, EnvVpn(j)) = At(m.pt, k, EnvVpn(j))
    <3>1. \A j \in 1 .. NENV : EnvVpn(j) \in Vpn
      BY EnvVpns, Sizes
    <3> QED BY <3>1, <1>8
  <2>2. \A p \in Page : (p = pa \/ g.role[p] = "root") <=> p = k \/ \E f \in Env : new[f] = p
    <3>1. NULL \notin Page
      BY Pool DEF NULL
    <3> QED BY <3>1, <1>2, <1>5
  <2> QED BY <1>2, <1>11, <2>1, <2>2 DEF Owners
<1>13. ASSUME NEW f \in Env, new[f] # NULL PROVE EnvTable(n, k, new[f])
  <2>1. CASE f = e
    BY <2>1, <1>5
  <2>2. CASE f # e
    <3>1. PICK r : r = tabs[f]
      OBVIOUS
    <3>2. r \in Page /\ EnvTable(m, k, r) /\ g.role[r] = "root"
      BY <1>1, <1>2, <1>5, <1>13, <2>2, <3>1 DEF World
    <3>3. EnvTable(n, k, r)
      BY ONLY <1>1, <1>6, <3>2, Same(m.pt, n.pt, g), SameEnv
    <3> QED BY <2>2, <1>5, <3>1, <3>3
  <2> QED BY <2>1, <2>2
<1>14. World(n, hc, k, new, M)
  BY <1>7, <1>8, <1>12, <1>13 DEF World
<1> QED BY <1>3, <1>4, <1>14

(* env_setup_vm has returned. *)
SetupDone(m, g, x, k, tabs, L, e, pa) ==
  /\ Up(SelfMap(x.m, pa)) /\ pa \in Page /\ Tables(x.m.pt, pa) \subseteq Page
  /\ \E h : World(SelfMap(x.m, pa), h, k, [tabs EXCEPT ![e] = pa],
                  L \cup (Tables(x.m.pt, pa) \ Tables(SelfMap(x.m, pa).pt, pa)))
  /\ Same(m.pt, SelfMap(x.m, pa).pt, g)
  /\ \A v \in 0 .. KV - 1 : At(SelfMap(x.m, pa).pt, pa, v) = NoPte

(* env_setup_vm on the memory of all: a table for e, or a panic. *)
LEMMA SetupIs ==
  ASSUME NEW m, NEW g, NEW k, NEW tabs, NEW L, World(m, g, k, tabs, L), Up(m), m.free # {},
         NEW e \in Env, tabs[e] = NULL,
         NEW o, NEW pa, o = kalloc(m).m, pa = kalloc(m).pa,
         NEW x, x = kvm_copy_to_user_pagetable(o, k, pa)
  PROVE  \/ x.m \in Memory /\ ~(Up(x.m) /\ x.ret = 0)
         \/ Up(x.m) /\ x.ret = 0 /\ SetupDone(m, g, x, k, tabs, L, e, pa)
<1>1. /\ pa \in Page /\ g.role[pa] = "free"
      /\ \/ Dead(x.m)
         \/ x.ret # 0 /\ x.m \in Memory
         \/ /\ x.ret = 0
            /\ \E gr, h : /\ Copies(o, gr, x.m, h, k, pa, NV - KV)
                          /\ gr.role[pa] = "root" /\ \A p \in Page : p # pa => gr.role[p] = g.role[p]
                          /\ Same(m.pt, o.pt, g)
  BY ONLY World(m, g, k, tabs, L), Up(m), m.free # {}, o = kalloc(m).m, pa = kalloc(m).pa,
          x = kvm_copy_to_user_pagetable(o, k, pa), SetupCopy
<1>2. CASE x.ret = 0 /\ \E gr, h : /\ Copies(o, gr, x.m, h, k, pa, NV - KV)
                                   /\ gr.role[pa] = "root" /\ \A p \in Page : p # pa => gr.role[p] = g.role[p]
                                   /\ Same(m.pt, o.pt, g)
  <2>1. PICK q : q = x.m
    OBVIOUS
  <2>2. PICK gr, h : /\ Copies(o, gr, q, h, k, pa, NV - KV)
                     /\ gr.role[pa] = "root" /\ \A p \in Page : p # pa => gr.role[p] = g.role[p]
                     /\ Same(m.pt, o.pt, g)
    BY <1>2, <2>1
  <2>3. PICK n, hc : n = SelfMap(q, pa) /\ hc = CutOff(h, pa)
    OBVIOUS
  <2>4. /\ Up(n) /\ Shape(n, hc) /\ Same(m.pt, n.pt, g)
        /\ Shape(q, h) /\ h.role[pa] = "root" /\ Ext(gr, h)
        /\ EnvTable(n, k, pa) /\ \A v \in 0 .. KV - 1 : At(n.pt, pa, v) = NoPte
    BY ONLY World(m, g, k, tabs, L), <1>1, <2>2, <2>3, SetupSelf
  <2>5. World(n, hc, k, [tabs EXCEPT ![e] = pa], L \cup (Tables(q.pt, pa) \ Tables(n.pt, pa)))
    BY ONLY World(m, g, k, tabs, L), e \in Env, tabs[e] = NULL, <1>1, <2>2, <2>3, <2>4, SetupWorld
  <2>6. Up(q)
    BY <2>2 DEF Copies
  <2>7. \A p : p \in Tables(q.pt, pa) => p \in Page
    <3>1. \A p : p \in Tables(q.pt, pa) => InTree(h, pa, p)
      BY ONLY <1>1, <2>4, TablesIs
    <3> QED BY <3>1, <1>1 DEF InTree
  <2> QED BY <1>1, <1>2, <2>1, <2>3, <2>4, <2>5, <2>6, <2>7 DEF SetupDone
<1> QED BY <1>1, <1>2 DEF Dead

-----------------------------------------------------------------------------
(* The inductive invariant. *)

(* The inductive invariant. *)
VmTypes ==
  /\ Mem \in Memory
  /\ kernel_pagetable \in Page
  /\ env_pgtable \in [Env -> Page \cup {NULL}]
  /\ sz \in [Env -> SIZES \cup {0}]
  /\ lost \subseteq Page

(* The memory of all is in order, as long as the kernel has not panicked. *)
VmWorld == \E g : World(Mem, g, kernel_pagetable, env_pgtable, lost)

VmInv == VmTypes /\ (Alive => VmWorld)

(* The segments of an image begin at the start of a page. *)
Aligned == \A va \in SEGVAS : va % PAGE_SIZE = 0

(* The ghost of memory with n free pages, before kalloc was ever called. *)
Fresh(n) ==
  [role |-> [p \in Page |-> IF p <= n THEN "free" ELSE "lost"],
   up |-> [p \in Page |-> p], ix |-> [p \in Page |-> 0]]

(* Memory before kalloc was ever called. *)
NoMemory(n) == [pt |-> [page \in Page |-> Zero], free |-> 1 .. n, panic |-> "no"]

(* It has the shape its ghost says. *)
LEMMA FreshShape ==
  ASSUME NEW n \in NFREE, NEW m, m = NoMemory(n), NEW g, g = Fresh(n)
  PROVE  /\ Shape(m, g) /\ Up(m) /\ m.free # {}
         /\ \A p \in Page : /\ g.role[p] = "lost" <=> p \in n + 1 .. NPAGES
                            /\ g.role[p] \in {"free", "lost"}
<1>1. n \in Nat /\ n >= 1 /\ n <= NPAGES /\ NPAGES \in Nat /\ Page = 1 .. NPAGES
  BY Pool, VmAssumption
<1>2. \A p \in Page : (p <= n <=> p \in 1 .. n) /\ (~(p <= n) <=> p \in n + 1 .. NPAGES)
  BY <1>1
<1>3. 0 \in Index
  BY IndexRange, Sizes
<1>4. g \in Ghost
  BY <1>3 DEF Fresh, Ghost, Role
<1>5. \A p \in Page : g.role[p] = IF p <= n THEN "free" ELSE "lost"
  BY DEF Fresh
<1>6. m \in Memory
  <2>1. 1 .. n \in SUBSET Page
    BY <1>1
  <2>2. [page \in Page |-> Zero] \in [Page -> [Index -> Pte]]
    BY NoPteType
  <2> QED BY <2>1, <2>2 DEF NoMemory, Memory, Who
<1>7. m.free = 1 .. n /\ m.panic = "no"
  BY DEF NoMemory
<1>8. Shape(m, g)
  BY <1>2, <1>4, <1>5, <1>6, <1>7 DEF Shape, DownShape, UpShape, Inner
<1>9. 1 \in m.free
  BY <1>1, <1>7
<1> QED BY <1>2, <1>5, <1>7, <1>8, <1>9 DEF Up

(* The kernel's root is the first page taken. *)
LEMMA BootRoot ==
  ASSUME NEW n \in NFREE, NEW m, m = NoMemory(n), NEW o, NEW pa, o = kalloc(m).m, pa = kalloc(m).pa,
         NEW L, L = n + 1 .. NPAGES
  PROVE  pa \in Page /\ ImageBy(o, pa, L)
<1>1. PICK g : g = Fresh(n)
  OBVIOUS
<1>2. /\ Shape(m, g) /\ Up(m) /\ m.free # {}
      /\ \A p \in Page : /\ g.role[p] = "lost" <=> p \in L
                         /\ g.role[p] \in {"free", "lost"}
  BY ONLY <1>1, n \in NFREE, m = NoMemory(n), L = n + 1 .. NPAGES, FreshShape
<1>3. PICK z : z = kalloc(m)
  OBVIOUS
<1>4. o = z.m /\ pa = z.pa
  BY <1>3
<1>5. PICK gh : gh = Given(g, pa, "held")
  OBVIOUS
<1>6. /\ pa \in Page /\ g.role[pa] = "free" /\ Shape(o, gh)
      /\ o.pt[pa] = Zero /\ o.panic = m.panic
  BY ONLY <1>2, <1>3, <1>4, <1>5, KallocIs
<1>7. g \in Ghost
  BY <1>2 DEF Shape
<1>8. gh \in Ghost /\ gh.role[pa] = "held" /\ \A q \in Page : q # pa => gh.role[q] = g.role[q]
  <2>1. PICK role \in Role : role = "held"
    BY DEF Role
  <2> QED BY ONLY <2>1, <1>5, <1>6, <1>7, GivenIs
<1>9. PICK gr : gr = Given(gh, pa, "root")
  OBVIOUS
<1>10. gr.role[pa] = "root" /\ \A q \in Page : q # pa => gr.role[q] = g.role[q]
  <2>1. PICK role \in Role : role = "root"
    BY DEF Role
  <2> QED BY ONLY <2>1, <1>6, <1>8, <1>9, GivenIs
<1>11. Shape(o, gr)
  BY ONLY <1>6, <1>8, <1>9, NewRoot
<1>12. BootRoles(gr, pa, L) /\ \A p \in Page : gr.role[p] # "env"
  BY <1>2, <1>6, <1>10 DEF BootRoles
<1>13. \A a \in Index : o.pt[pa][a] = NoPte
  BY <1>6, NoPteType
<1>14. BootTables(o, pa)
  <2>1. NoPte.kind = "none"
    BY DEF NoPte
  <2>2. NoSelf(o.pt, pa)
    BY <1>13, <2>1 DEF NoSelf
  <2>3. \A a, b, c \in Index : Ent(o.pt, pa, a, b, c) = NoPte
    BY <1>13 DEF Ent
  <2>4. \A v \in Vpn : At(o.pt, pa, v) = NoPte
    <3>1. \A v \in Vpn : H2(v) \in Index /\ H1(v) \in Index /\ H0(v) \in Index
      BY Indices, IndexRange
    <3> QED BY <3>1, <2>3 DEF At
  <2> QED BY <2>2, <2>3, <2>4 DEF BootTables, Plain
<1>15. Up(o)
  BY <1>2, <1>6 DEF Up
<1> QED BY <1>6, <1>11, <1>12, <1>14, <1>15 DEF ImageBy

(* After the boot the memory of all is in order, or the kernel has panicked. *)
LEMMA BootWorld ==
  ASSUME NEW m, NEW k \in Page, NEW L, EnvsBy(m, k, L, NENV), NEW tabs, tabs = [e \in Env |-> NULL]
  PROVE  m \in Memory /\ (Up(m) => \E g : World(m, g, k, tabs, L))
<1>1. CASE Dead(m)
  BY <1>1 DEF Dead
<1>2. CASE ~Dead(m)
  <2>1. PICK g : /\ Up(m) /\ Shape(m, g) /\ BootTables(m, k) /\ BootRoles(g, k, L)
                 /\ \A p \in Page : g.role[p] = "env" <=> \E j \in 1 .. NENV : At(m.pt, k, EnvVpn(j)).pa = p
    BY <1>2 DEF EnvsBy
  <2>2. NULL \notin Page /\ k # NULL
    BY Pool DEF NULL
  <2>3. Distinct(k, tabs)
    BY <2>2 DEF Distinct
  <2>4. Owners(m, g, k, tabs, L)
    BY <2>1, <2>2 DEF Owners, BootRoles
  <2>5. World(m, g, k, tabs, L)
    BY <2>1, <2>3, <2>4 DEF World
  <2> QED BY <2>1, <2>5 DEF Shape
<1> QED BY <1>1, <1>2

(* Memory is its three fields. *)
LEMMA MemIs ==
  ASSUME NEW m \in Memory, pt = m.pt, free = m.free, panic = m.panic
  PROVE  Mem = m
  BY DEF Mem, Memory

(* The invariant holds initially. *)
LEMMA VmInit == Init => VmInv
<1> SUFFICES ASSUME Init PROVE VmInv
  OBVIOUS
<1>1. PICK n \in NFREE :
        LET boot == kvmcreate([pt |-> [page \in Page |-> Zero], free |-> 1 .. n, panic |-> "no"])
        IN  /\ pt = boot.m.pt /\ free = boot.m.free /\ panic = boot.m.panic
            /\ kernel_pagetable = boot.root
            /\ env_pgtable = [e \in Env |-> NULL]
            /\ sz = [e \in Env |-> 0]
            /\ lost = n + 1 .. NPAGES
  BY DEF Init
<1>2. PICK m : m = NoMemory(n)
  OBVIOUS
<1>3. PICK o, pa : o = kalloc(m).m /\ pa = kalloc(m).pa
  OBVIOUS
<1>4. PICK x : x = env_create_envs(MapImage(o, pa), pa)
  OBVIOUS
<1>5. kvmcreate(m).m = x /\ kvmcreate(m).root = pa
  BY <1>3, <1>4 DEF kvmcreate, MapKernel
<1>6. pt = x.pt /\ free = x.free /\ panic = x.panic /\ kernel_pagetable = pa
  BY <1>1, <1>2, <1>5 DEF NoMemory
<1>7. pa \in Page /\ ImageBy(o, pa, lost)
  BY <1>1, <1>2, <1>3, BootRoot
<1>8. EnvsBy(x, pa, lost, NENV)
  BY <1>4, <1>7, ImageIs, EnvsIs
<1>9. x \in Memory /\ (Up(x) => \E g : World(x, g, pa, env_pgtable, lost))
  BY <1>1, <1>7, <1>8, BootWorld
<1>10. Mem = x
  BY ONLY <1>6, <1>9, MemIs
<1>11. VmTypes
  <2>1. lost \subseteq Page
    BY <1>1, Pool, VmAssumption
  <2> QED BY <1>1, <1>6, <1>7, <1>9, <1>10, <2>1 DEF VmTypes
<1>12. Alive => VmWorld
  BY <1>6, <1>9, <1>10 DEF Alive, VmWorld, Up
<1> QED BY <1>11, <1>12 DEF VmInv

(* Memory after a step. *)
LEMMA MemNext ==
  ASSUME NEW n \in Memory, Becomes(n)
  PROVE  Mem' = n
  BY DEF Mem, Memory, Becomes

(* A step that panics keeps the invariant. *)
LEMMA Dies ==
  ASSUME VmTypes, NEW n, Dead(n), Becomes(n),
         UNCHANGED <<kernel_pagetable, env_pgtable, sz, lost>>
  PROVE  VmInv' /\ ~Alive'
<1>1. Mem' = n /\ n \in Memory
  BY MemNext DEF Dead
<1>2. ~Alive'
  BY DEF Dead, Up, Becomes, Alive
<1> QED BY <1>1, <1>2 DEF VmInv, VmTypes

(* A step after which the memory of all is in order keeps it. *)
LEMMA Lives ==
  ASSUME VmTypes, NEW n, NEW h, Becomes(n), World(n, h, kernel_pagetable, env_pgtable', lost'),
         UNCHANGED kernel_pagetable, sz' \in [Env -> SIZES \cup {0}], lost' \subseteq Page
  PROVE  VmInv' /\ Mem' = n
<1>1. n \in Memory /\ env_pgtable' \in [Env -> Page \cup {NULL}]
  BY DEF World, Shape, Distinct
<1>2. Mem' = n
  BY <1>1, MemNext
<1>3. VmTypes'
  BY <1>1, <1>2 DEF VmTypes
<1>4. VmWorld'
  BY <1>2 DEF VmWorld
<1> QED BY <1>2, <1>3, <1>4 DEF VmInv

(* The address of a segment is that of a user page. *)
LEMMA SegmentPage ==
  ASSUME Aligned, NEW va \in SEGVAS
  PROVE  \E v \in 0 .. KV - 1 : va = v * PAGE_SIZE
<1>1. va \in Nat /\ va < KBASE
  BY VmAssumption, Sizes
<1>2. PICK v \in Nat, r \in 0 .. PAGE_SIZE - 1 :
        v = va \div PAGE_SIZE /\ r = va % PAGE_SIZE /\ v * PAGE_SIZE \in Nat /\ va = v * PAGE_SIZE + r
  BY <1>1, Sizes, Divide
<1>3. va = v * PAGE_SIZE
  BY <1>2 DEF Aligned
<1>4. KV \in Nat /\ KBASE = KV * PAGE_SIZE
  BY KernelBegins, Products
<1>5. v < KV
  BY <1>1, <1>3, <1>4, PageOrder
<1> QED BY <1>3, <1>4, <1>5

(* What a step leaves of an address space, for the other envs and for e. *)
Others(g, e) ==
  /\ World(Mem, g, kernel_pagetable, env_pgtable, lost)
  /\ Touches(Mem, Mem', g, env_pgtable[e])
  /\ env_pgtable' = env_pgtable

(* One page is mapped for e, which was free, or it is physical page 0. *)
LoadView(g, e, v, pa) ==
  /\ ButView(Mem, Mem', env_pgtable[e], v, UserAt(pa))
  /\ At(Mem.pt, env_pgtable[e], v) = NoPte
  /\ pa = 0 \/ (pa \in Page /\ g.role[pa] = "free")

(* Up and Alive. *)
LEMMA UpNow == Up(Mem) <=> Alive
  BY DEF Up, Mem, Alive

(* Stop leaves a memory after a panic. *)
LEMMA Stopped ==
  ASSUME NEW m \in Memory, NEW who \in Who, who # "no"
  PROVE  Dead(Stop(m, who))
  BY StopIs DEF Dead

(* load_icode_mapper keeps the invariant and adds one page at most. *)
LEMMA LoadStep ==
  ASSUME VmInv, Aligned, NEW e \in Env, NEW va \in SEGVAS, NEW src \in BOOLEAN, load_icode_mapper(e, va, src)
  PROVE  /\ VmInv' /\ Alive /\ sz' = sz
         /\ Alive' => \E g : /\ Others(g, e)
                             /\ \/ SameView(Mem, Mem', env_pgtable[e])
                                \/ \E v \in 0 .. KV - 1 : \E pa : LoadView(g, e, v, pa)
<1>1. Alive /\ env_pgtable[e] # NULL /\ UNCHANGED <<kernel_pagetable, env_pgtable, sz>>
  BY DEF load_icode_mapper
<1>2. VmTypes /\ Mem \in Memory /\ lost \subseteq Page /\ sz \in [Env -> SIZES \cup {0}]
  BY DEF VmInv, VmTypes
<1>3. PICK g : World(Mem, g, kernel_pagetable, env_pgtable, lost)
  BY <1>1 DEF VmInv, VmWorld
<1>4. PICK m, k, tabs, L : m = Mem /\ k = kernel_pagetable /\ tabs = env_pgtable /\ L = lost
  OBVIOUS
<1>5. World(m, g, k, tabs, L) /\ Up(m) /\ tabs[e] # NULL
  BY <1>1, <1>3, <1>4, UpNow
<1>6. CASE src /\ free = {}
  <2>1. Becomes(Stop(Mem, "page fault")) /\ UNCHANGED lost
    BY <1>6 DEF load_icode_mapper
  <2>2. Dead(Stop(Mem, "page fault"))
    <3>1. PICK who \in Who : who = "page fault" /\ who # "no"
      BY DEF Who
    <3> QED BY <1>2, <3>1, Stopped
  <2> QED BY <1>1, <1>2, <2>1, <2>2, Dies
<1>7. CASE ~(src /\ free = {})
  <2>1. PICK z : z = kalloc(Mem)
    OBVIOUS
  <2>2. PICK x : x = mappages(z.m, env_pgtable[e], va, PAGE_SIZE, z.pa, "user")
    OBVIOUS
  <2>3. UsePage(z.pa, x)
    BY <1>7, <2>1, <2>2 DEF load_icode_mapper
  <2>4. PICK v \in 0 .. KV - 1 : va = v * PAGE_SIZE
    BY SegmentPage
  <2>5. PICK pa : pa = z.pa
    OBVIOUS
  <2>6. /\ \/ Dead(x.m) /\ x.ret = 0
           \/ Loaded(m, g, x, k, tabs, L, tabs[e], v, pa)
           \/ NotLoaded(m, g, x, k, tabs, L, tabs[e], pa)
        /\ pa \in Page \cup {NULL}
    <3>1. CASE m.free = {}
      <4>1. z.pa = 0 /\ z.m = m
        BY <3>1, <2>1, <1>4, KallocNone
      <4>2. x = mappages(m, tabs[e], v * PAGE_SIZE, PAGE_SIZE, 0, "user") /\ pa = 0
        BY <1>4, <2>2, <2>4, <2>5, <4>1
      <4>3. \/ Dead(x.m) /\ x.ret = 0
            \/ Loaded(m, g, x, k, tabs, L, tabs[e], v, 0)
            \/ NotLoaded(m, g, x, k, tabs, L, tabs[e], 0)
        BY ONLY <4>2, <1>5, e \in Env, v \in 0 .. KV - 1, LoadNone
      <4> QED BY <4>2, <4>3 DEF NULL
    <3>2. CASE m.free # {}
      <4>1. z = kalloc(m) /\ x = mappages(z.m, tabs[e], v * PAGE_SIZE, PAGE_SIZE, z.pa, "user")
        BY <1>4, <2>1, <2>2, <2>4
      <4>2. \/ Dead(x.m) /\ x.ret = 0
            \/ Loaded(m, g, x, k, tabs, L, tabs[e], v, z.pa)
            \/ NotLoaded(m, g, x, k, tabs, L, tabs[e], z.pa)
        BY ONLY <4>1, <1>5, <3>2, e \in Env, v \in 0 .. KV - 1, LoadOne
      <4>3. Shape(m, g)
        BY <1>5 DEF World
      <4>4. z.pa \in Page
        BY ONLY <4>1, <4>3, <3>2, KallocIs
      <4> QED BY <2>5, <4>2, <4>4
    <3> QED BY <3>1, <3>2
  <2>7. Becomes(x.m) /\ lost' = IF x.ret # 0 THEN L \cup ({pa} \ {NULL}) ELSE L
    BY <2>3, <2>5, <1>4 DEF UsePage
  <2>8. CASE Dead(x.m) /\ x.ret = 0
    <3>1. lost' = lost
      BY <2>7, <2>8, <1>4
    <3> QED BY <1>1, <1>2, <2>7, <2>8, <3>1, Dies
  <2>9. CASE Loaded(m, g, x, k, tabs, L, tabs[e], v, pa)
    <3>1. PICK h : World(x.m, h, k, tabs, L)
      BY <2>9 DEF Loaded
    <3>2. lost' = lost
      BY <2>7, <2>9, <1>4 DEF Loaded
    <3>3. World(x.m, h, kernel_pagetable, env_pgtable', lost')
      BY <3>1, <3>2, <1>1, <1>4
    <3>4. VmInv' /\ Mem' = x.m
      BY <1>1, <1>2, <2>7, <3>2, <3>3, Lives
    <3>5. Others(g, e)
      BY <1>1, <1>3, <1>4, <2>9, <3>4 DEF Others, Loaded
    <3>6. LoadView(g, e, v, pa)
      BY <1>1, <1>3, <1>4, <2>9, <3>4 DEF LoadView, Loaded
    <3> QED BY <1>1, <3>4, <3>5, <3>6
  <2>10. CASE NotLoaded(m, g, x, k, tabs, L, tabs[e], pa)
    <3>1. PICK h : World(x.m, h, k, tabs, L \cup ({pa} \ {NULL}))
      BY <2>10 DEF NotLoaded
    <3>2. lost' = L \cup ({pa} \ {NULL}) /\ lost' \subseteq Page
      BY <2>6, <2>7, <2>10, <1>2, <1>4 DEF NotLoaded
    <3>3. World(x.m, h, kernel_pagetable, env_pgtable', lost')
      BY <3>1, <3>2, <1>1, <1>4
    <3>4. VmInv' /\ Mem' = x.m
      BY <1>1, <1>2, <2>7, <3>2, <3>3, Lives
    <3>5. Others(g, e) /\ SameView(Mem, Mem', env_pgtable[e])
      BY <1>1, <1>3, <1>4, <2>10, <3>4 DEF Others, NotLoaded
    <3> QED BY <1>1, <3>4, <3>5
  <2> QED BY <2>6, <2>8, <2>9, <2>10
<1> QED BY <1>6, <1>7

(* Heaps end below KBASE. *)
LEMMA SizesRange == SIZES \cup {0} \subseteq 0 .. KBASE /\ SIZES \cup {0} \subseteq Nat
  BY VmAssumption, Sizes

(* Grow keeps the invariant and adds all pages or none. *)
LEMMA GrowStepInv ==
  ASSUME VmInv, NEW e \in Env, NEW new \in SIZES, Grow(e, new)
  PROVE  /\ VmInv' /\ Alive
         /\ Alive' => \E g : /\ Others(g, e)
                             /\ \/ SameView(Mem, Mem', env_pgtable[e]) /\ sz' = sz
                                \/ /\ new >= sz[e] /\ sz' = [sz EXCEPT ![e] = new]
                                   /\ GrewView(Mem, g, Mem', env_pgtable[e], PagesIn(sz[e]), PagesIn(new))
<1>1. Alive /\ env_pgtable[e] # NULL /\ UNCHANGED <<kernel_pagetable, env_pgtable, lost>>
  BY DEF Grow
<1>2. VmTypes /\ Mem \in Memory /\ lost \subseteq Page /\ sz \in [Env -> SIZES \cup {0}]
  BY DEF VmInv, VmTypes
<1>3. PICK g : World(Mem, g, kernel_pagetable, env_pgtable, lost)
  BY <1>1 DEF VmInv, VmWorld
<1>4. PICK m, k, tabs, L, old : m = Mem /\ k = kernel_pagetable /\ tabs = env_pgtable /\ L = lost /\ old = sz[e]
  OBVIOUS
<1>5. World(m, g, k, tabs, L) /\ Up(m) /\ tabs[e] # NULL
  BY <1>1, <1>3, <1>4, UpNow
<1>6. old \in 0 .. KBASE /\ new \in 0 .. KBASE /\ old \in Nat /\ new \in Nat
  BY <1>2, <1>4, SizesRange
<1>7. PICK x : x = uvmalloc(m, tabs[e], old, new)
  OBVIOUS
<1>8. Becomes(x.m) /\ sz' = IF x.ret # 0 /\ Up(x.m) THEN [sz EXCEPT ![e] = x.ret] ELSE sz
  BY <1>4, <1>7 DEF Grow, UseGrown
<1>9. CASE new < old
  <2>1. x.m = m /\ x.ret = old
    BY <1>7, <1>9 DEF uvmalloc
  <2>2. sz' = sz
    BY <1>2, <1>4, <1>8, <2>1
  <2>3. World(m, g, kernel_pagetable, env_pgtable', lost')
    BY <1>1, <1>4, <1>5
  <2>4. VmInv' /\ Mem' = m
    BY <1>1, <1>2, <1>8, <2>1, <2>2, <2>3, Lives
  <2>5. Touches(m, m, g, tabs[e]) /\ SameView(m, m, tabs[e])
    <3>1. tabs[e] \in Page /\ g.role[tabs[e]] = "root" /\ UserPart(m, tabs[e]) /\ UserEntries(m, tabs[e])
      BY ONLY <1>5, e \in Env, EnvRoot
    <3> QED BY ONLY <3>1, SameSelf, SameTouches
  <2> QED BY <1>1, <1>3, <1>4, <2>2, <2>4, <2>5 DEF Others
<1>10. CASE old <= new
  <2>1. \/ Dead(x.m)
        \/ x.ret = new /\ GrowDone(m, g, x.m, k, tabs, L, tabs[e], PagesIn(old), PagesIn(new))
        \/ x.ret = 0 /\ GrowNot(m, g, x.m, k, tabs, L, tabs[e])
    BY ONLY <1>5, <1>6, <1>7, <1>10, e \in Env, GrowIs
  <2>2. CASE Dead(x.m)
    <3>1. sz' = sz
      BY <1>8, <2>2 DEF Dead
    <3> QED BY <1>1, <1>2, <1>8, <2>2, <3>1, Dies
  <2>3. CASE x.ret = new /\ GrowDone(m, g, x.m, k, tabs, L, tabs[e], PagesIn(old), PagesIn(new))
    <3>1. PICK h : World(x.m, h, k, tabs, L)
      BY <2>3 DEF GrowDone
    <3>2. sz' = [sz EXCEPT ![e] = new]
      <4>1. Up(x.m)
        BY <2>3 DEF GrowDone
      <4>2. CASE new = 0
        BY <4>1, <4>2, <1>2, <1>4, <1>6, <1>8, <1>10, <2>3
      <4>3. CASE new # 0
        BY <4>1, <4>3, <1>8, <2>3
      <4> QED BY <4>2, <4>3
    <3>3. sz' \in [Env -> SIZES \cup {0}]
      BY <3>2, <1>2
    <3>4. World(x.m, h, kernel_pagetable, env_pgtable', lost')
      BY <3>1, <1>1, <1>4
    <3>5. VmInv' /\ Mem' = x.m
      BY <1>1, <1>2, <1>8, <3>3, <3>4, Lives
    <3>6. Others(g, e)
      BY <1>1, <1>3, <1>4, <2>3, <3>5 DEF Others, GrowDone
    <3>7. GrewView(Mem, g, Mem', env_pgtable[e], PagesIn(sz[e]), PagesIn(new))
      BY <1>4, <2>3, <3>5 DEF GrowDone
    <3> QED BY <1>1, <1>4, <1>6, <1>10, <3>2, <3>5, <3>6, <3>7
  <2>4. CASE x.ret = 0 /\ GrowNot(m, g, x.m, k, tabs, L, tabs[e])
    <3>1. PICK h : World(x.m, h, k, tabs, L)
      BY <2>4 DEF GrowNot
    <3>2. sz' = sz
      BY <1>8, <2>4
    <3>4. World(x.m, h, kernel_pagetable, env_pgtable', lost')
      BY <3>1, <1>1, <1>4
    <3>5. VmInv' /\ Mem' = x.m
      BY <1>1, <1>2, <1>8, <3>2, <3>4, Lives
    <3>6. Others(g, e) /\ SameView(Mem, Mem', env_pgtable[e])
      BY <1>1, <1>3, <1>4, <2>4, <3>5 DEF Others, GrowNot
    <3> QED BY <1>1, <3>2, <3>5, <3>6
  <2> QED BY <2>1, <2>2, <2>3, <2>4
<1> QED BY <1>6, <1>9, <1>10

(* Shrink keeps the invariant and removes the pages behind the new end. *)
LEMMA ShrinkStep ==
  ASSUME VmInv, NEW e \in Env, NEW new \in SIZES, Shrink(e, new)
  PROVE  /\ VmInv' /\ Alive
         /\ Alive' => \E g : /\ Others(g, e)
                             /\ new <= sz[e] /\ sz' = [sz EXCEPT ![e] = new]
                             /\ ShrankView(Mem, Mem', env_pgtable[e], PagesIn(new), PagesIn(sz[e]))
                             /\ PagesIn(sz[e]) <= PagesIn(new) + 1
<1>1. /\ Alive /\ env_pgtable[e] # NULL /\ new < sz[e]
      /\ UNCHANGED <<kernel_pagetable, env_pgtable, lost>>
      /\ sz' = IF panic' = "no" THEN [sz EXCEPT ![e] = new] ELSE sz
  BY DEF Shrink
<1>2. VmTypes /\ Mem \in Memory /\ lost \subseteq Page /\ sz \in [Env -> SIZES \cup {0}]
  BY DEF VmInv, VmTypes
<1>3. PICK g : World(Mem, g, kernel_pagetable, env_pgtable, lost)
  BY <1>1 DEF VmInv, VmWorld
<1>4. PICK m, k, tabs, L, old : m = Mem /\ k = kernel_pagetable /\ tabs = env_pgtable /\ L = lost /\ old = sz[e]
  OBVIOUS
<1>5. World(m, g, k, tabs, L) /\ Up(m) /\ tabs[e] # NULL
  BY <1>1, <1>3, <1>4, UpNow
<1>6. old \in 0 .. KBASE /\ new \in 0 .. KBASE /\ old \in Nat /\ new \in Nat /\ new <= old
  BY <1>1, <1>2, <1>4, SizesRange
<1>7. PICK x : x = uvmdealloc(m, tabs[e], old, new)
  OBVIOUS
<1>8. Becomes(x)
  BY <1>4, <1>7 DEF Shrink
<1>9. Dead(x) \/ ShrinkDone(m, g, x, k, tabs, L, tabs[e], PagesIn(new), PagesIn(old))
  BY ONLY <1>5, <1>6, <1>7, e \in Env, ShrinkIs
<1>10. CASE Dead(x)
  <2>1. sz' = sz
    BY <1>1, <1>8, <1>10 DEF Dead, Up, Becomes
  <2> QED BY <1>1, <1>2, <1>8, <1>10, <2>1, Dies
<1>11. CASE ShrinkDone(m, g, x, k, tabs, L, tabs[e], PagesIn(new), PagesIn(old))
  <2>1. PICK h : World(x, h, k, tabs, L)
    BY <1>11 DEF ShrinkDone
  <2>2. sz' = [sz EXCEPT ![e] = new]
    BY <1>1, <1>8, <1>11 DEF ShrinkDone, Up, Becomes
  <2>3. sz' \in [Env -> SIZES \cup {0}]
    BY <2>2, <1>2
  <2>4. World(x, h, kernel_pagetable, env_pgtable', lost')
    BY <2>1, <1>1, <1>4
  <2>5. VmInv' /\ Mem' = x
    BY <1>1, <1>2, <1>8, <2>3, <2>4, Lives
  <2>6. Others(g, e) /\ ShrankView(Mem, Mem', env_pgtable[e], PagesIn(new), PagesIn(sz[e]))
    BY <1>1, <1>3, <1>4, <1>11, <2>5 DEF Others, ShrinkDone
  <2>7. PagesIn(sz[e]) <= PagesIn(new) + 1
    BY <1>4, <1>11 DEF ShrinkDone
  <2> QED BY <1>1, <1>4, <1>6, <2>2, <2>5, <2>6, <2>7
<1> QED BY <1>9, <1>10, <1>11

(* env_free ends in a panic. *)
LEMMA FreeStepInv ==
  ASSUME VmInv, NEW e \in Env, env_free(e)
  PROVE  VmInv' /\ Alive /\ ~Alive'
<1>1. Alive /\ env_pgtable[e] # NULL /\ UNCHANGED <<kernel_pagetable, lost>>
  BY DEF env_free
<1>2. VmTypes
  BY DEF VmInv
<1>3. PICK g : World(Mem, g, kernel_pagetable, env_pgtable, lost)
  BY <1>1 DEF VmInv, VmWorld
<1>4. Up(Mem)
  BY <1>1, UpNow
<1>5. PICK x : x = uvmfree(uvmunmap(Mem, env_pgtable[e], KBASE, MAXVA \div PAGE_SIZE, FALSE), env_pgtable[e], KBASE - PAGE_SIZE)
  OBVIOUS
<1>6. Becomes(x)
  BY ONLY <1>5, env_free(e) DEF env_free
<1>7. Dead(x)
  BY ONLY <1>1, <1>3, <1>4, <1>5, e \in Env, FreeIs
<1>8. panic' # "no"
  BY <1>6, <1>7 DEF Dead, Up, Becomes
<1>9. UNCHANGED <<env_pgtable, sz>>
  BY <1>8 DEF env_free
<1> QED BY <1>1, <1>2, <1>6, <1>7, <1>9, Dies

(* A table without user pages is new, the others map what they did. *)
SetupView(g, e) ==
  /\ World(Mem, g, kernel_pagetable, env_pgtable, lost)
  /\ env_pgtable[e] = NULL
  /\ Same(Mem.pt, Mem'.pt, g)
  /\ \A f \in Env : f # e => env_pgtable'[f] = env_pgtable[f]
  /\ \A v \in 0 .. KV - 1 : At(Mem'.pt, env_pgtable'[e], v) = NoPte
  /\ sz' = sz

(* env_setup_vm keeps the invariant. *)
LEMMA SetupStep ==
  ASSUME VmInv, NEW e \in Env, env_setup_vm(e)
  PROVE  VmInv' /\ Alive /\ (Alive' => \E g : SetupView(g, e))
<1>1. Alive /\ env_pgtable[e] = NULL /\ free # {} /\ UNCHANGED <<kernel_pagetable, sz>>
  BY DEF env_setup_vm
<1>2. VmTypes /\ Mem \in Memory /\ lost \subseteq Page /\ sz \in [Env -> SIZES \cup {0}]
      /\ env_pgtable \in [Env -> Page \cup {NULL}]
  BY DEF VmInv, VmTypes
<1>3. PICK g : World(Mem, g, kernel_pagetable, env_pgtable, lost)
  BY <1>1 DEF VmInv, VmWorld
<1>4. PICK m, k, tabs, L : m = Mem /\ k = kernel_pagetable /\ tabs = env_pgtable /\ L = lost
  OBVIOUS
<1>5. World(m, g, k, tabs, L) /\ Up(m) /\ tabs[e] = NULL /\ m.free # {}
  BY <1>1, <1>3, <1>4, UpNow DEF Mem
<1>6. PICK o, pa : o = kalloc(m).m /\ pa = kalloc(m).pa
  OBVIOUS
<1>7. PICK x : x = kvm_copy_to_user_pagetable(o, k, pa)
  OBVIOUS
<1>8. UseCopy(e, pa, x)
  BY <1>4, <1>6, <1>7 DEF env_setup_vm, uvmcreate
<1>9. \/ x.m \in Memory /\ ~(Up(x.m) /\ x.ret = 0)
      \/ Up(x.m) /\ x.ret = 0 /\ SetupDone(m, g, x, k, tabs, L, e, pa)
  BY ONLY <1>5, <1>6, <1>7, e \in Env, SetupIs
<1>10. CASE x.m \in Memory /\ ~(Up(x.m) /\ x.ret = 0)
  <2>1. Becomes(Stop(x.m, "env_setup_vm")) /\ UNCHANGED <<env_pgtable, lost>>
    BY <1>8, <1>10 DEF UseCopy
  <2>2. Dead(Stop(x.m, "env_setup_vm"))
    <3>1. PICK who \in Who : who = "env_setup_vm" /\ who # "no"
      BY DEF Who
    <3> QED BY <1>10, <3>1, Stopped
  <2> QED BY <1>1, <1>2, <2>1, <2>2, Dies
<1>11. CASE Up(x.m) /\ x.ret = 0 /\ SetupDone(m, g, x, k, tabs, L, e, pa)
  <2>1. PICK n : n = SelfMap(x.m, pa)
    OBVIOUS
  <2>2. /\ Becomes(n) /\ env_pgtable' = [env_pgtable EXCEPT ![e] = pa]
        /\ lost' = lost \cup (Tables(x.m.pt, pa) \ Tables(n.pt, pa))
    BY <1>8, <1>11, <2>1 DEF UseCopy, Becomes
  <2>3. PICK h : World(n, h, k, [tabs EXCEPT ![e] = pa], L \cup (Tables(x.m.pt, pa) \ Tables(n.pt, pa)))
    BY <1>11, <2>1 DEF SetupDone
  <2>4. World(n, h, kernel_pagetable, env_pgtable', lost')
    BY <2>2, <2>3, <1>4
  <2>5. lost' \subseteq Page
    BY <1>2, <1>11, <2>2 DEF SetupDone
  <2>6. VmInv' /\ Mem' = n
    BY <1>1, <1>2, <2>2, <2>4, <2>5, Lives
  <2>7. SetupView(g, e)
    <3>1. env_pgtable'[e] = pa /\ \A f \in Env : f # e => env_pgtable'[f] = env_pgtable[f]
      BY <1>2, <2>2
    <3> QED BY <1>1, <1>3, <1>4, <1>11, <2>1, <2>6, <3>1 DEF SetupView, SetupDone
  <2> QED BY <1>1, <2>6, <2>7
<1> QED BY <1>9, <1>10, <1>11

(* Every step keeps the invariant. *)
LEMMA VmStep == Aligned /\ VmInv /\ [Next]_vars => VmInv'
<1> SUFFICES ASSUME Aligned, VmInv, [Next]_vars PROVE VmInv'
  OBVIOUS
<1>1. CASE UNCHANGED vars
  BY <1>1 DEF vars, VmInv, VmTypes, VmWorld, Mem, Alive
<1>2. ASSUME NEW e \in Env, env_setup_vm(e) PROVE VmInv'
  BY <1>2, SetupStep
<1>3. ASSUME NEW e \in Env, NEW va \in SEGVAS, NEW src \in BOOLEAN, load_icode_mapper(e, va, src) PROVE VmInv'
  BY <1>3, LoadStep
<1>4. ASSUME NEW e \in Env, NEW new \in SIZES, Grow(e, new) PROVE VmInv'
  BY <1>4, GrowStepInv
<1>5. ASSUME NEW e \in Env, NEW new \in SIZES, Shrink(e, new) PROVE VmInv'
  BY <1>5, ShrinkStep
<1>6. ASSUME NEW e \in Env, env_free(e) PROVE VmInv'
  BY <1>6, FreeStepInv
<1> QED BY <1>1, <1>2, <1>3, <1>4, <1>5, <1>6 DEF Next

(* The invariant holds in every behaviour. *)
LEMMA VmAlways == Aligned /\ Spec => []VmInv
<1>1. Aligned /\ Init => VmInv
  BY VmInit
<1>2. Aligned /\ VmInv /\ [Next]_vars => VmInv'
  BY VmStep
<1>3. Aligned => []Aligned
  <2>1. Aligned => Aligned'
    BY DEF Aligned
  <2> QED BY <2>1, PTL
<1> QED BY <1>1, <1>2, <1>3, PTL DEF Spec

(* Types: through every sequence of calls, out of memory or not, entries     *)
(* point to pages of the pool, the kernel image or nothing (vm.c).           *)
THEOREM VmTypesHold == Aligned /\ Spec => []VmTypeOK
<1>1. VmInv => VmTypeOK
  BY DEF VmInv, VmTypes, VmTypeOK, Mem, Memory, Pte, Kind
<1> QED BY <1>1, VmAlways, PTL

(* env_free never comes back: uvmunmap looks at the same page in all its     *)
(* rounds (vm.c:163-182), and the second round finds nothing there.          *)
EnvFreePanics == [][\A e \in Env : env_free(e) => ~Alive']_vars

(* For the same reason the heap shrinks by one page or not at all. *)
ShrinksByOnePage ==
  [][\A e \in Env, new \in SIZES : Shrink(e, new) /\ Alive' => PagesIn(sz[e]) <= PagesIn(new) + 1]_vars

(* No call of env_free returns (env.c:339-357).                              *)
THEOREM EnvFreeNeverReturns == Aligned /\ Spec => EnvFreePanics
<1>1. VmInv => \A e \in Env : env_free(e) => ~Alive'
  BY FreeStepInv
<1> QED BY <1>1, VmAlways, PTL DEF EnvFreePanics

(* A call of uvmdealloc that returns has unmapped one page at most           *)
(* (vm.c:163-182).                                                           *)
THEOREM HeapShrinksByOnePage == Aligned /\ Spec => ShrinksByOnePage
<1>1. VmInv => \A e \in Env, new \in SIZES :
                 Shrink(e, new) /\ Alive' => PagesIn(sz[e]) <= PagesIn(new) + 1
  BY ShrinkStep
<1> QED BY <1>1, VmAlways, PTL DEF ShrinksByOnePage

-----------------------------------------------------------------------------
(* Pages and their owners, the kernel's part. *)

(* The entries that own page p. *)
SlotsOf(p) == {s \in OwningSlots : pt[s.table][s.index].pa = p}

(* The sets that p is in, of those that own pages. *)
KeptIn(p) == {S \in {<<1, free>>, <<2, lost>>, <<3, Roots>>, <<4, EnvPages>>} : p \in S[2]}

(* The tables of all trees, in terms of the ghost. *)
LEMMA TreeTables ==
  ASSUME NEW g, World(Mem, g, kernel_pagetable, env_pgtable, lost), NEW t
  PROVE  t \in UNION {Tables(pt, r) : r \in Roots} <=> t \in Page /\ g.role[t] \in Inner
<1>1. Shape(Mem, g) /\ Mem.pt = pt /\ g \in Ghost /\ UpShape(Mem, g)
  BY DEF World, Mem, Shape
<1>2. NULL \notin Page
  BY Pool DEF NULL
<1>3. \A r : r \in Roots <=> r \in Page /\ g.role[r] = "root"
  BY <1>2 DEF World, Distinct, Owners, Roots, EnvRoots
<1>4. \A r \in Roots : t \in Tables(pt, r) <=> InTree(g, r, t)
  <2>1. ASSUME NEW r \in Roots PROVE t \in Tables(Mem.pt, r) <=> InTree(g, r, t)
    BY ONLY <2>1, <1>1, <1>3, TablesIs
  <2> QED BY <2>1, <1>1
<1>5. ASSUME NEW r \in Roots, InTree(g, r, t) PROVE t \in Page /\ g.role[t] \in Inner
  BY <1>3, <1>5 DEF InTree, Inner
<1>6. ASSUME t \in Page, g.role[t] \in Inner PROVE \E r \in Roots : InTree(g, r, t)
  <2>1. g.up \in [Page -> Page]
    BY <1>1 DEF Ghost
  <2>2. \A p \in Page : /\ g.role[p] = "mid" => g.role[g.up[p]] = "root"
                        /\ g.role[p] = "low" => g.role[g.up[p]] = "mid"
    BY <1>1 DEF UpShape, Inner, Lower
  <2>3. CASE g.role[t] = "root"
    BY <2>3, <1>3, <1>6 DEF InTree
  <2>4. CASE g.role[t] = "mid"
    <3>1. g.up[t] \in Roots
      BY <2>1, <2>2, <2>4, <1>3, <1>6
    <3> QED BY <3>1, <2>4, <1>6 DEF InTree
  <2>5. CASE g.role[t] = "low"
    <3>1. g.up[g.up[t]] \in Roots
      BY <2>1, <2>2, <2>5, <1>3, <1>6
    <3> QED BY <3>1, <2>5, <1>6 DEF InTree
  <2> QED BY <1>6, <2>3, <2>4, <2>5 DEF Inner
<1> QED BY <1>4, <1>5, <1>6

(* The one entry that owns a page of a tree is the ghost's. *)
LEMMA OwnedOnce ==
  ASSUME NEW g, World(Mem, g, kernel_pagetable, env_pgtable, lost), NEW p \in Page
  PROVE  SlotsOf(p) = IF g.role[p] \in {"mid", "low", "data"} THEN {[table |-> g.up[p], index |-> g.ix[p]]} ELSE {}
<1>1. Shape(Mem, g) /\ Mem.pt = pt /\ g \in Ghost /\ UpShape(Mem, g) /\ DownShape(Mem, g)
  BY DEF World, Mem, Shape
<1>2. g.up[p] \in Page /\ g.ix[p] \in Index /\ 0 \notin Page
  BY <1>1, Pool DEF Ghost
<1>3. ASSUME NEW s \in SlotsOf(p)
      PROVE  g.role[p] \in {"mid", "low", "data"} /\ s = [table |-> g.up[p], index |-> g.ix[p]]
  <2>1. /\ s \in [table : UNION {Tables(pt, r) : r \in Roots}, index : Index]
        /\ pt[s.table][s.index].kind \in {"table", "user"}
        /\ pt[s.table][s.index].pa # s.table /\ pt[s.table][s.index].pa = p
    BY <1>3 DEF SlotsOf, OwningSlots
  <2>2. PICK t, i : t = s.table /\ i = s.index
    OBVIOUS
  <2>3. s = [table |-> t, index |-> i] /\ t \in UNION {Tables(pt, r) : r \in Roots} /\ i \in Index
    BY <2>1, <2>2
  <2>4. t \in Page /\ g.role[t] \in Inner
    BY ONLY <2>3, World(Mem, g, kernel_pagetable, env_pgtable, lost), TreeTables
  <2>5. PICK pte : pte = pt[t][i]
    OBVIOUS
  <2>6. pte.kind \in {"table", "user"} /\ pte.pa # t /\ pte.pa = p
    BY <2>1, <2>2, <2>5
  <2>7. Loose(g.role[t], t, i, pte) \/ Owning(g, t, i, pte)
    BY <1>1, <2>3, <2>4, <2>5 DEF DownShape
  <2>8. ~Loose(g.role[t], t, i, pte)
    BY <1>2, <2>6 DEF Loose, NoPte, UserAt
  <2>9. g.role[p] = Lower(g.role[t]) /\ g.up[p] = t /\ g.ix[p] = i
    BY <2>6, <2>7, <2>8 DEF Owning
  <2> QED BY <2>3, <2>4, <2>9, Roles
<1>4. ASSUME g.role[p] \in {"mid", "low", "data"}
      PROVE  [table |-> g.up[p], index |-> g.ix[p]] \in SlotsOf(p)
  <2>1. PICK t, i : t = g.up[p] /\ i = g.ix[p]
    OBVIOUS
  <2>2. g.role[t] \in Inner /\ g.role[p] = Lower(g.role[t]) /\ pt[t][i] = Link(g.role[t], p)
    BY <1>1, <1>4, <2>1 DEF UpShape
  <2>3. PICK pte : pte = pt[t][i]
    OBVIOUS
  <2>4. pte.kind \in {"table", "user"} /\ pte.pa = p
    BY <2>2, <2>3 DEF Link
  <2>5. p # t
    BY <2>2 DEF Inner, Lower
  <2>6. t \in UNION {Tables(pt, r) : r \in Roots} /\ i \in Index
    BY ONLY <1>2, <2>1, <2>2, World(Mem, g, kernel_pagetable, env_pgtable, lost), TreeTables
  <2>7. [table |-> t, index |-> i] \in SlotsOf(p)
    BY <2>3, <2>4, <2>5, <2>6 DEF SlotsOf, OwningSlots
  <2> QED BY <2>1, <2>7
<1> QED BY <1>3, <1>4

(* The pages of envs[] in terms of the ghost. *)
LEMMA EnvPagesAre ==
  ASSUME NEW g, World(Mem, g, kernel_pagetable, env_pgtable, lost), NEW p \in Page
  PROVE  p \in EnvPages <=> g.role[p] = "env"
<1>1. Shape(Mem, g) /\ kernel_pagetable \in Page /\ g.role[kernel_pagetable] = "root" /\ NoSelf(Mem.pt, kernel_pagetable)
  BY DEF World, Distinct, Owners, BootTables
<1>2. NENV \in Nat
  BY Sizes
<1>3. ASSUME NEW j \in 1 .. NENV
      PROVE  j - 1 \in 0 .. NENV - 1 /\ entry(Mem, kernel_pagetable, ENVS(j - 1)) = At(Mem.pt, kernel_pagetable, EnvVpn(j))
  <2>1. j \in 0 .. NENV /\ j - 1 \in 0 .. NENV - 1
    BY <1>2
  <2>2. EnvVpn(j) \in Vpn /\ ENVS(j - 1) = EnvVpn(j) * PAGE_SIZE
    BY ONLY <2>1, EnvVpns
  <2>3. H2(EnvVpn(j)) \in Index
    BY <2>2, Indices, IndexRange
  <2>4. Mem.pt[kernel_pagetable][H2(EnvVpn(j))].kind # "user"
    BY <1>1, <2>3 DEF NoSelf
  <2>5. entry(Mem, kernel_pagetable, EnvVpn(j) * PAGE_SIZE) = At(Mem.pt, kernel_pagetable, EnvVpn(j))
    BY ONLY <1>1, <2>2, <2>4, EntryIs
  <2> QED BY <2>1, <2>2, <2>5
<1>4. ASSUME NEW i \in 0 .. NENV - 1
      PROVE  \E j \in 1 .. NENV : entry(Mem, kernel_pagetable, ENVS(i)) = At(Mem.pt, kernel_pagetable, EnvVpn(j))
  <2>1. PICK j \in 1 .. NENV : i = j - 1
    <3>1. i + 1 \in 1 .. NENV /\ i = (i + 1) - 1
      BY <1>2
    <3> QED BY <3>1
  <2> QED BY <2>1, <1>3
<1>5. p \in EnvPages <=> \E j \in 1 .. NENV : At(Mem.pt, kernel_pagetable, EnvVpn(j)).pa = p
  BY <1>3, <1>4 DEF EnvPages
<1> QED BY <1>5 DEF World, Owners

(* A page that is not part of a tree is in one of the sets. *)
LEMMA KeptOnce ==
  ASSUME NEW g, World(Mem, g, kernel_pagetable, env_pgtable, lost), NEW p \in Page
  PROVE  IF g.role[p] \in {"mid", "low", "data"} THEN KeptIn(p) = {} ELSE \E S : KeptIn(p) = {S}
<1>1. p \in EnvPages <=> g.role[p] = "env"
  BY EnvPagesAre
<1>2. p \in free <=> g.role[p] = "free"
  BY DEF World, Shape, Mem
<1>3. p \in lost <=> g.role[p] = "lost"
  BY DEF World, Owners
<1>4. p \in Roots <=> g.role[p] = "root"
  <2>1. NULL \notin Page
    BY Pool DEF NULL
  <2> QED BY <2>1 DEF World, Distinct, Owners, Roots, EnvRoots
<1>5. g.role[p] \in Role /\ g.role[p] # "held"
  BY DEF World, Owners, Shape, Ghost
<1>6. \A S : S \in KeptIn(p) <=> \/ S = <<1, free>> /\ p \in free
                                 \/ S = <<2, lost>> /\ p \in lost
                                 \/ S = <<3, Roots>> /\ p \in Roots
                                 \/ S = <<4, EnvPages>> /\ p \in EnvPages
  BY DEF KeptIn
<1>7. CASE g.role[p] = "free"
  <2>1. KeptIn(p) = {<<1, free>>}
    BY <1>1, <1>2, <1>3, <1>4, <1>6, <1>7
  <2> QED BY <1>7, <2>1
<1>8. CASE g.role[p] = "lost"
  <2>1. KeptIn(p) = {<<2, lost>>}
    BY <1>1, <1>2, <1>3, <1>4, <1>6, <1>8
  <2> QED BY <1>8, <2>1
<1>9. CASE g.role[p] = "root"
  <2>1. KeptIn(p) = {<<3, Roots>>}
    BY <1>1, <1>2, <1>3, <1>4, <1>6, <1>9
  <2> QED BY <1>9, <2>1
<1>10. CASE g.role[p] = "env"
  <2>1. KeptIn(p) = {<<4, EnvPages>>}
    BY <1>1, <1>2, <1>3, <1>4, <1>6, <1>10
  <2> QED BY <1>10, <2>1
<1>11. CASE g.role[p] \in {"mid", "low", "data"}
  <2>1. KeptIn(p) = {}
    BY <1>1, <1>2, <1>3, <1>4, <1>6, <1>11
  <2> QED BY <1>11, <2>1
<1> QED BY <1>5, <1>7, <1>8, <1>9, <1>10, <1>11 DEF Role

(* Every page of memory has exactly one owner (vm.c, env.c:183, env.c:274):  *)
(* no call maps or frees a page somebody else uses, and none is leaked but   *)
(* where env_setup_vm and load_icode_mapper are known to leak.               *)
THEOREM PagesHaveOneOwner == Aligned /\ Spec => []PagesOwnedOnce
<1>1. VmInv => PagesOwnedOnce
  <2> SUFFICES ASSUME VmInv, Alive, NEW p \in Page
               PROVE  Cardinality(SlotsOf(p)) + Cardinality(KeptIn(p)) = 1
    BY DEF PagesOwnedOnce, SlotsOf, KeptIn
  <2>1. PICK g : World(Mem, g, kernel_pagetable, env_pgtable, lost)
    BY DEF VmInv, VmWorld
  <2>2. Cardinality({}) = 0 /\ \A x : Cardinality({x}) = 1
    BY FS_EmptySet, FS_Singleton
  <2>3. CASE g.role[p] \in {"mid", "low", "data"}
    <3>1. SlotsOf(p) = {[table |-> g.up[p], index |-> g.ix[p]]}
      BY <2>1, <2>3, OwnedOnce
    <3>2. KeptIn(p) = {}
      BY <2>1, <2>3, KeptOnce
    <3>3. Cardinality(SlotsOf(p)) = 1 /\ Cardinality(KeptIn(p)) = 0
      BY <2>2, <3>1, <3>2
    <3> QED BY ONLY <3>3
  <2>4. CASE g.role[p] \notin {"mid", "low", "data"}
    <3>1. SlotsOf(p) = {}
      BY <2>1, <2>4, OwnedOnce
    <3>2. PICK S : KeptIn(p) = {S}
      BY <2>1, <2>4, KeptOnce
    <3>3. Cardinality(SlotsOf(p)) = 0 /\ Cardinality(KeptIn(p)) = 1
      BY <2>2, <3>1, <3>2
    <3> QED BY ONLY <3>3
  <2> QED BY <2>3, <2>4
<1> QED BY <1>1, VmAlways, PTL

(* Every env's table maps the kernel as the kernel's own and itself at UVPT  *)
(* (env.c:166-169 and 183).                                                  *)
THEOREM KernelIsShared == Aligned /\ Spec => []KernelShared
<1>1. ASSUME VmInv, Alive, NEW root \in EnvRoots
      PROVE  Mem.pt[root][VPN_L(2, UVPT)] = [pa |-> root, kind |-> "user"]
  <2>1. PICK g : World(Mem, g, kernel_pagetable, env_pgtable, lost)
    BY <1>1 DEF VmInv, VmWorld
  <2>2. PICK e \in Env : root = env_pgtable[e] /\ env_pgtable[e] # NULL
    BY <1>1 DEF EnvRoots
  <2>3. VPN_L(2, UVPT) = FAN2 - 2
    BY EnvsPlace, Sizes
  <2>4. Mem.pt[root][FAN2 - 2] = UserAt(root)
    BY <2>1, <2>2 DEF World, EnvTable
  <2> QED BY <2>3, <2>4 DEF UserAt
<1>2. ASSUME VmInv, Alive, NEW root \in EnvRoots, NEW va \in KernelVas, VPN_L(2, va) # VPN_L(2, UVPT)
      PROVE  entry(Mem, root, va) = entry(Mem, kernel_pagetable, va)
  <2> USE <1>2
  <2>1. PICK g : World(Mem, g, kernel_pagetable, env_pgtable, lost)
    BY DEF VmInv, VmWorld
  <2>2. PICK e \in Env : root = env_pgtable[e] /\ env_pgtable[e] # NULL
    BY DEF EnvRoots
  <2>3. /\ Shape(Mem, g) /\ root \in Page /\ g.role[root] = "root"
        /\ kernel_pagetable \in Page /\ g.role[kernel_pagetable] = "root"
    BY ONLY <2>1, <2>2, EnvRoot
  <2>4. PICK v \in Vpn : va = v * PAGE_SIZE /\ v >= KV
    <3>1. va \in KBASE .. MAXVA - 1 /\ va % PAGE_SIZE = 0
      BY DEF KernelVas
    <3>2. KBASE \in Nat /\ KV \in Nat /\ KBASE = KV * PAGE_SIZE /\ NV \in Nat /\ MAXVA = NV * PAGE_SIZE
      BY KernelBegins, Products, Sizes
    <3>3. MAXVA \in Nat
      BY <3>2, PageNumber
    <3>4. va \in Nat /\ KBASE <= va /\ va < MAXVA
      BY <3>1, <3>2, <3>3
    <3>5. PICK v \in Nat, r \in 0 .. PAGE_SIZE - 1 :
            v = va \div PAGE_SIZE /\ r = va % PAGE_SIZE /\ v * PAGE_SIZE \in Nat /\ va = v * PAGE_SIZE + r
      BY <3>4, Sizes, Divide
    <3>6. va = v * PAGE_SIZE
      BY <3>1, <3>5
    <3>7. v < NV /\ ~(v < KV)
      <4>1. v < NV
        BY <3>2, <3>4, <3>6, PageOrder
      <4>2. ~(v < KV)
        <5>1. v < KV <=> v * PAGE_SIZE < KV * PAGE_SIZE
          BY ONLY <3>2, <3>5, PageOrder
        <5> QED BY <5>1, <3>2, <3>4, <3>6
      <4> QED BY <4>1, <4>2
    <3> QED BY <3>2, <3>6, <3>7 DEF Vpn
  <2>5. H2(v) # FAN2 - 2 /\ H2(v) \in Index
    <3>1. VPN_L(2, UVPT) = FAN2 - 2
      BY EnvsPlace, Sizes
    <3>2. VPN_L(2, va) = H2(v) /\ H2(v) \in 0 .. FAN2 - 1
      BY ONLY <2>4, Indices
    <3> QED BY <3>1, <3>2, IndexRange
  <2>6. Mem.pt[root][H2(v)].kind # "user" /\ Mem.pt[kernel_pagetable][H2(v)].kind # "user"
    BY ONLY <2>3, <2>5, RootEntry
  <2>7. entry(Mem, root, va) = At(Mem.pt, root, v) /\ entry(Mem, kernel_pagetable, va) = At(Mem.pt, kernel_pagetable, v)
    BY ONLY <2>3, <2>4, <2>6, EntryIs
  <2>8. At(Mem.pt, root, v) = At(Mem.pt, kernel_pagetable, v)
    BY <2>1, <2>2, <2>4, <2>5 DEF World, EnvTable
  <2> QED BY <2>7, <2>8
<1>3. VmInv => KernelShared
  BY <1>1, <1>2 DEF KernelShared
<1> QED BY <1>3, VmAlways, PTL

-----------------------------------------------------------------------------
(* Address spaces. *)

(* The user part, as AddressSpace is given it. *)
User == 0 .. (KBASE \div PAGE_SIZE) - 1

(* The refinement mapping. *)
Maps == [e \in Env |-> [v \in User |->
           IF env_pgtable[e] = NULL THEN 0 ELSE lookup(Mem, env_pgtable[e], v * PAGE_SIZE)]]

(* The physical page behind the user page v of e. *)
Behind(m, tabs, e, v) == IF tabs[e] = NULL THEN 0 ELSE UserPa(At(m.pt, tabs[e], v))

(* It ends where the kernel begins. *)
LEMMA UserIs == User = 0 .. KV - 1
  BY DEF User, KV

(* What lookup finds for an env. *)
LEMMA LookupIs ==
  ASSUME NEW m, NEW g, NEW k, NEW tabs, NEW L, World(m, g, k, tabs, L), NEW e \in Env, tabs[e] # NULL,
         NEW v \in 0 .. KV - 1
  PROVE  lookup(m, tabs[e], v * PAGE_SIZE) = Behind(m, tabs, e, v)
<1>1. PICK root : root = tabs[e]
  OBVIOUS
<1>2. Shape(m, g) /\ root \in Page /\ g.role[root] = "root" /\ UserPart(m, root)
  BY ONLY <1>1, World(m, g, k, tabs, L), e \in Env, tabs[e] # NULL, EnvRoot
<1>3. v \in Vpn /\ m.pt[root][H2(v)].kind # "user"
  BY <1>2, UserPages DEF UserPart
<1>4. entry(m, root, v * PAGE_SIZE) = At(m.pt, root, v)
  BY ONLY <1>2, <1>3, EntryIs
<1> QED BY <1>1, <1>4 DEF lookup, Behind

(* The mapping in terms of entries. *)
LEMMA MapsAre ==
  ASSUME NEW g, World(Mem, g, kernel_pagetable, env_pgtable, lost)
  PROVE  \A e \in Env, v \in User : Maps[e][v] = Behind(Mem, env_pgtable, e, v)
<1> SUFFICES ASSUME NEW e \in Env, NEW v \in User
             PROVE  Maps[e][v] = Behind(Mem, env_pgtable, e, v)
  OBVIOUS
<1>1. Maps[e][v] = IF env_pgtable[e] = NULL THEN 0 ELSE lookup(Mem, env_pgtable[e], v * PAGE_SIZE)
  BY DEF Maps
<1>2. CASE env_pgtable[e] = NULL
  BY <1>1, <1>2 DEF Behind
<1>3. CASE env_pgtable[e] # NULL
  <2>1. v \in 0 .. KV - 1
    BY UserIs
  <2>2. lookup(Mem, env_pgtable[e], v * PAGE_SIZE) = Behind(Mem, env_pgtable, e, v)
    BY ONLY <2>1, <1>3, e \in Env, World(Mem, g, kernel_pagetable, env_pgtable, lost), LookupIs
  <2> QED BY <1>1, <1>3, <2>2
<1> QED BY <1>2, <1>3

(* The same after a step. *)
LEMMA MapsAreNext ==
  ASSUME VmInv', Alive'
  PROVE  \A e \in Env, v \in User : Maps'[e][v] = Behind(Mem', env_pgtable', e, v)
<1> SUFFICES ASSUME NEW e \in Env, NEW v \in User
             PROVE  Maps'[e][v] = Behind(Mem', env_pgtable', e, v)
  OBVIOUS
<1>1. PICK h : World(Mem', h, kernel_pagetable', env_pgtable', lost')
  BY DEF VmInv, VmWorld
<1>2. PICK m, k, tabs, L : m = Mem' /\ k = kernel_pagetable' /\ tabs = env_pgtable' /\ L = lost'
  OBVIOUS
<1>3. World(m, h, k, tabs, L)
  BY <1>1, <1>2
<1>4. Maps'[e][v] = IF tabs[e] = NULL THEN 0 ELSE lookup(m, tabs[e], v * PAGE_SIZE)
  BY <1>2 DEF Maps
<1>5. CASE tabs[e] = NULL
  BY <1>2, <1>4, <1>5 DEF Behind
<1>6. CASE tabs[e] # NULL
  <2>1. v \in 0 .. KV - 1
    BY UserIs
  <2>2. lookup(m, tabs[e], v * PAGE_SIZE) = Behind(m, tabs, e, v)
    BY ONLY <2>1, <1>3, <1>6, e \in Env, LookupIs
  <2> QED BY <1>2, <1>4, <1>6, <2>2
<1> QED BY <1>5, <1>6

(* A page behind a user page has the role data, and one place. *)
LEMMA DataPage ==
  ASSUME NEW m, NEW g, Shape(m, g), NEW root \in Page, g.role[root] = "root", UserPart(m, root),
         NEW v \in 0 .. KV - 1, At(m.pt, root, v).kind = "user", At(m.pt, root, v).pa # 0,
         NEW t, t = At(m.pt, root, v).pa
  PROVE  /\ t \in Page /\ g.role[t] = "data" /\ g.ix[t] = H0(v)
         /\ g.ix[g.up[t]] = H1(v) /\ g.ix[g.up[g.up[t]]] = H2(v)
<1>1. v \in Vpn /\ m.pt[root][H2(v)].kind # "user" /\ H0(v) \in Index
  BY UserPages DEF UserPart
<1>2. PICK x : x = Look(m, root, v)
  OBVIOUS
<1>3. \/ x.slot.table = 0 /\ At(m.pt, root, v) = NoPte
      \/ /\ x.slot.table \in Page /\ g.role[x.slot.table] = "low"
         /\ Path(m, root, v, x.slot.table)
         /\ At(m.pt, root, v) = m.pt[x.slot.table][H0(v)]
  BY ONLY <1>1, <1>2, Shape(m, g), root \in Page, g.role[root] = "root", WalkLook
<1>4. At(m.pt, root, v) # NoPte
  BY DEF NoPte
<1>5. PICK p : p = x.slot.table
  OBVIOUS
<1>6. p \in Page /\ g.role[p] = "low" /\ Path(m, root, v, p) /\ At(m.pt, root, v) = m.pt[p][H0(v)]
  BY <1>3, <1>4, <1>5
<1>7. OnPath(g, root, H2(v), H1(v), m.pt[root][H2(v)].pa, p)
  BY ONLY <1>1, <1>6, Shape(m, g), root \in Page, g.role[root] = "root", PathOf
<1>8. PICK i, pte : i = H0(v) /\ pte = m.pt[p][i]
  OBVIOUS
<1>9. pte.kind = "user" /\ pte.pa # 0 /\ pte.pa = t
  BY <1>6, <1>8
<1>10. Loose("low", p, i, pte) \/ Owning(g, p, i, pte)
  BY <1>1, <1>6, <1>8 DEF Shape, DownShape, Inner
<1>11. ~Loose("low", p, i, pte)
  BY <1>9 DEF Loose, NoPte, UserAt
<1>12. t \in Page /\ g.role[t] = "data" /\ g.up[t] = p /\ g.ix[t] = i
  BY <1>6, <1>9, <1>10, <1>11 DEF Owning, Lower
<1> QED BY <1>7, <1>8, <1>12 DEF OnPath

(* A page behind a user page is behind no other of the same env. *)
LEMMA BehindData ==
  ASSUME NEW m, NEW g, NEW k, NEW tabs, NEW L, World(m, g, k, tabs, L), NEW e \in Env, NEW v \in 0 .. KV - 1,
         Behind(m, tabs, e, v) # 0
  PROVE  /\ Behind(m, tabs, e, v) \in Page /\ g.role[Behind(m, tabs, e, v)] = "data"
         /\ \A w \in 0 .. KV - 1 : Behind(m, tabs, e, w) = Behind(m, tabs, e, v) => w = v
<1>1. tabs[e] # NULL
  BY DEF Behind
<1>2. PICK root : root = tabs[e]
  OBVIOUS
<1>3. Shape(m, g) /\ root \in Page /\ g.role[root] = "root" /\ UserPart(m, root)
  BY ONLY <1>1, <1>2, World(m, g, k, tabs, L), e \in Env, EnvRoot
<1>4. PICK t : t = Behind(m, tabs, e, v)
  OBVIOUS
<1>5. \A w \in 0 .. KV - 1 : Behind(m, tabs, e, w) = UserPa(At(m.pt, root, w))
  BY <1>1, <1>2 DEF Behind
<1>6. ASSUME NEW w \in 0 .. KV - 1, Behind(m, tabs, e, w) = t
      PROVE  /\ t \in Page /\ g.role[t] = "data" /\ g.ix[t] = H0(w)
             /\ g.ix[g.up[t]] = H1(w) /\ g.ix[g.up[g.up[t]]] = H2(w)
  <2>1. At(m.pt, root, w).kind = "user" /\ At(m.pt, root, w).pa # 0 /\ t = At(m.pt, root, w).pa
    BY <1>4, <1>5, <1>6 DEF UserPa
  <2> QED BY ONLY <2>1, <1>3, w \in 0 .. KV - 1, DataPage
<1>7. \A w \in 0 .. KV - 1 : w \in Vpn
  BY UserPages
<1> QED BY <1>4, <1>6, <1>7, SameIndices

(* Add of AddressSpace, in terms of the mapping. *)
Added(e, S) ==
  /\ \A v \in S : Maps[e][v] = 0 /\ Maps'[e][v] \notin Space!Mapped \cup {0}
  /\ \A v, w \in S : Maps'[e][v] = Maps'[e][w] => v = w
  /\ \A v \in User \ S : Maps'[e][v] = Maps[e][v]
  /\ \A f \in Env \ {e} : Maps'[f] = Maps[f]

(* Added is Add. *)
LEMMA AddedIs ==
  ASSUME NEW e \in Env, NEW S, Added(e, S)
  PROVE  Space!Add(e, S)
  BY Zenon DEF Added, Space!Add, Maps, User

(* The maps of two states with the same pages behind all user pages. *)
LEMMA MapsEqual ==
  ASSUME \A e \in Env, v \in User : Maps'[e][v] = Maps[e][v]
  PROVE  Maps' = Maps
<1> DEFINE New(e) == [v \in User |-> IF env_pgtable'[e] = NULL THEN 0 ELSE lookup(Mem', env_pgtable'[e], v * PAGE_SIZE)]
           Old(e) == [v \in User |-> IF env_pgtable[e] = NULL THEN 0 ELSE lookup(Mem, env_pgtable[e], v * PAGE_SIZE)]
<1>1. Maps' = [e \in Env |-> New(e)] /\ Maps = [e \in Env |-> Old(e)]
  BY DEF Maps
<1>2. ASSUME NEW e \in Env PROVE New(e) = Old(e)
  <2>1. Maps'[e] = New(e) /\ Maps[e] = Old(e)
    BY <1>1
  <2>2. \A v \in User : New(e)[v] = Old(e)[v]
    BY <2>1
  <2> QED BY <2>2
<1> HIDE DEF New, Old
<1> QED BY <1>1, <1>2

(* The same for one env. *)
LEMMA MapEqual ==
  ASSUME NEW e \in Env, \A v \in User : Maps'[e][v] = Maps[e][v]
  PROVE  Maps'[e] = Maps[e]
<1> DEFINE New == [v \in User |-> IF env_pgtable'[e] = NULL THEN 0 ELSE lookup(Mem', env_pgtable'[e], v * PAGE_SIZE)]
           Old == [v \in User |-> IF env_pgtable[e] = NULL THEN 0 ELSE lookup(Mem, env_pgtable[e], v * PAGE_SIZE)]
<1>1. Maps'[e] = New /\ Maps[e] = Old
  BY DEF Maps
<1>2. \A v \in User : New[v] = Old[v]
  BY <1>1
<1>3. New = Old
  BY <1>2
<1> QED BY <1>1, <1>3

(* The other envs see nothing of a step. *)
LEMMA OthersSame ==
  ASSUME VmInv', Alive', NEW g, NEW e \in Env, Others(g, e), env_pgtable[e] # NULL
  PROVE  /\ \A f \in Env, v \in User : f # e => Maps'[f][v] = Maps[f][v]
         /\ \A v \in User : /\ Maps[e][v] = UserPa(At(Mem.pt, env_pgtable[e], v))
                            /\ Maps'[e][v] = UserPa(At(Mem'.pt, env_pgtable[e], v))
<1>1. \A f \in Env, v \in User : Maps[f][v] = Behind(Mem, env_pgtable, f, v)
  BY MapsAre DEF Others
<1>2. \A f \in Env, v \in User : Maps'[f][v] = Behind(Mem', env_pgtable, f, v)
  BY MapsAreNext DEF Others
<1>3. PICK m, n, k, tabs, L : m = Mem /\ n = Mem' /\ k = kernel_pagetable /\ tabs = env_pgtable /\ L = lost
  OBVIOUS
<1>4. World(m, g, k, tabs, L) /\ Touches(m, n, g, tabs[e])
  BY <1>3 DEF Others
<1>5. ASSUME NEW f \in Env, NEW v \in User, f # e
      PROVE  Behind(n, tabs, f, v) = Behind(m, tabs, f, v)
  <2>1. CASE tabs[f] = NULL
    BY <2>1 DEF Behind
  <2>2. CASE tabs[f] # NULL
    <3>1. PICK r : r = tabs[f]
      OBVIOUS
    <3>2. r \in Page /\ g.role[r] = "root" /\ UserPart(m, r)
      BY ONLY <3>1, <2>2, <1>4, <1>5, EnvRoot
    <3>3. r # tabs[e]
      BY <1>4, <1>5, <2>2, <3>1 DEF World, Distinct
    <3>4. v \in 0 .. KV - 1
      BY UserIs
    <3>5. H2(v) \in Index /\ H1(v) \in Index /\ H0(v) \in Index /\ m.pt[r][H2(v)].kind # "user"
      BY <3>2, <3>4, UserPages DEF UserPart
    <3>6. At(n.pt, r, v) = At(m.pt, r, v)
      BY <1>4, <3>2, <3>3, <3>5 DEF Touches, At
    <3> QED BY <3>1, <3>6 DEF Behind
  <2> QED BY <2>1, <2>2
<1> QED BY <1>1, <1>2, <1>3, <1>5 DEF Behind

(* A step without a change of a user page is no step of AddressSpace. *)
LEMMA ViewSame ==
  ASSUME VmInv', Alive', NEW g, NEW e \in Env, Others(g, e), env_pgtable[e] # NULL,
         SameView(Mem, Mem', env_pgtable[e])
  PROVE  Maps' = Maps
<1>1. \A v \in User : Maps'[e][v] = Maps[e][v]
  BY OthersSame, UserIs DEF SameView
<1>2. \A f \in Env, v \in User : Maps'[f][v] = Maps[f][v]
  BY <1>1, OthersSame
<1> QED BY <1>2, MapsEqual

(* New pages were not in use. *)
LEMMA Unused ==
  ASSUME NEW g, World(Mem, g, kernel_pagetable, env_pgtable, lost), NEW p \in Page, g.role[p] = "free"
  PROVE  p \notin Space!Mapped \cup {0}
<1>1. p # 0
  BY Pool
<1>2. ASSUME NEW f \in Env, NEW w \in User PROVE Maps[f][w] # p
  <2>1. Maps[f][w] = Behind(Mem, env_pgtable, f, w) /\ w \in 0 .. KV - 1
    BY MapsAre, UserIs
  <2>2. CASE Behind(Mem, env_pgtable, f, w) = 0
    BY <2>1, <2>2, <1>1
  <2>3. CASE Behind(Mem, env_pgtable, f, w) # 0
    <3>1. g.role[Behind(Mem, env_pgtable, f, w)] = "data"
      BY ONLY <2>1, <2>3, f \in Env, World(Mem, g, kernel_pagetable, env_pgtable, lost), BehindData
    <3> QED BY <3>1, <2>1
  <2> QED BY <2>2, <2>3
<1>3. \A x : x \in Space!Mapped => \E f \in Env, w \in User : x = Maps[f][w]
  BY DEF Space!Mapped, Maps, User
<1> QED BY <1>1, <1>2, <1>3

(* load_icode_mapper is Load, or nothing when the page is physical page 0. *)
LEMMA LoadRefines ==
  ASSUME VmInv', Alive, Alive', sz' = sz, NEW g, NEW e \in Env, Others(g, e), env_pgtable[e] # NULL,
         NEW u \in 0 .. KV - 1, NEW pa, LoadView(g, e, u, pa)
  PROVE  Maps' = Maps \/ \E v \in User : Space!Load(e, v)
<1>1. World(Mem, g, kernel_pagetable, env_pgtable, lost) /\ u \in User
  BY UserIs DEF Others
<1>2. \A v \in User : Maps'[e][v] = IF v = u THEN pa ELSE Maps[e][v]
  <2>1. UserPa(UserAt(pa)) = pa
    BY DEF UserPa, UserAt
  <2> QED BY <2>1, OthersSame, UserIs DEF LoadView, ButView
<1>3. Maps[e][u] = 0
  BY <1>1, OthersSame DEF LoadView, UserPa, NoPte
<1>4. CASE pa = 0
  <2>1. \A f \in Env, v \in User : Maps'[f][v] = Maps[f][v]
    BY <1>2, <1>3, <1>4, OthersSame
  <2> QED BY <2>1, MapsEqual
<1>5. CASE pa \in Page /\ g.role[pa] = "free"
  <2>1. pa \notin Space!Mapped \cup {0}
    BY <1>1, <1>5, Unused
  <2>2. \A f \in Env \ {e} : Maps'[f] = Maps[f]
    BY OthersSame, MapEqual
  <2>3. Added(e, {u})
    BY <1>1, <1>2, <1>3, <2>1, <2>2 DEF Added
  <2>4. Space!Add(e, {u})
    BY <2>3, AddedIs
  <2>5. Space!Load(e, u)
    BY <2>4 DEF Space!Load, Alive
  <2> QED BY <1>1, <2>5
<1> QED BY <1>4, <1>5 DEF LoadView

(* A heap that has grown is Grow. *)
LEMMA GrowRefines ==
  ASSUME VmInv, VmInv', Alive, Alive', NEW g, NEW e \in Env, Others(g, e), env_pgtable[e] # NULL,
         NEW new \in SIZES, new >= sz[e], sz' = [sz EXCEPT ![e] = new],
         GrewView(Mem, g, Mem', env_pgtable[e], PagesIn(sz[e]), PagesIn(new))
  PROVE  Space!Grow(e, sz'[e])
<1>1. World(Mem, g, kernel_pagetable, env_pgtable, lost)
  BY DEF Others
<1>2. sz \in [Env -> SIZES \cup {0}]
  BY DEF VmInv, VmTypes
<1>3. sz'[e] = new /\ sz[e] \in 0 .. KBASE /\ new \in 0 .. KBASE
  BY <1>2, SizesRange
<1>4. PagesIn(sz[e]) \in 0 .. KV /\ PagesIn(new) \in 0 .. KV /\ KV \in Nat
  BY <1>3, HeapPages, KernelBegins, Products
<1>5. PICK S : S = PagesIn(sz[e]) .. PagesIn(new) - 1
  OBVIOUS
<1>6. S \subseteq User
  BY <1>4, <1>5, UserIs
<1>7. \A v \in User : IF v \in S THEN IsNew(Mem, g, Mem', env_pgtable[e], v)
                      ELSE At(Mem'.pt, env_pgtable[e], v) = At(Mem.pt, env_pgtable[e], v)
  BY <1>5, UserIs DEF GrewView
<1>8. \A v \in S : Maps[e][v] = 0 /\ Maps'[e][v] \in Page /\ g.role[Maps'[e][v]] = "free"
  <2> SUFFICES ASSUME NEW v \in S
               PROVE  Maps[e][v] = 0 /\ Maps'[e][v] \in Page /\ g.role[Maps'[e][v]] = "free"
    OBVIOUS
  <2>1. v \in User /\ IsNew(Mem, g, Mem', env_pgtable[e], v)
    BY <1>6, <1>7
  <2>2. /\ Maps[e][v] = UserPa(At(Mem.pt, env_pgtable[e], v))
        /\ Maps'[e][v] = UserPa(At(Mem'.pt, env_pgtable[e], v))
    BY <2>1, OthersSame
  <2> QED BY <2>1, <2>2 DEF IsNew, UserPa, NoPte
<1>9. \A v \in S : Maps'[e][v] \notin Space!Mapped \cup {0}
  BY <1>1, <1>8, Unused
<1>10. \A v, w \in S : Maps'[e][v] = Maps'[e][w] => v = w
  <2>1. PICK h : World(Mem', h, kernel_pagetable', env_pgtable', lost')
    BY DEF VmInv, VmWorld
  <2>2. \A v \in User : Maps'[e][v] = Behind(Mem', env_pgtable', e, v)
    BY MapsAreNext
  <2>3. ASSUME NEW v \in S, NEW w \in S, Maps'[e][v] = Maps'[e][w] PROVE v = w
    <3>1. v \in User /\ w \in User /\ v \in 0 .. KV - 1 /\ w \in 0 .. KV - 1
      BY <1>6, UserIs
    <3>2. PICK n, k, tabs, L : n = Mem' /\ k = kernel_pagetable' /\ tabs = env_pgtable' /\ L = lost'
      OBVIOUS
    <3>3. World(n, h, k, tabs, L) /\ Behind(n, tabs, e, w) # 0 /\ Behind(n, tabs, e, v) = Behind(n, tabs, e, w)
      <4>1. Maps'[e][w] # 0
        BY <1>8, Pool
      <4> QED BY <4>1, <2>1, <2>2, <2>3, <3>1, <3>2
    <3> QED BY ONLY <3>1, <3>3, e \in Env, BehindData
  <2> QED BY <2>3
<1>11. \A v \in User \ S : Maps'[e][v] = Maps[e][v]
  BY <1>7, OthersSame
<1>12. \A f \in Env \ {e} : Maps'[f] = Maps[f]
  BY OthersSame, MapEqual
<1>13. Added(e, S)
  BY <1>8, <1>9, <1>10, <1>11, <1>12 DEF Added
<1>14. Space!Add(e, PagesIn(sz[e]) .. PagesIn(new) - 1)
  BY <1>5, <1>13, AddedIs
<1> QED BY <1>3, <1>14 DEF Space!Grow, Alive

(* A heap that has shrunk is Shrink. *)
LEMMA ShrinkRefines ==
  ASSUME VmInv, VmInv', Alive, Alive', NEW g, NEW e \in Env, Others(g, e), env_pgtable[e] # NULL,
         NEW new \in SIZES, new <= sz[e], sz' = [sz EXCEPT ![e] = new],
         ShrankView(Mem, Mem', env_pgtable[e], PagesIn(new), PagesIn(sz[e]))
  PROVE  Space!Shrink(e, sz'[e])
<1>1. sz \in [Env -> SIZES \cup {0}]
  BY DEF VmInv, VmTypes
<1>2. sz'[e] = new
  BY <1>1
<1>3. PICK S : S = PagesIn(new) .. PagesIn(sz[e]) - 1
  OBVIOUS
<1>4. \A v \in User : Maps'[e][v] = IF v \in S THEN 0 ELSE Maps[e][v]
  <2>1. UserPa(NoPte) = 0
    BY DEF UserPa, NoPte
  <2> QED BY <1>3, <2>1, OthersSame, UserIs DEF ShrankView
<1>5. Maps' = [Maps EXCEPT ![e] = [v \in User |-> IF v \in S THEN 0 ELSE Maps[e][v]]]
  <2> DEFINE New(f) == [v \in User |-> IF env_pgtable'[f] = NULL THEN 0 ELSE lookup(Mem', env_pgtable'[f], v * PAGE_SIZE)]
             Old(f) == [v \in User |-> IF env_pgtable[f] = NULL THEN 0 ELSE lookup(Mem, env_pgtable[f], v * PAGE_SIZE)]
             Cutoff == [v \in User |-> IF v \in S THEN 0 ELSE Maps[e][v]]
  <2>1. Maps' = [f \in Env |-> New(f)] /\ Maps = [f \in Env |-> Old(f)]
    BY DEF Maps
  <2>2. ASSUME NEW f \in Env, f # e PROVE New(f) = Old(f)
    <3>1. Maps'[f] = Maps[f]
      BY <2>2, OthersSame, MapEqual
    <3>2. Maps'[f] = New(f) /\ Maps[f] = Old(f)
      BY <2>1
    <3> QED BY <3>1, <3>2
  <2>3. New(e) = Cutoff
    <3>1. Maps'[e] = New(e)
      BY <2>1
    <3>2. \A v \in User : New(e)[v] = Cutoff[v]
      BY <3>1, <1>4
    <3> QED BY <3>2
  <2> HIDE DEF New, Old, Cutoff
  <2>4. Maps' = [Maps EXCEPT ![e] = Cutoff]
    BY <2>1, <2>2, <2>3
  <2> QED BY <2>4 DEF Cutoff
<1> QED BY <1>2, <1>3, <1>5 DEF Space!Shrink, Alive, Maps, User

(* env_setup_vm is nothing. *)
LEMMA SetupRefines ==
  ASSUME VmInv', Alive', NEW g, NEW e \in Env, SetupView(g, e)
  PROVE  Maps' = Maps
<1>1. World(Mem, g, kernel_pagetable, env_pgtable, lost)
  BY DEF SetupView
<1>2. PICK m, n, k, tabs, L, new : m = Mem /\ n = Mem' /\ k = kernel_pagetable /\ tabs = env_pgtable /\ L = lost /\ new = env_pgtable'
  OBVIOUS
<1>3. /\ World(m, g, k, tabs, L) /\ Same(m.pt, n.pt, g) /\ tabs[e] = NULL
      /\ \A f \in Env : f # e => new[f] = tabs[f]
      /\ \A v \in 0 .. KV - 1 : At(n.pt, new[e], v) = NoPte
  BY <1>2 DEF SetupView
<1>4. \A f \in Env, v \in User : Maps[f][v] = Behind(m, tabs, f, v) /\ Maps'[f][v] = Behind(n, new, f, v)
  BY <1>1, <1>2, MapsAre, MapsAreNext
<1>5. ASSUME NEW f \in Env, NEW v \in User PROVE Behind(n, new, f, v) = Behind(m, tabs, f, v)
  <2>1. CASE f = e
    BY <2>1, <1>3, UserIs DEF Behind, UserPa, NoPte
  <2>2. CASE f # e /\ tabs[f] = NULL
    BY <2>2, <1>3 DEF Behind
  <2>3. CASE f # e /\ tabs[f] # NULL
    <3>1. PICK r : r = tabs[f]
      OBVIOUS
    <3>2. Shape(m, g) /\ r \in Page /\ g.role[r] = "root"
      BY ONLY <3>1, <2>3, <1>3, f \in Env, EnvRoot
    <3>3. v \in Vpn /\ H2(v) # FAN2 - 2
      BY UserIs, UserPages
    <3>4. At(n.pt, r, v) = At(m.pt, r, v)
      BY ONLY <3>2, <3>3, <1>3, AtSame
    <3> QED BY <3>1, <3>4, <2>3, <1>3 DEF Behind
  <2> QED BY <2>1, <2>2, <2>3
<1>6. \A f \in Env, v \in User : Maps'[f][v] = Maps[f][v]
  BY <1>4, <1>5
<1> QED BY <1>6, MapsEqual

(* The variables of AddressSpace. *)
SpaceVars == <<Maps, sz, Alive>>

(* A panic is Panic. *)
LEMMA PanicRefines ==
  ASSUME Alive, ~Alive'
  PROVE  Space!Next
  BY DEF Space!Next, Space!Panic, Alive

(* The initial states. *)
LEMMA SpaceInit == Init => Space!Init
<1> SUFFICES ASSUME Init PROVE Space!Init
  OBVIOUS
<1>1. env_pgtable = [e \in Env |-> NULL] /\ sz = [e \in Env |-> 0]
  BY DEF Init
<1>2. Maps = [e \in Env |-> [v \in User |-> 0]]
  BY <1>1 DEF Maps
<1>3. Alive \in BOOLEAN
  BY DEF Alive
<1> QED BY <1>1, <1>2, <1>3 DEF Space!Init, Maps, User

(* Every step is a step of AddressSpace or changes nothing it has. *)
LEMMA SpaceStep == Aligned /\ VmInv /\ VmInv' /\ [Next]_vars => Space!Next \/ UNCHANGED SpaceVars
<1> SUFFICES ASSUME Aligned, VmInv, VmInv', [Next]_vars PROVE Space!Next \/ UNCHANGED SpaceVars
  OBVIOUS
<1>1. CASE UNCHANGED vars
  <2>1. Mem' = Mem /\ env_pgtable' = env_pgtable /\ sz' = sz /\ Alive' = Alive
    BY <1>1 DEF vars, Mem, Alive
  <2>2. Maps' = Maps
    BY <2>1 DEF Maps
  <2> QED BY <2>1, <2>2 DEF SpaceVars
<1>2. ASSUME Alive, Alive', Maps' = Maps, sz' = sz PROVE UNCHANGED SpaceVars
  <2>1. Alive' = Alive
    BY <1>2 DEF Alive
  <2> QED BY <1>2, <2>1 DEF SpaceVars
<1>3. ASSUME NEW e \in Env, env_setup_vm(e) PROVE Space!Next \/ UNCHANGED SpaceVars
  <2>1. Alive /\ (Alive' => \E g : SetupView(g, e))
    BY <1>3, SetupStep
  <2>2. CASE ~Alive'
    BY <2>1, <2>2, PanicRefines
  <2>3. CASE Alive'
    <3>1. PICK g : SetupView(g, e)
      BY <2>1, <2>3
    <3>2. Maps' = Maps /\ sz' = sz
      BY <2>3, <3>1, SetupRefines DEF SetupView
    <3> QED BY <1>2, <2>1, <2>3, <3>2
  <2> QED BY <2>2, <2>3
<1>4. ASSUME NEW e \in Env, NEW va \in SEGVAS, NEW src \in BOOLEAN, load_icode_mapper(e, va, src)
      PROVE  Space!Next \/ UNCHANGED SpaceVars
  <2>1. /\ Alive /\ sz' = sz
        /\ Alive' => \E g : /\ Others(g, e)
                            /\ \/ SameView(Mem, Mem', env_pgtable[e])
                               \/ \E v \in 0 .. KV - 1 : \E pa : LoadView(g, e, v, pa)
    BY <1>4, LoadStep
  <2>2. env_pgtable[e] # NULL
    BY <1>4 DEF load_icode_mapper
  <2>3. CASE ~Alive'
    BY <2>1, <2>3, PanicRefines
  <2>4. CASE Alive'
    <3>1. PICK g : /\ Others(g, e)
                   /\ \/ SameView(Mem, Mem', env_pgtable[e])
                      \/ \E v \in 0 .. KV - 1 : \E pa : LoadView(g, e, v, pa)
      BY <2>1, <2>4
    <3>2. CASE SameView(Mem, Mem', env_pgtable[e])
      <4>1. Maps' = Maps
        BY <2>2, <2>4, <3>1, <3>2, ViewSame
      <4> QED BY <1>2, <2>1, <2>4, <4>1
    <3>3. CASE \E v \in 0 .. KV - 1 : \E pa : LoadView(g, e, v, pa)
      <4>1. Maps' = Maps \/ \E v \in User : Space!Load(e, v)
        BY <2>1, <2>2, <2>4, <3>1, <3>3, LoadRefines
      <4>2. (\E v \in User : Space!Load(e, v)) => Space!Next
        BY DEF Space!Next, User
      <4> QED BY <1>2, <2>1, <2>4, <4>1, <4>2
    <3> QED BY <3>1, <3>2, <3>3
  <2> QED BY <2>3, <2>4
<1>5. ASSUME NEW e \in Env, NEW new \in SIZES, Grow(e, new) PROVE Space!Next \/ UNCHANGED SpaceVars
  <2>1. /\ Alive
        /\ Alive' => \E g : /\ Others(g, e)
                            /\ \/ SameView(Mem, Mem', env_pgtable[e]) /\ sz' = sz
                               \/ /\ new >= sz[e] /\ sz' = [sz EXCEPT ![e] = new]
                                  /\ GrewView(Mem, g, Mem', env_pgtable[e], PagesIn(sz[e]), PagesIn(new))
    BY <1>5, GrowStepInv
  <2>2. env_pgtable[e] # NULL
    BY <1>5 DEF Grow
  <2>3. CASE ~Alive'
    BY <2>1, <2>3, PanicRefines
  <2>4. CASE Alive'
    <3>1. PICK g : /\ Others(g, e)
                   /\ \/ SameView(Mem, Mem', env_pgtable[e]) /\ sz' = sz
                      \/ /\ new >= sz[e] /\ sz' = [sz EXCEPT ![e] = new]
                         /\ GrewView(Mem, g, Mem', env_pgtable[e], PagesIn(sz[e]), PagesIn(new))
      BY <2>1, <2>4
    <3>2. CASE SameView(Mem, Mem', env_pgtable[e]) /\ sz' = sz
      <4>1. Maps' = Maps
        BY <2>2, <2>4, <3>1, <3>2, ViewSame
      <4> QED BY <1>2, <2>1, <2>4, <3>2, <4>1
    <3>3. CASE /\ new >= sz[e] /\ sz' = [sz EXCEPT ![e] = new]
               /\ GrewView(Mem, g, Mem', env_pgtable[e], PagesIn(sz[e]), PagesIn(new))
      <4>1. Space!Grow(e, sz'[e])
        BY <2>1, <2>2, <2>4, <3>1, <3>3, GrowRefines
      <4> QED BY <4>1 DEF Space!Next
    <3> QED BY <3>1, <3>2, <3>3
  <2> QED BY <2>3, <2>4
<1>6. ASSUME NEW e \in Env, NEW new \in SIZES, Shrink(e, new) PROVE Space!Next \/ UNCHANGED SpaceVars
  <2>1. /\ Alive
        /\ Alive' => \E g : /\ Others(g, e)
                            /\ new <= sz[e] /\ sz' = [sz EXCEPT ![e] = new]
                            /\ ShrankView(Mem, Mem', env_pgtable[e], PagesIn(new), PagesIn(sz[e]))
    BY <1>6, ShrinkStep
  <2>2. env_pgtable[e] # NULL
    BY <1>6 DEF Shrink
  <2>3. CASE ~Alive'
    BY <2>1, <2>3, PanicRefines
  <2>4. CASE Alive'
    <3>1. PICK g : /\ Others(g, e)
                   /\ new <= sz[e] /\ sz' = [sz EXCEPT ![e] = new]
                   /\ ShrankView(Mem, Mem', env_pgtable[e], PagesIn(new), PagesIn(sz[e]))
      BY <2>1, <2>4
    <3>2. Space!Shrink(e, sz'[e])
      BY <2>1, <2>2, <2>4, <3>1, ShrinkRefines
    <3> QED BY <3>2 DEF Space!Next
  <2> QED BY <2>3, <2>4
<1>7. ASSUME NEW e \in Env, env_free(e) PROVE Space!Next \/ UNCHANGED SpaceVars
  BY <1>7, FreeStepInv, PanicRefines
<1> QED BY <1>1, <1>3, <1>4, <1>5, <1>6, <1>7 DEF Next

(* The three-level tables of vm.c implement address spaces (AddressSpace).   *)
THEOREM TablesImplementSpaces == Aligned /\ Spec => SpaceSpec
<1>1. Init => Space!Init
  BY SpaceInit
<1>2. Aligned /\ VmInv /\ VmInv' /\ [Next]_vars
        => [Space!Next]_<<[e \in Env |-> [v \in 0 .. (KBASE \div PAGE_SIZE) - 1 |->
                             IF env_pgtable[e] = NULL THEN 0 ELSE lookup(Mem, env_pgtable[e], v * PAGE_SIZE)]],
                          sz, Alive>>
  BY SpaceStep DEF SpaceVars, Maps, User
<1>3. Aligned => []Aligned
  <2>1. Aligned => Aligned'
    BY DEF Aligned
  <2> QED BY <2>1, PTL
<1> QED BY <1>1, <1>2, <1>3, VmAlways, PTL DEF Spec, SpaceSpec, Space!Spec
=============================================================================
