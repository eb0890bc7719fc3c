------------------------------ MODULE StringOps ------------------------------
(***************************************************************************)
(* lib/string.c, one action per round of a loop: memcpy and memset work on *)
(* words where they can, the string functions on bytes.  The calls are     *)
(* those C allows, and for memcpy also ranges that overlap with dst in     *)
(* front of src.                                                           *)
(***************************************************************************)
EXTENDS Integers

CONSTANTS
  WORDSIZE,  \* bytes of a uint32_t
  BYTES,     \* values of a u_char
  SIZE,      \* addresses
  STRLEN     \* bound: bytes of a string with its terminator

ASSUME StringAssumption ==
  /\ {WORDSIZE, BYTES, STRLEN} \subseteq Nat \ {0}
  /\ SIZE \in Nat /\ SIZE >= 3 * STRLEN

Address == 0 .. SIZE - 1
NUL == 0
NULLPTR == -1

VARIABLES
  args,    \* auxiliary: the call, as fn(x, y, n), and the memory before it
  bytes,   \* the memory
  p,       \* dst, s or p of the function
  q,       \* src or q of the function
  ret      \* what it returned, NULLPTR - 1 before

strvars == <<args, bytes, p, q, ret>>

Running == NULLPTR - 1

(* All bytes differ, so that one in the wrong place shows. *)
Distinct == [a \in Address |-> a + 1]

(* Two strings, at 0 and behind it; the third place is for a copy. *)
Strings ==
  {[a \in Address |-> IF a < 2 * STRLEN THEN f[a] ELSE a] :
     f \in {g \in [0 .. 2 * STRLEN - 1 -> 0 .. 2] : g[STRLEN - 1] = NUL /\ g[2 * STRLEN - 1] = NUL}}

Call(fn, x, y, n, m) == [fn |-> fn, x |-> x, y |-> y, n |-> n, mem |-> m]

Calls ==
  {c \in {Call("memcpy", x, y, n, Distinct) : x, y \in Address, n \in 0 .. SIZE} :
     /\ c.x + c.n <= SIZE /\ c.y + c.n <= SIZE
     /\ c.x <= c.y \/ c.y + c.n <= c.x}
  \cup {c \in {Call("memset", x, y, n, Distinct) : x \in Address, y \in {0, BYTES + 1}, n \in 0 .. SIZE} :
          c.x + c.n <= SIZE}
  \cup {Call("strlen", 0, 0, 0, m) : m \in Strings}
  \cup {Call("strcpy", 2 * STRLEN, 0, 0, m) : m \in Strings}
  \cup {Call("strchr", 0, 0, n, m) : n \in 0 .. 1, m \in Strings}
  \cup {Call("strcmp", 0, STRLEN, 0, m) : m \in Strings}

StrStart(c) ==
  /\ args = c
  /\ bytes = args.mem
  /\ p = args.x
  /\ q = args.y
  /\ ret = Running

StrInit == \E c \in Calls : StrStart(c)
-----------------------------------------------------------------------------
In(fn) == args.fn = fn /\ ret = Running
max == args.x + args.n

Returns(r) == ret' = r /\ UNCHANGED <<args, bytes, p, q>>

Advance(k) == p' = p + k /\ UNCHANGED <<args, ret>>

(* The loops over words run between the loops over the bytes in front of    *)
(* the first word and behind the last one.                                  *)
Wordwise == p % WORDSIZE = 0 /\ p + WORDSIZE <= max

(* memcpy copies words only if both pointers meet them together. *)
Congruent == p % WORDSIZE = q % WORDSIZE

Copied(k) == [a \in Address |-> IF a \in p .. p + k - 1 THEN bytes[q + a - p] ELSE bytes[a]]

memcpy ==
  /\ In("memcpy")
  /\ IF p >= max THEN Returns(args.x)
     ELSE LET k == IF Congruent /\ Wordwise THEN WORDSIZE ELSE 1
          IN  /\ bytes' = Copied(k)
              /\ q' = q + k
              /\ Advance(k)

(* Mutant of memset: the last word may pass the end. *)
memsetPastEnd ==
  /\ In("memset")
  /\ IF p >= max THEN Returns(args.x)
     ELSE LET k == IF p % WORDSIZE = 0 THEN WORDSIZE ELSE 1
          IN  /\ bytes' = [a \in Address |-> IF a \in p .. p + k - 1 THEN args.y % BYTES ELSE bytes[a]]
              /\ Advance(k)
              /\ UNCHANGED q

(* args.y is c, an int. *)
memset ==
  /\ In("memset")
  /\ IF p >= max THEN Returns(args.x)
     ELSE LET k == IF Wordwise THEN WORDSIZE ELSE 1
          IN  /\ bytes' = [a \in Address |-> IF a \in p .. p + k - 1 THEN args.y % BYTES ELSE bytes[a]]
              /\ Advance(k)
              /\ UNCHANGED q

(* n is how far s has been moved. *)
strlen ==
  /\ In("strlen")
  /\ IF bytes[p] = NUL THEN Returns(p - args.x) ELSE Advance(1) /\ UNCHANGED <<bytes, q>>

strcpy ==
  /\ In("strcpy")
  /\ bytes' = Copied(1)
  /\ IF bytes[q] = NUL THEN ret' = args.x /\ UNCHANGED <<args, p, q>>
     ELSE q' = q + 1 /\ Advance(1)

(* args.n is c. *)
strchr ==
  /\ In("strchr")
  /\ CASE bytes[p] = NUL -> Returns(NULLPTR)
       [] bytes[p] # NUL /\ bytes[p] = args.n -> Returns(p)
       [] OTHER -> Advance(1) /\ UNCHANGED <<bytes, q>>

strcmp ==
  /\ In("strcmp")
  /\ CASE bytes[p] # NUL /\ bytes[p] = bytes[q] -> q' = q + 1 /\ Advance(1) /\ UNCHANGED bytes
       [] bytes[p] < bytes[q] -> Returns(-1)
       [] bytes[p] > bytes[q] -> Returns(1)
       [] OTHER -> Returns(0)

StrNext == memcpy \/ memset \/ strlen \/ strcpy \/ strchr \/ strcmp

StrSpec == StrInit /\ [][StrNext]_strvars
-----------------------------------------------------------------------------
Length(m, s) == CHOOSE n \in 0 .. STRLEN - 1 : m[s + n] = NUL /\ \A i \in 0 .. n - 1 : m[s + i] # NUL

Moved(m, x, y, n) == [a \in Address |-> IF a \in x .. x + n - 1 THEN m[y + a - x] ELSE m[a]]

(* The first place where two strings differ, or where both end. *)
Differ(m, x, y) ==
  CHOOSE i \in 0 .. STRLEN - 1 :
    /\ m[x + i] # m[y + i] \/ m[x + i] = NUL
    /\ \A j \in 0 .. i - 1 : m[x + j] = m[y + j] /\ m[x + j] # NUL

Expected(c) ==
  LET m == c.mem
  IN  CASE c.fn = "memcpy" -> <<c.x, Moved(m, c.x, c.y, c.n)>>
        [] c.fn = "memset" -> <<c.x, [a \in Address |-> IF a \in c.x .. c.x + c.n - 1
                                                        THEN c.y % BYTES ELSE m[a]]>>
        [] c.fn = "strlen" -> <<Length(m, c.x), m>>
        [] c.fn = "strcpy" -> <<c.x, Moved(m, c.x, c.y, Length(m, c.y) + 1)>>
        [] c.fn = "strchr" ->
             LET found == {i \in 0 .. Length(m, c.x) - 1 : m[c.x + i] = c.n}
             IN  <<IF found = {} THEN NULLPTR ELSE c.x + (CHOOSE i \in found : \A j \in found : i <= j), m>>
        [] c.fn = "strcmp" ->
             LET i == Differ(m, c.x, c.y)
             IN  <<CASE m[c.x + i] < m[c.y + i] -> -1 [] m[c.x + i] > m[c.y + i] -> 1 [] OTHER -> 0, m>>

(* Every function of lib/string.c returns what it should and leaves the     *)
(* memory it should, and no byte besides, whatever the alignment and size   *)
(* (string.c:7-30); memcpy also if src lies behind dst and overlaps it,     *)
(* though it copies words.                                                  *)
StringsExact == ret # Running => <<ret, bytes>> = Expected(args)
=============================================================================
