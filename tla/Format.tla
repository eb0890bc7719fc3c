-------------------------------- MODULE Format --------------------------------
(***************************************************************************)
(* printk: vprintfmt of lib/print.c with the console behind it             *)
(* (kern/printk.c, kern/machine.c).                                        *)
(*                                                                         *)
(* A format is made of pieces, text or directives with their arguments;    *)
(* what the pieces mean is defined without it (Meaning), and vprintfmt     *)
(* sees only the characters and the arguments.  It may end in the middle   *)
(* of a directive.  Arguments are longs: va_arg(ap, int) takes the low     *)
(* bits of one, and -num of the lowest one is itself.  buf has 70 bytes    *)
(* more than length, enough for the digits and the sign of a long in base  *)
(* 2.                                                                      *)
(***************************************************************************)
EXTENDS Integers, SequencesExt

CONSTANTS
  INTBITS, LONGBITS,  \* width of int and long
  MAGNITUDES,         \* arguments: these, the same below 0, and the two ends
  WIDTHS              \* widths of directives; 0 for none

ASSUME FormatAssumption ==
  /\ INTBITS \in Nat /\ LONGBITS \in Nat /\ 1 < INTBITS /\ INTBITS < LONGBITS
  /\ MAGNITUDES \cup WIDTHS \subseteq 0 .. 2^(LONGBITS - 1) - 1

Chars == <<"0", "1", "2", "3", "4", "5", "6", "7", "8", "9", "a", "b", "c", "d", "e", "f">>
Upper == <<"0", "1", "2", "3", "4", "5", "6", "7", "8", "9", "A", "B", "C", "D", "E", "F">>
Decimal == {Chars[d] : d \in 1 .. 10}
Times(c, n) == [k \in 1 .. n |-> c]
-----------------------------------------------------------------------------
(* Inputs. *)
Longs == MAGNITUDES \cup {-m : m \in MAGNITUDES} \cup {2^(LONGBITS - 1) - 1, -2^(LONGBITS - 1)}
Numeric == {"b", "d", "D", "o", "O", "u", "U", "x", "X"}

Directive(convs, values) ==
  [conv : convs, minus : BOOLEAN, zero : BOOLEAN, width : WIDTHS, long : BOOLEAN, arg : values]
Text(s) == [conv |-> "text", arg |-> s]

Directives ==
  Directive(Numeric, Longs)
    \cup Directive({"c"}, {"z", "LF"}) \cup Directive({"s"}, {<<>>, <<"a", "LF", "b", "c">>})
    \cup Directive({"%", "z"}, {0})

(* What may follow a directive: text, another argument, or a format that    *)
(* breaks off.                                                              *)
Rest ==
  {Text(<<>>), Text(<<"LF", "d">>), Text(<<"%">>), Text(<<"%", "-", "0", "3", "l">>)}
    \cup {[conv |-> c, minus |-> FALSE, zero |-> FALSE, width |-> 0, long |-> FALSE, arg |-> 5] : c \in {"d"}}

WidthChars(w) ==
  CASE w = 0 -> <<>> [] w \in 1 .. 9 -> <<Chars[w + 1]>> [] OTHER -> <<Chars[(w \div 10) + 1], Chars[(w % 10) + 1]>>

Rendered(x) ==
  IF x.conv = "text" THEN x.arg
  ELSE <<"%">> \o (IF x.minus THEN <<"-">> ELSE <<>>) \o (IF x.zero THEN <<"0">> ELSE <<>>)
         \o WidthChars(x.width) \o (IF x.long THEN <<"l">> ELSE <<>>) \o <<x.conv>>

TakesArg(x) == x.conv \in Numeric \cup {"c", "s"}
-----------------------------------------------------------------------------
VARIABLES
  pieces,   \* auxiliary: the pieces of the format
  fmt,      \* the format string
  at,       \* the position in it
  ap,       \* the arguments not yet taken
  console,  \* what the SBI console has been given
  ended     \* vprintfmt has returned

fmtvars == <<pieces, fmt, at, ap, console, ended>>

FmtStart(ps) ==
  /\ pieces = ps
  /\ fmt = FlattenSeq([k \in 1 .. 3 |-> Rendered(pieces[k])]) \o <<"NUL">>
  /\ at = 1
  /\ ap = [k \in 1 .. Len(SelectSeq(pieces, TakesArg)) |-> SelectSeq(pieces, TakesArg)[k].arg]
  /\ console = <<>>
  /\ ended = FALSE

FmtInit == \E d \in Directives, r \in Rest : FmtStart(<<Text(<<"t">>), d, r>>)

(* printcharc: a carriage return in front of every line feed. *)
printcharc(ch) == IF ch = "LF" THEN <<"CR", "LF">> ELSE <<ch>>

outputk(buf) == console' = console \o FlattenSeq([k \in 1 .. Len(buf) |-> printcharc(buf[k])])

Signed(x, bits) == ((x + 2^(bits - 1)) % 2^bits) - 2^(bits - 1)
Unsigned(x) == x % 2^LONGBITS
-----------------------------------------------------------------------------
print_char(c, length, ladjust) ==
  LET pad == Times(" ", (IF length < 1 THEN 1 ELSE length) - 1)
  IN  outputk(IF ladjust THEN <<c>> \o pad ELSE pad \o <<c>>)

print_str(s, length, ladjust) ==
  LET pad == Times(" ", (IF length < Len(s) THEN Len(s) ELSE length) - Len(s))
  IN  outputk(IF ladjust THEN s \o pad ELSE pad \o s)

(* The digits, the lowest first: the do loop. *)
Digits(u, base, upcase) ==
  LET digit(d) == IF upcase THEN Upper[d + 1] ELSE Chars[d + 1]
      f[v \in 0 .. u] == <<digit(v % base)>> \o (IF v \div base = 0 THEN <<>> ELSE f[v \div base])
  IN  f[u]

(* Mutant of Padded: the zeros go in front of the sign. *)
PaddedNoSign(buf, neg, length, ladjust, padc) == buf \o Times(padc, length - Len(buf))

(* buf, still backwards, filled to length: zeros go below the sign. *)
Padded(buf, neg, length, ladjust, padc) ==
  IF neg /\ ~ladjust /\ padc = "0"
  THEN Front(buf) \o Times(padc, length - Len(buf)) \o <<"-">>
  ELSE buf \o Times(padc, length - Len(buf))

print_num(u, base, neg, width, ladjust, padc, upcase) ==
  LET buf == Digits(u, base, upcase) \o (IF neg THEN <<"-">> ELSE <<>>)
      actualLength == Len(buf)
      length == IF width < actualLength THEN actualLength ELSE width
      full == Padded(buf, neg, length, ladjust, IF ladjust THEN " " ELSE padc)
      end == IF ladjust THEN actualLength ELSE length
  IN  outputk([k \in 1 .. length |-> IF k <= end THEN full[end + 1 - k] ELSE full[k]])

Skip(k, c) == IF fmt[k] = c THEN k + 1 ELSE k

(* The directive whose % is at position k, and where its letter is. *)
Parsed(k) ==
  LET a == Skip(k + 1, "-")
      b == Skip(a, "0")
      e == CHOOSE j \in b .. Len(fmt) : fmt[j] \notin Decimal /\ \A i \in b .. j - 1 : fmt[i] \in Decimal
      l == Skip(e, "l")
  IN  [ladjust |-> a # k + 1, padc |-> IF b # a THEN "0" ELSE " ",
       width |-> FoldLeft(LAMBDA w, c : 10 * w + (CHOOSE d \in 0 .. 9 : Chars[d + 1] = c), 0, SubSeq(fmt, b, e - 1)),
       long |-> l # e, letter |-> fmt[l], pos |-> l]

Base(c) == CASE c = "b" -> 2 [] c \in {"o", "O"} -> 8 [] c \in {"d", "D", "u", "U"} -> 10 [] c \in {"x", "X"} -> 16

Number(d) ==
  LET num == Signed(Head(ap), IF d.long THEN LONGBITS ELSE INTBITS)
      neg == d.letter \in {"d", "D"} /\ num < 0
  IN  print_num(Unsigned(IF neg THEN -num ELSE num), Base(d.letter), neg, d.width, d.ladjust, d.padc,
                d.letter = "X")

(* Characters up to the next %, one at a time. *)
ScanChar ==
  /\ ~ended /\ fmt[at] \notin {"%", "NUL"}
  /\ outputk(<<fmt[at]>>)
  /\ at' = at + 1
  /\ UNCHANGED <<pieces, fmt, ap, ended>>

(* The end, or a % in front of it. *)
ScanEnd ==
  /\ ~ended
  /\ fmt[at] = "NUL" \/ (fmt[at] = "%" /\ fmt[at + 1] = "NUL")
  /\ ended' = TRUE
  /\ UNCHANGED <<pieces, fmt, at, ap, console>>

Convert ==
  /\ ~ended /\ fmt[at] = "%" /\ fmt[at + 1] # "NUL"
  /\ LET d == Parsed(at)
     IN  \/ /\ d.letter \in Numeric
            /\ Number(d)
            /\ ap' = Tail(ap) /\ at' = d.pos + 1
         \/ /\ d.letter = "c"
            /\ print_char(Head(ap), d.width, d.ladjust)
            /\ ap' = Tail(ap) /\ at' = d.pos + 1
         \/ /\ d.letter = "s"
            /\ print_str(Head(ap), d.width, d.ladjust)
            /\ ap' = Tail(ap) /\ at' = d.pos + 1
         \/ /\ d.letter = "NUL"
            /\ at' = d.pos
            /\ UNCHANGED <<ap, console>>
         \/ /\ d.letter \notin Numeric \cup {"c", "s", "NUL"}
            /\ outputk(<<d.letter>>)
            /\ at' = d.pos + 1
            /\ UNCHANGED ap
  /\ UNCHANGED <<pieces, fmt, ended>>

FmtNext == ScanChar \/ ScanEnd \/ Convert

FmtSpec == FmtInit /\ [][FmtNext]_fmtvars
-----------------------------------------------------------------------------
(* The digits of v, the highest first. *)
Numeral(v, base) ==
  LET n == CHOOSE k \in 1 .. LONGBITS : base^k > v /\ \A j \in 1 .. k - 1 : base^j <= v
  IN  [k \in 1 .. n |-> (v \div base^(n - k)) % base]

(* What a piece means: body, with its sign, in a field of the width. *)
Meaning(x) ==
  LET v == Signed(x.arg, IF x.long THEN LONGBITS ELSE INTBITS)
      signed == x.conv \in {"d", "D"}
      sign == IF signed /\ v < 0 THEN <<"-">> ELSE <<>>
      numeral == Numeral(IF signed THEN (IF v < 0 THEN -v ELSE v) ELSE Unsigned(v), Base(x.conv))
      body == CASE x.conv = "c" -> <<x.arg>>
                [] x.conv = "s" -> x.arg
                [] OTHER -> [k \in DOMAIN numeral |-> (IF x.conv = "X" THEN Upper ELSE Chars)[numeral[k] + 1]]
      used == Len(body) + (IF x.conv \in Numeric THEN Len(sign) ELSE 0)
      fill(c) == Times(c, IF x.width > used THEN x.width - used ELSE 0)
      text == IF x.conv \in Numeric THEN sign \o body ELSE body
  IN  CASE x.conv = "text" -> IF x.arg # <<>> /\ x.arg[1] = "%" THEN <<>> ELSE x.arg
        [] x.conv \in {"%", "z"} -> <<x.conv>>
        [] OTHER -> IF x.minus THEN text \o fill(" ")
                    ELSE IF x.zero /\ x.conv \in Numeric THEN sign \o fill("0") \o body
                    ELSE fill(" ") \o text

(* vprintfmt prints what the pieces of the format mean, takes every         *)
(* argument once and in order, and does not read behind the terminator even *)
(* if the format breaks off in a directive (print.c:41, 154); print_num's   *)
(* reversals and paddings fit together, at the lowest long too.             *)
FormatExact ==
  /\ at <= Len(fmt)
  /\ ended =>
       /\ ap = <<>>
       /\ console = FlattenSeq([k \in 1 .. 3 |->
                      LET m == Meaning(pieces[k])
                      IN  FlattenSeq([j \in 1 .. Len(m) |-> printcharc(m[j])])])
=============================================================================
