------------------------------- MODULE Words -------------------------------
(***************************************************************************)
(* Commands and their arguments as the code takes them apart.  A word is a *)
(* text that is not a number, or a numeral, which is kept digit by digit   *)
(* because atoi and the %5s of a port work on digits.  Of a text only the  *)
(* length in bytes matters, and which bytes of it are left when a buffer   *)
(* ends inside it.  A line is a sequence of words with one blank between   *)
(* two of them; the empty line is <<>>.                                    *)
(***************************************************************************)
EXTENDS Integers, SequencesExt

CONSTANTS
  LengthOf,   \* the length in bytes of each text
  Dotted      \* the texts with a character that is no letter, digit or '_'

Word(x)      == [text |-> x, from |-> 0, len |-> LengthOf[x]]
Numeral(d)   == [digits |-> d]
IsNumeral(w) == "digits" \in DOMAIN w
Size(w)      == IF IsNumeral(w) THEN Len(w.digits) ELSE w.len

\* What is left of w without the bytes up to a and those after b.
Cut(w, a, b) ==
  IF IsNumeral(w) THEN Numeral(SubSeq(w.digits, a + 1, b))
  ELSE [text |-> w.text, from |-> w.from + a, len |-> b - a]

\* Where each word of a line starts; the entry after the last word is one
\* past the blank that would follow it.
Offsets(ws) ==
  LET off[i \in 1..Len(ws) + 1] ==
        IF i = 1 THEN 0 ELSE off[i - 1] + Size(ws[i - 1]) + 1
  IN off

Bytes(ws) == IF ws = <<>> THEN 0 ELSE Offsets(ws)[Len(ws) + 1] - 1

\* The words in the n bytes of ws that follow the first a bytes; a word of
\* no bytes, between two blanks, is none.
Slice(ws, a, n) ==
  LET off     == Offsets(ws)
      Inside  == {i \in 1..Len(ws) : Size(ws[i]) > 0 /\ off[i] < a + n /\ off[i] + Size(ws[i]) > a}
      Part(i) == Cut(ws[i], Max({0, a - off[i]}), Min({Size(ws[i]), a + n - off[i]}))
      Nth(k)  == CHOOSE i \in Inside : Cardinality({j \in Inside : j <= i}) = k
  IN [k \in 1..Cardinality(Inside) |-> Part(Nth(k))]

-----------------------------------------------------------------------------
(* atoi, as (int)strtol where a long has 64 bits: the value saturates at    *)
(* 2^63 - 1 and of that 32 bits are left, here two halves of 16, since 2^31 *)
(* is more than TLC's integers hold.  Of a text it makes 0.                 *)

LongMax == <<9, 2, 2, 3, 3, 7, 2, 0, 3, 6, 8, 5, 4, 7, 7, 5, 8, 0, 7>>

\* Whether digits, after their leading zeros, say more than 2^63 - 1.
Overflows(d) ==
  \E z \in 0..Len(d) - 19 :
    /\ \A i \in 1..z : d[i] = 0
    /\ d[z + 1] # 0
    /\ \/ Len(d) - z > 19
       \/ \E i \in 1..19 : d[z + i] > LongMax[i] /\ \A j \in 1..i - 1 : d[z + j] = LongMax[j]

Saturated == [hi |-> 65535, lo |-> 65535]   \* -1

Modulo32(d) ==
  LET value[i \in 0..Len(d)] ==
        IF i = 0 THEN [hi |-> 0, lo |-> 0]
        ELSE LET lo == value[i - 1].lo * 10 + d[i]
             IN [hi |-> (value[i - 1].hi * 10 + lo \div 65536) % 65536, lo |-> lo % 65536]
  IN value[Len(d)]

atoi(w) ==
  IF ~IsNumeral(w) THEN [hi |-> 0, lo |-> 0]
  ELSE IF Overflows(w.digits) THEN Saturated ELSE Modulo32(w.digits)

IsPositive(v) == v.hi < 32768 /\ (v.hi > 0 \/ v.lo > 0)

\* The number of a port, which is at most five digits.
PortNumber(w) == atoi(w).hi * 65536 + atoi(w).lo

-----------------------------------------------------------------------------
(* format_utils.c, on lines.  Every loop accepts the empty line.           *)

isValidArgument(line) == Len(line) <= 1

isValidUsername(line) ==
  /\ Len(line) <= 1
  /\ \A i \in 1..Len(line) : ~IsNumeral(line[i]) => line[i].text \notin Dotted

isNumber(line) == Len(line) <= 1 /\ \A i \in 1..Len(line) : IsNumeral(line[i])

isValidPort(line) ==
  line # <<>> => isNumber(line) /\ atoi(line[1]).hi = 0 /\ atoi(line[1]).lo > 0

\* Mutant: "%4s" for the port.
ScanNarrow(args) ==
  IF Len(args) > 2 /\ Size(args[3]) > 4
  THEN <<args[1], args[2], Cut(args[3], 0, 4), Cut(args[3], 4, Size(args[3]))>>
  ELSE SubSeq(args, 1, Min({4, Len(args)}))

\* "%255s %255s %5s %255s": a word longer than its conversion is split, and
\* the next conversion goes on where the last one stopped.
Scan(args) ==
  IF Len(args) > 2 /\ Size(args[3]) > 5
  THEN <<args[1], args[2], Cut(args[3], 0, 5), Cut(args[3], 5, Size(args[3]))>>
  ELSE SubSeq(args, 1, Min({4, Len(args)}))
=============================================================================
