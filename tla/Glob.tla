-------------------------------- MODULE Glob --------------------------------
(***************************************************************************)
(* The pattern matcher of KEYS, SCAN MATCH and CONFIG GET.  Patterns and   *)
(* names are sequences of bytes; `ci' asks for letters in either case.     *)
(***************************************************************************)
EXTENDS Integers, Sequences, SequencesExt

Star == 42
Question == 63
Open == 91
Backslash == 92
Close == 93
Caret == 94
Dash == 45

lower(b) == IF b \in 65..90 THEN b + 32 ELSE b
byteEq(a, b, ci) == a = b \/ (ci /\ lower(a) = lower(b))

InRangeOrdered(lo, hi, c, ci) ==
  LET f(b) == IF ci THEN lower(b) ELSE b IN f(lo) <= f(c) /\ f(c) <= f(hi)

\* The ends of a range may be given in either order.
InRange(lo, hi, c, ci) ==
  LET f(b) == IF ci THEN lower(b) ELSE b
      from == IF lo > hi THEN hi ELSE lo
      to == IF lo > hi THEN lo ELSE hi
  IN  f(from) <= f(c) /\ f(c) <= f(to)

\* Whether c is in the class whose members start at p, and the pattern after
\* its bracket.  A class without one takes the rest of the pattern.
RECURSIVE members(_, _, _)
members(p, c, ci) ==
  LET range == Len(p) >= 3 /\ p[2] = Dash /\ p[3] # Close
      taken == IF p[1] = Backslash /\ Len(p) >= 2 THEN 2 ELSE IF range THEN 3 ELSE 1
      hit == CASE taken = 2 -> byteEq(p[2], c, ci)
               [] taken = 3 -> InRange(p[1], p[3], c, ci)
               [] OTHER -> byteEq(p[1], c, ci)
      others == members(SubSeq(p, taken + 1, Len(p)), c, ci)
  IN  IF p = <<>> THEN [found |-> FALSE, rest |-> p]
      ELSE IF p[1] = Close THEN [found |-> FALSE, rest |-> Tail(p)]
      ELSE [others EXCEPT !.found = @ \/ hit]

matchClass(p, c, ci) ==
  LET negate == Len(p) >= 2 /\ p[2] = Caret
      m == members(SubSeq(p, IF negate THEN 3 ELSE 2, Len(p)), c, ci)
  IN  [matched |-> m.found # negate, rest |-> m.rest]

RECURSIVE matchPattern(_, _, _)
matchPattern(p, s, ci) ==
  IF p = <<>> THEN s = <<>>
  ELSE IF p[1] = Star THEN
       IF Len(p) > 1 /\ p[2] = Star THEN matchPattern(Tail(p), s, ci)
       ELSE Len(p) = 1 \/ \E i \in 0..Len(s) :
                            matchPattern(Tail(p), SubSeq(s, i + 1, Len(s)), ci)
  ELSE IF s = <<>> THEN FALSE
  ELSE IF p[1] = Question THEN matchPattern(Tail(p), Tail(s), ci)
  ELSE IF p[1] = Open THEN
       LET m == matchClass(p, s[1], ci) IN m.matched /\ matchPattern(m.rest, Tail(s), ci)
  ELSE LET q == IF p[1] = Backslash /\ Len(p) >= 2 THEN Tail(p) ELSE p
       IN  byteEq(q[1], s[1], ci) /\ matchPattern(Tail(q), Tail(s), ci)

isTrivialPattern(p) == p # <<>> /\ \A i \in 1..Len(p) : p[i] = Star
=============================================================================
