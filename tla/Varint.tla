------------------------------- MODULE Varint -------------------------------
(***************************************************************************)
(* The numbers of Java's protocol (appendVarint and readVarint of java.go): *)
(* 32 bits in groups of seven, the lowest first, each in a byte whose high  *)
(* bit says that another follows.  The code shifts in 32 bits, so that the  *)
(* fifth group loses its upper bits, and a number is signed.                *)
(***************************************************************************)
EXTENDS Integers, Sequences

Width == 4294967296  \* 2^32
Int32 == {v \in Int : -2147483648 <= v /\ v <= 2147483647}
Byte == 0 .. 255

\* The value of the lowest bit of each group.
Shift == <<1, 128, 16384, 2097152, 268435456>>

\* uint32(int32(v)), and back.
Unsigned(v) == v % Width
Signed(u) == IF u > 2147483647 THEN u - Width ELSE u

\* How many bytes u takes: it ends when nothing is left above a group.
Size(u) ==
  IF u < 128 THEN 1 ELSE IF u < 16384 THEN 2 ELSE IF u < 2097152 THEN 3
  ELSE IF u < 268435456 THEN 4 ELSE 5

Group(u, i) == (u \div Shift[i]) % 128

\* What appendVarint appends.
Encoded(v) ==
  LET u == Unsigned(v) IN
  [i \in 1 .. Size(u) |-> Group(u, i) + (IF i < Size(u) THEN 128 ELSE 0)]

\* The bytes that readVarint reads of s, 0 when the fifth says that another
\* follows, or s ends before.
Taken(s) ==
  IF Len(s) >= 1 /\ s[1] < 128 THEN 1
  ELSE IF Len(s) >= 2 /\ s[2] < 128 THEN 2
  ELSE IF Len(s) >= 3 /\ s[3] < 128 THEN 3
  ELSE IF Len(s) >= 4 /\ s[4] < 128 THEN 4
  ELSE IF Len(s) >= 5 /\ s[5] < 128 THEN 5 ELSE 0

\* A group in its place; the shift keeps 32 bits.
Placed(s, i) == IF i <= Taken(s) THEN ((s[i] % 128) * Shift[i]) % Width ELSE 0

\* The number readVarint returns of s.
Decoded(s) ==
  Signed((Placed(s, 1) + Placed(s, 2) + Placed(s, 3) + Placed(s, 4) + Placed(s, 5)) % Width)
=============================================================================
