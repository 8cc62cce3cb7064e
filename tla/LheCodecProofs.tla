--------------------------- MODULE LheCodecProofs ---------------------------
(***************************************************************************)
(* The codec, for every image, chroma mode, size of blocks and table on    *)
(* the right side of its predictions: the file is what the encoder meant   *)
(* (HuffmanInverse), a block comes back as the encoder quantized it        *)
(* (BlockIsDecoded), and so does the image, within the bounds of every     *)
(* value and buffer (ShownAsQuantized, CodecWithinBounds); an image of one *)
(* colour comes back but for rounding (PlainImagesSurvive).                *)
(*                                                                         *)
(* The loops of the code are Loop, a recursive function.  Recursion gives  *)
(* it a run, the sequence of the states it goes through, once each of its  *)
(* steps leads from one set of states into the next: the sets are the      *)
(* loop's invariant.  LHEquantizer and LHE_dequant visit the values of a   *)
(* block in one order (Raster, with Index as its inverse), so that the     *)
(* proof compares the k-th state of the one with the k-th of the other:    *)
(* the same hop1, the next symbol to read the next one written, the image  *)
(* so far the same (Decoded), hence the same prediction.  Huffman and      *)
(* inv_Huffman are compared over the stream of bits: the reader's words    *)
(* are a window of it (Window), and it stops where the symbol's code ends  *)
(* (Reached) because no code is a prefix of another.                       *)
(*                                                                         *)
(* CodecInv puts the blocks together: after n blocks the file has the code *)
(* of each, the encoder's image their quantized values and the decoder's   *)
(* what it makes of them.  A pixel of the image lies in one block and at   *)
(* one place of it (Pieces, below), which is why nothing is overwritten.   *)
(***************************************************************************)
EXTENDS LheCodec, WellFoundedInduction, FiniteSetTheorems, TLAPS

-----------------------------------------------------------------------------
(* Induction.  The library's induction theorems take an operator as a      *)
(* parameter; here a property of numbers is the set of the numbers that    *)
(* have it.                                                                *)

(* A set with 0 and the successor of each of its numbers has all of them.  *)
LEMMA NatSet ==
  ASSUME NEW S, 0 \in S, \A k \in Nat : k \in S => k + 1 \in S
  PROVE  Nat \subseteq S
<1> SUFFICES ASSUME ~ Nat \subseteq S PROVE FALSE
  OBVIOUS
<1> DEFINE T == {k \in Nat : k \notin S}
<1>1. T \subseteq Nat /\ T # {} OBVIOUS
<1>2. IsWellFoundedOn(OpToRel(<, Nat), Nat) BY NatLessThanWellFounded
<1>3. PICK x \in T : \A y \in T : ~ (<<y, x>> \in OpToRel(<, Nat))
  <2> HIDE DEF T
  <2> QED BY <1>1, <1>2, WFMin
<1>4. \A y \in T : ~ (y < x) BY <1>3, <1>1 DEF OpToRel
<1>5. x # 0 /\ x - 1 \in Nat OBVIOUS
<1>6. x - 1 \in S BY <1>4, <1>5
<1>7. x \in S BY <1>5, <1>6
<1> QED BY <1>7

(* The same as far as n: the form in which the loops of the codec are      *)
(* reasoned about.                                                         *)
LEMMA UpTo ==
  ASSUME NEW n \in Nat, NEW S, 0 \in S, \A k \in 1 .. n : k - 1 \in S => k \in S
  PROVE  \A k \in 0 .. n : k \in S
<1> DEFINE T == {k \in Nat : k <= n => k \in S}
<1>1. 0 \in T OBVIOUS
<1>2. \A k \in Nat : k \in T => k + 1 \in T
  <2> TAKE k \in Nat
  <2>1. k + 1 \in 1 .. n \/ ~ k + 1 <= n OBVIOUS
  <2>2. (k + 1) - 1 = k OBVIOUS
  <2> QED BY <2>1, <2>2
<1>3. Nat \subseteq T
  <2> HIDE DEF T
  <2> QED BY <1>1, <1>2, NatSet
<1> QED BY <1>3

(* What Recursion needs: every step leads from the k-th set of states into *)
(* the next.                                                               *)
Steps(n, T, base, step) ==
  n \in Nat /\ base \in T[0] /\ \A k \in 1 .. n : \A s \in T[k - 1] : step[<<s, k>>] \in T[k]

(* What Recursion gives: the states a loop goes through.                   *)
IsRun(g, n, T, base, step) ==
  /\ g[0] = base
  /\ \A k \in 1 .. n : g[k] = step[<<g[k - 1], k>>]
  /\ \A k \in 0 .. n : g[k] \in T[k]

(* A loop that keeps to its sets of states has a run: Loop is such a       *)
(* function, but its definition does not say that there is one.            *)
LEMMA Recursion ==
  ASSUME NEW n, NEW T, NEW base, NEW step, Steps(n, T, base, step)
  PROVE  \E g : IsRun(g, n, T, base, step)
<1> USE DEF Steps, IsRun
<1> DEFINE Upto(m, g) == /\ g[0] = base
                         /\ \A k \in 1 .. m : g[k] = step[<<g[k - 1], k>>]
                         /\ \A k \in 0 .. m : g[k] \in T[k]
           S == {m \in 0 .. n : \E g : Upto(m, g)}
<1>1. 0 \in S
  <2> DEFINE g == [k \in 0 .. 0 |-> base]
  <2>1. g[0] = base OBVIOUS
  <2>2. Upto(0, g) BY <2>1
  <2>3. \E q : Upto(0, q)
    <3> HIDE DEF Upto, g
    <3> QED BY <2>2
  <2> QED BY <2>3
<1>2. ASSUME NEW m \in 1 .. n, m - 1 \in S PROVE m \in S
  <2>1. PICK g : Upto(m - 1, g) BY <1>2
  <2> DEFINE h == [k \in 0 .. m |-> IF k = m THEN step[<<g[m - 1], m>>] ELSE g[k]]
  <2>2. m - 1 \in 0 .. (m - 1) /\ m \in 0 .. m /\ m # 0 /\ 0 \in 0 .. (m - 1) OBVIOUS
  <2>3. \A k \in 0 .. (m - 1) : h[k] = g[k] /\ k \in 0 .. m OBVIOUS
  <2>4. h[m] = step[<<h[m - 1], m>>] BY <2>2, <2>3
  <2>5. h[m - 1] \in T[m - 1] BY <2>1, <2>2, <2>3
  <2>6. h[m] \in T[m] BY <2>4, <2>5
  <2>7. \A k \in 0 .. m : k = m \/ k \in 0 .. (m - 1) OBVIOUS
  <2> HIDE DEF h
  <2>8. \A k \in 0 .. m : h[k] \in T[k] BY <2>1, <2>3, <2>6, <2>7
  <2>9. \A k \in 1 .. (m - 1) : h[k] = step[<<h[k - 1], k>>]
    <3> TAKE k \in 1 .. (m - 1)
    <3>1. k \in 0 .. (m - 1) /\ k - 1 \in 0 .. (m - 1) OBVIOUS
    <3> QED BY <3>1, <2>1, <2>3
  <2>10. \A k \in 1 .. m : h[k] = step[<<h[k - 1], k>>]
    <3>1. \A k \in 1 .. m : k = m \/ k \in 1 .. (m - 1) OBVIOUS
    <3> QED BY <3>1, <2>4, <2>9
  <2>11. h[0] = base BY <2>1, <2>2, <2>3
  <2>12. Upto(m, h) BY <2>8, <2>10, <2>11
  <2>13. \E q : Upto(m, q)
    <3> HIDE DEF Upto
    <3> QED BY <2>12
  <2>14. m \in 0 .. n OBVIOUS
  <2> HIDE DEF Upto
  <2> QED BY <2>13, <2>14
<1>3. \A m \in 0 .. n : m \in S
  <2> HIDE DEF S
  <2> QED BY <1>1, <1>2, UpTo
<1>4. n \in 0 .. n OBVIOUS
<1> QED BY <1>3, <1>4

(* Quotient and remainder are determined by the number: it is what takes   *)
(* indices apart.                                                          *)
LEMMA DivUnique ==
  ASSUME NEW q \in Int, NEW d \in Nat, NEW r \in 0 .. d - 1
  PROVE  (q * d + r) \div d = q /\ (q * d + r) % d = r
BY SMT

(* Quotient and remainder of a number.                                     *)
LEMMA DivFacts ==
  ASSUME NEW t \in Nat, NEW d \in Nat \ {0}
  PROVE  t \div d \in Nat /\ t % d \in 0 .. d - 1 /\ t = (t \div d) * d + (t % d)
BY SMT

-----------------------------------------------------------------------------
(* The three loops over a block: row, column, channel.                     *)

(* The place of a value in the order of the loops, from 1: the inverse of  *)
(* Raster.                                                                 *)
Index(at, cols, n) == (at[1] * cols + at[2]) * n + at[3] + 1

(* A number made of a quotient below b and a remainder is below the        *)
(* product.                                                                *)
LEMMA LessProduct ==
  ASSUME NEW a \in Nat, NEW b \in Nat, NEW c \in Nat, NEW r \in 0 .. c - 1, a < b
  PROVE  a * c + r \in Nat /\ a * c + r < b * c
<1>1. (a + 1) * c <= b * c BY SMT
<1>2. (a + 1) * c = a * c + c BY SMT
<1>3. a * c \in Nat /\ b * c \in Nat BY SMT
<1> QED BY <1>1, <1>2, <1>3

(* ... and the other way round.                                            *)
LEMMA ProductLess ==
  ASSUME NEW b \in Nat, NEW c \in Nat, NEW a \in Nat, NEW r \in Nat, a * c + r < b * c
  PROVE  a < b
<1> SUFFICES ASSUME a >= b PROVE FALSE OBVIOUS
<1>1. a * c >= b * c BY SMT
<1>2. a * c \in Nat /\ b * c \in Nat BY SMT
<1> QED BY <1>1, <1>2

(* What a pixel consists of.                                               *)
LEMMA PixelAt ==
  ASSUME NEW rows \in Nat, NEW cols \in Nat, NEW n \in {1, 3}, NEW at \in Pixels(rows, cols, n)
  PROVE  /\ at = <<at[1], at[2], at[3]>>
         /\ at[1] \in 0 .. rows - 1 /\ at[2] \in 0 .. cols - 1 /\ at[3] \in 0 .. n - 1
BY DEF Pixels

(* The loops of LHEquantizer and LHE_dequant pass every value of the block *)
(* once ...                                                                *)
LEMMA RasterOfIndex ==
  ASSUME NEW rows \in Nat, NEW cols \in Nat, NEW n \in {1, 3}, NEW at \in Pixels(rows, cols, n)
  PROVE  /\ Index(at, cols, n) \in 1 .. rows * cols * n
         /\ Raster(Index(at, cols, n), cols, n) = at
<1> DEFINE r == at[1]  c == at[2]  h == at[3]
<1>1. at = <<r, c, h>> /\ r \in 0 .. rows - 1 /\ c \in 0 .. cols - 1 /\ h \in 0 .. n - 1
  BY PixelAt
<1> DEFINE q == r * cols + c
<1>2. r * cols + c \in Nat /\ r * cols + c < rows * cols /\ rows * cols \in Nat
  <2>1. rows * cols \in Nat BY SMT
  <2>2. r \in Nat /\ r < rows BY <1>1
  <2> HIDE DEF r, c, h
  <2> QED BY <1>1, <2>1, <2>2, LessProduct
<1>3. n \in Nat /\ n # 0 OBVIOUS
<1>4. q * n + h \in Nat /\ q * n + h < (rows * cols) * n
  <2> DEFINE m == rows * cols
  <2>1. q < m /\ q \in Nat /\ m \in Nat BY <1>2
  <2> HIDE DEF r, c, h, q, m
  <2>2. q * n + h \in Nat /\ q * n + h < m * n BY <1>1, <1>3, <2>1, LessProduct
  <2> QED BY <2>2 DEF m
<1>5. (q * n + h) \div n = q /\ (q * n + h) % n = h
  <2>1. q \in Int BY <1>2
  <2> HIDE DEF r, c, h, q
  <2> QED BY <2>1, <1>1, <1>3, DivUnique
<1>6. q \div cols = r /\ q % cols = c
  <2> HIDE DEF r, c, h
  <2> QED BY <1>1, DivUnique
<1>7. q * n + h = r * (cols * n) + (c * n + h)
  <2> HIDE DEF r, c, h
  <2>1. r \in Int /\ c \in Int /\ h \in Int BY <1>1
  <2> QED BY <2>1
<1>8. c * n + h \in 0 .. (cols * n) - 1 /\ cols * n \in Nat
  <2>1. c \in Nat /\ c < cols BY <1>1
  <2>2. c * n + h \in Nat /\ c * n + h < cols * n
    <3> HIDE DEF r, c, h
    <3> QED BY <1>1, <1>3, <2>1, LessProduct
  <2>3. cols * n \in Nat BY SMT
  <2> HIDE DEF r, c, h
  <2> QED BY <2>2, <2>3
<1>9. (q * n + h) \div (cols * n) = r
  <2> DEFINE d == cols * n  s == c * n + h
  <2>1. s \in 0 .. d - 1 /\ d \in Nat /\ r \in Int BY <1>1, <1>8
  <2>2. (r * d + s) \div d = r
    <3> HIDE DEF d, s, r
    <3> QED BY <2>1, DivUnique
  <2> QED BY <1>7, <2>2
<1>10. Index(at, cols, n) = q * n + h + 1 BY DEF Index
<1>11. Index(at, cols, n) - 1 = q * n + h
  <2> HIDE DEF q, h
  <2> QED BY <1>4, <1>10
<1>12. Raster(Index(at, cols, n), cols, n) = <<r, c, h>>
  <2> HIDE DEF q, r, c, h
  <2> QED BY <1>5, <1>6, <1>9, <1>11 DEF Raster
<1>13. Index(at, cols, n) \in 1 .. rows * cols * n
  <2> HIDE DEF q, r, c, h
  <2> QED BY <1>4, <1>10, <1>2
<1> QED BY <1>1, <1>12, <1>13

(* ... and no other: the k-th value has index k.                           *)
LEMMA IndexOfRaster ==
  ASSUME NEW rows \in Nat, NEW cols \in Nat, NEW n \in {1, 3}, NEW k \in 1 .. rows * cols * n
  PROVE  /\ Raster(k, cols, n) \in Pixels(rows, cols, n)
         /\ Index(Raster(k, cols, n), cols, n) = k
<1> DEFINE a == k - 1  q == a \div n  h == a % n  r == q \div cols  c == q % cols
<1>1. rows * cols \in Nat /\ (rows * cols) * n \in Nat BY SMT
<1>2. a \in Nat /\ a < (rows * cols) * n BY <1>1
<1>3. n \in Nat \ {0} OBVIOUS
<1>4. q \in Nat /\ h \in 0 .. n - 1 /\ a = q * n + h
  <2> HIDE DEF a
  <2> QED BY <1>2, <1>3, DivFacts
<1>5. q < rows * cols
  <2> DEFINE m == rows * cols
  <2>1. q * n + h < m * n /\ m \in Nat /\ h \in Nat BY <1>1, <1>2, <1>4
  <2> HIDE DEF q, h, m, a
  <2>2. q < m BY <2>1, <1>3, <1>4, ProductLess
  <2> QED BY <2>2 DEF m
<1>6. cols # 0
  <2> SUFFICES ASSUME cols = 0 PROVE FALSE OBVIOUS
  <2>1. rows * cols = 0 BY SMT
  <2> HIDE DEF q
  <2> QED BY <2>1, <1>4, <1>5
<1>7. r \in Nat /\ c \in 0 .. cols - 1 /\ q = r * cols + c
  <2> HIDE DEF q
  <2> QED BY <1>4, <1>6, DivFacts
<1>8. r < rows
  <2>1. c \in Nat BY <1>7
  <2> HIDE DEF q, r, c
  <2> QED BY <2>1, <1>5, <1>7, ProductLess
<1> DEFINE at == <<r, c, h>>
<1>9. at \in Pixels(rows, cols, n)
  <2> HIDE DEF r, c, h
  <2> QED BY <1>4, <1>7, <1>8 DEF Pixels
<1>10. Index(at, cols, n) = k
  <2>1. Index(at, cols, n) = (r * cols + c) * n + h + 1
    <3> HIDE DEF r, c, h
    <3> QED BY DEF Index
  <2>2. Index(at, cols, n) = q * n + h + 1
    <3> HIDE DEF r, c, h, q, at
    <3> QED BY <2>1, <1>7
  <2>3. q * n + h = k - 1 BY <1>4
  <2>4. q * n \in Int BY <1>4
  <2> HIDE DEF r, c, h, q, at
  <2> QED BY <2>2, <2>3, <1>4, <2>4
<1>11. Raster(k, cols, n) = at
  <2> HIDE DEF at
  <2>1. Raster(Index(at, cols, n), cols, n) = at BY <1>9, RasterOfIndex
  <2> QED BY <2>1, <1>10
<1> HIDE DEF at
<1> QED BY <1>9, <1>10, <1>11

(* The value after a value, in the order of the three loops.               *)
Succ(p, n, cols) == IF p[3] + 1 < n THEN <<p[1], p[2], p[3] + 1>>
                    ELSE IF p[2] + 1 < cols THEN <<p[1], p[2] + 1, 0>>
                    ELSE <<p[1] + 1, 0, 0>>

(* That is the one Raster goes to: the loops nest as in the code.          *)
LEMMA RasterNext ==
  ASSUME NEW rows \in Nat, NEW cols \in Nat, NEW n \in {1, 3}, NEW k \in 1 .. rows * cols * n,
         NEW at, at = Raster(k, cols, n)
  PROVE  Raster(k + 1, cols, n) = Succ(at, n, cols)
<1> DEFINE r == at[1]  c == at[2]  h == at[3]
           to == IF h + 1 < n THEN <<r, c, h + 1>>
                 ELSE IF c + 1 < cols THEN <<r, c + 1, 0>> ELSE <<r + 1, 0, 0>>
<1>1. at \in Pixels(rows, cols, n) /\ Index(at, cols, n) = k
  BY IndexOfRaster
<1>2. r \in 0 .. rows - 1 /\ c \in 0 .. cols - 1 /\ h \in 0 .. n - 1
  BY <1>1, PixelAt
<1>3. k = (r * cols + c) * n + h + 1 BY <1>1 DEF Index
<1>4. to \in Pixels(rows + 1, cols, n)
  <2> HIDE DEF r, c, h
  <2> QED BY <1>2 DEF Pixels
<1>5. Index(to, cols, n) = k + 1
  <2>1. Index(<<r, c, h + 1>>, cols, n) = (r * cols + c) * n + (h + 1) + 1 BY DEF Index
  <2>2. Index(<<r, c + 1, 0>>, cols, n) = (r * cols + (c + 1)) * n + 0 + 1 BY DEF Index
  <2>3. Index(<<r + 1, 0, 0>>, cols, n) = ((r + 1) * cols + 0) * n + 0 + 1 BY DEF Index
  <2>4. (r + 1) * cols = r * cols + cols /\ r * cols \in Nat
    <3> HIDE DEF r
    <3> QED BY <1>2
  <2> DEFINE z == r * cols
  <2>5. h + 1 < n \/ h + 1 = n BY <1>2
  <2>6. c + 1 < cols \/ c + 1 = cols BY <1>2
  <2>7. z \in Nat /\ c \in Nat /\ h \in Nat BY <1>2, <2>4
  <2>8. k = (z + c) * n + h + 1 BY <1>3
  <2>9. CASE h + 1 < n
    <3>1. Index(to, cols, n) = (z + c) * n + (h + 1) + 1 BY <2>1, <2>9
    <3> HIDE DEF z, c, h, to
    <3> QED BY <3>1, <2>7, <2>8
  <2>10. CASE h + 1 = n /\ c + 1 < cols
    <3>1. Index(to, cols, n) = (z + (c + 1)) * n + 0 + 1 BY <2>2, <2>10
    <3> HIDE DEF z, c, h, to
    <3> QED BY <3>1, <2>7, <2>8, <2>10
  <2>11. CASE h + 1 = n /\ c + 1 = cols
    <3>1. Index(to, cols, n) = ((r + 1) * cols + 0) * n + 0 + 1 BY <2>3, <2>11
    <3>2. (r + 1) * cols + 0 = z + (c + 1) BY <2>4, <2>11
    <3> HIDE DEF z, c, h, to, r
    <3> QED BY <3>1, <3>2, <2>7, <2>8, <2>11
  <2> QED BY <2>5, <2>6, <2>9, <2>10, <2>11
<1>6. Raster(Index(to, cols, n), cols, n) = to
  <2> HIDE DEF to
  <2>1. rows + 1 \in Nat OBVIOUS
  <2> QED BY <1>4, <2>1, RasterOfIndex
<1> QED BY <1>5, <1>6 DEF Succ

(* The loops start at the first pixel and end at the row behind the last.  *)
LEMMA RasterEnds ==
  ASSUME NEW rows \in Nat, NEW cols \in Nat \ {0}, NEW n \in {1, 3}
  PROVE  /\ Raster(1, cols, n) = <<0, 0, 0>>
         /\ Raster(rows * cols * n + 1, cols, n) = <<rows, 0, 0>>
<1>1. <<0, 0, 0>> \in Pixels(rows + 1, cols, n) /\ <<rows, 0, 0>> \in Pixels(rows + 1, cols, n)
  BY DEF Pixels
<1>2. Index(<<0, 0, 0>>, cols, n) = 1 BY DEF Index
<1>3. Index(<<rows, 0, 0>>, cols, n) = rows * cols * n + 1
  <2>1. Index(<<rows, 0, 0>>, cols, n) = (rows * cols + 0) * n + 0 + 1 BY DEF Index
  <2>2. rows * cols \in Nat BY SMT
  <2> QED BY <2>1, <2>2
<1>4. rows + 1 \in Nat /\ cols \in Nat OBVIOUS
<1> QED BY <1>1, <1>2, <1>3, <1>4, RasterOfIndex

(* Chroma is decimated by 2 or not at all, both chroma channels alike, and *)
(* luminance never.                                                        *)
LEMMA JumpValues ==
  ASSUME NEW mode, NEW chn \in Nat
  PROVE  /\ JumpX(mode, chn) \in {1, 2} /\ JumpY(mode, chn) \in {1, 2}
         /\ JumpX(mode, 0) = 1 /\ JumpY(mode, 0) = 1
         /\ (chn > 0 => JumpX(mode, chn) = JumpX(mode, 1) /\ JumpY(mode, chn) = JumpY(mode, 1))
BY DEF JumpX, JumpY

(* Which values have a symbol, said by the mode's two jumps.               *)
LEMMA CodedAt ==
  ASSUME NEW mode, NEW r \in Nat, NEW c \in Nat, NEW h \in Nat
  PROVE  /\ (h = 0 => Coded(mode, r, c, h))
         /\ (h > 0 => (Coded(mode, r, c, h) <=> r % JumpY(mode, 1) = 0 /\ c % JumpX(mode, 1) = 0))
         /\ Coded(mode, 0, 0, h)
         /\ Coded(mode, r, c, h) \in BOOLEAN
<1>1. r % 1 = 0 /\ c % 1 = 0 /\ 0 % 1 = 0 /\ 0 % 2 = 0 OBVIOUS
<1>2. CASE h = 0 BY <1>1, <1>2, JumpValues DEF Coded
<1>3. CASE h > 0 BY <1>1, <1>3, JumpValues DEF Coded
<1> QED BY <1>2, <1>3

-----------------------------------------------------------------------------
(* How many values the decimation leaves (get_num_of_symbs).               *)

(* How many multiples of d are below v.                                    *)
Below(v, d) == (v + d - 1) \div d

(* They are counted one by one.                                            *)
LEMMA BelowFacts ==
  ASSUME NEW v \in Nat, NEW d \in {1, 2}
  PROVE  /\ Below(v, d) \in Nat /\ Below(0, d) = 0
         /\ Below(v + 1, d) = Below(v, d) + (IF v % d = 0 THEN 1 ELSE 0)
         /\ Below(v, d) <= v
BY DEF Below

(* How many values before p have a symbol: whole rows of luminance, the    *)
(* chroma rows kept, and what the current row adds.                        *)
CountAt(p, cols, mode) ==
  LET y == JumpY(mode, 1)  x == JumpX(mode, 1)
  IN p[1] * cols + p[2] + (IF p[3] > 0 THEN 1 ELSE 0)
     + IF Channels(mode) = 1 THEN 0
       ELSE 2 * (Below(p[1], y) * Below(cols, x) + (IF p[1] % y = 0 THEN Below(p[2], x) ELSE 0))
            + (IF p[1] % y = 0 /\ p[2] % x = 0 /\ p[3] = 2 THEN 1 ELSE 0)

(* How many symbols the first k values of a block have.                    *)
Count(k, cols, mode) == CountAt(Raster(k + 1, cols, Channels(mode)), cols, mode)

(* A mode has one channel or three.                                        *)
LEMMA ChannelsOf ==
  ASSUME NEW mode PROVE Channels(mode) \in {1, 3} /\ Channels(mode) \in Nat
BY DEF Channels

(* The count goes up by one at every value with a symbol, and stays at the *)
(* others.                                                                 *)
LEMMA CountStep ==
  ASSUME NEW mode, NEW cols \in Nat, NEW p, p = <<p[1], p[2], p[3]>>,
         p[1] \in Nat, p[2] \in 0 .. cols - 1, p[3] \in 0 .. Channels(mode) - 1
  PROVE  /\ CountAt(p, cols, mode) \in Nat
         /\ CountAt(Succ(p, Channels(mode), cols), cols, mode) =
              CountAt(p, cols, mode) + (IF Coded(mode, p[1], p[2], p[3]) THEN 1 ELSE 0)
<1> DEFINE r == p[1]  c == p[2]  h == p[3]  to == Succ(p, Channels(mode), cols)
<1>0. to = IF h + 1 < Channels(mode) THEN <<r, c, h + 1>>
           ELSE IF c + 1 < cols THEN <<r, c + 1, 0>> ELSE <<r + 1, 0, 0>>
  BY DEF Succ
<1>0a. p = <<r, c, h>> /\ r \in Nat /\ c \in 0 .. cols - 1 /\ h \in 0 .. Channels(mode) - 1
  OBVIOUS
<1> HIDE DEF r, c, h, to
<1> DEFINE n == Channels(mode)  y == JumpY(mode, 1)  x == JumpX(mode, 1)
           z == r * cols  b == Below(r, y)  w == Below(cols, x)  g == b * w  u == Below(c, x)
<1>1. n \in {1, 3} /\ y \in {1, 2} /\ x \in {1, 2} BY ChannelsOf, JumpValues
<1>2. z \in Nat /\ (r + 1) * cols = z + cols BY <1>0a, SMT
<1>3. r \in Nat /\ c \in Nat /\ h \in Nat BY <1>0a
<1>4. b \in Nat /\ w \in Nat /\ u \in Nat
  <2> HIDE DEF x, y
  <2> QED BY <1>1, <1>3, BelowFacts
<1>5. g \in Nat /\ (b + 1) * w = g + w
  <2> HIDE DEF b, w
  <2> QED BY <1>4
<1>6. Below(r + 1, y) = b + (IF r % y = 0 THEN 1 ELSE 0)
  <2> HIDE DEF x, y
  <2> QED BY <1>1, <1>3, BelowFacts
<1>7. Below(c + 1, x) = u + (IF c % x = 0 THEN 1 ELSE 0) /\ Below(0, x) = 0
  <2> HIDE DEF x, y
  <2> QED BY <1>1, <1>3, BelowFacts
<1>8. Coded(mode, r, c, h) <=> h = 0 \/ (r % y = 0 /\ c % x = 0) BY <1>3, CodedAt
<1> DEFINE ry == r % y = 0  cx == c % x = 0
<1>9. 0 % x = 0 /\ ry \in BOOLEAN /\ cx \in BOOLEAN
  <2> HIDE DEF x
  <2> QED BY <1>1, <1>3
<1>10. \A v, q, s : CountAt(<<v, q, s>>, cols, mode) =
         v * cols + q + (IF s > 0 THEN 1 ELSE 0)
         + IF n = 1 THEN 0
           ELSE 2 * (Below(v, y) * w + (IF v % y = 0 THEN Below(q, x) ELSE 0))
                + (IF v % y = 0 /\ q % x = 0 /\ s = 2 THEN 1 ELSE 0)
  BY DEF CountAt
<1>11. CountAt(<<r, c, h>>, cols, mode) =
         z + c + (IF h > 0 THEN 1 ELSE 0)
         + IF n = 1 THEN 0
           ELSE 2 * (g + (IF ry THEN u ELSE 0)) + (IF ry /\ cx /\ h = 2 THEN 1 ELSE 0)
  BY <1>10
<1>12. CountAt(<<r, c, h + 1>>, cols, mode) =
         z + c + 1
         + IF n = 1 THEN 0
           ELSE 2 * (g + (IF ry THEN u ELSE 0)) + (IF ry /\ cx /\ h = 1 THEN 1 ELSE 0)
  <2>1. h + 1 > 0 /\ (h + 1 = 2 <=> h = 1) BY <1>3
  <2>2. CountAt(<<r, c, h + 1>>, cols, mode) =
         z + c + (IF h + 1 > 0 THEN 1 ELSE 0)
         + IF n = 1 THEN 0
           ELSE 2 * (g + (IF ry THEN u ELSE 0)) + (IF ry /\ cx /\ h + 1 = 2 THEN 1 ELSE 0)
    BY <1>10
  <2> HIDE DEF x, y, z, b, w, g, u, n, ry, cx
  <2> QED BY <2>1, <2>2
<1>13. CountAt(<<r, c + 1, 0>>, cols, mode) =
         z + (c + 1)
         + IF n = 1 THEN 0 ELSE 2 * (g + (IF ry THEN u + (IF cx THEN 1 ELSE 0) ELSE 0))
  <2>1. CountAt(<<r, c + 1, 0>>, cols, mode) =
         z + (c + 1) + (IF 0 > 0 THEN 1 ELSE 0)
         + IF n = 1 THEN 0 ELSE 2 * (g + (IF ry THEN Below(c + 1, x) ELSE 0))
                                + (IF ry /\ (c + 1) % x = 0 /\ 0 = 2 THEN 1 ELSE 0)
    BY <1>10
  <2> HIDE DEF x, y, z, b, w, g, u, n, ry
  <2> QED BY <2>1, <1>2, <1>3, <1>4, <1>5, <1>7
<1>14. CountAt(<<r + 1, 0, 0>>, cols, mode) =
         z + cols + IF n = 1 THEN 0 ELSE 2 * (g + (IF ry THEN w ELSE 0))
  <2>1. CountAt(<<r + 1, 0, 0>>, cols, mode) =
         (r + 1) * cols + 0 + (IF 0 > 0 THEN 1 ELSE 0)
         + IF n = 1 THEN 0
           ELSE 2 * (Below(r + 1, y) * w + (IF (r + 1) % y = 0 THEN Below(0, x) ELSE 0))
                                + (IF (r + 1) % y = 0 /\ 0 % x = 0 /\ 0 = 2 THEN 1 ELSE 0)
    BY <1>10
  <2>2. Below(r + 1, y) * w = g + (IF ry THEN w ELSE 0)
    <3>1. CASE ry BY <3>1, <1>5, <1>6
    <3>2. CASE ~ ry
      <4>1. Below(r + 1, y) = b + 0 BY <3>2, <1>6
      <4>2. b + 0 = b
        <5> HIDE DEF b
        <5> QED BY <1>4
      <4>3. g \in Nat /\ g + 0 = g
        <5> HIDE DEF g
        <5> QED BY <1>5
      <4> QED BY <3>2, <4>1, <4>2, <4>3
    <3> QED BY <3>1, <3>2
  <2>3. CountAt(<<r + 1, 0, 0>>, cols, mode) =
         (z + cols) + 0 + (IF 0 > 0 THEN 1 ELSE 0)
         + IF n = 1 THEN 0
           ELSE 2 * ((g + (IF ry THEN w ELSE 0)) + (IF (r + 1) % y = 0 THEN 0 ELSE 0))
                                + (IF (r + 1) % y = 0 /\ 0 % x = 0 /\ 0 = 2 THEN 1 ELSE 0)
    BY <2>1, <2>2, <1>2, <1>7
  <2> HIDE DEF x, y, z, b, w, g, u, n, ry
  <2> QED BY <2>3, <1>2, <1>4, <1>5
<1>15. c + 1 = cols \/ c + 1 < cols BY <1>0a
<1>16. c + 1 = cols => w = u + (IF cx THEN 1 ELSE 0) BY <1>7
<1>17. h + 1 < n \/ h + 1 = n BY <1>0a, <1>1
<1>18. CountAt(<<r, c, h>>, cols, mode) \in Nat
  <2> HIDE DEF x, y, z, b, w, g, u, n, ry, cx
  <2> QED BY <1>11, <1>2, <1>3, <1>4, <1>5
<1>19. CountAt(to, cols, mode) =
              CountAt(<<r, c, h>>, cols, mode) + (IF Coded(mode, r, c, h) THEN 1 ELSE 0)
  <2>1. CASE h + 1 < n
    <3>1. CountAt(to, cols, mode) = CountAt(<<r, c, h + 1>>, cols, mode) BY <1>0, <2>1
    <3>2. (Coded(mode, r, c, h) <=> h = 0 \/ (ry /\ cx)) BY <1>8
    <3>3. h \in {0, 1} /\ n = 3 BY <1>0a, <1>1, <2>1
    <3> HIDE DEF x, y, z, b, w, g, u, n, ry, cx
    <3> QED BY <3>1, <3>2, <3>3, <1>9, <1>11, <1>12, <1>2, <1>3, <1>4, <1>5
  <2>2. CASE h + 1 = n /\ c + 1 < cols
    <3>1. CountAt(to, cols, mode) = CountAt(<<r, c + 1, 0>>, cols, mode) BY <1>0, <1>1, <1>3, <2>2
    <3>2. (Coded(mode, r, c, h) <=> h = 0 \/ (ry /\ cx)) BY <1>8
    <3>3. (n = 1 /\ h = 0) \/ (n = 3 /\ h = 2) BY <1>0a, <1>1, <2>2
    <3> HIDE DEF x, y, z, b, w, g, u, n, ry, cx
    <3> QED BY <3>1, <3>2, <3>3, <1>9, <1>11, <1>13, <1>2, <1>3, <1>4, <1>5
  <2>3. CASE h + 1 = n /\ c + 1 = cols
    <3>1. CountAt(to, cols, mode) = CountAt(<<r + 1, 0, 0>>, cols, mode) BY <1>0, <1>1, <1>3, <2>3
    <3>2. (Coded(mode, r, c, h) <=> h = 0 \/ (ry /\ cx)) BY <1>8
    <3>3. (n = 1 /\ h = 0) \/ (n = 3 /\ h = 2) BY <1>0a, <1>1, <2>3
    <3>4. w = u + (IF cx THEN 1 ELSE 0) BY <1>16, <2>3
    <3> HIDE DEF x, y, z, b, w, g, u, n, ry, cx
    <3> QED BY <3>1, <3>2, <3>3, <3>4, <2>3, <1>9, <1>11, <1>14, <1>2, <1>3, <1>4, <1>5
  <2> QED BY <1>15, <1>17, <2>1, <2>2, <2>3
<1> QED BY <1>18, <1>19, <1>0a DEF r, c, h, to

(* Every second one of an even number of rows or columns is half of them.  *)
LEMMA EvenParts ==
  ASSUME NEW v \in Nat, v % 2 = 0
  PROVE  v = 2 * (v \div 2) /\ v \div 2 \in Nat /\ Below(v, 2) = v \div 2 /\ Half(v) = v \div 2
BY DEF Below, Half

(* Of an odd number it is the larger half.                                 *)
LEMMA OddParts ==
  ASSUME NEW v \in Nat, v % 2 # 0
  PROVE  Below(v, 2) = Half(v) /\ Half(v) \in Nat
BY DEF Below, Half

(* Without decimation it is all of them.                                   *)
LEMMA BelowOne == ASSUME NEW v \in Nat PROVE Below(v, 1) = v
BY DEF Below

(* At the end of the block the count is get_num_of_symbs, in every chroma  *)
(* mode: the formula of the encoder and the decoder agrees with the loops  *)
(* that write and read the symbols.                                        *)
LEMMA SymbolsCounted ==
  ASSUME NEW rows \in Nat, NEW cols \in Nat, cols % 2 = 0, NEW mode \in ChromaModes
  PROVE  CountAt(<<rows, 0, 0>>, cols, mode) = get_num_of_symbs(rows, cols, mode)
<1> DEFINE y == JumpY(mode, 1)  x == JumpX(mode, 1)  z == rows * cols  v == cols \div 2
<1>1. y \in {1, 2} /\ x \in {1, 2} BY JumpValues
<1>2. z \in Nat BY SMT
<1>3. Below(0, x) = 0
  <2> HIDE DEF x, y
  <2> QED BY <1>1, BelowFacts
<1>4. CountAt(<<rows, 0, 0>>, cols, mode) =
        z + 0 + (IF 0 > 0 THEN 1 ELSE 0)
        + IF Channels(mode) = 1 THEN 0
          ELSE 2 * (Below(rows, y) * Below(cols, x) + (IF rows % y = 0 THEN Below(0, x) ELSE 0))
               + (IF rows % y = 0 /\ 0 % x = 0 /\ 0 = 2 THEN 1 ELSE 0)
  BY DEF CountAt
<1>5. Below(rows, y) * Below(cols, x) \in Nat
  <2>1. Below(rows, y) \in Nat /\ Below(cols, x) \in Nat
    <3> HIDE DEF x, y
    <3> QED BY <1>1, BelowFacts
  <2> DEFINE a == Below(rows, y)  b == Below(cols, x)
  <2> HIDE DEF a, b
  <2>2. a \in Nat /\ b \in Nat => a * b \in Nat OBVIOUS
  <2> QED BY <2>1, <2>2 DEF a, b
<1>6. CountAt(<<rows, 0, 0>>, cols, mode) =
        z + IF Channels(mode) = 1 THEN 0 ELSE 2 * (Below(rows, y) * Below(cols, x))
  <2> DEFINE g == Below(rows, y) * Below(cols, x)
  <2>1. g \in Nat BY <1>5
  <2>2. CountAt(<<rows, 0, 0>>, cols, mode) =
        z + 0 + (IF 0 > 0 THEN 1 ELSE 0)
        + IF Channels(mode) = 1 THEN 0
          ELSE 2 * (g + (IF rows % y = 0 THEN 0 ELSE 0))
               + (IF rows % y = 0 /\ 0 % x = 0 /\ 0 = 2 THEN 1 ELSE 0)
    BY <1>3, <1>4
  <2>3. g + 0 = g /\ 2 * g \in Nat
    <3> HIDE DEF g
    <3> QED BY <2>1
  <2>4. CountAt(<<rows, 0, 0>>, cols, mode) = z + IF Channels(mode) = 1 THEN 0 ELSE 2 * g
    <3> HIDE DEF g, z, y, x
    <3> QED BY <2>1, <2>2, <1>2
  <2> QED BY <2>4
<1>7. cols = 2 * v /\ v \in Nat /\ Below(cols, 2) = v BY EvenParts
<1>8. CASE mode = "gray"
  <2>1. CountAt(<<rows, 0, 0>>, cols, mode) = z + 0 BY <1>6, <1>8 DEF Channels
  <2>2. get_num_of_symbs(rows, cols, mode) = z BY <1>8 DEF get_num_of_symbs
  <2> HIDE DEF z
  <2> QED BY <2>1, <2>2, <1>2
<1>9. CASE mode = "yuv422"
  <2>1. Channels(mode) = 3 /\ x = 2 /\ y = 1 BY <1>9 DEF Channels, JumpX, JumpY
  <2>2. Below(rows, 1) = rows BY BelowOne
  <2>3. CountAt(<<rows, 0, 0>>, cols, mode) = z + 2 * (rows * v)
    BY <1>6, <2>1, <2>2, <1>7
  <2>4. rows * cols = 2 * (rows * v) /\ rows * v \in Nat
    <3> HIDE DEF v
    <3> QED BY <1>7
  <2>5. get_num_of_symbs(rows, cols, mode) = rows * cols + rows * cols
    BY <1>9 DEF get_num_of_symbs
  <2> QED BY <2>3, <2>4, <2>5
<1>10. CASE mode = "yuv420"
  <2>1. Channels(mode) = 3 /\ x = 2 /\ y = 2 BY <1>10 DEF Channels, JumpX, JumpY
  <2>2. CountAt(<<rows, 0, 0>>, cols, mode) = z + 2 * (Below(rows, 2) * v)
    BY <1>6, <2>1, <1>7
  <2>3. get_num_of_symbs(rows, cols, mode) =
          z + IF rows % 2 = 0 THEN z \div 2 ELSE cols * Half(rows)
    BY <1>10 DEF get_num_of_symbs
  <2>4. CASE rows % 2 = 0
    <3> DEFINE u == rows \div 2
    <3>1. rows = 2 * u /\ u \in Nat /\ Below(rows, 2) = u BY <2>4, EvenParts
    <3>2. z = 2 * (2 * (u * v)) /\ u * v \in Nat
      <4> HIDE DEF u, v
      <4> QED BY <3>1, <1>7
    <3>3. z \div 2 = 2 * (u * v)
      <4> DEFINE g == u * v
      <4> HIDE DEF g, z
      <4>1. z = 2 * (2 * g) /\ g \in Nat BY <3>2 DEF g
      <4>2. z \div 2 = 2 * g BY <4>1
      <4> QED BY <4>2 DEF g
    <3> QED BY <2>2, <2>3, <2>4, <3>1, <3>3
  <2>5. CASE rows % 2 # 0
    <3> DEFINE u == Half(rows)
    <3>1. Below(rows, 2) = u /\ u \in Nat BY <2>5, OddParts
    <3>2. cols * u = 2 * (u * v)
      <4> HIDE DEF u, v
      <4> QED BY <3>1, <1>7
    <3> QED BY <2>2, <2>3, <2>5, <3>1, <3>2
  <2> QED BY <2>4, <2>5
<1>11. CASE mode \in {"yuv444", "bayer"}
  <2>1. Channels(mode) = 3 /\ x = 1 /\ y = 1 BY <1>11 DEF Channels, JumpX, JumpY
  <2>2. Below(rows, 1) = rows /\ Below(cols, 1) = cols BY BelowOne
  <2>3. CountAt(<<rows, 0, 0>>, cols, mode) = z + 2 * z
    <3>1. CountAt(<<rows, 0, 0>>, cols, mode) = z + 2 * (Below(rows, 1) * Below(cols, 1))
      BY <1>6, <2>1
    <3> QED BY <3>1, <2>2
  <2>4. get_num_of_symbs(rows, cols, mode) = 3 * rows * cols
    BY <1>11 DEF get_num_of_symbs
  <2>5. 3 * rows * cols = z + 2 * z BY SMT
  <2> QED BY <2>3, <2>4, <2>5
<1> QED BY <1>8, <1>9, <1>10, <1>11 DEF ChromaModes

(* Count runs from 0 to get_num_of_symbs, one up at each value with a      *)
(* symbol.                                                                 *)
LEMMA Counting ==
  ASSUME NEW rows \in Nat, NEW cols \in Nat \ {0}, cols % 2 = 0, NEW mode \in ChromaModes
  PROVE  LET n == Channels(mode) IN
         /\ Count(0, cols, mode) = 0
         /\ Count(rows * cols * n, cols, mode) = get_num_of_symbs(rows, cols, mode)
         /\ \A k \in 1 .. rows * cols * n :
              LET at == Raster(k, cols, n) IN
              /\ Count(k - 1, cols, mode) \in Nat
              /\ Count(k, cols, mode) =
                   Count(k - 1, cols, mode) + (IF Coded(mode, at[1], at[2], at[3]) THEN 1 ELSE 0)
<1> DEFINE n == Channels(mode)  N == rows * cols * n
<1>1. n \in {1, 3} BY ChannelsOf
<1>2. Raster(1, cols, n) = <<0, 0, 0>> /\ Raster(N + 1, cols, n) = <<rows, 0, 0>>
  <2> HIDE DEF n
  <2> QED BY <1>1, RasterEnds
<1>3. 0 + 1 = 1 OBVIOUS
<1>4. Count(0, cols, mode) = CountAt(<<0, 0, 0>>, cols, mode) BY <1>2, <1>3 DEF Count
<1>5. CountAt(<<0, 0, 0>>, cols, mode) = 0
  <2>1. CountAt(<<0, 0, 0>>, cols, mode) = get_num_of_symbs(0, cols, mode)
    BY SymbolsCounted
  <2>2. 0 * cols = 0 /\ 0 % 2 = 0 /\ 0 \div 2 = 0 /\ 3 * 0 * cols = 0 BY SMT
  <2> QED BY <2>1, <2>2 DEF get_num_of_symbs, ChromaModes
<1>6. Count(N, cols, mode) = get_num_of_symbs(rows, cols, mode)
  BY <1>2, SymbolsCounted DEF Count
<1>7. ASSUME NEW k \in 1 .. N
      PROVE  LET at == Raster(k, cols, n) IN
              /\ Count(k - 1, cols, mode) \in Nat
              /\ Count(k, cols, mode) =
                   Count(k - 1, cols, mode) + (IF Coded(mode, at[1], at[2], at[3]) THEN 1 ELSE 0)
  <2> DEFINE at == Raster(k, cols, n)  r == at[1]  c == at[2]  h == at[3]
             to == Raster(k + 1, cols, n)
  <2>1. at \in Pixels(rows, cols, n)
    <3> HIDE DEF n
    <3> QED BY <1>1, IndexOfRaster
  <2>2. at = <<r, c, h>> /\ r \in 0 .. rows - 1 /\ c \in 0 .. cols - 1 /\ h \in 0 .. n - 1
    <3> HIDE DEF n, at
    <3> QED BY <1>1, <2>1, PixelAt
  <2>3. to = Succ(at, n, cols)
    <3>1. \A a : a = Raster(k, cols, n) => Raster(k + 1, cols, n) = Succ(a, n, cols)
      <4> HIDE DEF n
      <4> QED BY <1>1, RasterNext
    <3> QED BY <3>1
  <2>4. /\ CountAt(at, cols, mode) \in Nat
        /\ CountAt(to, cols, mode) =
             CountAt(at, cols, mode) + (IF Coded(mode, r, c, h) THEN 1 ELSE 0)
    <3>1. at[1] \in Nat /\ cols \in Nat /\ at[2] \in 0 .. cols - 1
          /\ at[3] \in 0 .. Channels(mode) - 1 /\ at = <<at[1], at[2], at[3]>>
      BY <2>2
    <3>2. to = Succ(at, Channels(mode), cols) BY <2>3
    <3> HIDE DEF at, to, n, N
    <3> QED BY <3>1, <3>2, CountStep
  <2>5. (k - 1) + 1 = k OBVIOUS
  <2>6. Count(k - 1, cols, mode) = CountAt(at, cols, mode) BY <2>5 DEF Count
  <2>7. Count(k, cols, mode) = CountAt(to, cols, mode) BY DEF Count
  <2> QED BY <2>4, <2>6, <2>7
<1> QED BY <1>4, <1>5, <1>6, <1>7

(* The values of the first pixel, stored as they are, are the first ones.  *)
LEMMA FirstPixel ==
  ASSUME NEW rows \in Nat, NEW cols \in Nat \ {0}, NEW n \in {1, 3}, NEW k \in 1 .. rows * cols * n,
         NEW at, at = Raster(k, cols, n)
  PROVE  /\ (k <= n => at = <<0, 0, k - 1>>)
         /\ (at[1] = 0 /\ at[2] = 0 => k <= n)
<1>1. at \in Pixels(rows, cols, n) /\ Index(at, cols, n) = k BY IndexOfRaster
<1>2. at = <<at[1], at[2], at[3]>> /\ at[3] \in 0 .. n - 1 BY <1>1, PixelAt
<1>3. ASSUME at[1] = 0, at[2] = 0 PROVE k <= n
  <2>1. k = (0 * cols + 0) * n + at[3] + 1 BY <1>1, <1>3 DEF Index
  <2>2. (0 * cols + 0) * n = 0 BY SMT
  <2> QED BY <2>1, <2>2, <1>2
<1>4. ASSUME k <= n PROVE at = <<0, 0, k - 1>>
  <2>1. rows # 0
    <3> SUFFICES ASSUME rows = 0 PROVE FALSE OBVIOUS
    <3>1. rows * cols * n = 0 BY SMT
    <3> QED BY <3>1
  <2>2. <<0, 0, k - 1>> \in Pixels(rows, cols, n) BY <2>1, <1>4 DEF Pixels
  <2>3. Index(<<0, 0, k - 1>>, cols, n) = (0 * cols + 0) * n + (k - 1) + 1 BY DEF Index
  <2>4. Index(<<0, 0, k - 1>>, cols, n) = k BY <2>3
  <2>5. Raster(Index(<<0, 0, k - 1>>, cols, n), cols, n) = <<0, 0, k - 1>>
    <3>1. cols \in Nat OBVIOUS
    <3> QED BY <2>2, <3>1, RasterOfIndex
  <2> QED BY <2>4, <2>5
<1> QED BY <1>3, <1>4

-----------------------------------------------------------------------------
(* What a step of the encoder is made of: hop1, the table, the prediction. *)

(* The two variables adapt_hop1 keeps for a channel.                       *)
HopState == [hop1 : MIN_HOP1 .. MAX_HOP1, decrease_if_small_hop : BOOLEAN]

(* A channel starts with a legal hop1.                                     *)
LEMMA NewHop1State == NewHop1 \in HopState
BY DEF NewHop1, HopState, INIT_HOP1, MIN_HOP1, MAX_HOP1

(* adapt_hop1 keeps hop1 within its bounds.                                *)
LEMMA AdaptState ==
  ASSUME NEW hop, NEW h \in HopState
  PROVE  adapt_hop1(hop, h) \in HopState
<1>1. h.hop1 \in 4 .. 10 /\ h.decrease_if_small_hop \in BOOLEAN
  BY DEF HopState, MIN_HOP1, MAX_HOP1
<1>2. [h EXCEPT !.decrease_if_small_hop = TRUE] \in HopState BY DEF HopState
<1>3. h.hop1 > 4 => h.hop1 - 1 \in 4 .. 10 BY <1>1
<1> QED BY <1>1, <1>2, <1>3 DEF adapt_hop1, HopState, MIN_HOP1, MAX_HOP1

(* The smallest of a set of at most ten numbers (no induction is needed).  *)
LEMMA SmallMin ==
  ASSUME NEW S, S \subseteq 0 .. 9, S # {}
  PROVE  Min(S) \in S /\ \A k \in S : Min(S) <= k
<1>1. \E m \in S : \A k \in S : m <= k
  <2>1. CASE 0 \in S BY <2>1
  <2>2. CASE 0 \notin S /\ 1 \in S BY <2>2
  <2>3. CASE S \cap {0, 1} = {} /\ 2 \in S BY <2>3
  <2>4. CASE S \cap {0, 1, 2} = {} /\ 3 \in S BY <2>4
  <2>5. CASE S \cap {0, 1, 2, 3} = {} /\ 4 \in S BY <2>5
  <2>6. CASE S \cap {0, 1, 2, 3, 4} = {} /\ 5 \in S BY <2>6
  <2>7. CASE S \cap {0, 1, 2, 3, 4, 5} = {} /\ 6 \in S BY <2>7
  <2>8. CASE S \cap {0, 1, 2, 3, 4, 5, 6} = {} /\ 7 \in S BY <2>8
  <2>9. CASE S \cap {0, 1, 2, 3, 4, 5, 6, 7} = {} /\ 8 \in S BY <2>9
  <2>10. CASE S \cap {0, 1, 2, 3, 4, 5, 6, 7, 8} = {} /\ 9 \in S BY <2>10
  <2>11. PICK k \in S : TRUE OBVIOUS
  <2>12. k \in {0, 1, 2, 3, 4, 5, 6, 7, 8, 9} BY <2>11
  <2> QED BY <2>1, <2>2, <2>3, <2>4, <2>5, <2>6, <2>7, <2>8, <2>9, <2>10, <2>12
<1> QED BY <1>1 DEF Min

(* What choose_quant_value chooses is a hop.                               *)
LEMMA HopChosen ==
  ASSUME NEW p, NEW pixel, NEW h1
  PROVE  choose_quant_value(p, pixel, h1) \in Hops
<1> DEFINE A == {k \in 0 .. 3 : pixel <= RangeAbove(p, h1, k)} \cup {4}
           B == {k \in 1 .. 3 : pixel >= RangeBelow(p, h1, k)} \cup {4}
<1>1. A \subseteq 0 .. 4 /\ B \subseteq 0 .. 4 /\ A # {} /\ B # {} OBVIOUS
<1>2. Min(A) \in 0 .. 4 /\ Min(B) \in 0 .. 4
  <2>1. A \subseteq 0 .. 9 /\ B \subseteq 0 .. 9 BY <1>1
  <2> HIDE DEF A, B
  <2> QED BY <1>1, <2>1, SmallMin
<1>3. choose_quant_value(p, pixel, h1) = IF pixel >= RangeBelow(p, h1, 0) THEN Min(A) ELSE - Min(B)
  BY DEF choose_quant_value
<1> HIDE DEF A, B
<1> QED BY <1>2, <1>3 DEF Hops

(* A hop leads to a byte, and to the same one in the encoder and in the    *)
(* decoder.                                                                *)
LEMMA ValueIsByte ==
  ASSUME NEW p \in Byte, NEW h1 \in MIN_HOP1 .. MAX_HOP1, NEW hop \in Hops
  PROVE  Value(p, h1, hop) \in Byte /\ Value(p, h1, hop) = Hops2Value(hop, p, h1)
BY TableAssumption DEF Value, Hops2Value

(* A value predicted right needs no hop, and is kept: hop 0 is chosen for  *)
(* it.                                                                     *)
LEMMA NoHopNeeded ==
  ASSUME NEW p \in Byte, NEW h1 \in MIN_HOP1 .. MAX_HOP1
  PROVE  choose_quant_value(p, p, h1) = 0 /\ Value(p, h1, 0) = p
<1> DEFINE a == Value(p, h1, -1)  b == Value(p, h1, 1)
<1>1. -1 \in Hops \ {0} /\ 1 \in Hops \ {0} /\ -1 < 0 /\ ~ 1 < 0 BY DEF Hops
<1>2. a \in Byte /\ b \in Byte /\ a <= p /\ b >= p
  <2>1. a = QuantValue(p, h1, -1) /\ b = QuantValue(p, h1, 1) BY DEF Value
  <2> HIDE DEF a, b
  <2> QED BY <1>1, <2>1, TableAssumption
<1>3. Value(p, h1, 0) = p BY DEF Value
<1>4. 0 + 1 = 1 /\ -(0) = 0
  <2>1. \A k \in Int : k + k = k => -k = k BY SMT
  <2>2. 0 \in Int /\ 0 + 0 = 0 BY SMT
  <2>3. -(0) = 0 BY <2>1, <2>2, Zenon
  <2> QED BY <2>3
<1>5. RangeBelow(p, h1, 0) = (p + a + 1) \div 2
  <2>1. RangeBelow(p, h1, 0) = (Value(p, h1, -(0)) + Value(p, h1, -(0 + 1)) + 1) \div 2
    BY DEF RangeBelow
  <2> QED BY <2>1, <1>3, <1>4
<1>6. RangeAbove(p, h1, 0) = (p + b) \div 2 BY <1>3, <1>4 DEF RangeAbove
<1>7. p >= RangeBelow(p, h1, 0) /\ p <= RangeAbove(p, h1, 0)
  <2> HIDE DEF a, b
  <2> QED BY <1>2, <1>5, <1>6 DEF Byte
<1> DEFINE A == {k \in 0 .. 3 : p <= RangeAbove(p, h1, k)} \cup {4}
<1>8. 0 \in A /\ A \subseteq 0 .. 9 /\ A # {} BY <1>7
<1>9. Min(A) \in Nat /\ Min(A) <= 0
  <2> HIDE DEF A
  <2>1. Min(A) \in A /\ \A k \in A : Min(A) <= k BY <1>8, SmallMin
  <2> DEFINE m == Min(A)
  <2>2. m \in 0 .. 9 /\ m <= 0 BY <1>8, <2>1
  <2> HIDE DEF m
  <2>3. m \in Nat /\ m <= 0 BY <2>2
  <2> QED BY <2>3 DEF m
<1>10. choose_quant_value(p, p, h1) = Min(A) BY <1>7 DEF choose_quant_value
<1> HIDE DEF A
<1> QED BY <1>3, <1>9, <1>10

(* A prediction is a pixel or the mean of two.                             *)
Average(img, a, b) == IF a = b THEN img[a] ELSE (img[a] + img[b]) \div 2

(* What a prediction may look at: coded values of the same channel that    *)
(* come earlier.                                                           *)
IsSource(a, at, rows, cols, mode) ==
  /\ a \in Pixels(rows, cols, Channels(mode)) /\ Coded(mode, a[1], a[2], a[3]) /\ a[3] = at[3]
  /\ Index(a, cols, Channels(mode)) < Index(at, cols, Channels(mode))

(* A value to the left or in a row above comes earlier.                    *)
LEMMA EarlierIndex ==
  ASSUME NEW cols \in Nat, NEW n \in {1, 3}, NEW r \in Nat, NEW c \in Nat, NEW h \in 0 .. n - 1,
         NEW s \in Nat, NEW d \in Nat,
         (s = r /\ d < c) \/ (s < r /\ d < cols)
  PROVE  Index(<<s, d, h>>, cols, n) < Index(<<r, c, h>>, cols, n)
<1> DEFINE i == s * cols + d  j == r * cols + c
<1>1. r * cols \in Nat /\ s * cols \in Nat BY SMT
<1>2. i \in Nat /\ j \in Nat /\ i < j
  <2>1. CASE s = r /\ d < c
    <3> DEFINE z == r * cols
    <3> HIDE DEF z
    <3>1. z \in Nat BY <1>1 DEF z
    <3>2. z + d \in Nat /\ z + c \in Nat /\ z + d < z + c BY <3>1, <2>1
    <3> QED BY <3>2, <2>1 DEF z
  <2>2. CASE s < r /\ d < cols
    <3>1. d \in 0 .. cols - 1 BY <2>2
    <3>2. s * cols + d \in Nat /\ s * cols + d < r * cols BY <2>2, <3>1, LessProduct
    <3> DEFINE z == r * cols  w == s * cols
    <3> HIDE DEF z, w
    <3>3. z \in Nat /\ w \in Nat /\ w + d \in Nat /\ w + d < z BY <3>2, <1>1 DEF z, w
    <3>4. w + d < z + c /\ z + c \in Nat BY <3>3
    <3> QED BY <3>3, <3>4 DEF z, w
  <2> QED BY <2>1, <2>2
<1>3. Index(<<s, d, h>>, cols, n) = i * n + h + 1 /\ Index(<<r, c, h>>, cols, n) = j * n + h + 1
  BY DEF Index
<1>4. i * n + h + 1 < j * n + h + 1
  <2> HIDE DEF i, j
  <2> QED BY <1>2
<1> QED BY <1>3, <1>4

(* lhe_prediction looks at such values only, whatever the mode and the     *)
(* place: at the first and last column and in the first row it takes       *)
(* others than elsewhere, and none that is not coded or still to come.     *)
LEMMA PredictionSources ==
  ASSUME NEW rows \in Nat, NEW cols \in Nat, cols % 2 = 0, NEW mode \in ChromaModes,
         NEW at \in Pixels(rows, cols, Channels(mode)), Coded(mode, at[1], at[2], at[3]),
         ~ (at[1] = 0 /\ at[2] = 0)
  PROVE  \E a, b : /\ IsSource(a, at, rows, cols, mode) /\ IsSource(b, at, rows, cols, mode)
                   /\ \A img : lhe_prediction(img, cols, at[1], at[2], at[3], mode)
                      = Average(img, a, b)
<1> DEFINE n == Channels(mode)  r == at[1]  c == at[2]  h == at[3]
           x == JumpX(mode, h)  y == JumpY(mode, h)
<1>1. n \in {1, 3} BY ChannelsOf
<1>2. at = <<r, c, h>> /\ r \in 0 .. rows - 1 /\ c \in 0 .. cols - 1 /\ h \in 0 .. n - 1
  <2>1. at \in Pixels(rows, cols, n) OBVIOUS
  <2> HIDE DEF n
  <2> QED BY <1>1, <2>1, PixelAt
<1>3. x \in {1, 2} /\ y \in {1, 2} BY <1>2, JumpValues
<1>4. r % y = 0 /\ c % x = 0 BY DEF Coded
<1>5. cols % x = 0
  <2> HIDE DEF x
  <2> QED BY <1>3
<1>6. c # 0 => c >= x /\ (c - x) % x = 0
  <2> HIDE DEF x, c
  <2> QED BY <1>2, <1>3, <1>4
<1>7. r # 0 => r >= y /\ (r - y) % y = 0
  <2> HIDE DEF y, r
  <2> QED BY <1>2, <1>3, <1>4
<1>8. c # cols - x => c + x < cols /\ (c + x) % x = 0
  <2> HIDE DEF x, c
  <2> QED BY <1>2, <1>3, <1>4, <1>5
<1> DEFINE Good(s, d) == IsSource(<<s, d, h>>, at, rows, cols, mode)
<1>9. ASSUME NEW s \in Nat, NEW d \in Nat, s < rows, d < cols, s % y = 0, d % x = 0,
             (s = r /\ d < c) \/ (s < r /\ d < cols)
      PROVE  Good(s, d)
  <2>1. <<s, d, h>> \in Pixels(rows, cols, n)
    <3>1. s \in 0 .. rows - 1 /\ d \in 0 .. cols - 1 BY <1>9
    <3> HIDE DEF h, n
    <3> QED BY <3>1, <1>2 DEF Pixels
  <2>2. Coded(mode, s, d, h) BY <1>9 DEF Coded
  <2>3. Index(<<s, d, h>>, cols, n) < Index(<<r, c, h>>, cols, n)
    <3>1. r \in Nat /\ c \in Nat BY <1>2
    <3> HIDE DEF r, c, h, n
    <3> QED BY <3>1, <1>1, <1>2, <1>9, EarlierIndex
  <2> QED BY <2>1, <2>2, <2>3, <1>2 DEF IsSource
<1>10. c # 0 => Good(r, c - x)
  <2> SUFFICES ASSUME c # 0 PROVE Good(r, c - x) OBVIOUS
  <2>1. r \in Nat /\ c - x \in Nat /\ r < rows /\ c - x < cols /\ c - x < c
    <3> HIDE DEF r, c, x
    <3> QED BY <1>2, <1>3, <1>6
  <2> HIDE DEF Good, r, c, x, y
  <2> QED BY <2>1, <1>4, <1>6, <1>9
<1>11. r # 0 => \A d \in Nat : d < cols /\ d % x = 0 => Good(r - y, d)
  <2> SUFFICES ASSUME r # 0, NEW d \in Nat, d < cols, d % x = 0 PROVE Good(r - y, d) OBVIOUS
  <2>1. r - y \in Nat /\ r - y < rows /\ r - y < r
    <3> HIDE DEF r, y
    <3> QED BY <1>2, <1>3, <1>7
  <2> HIDE DEF Good, r, c, x, y
  <2> QED BY <2>1, <1>4, <1>7, <1>9
<1>12. c \in Nat /\ c < cols /\ cols > 0 /\ 0 % x = 0
  <2> HIDE DEF c, x
  <2> QED BY <1>2, <1>3
<1> DEFINE Pred(img) == lhe_prediction(img, cols, r, c, h, mode)
<1>13. CASE r = 0
  <2>1. c # 0 BY <1>13
  <2>2. \A img : Pred(img) = Average(img, <<r, c - x, h>>, <<r, c - x, h>>)
    BY <1>13 DEF lhe_prediction, Average
  <2> HIDE DEF x
  <2> QED BY <2>1, <2>2, <1>10
<1>14. CASE r # 0 /\ c = 0
  <2>1. \A img : Pred(img) = Average(img, <<r - y, 0, h>>, <<r - y, 0, h>>)
    BY <1>14 DEF lhe_prediction, Average
  <2>2. Good(r - y, 0)
    <3> HIDE DEF Good, y, x
    <3> QED BY <1>11, <1>12, <1>14
  <2> HIDE DEF y
  <2> QED BY <2>1, <2>2
<1>15. CASE r # 0 /\ c # 0 /\ c = cols - x
  <2>1. <<r, c - x, h>> # <<r - y, c, h>>
    <3> HIDE DEF y, r, x, c
    <3>1. r # r - y BY <1>2, <1>3
    <3> QED BY <3>1
  <2>2. \A img : Pred(img) = Average(img, <<r, c - x, h>>, <<r - y, c, h>>)
    BY <1>15, <2>1 DEF lhe_prediction, Average
  <2>3. Good(r - y, c)
    <3> HIDE DEF Good, y, x
    <3> QED BY <1>4, <1>11, <1>12, <1>15
  <2> HIDE DEF y, x
  <2> QED BY <2>2, <2>3, <1>10, <1>15
<1>16. CASE r # 0 /\ c # 0 /\ c # cols - x
  <2>1. <<r, c - x, h>> # <<r - y, c + x, h>>
    <3> HIDE DEF y, r, x, c
    <3>1. r # r - y BY <1>2, <1>3
    <3> QED BY <3>1
  <2>2. \A img : Pred(img) = Average(img, <<r, c - x, h>>, <<r - y, c + x, h>>)
    BY <1>16, <2>1 DEF lhe_prediction, Average
  <2>3. Good(r - y, c + x)
    <3>1. c + x \in Nat
      <4> HIDE DEF c, x
      <4> QED BY <1>12, <1>3
    <3> HIDE DEF Good, y, x
    <3> QED BY <3>1, <1>8, <1>11, <1>16
  <2> HIDE DEF y, x
  <2> QED BY <2>2, <2>3, <1>10, <1>16
<1> QED BY <1>13, <1>14, <1>15, <1>16

-----------------------------------------------------------------------------
(* The encoder, value by value (LHEquantizer).                             *)

(* The blocks lhe_encoder makes: their width is even.                      *)
IsBlock(rows, cols, mode) ==
  rows \in Nat \ {0} /\ cols \in Nat \ {0} /\ cols % 2 = 0 /\ mode \in ChromaModes

(* The number of values of a block.                                        *)
Last(rows, cols, mode) == rows * cols * Channels(mode)

(* The k-th of them.                                                       *)
At(k, cols, mode) == Raster(k, cols, Channels(mode))

(* A block of one colour.                                                  *)
IsPlain(src, rows, cols, mode) ==
  \A at \in Pixels(rows, cols, Channels(mode)) : src[at] = src[<<0, 0, at[3]>>]

(* The states of LHEquantizer.                                             *)
EncStates(rows, cols, mode) ==
  [img : [Pixels(rows, cols, Channels(mode)) -> Byte \cup {Unset}], out : Seq(Int),
   h : [0 .. Channels(mode) - 1 -> HopState]]

(* The first k values with a symbol.                                       *)
Visited(at, k, cols, mode) ==
  Index(at, cols, Channels(mode)) <= k /\ Coded(mode, at[1], at[2], at[3])

(* The image predictions are made from, after k values: bytes where values *)
(* have a symbol, and in a block of one colour that colour.                *)
ImgSoFar(img, k, src, rows, cols, mode) ==
  \A at \in Pixels(rows, cols, Channels(mode)) :
    IF Visited(at, k, cols, mode)
    THEN img[at] \in Byte /\ (IsPlain(src, rows, cols, mode) => img[at] = src[at])
    ELSE img[at] = Unset

(* The symbols after k values: as many as counted, bytes for the first     *)
(* pixel and hops behind.                                                  *)
OutSoFar(out, k, cols, mode) ==
  /\ Len(out) = Count(k, cols, mode)
  /\ \A i \in 1 .. Len(out) : out[i] \in IF i <= Channels(mode) THEN Byte ELSE Hops
  /\ (k <= Channels(mode) => Len(out) = k)
  /\ (k >= Channels(mode) => Len(out) >= Channels(mode))

(* The states LHEquantizer may be in after k values.                       *)
Encoded(k, src, rows, cols, mode) ==
  {e \in EncStates(rows, cols, mode) :
     ImgSoFar(e.img, k, src, rows, cols, mode) /\ OutSoFar(e.out, k, cols, mode)}

(* What Append does.                                                       *)
LEMMA Appended ==
  ASSUME NEW T, NEW s \in Seq(T), NEW v \in T
  PROVE  /\ Append(s, v) \in Seq(T) /\ Len(Append(s, v)) = Len(s) + 1
         /\ \A i \in 1 .. Len(s) : Append(s, v)[i] = s[i]
         /\ Append(s, v)[Len(s) + 1] = v
OBVIOUS

(* What is known of the k-th value.                                        *)
IsAt(at, k, rows, cols, mode) ==
  /\ at = At(k, cols, mode) /\ k \in 1 .. Last(rows, cols, mode)
  /\ at \in Pixels(rows, cols, Channels(mode)) /\ Index(at, cols, Channels(mode)) = k
  /\ at = <<at[1], at[2], at[3]>>
  /\ at[1] \in 0 .. rows - 1 /\ at[2] \in 0 .. cols - 1 /\ at[3] \in 0 .. Channels(mode) - 1

(* ... of every value of a block.                                          *)
LEMMA AtFacts ==
  ASSUME NEW rows, NEW cols, NEW mode, IsBlock(rows, cols, mode),
         NEW k \in 1 .. Last(rows, cols, mode), NEW at, at = At(k, cols, mode)
  PROVE  IsAt(at, k, rows, cols, mode)
<1> USE DEF Last, At, IsAt, IsBlock
<1>1. Channels(mode) \in {1, 3} BY ChannelsOf
<1> DEFINE n == Channels(mode)
<1>2. n \in {1, 3} /\ k \in 1 .. rows * cols * n /\ at = Raster(k, cols, n) BY <1>1
<1>3. rows \in Nat /\ cols \in Nat OBVIOUS
<1>4. at \in Pixels(rows, cols, n) /\ Index(at, cols, n) = k
  <2> HIDE DEF n
  <2> QED BY <1>2, <1>3, IndexOfRaster
<1>5. at = <<at[1], at[2], at[3]>> /\ at[1] \in 0 .. rows - 1 /\ at[2] \in 0 .. cols - 1
      /\ at[3] \in 0 .. n - 1
  <2> HIDE DEF n
  <2> QED BY <1>2, <1>3, <1>4, PixelAt
<1> QED BY <1>2, <1>4, <1>5

(* Every value has its place, every place its value.                       *)
LEMMA OtherPixel ==
  ASSUME NEW rows, NEW cols, NEW mode, IsBlock(rows, cols, mode),
         NEW k, NEW at, IsAt(at, k, rows, cols, mode),
         NEW p \in Pixels(rows, cols, Channels(mode))
  PROVE  /\ Index(p, cols, Channels(mode)) \in 1 .. Last(rows, cols, mode)
         /\ (Index(p, cols, Channels(mode)) = k <=> p = at)
<1> DEFINE n == Channels(mode)
<1>1. n \in {1, 3} BY ChannelsOf
<1>2. rows \in Nat /\ cols \in Nat BY DEF IsBlock
<1>3. Index(p, cols, n) \in 1 .. rows * cols * n /\ Raster(Index(p, cols, n), cols, n) = p
  <2>1. p \in Pixels(rows, cols, n) OBVIOUS
  <2> HIDE DEF n
  <2> QED BY <1>1, <1>2, <2>1, RasterOfIndex
<1> QED BY <1>3 DEF IsAt, At, Last

(* One value more is visited by a step, if it has a symbol.                *)
LEMMA VisitedStep ==
  ASSUME NEW rows, NEW cols, NEW mode, IsBlock(rows, cols, mode),
         NEW k, NEW at, IsAt(at, k, rows, cols, mode),
         NEW p \in Pixels(rows, cols, Channels(mode))
  PROVE  /\ (p # at => (Visited(p, k, cols, mode) <=> Visited(p, k - 1, cols, mode)))
         /\ (Visited(at, k, cols, mode) <=> Coded(mode, at[1], at[2], at[3]))
         /\ ~ Visited(at, k - 1, cols, mode)
<1> DEFINE i == Index(p, cols, Channels(mode))
<1>1. i \in Int /\ (i = k <=> p = at) BY OtherPixel
<1>2. k \in Int /\ Index(at, cols, Channels(mode)) = k BY DEF IsAt
<1>3. k <= k /\ ~ k <= k - 1 BY <1>2
<1>4. Visited(p, k, cols, mode) <=> i <= k /\ Coded(mode, p[1], p[2], p[3]) BY DEF Visited
<1>5. Visited(p, k - 1, cols, mode) <=> i <= k - 1 /\ Coded(mode, p[1], p[2], p[3]) BY DEF Visited
<1>6. p # at => (i <= k <=> i <= k - 1)
  <2> HIDE DEF i
  <2> QED BY <1>1, <1>2
<1> QED BY <1>2, <1>3, <1>4, <1>5, <1>6 DEF Visited

(* A step that writes its own value only, and rightly, extends the image.  *)
LEMMA ImgStep ==
  ASSUME NEW src, NEW rows, NEW cols, NEW mode, IsBlock(rows, cols, mode),
         NEW k, NEW at, IsAt(at, k, rows, cols, mode),
         NEW img, ImgSoFar(img, k - 1, src, rows, cols, mode), NEW to,
         \A p \in Pixels(rows, cols, Channels(mode)) : p # at => to[p] = img[p],
         IF Coded(mode, at[1], at[2], at[3])
         THEN to[at] \in Byte /\ (IsPlain(src, rows, cols, mode) => to[at] = src[at])
         ELSE to[at] = img[at]
  PROVE  ImgSoFar(to, k, src, rows, cols, mode)
<1> SUFFICES ASSUME NEW p \in Pixels(rows, cols, Channels(mode))
             PROVE  IF Visited(p, k, cols, mode)
                    THEN to[p] \in Byte /\ (IsPlain(src, rows, cols, mode) => to[p] = src[p])
                    ELSE to[p] = Unset
  BY DEF ImgSoFar
<1>1. at \in Pixels(rows, cols, Channels(mode)) BY DEF IsAt
<1>2. \A a \in Pixels(rows, cols, Channels(mode)) :
        IF Visited(a, k - 1, cols, mode)
        THEN img[a] \in Byte /\ (IsPlain(src, rows, cols, mode) => img[a] = src[a])
        ELSE img[a] = Unset
  BY DEF ImgSoFar
<1>3. CASE p = at BY <1>1, <1>2, <1>3, VisitedStep
<1>4. CASE p # at BY <1>2, <1>4, VisitedStep
<1> QED BY <1>3, <1>4

(* A step that appends its symbol, if it has one, extends the symbols.     *)
LEMMA OutStep ==
  ASSUME NEW rows, NEW cols, NEW mode, IsBlock(rows, cols, mode),
         NEW k, NEW at, IsAt(at, k, rows, cols, mode),
         NEW out \in Seq(Int), OutSoFar(out, k - 1, cols, mode), NEW v \in Int,
         v \in IF at[1] = 0 /\ at[2] = 0 THEN Byte ELSE Hops
  PROVE  /\ (Coded(mode, at[1], at[2], at[3]) => OutSoFar(Append(out, v), k, cols, mode))
         /\ (~ Coded(mode, at[1], at[2], at[3]) => OutSoFar(out, k, cols, mode))
<1> DEFINE n == Channels(mode)  to == Append(out, v)  C == Coded(mode, at[1], at[2], at[3])
<1>1. n \in {1, 3} BY ChannelsOf
<1>2. at[1] \in Nat /\ at[2] \in Nat /\ at[3] \in Nat /\ k \in Nat /\ k # 0 BY DEF IsAt, Last
<1>3. (k <= n => at[1] = 0 /\ at[2] = 0) /\ (at[1] = 0 /\ at[2] = 0 => k <= n)
  <2>1. rows \in Nat /\ cols \in Nat \ {0} /\ k \in 1 .. rows * cols * n /\ at = Raster(k, cols, n)
    BY DEF IsBlock, IsAt, At, Last
  <2>2. \A a : a = Raster(k, cols, n) =>
               (k <= n => a = <<0, 0, k - 1>>) /\ (a[1] = 0 /\ a[2] = 0 => k <= n)
    <3>1. rows \in Nat /\ cols \in Nat \ {0} /\ k \in 1 .. rows * cols * n BY <2>1
    <3> HIDE DEF n
    <3> QED BY <1>1, <3>1, FirstPixel
  <2> HIDE DEF n
  <2> QED BY <2>1, <2>2
<1>4. /\ Count(k - 1, cols, mode) \in Nat
      /\ Count(k, cols, mode) = Count(k - 1, cols, mode) + (IF C THEN 1 ELSE 0)
  <2>1. k \in 1 .. rows * cols * Channels(mode) /\ at = Raster(k, cols, Channels(mode))
    BY DEF IsAt, At, Last
  <2> QED BY <2>1, Counting DEF IsBlock
<1>5. at[1] = 0 /\ at[2] = 0 => C BY <1>2, CodedAt
<1>6. /\ to \in Seq(Int) /\ Len(to) = Len(out) + 1 /\ \A i \in 1 .. Len(out) : to[i] = out[i]
      /\ to[Len(out) + 1] = v
  BY Appended
<1>7. /\ Len(out) = Count(k - 1, cols, mode)
      /\ \A i \in 1 .. Len(out) : out[i] \in IF i <= n THEN Byte ELSE Hops
      /\ (k - 1 <= n => Len(out) = k - 1)
      /\ (k - 1 >= n => Len(out) >= n)
  BY DEF OutSoFar
<1>8. Len(out) \in Nat OBVIOUS
<1>9. ASSUME C PROVE OutSoFar(to, k, cols, mode)
  <2>1. Len(to) = Count(k, cols, mode)
    <3> HIDE DEF to, C
    <3> QED BY <1>4, <1>6, <1>7, <1>9
  <2>2. (k <= n => Len(to) = k) /\ (k >= n => Len(to) >= n)
    <3> HIDE DEF to, C, n
    <3> QED BY <1>1, <1>2, <1>6, <1>7, <1>8
  <2>3. v \in IF Len(out) + 1 <= n THEN Byte ELSE Hops
    <3>1. CASE k <= n BY <3>1, <1>3, <1>7, <1>2, <1>1
    <3>2. CASE ~ k <= n BY <3>2, <1>3, <1>7, <1>2, <1>1, <1>8
    <3> QED BY <3>1, <3>2
  <2>4. \A i \in 1 .. Len(to) : to[i] \in IF i <= n THEN Byte ELSE Hops
    <3> TAKE i \in 1 .. Len(to)
    <3>1. i = Len(out) + 1 \/ i \in 1 .. Len(out)
      <4> HIDE DEF to
      <4> QED BY <1>6, <1>8
    <3> HIDE DEF to
    <3> QED BY <3>1, <1>6, <1>7, <2>3
  <2> HIDE DEF to
  <2> QED BY <2>1, <2>2, <2>4 DEF OutSoFar
<1>10. ASSUME ~ C PROVE OutSoFar(out, k, cols, mode)
  <2>1. Len(out) = Count(k, cols, mode)
    <3> HIDE DEF to, C
    <3> QED BY <1>4, <1>7, <1>10
  <2>2. ~ k <= n BY <1>3, <1>5, <1>10
  <2>3. k - 1 >= n
    <3> HIDE DEF n
    <3> QED BY <1>1, <1>2, <2>2
  <2> QED BY <2>1, <2>2, <2>3, <1>7 DEF OutSoFar
<1> QED BY <1>9, <1>10

(* The start of a row and the adaptation keep hop1 legal.                  *)
LEMMA RowStartState ==
  ASSUME NEW n, NEW h \in [0 .. n - 1 -> HopState], NEW col, NEW chn \in 0 .. n - 1
  PROVE  /\ RowStart(h, col, chn) \in [0 .. n - 1 -> HopState]
         /\ \A hop : [RowStart(h, col, chn) EXCEPT ![chn] = adapt_hop1(hop, @)]
                        \in [0 .. n - 1 -> HopState]
<1> DEFINE s == RowStart(h, col, chn)
<1>1. s \in [0 .. n - 1 -> HopState] BY NewHop1State DEF RowStart
<1>2. ASSUME NEW hop PROVE [s EXCEPT ![chn] = adapt_hop1(hop, @)] \in [0 .. n - 1 -> HopState]
  <2> HIDE DEF s
  <2>1. s[chn] \in HopState BY <1>1
  <2>2. adapt_hop1(hop, s[chn]) \in HopState BY <2>1, AdaptState
  <2> QED BY <1>1, <2>2
<1> QED BY <1>1, <1>2

(* The place of a value is one of the places.                              *)
LEMMA IndexInt ==
  ASSUME NEW rows, NEW cols, NEW mode, IsBlock(rows, cols, mode),
         NEW p \in Pixels(rows, cols, Channels(mode))
  PROVE  Index(p, cols, Channels(mode)) \in 1 .. Last(rows, cols, mode)
<1> DEFINE n == Channels(mode)
<1>1. n \in {1, 3} /\ rows \in Nat /\ cols \in Nat BY ChannelsOf DEF IsBlock
<1>2. p \in Pixels(rows, cols, n) OBVIOUS
<1>3. Index(p, cols, n) \in 1 .. rows * cols * n
  <2> HIDE DEF n
  <2> QED BY <1>1, <1>2, RasterOfIndex
<1> QED BY <1>3 DEF Last

(* The values that are predicted: coded, and not of the first pixel.       *)
NeedsHop(at, mode) == Coded(mode, at[1], at[2], at[3]) /\ ~ (at[1] = 0 /\ at[2] = 0)

(* The prediction for a value, from an image.                              *)
Predicted(img, at, cols, mode) == lhe_prediction(img, cols, at[1], at[2], at[3], mode)

(* The prediction of a value is a byte, and right in a block of one        *)
(* colour: what it looks at has been written before.                       *)
LEMMA Prediction ==
  ASSUME NEW src, NEW rows, NEW cols, NEW mode, NEW k, NEW at, NEW img,
         IsBlock(rows, cols, mode), IsAt(at, k, rows, cols, mode), NeedsHop(at, mode),
         ImgSoFar(img, k - 1, src, rows, cols, mode)
  PROVE  /\ Predicted(img, at, cols, mode) \in Byte
         /\ (IsPlain(src, rows, cols, mode) => Predicted(img, at, cols, mode) = src[at])
<1>1. at \in Pixels(rows, cols, Channels(mode)) /\ Index(at, cols, Channels(mode)) = k /\ k \in Nat
  BY DEF IsAt, Last
<1>2. PICK a, b : /\ IsSource(a, at, rows, cols, mode) /\ IsSource(b, at, rows, cols, mode)
                  /\ \A i : lhe_prediction(i, cols, at[1], at[2], at[3], mode) = Average(i, a, b)
  BY <1>1, PredictionSources DEF IsBlock, NeedsHop
<1>3. Predicted(img, at, cols, mode) = Average(img, a, b) BY <1>2 DEF Predicted
<1>4. ASSUME NEW s, IsSource(s, at, rows, cols, mode)
      PROVE  img[s] \in Byte /\ (IsPlain(src, rows, cols, mode) => img[s] = src[at])
  <2>1. s \in Pixels(rows, cols, Channels(mode)) /\ Coded(mode, s[1], s[2], s[3]) /\ s[3] = at[3]
        /\ Index(s, cols, Channels(mode)) < k
    BY <1>1, <1>4 DEF IsSource
  <2>2. Index(s, cols, Channels(mode)) <= k - 1 BY <1>1, <2>1, IndexInt
  <2>3. Visited(s, k - 1, cols, mode) BY <2>1, <2>2 DEF Visited
  <2>4. img[s] \in Byte /\ (IsPlain(src, rows, cols, mode) => img[s] = src[s])
    BY <2>1, <2>3 DEF ImgSoFar
  <2>5. IsPlain(src, rows, cols, mode) => src[s] = src[<<0, 0, s[3]>>]
        /\ src[at] = src[<<0, 0, at[3]>>]
    BY <1>1, <2>1 DEF IsPlain
  <2> QED BY <2>1, <2>4, <2>5
<1>5. \A u, v \in Byte : (u + v) \div 2 \in Byte /\ (u + u) \div 2 = u BY DEF Byte
<1>6. img[a] \in Byte /\ img[b] \in Byte BY <1>2, <1>4
<1>7. Average(img, a, b) \in Byte BY <1>5, <1>6 DEF Average
<1>8. ASSUME IsPlain(src, rows, cols, mode) PROVE Average(img, a, b) = src[at]
  <2>1. img[a] = src[at] /\ img[b] = src[at] BY <1>2, <1>4, <1>8
  <2> QED BY <1>5, <1>6, <2>1 DEF Average
<1> QED BY <1>3, <1>7, <1>8

(* A state of LHEquantizer, from its parts.                                *)
LEMMA MakeEncoded ==
  ASSUME NEW rows, NEW cols, NEW mode, NEW src, NEW k,
         NEW i \in [Pixels(rows, cols, Channels(mode)) -> Byte \cup {Unset}], NEW o \in Seq(Int),
         NEW s \in [0 .. Channels(mode) - 1 -> HopState],
         ImgSoFar(i, k, src, rows, cols, mode), OutSoFar(o, k, cols, mode),
         NEW to, to = [img |-> i, out |-> o, h |-> s]
  PROVE  to \in Encoded(k, src, rows, cols, mode)
BY DEF Encoded, EncStates

(* One turn of LHEquantizer's loops leads to the states after one value    *)
(* more.                                                                   *)
LEMMA QuantizeStep ==
  ASSUME NEW rows, NEW cols, NEW mode, IsBlock(rows, cols, mode),
         NEW src \in [Pixels(rows, cols, Channels(mode)) -> Byte],
         NEW k, NEW at, IsAt(at, k, rows, cols, mode),
         NEW e \in Encoded(k - 1, src, rows, cols, mode)
  PROVE  QuantizePixel(src, cols, mode, e, at) \in Encoded(k, src, rows, cols, mode)
<1> DEFINE n == Channels(mode)  r == at[1]  c == at[2]  ch == at[3]
           P == Pixels(rows, cols, n)
           h == RowStart(e.h, c, ch)
           p == Predicted(e.img, at, cols, mode)
           hop == choose_quant_value(p, src[at], h[ch].hop1)
           v == Value(p, h[ch].hop1, hop)
           C == Coded(mode, r, c, ch)
           to == QuantizePixel(src, cols, mode, e, at)
<1>1. /\ e = [img |-> e.img, out |-> e.out, h |-> e.h]
      /\ e.img \in [P -> Byte \cup {Unset}] /\ e.out \in Seq(Int)
      /\ e.h \in [0 .. n - 1 -> HopState]
      /\ ImgSoFar(e.img, k - 1, src, rows, cols, mode) /\ OutSoFar(e.out, k - 1, cols, mode)
  BY DEF Encoded, EncStates
<1>2. at \in P /\ ch \in 0 .. n - 1 /\ src[at] \in Byte BY DEF IsAt
<1>3. /\ h \in [0 .. n - 1 -> HopState] /\ h[ch] \in HopState
      /\ [h EXCEPT ![ch] = adapt_hop1(hop, @)] \in [0 .. n - 1 -> HopState]
  <2>1. /\ h \in [0 .. n - 1 -> HopState]
        /\ \A x : [h EXCEPT ![ch] = adapt_hop1(x, @)] \in [0 .. n - 1 -> HopState]
    <3> HIDE DEF n, c, ch
    <3> QED BY <1>1, <1>2, RowStartState
  <2>2. h[ch] \in HopState
    <3> HIDE DEF h, ch, n
    <3> QED BY <2>1, <1>2
  <2> HIDE DEF h
  <2> QED BY <2>1, <2>2
<1>4. h[ch].hop1 \in MIN_HOP1 .. MAX_HOP1 BY <1>3 DEF HopState
<1>5. hop \in Hops BY HopChosen
<1>6. to = IF r = 0 /\ c = 0
           THEN [img |-> [e.img EXCEPT ![at] = src[at]], out |-> Append(e.out, src[at]), h |-> h]
           ELSE IF ~ C THEN [e EXCEPT !.h = h]
           ELSE [img |-> [e.img EXCEPT ![at] = v], out |-> Append(e.out, hop),
                 h   |-> [h EXCEPT ![ch] = adapt_hop1(hop, @)]]
  BY DEF QuantizePixel, Predicted
<1> HIDE DEF n, r, c, ch, h, hop, v, C, to, p
<1> SUFFICES to \in Encoded(k, src, rows, cols, mode) BY DEF to
<1>7. Byte \subseteq Int /\ Hops \subseteq Int BY DEF Byte, Hops
<1>8. \A x \in Byte : [e.img EXCEPT ![at] = x] \in [P -> Byte \cup {Unset}]
                      /\ [e.img EXCEPT ![at] = x][at] = x
                      /\ \A q \in P : q # at => [e.img EXCEPT ![at] = x][q] = e.img[q]
  BY <1>1, <1>2
<1>10. CASE r = 0 /\ c = 0
  <2> DEFINE i == [e.img EXCEPT ![at] = src[at]]  o == Append(e.out, src[at])
  <2>1. to = [img |-> i, out |-> o, h |-> h] BY <1>6, <1>10
  <2>2. C BY <1>10, <1>2, CodedAt, ChannelsOf DEF C, n, r, c
  <2>3. i \in [P -> Byte \cup {Unset}] /\ i[at] = src[at] /\ \A q \in P : q # at => i[q] = e.img[q]
    BY <1>2, <1>8
  <2>4. o \in Seq(Int) BY <1>1, <1>2, <1>7
  <2>5. ImgSoFar(i, k, src, rows, cols, mode)
    <3> HIDE DEF i
    <3> QED BY <1>1, <1>2, <2>2, <2>3, ImgStep DEF C, r, c, ch, n
  <2>6. OutSoFar(o, k, cols, mode) BY <1>1, <1>2, <1>7, <1>10, <2>2, OutStep DEF C, r, c, ch
  <2> HIDE DEF i, o
  <2> QED BY <2>1, <2>3, <2>4, <2>5, <2>6, <1>3, MakeEncoded DEF P, n
<1>11. CASE ~ (r = 0 /\ c = 0) /\ ~ C
  <2>1. to = [img |-> e.img, out |-> e.out, h |-> h] BY <1>1, <1>6, <1>11
  <2>2. ImgSoFar(e.img, k, src, rows, cols, mode) BY <1>1, <1>11, ImgStep DEF C, r, c, ch, n
  <2>3. OutSoFar(e.out, k, cols, mode)
    <3>1. 0 \in Int /\ 0 \in Hops BY DEF Hops
    <3> QED BY <3>1, <1>1, <1>11, OutStep DEF C, r, c, ch
  <2> QED BY <2>1, <2>2, <2>3, <1>1, <1>3, MakeEncoded DEF P, n
<1>12. CASE ~ (r = 0 /\ c = 0) /\ C
  <2> DEFINE i == [e.img EXCEPT ![at] = v]  o == Append(e.out, hop)
             g == [h EXCEPT ![ch] = adapt_hop1(hop, @)]
  <2>1. to = [img |-> i, out |-> o, h |-> g] BY <1>6, <1>12
  <2>2. p \in Byte /\ (IsPlain(src, rows, cols, mode) => p = src[at])
    <3>1. NeedsHop(at, mode) BY <1>12 DEF NeedsHop, C, r, c, ch
    <3>2. Predicted(e.img, at, cols, mode) \in Byte
          /\ (IsPlain(src, rows, cols, mode) => Predicted(e.img, at, cols, mode) = src[at])
      BY <1>1, <3>1, Prediction
    <3> QED BY <3>2 DEF p
  <2>3. v \in Byte BY <2>2, <1>4, <1>5, ValueIsByte DEF v
  <2>4. IsPlain(src, rows, cols, mode) => v = src[at]
    BY <2>2, <1>4, NoHopNeeded DEF v, hop
  <2>5. i \in [P -> Byte \cup {Unset}] /\ i[at] = v /\ \A q \in P : q # at => i[q] = e.img[q]
    BY <2>3, <1>8
  <2>6. o \in Seq(Int) BY <1>1, <1>5, <1>7
  <2>7. ImgSoFar(i, k, src, rows, cols, mode)
    <3> HIDE DEF i
    <3> QED BY <1>1, <1>12, <2>3, <2>4, <2>5, ImgStep DEF C, r, c, ch, n
  <2>8. OutSoFar(o, k, cols, mode) BY <1>1, <1>5, <1>7, <1>12, OutStep DEF C, r, c, ch
  <2>9. g \in [0 .. n - 1 -> HopState] BY <1>3
  <2> HIDE DEF i, o, g
  <2> QED BY <2>1, <2>5, <2>6, <2>7, <2>8, <2>9, MakeEncoded DEF P, n
<1> QED BY <1>10, <1>11, <1>12 DEF to

(* LHEquantizer's variables at the start.                                  *)
EncStart(rows, cols, mode) ==
  [img |-> [at \in Pixels(rows, cols, Channels(mode)) |-> Unset], out |-> <<>>,
   h |-> [c \in 0 .. Channels(mode) - 1 |-> NewHop1]]

(* The states LHEquantizer goes through, to its result.                    *)
EncRun(E, src, rows, cols, mode) ==
  /\ E[0] = EncStart(rows, cols, mode)
  /\ \A k \in 1 .. Last(rows, cols, mode) :
       E[k] = QuantizePixel(src, cols, mode, E[k - 1], At(k, cols, mode))
  /\ \A k \in 0 .. Last(rows, cols, mode) : E[k] \in Encoded(k, src, rows, cols, mode)
  /\ E[Last(rows, cols, mode)] = LHEquantizer(src, rows, cols, Channels(mode), mode)

(* A block has values.                                                     *)
LEMMA LastNat ==
  ASSUME NEW rows, NEW cols, NEW mode, IsBlock(rows, cols, mode)
  PROVE  Last(rows, cols, mode) \in Nat /\ Last(rows, cols, mode) > 0
<1>1. rows \in Nat \ {0} /\ cols \in Nat \ {0} BY DEF IsBlock
<1>2. rows * cols \in Nat \ {0} BY <1>1
<1> DEFINE m == rows * cols
<1>3. Channels(mode) \in {1, 3} BY ChannelsOf
<1> HIDE DEF m
<1>4. m * Channels(mode) \in Nat /\ m * Channels(mode) > 0 BY <1>2, <1>3 DEF m
<1> QED BY <1>4 DEF m, Last

(* The start is a state after no value.                                    *)
LEMMA EncStarts ==
  ASSUME NEW rows, NEW cols, NEW mode, NEW src, IsBlock(rows, cols, mode)
  PROVE  EncStart(rows, cols, mode) \in Encoded(0, src, rows, cols, mode)
<1> DEFINE n == Channels(mode)
           i == [at \in Pixels(rows, cols, n) |-> Unset]
           s == [c \in 0 .. n - 1 |-> NewHop1]
<1>1. i \in [Pixels(rows, cols, n) -> Byte \cup {Unset}] OBVIOUS
<1>2. s \in [0 .. n - 1 -> HopState] BY NewHop1State
<1>3. ImgSoFar(i, 0, src, rows, cols, mode)
  <2> SUFFICES ASSUME NEW p \in Pixels(rows, cols, n) PROVE ~ Visited(p, 0, cols, mode)
    BY DEF ImgSoFar
  <2>1. Index(p, cols, n) \in 1 .. Last(rows, cols, mode) BY IndexInt
  <2>2. ~ Index(p, cols, n) <= 0 BY <2>1
  <2> QED BY <2>2 DEF Visited
<1>4. Count(0, cols, mode) = 0
  <2>1. rows \in Nat /\ cols \in Nat \ {0} /\ cols % 2 = 0 /\ mode \in ChromaModes BY DEF IsBlock
  <2> QED BY <2>1, Counting
<1>5. OutSoFar(<<>>, 0, cols, mode)
  <2>1. Len(<<>>) = 0 /\ 1 .. 0 = {} /\ ~ 0 >= 1 /\ ~ 0 >= 3 OBVIOUS
  <2>2. n \in {1, 3} BY ChannelsOf
  <2> QED BY <1>4, <2>1, <2>2 DEF OutSoFar
<1>6. <<>> \in Seq(Int) OBVIOUS
<1> HIDE DEF i, s
<1> QED BY <1>1, <1>2, <1>3, <1>5, <1>6, MakeEncoded DEF EncStart, i, s

(* LHEquantizer has such a run on every block.                             *)
LEMMA EncoderRuns ==
  ASSUME NEW rows, NEW cols, NEW mode, NEW src, IsBlock(rows, cols, mode),
         src \in [Pixels(rows, cols, Channels(mode)) -> Byte]
  PROVE  \E E : EncRun(E, src, rows, cols, mode)
<1> DEFINE n == Channels(mode)  N == Last(rows, cols, mode)  base == EncStart(rows, cols, mode)
           Q(e, k) == QuantizePixel(src, cols, mode, e, At(k, cols, mode))
           f == CHOOSE f : f = [k \in 0 .. N |-> IF k = 0 THEN base ELSE Q(f[k - 1], k)]
           T == [k \in 0 .. N |-> Encoded(k, src, rows, cols, mode)]
           step == [x \in EncStates(rows, cols, mode) \X (1 .. N) |-> Q(x[1], x[2])]
<1>1. LHEquantizer(src, rows, cols, n, mode) = f[N]
  BY DEF LHEquantizer, Loop, Last, At, EncStart
<1>2. N \in Nat BY LastNat
<1>3. \A k \in 1 .. N : k - 1 \in 0 .. N /\ k \in 0 .. N /\ k # 0 BY <1>2
<1>4. \A k \in 0 .. N : k # 0 => k \in 1 .. N BY <1>2
<1>5. 0 \in 0 .. N /\ N \in 0 .. N BY <1>2
<1>6. base \in T[0]
  <2> HIDE DEF N
  <2> QED BY <1>5, EncStarts
<1>7. \A k \in 1 .. N : \A e \in Encoded(k - 1, src, rows, cols, mode) :
        e \in EncStates(rows, cols, mode) /\ Q(e, k) \in Encoded(k, src, rows, cols, mode)
  <2> TAKE k \in 1 .. N
  <2> TAKE e \in Encoded(k - 1, src, rows, cols, mode)
  <2>1. IsAt(At(k, cols, mode), k, rows, cols, mode) BY AtFacts
  <2>2. Q(e, k) \in Encoded(k, src, rows, cols, mode) BY <2>1, QuantizeStep
  <2> QED BY <2>2 DEF Encoded
<1>8. \A k \in 1 .. N : \A e \in T[k - 1] : step[<<e, k>>] \in T[k] /\ step[<<e, k>>] = Q(e, k)
  <2> TAKE k \in 1 .. N
  <2> TAKE e \in T[k - 1]
  <2>1. T[k - 1] = Encoded(k - 1, src, rows, cols, mode) /\ T[k] = Encoded(k, src, rows, cols, mode)
    BY <1>3
  <2>2. e \in EncStates(rows, cols, mode) /\ Q(e, k) \in Encoded(k, src, rows, cols, mode)
    BY <1>7, <2>1
  <2>3. <<e, k>> \in EncStates(rows, cols, mode) \X (1 .. N) BY <2>2
  <2>4. step[<<e, k>>] = Q(e, k)
    <3> HIDE DEF N
    <3> QED BY <2>3
  <2> HIDE DEF step, Q, T
  <2> QED BY <2>1, <2>2, <2>4
<1>9. PICK g : IsRun(g, N, T, base, step)
  <2> HIDE DEF T, step, N, base
  <2>1. Steps(N, T, base, step) BY <1>2, <1>6, <1>8 DEF Steps
  <2> QED BY <2>1, Recursion
<1> DEFINE q == [k \in 0 .. N |-> g[k]]
<1>10. \A k \in 1 .. N : g[k] = Q(g[k - 1], k)
  <2> HIDE DEF T, step, Q, N, base
  <2> QED BY <1>3, <1>8, <1>9 DEF IsRun
<1>11. q = [k \in 0 .. N |-> IF k = 0 THEN base ELSE Q(q[k - 1], k)]
  <2>1. g[0] = base BY <1>9 DEF IsRun
  <2> HIDE DEF Q, N, base
  <2> QED BY <1>3, <1>4, <1>10, <2>1
<1>12. f = [k \in 0 .. N |-> IF k = 0 THEN base ELSE Q(f[k - 1], k)]
  <2> HIDE DEF q, Q, N, base
  <2> QED BY <1>11
<1> HIDE DEF f
<1>13. f[0] = base /\ \A k \in 1 .. N : f[k] = Q(f[k - 1], k)
  <2> HIDE DEF Q, N, base
  <2> QED BY <1>3, <1>5, <1>12
<1>14. \A k \in 0 .. N : f[k] \in T[k]
  <2> DEFINE S == {k \in 0 .. N : f[k] \in T[k]}
  <2>1. 0 \in S BY <1>5, <1>6, <1>13
  <2>2. \A k \in 1 .. N : k - 1 \in S => k \in S
    <3> HIDE DEF T, Q, step, N
    <3> QED BY <1>3, <1>8, <1>13
  <2>3. \A k \in 0 .. N : k \in S
    <3> HIDE DEF S, N
    <3> QED BY <1>2, <2>1, <2>2, UpTo
  <2> QED BY <2>3
<1>15. EncRun(f, src, rows, cols, mode)
  <2>1. \A k \in 0 .. N : f[k] \in Encoded(k, src, rows, cols, mode) BY <1>14
  <2> QED BY <1>1, <1>13, <2>1 DEF EncRun
<1> QED BY <1>15

(* A step writes no pixel but its own, and only adds to the symbols.       *)
Keeps(e, to, at, rows, cols, mode) ==
  /\ \A p \in Pixels(rows, cols, Channels(mode)) : p # at => to.img[p] = e.img[p]
  /\ Len(to.out) >= Len(e.out)
  /\ \A i \in 1 .. Len(e.out) : to.out[i] = e.out[i]

(* That is so of every step of LHEquantizer.                               *)
LEMMA QuantizeKeeps ==
  ASSUME NEW rows, NEW cols, NEW mode, NEW src, NEW at, NEW e,
         IsBlock(rows, cols, mode), e \in EncStates(rows, cols, mode),
         src \in [Pixels(rows, cols, Channels(mode)) -> Byte],
         at \in Pixels(rows, cols, Channels(mode))
  PROVE  Keeps(e, QuantizePixel(src, cols, mode, e, at), at, rows, cols, mode)
<1> DEFINE P == Pixels(rows, cols, Channels(mode))  to == QuantizePixel(src, cols, mode, e, at)
<1>1. e.img \in [P -> Byte \cup {Unset}] /\ e.out \in Seq(Int) BY DEF EncStates
<1>2. /\ to.img = e.img \/ \E x : to.img = [e.img EXCEPT ![at] = x]
      /\ to.out = e.out \/ \E v \in Int : to.out = Append(e.out, v)
  <2> DEFINE h == RowStart(e.h, at[2], at[3])
             p == lhe_prediction(e.img, cols, at[1], at[2], at[3], mode)
             hop == choose_quant_value(p, src[at], h[at[3]].hop1)
             v == Value(p, h[at[3]].hop1, hop)
             g == [h EXCEPT ![at[3]] = adapt_hop1(hop, @)]
  <2>1. hop \in Int /\ src[at] \in Int BY HopChosen DEF Hops, Byte
  <2>2. to = IF at[1] = 0 /\ at[2] = 0
           THEN [img |-> [e.img EXCEPT ![at] = src[at]], out |-> Append(e.out, src[at]), h |-> h]
           ELSE IF ~ Coded(mode, at[1], at[2], at[3]) THEN [e EXCEPT !.h = h]
           ELSE [img |-> [e.img EXCEPT ![at] = v], out |-> Append(e.out, hop), h |-> g]
    BY DEF QuantizePixel
  <2>3. e = [img |-> e.img, out |-> e.out, h |-> e.h] BY DEF EncStates
  <2> HIDE DEF to, h, p, hop, v, g
  <2> QED BY <2>1, <2>2, <2>3
<1>3. \A x : \A p \in P : p # at => [e.img EXCEPT ![at] = x][p] = e.img[p] BY <1>1
<1>4. \A v \in Int : Len(Append(e.out, v)) >= Len(e.out)
      /\ \A i \in 1 .. Len(e.out) : Append(e.out, v)[i] = e.out[i]
  BY <1>1
<1>5. Len(e.out) >= Len(e.out) BY <1>1
<1> HIDE DEF to, P
<1>6. \A p \in P : p # at => to.img[p] = e.img[p] BY <1>2, <1>3
<1>7. Len(to.out) >= Len(e.out) /\ \A i \in 1 .. Len(e.out) : to.out[i] = e.out[i]
  BY <1>2, <1>4, <1>5
<1> QED BY <1>6, <1>7 DEF Keeps, P, to

(* What is there after k values is there at the end.                       *)
KeptTo(e, z, k, rows, cols, mode) ==
  /\ \A p \in Pixels(rows, cols, Channels(mode)) :
       Index(p, cols, Channels(mode)) <= k => z.img[p] = e.img[p]
  /\ Len(z.out) >= Len(e.out)
  /\ \A i \in 1 .. Len(e.out) : z.out[i] = e.out[i]

(* That is so of a run: the decoder may look at the end of it.             *)
LEMMA EncoderKeeps ==
  ASSUME NEW rows, NEW cols, NEW mode, NEW src, NEW E, NEW k, IsBlock(rows, cols, mode),
         src \in [Pixels(rows, cols, Channels(mode)) -> Byte],
         EncRun(E, src, rows, cols, mode), k \in 0 .. Last(rows, cols, mode)
  PROVE  KeptTo(E[k], E[Last(rows, cols, mode)], k, rows, cols, mode)
<1> DEFINE N == Last(rows, cols, mode)
           S == {m \in 0 .. N : m >= k => KeptTo(E[k], E[m], k, rows, cols, mode)}
<1>1. N \in Nat BY LastNat
<1>2. \A m \in 0 .. N : E[m] \in EncStates(rows, cols, mode) /\ Len(E[m].out) \in Nat
  <2> TAKE m \in 0 .. N
  <2>1. E[m] \in EncStates(rows, cols, mode) BY DEF EncRun, Encoded
  <2>2. E[m].out \in Seq(Int) BY <2>1 DEF EncStates
  <2> QED BY <2>1, <2>2
<1>3. KeptTo(E[k], E[k], k, rows, cols, mode)
  <2>1. Len(E[k].out) >= Len(E[k].out) BY <1>2
  <2> QED BY <2>1 DEF KeptTo
<1>4. 0 \in S
  <2>1. 0 >= k => k = 0 BY <1>1
  <2>2. 0 \in 0 .. N BY <1>1
  <2> QED BY <1>3, <2>1, <2>2
<1>5. ASSUME NEW m \in 1 .. N, m - 1 \in S PROVE m \in S
  <2>1. m \in 0 .. N /\ m - 1 \in 0 .. N BY <1>1
  <2>2. CASE ~ m >= k BY <2>1, <2>2
  <2>3. CASE m = k BY <2>1, <2>3, <1>3
  <2>4. CASE m >= k /\ m # k
    <3>1. m - 1 >= k /\ k <= m - 1 BY <2>1, <2>4
    <3>2. KeptTo(E[k], E[m - 1], k, rows, cols, mode) BY <3>1, <1>5
    <3> DEFINE at == At(m, cols, mode)
    <3>3. IsAt(at, m, rows, cols, mode) BY AtFacts
    <3>4. E[m] = QuantizePixel(src, cols, mode, E[m - 1], at) BY DEF EncRun
    <3>5. at \in Pixels(rows, cols, Channels(mode)) /\ Index(at, cols, Channels(mode)) = m
      BY <3>3 DEF IsAt
    <3>6. E[m - 1] \in EncStates(rows, cols, mode) BY <1>2, <2>1
    <3> HIDE DEF at
    <3>7. Keeps(E[m - 1], E[m], at, rows, cols, mode)
      BY <3>4, <3>5, <3>6, QuantizeKeeps
    <3>8. \A p \in Pixels(rows, cols, Channels(mode)) :
            Index(p, cols, Channels(mode)) <= k => p # at
      BY <3>1, <3>5, <2>1
    <3>9. KeptTo(E[k], E[m], k, rows, cols, mode)
      <4> DEFINE a == Len(E[k].out)  b == Len(E[m - 1].out)  c == Len(E[m].out)
      <4>1. a \in Nat /\ b \in Nat /\ c \in Nat BY <1>2, <2>1
      <4>2. b >= a /\ c >= b BY <3>2, <3>7 DEF KeptTo, Keeps
      <4>3. c >= a /\ 1 .. a \subseteq 1 .. b
        <5> HIDE DEF a, b, c
        <5> QED BY <4>1, <4>2
      <4>4. \A i \in 1 .. a : E[m].out[i] = E[k].out[i]
        BY <4>3, <3>2, <3>7 DEF KeptTo, Keeps
      <4>5. \A p \in Pixels(rows, cols, Channels(mode)) :
              Index(p, cols, Channels(mode)) <= k => E[m].img[p] = E[k].img[p]
        BY <3>2, <3>7, <3>8 DEF KeptTo, Keeps
      <4> QED BY <4>3, <4>4, <4>5 DEF KeptTo
    <3> QED BY <2>1, <3>9
  <2> QED BY <2>2, <2>3, <2>4
<1>6. \A m \in 0 .. N : m \in S
  <2> HIDE DEF S, N
  <2> QED BY <1>1, <1>4, <1>5, UpTo
<1>7. N \in 0 .. N /\ N >= k BY <1>1
<1> QED BY <1>6, <1>7

-----------------------------------------------------------------------------
(* The decoder, value by value (LHE_dequant), in step with the encoder.    *)

(* The value with a symbol that a value is shown with: itself, or for      *)
(* decimated chroma the one to the left and above.                         *)
KeptAt(at, mode) ==
  <<at[1] - (at[1] % JumpY(mode, at[3])), at[2] - (at[2] % JumpX(mode, at[3])), at[3]>>

(* That value has a symbol, and comes earlier than the one it stands for.  *)
LEMMA KeptFacts ==
  ASSUME NEW rows, NEW cols, NEW mode, NEW k, NEW at, IsBlock(rows, cols, mode),
         IsAt(at, k, rows, cols, mode)
  PROVE  /\ KeptAt(at, mode) \in Pixels(rows, cols, Channels(mode))
         /\ Coded(mode, KeptAt(at, mode)[1], KeptAt(at, mode)[2], KeptAt(at, mode)[3])
         /\ KeptAt(KeptAt(at, mode), mode) = KeptAt(at, mode)
         /\ (Coded(mode, at[1], at[2], at[3]) => KeptAt(at, mode) = at)
         /\ (~ Coded(mode, at[1], at[2], at[3]) => Index(KeptAt(at, mode), cols,
            Channels(mode)) < k)
<1> DEFINE n == Channels(mode)  r == at[1]  c == at[2]  h == at[3]
           x == JumpX(mode, h)  y == JumpY(mode, h)  s == r - (r % y)  d == c - (c % x)
           to == <<s, d, h>>
<1>1. n \in {1, 3} BY ChannelsOf
<1>2. at = <<r, c, h>> /\ r \in 0 .. rows - 1 /\ c \in 0 .. cols - 1 /\ h \in 0 .. n - 1
      /\ Index(at, cols, n) = k /\ at \in Pixels(rows, cols, n) BY DEF IsAt
<1>3. h \in Nat BY <1>1, <1>2
<1>4. x \in {1, 2} /\ y \in {1, 2}
  <2> HIDE DEF h
  <2> QED BY <1>3, JumpValues
<1>5. /\ s \in 0 .. rows - 1 /\ d \in 0 .. cols - 1 /\ s % y = 0 /\ d % x = 0
      /\ s <= r /\ d <= c /\ (r % y = 0 => s = r) /\ (c % x = 0 => d = c)
      /\ (r % y # 0 => s < r) /\ (c % x # 0 => d < c)
      /\ s - (s % y) = s /\ d - (d % x) = d /\ s \in Nat /\ d \in Nat /\ r \in Nat /\ c \in Nat
  <2>0. rows \in Nat /\ cols \in Nat BY DEF IsBlock
  <2>1. s \in 0 .. rows - 1 /\ s % y = 0 /\ s <= r /\ (r % y = 0 => s = r) /\ (r % y # 0 => s < r)
        /\ s \in Nat /\ r \in Nat
    <3> HIDE DEF r, y
    <3> QED BY <1>2, <1>4, <2>0
  <2>2. d \in 0 .. cols - 1 /\ d % x = 0 /\ d <= c /\ (c % x = 0 => d = c) /\ (c % x # 0 => d < c)
        /\ d \in Nat /\ c \in Nat
    <3> HIDE DEF c, x
    <3> QED BY <1>2, <1>4, <2>0
  <2>3. s - (s % y) = s
    <3> HIDE DEF s, y
    <3> QED BY <2>1
  <2>4. d - (d % x) = d
    <3> HIDE DEF d, x
    <3> QED BY <2>2
  <2> HIDE DEF s, d, r, c, x, y
  <2> QED BY <2>1, <2>2, <2>3, <2>4
<1>6. KeptAt(at, mode) = to BY DEF KeptAt
<1>7. to \in Pixels(rows, cols, n)
  <2> HIDE DEF s, d, h, n
  <2> QED BY <1>2, <1>5 DEF Pixels
<1>8. Coded(mode, s, d, h)
  <2> HIDE DEF s, d
  <2> QED BY <1>5 DEF Coded
<1>9. KeptAt(to, mode) = to
  <2>1. KeptAt(to, mode) = <<s - (s % y), d - (d % x), h>>
    <3> HIDE DEF s, d, h
    <3> QED BY DEF KeptAt
  <2> HIDE DEF s, d, h
  <2> QED BY <1>5, <2>1
<1>10. Coded(mode, r, c, h) <=> r % y = 0 /\ c % x = 0 BY DEF Coded
<1>11. Coded(mode, r, c, h) => to = at
  <2> HIDE DEF s, d, r, c, h
  <2> QED BY <1>2, <1>5, <1>10
<1>12. ~ Coded(mode, r, c, h) => Index(to, cols, n) < k
  <2> SUFFICES ASSUME ~ Coded(mode, r, c, h) PROVE Index(to, cols, n) < k OBVIOUS
  <2>0. cols \in Nat BY DEF IsBlock
  <2>1. (s = r /\ d < c) \/ (s < r /\ d < cols)
    <3> HIDE DEF s, d, r, c, x, y
    <3> QED BY <1>5, <1>10, <1>2, <2>0
  <2> HIDE DEF s, d, r, c, h, x, y, n
  <2>2. Index(<<s, d, h>>, cols, n) < Index(<<r, c, h>>, cols, n)
    BY <2>0, <2>1, <1>1, <1>2, <1>5, EarlierIndex
  <2> QED BY <2>2, <1>2
<1> QED BY <1>6, <1>7, <1>8, <1>9, <1>11, <1>12

(* The states of LHE_dequant.                                              *)
DecStates(rows, cols, mode, ni) ==
  [img : [Pixels(rows, cols, ni) -> Byte], h : [0 .. Channels(mode) - 1 -> HopState], src_idx : Nat]

(* The decoder's image after k values: what the encoder kept, and behind   *)
(* that what was there before.                                             *)
ImgRestored(img, k, img0, z, rows, cols, mode, ni) ==
  \A p \in Pixels(rows, cols, ni) :
    img[p] = IF p \in Pixels(rows, cols, Channels(mode)) /\ Index(p, cols, Channels(mode)) <= k
             THEN z.img[KeptAt(p, mode)] ELSE img0[p]

(* The states LHE_dequant may be in after k values: hop1 and the place in  *)
(* the symbols are those of the encoder at the same value.                 *)
Decoded(k, img0, E, rows, cols, mode, ni) ==
  {d \in DecStates(rows, cols, mode, ni) :
     /\ d.h = E[k].h /\ d.src_idx = Len(E[k].out) + 1
     /\ ImgRestored(d.img, k, img0, E[Last(rows, cols, mode)], rows, cols, mode, ni)}

(* The block of the image lhe_decode_core writes to, which may have more   *)
(* channels than the block was coded with.                                 *)
IsImage(img0, rows, cols, mode, ni) ==
  ni \in {1, 3} /\ Channels(mode) <= ni /\ img0 \in [Pixels(rows, cols, ni) -> Byte]

(* The values of a block without chroma are values of a block with.        *)
LEMMA SubPixels ==
  ASSUME NEW rows, NEW cols, NEW mode, NEW ni, NEW img0, IsImage(img0, rows, cols, mode, ni)
  PROVE  Pixels(rows, cols, Channels(mode)) \subseteq Pixels(rows, cols, ni)
<1>1. Channels(mode) \in {1, 3} /\ ni \in {1, 3} /\ Channels(mode) <= ni BY ChannelsOf DEF IsImage
<1>2. 0 .. Channels(mode) - 1 \subseteq 0 .. ni - 1 BY <1>1
<1> QED BY <1>2 DEF Pixels

(* A step that writes what the encoder kept extends the image.             *)
LEMMA RestoreStep ==
  ASSUME NEW rows, NEW cols, NEW mode, NEW ni, NEW k, NEW at, NEW img0, NEW z, NEW img, NEW v,
         IsBlock(rows, cols, mode), IsImage(img0, rows, cols, mode, ni),
         IsAt(at, k, rows, cols, mode),
         img \in [Pixels(rows, cols, ni) -> Byte],
         ImgRestored(img, k - 1, img0, z, rows, cols, mode, ni),
         v = z.img[KeptAt(at, mode)]
  PROVE  ImgRestored([img EXCEPT ![at] = v], k, img0, z, rows, cols, mode, ni)
<1> SUFFICES ASSUME NEW p \in Pixels(rows, cols, ni)
             PROVE  [img EXCEPT ![at] = v][p] =
                      IF p \in Pixels(rows, cols, Channels(mode)) /\ Index(p, cols,
                        Channels(mode)) <= k
                      THEN z.img[KeptAt(p, mode)] ELSE img0[p]
  BY DEF ImgRestored
<1>1. at \in Pixels(rows, cols, Channels(mode)) /\ at \in Pixels(rows, cols, ni)
      /\ Index(at, cols, Channels(mode)) = k /\ k \in Int
  BY SubPixels DEF IsAt
<1>2. CASE p = at
  <2>1. k <= k BY <1>1
  <2> QED BY <1>1, <1>2, <2>1
<1>3. CASE p # at
  <2>1. [img EXCEPT ![at] = v][p] = img[p] BY <1>3
  <2>2. p \in Pixels(rows, cols, Channels(mode)) =>
          (Index(p, cols, Channels(mode)) <= k <=> Index(p, cols, Channels(mode)) <= k - 1)
    <3> SUFFICES ASSUME p \in Pixels(rows, cols, Channels(mode))
                 PROVE Index(p, cols, Channels(mode)) <= k
                       <=> Index(p, cols, Channels(mode)) <= k - 1
      OBVIOUS
    <3> DEFINE i == Index(p, cols, Channels(mode))
    <3>1. i \in 1 .. Last(rows, cols, mode) /\ i # k BY <1>3, OtherPixel
    <3> HIDE DEF i
    <3>2. i <= k <=> i <= k - 1 BY <3>1, <1>1
    <3> QED BY <3>2 DEF i
  <2>3. img[p] =
          IF p \in Pixels(rows, cols, Channels(mode)) /\ Index(p, cols, Channels(mode)) <= k - 1
                 THEN z.img[KeptAt(p, mode)] ELSE img0[p]
    BY DEF ImgRestored
  <2> QED BY <2>1, <2>2, <2>3
<1> QED BY <1>2, <1>3

(* What the encoder's next step adds, in the three cases of its loop.      *)
Quantized(e, to, at, mode, h, p, hop) ==
  /\ (at[1] = 0 /\ at[2] = 0 =>
        to.h = h /\ Len(to.out) = Len(e.out) + 1 /\ to.out[Len(e.out) + 1] = to.img[at])
  /\ (~ Coded(mode, at[1], at[2], at[3]) => to.h = h /\ Len(to.out) = Len(e.out))
  /\ (NeedsHop(at, mode) =>
        /\ to.h = [h EXCEPT ![at[3]] = adapt_hop1(hop, @)]
        /\ Len(to.out) = Len(e.out) + 1 /\ to.out[Len(e.out) + 1] = hop
        /\ to.img[at] = Value(p, h[at[3]].hop1, hop))

(* QuantizePixel does that.                                                *)
LEMMA QuantizeIs ==
  ASSUME NEW rows, NEW cols, NEW mode, NEW src, NEW e, NEW to, NEW k, NEW at, NEW h, NEW p, NEW hop,
         IsBlock(rows, cols, mode), IsAt(at, k, rows, cols, mode),
         src \in [Pixels(rows, cols, Channels(mode)) -> Byte],
         e \in EncStates(rows, cols, mode), to = QuantizePixel(src, cols, mode, e, at),
         h = RowStart(e.h, at[2], at[3]), p = Predicted(e.img, at, cols, mode),
         hop = choose_quant_value(p, src[at], h[at[3]].hop1)
  PROVE  Quantized(e, to, at, mode, h, p, hop)
<1> DEFINE v == Value(p, h[at[3]].hop1, hop)  g == [h EXCEPT ![at[3]] = adapt_hop1(hop, @)]
<1>1. to = IF at[1] = 0 /\ at[2] = 0
           THEN [img |-> [e.img EXCEPT ![at] = src[at]], out |-> Append(e.out, src[at]), h |-> h]
           ELSE IF ~ Coded(mode, at[1], at[2], at[3]) THEN [e EXCEPT !.h = h]
           ELSE [img |-> [e.img EXCEPT ![at] = v], out |-> Append(e.out, hop), h |-> g]
  BY DEF QuantizePixel, Predicted
<1>2. /\ e = [img |-> e.img, out |-> e.out, h |-> e.h] /\ e.out \in Seq(Int)
      /\ e.img \in [Pixels(rows, cols, Channels(mode)) -> Byte \cup {Unset}]
  BY DEF EncStates
<1>3. at \in Pixels(rows, cols, Channels(mode)) BY DEF IsAt
<1>4. src[at] \in Int /\ hop \in Int BY <1>3, HopChosen DEF Hops, Byte
<1>5. \A x \in Int : Len(Append(e.out, x)) = Len(e.out) + 1 /\ Append(e.out, x)[Len(e.out) + 1] = x
  BY <1>2
<1>6. \A x : [e.img EXCEPT ![at] = x][at] = x BY <1>2, <1>3
<1>7. at[1] = 0 /\ at[2] = 0 => Coded(mode, at[1], at[2], at[3])
  <2>1. at[3] \in Nat BY DEF IsAt
  <2> QED BY <2>1, CodedAt
<1> HIDE DEF v, g
<1>8. ASSUME at[1] = 0, at[2] = 0
      PROVE  to.h = h /\ Len(to.out) = Len(e.out) + 1 /\ to.out[Len(e.out) + 1] = to.img[at]
  <2>1. to = [img |-> [e.img EXCEPT ![at] = src[at]], out |-> Append(e.out, src[at]), h |-> h]
    BY <1>1, <1>8
  <2>2. to.h = h /\ to.out = Append(e.out, src[at]) /\ to.img = [e.img EXCEPT ![at] = src[at]]
    BY <2>1
  <2>3. to.img[at] = src[at] BY <2>2, <1>6
  <2>4. Len(to.out) = Len(e.out) + 1 /\ to.out[Len(e.out) + 1] = src[at] BY <2>2, <1>4, <1>5
  <2> QED BY <2>2, <2>3, <2>4
<1>9. ASSUME ~ Coded(mode, at[1], at[2], at[3]) PROVE to.h = h /\ Len(to.out) = Len(e.out)
  BY <1>1, <1>2, <1>7, <1>9
<1>10. ASSUME NeedsHop(at, mode)
       PROVE  to.h = g /\ Len(to.out) = Len(e.out) + 1 /\ to.out[Len(e.out) + 1] = hop
              /\ to.img[at] = v
  <2>1. to = [img |-> [e.img EXCEPT ![at] = v], out |-> Append(e.out, hop), h |-> g]
    BY <1>1, <1>10 DEF NeedsHop
  <2>2. to.h = g /\ to.out = Append(e.out, hop) /\ to.img = [e.img EXCEPT ![at] = v] BY <2>1
  <2>3. to.img[at] = v BY <2>2, <1>6
  <2>4. Len(to.out) = Len(e.out) + 1 /\ to.out[Len(e.out) + 1] = hop BY <2>2, <1>4, <1>5
  <2> QED BY <2>2, <2>3, <2>4
<1> QED BY <1>8, <1>9, <1>10 DEF v, g, Quantized

(* One value decoded, in the same three cases.                             *)
LEMMA DequantIs ==
  ASSUME NEW rows, NEW cols, NEW mode, NEW ni, NEW symbols, NEW d, NEW to, NEW k, NEW at,
         NEW h, NEW p, NEW hop,
         IsBlock(rows, cols, mode), IsAt(at, k, rows, cols, mode),
         d \in DecStates(rows, cols, mode, ni), at \in Pixels(rows, cols, ni),
         to = DequantPixel(symbols, cols, mode, d, at),
         h = RowStart(d.h, at[2], at[3]), p = Predicted(d.img, at, cols, mode),
         hop = symbols[d.src_idx]
  PROVE  /\ (at[1] = 0 /\ at[2] = 0 =>
               to = [img |-> [d.img EXCEPT ![at] = hop], h |-> h, src_idx |-> d.src_idx + 1])
         /\ (~ Coded(mode, at[1], at[2], at[3]) =>
               to = [img |-> [d.img EXCEPT ![at] = d.img[KeptAt(at, mode)]], h |-> h,
                     src_idx |-> d.src_idx])
         /\ (NeedsHop(at, mode) =>
               to = [img |-> [d.img EXCEPT ![at] = Hops2Value(hop, p, h[at[3]].hop1)],
                     h |-> [h EXCEPT ![at[3]] = adapt_hop1(hop, @)], src_idx |-> d.src_idx + 1])
<1> DEFINE v == Hops2Value(hop, p, h[at[3]].hop1)  g == [h EXCEPT ![at[3]] = adapt_hop1(hop, @)]
           w == d.img[KeptAt(at, mode)]
<1>1. h = IF at[2] = 0 THEN [d.h EXCEPT ![at[3]] = NewHop1] ELSE d.h BY DEF RowStart
<1>2. w = Interpolated(d.img, at[1], at[2], at[3], mode) BY DEF Interpolated, KeptAt
<1>3. to = IF at[1] = 0 /\ at[2] = 0
           THEN [img |-> [d.img EXCEPT ![at] = hop], h |-> h, src_idx |-> d.src_idx + 1]
           ELSE IF ~ Coded(mode, at[1], at[2], at[3])
                THEN [img |-> [d.img EXCEPT ![at] = w], h |-> h, src_idx |-> d.src_idx]
           ELSE [img |-> [d.img EXCEPT ![at] = v], h |-> g, src_idx |-> d.src_idx + 1]
  BY <1>1, <1>2 DEF DequantPixel, Predicted
<1>6. at[1] = 0 /\ at[2] = 0 => Coded(mode, at[1], at[2], at[3])
  <2>1. at[3] \in Nat BY DEF IsAt
  <2> QED BY <2>1, CodedAt
<1> HIDE DEF v, g, w
<1>7. ASSUME at[1] = 0, at[2] = 0
      PROVE  to = [img |-> [d.img EXCEPT ![at] = hop], h |-> h, src_idx |-> d.src_idx + 1]
  BY <1>3, <1>7
<1>8. ASSUME ~ Coded(mode, at[1], at[2], at[3])
      PROVE  to = [img |-> [d.img EXCEPT ![at] = w], h |-> h, src_idx |-> d.src_idx]
  BY <1>3, <1>6, <1>8
<1>9. ASSUME NeedsHop(at, mode)
      PROVE  to = [img |-> [d.img EXCEPT ![at] = v], h |-> g, src_idx |-> d.src_idx + 1]
  BY <1>3, <1>9 DEF NeedsHop
<1> QED BY <1>7, <1>8, <1>9 DEF v, g, w

(* The encoder, half way through, and the decoder predict the same from    *)
(* their two images.                                                       *)
LEMMA SamePrediction ==
  ASSUME NEW rows, NEW cols, NEW mode, NEW ni, NEW k, NEW at, NEW img0, NEW img, NEW e, NEW z,
         IsBlock(rows, cols, mode), IsImage(img0, rows, cols, mode, ni),
         IsAt(at, k, rows, cols, mode), NeedsHop(at, mode),
         ImgRestored(img, k - 1, img0, z, rows, cols, mode, ni),
         KeptTo(e, z, k - 1, rows, cols, mode)
  PROVE  Predicted(img, at, cols, mode) = Predicted(e.img, at, cols, mode)
<1>1. at \in Pixels(rows, cols, Channels(mode)) /\ Index(at, cols, Channels(mode)) = k /\ k \in Nat
  BY DEF IsAt, Last
<1>2. PICK a, b : /\ IsSource(a, at, rows, cols, mode) /\ IsSource(b, at, rows, cols, mode)
                  /\ \A i : lhe_prediction(i, cols, at[1], at[2], at[3], mode) = Average(i, a, b)
  BY <1>1, PredictionSources DEF IsBlock, NeedsHop
<1>3. ASSUME NEW s, IsSource(s, at, rows, cols, mode) PROVE img[s] = e.img[s]
  <2>1. s \in Pixels(rows, cols, Channels(mode)) /\ Coded(mode, s[1], s[2], s[3])
        /\ Index(s, cols, Channels(mode)) < k
    BY <1>1, <1>3 DEF IsSource
  <2> DEFINE i == Index(s, cols, Channels(mode))
  <2>2. i \in 1 .. Last(rows, cols, mode) BY <2>1, IndexInt
  <2>3. i <= k - 1
    <3>1. i < k BY <2>1
    <3> HIDE DEF i
    <3> QED BY <1>1, <2>2, <3>1
  <2>4. s \in Pixels(rows, cols, ni) BY <2>1, SubPixels
  <2>5. img[s] = z.img[KeptAt(s, mode)] BY <2>1, <2>3, <2>4 DEF ImgRestored
  <2>6. IsAt(s, i, rows, cols, mode)
    <3>1. s = At(i, cols, mode)
      <4> DEFINE n == Channels(mode)
      <4>1. n \in {1, 3} /\ rows \in Nat /\ cols \in Nat BY ChannelsOf DEF IsBlock
      <4>2. s \in Pixels(rows, cols, n) BY <2>1
      <4>3. Raster(Index(s, cols, n), cols, n) = s
        <5> HIDE DEF n
        <5> QED BY <4>1, <4>2, RasterOfIndex
      <4> QED BY <4>3 DEF At
    <3> HIDE DEF i
    <3> QED BY <2>2, <3>1, AtFacts
  <2>7. KeptAt(s, mode) = s BY <2>1, <2>6, KeptFacts
  <2>8. z.img[s] = e.img[s] BY <2>1, <2>3 DEF KeptTo
  <2> QED BY <2>5, <2>7, <2>8
<1>4. img[a] = e.img[a] /\ img[b] = e.img[b] BY <1>2, <1>3
<1>5. Predicted(img, at, cols, mode) = Average(img, a, b)
      /\ Predicted(e.img, at, cols, mode) = Average(e.img, a, b)
  BY <1>2 DEF Predicted
<1> QED BY <1>4, <1>5 DEF Average

(* A state of LHE_dequant, from its parts.                                 *)
LEMMA MakeDecoded ==
  ASSUME NEW rows, NEW cols, NEW mode, NEW ni, NEW k, NEW at, NEW img0, NEW E, NEW img, NEW v,
         NEW h, NEW s, NEW to,
         IsBlock(rows, cols, mode), IsImage(img0, rows, cols, mode, ni),
         IsAt(at, k, rows, cols, mode), img \in [Pixels(rows, cols, ni) -> Byte],
         ImgRestored(img, k - 1, img0, E[Last(rows, cols, mode)], rows, cols, mode, ni),
         v \in Byte, v = E[Last(rows, cols, mode)].img[KeptAt(at, mode)],
         h \in [0 .. Channels(mode) - 1 -> HopState], h = E[k].h, s = Len(E[k].out) + 1, s \in Nat,
         to = [img |-> [img EXCEPT ![at] = v], h |-> h, src_idx |-> s]
  PROVE  to \in Decoded(k, img0, E, rows, cols, mode, ni)
<1>1. [img EXCEPT ![at] = v] \in [Pixels(rows, cols, ni) -> Byte] OBVIOUS
<1>2. ImgRestored([img EXCEPT ![at] = v], k, img0, E[Last(rows, cols, mode)], rows, cols, mode, ni)
  BY RestoreStep
<1> DEFINE i == [img EXCEPT ![at] = v]
<1>3. to.img = i /\ to.h = h /\ to.src_idx = s OBVIOUS
<1>4. to \in DecStates(rows, cols, mode, ni)
  <2> HIDE DEF i
  <2> QED BY <1>1 DEF DecStates, i
<1> HIDE DEF i
<1> QED BY <1>2, <1>3, <1>4 DEF Decoded, i

(* One turn of LHE_dequant's loops: encoder and decoder go on in step.     *)
LEMMA DequantStep ==
  ASSUME NEW rows, NEW cols, NEW mode, NEW ni, NEW k, NEW at, NEW src, NEW img0, NEW E, NEW d,
         IsBlock(rows, cols, mode), IsImage(img0, rows, cols, mode, ni),
         src \in [Pixels(rows, cols, Channels(mode)) -> Byte],
         EncRun(E, src, rows, cols, mode), IsAt(at, k, rows, cols, mode),
         d \in Decoded(k - 1, img0, E, rows, cols, mode, ni)
  PROVE  DequantPixel(E[Last(rows, cols, mode)].out, cols, mode, d, at)
           \in Decoded(k, img0, E, rows, cols, mode, ni)
<1> DEFINE N == Last(rows, cols, mode)  z == E[N]  e == E[k - 1]  f == E[k]
           out == E[N].out
           h == RowStart(e.h, at[2], at[3])  p == Predicted(e.img, at, cols, mode)
           hop == choose_quant_value(p, src[at], h[at[3]].hop1)
           g == [h EXCEPT ![at[3]] = adapt_hop1(hop, @)]
           to == DequantPixel(out, cols, mode, d, at)
           P == Pixels(rows, cols, Channels(mode))
           H == [0 .. Channels(mode) - 1 -> HopState]
           kept == KeptAt(at, mode)
<1>1. k \in 1 .. N /\ k - 1 \in 0 .. N /\ k \in 0 .. N /\ N \in 0 .. N /\ N \in Nat
  <2>1. k \in 1 .. N /\ N \in Nat BY LastNat DEF IsAt
  <2> HIDE DEF N
  <2> QED BY <2>1
<1>2. /\ \A m \in 0 .. N : E[m] \in Encoded(m, src, rows, cols, mode)
      /\ f = QuantizePixel(src, cols, mode, e, at)
  BY <1>1 DEF EncRun, IsAt
<1>3. /\ e \in EncStates(rows, cols, mode) /\ f \in EncStates(rows, cols, mode)
      /\ z \in EncStates(rows, cols, mode)
      /\ ImgSoFar(z.img, N, src, rows, cols, mode)
  BY <1>1, <1>2 DEF Encoded
<1>4. e.out \in Seq(Int) /\ f.out \in Seq(Int) /\ f.h \in H /\ e.h \in H BY <1>3 DEF EncStates
<1>5. KeptTo(f, z, k, rows, cols, mode) /\ KeptTo(e, z, k - 1, rows, cols, mode)
  <2> HIDE DEF N
  <2> QED BY <1>1, EncoderKeeps DEF N
<1>6. /\ d \in DecStates(rows, cols, mode, ni) /\ d.h = e.h /\ d.src_idx = Len(e.out) + 1
      /\ ImgRestored(d.img, k - 1, img0, z, rows, cols, mode, ni)
      /\ d.img \in [Pixels(rows, cols, ni) -> Byte]
  BY DEF Decoded, DecStates
<1>7. at \in P /\ Index(at, cols, Channels(mode)) = k /\ at[3] \in 0 .. Channels(mode) - 1
  BY DEF IsAt
<1>8. at \in Pixels(rows, cols, ni) /\ kept \in P /\ kept \in Pixels(rows, cols, ni)
  BY <1>7, SubPixels, KeptFacts
<1>9. z.img[kept] \in Byte
  <2>1. Coded(mode, kept[1], kept[2], kept[3]) BY KeptFacts
  <2>2. Index(kept, cols, Channels(mode)) <= N
    <3>1. Index(kept, cols, Channels(mode)) \in 1 .. N BY <1>8, IndexInt
    <3> HIDE DEF N, kept
    <3> QED BY <3>1, <1>1
  <2> HIDE DEF z, kept
  <2> QED BY <2>1, <2>2, <1>3, <1>8 DEF ImgSoFar, Visited
<1>10. /\ (at[1] = 0 /\ at[2] = 0 =>
               f.h = h /\ Len(f.out) = Len(e.out) + 1 /\ f.out[Len(e.out) + 1] = f.img[at])
       /\ (~ Coded(mode, at[1], at[2], at[3]) => f.h = h /\ Len(f.out) = Len(e.out))
       /\ (NeedsHop(at, mode) =>
               /\ f.h = g /\ Len(f.out) = Len(e.out) + 1 /\ f.out[Len(e.out) + 1] = hop
               /\ f.img[at] = Value(p, h[at[3]].hop1, hop))
  <2>1. h = RowStart(e.h, at[2], at[3]) /\ p = Predicted(e.img, at, cols, mode)
        /\ hop = choose_quant_value(p, src[at], h[at[3]].hop1)
    OBVIOUS
  <2> HIDE DEF e, f, h, p, hop
  <2>2. Quantized(e, f, at, mode, h, p, hop) BY <2>1, <1>2, <1>3, QuantizeIs
  <2> QED BY <2>2 DEF Quantized
<1> DEFINE sym == out[d.src_idx]  q == Predicted(d.img, at, cols, mode)
<1>11. h = RowStart(d.h, at[2], at[3]) BY <1>6
<1>12. /\ (at[1] = 0 /\ at[2] = 0 =>
               to = [img |-> [d.img EXCEPT ![at] = sym], h |-> h, src_idx |-> d.src_idx + 1])
       /\ (~ Coded(mode, at[1], at[2], at[3]) =>
               to = [img |-> [d.img EXCEPT ![at] = d.img[kept]], h |-> h, src_idx |-> d.src_idx])
       /\ (NeedsHop(at, mode) =>
               to = [img |-> [d.img EXCEPT ![at] = Hops2Value(sym, q, h[at[3]].hop1)],
                     h |-> [h EXCEPT ![at[3]] = adapt_hop1(sym, @)], src_idx |-> d.src_idx + 1])
  <2> HIDE DEF h, out
  <2> QED BY <1>6, <1>8, <1>11, DequantIs
<1>13. Len(f.out) = Len(e.out) + 1 => sym = f.out[Len(e.out) + 1]
  <2> SUFFICES ASSUME Len(f.out) = Len(e.out) + 1 PROVE sym = f.out[Len(e.out) + 1] OBVIOUS
  <2>1. Len(e.out) + 1 \in 1 .. Len(f.out)
    <3>1. Len(e.out) \in Nat BY <1>4
    <3> QED BY <3>1
  <2>2. \A i \in 1 .. Len(f.out) : z.out[i] = f.out[i] BY <1>5 DEF KeptTo
  <2> HIDE DEF f, e
  <2> QED BY <2>1, <2>2, <1>6
<1>14. z.img[at] = f.img[at]
  <2>1. k <= k BY <1>1
  <2> HIDE DEF f, z
  <2> QED BY <1>5, <1>7, <2>1 DEF KeptTo
<1>15. Len(e.out) + 1 \in Nat /\ (Len(e.out) + 1) + 1 \in Nat BY <1>4
<1>16. at[1] = 0 /\ at[2] = 0 => Coded(mode, at[1], at[2], at[3])
  <2>1. at[3] \in Nat BY DEF IsAt
  <2> QED BY <2>1, CodedAt
<1>17. Coded(mode, at[1], at[2], at[3]) => kept = at BY KeptFacts
<1>18. ASSUME NEW v, NEW s, NEW hh, v = z.img[kept], hh = f.h, s = Len(f.out) + 1, s \in Nat,
              to = [img |-> [d.img EXCEPT ![at] = v], h |-> hh, src_idx |-> s]
       PROVE  to \in Decoded(k, img0, E, rows, cols, mode, ni)
  <2> HIDE DEF to, kept
  <2>1. hh \in H /\ v \in Byte BY <1>4, <1>9, <1>18
  <2> QED BY <2>1, <1>6, <1>18, MakeDecoded DEF kept
<1> SUFFICES to \in Decoded(k, img0, E, rows, cols, mode, ni) OBVIOUS
<1>19. CASE at[1] = 0 /\ at[2] = 0
  <2>1. Len(f.out) = Len(e.out) + 1 /\ f.h = h /\ sym = f.img[at]
    <3> HIDE DEF f, e, h, sym
    <3> QED BY <1>10, <1>13, <1>19
  <2>2. sym = z.img[kept]
    <3> HIDE DEF f, z, sym, kept
    <3> QED BY <2>1, <1>14, <1>16, <1>17, <1>19
  <2>3. d.src_idx + 1 = Len(f.out) + 1 /\ Len(f.out) + 1 \in Nat
    <3> HIDE DEF f, e
    <3> QED BY <2>1, <1>6, <1>15
  <2> HIDE DEF f, e, z, sym, kept, to, h
  <2>4. to = [img |-> [d.img EXCEPT ![at] = sym], h |-> h, src_idx |-> d.src_idx + 1]
    BY <1>12, <1>19
  <2> QED BY <2>1, <2>2, <2>3, <2>4, <1>18
<1>20. CASE ~ Coded(mode, at[1], at[2], at[3])
  <2>1. Len(f.out) = Len(e.out) /\ f.h = h
    <3> HIDE DEF f, e, h
    <3> QED BY <1>10, <1>20
  <2>2. d.img[kept] = z.img[kept]
    <3>1. Index(kept, cols, Channels(mode)) < k /\ KeptAt(kept, mode) = kept BY <1>20, KeptFacts
    <3>2. Index(kept, cols, Channels(mode)) \in 1 .. N BY <1>8, IndexInt
    <3>3. Index(kept, cols, Channels(mode)) <= k - 1
      <4> DEFINE i == Index(kept, cols, Channels(mode))
      <4>1. i \in Int /\ i < k BY <3>1, <3>2
      <4> HIDE DEF i, N
      <4>2. k \in Int BY <1>1
      <4>3. i <= k - 1 BY <4>1, <4>2
      <4> QED BY <4>3 DEF i
    <3> HIDE DEF kept, z, P
    <3> QED BY <3>1, <3>3, <1>6, <1>8 DEF ImgRestored, P
  <2>3. d.src_idx = Len(f.out) + 1 /\ Len(f.out) + 1 \in Nat
    <3> HIDE DEF f, e
    <3> QED BY <2>1, <1>6, <1>15
  <2> HIDE DEF f, e, z, kept, to, h
  <2>4. to = [img |-> [d.img EXCEPT ![at] = d.img[kept]], h |-> h, src_idx |-> d.src_idx]
    BY <1>12, <1>20
  <2> QED BY <2>1, <2>2, <2>3, <2>4, <1>18
<1>21. CASE NeedsHop(at, mode)
  <2>1. Len(f.out) = Len(e.out) + 1 /\ f.h = g /\ sym = hop
        /\ f.img[at] = Value(p, h[at[3]].hop1, hop)
    <3> HIDE DEF f, e, h, sym, hop, p, g
    <3> QED BY <1>10, <1>13, <1>21
  <2>2. q = p
    <3> HIDE DEF e, z
    <3> QED BY <1>5, <1>6, <1>21, SamePrediction
  <2>3. Hops2Value(sym, q, h[at[3]].hop1) = z.img[kept]
    <3>1. Hops2Value(hop, p, h[at[3]].hop1) = Value(p, h[at[3]].hop1, hop) BY DEF Hops2Value, Value
    <3> HIDE DEF f, z, sym, kept, hop, p, h, q
    <3> QED BY <2>1, <2>2, <3>1, <1>14, <1>17, <1>21 DEF NeedsHop
  <2>4. d.src_idx + 1 = Len(f.out) + 1 /\ Len(f.out) + 1 \in Nat
    <3> HIDE DEF f, e
    <3> QED BY <2>1, <1>6, <1>15
  <2> DEFINE v == Hops2Value(sym, q, h[at[3]].hop1)
  <2>5. [h EXCEPT ![at[3]] = adapt_hop1(sym, @)] = g
    <3> HIDE DEF h, sym, hop
    <3> QED BY <2>1
  <2>6. to = [img |-> [d.img EXCEPT ![at] = v], h |-> g, src_idx |-> d.src_idx + 1]
    <3> HIDE DEF h, sym, to, q, g
    <3> QED BY <1>12, <1>21, <2>5
  <2> HIDE DEF f, e, z, kept, to, h, v, g
  <2> QED BY <2>1, <2>3, <2>4, <2>6, <1>18 DEF v
<1> QED BY <1>19, <1>20, <1>21 DEF NeedsHop

(* LHE_dequant's variables at the start.                                   *)
DecStart(img, mode) == [img |-> img, h |-> [c \in 0 .. Channels(mode) - 1 |-> NewHop1],
                       src_idx |-> 1]

(* They start in step.                                                     *)
LEMMA DecStarts ==
  ASSUME NEW rows, NEW cols, NEW mode, NEW ni, NEW img0, NEW src, NEW E,
         IsBlock(rows, cols, mode), IsImage(img0, rows, cols, mode, ni),
         EncRun(E, src, rows, cols, mode)
  PROVE  DecStart(img0, mode) \in Decoded(0, img0, E, rows, cols, mode, ni)
<1> DEFINE h == [c \in 0 .. Channels(mode) - 1 |-> NewHop1]  d == DecStart(img0, mode)
<1>1. E[0].h = h /\ E[0].out = <<>> BY DEF EncRun, EncStart
<1>2. Len(<<>>) + 1 = 1 /\ 1 \in Nat OBVIOUS
<1>3. h \in [0 .. Channels(mode) - 1 -> HopState] BY NewHop1State
<1>4. img0 \in [Pixels(rows, cols, ni) -> Byte] BY DEF IsImage
<1>5. ImgRestored(img0, 0, img0, E[Last(rows, cols, mode)], rows, cols, mode, ni)
  <2> SUFFICES ASSUME NEW p \in Pixels(rows, cols, Channels(mode))
               PROVE  ~ Index(p, cols, Channels(mode)) <= 0
    BY DEF ImgRestored
  <2>1. Index(p, cols, Channels(mode)) \in 1 .. Last(rows, cols, mode) BY IndexInt
  <2>2. Last(rows, cols, mode) \in Nat BY LastNat
  <2> DEFINE i == Index(p, cols, Channels(mode))  N == Last(rows, cols, mode)
  <2>3. ~ i <= 0
    <3>1. i \in 1 .. N /\ N \in Nat BY <2>1, <2>2
    <3> HIDE DEF i, N
    <3> QED BY <3>1
  <2> QED BY <2>3
<1>6. d.img = img0 /\ d.h = h /\ d.src_idx = 1 /\ d = [img |-> img0, h |-> h, src_idx |-> 1]
  BY DEF DecStart
<1> HIDE DEF h, d
<1>7. d \in DecStates(rows, cols, mode, ni) BY <1>2, <1>3, <1>4, <1>6 DEF DecStates
<1> QED BY <1>1, <1>2, <1>5, <1>6, <1>7 DEF Decoded, d

(* From the symbols of LHEquantizer, LHE_dequant makes the image that      *)
(* LHEquantizer predicted from, every value that has no symbol taken from  *)
(* the one kept for it; the decoder may call the mode by another name, as  *)
(* long as its pixels are the same.                                        *)
LEMMA DecoderRuns ==
  ASSUME NEW rows, NEW cols, NEW mode, NEW ni, NEW img0, NEW src, NEW E, NEW dmode, NEW out,
         IsBlock(rows, cols, mode), IsImage(img0, rows, cols, mode, ni),
         src \in [Pixels(rows, cols, Channels(mode)) -> Byte],
         EncRun(E, src, rows, cols, mode), out = E[Last(rows, cols, mode)].out,
         Channels(dmode) = Channels(mode),
         \A k \in 1 .. Last(rows, cols, mode) : \A d :
           DequantPixel(out, cols, dmode, d, At(k, cols, mode))
             = DequantPixel(out, cols, mode, d, At(k, cols, mode))
  PROVE  LET img == LHE_dequant(out, img0, rows, cols, Channels(dmode), dmode)
         IN /\ img \in [Pixels(rows, cols, ni) -> Byte]
            /\ ImgRestored(img, Last(rows, cols, mode), img0, E[Last(rows, cols, mode)], rows, cols,
               mode, ni)
<1> DEFINE n == Channels(mode)  N == Last(rows, cols, mode)  base == DecStart(img0, mode)
           Q(e, k) == DequantPixel(out, cols, dmode, e, At(k, cols, mode))
           f == CHOOSE f : f = [k \in 0 .. N |-> IF k = 0 THEN base ELSE Q(f[k - 1], k)]
           D(k) == Decoded(k, img0, E, rows, cols, mode, ni)
           T == [k \in 0 .. N |-> D(k)]
           step == [x \in DecStates(rows, cols, mode, ni) \X (1 .. N) |-> Q(x[1], x[2])]
<1>1. LHE_dequant(out, img0, rows, cols, Channels(dmode), dmode) = f[N].img
  BY DEF LHE_dequant, Loop, Last, At, DecStart
<1>2. N \in Nat BY LastNat
<1>3. \A k \in 1 .. N : k - 1 \in 0 .. N /\ k \in 0 .. N /\ k # 0 BY <1>2
<1>4. \A k \in 0 .. N : k # 0 => k \in 1 .. N BY <1>2
<1>5. 0 \in 0 .. N /\ N \in 0 .. N BY <1>2
<1>6. base \in T[0]
  <2>1. base \in D(0) BY DecStarts
  <2> HIDE DEF N, D, base
  <2> QED BY <1>5, <2>1
<1>7. \A k \in 1 .. N : \A e \in D(k - 1) : e \in DecStates(rows, cols, mode, ni)
      /\ Q(e, k) \in D(k)
  <2> TAKE k \in 1 .. N
  <2> TAKE e \in D(k - 1)
  <2>1. IsAt(At(k, cols, mode), k, rows, cols, mode) BY AtFacts
  <2>2. Q(e, k) = DequantPixel(E[N].out, cols, mode, e, At(k, cols, mode)) OBVIOUS
  <2>3. DequantPixel(E[N].out, cols, mode, e, At(k, cols, mode)) \in D(k) BY <2>1, DequantStep
  <2>4. e \in DecStates(rows, cols, mode, ni) BY DEF Decoded
  <2> HIDE DEF Q, D
  <2> QED BY <2>2, <2>3, <2>4
<1>8. \A k \in 1 .. N : \A e \in T[k - 1] : step[<<e, k>>] \in T[k] /\ step[<<e, k>>] = Q(e, k)
  <2> TAKE k \in 1 .. N
  <2> TAKE e \in T[k - 1]
  <2>1. T[k - 1] = D(k - 1) /\ T[k] = D(k)
    <3> HIDE DEF D, N
    <3> QED BY <1>3
  <2>2. e \in DecStates(rows, cols, mode, ni) /\ Q(e, k) \in D(k)
    <3>1. e \in D(k - 1) BY <2>1
    <3> HIDE DEF Q, D, N, T
    <3> QED BY <1>7, <3>1
  <2>3. <<e, k>> \in DecStates(rows, cols, mode, ni) \X (1 .. N)
    <3> HIDE DEF N
    <3> QED BY <2>2
  <2>4. step[<<e, k>>] = Q(e, k)
    <3> HIDE DEF N
    <3> QED BY <2>3
  <2> HIDE DEF step, Q, T, D
  <2> QED BY <2>1, <2>2, <2>4
<1>9. PICK g : IsRun(g, N, T, base, step)
  <2> HIDE DEF T, step, N, base, D
  <2>1. Steps(N, T, base, step) BY <1>2, <1>6, <1>8 DEF Steps
  <2> QED BY <2>1, Recursion
<1> DEFINE q == [k \in 0 .. N |-> g[k]]
<1>10. \A k \in 1 .. N : g[k] = Q(g[k - 1], k)
  <2> HIDE DEF T, step, Q, N, base, D
  <2> QED BY <1>3, <1>8, <1>9 DEF IsRun
<1>11. q = [k \in 0 .. N |-> IF k = 0 THEN base ELSE Q(q[k - 1], k)]
  <2>1. g[0] = base BY <1>9 DEF IsRun
  <2> HIDE DEF Q, N, base
  <2> QED BY <1>3, <1>4, <1>10, <2>1
<1>12. f = [k \in 0 .. N |-> IF k = 0 THEN base ELSE Q(f[k - 1], k)]
  <2> HIDE DEF q, Q, N, base
  <2> QED BY <1>11
<1> HIDE DEF f
<1>13. f[0] = base /\ \A k \in 1 .. N : f[k] = Q(f[k - 1], k)
  <2> HIDE DEF Q, N, base
  <2> QED BY <1>3, <1>5, <1>12
<1>14. \A k \in 0 .. N : f[k] \in T[k]
  <2> DEFINE S == {k \in 0 .. N : f[k] \in T[k]}
  <2>1. 0 \in S
    <3> HIDE DEF T, N, base
    <3> QED BY <1>5, <1>6, <1>13
  <2>2. \A k \in 1 .. N : k - 1 \in S => k \in S
    <3> HIDE DEF T, Q, step, N
    <3> QED BY <1>3, <1>8, <1>13
  <2>3. \A k \in 0 .. N : k \in S
    <3> HIDE DEF S, N
    <3> QED BY <1>2, <2>1, <2>2, UpTo
  <2> QED BY <2>3
<1>15. f[N] \in D(N)
  <2>1. T[N] = D(N)
    <3> HIDE DEF D, N
    <3> QED BY <1>5
  <2> HIDE DEF T, D, N
  <2> QED BY <1>5, <1>14, <2>1
<1>16. /\ f[N].img \in [Pixels(rows, cols, ni) -> Byte]
       /\ ImgRestored(f[N].img, N, img0, E[N], rows, cols, mode, ni)
  BY <1>15 DEF Decoded, DecStates
<1> QED BY <1>1, <1>16

-----------------------------------------------------------------------------
(* The codes of the hops (huff_tree) and the first values as bytes.        *)

(* A bit.                                                                  *)
Bit == {0, 1}

(* The entries of PowersOf2.                                               *)
LEMMA EachPower ==
  /\ PowersOf2[1] = 1 /\ PowersOf2[2] = 2 /\ PowersOf2[3] = 4 /\ PowersOf2[4] = 8
  /\ PowersOf2[5] = 16 /\ PowersOf2[6] = 32 /\ PowersOf2[7] = 64 /\ PowersOf2[8] = 128
BY DEF PowersOf2

(* What Bits makes of a code.                                              *)
LEMMA BitsAre ==
  ASSUME NEW code \in Nat, NEW len \in 0 .. 8
  PROVE  /\ Bits(code, len) \in Seq(Bit) /\ Len(Bits(code, len)) = len
         /\ \A i \in 1 .. len : Bits(code, len)[i] = (code \div PowersOf2[i]) % 2
<1> DEFINE b == Bits(code, len)
<1>1. b = [i \in 1 .. len |-> (code \div PowersOf2[i]) % 2] BY DEF Bits
<1>2. \A i \in 1 .. len : PowersOf2[i] \in Nat /\ PowersOf2[i] > 0
  <2> TAKE i \in 1 .. len
  <2>1. i \in {1, 2, 3, 4, 5, 6, 7, 8} OBVIOUS
  <2> QED BY <2>1, EachPower
<1>3. \A i \in 1 .. len : (code \div PowersOf2[i]) % 2 \in Bit
  <2> TAKE i \in 1 .. len
  <2> DEFINE w == PowersOf2[i]
  <2>1. w \in Nat /\ w > 0 BY <1>2
  <2> HIDE DEF w
  <2>2. code \div w \in Nat BY <2>1
  <2> DEFINE v == code \div w
  <2> HIDE DEF v
  <2>3. v % 2 \in Bit BY <2>2 DEF v, Bit
  <2> QED BY <2>3 DEF v, w
<1> HIDE DEF b
<1>4. \A i \in 1 .. len : b[i] = (code \div PowersOf2[i]) % 2 BY <1>1
<1>5. b \in [1 .. len -> Bit] BY <1>1, <1>3
<1>6. b \in Seq(Bit) /\ Len(b) = len BY <1>5, <1>1
<1> QED BY <1>4, <1>6 DEF b

(* ... bit by bit.                                                         *)
LEMMA SevenBits ==
  ASSUME NEW code \in Nat, NEW len \in 0 .. 8
  PROVE  /\ (len >= 1 => Bits(code, len)[1] = code % 2)
         /\ (len >= 2 => Bits(code, len)[2] = (code \div 2) % 2)
         /\ (len >= 3 => Bits(code, len)[3] = (code \div 4) % 2)
         /\ (len >= 4 => Bits(code, len)[4] = (code \div 8) % 2)
         /\ (len >= 5 => Bits(code, len)[5] = (code \div 16) % 2)
         /\ (len >= 6 => Bits(code, len)[6] = (code \div 32) % 2)
         /\ (len >= 7 => Bits(code, len)[7] = (code \div 64) % 2)
         /\ (len >= 8 => Bits(code, len)[8] = (code \div 128) % 2)
<1> DEFINE b == Bits(code, len)
<1>1. \A i \in 1 .. len : b[i] = (code \div PowersOf2[i]) % 2 BY BitsAre
<1> HIDE DEF b
<1>2. code \div 1 = code OBVIOUS
<1>3. /\ (len >= 1 => 1 \in 1 .. len) /\ (len >= 2 => 2 \in 1 .. len)
         /\ (len >= 3 => 3 \in 1 .. len)
      /\ (len >= 4 => 4 \in 1 .. len) /\ (len >= 5 => 5 \in 1 .. len)
         /\ (len >= 6 => 6 \in 1 .. len)
      /\ (len >= 7 => 7 \in 1 .. len) /\ (len >= 8 => 8 \in 1 .. len)
  OBVIOUS
<1> QED BY <1>1, <1>2, <1>3, EachPower DEF b

(* The entries of huff_tree.                                               *)
LEMMA Tree ==
  /\ huff_tree(-4) = Bits(26, 7) /\ huff_tree(-3) = Bits(58, 6) /\ huff_tree(-2) = Bits(2, 4)
  /\ huff_tree(-1) = Bits(4, 3) /\ huff_tree(0) = Bits(1, 1) /\ huff_tree(1) = Bits(0, 3)
  /\ huff_tree(2) = Bits(6, 3) /\ huff_tree(3) = Bits(10, 5) /\ huff_tree(4) = Bits(90, 7)
<1> DEFINE t == << <<26, 7>>, <<58, 6>>, <<2, 4>>, <<4, 3>>, <<1, 1>>,
                   <<0, 3>>, <<6, 3>>, <<10, 5>>, <<90, 7>> >>
<1>1. \A hop : huff_tree(hop) = Bits(t[hop + 5][1], t[hop + 5][2]) BY DEF huff_tree
<1>2. /\ -4 + 5 = 1 /\ -3 + 5 = 2 /\ -2 + 5 = 3 /\ -1 + 5 = 4 /\ 0 + 5 = 5 /\ 1 + 5 = 6 /\ 2 + 5 = 7
      /\ 3 + 5 = 8 /\ 4 + 5 = 9
  OBVIOUS
<1>3. /\ t[1] = <<26, 7>> /\ t[2] = <<58, 6>> /\ t[3] = <<2, 4>> /\ t[4] = <<4, 3>>
      /\ t[5] = <<1, 1>>
      /\ t[6] = <<0, 3>> /\ t[7] = <<6, 3>> /\ t[8] = <<10, 5>> /\ t[9] = <<90, 7>>
  OBVIOUS
<1> HIDE DEF t
<1> QED BY <1>1, <1>2, <1>3

(* A code has at most seven bits.                                          *)
LEMMA TreeLengths ==
  ASSUME NEW hop \in Hops
  PROVE  huff_tree(hop) \in Seq(Bit) /\ Len(huff_tree(hop)) \in 1 .. LARGEST_CODE
<1>1. hop \in {-4, -3, -2, -1, 0, 1, 2, 3, 4} BY DEF Hops
<1>2. \E code \in Nat, len \in 1 .. 7 : huff_tree(hop) = Bits(code, len)
  <2>1. 26 \in Nat /\ 58 \in Nat /\ 2 \in Nat /\ 4 \in Nat /\ 1 \in Nat /\ 0 \in Nat /\ 6 \in Nat
        /\ 10 \in Nat /\ 90 \in Nat
        /\ 7 \in 1 .. 7 /\ 6 \in 1 .. 7 /\ 4 \in 1 .. 7 /\ 3 \in 1 .. 7 /\ 1 \in 1 .. 7
        /\ 5 \in 1 .. 7
    OBVIOUS
  <2> QED BY <1>1, <2>1, Tree
<1>3. PICK code \in Nat, len \in 1 .. 7 : huff_tree(hop) = Bits(code, len) BY <1>2
<1>4. len \in 0 .. 8 OBVIOUS
<1> QED BY <1>3, <1>4, BitsAre DEF LARGEST_CODE

(* The code of a hop lies in the buffer at ptr.                            *)
LiesAt(buffer, ptr, hop) == \A i \in DOMAIN huff_tree(hop) : buffer[ptr + i] = huff_tree(hop)[i]

(* The nine codes: each is told from the others by its bits.               *)
LEMMA Lying ==
  ASSUME NEW buffer, NEW ptr \in Nat
  PROVE  LET Lies(hop) == LiesAt(buffer, ptr, hop)
             b1 == buffer[ptr + 1]  b2 == buffer[ptr + 2]  b3 == buffer[ptr + 3]
             b4 == buffer[ptr + 4]
             b5 == buffer[ptr + 5]  b6 == buffer[ptr + 6]  b7 == buffer[ptr + 7]
         IN /\ (Lies(0) <=> b1 = 1)
            /\ (Lies(1) <=> b1 = 0 /\ b2 = 0 /\ b3 = 0)
            /\ (Lies(-1) <=> b1 = 0 /\ b2 = 0 /\ b3 = 1)
            /\ (Lies(2) <=> b1 = 0 /\ b2 = 1 /\ b3 = 1)
            /\ (Lies(-2) <=> b1 = 0 /\ b2 = 1 /\ b3 = 0 /\ b4 = 0)
            /\ (Lies(3) <=> b1 = 0 /\ b2 = 1 /\ b3 = 0 /\ b4 = 1 /\ b5 = 0)
            /\ (Lies(-3) <=> b1 = 0 /\ b2 = 1 /\ b3 = 0 /\ b4 = 1 /\ b5 = 1 /\ b6 = 1)
            /\ (Lies(4) <=> b1 = 0 /\ b2 = 1 /\ b3 = 0 /\ b4 = 1 /\ b5 = 1 /\ b6 = 0 /\ b7 = 1)
            /\ (Lies(-4) <=> b1 = 0 /\ b2 = 1 /\ b3 = 0 /\ b4 = 1 /\ b5 = 1 /\ b6 = 0 /\ b7 = 0)
<1> DEFINE Found(code, len) == \A i \in 1 .. len : buffer[ptr + i] = Bits(code, len)[i]
           Lies(hop) == LiesAt(buffer, ptr, hop)
           b1 == buffer[ptr + 1]  b2 == buffer[ptr + 2]  b3 == buffer[ptr + 3]
           b4 == buffer[ptr + 4]
           b5 == buffer[ptr + 5]  b6 == buffer[ptr + 6]  b7 == buffer[ptr + 7]
<1>1. \A code \in Nat, len \in 0 .. 8 : DOMAIN Bits(code, len) = 1 .. len BY DEF Bits
<1>2. \A hop : \A code \in Nat, len \in 0 .. 8 :
        huff_tree(hop) = Bits(code, len) => (Lies(hop) <=> Found(code, len))
  BY <1>1 DEF LiesAt
<1>3. /\ 1 .. 1 = {1} /\ 1 .. 3 = {1, 2, 3} /\ 1 .. 4 = {1, 2, 3, 4} /\ 1 .. 5 = {1, 2, 3, 4, 5}
      /\ 1 .. 6 = {1, 2, 3, 4, 5, 6} /\ 1 .. 7 = {1, 2, 3, 4, 5, 6, 7}
  OBVIOUS
<1>4. Lies(0) <=> b1 = 1
  <2>1. Bits(1, 1)[1] = 1 % 2 BY SevenBits
  <2>2. 1 % 2 = 1 OBVIOUS
  <2> QED BY <2>1, <2>2, <1>2, <1>3, Tree
<1>5. Lies(1) <=> b1 = 0 /\ b2 = 0 /\ b3 = 0
  <2>1. Bits(0, 3)[1] = 0 % 2 /\ Bits(0, 3)[2] = (0 \div 2) % 2 /\ Bits(0, 3)[3] = (0 \div 4) % 2
    BY SevenBits
  <2>2. 0 % 2 = 0 /\ 0 \div 2 = 0 /\ 0 \div 4 = 0 OBVIOUS
  <2> QED BY <2>1, <2>2, <1>2, <1>3, Tree
<1>6. Lies(-1) <=> b1 = 0 /\ b2 = 0 /\ b3 = 1
  <2>1. Bits(4, 3)[1] = 4 % 2 /\ Bits(4, 3)[2] = (4 \div 2) % 2 /\ Bits(4, 3)[3] = (4 \div 4) % 2
    BY SevenBits
  <2>2. 4 % 2 = 0 /\ (4 \div 2) % 2 = 0 /\ (4 \div 4) % 2 = 1 OBVIOUS
  <2> QED BY <2>1, <2>2, <1>2, <1>3, Tree
<1>7. Lies(2) <=> b1 = 0 /\ b2 = 1 /\ b3 = 1
  <2>1. Bits(6, 3)[1] = 6 % 2 /\ Bits(6, 3)[2] = (6 \div 2) % 2 /\ Bits(6, 3)[3] = (6 \div 4) % 2
    BY SevenBits
  <2>2. 6 % 2 = 0 /\ (6 \div 2) % 2 = 1 /\ (6 \div 4) % 2 = 1 OBVIOUS
  <2> QED BY <2>1, <2>2, <1>2, <1>3, Tree
<1>8. Lies(-2) <=> b1 = 0 /\ b2 = 1 /\ b3 = 0 /\ b4 = 0
  <2>1. Bits(2, 4)[1] = 2 % 2 /\ Bits(2, 4)[2] = (2 \div 2) % 2 /\ Bits(2, 4)[3] = (2 \div 4) % 2
        /\ Bits(2, 4)[4] = (2 \div 8) % 2
    BY SevenBits
  <2>2. 2 % 2 = 0 /\ (2 \div 2) % 2 = 1 /\ (2 \div 4) % 2 = 0 /\ (2 \div 8) % 2 = 0 OBVIOUS
  <2> QED BY <2>1, <2>2, <1>2, <1>3, Tree
<1>9. Lies(3) <=> b1 = 0 /\ b2 = 1 /\ b3 = 0 /\ b4 = 1 /\ b5 = 0
  <2>1. Bits(10, 5)[1] = 10 % 2 /\ Bits(10, 5)[2] = (10 \div 2) % 2
        /\ Bits(10, 5)[3] = (10 \div 4) % 2
        /\ Bits(10, 5)[4] = (10 \div 8) % 2 /\ Bits(10, 5)[5] = (10 \div 16) % 2
    BY SevenBits
  <2>2. 10 % 2 = 0 /\ (10 \div 2) % 2 = 1 /\ (10 \div 4) % 2 = 0 /\ (10 \div 8) % 2 = 1
        /\ (10 \div 16) % 2 = 0
    OBVIOUS
  <2> QED BY <2>1, <2>2, <1>2, <1>3, Tree
<1>10. Lies(-3) <=> b1 = 0 /\ b2 = 1 /\ b3 = 0 /\ b4 = 1 /\ b5 = 1 /\ b6 = 1
  <2>1. Bits(58, 6)[1] = 58 % 2 /\ Bits(58, 6)[2] = (58 \div 2) % 2
        /\ Bits(58, 6)[3] = (58 \div 4) % 2
        /\ Bits(58, 6)[4] = (58 \div 8) % 2 /\ Bits(58, 6)[5] = (58 \div 16) % 2
        /\ Bits(58, 6)[6] = (58 \div 32) % 2
    BY SevenBits
  <2>2. 58 % 2 = 0 /\ (58 \div 2) % 2 = 1 /\ (58 \div 4) % 2 = 0 /\ (58 \div 8) % 2 = 1
        /\ (58 \div 16) % 2 = 1 /\ (58 \div 32) % 2 = 1
    OBVIOUS
  <2> QED BY <2>1, <2>2, <1>2, <1>3, Tree
<1>11. Lies(4) <=> b1 = 0 /\ b2 = 1 /\ b3 = 0 /\ b4 = 1 /\ b5 = 1 /\ b6 = 0 /\ b7 = 1
  <2>1. Bits(90, 7)[1] = 90 % 2 /\ Bits(90, 7)[2] = (90 \div 2) % 2
        /\ Bits(90, 7)[3] = (90 \div 4) % 2
        /\ Bits(90, 7)[4] = (90 \div 8) % 2 /\ Bits(90, 7)[5] = (90 \div 16) % 2
        /\ Bits(90, 7)[6] = (90 \div 32) % 2 /\ Bits(90, 7)[7] = (90 \div 64) % 2
    BY SevenBits
  <2>2. 90 % 2 = 0 /\ (90 \div 2) % 2 = 1 /\ (90 \div 4) % 2 = 0 /\ (90 \div 8) % 2 = 1
        /\ (90 \div 16) % 2 = 1 /\ (90 \div 32) % 2 = 0 /\ (90 \div 64) % 2 = 1
    OBVIOUS
  <2> QED BY <2>1, <2>2, <1>2, <1>3, Tree
<1>12. Lies(-4) <=> b1 = 0 /\ b2 = 1 /\ b3 = 0 /\ b4 = 1 /\ b5 = 1 /\ b6 = 0 /\ b7 = 0
  <2>1. Bits(26, 7)[1] = 26 % 2 /\ Bits(26, 7)[2] = (26 \div 2) % 2
        /\ Bits(26, 7)[3] = (26 \div 4) % 2
        /\ Bits(26, 7)[4] = (26 \div 8) % 2 /\ Bits(26, 7)[5] = (26 \div 16) % 2
        /\ Bits(26, 7)[6] = (26 \div 32) % 2 /\ Bits(26, 7)[7] = (26 \div 64) % 2
    BY SevenBits
  <2>2. 26 % 2 = 0 /\ (26 \div 2) % 2 = 1 /\ (26 \div 4) % 2 = 0 /\ (26 \div 8) % 2 = 1
        /\ (26 \div 16) % 2 = 1 /\ (26 \div 32) % 2 = 0 /\ (26 \div 64) % 2 = 0
    OBVIOUS
  <2> QED BY <2>1, <2>2, <1>2, <1>3, Tree
<1> QED BY <1>4, <1>5, <1>6, <1>7, <1>8, <1>9, <1>10, <1>11, <1>12

(* The codes are a prefix code, and inv_Huffman's chain of comparisons     *)
(* finds the one that was written, whatever lies behind it.                *)
LEMMA NextHopFound ==
  ASSUME NEW buffer, NEW ptr \in Nat, NEW hop \in Hops,
         \A i \in 1 .. Len(huff_tree(hop)) : buffer[ptr + i] = huff_tree(hop)[i]
  PROVE  NextHop(buffer, ptr) = hop
<1> DEFINE Lies(h) == LiesAt(buffer, ptr, h)
           S == {k \in 1 .. 8 : Lies(Tried[k])} \cup {9}
           b1 == buffer[ptr + 1]  b2 == buffer[ptr + 2]  b3 == buffer[ptr + 3]
           b4 == buffer[ptr + 4]
           b5 == buffer[ptr + 5]  b6 == buffer[ptr + 6]  b7 == buffer[ptr + 7]
<1>1. NextHop(buffer, ptr) = Tried[Min(S)] BY DEF NextHop, LiesAt
<1>2. Lies(hop)
  <2>1. huff_tree(hop) \in Seq(Bit) BY TreeLengths
  <2>2. DOMAIN huff_tree(hop) = 1 .. Len(huff_tree(hop)) BY <2>1
  <2> QED BY <2>2 DEF LiesAt
<1>3. /\ Tried[1] = 0 /\ Tried[2] = 1 /\ Tried[3] = -1 /\ Tried[4] = 2 /\ Tried[5] = -2
      /\ Tried[6] = 3 /\ Tried[7] = -3 /\ Tried[8] = 4 /\ Tried[9] = -4
  BY DEF Tried
<1>4. /\ (Lies(0) <=> b1 = 1)
      /\ (Lies(1) <=> b1 = 0 /\ b2 = 0 /\ b3 = 0)
      /\ (Lies(-1) <=> b1 = 0 /\ b2 = 0 /\ b3 = 1)
      /\ (Lies(2) <=> b1 = 0 /\ b2 = 1 /\ b3 = 1)
      /\ (Lies(-2) <=> b1 = 0 /\ b2 = 1 /\ b3 = 0 /\ b4 = 0)
      /\ (Lies(3) <=> b1 = 0 /\ b2 = 1 /\ b3 = 0 /\ b4 = 1 /\ b5 = 0)
      /\ (Lies(-3) <=> b1 = 0 /\ b2 = 1 /\ b3 = 0 /\ b4 = 1 /\ b5 = 1 /\ b6 = 1)
      /\ (Lies(4) <=> b1 = 0 /\ b2 = 1 /\ b3 = 0 /\ b4 = 1 /\ b5 = 1 /\ b6 = 0 /\ b7 = 1)
      /\ (Lies(-4) <=> b1 = 0 /\ b2 = 1 /\ b3 = 0 /\ b4 = 1 /\ b5 = 1 /\ b6 = 0 /\ b7 = 0)
  BY Lying
<1> HIDE DEF Lies, b1, b2, b3, b4, b5, b6, b7
<1>5. \A k \in 1 .. 9 : k \in S <=> k = 9 \/ Lies(Tried[k]) OBVIOUS
<1>6. /\ (1 \in S <=> Lies(0)) /\ (2 \in S <=> Lies(1)) /\ (3 \in S <=> Lies(-1))
         /\ (4 \in S <=> Lies(2))
      /\ (5 \in S <=> Lies(-2)) /\ (6 \in S <=> Lies(3)) /\ (7 \in S <=> Lies(-3))
         /\ (8 \in S <=> Lies(4))
      /\ 9 \in S
  BY <1>3, <1>5
<1>7. S \subseteq 0 .. 9 /\ S # {} /\ 0 \notin S OBVIOUS
<1> HIDE DEF S
<1>8. Min(S) \in S /\ \A k \in S : Min(S) <= k BY <1>7, SmallMin
<1> DEFINE m == Min(S)
<1>9. m \in S /\ m \in {1, 2, 3, 4, 5, 6, 7, 8, 9} /\ \A k \in S : m <= k
  <2>1. m \in 0 .. 9 /\ m # 0 BY <1>7, <1>8
  <2> HIDE DEF m
  <2>2. m \in {1, 2, 3, 4, 5, 6, 7, 8, 9} BY <2>1
  <2> QED BY <2>2, <1>8 DEF m
<1> HIDE DEF m
<1>10. hop \in {0, 1, -1, 2, -2, 3, -3, 4, -4} BY DEF Hops
<1>11. Tried[m] = hop
  <2>1. CASE hop = 0
    <3>1. 1 \in S BY <2>1, <1>2, <1>6
    <3>2. m = 1 BY <3>1, <1>9
    <3> QED BY <3>2, <2>1, <1>3
  <2>2. CASE hop = 1
    <3>1. 2 \in S /\ 1 \notin S BY <2>2, <1>2, <1>4, <1>6
    <3>2. m = 2 BY <3>1, <1>9
    <3> QED BY <3>2, <2>2, <1>3
  <2>3. CASE hop = -1
    <3>1. 3 \in S /\ 1 \notin S /\ 2 \notin S BY <2>3, <1>2, <1>4, <1>6
    <3>2. m = 3 BY <3>1, <1>9
    <3> QED BY <3>2, <2>3, <1>3
  <2>4. CASE hop = 2
    <3>1. 4 \in S /\ 1 \notin S /\ 2 \notin S /\ 3 \notin S BY <2>4, <1>2, <1>4, <1>6
    <3>2. m = 4 BY <3>1, <1>9
    <3> QED BY <3>2, <2>4, <1>3
  <2>5. CASE hop = -2
    <3>1. 5 \in S /\ 1 \notin S /\ 2 \notin S /\ 3 \notin S /\ 4 \notin S BY <2>5, <1>2, <1>4, <1>6
    <3>2. m = 5 BY <3>1, <1>9
    <3> QED BY <3>2, <2>5, <1>3
  <2>6. CASE hop = 3
    <3>1. 6 \in S /\ 1 \notin S /\ 2 \notin S /\ 3 \notin S /\ 4 \notin S /\ 5 \notin S
      BY <2>6, <1>2, <1>4, <1>6
    <3>2. m = 6 BY <3>1, <1>9
    <3> QED BY <3>2, <2>6, <1>3
  <2>7. CASE hop = -3
    <3>1. 7 \in S /\ 1 \notin S /\ 2 \notin S /\ 3 \notin S /\ 4 \notin S /\ 5 \notin S
          /\ 6 \notin S
      BY <2>7, <1>2, <1>4, <1>6
    <3>2. m = 7 BY <3>1, <1>9
    <3> QED BY <3>2, <2>7, <1>3
  <2>8. CASE hop = 4
    <3>1. 8 \in S /\ 1 \notin S /\ 2 \notin S /\ 3 \notin S /\ 4 \notin S /\ 5 \notin S
          /\ 6 \notin S
          /\ 7 \notin S
      BY <2>8, <1>2, <1>4, <1>6
    <3>2. m = 8 BY <3>1, <1>9
    <3> QED BY <3>2, <2>8, <1>3
  <2>9. CASE hop = -4
    <3>1. 1 \notin S /\ 2 \notin S /\ 3 \notin S /\ 4 \notin S /\ 5 \notin S /\ 6 \notin S
          /\ 7 \notin S /\ 8 \notin S
      BY <2>9, <1>2, <1>4, <1>6
    <3>2. m = 9 BY <3>1, <1>9
    <3> QED BY <3>2, <2>9, <1>3
  <2> QED BY <1>10, <2>1, <2>2, <2>3, <2>4, <2>5, <2>6, <2>7, <2>8, <2>9
<1> QED BY <1>1, <1>11 DEF m

(* Half a number and the rest of it.                                       *)
LEMMA Halved ==
  ASSUME NEW a \in Nat
  PROVE  a = 2 * (a \div 2) + (a % 2) /\ a \div 2 \in Nat /\ a % 2 \in Nat
<1> DEFINE q == a \div 2  r == a % 2
<1>1. q \in Nat /\ r \in 0 .. 2 - 1 /\ a = q * 2 + r BY DivFacts
<1> HIDE DEF q, r
<1>2. a = 2 * q + r /\ r \in Nat BY <1>1
<1> QED BY <1>1, <1>2 DEF q, r

(* A number from its halves.                                               *)
LEMMA SumOfBits ==
  ASSUME NEW v \in Int, NEW w2 \in Int, NEW w4 \in Int, NEW w8 \in Int, NEW w16 \in Int,
         NEW w32 \in Int,
         NEW w64 \in Int, NEW w128 \in Int, NEW r1 \in Int, NEW r2 \in Int, NEW r3 \in Int,
         NEW r4 \in Int,
         NEW r5 \in Int, NEW r6 \in Int, NEW r7 \in Int,
         v = 2*w2 + r1, w2 = 2*w4 + r2, w4 = 2*w8 + r3, w8 = 2*w16 + r4, w16 = 2*w32 + r5,
         w32 = 2*w64 + r6, w64 = 2*w128 + r7
  PROVE  v = r1 + 2*r2 + 4*r3 + 8*r4 + 16*r5 + 32*r6 + 64*r7 + 128*w128
BY SMT

(* The eight bits of a byte give the byte back.                            *)
LEMMA RoundTrip ==
  ASSUME NEW v \in Byte, NEW bits, \A i \in 1 .. 8 : bits[i] = Bits(v, 8)[i]
  PROVE  Number(bits) = v
<1> DEFINE b == Bits(v, 8)
<1>1. v \in Nat /\ v <= 255 BY DEF Byte
<1>2. /\ b[1] = v % 2 /\ b[2] = (v \div 2) % 2 /\ b[3] = (v \div 4) % 2 /\ b[4] = (v \div 8) % 2
      /\ b[5] = (v \div 16) % 2 /\ b[6] = (v \div 32) % 2 /\ b[7] = (v \div 64) % 2
      /\ b[8] = (v \div 128) % 2
  BY <1>1, SevenBits
<1>3. Number(bits) = b[1] + 2*b[2] + 4*b[3] + 8*b[4] + 16*b[5] + 32*b[6] + 64*b[7] + 128*b[8]
  <2>1. 1 \in 1 .. 8 /\ 2 \in 1 .. 8 /\ 3 \in 1 .. 8 /\ 4 \in 1 .. 8 /\ 5 \in 1 .. 8 /\ 6 \in 1 .. 8
        /\ 7 \in 1 .. 8 /\ 8 \in 1 .. 8
    OBVIOUS
  <2> HIDE DEF b
  <2>2. bits[1] = b[1] /\ bits[2] = b[2] /\ bits[3] = b[3] /\ bits[4] = b[4] /\ bits[5] = b[5]
        /\ bits[6] = b[6] /\ bits[7] = b[7] /\ bits[8] = b[8]
    BY <2>1 DEF b
  <2> QED BY <2>2 DEF Number
<1> HIDE DEF b
<1> DEFINE w2 == v \div 2  w4 == v \div 4  w8 == v \div 8  w16 == v \div 16
           w32 == v \div 32  w64 == v \div 64  w128 == v \div 128
<1>4. /\ w4 = w2 \div 2 /\ w8 = w4 \div 2 /\ w16 = w8 \div 2 /\ w32 = w16 \div 2 /\ w64 = w32 \div 2
      /\ w128 = w64 \div 2
  BY <1>1
<1>5. v = 2*w2 + (v % 2) /\ w2 \in Nat BY <1>1, Halved
<1>6. /\ w4 \in Nat /\ w8 \in Nat /\ w16 \in Nat /\ w32 \in Nat /\ w64 \in Nat BY <1>1
<1>7. w2 = 2*w4 + (w2 % 2)
  <2> HIDE DEF w2, w4
  <2> QED BY <1>4, <1>5, Halved
<1>8. w4 = 2*w8 + (w4 % 2) /\ w8 = 2*w16 + (w8 % 2)
  <2> HIDE DEF w4, w8, w16
  <2> QED BY <1>4, <1>6, Halved
<1>9. w16 = 2*w32 + (w16 % 2) /\ w32 = 2*w64 + (w32 % 2)
  <2> HIDE DEF w16, w32, w64
  <2> QED BY <1>4, <1>6, Halved
<1>10. w64 = 2*w128 + (w64 % 2)
  <2> HIDE DEF w64, w128
  <2> QED BY <1>4, <1>6, Halved
<1>11. w128 % 2 = w128 /\ w128 \in Nat BY <1>1
<1>12. /\ v % 2 \in Int /\ w2 % 2 \in Int /\ w4 % 2 \in Int /\ w8 % 2 \in Int /\ w16 % 2 \in Int
       /\ w32 % 2 \in Int /\ w64 % 2 \in Int
  BY <1>1
<1>13. Number(bits) = (v % 2) + 2*(w2 % 2) + 4*(w4 % 2) + 8*(w8 % 2) + 16*(w16 % 2) + 32*(w32 % 2)
                      + 64*(w64 % 2) + 128*w128
  BY <1>2, <1>3, <1>11
<1>14. v \in Int /\ w2 \in Int /\ w4 \in Int /\ w8 \in Int /\ w16 \in Int /\ w32 \in Int
       /\ w64 \in Int
       /\ w128 \in Int
  BY <1>1
<1>15. v = (v % 2) + 2*(w2 % 2) + 4*(w4 % 2) + 8*(w8 % 2) + 16*(w16 % 2) + 32*(w32 % 2)
           + 64*(w64 % 2) + 128*w128
  <2> DEFINE r1 == v % 2  r2 == w2 % 2  r3 == w4 % 2  r4 == w8 % 2  r5 == w16 % 2  r6 == w32 % 2
             r7 == w64 % 2
  <2>1. /\ r1 \in Int /\ r2 \in Int /\ r3 \in Int /\ r4 \in Int /\ r5 \in Int /\ r6 \in Int
        /\ r7 \in Int
    BY <1>12
  <2>2. v = 2*w2 + r1 BY <1>5
  <2>3. w2 = 2*w4 + r2 BY <1>7
  <2>4. w4 = 2*w8 + r3 BY <1>8
  <2>5. w8 = 2*w16 + r4 BY <1>8
  <2>6. w16 = 2*w32 + r5 BY <1>9
  <2>7. w32 = 2*w64 + r6 BY <1>9
  <2>8. w64 = 2*w128 + r7 BY <1>10
  <2> HIDE DEF r1, r2, r3, r4, r5, r6, r7, w2, w4, w8, w16, w32, w64, w128
  <2>9. v = r1 + 2*r2 + 4*r3 + 8*r4 + 16*r5 + 32*r6 + 64*r7 + 128*w128
    BY <1>14, <2>1, <2>2, <2>3, <2>4, <2>5, <2>6, <2>7, <2>8, SumOfBits
  <2> QED BY <2>9 DEF r1, r2, r3, r4, r5, r6, r7
<1> QED BY <1>13, <1>15

-----------------------------------------------------------------------------
(* The encoder's bits (Huffman).                                           *)

(* What concatenation does.                                                *)
LEMMA Joined ==
  ASSUME NEW T, NEW s \in Seq(T), NEW t \in Seq(T)
  PROVE  /\ s \o t \in Seq(T) /\ Len(s \o t) = Len(s) + Len(t)
         /\ \A j \in 1 .. Len(s) : (s \o t)[j] = s[j]
         /\ \A j \in 1 .. Len(t) : (s \o t)[Len(s) + j] = t[j]
OBVIOUS

(* What SubSeq does.                                                       *)
LEMMA Cut ==
  ASSUME NEW T, NEW s \in Seq(T), NEW a \in Nat, NEW b \in Nat, 1 <= a, a <= b + 1, b <= Len(s)
  PROVE  /\ SubSeq(s, a, b) \in Seq(T) /\ Len(SubSeq(s, a, b)) = b - a + 1
         /\ \A j \in 1 .. (b - a + 1) : SubSeq(s, a, b)[j] = s[a + j - 1]
<1> DEFINE t == SubSeq(s, a, b)
<1>1. t = [i \in 1 .. (b - a + 1) |-> s[a + i - 1]] OBVIOUS
<1>2. \A i \in 1 .. (b - a + 1) : a + i - 1 \in 1 .. Len(s) OBVIOUS
<1>3. \A i \in 1 .. (b - a + 1) : s[a + i - 1] \in T BY <1>2
<1>4. b - a + 1 \in Nat OBVIOUS
<1> HIDE DEF t
<1>5. t \in [1 .. (b - a + 1) -> T] BY <1>1, <1>3
<1>6. t \in Seq(T) /\ Len(t) = b - a + 1 BY <1>4, <1>5, <1>1
<1>7. \A j \in 1 .. (b - a + 1) : t[j] = s[a + j - 1] BY <1>1
<1> QED BY <1>6, <1>7 DEF t

(* The code of the i-th symbol: eight bits for the first pixel, else that  *)
(* of a hop.                                                               *)
CodeOf(out, i, n) == IF i <= n THEN Bits(out[i], 8) ELSE huff_tree(out[i])

(* Symbols as LHEquantizer makes them.                                     *)
IsSymbols(out, n) ==
  /\ out \in Seq(Int) /\ n \in {1, 3} /\ Len(out) >= n
  /\ \A i \in 1 .. Len(out) : out[i] \in IF i <= n THEN Byte ELSE Hops

(* How long a code is.                                                     *)
LEMMA CodeFacts ==
  ASSUME NEW out, NEW n, IsSymbols(out, n), NEW i \in 1 .. Len(out)
  PROVE  /\ CodeOf(out, i, n) \in Seq(Bit) /\ Len(CodeOf(out, i, n)) \in 1 .. 8
         /\ (i <= n => Len(CodeOf(out, i, n)) = 8)
         /\ (~ i <= n => Len(CodeOf(out, i, n)) <= 7 /\ CodeOf(out, i, n) = huff_tree(out[i]))
<1>1. (out[i] \in IF i <= n THEN Byte ELSE Hops) /\ n \in Nat BY DEF IsSymbols
<1> DEFINE v == out[i]  code == CodeOf(out, i, n)
<1>2. CASE i <= n
  <2>1. v \in Byte BY <1>1, <1>2
  <2>2. code = Bits(v, 8) BY <1>2 DEF CodeOf
  <2> HIDE DEF v, code
  <2>3. v \in Nat BY <2>1 DEF Byte
  <2>4. 8 \in 0 .. 8 OBVIOUS
  <2>5. code \in Seq(Bit) /\ Len(code) = 8 BY <2>2, <2>3, <2>4, BitsAre
  <2>6. 8 \in 1 .. 8 OBVIOUS
  <2> QED BY <1>2, <2>5, <2>6 DEF code
<1>3. CASE ~ i <= n
  <2>1. v \in Hops BY <1>1, <1>3
  <2>2. code = huff_tree(v) BY <1>3 DEF CodeOf
  <2>3. huff_tree(v) \in Seq(Bit) /\ Len(huff_tree(v)) \in 1 .. 7
    BY <2>1, TreeLengths DEF LARGEST_CODE
  <2>4. \A m \in 1 .. 7 : m \in 1 .. 8 /\ m <= 7 OBVIOUS
  <2> HIDE DEF code
  <2> QED BY <1>3, <2>2, <2>3, <2>4 DEF code
<1> QED BY <1>2, <1>3

(* The states of Huffman: whole words, and one that is not full.           *)
Packed ==
  {p \in [dst : Seq(Bit), aux : Seq(Bit)] : Len(p.aux) < WORD_BITS /\ Len(p.dst) % WORD_BITS = 0}

(* The bits packed so far.                                                 *)
Stream(p) == p.dst \o p.aux

(* t is s with a code behind.                                              *)
Extends(s, t, code) ==
  /\ Len(t) = Len(s) + Len(code)
  /\ \A j \in 1 .. Len(s) : t[j] = s[j]
  /\ \A j \in 1 .. Len(code) : t[Len(s) + j] = code[j]

(* Also when a word gets full and the code is split, nothing but the code  *)
(* is added.                                                               *)
LEMMA PackStep ==
  ASSUME NEW p \in Packed, NEW code \in Seq(Bit), Len(code) \in 1 .. 8
  PROVE  PackCode(p, code) \in Packed /\ Extends(Stream(p), Stream(PackCode(p, code)), code)
<1> DEFINE d == p.dst  a == p.aux  q == PackCode(p, code)  ac == a \o code  bp == Len(a) + Len(code)
<1>1. p = [dst |-> d, aux |-> a] /\ d \in Seq(Bit) /\ a \in Seq(Bit) /\ Len(a) < 32
      /\ Len(d) % 32 = 0
  BY DEF Packed, WORD_BITS
<1> DEFINE full == [dst |-> d \o SubSeq(ac, 1, 32),
                    aux |-> SubSeq(code, Len(code) - (bp - 32) + 1, Len(code))]
<1>2. q = IF bp < 32 THEN [p EXCEPT !.aux = ac] ELSE full
  BY DEF PackCode, WORD_BITS
<1> HIDE DEF d, a, q
<1> DEFINE la == Len(a)  ld == Len(d)  lc == Len(code)
<1>3. la \in Nat /\ ld \in Nat /\ lc \in 1 .. 8 BY <1>1
<1>4. /\ ac \in Seq(Bit) /\ Len(ac) = la + lc /\ \A j \in 1 .. la : ac[j] = a[j]
      /\ \A j \in 1 .. lc : ac[la + j] = code[j]
  BY <1>1, Joined
<1>5. Stream(p) = d \o a BY DEF Stream, d, a
<1>6. /\ Len(d \o a) = ld + la /\ \A j \in 1 .. ld : (d \o a)[j] = d[j]
      /\ \A j \in 1 .. la : (d \o a)[ld + j] = a[j]
  BY <1>1, Joined
<1> HIDE DEF ac
<1>7. ASSUME NEW t, Len(t) = ld + Len(ac), \A j \in 1 .. ld : t[j] = d[j],
             \A j \in 1 .. Len(ac) : t[ld + j] = ac[j]
      PROVE  Extends(d \o a, t, code)
  <2> DEFINE s == d \o a
  <2>1. Len(t) = Len(s) + lc
    <3>1. Len(t) = ld + (la + lc) /\ Len(s) = ld + la BY <1>4, <1>6, <1>7
    <3> HIDE DEF s, la, ld, lc
    <3> QED BY <3>1, <1>3
  <2>2. \A j \in 1 .. Len(s) : t[j] = s[j]
    <3> TAKE j \in 1 .. Len(s)
    <3> HIDE DEF s
    <3>1. j \in 1 .. ld \/ (j - ld \in 1 .. la /\ j - ld \in 1 .. Len(ac) /\ ld + (j - ld) = j)
      <4>1. j \in 1 .. ld + la BY <1>6 DEF s
      <4>2. Len(ac) = la + lc BY <1>4
      <4> HIDE DEF la, ld, lc
      <4> QED BY <4>1, <4>2, <1>3
    <3>2. CASE j \in 1 .. ld BY <3>2, <1>6, <1>7 DEF s
    <3>3. CASE j - ld \in 1 .. la /\ j - ld \in 1 .. Len(ac) /\ ld + (j - ld) = j
      <4> DEFINE m == j - ld
      <4>1. m \in 1 .. la /\ m \in 1 .. Len(ac) /\ ld + m = j BY <3>3
      <4> HIDE DEF m
      <4>2. t[ld + m] = ac[m] /\ s[ld + m] = a[m] /\ ac[m] = a[m] BY <4>1, <1>4, <1>6, <1>7 DEF s
      <4> QED BY <4>1, <4>2
    <3> QED BY <3>1, <3>2, <3>3
  <2>3. \A j \in 1 .. lc : t[Len(s) + j] = code[j]
    <3> TAKE j \in 1 .. lc
    <3>1. la + j \in 1 .. Len(ac) /\ Len(s) + j = ld + (la + j)
      <4>1. Len(ac) = la + lc /\ Len(s) = ld + la BY <1>4, <1>6
      <4> HIDE DEF la, ld, lc, s
      <4> QED BY <4>1, <1>3
    <3>2. t[ld + (la + j)] = ac[la + j] /\ ac[la + j] = code[j] BY <3>1, <1>4, <1>7
    <3> QED BY <3>1, <3>2
  <2> HIDE DEF s
  <2> QED BY <2>1, <2>2, <2>3 DEF Extends, s
<1> SUFFICES q \in Packed /\ Extends(d \o a, Stream(q), code) BY <1>5 DEF q
<1>8. CASE bp < 32
  <2>1. q = [dst |-> d, aux |-> ac] BY <1>1, <1>2, <1>8
  <2>2. q \in Packed
    <3>1. Len(ac) < 32 BY <1>4, <1>8
    <3> QED BY <2>1, <3>1, <1>1, <1>4 DEF Packed, WORD_BITS
  <2>3. Stream(q) = d \o ac BY <2>1 DEF Stream
  <2> DEFINE t == d \o ac
  <2>4. Len(t) = ld + Len(ac) /\ (\A j \in 1 .. ld : t[j] = d[j])
        /\ \A j \in 1 .. Len(ac) : t[ld + j] = ac[j]
    <3>1. d \in Seq(Bit) /\ ac \in Seq(Bit) BY <1>1, <1>4
    <3> QED BY <3>1, Joined
  <2> HIDE DEF t
  <2>5. Extends(d \o a, t, code) BY <2>4, <1>7
  <2> QED BY <2>2, <2>3, <2>5 DEF t
<1>9. CASE ~ bp < 32
  <2> DEFINE w == SubSeq(ac, 1, 32)  f == lc - (bp - 32) + 1  rest == SubSeq(code, f, lc)
  <2>1. q = [dst |-> d \o w, aux |-> rest] BY <1>2, <1>9
  <2>2. f \in Nat /\ 1 <= f /\ f <= lc + 1 /\ lc - f + 1 = bp - 32 /\ bp = la + lc /\ lc \in Nat
        /\ 32 <= la + lc
        /\ bp - 32 \in 0 .. 7
    <3>1. la < 32 /\ bp = la + lc /\ ~ bp < 32 BY <1>1, <1>9
    <3> HIDE DEF la, lc, bp
    <3> QED BY <3>1, <1>3
  <2>3. w \in Seq(Bit) /\ Len(w) = 32 /\ \A j \in 1 .. 32 : w[j] = ac[j]
    <3>1. ac \in Seq(Bit) /\ 32 <= Len(ac) BY <1>4, <2>2
    <3> DEFINE x == 1  y == 32
    <3>2. x \in Nat /\ y \in Nat /\ 1 <= x /\ x <= y + 1 /\ y <= Len(ac) BY <3>1
    <3>3. w = SubSeq(ac, x, y) OBVIOUS
    <3>4. y - x + 1 = 32 /\ \A j \in 1 .. 32 : x + j - 1 = j OBVIOUS
    <3> HIDE DEF w, x, y
    <3>5. /\ SubSeq(ac, x, y) \in Seq(Bit) /\ Len(SubSeq(ac, x, y)) = y - x + 1
          /\ \A j \in 1 .. (y - x + 1) : SubSeq(ac, x, y)[j] = ac[x + j - 1]
      BY <3>1, <3>2, Cut
    <3> QED BY <3>3, <3>4, <3>5
  <2>4. rest \in Seq(Bit) /\ Len(rest) = lc - f + 1
        /\ \A j \in 1 .. (lc - f + 1) : rest[j] = code[f + j - 1]
    <3>1. lc <= Len(code) /\ lc \in Nat /\ f \in Nat /\ 1 <= f /\ f <= lc + 1 BY <2>2
    <3> HIDE DEF f, lc
    <3> QED BY <3>1, Cut
  <2>5. Len(rest) = bp - 32 /\ \A j \in 1 .. (bp - 32) : rest[j] = ac[32 + j]
    <3>1. Len(rest) = bp - 32 BY <2>2, <2>4
    <3>2. \A j \in 1 .. (bp - 32) : rest[j] = ac[32 + j]
      <4> TAKE j \in 1 .. (bp - 32)
      <4>1. f + j - 1 \in 1 .. lc /\ 32 + j = la + (f + j - 1) /\ j \in 1 .. (lc - f + 1)
        <5>1. j \in 1 .. (bp - 32) OBVIOUS
        <5> HIDE DEF bp, la, lc
        <5> QED BY <5>1, <2>2, <1>3
      <4>2. ac[la + (f + j - 1)] = code[f + j - 1] BY <4>1, <1>4
      <4> HIDE DEF f, rest, lc, la, bp
      <4> QED BY <4>1, <4>2, <2>4
    <3> QED BY <3>1, <3>2
  <2> DEFINE g == d \o w
  <2>6. g \in Seq(Bit) /\ Len(g) = ld + 32 /\ (\A j \in 1 .. ld : g[j] = d[j])
        /\ \A j \in 1 .. 32 : g[ld + j] = w[j]
    <3> HIDE DEF w
    <3>1. d \in Seq(Bit) /\ w \in Seq(Bit) BY <1>1, <2>3
    <3>2. /\ d \o w \in Seq(Bit) /\ Len(d \o w) = Len(d) + Len(w)
          /\ \A j \in 1 .. Len(d) : (d \o w)[j] = d[j]
          /\ \A j \in 1 .. Len(w) : (d \o w)[Len(d) + j] = w[j]
      BY <3>1, Joined
    <3> QED BY <2>3, <3>2
  <2>7. q \in Packed
    <3>1. Len(g) % 32 = 0
      <4>1. ld % 32 = 0 BY <1>1
      <4> HIDE DEF ld, g
      <4> QED BY <4>1, <2>6, <1>3
    <3>2. Len(rest) < 32
      <4>1. Len(rest) = bp - 32 /\ bp - 32 \in 0 .. 7 BY <2>2, <2>5
      <4> HIDE DEF rest, bp
      <4> QED BY <4>1
    <3> HIDE DEF g, rest
    <3> QED BY <2>1, <2>4, <2>6, <3>1, <3>2 DEF Packed, WORD_BITS, g
  <2> DEFINE t == g \o rest
  <2>8. Stream(q) = t
    <3> HIDE DEF rest, w
    <3> QED BY <2>1 DEF Stream
  <2>9. Len(t) = (ld + 32) + Len(rest) /\ (\A j \in 1 .. (ld + 32) : t[j] = g[j])
        /\ \A j \in 1 .. Len(rest) : t[(ld + 32) + j] = rest[j]
    <3> HIDE DEF g, rest
    <3>1. Len(t) = Len(g) + Len(rest) /\ (\A j \in 1 .. Len(g) : t[j] = g[j])
          /\ \A j \in 1 .. Len(rest) : t[Len(g) + j] = rest[j]
      <4>1. g \in Seq(Bit) /\ rest \in Seq(Bit) BY <2>4, <2>6
      <4> QED BY <4>1, Joined
    <3> QED BY <3>1, <2>6
  <2> HIDE DEF t, g, rest, w
  <2>10. Len(t) = ld + Len(ac)
    <3>1. Len(ac) = la + lc /\ Len(rest) = bp - 32 /\ bp = la + lc BY <1>4, <2>2, <2>5
    <3> HIDE DEF ld, la, lc, bp
    <3> QED BY <3>1, <2>9, <1>3
  <2>11. \A j \in 1 .. ld : t[j] = d[j]
    <3> TAKE j \in 1 .. ld
    <3>1. j \in 1 .. (ld + 32) BY <1>3
    <3> QED BY <3>1, <2>6, <2>9
  <2>12. \A j \in 1 .. Len(ac) : t[ld + j] = ac[j]
    <3> TAKE j \in 1 .. Len(ac)
    <3>1. (j \in 1 .. 32 /\ ld + j \in 1 .. (ld + 32))
          \/ (j - 32 \in 1 .. (bp - 32) /\ ld + j = (ld + 32) + (j - 32) /\ 32 + (j - 32) = j)
      <4>1. Len(ac) = la + lc /\ bp = la + lc BY <1>4, <2>2
      <4> HIDE DEF ld, la, lc, bp
      <4> QED BY <4>1, <1>3
    <3>2. CASE j \in 1 .. 32 /\ ld + j \in 1 .. (ld + 32) BY <3>2, <2>3, <2>6, <2>9
    <3>3. CASE j - 32 \in 1 .. (bp - 32) /\ ld + j = (ld + 32) + (j - 32) /\ 32 + (j - 32) = j
      <4> DEFINE m == j - 32
      <4>1. m \in 1 .. (bp - 32) /\ ld + j = (ld + 32) + m /\ 32 + m = j BY <3>3
      <4> HIDE DEF m, bp, ld
      <4>2. rest[m] = ac[32 + m] /\ t[(ld + 32) + m] = rest[m] BY <4>1, <2>5, <2>9
      <4> QED BY <4>1, <4>2
    <3> QED BY <3>1, <3>2, <3>3
  <2> QED BY <2>7, <2>8, <2>10, <2>11, <2>12, <1>7
<1> QED BY <1>8, <1>9

(* The states Huffman goes through, to its result.                         *)
PackRun(P, out, n) ==
  /\ P[0] = [dst |-> <<>>, aux |-> <<>>]
  /\ \A i \in 1 .. Len(out) : P[i] = PackCode(P[i - 1], CodeOf(out, i, n))
  /\ \A i \in 0 .. Len(out) : P[i] \in Packed
  /\ Huffman(out, Len(out), n) = P[Len(out)].dst \o Padded(P[Len(out)].aux)

(* Huffman has such a run on all symbols.                                  *)
LEMMA HuffmanRuns ==
  ASSUME NEW out, NEW n, IsSymbols(out, n)
  PROVE  \E P : PackRun(P, out, n)
<1> DEFINE N == Len(out)  base == [dst |-> <<>>, aux |-> <<>>]
           Q(p, i) == PackCode(p, CodeOf(out, i, n))
           f == CHOOSE f : f = [k \in 0 .. N |-> IF k = 0 THEN base ELSE Q(f[k - 1], k)]
           T == [k \in 0 .. N |-> Packed]
           step == [x \in Packed \X (1 .. N) |-> Q(x[1], x[2])]
<1>1. Huffman(out, N, n) = f[N].dst \o Padded(f[N].aux) BY DEF Huffman, Loop, CodeOf
<1>2. N \in Nat BY DEF IsSymbols
<1>3. \A k \in 1 .. N : k - 1 \in 0 .. N /\ k \in 0 .. N /\ k # 0 BY <1>2
<1>4. \A k \in 0 .. N : k # 0 => k \in 1 .. N BY <1>2
<1>5. 0 \in 0 .. N /\ N \in 0 .. N BY <1>2
<1>6. base \in T[0]
  <2>1. Len(<<>>) = 0 /\ 0 % 32 = 0 /\ <<>> \in Seq(Bit) OBVIOUS
  <2>2. base \in Packed BY <2>1 DEF Packed, WORD_BITS
  <2> HIDE DEF N, base
  <2> QED BY <1>5, <2>2
<1>7. \A k \in 1 .. N : \A p \in Packed : Q(p, k) \in Packed
  <2> TAKE k \in 1 .. N
  <2> TAKE p \in Packed
  <2>1. CodeOf(out, k, n) \in Seq(Bit) /\ Len(CodeOf(out, k, n)) \in 1 .. 8 BY CodeFacts
  <2> QED BY <2>1, PackStep
<1>8. \A k \in 1 .. N : \A p \in T[k - 1] : step[<<p, k>>] \in T[k] /\ step[<<p, k>>] = Q(p, k)
  <2> TAKE k \in 1 .. N
  <2> TAKE p \in T[k - 1]
  <2>1. T[k - 1] = Packed /\ T[k] = Packed
    <3> HIDE DEF N
    <3> QED BY <1>3
  <2>2. p \in Packed /\ Q(p, k) \in Packed
    <3>1. p \in Packed BY <2>1
    <3> HIDE DEF Q, N, T
    <3> QED BY <1>7, <3>1
  <2>3. <<p, k>> \in Packed \X (1 .. N)
    <3> HIDE DEF N
    <3> QED BY <2>2
  <2>4. step[<<p, k>>] = Q(p, k)
    <3> HIDE DEF N
    <3> QED BY <2>3
  <2> HIDE DEF step, Q, T
  <2> QED BY <2>1, <2>2, <2>4
<1>9. PICK g : IsRun(g, N, T, base, step)
  <2> HIDE DEF T, step, N, base
  <2>1. Steps(N, T, base, step) BY <1>2, <1>6, <1>8 DEF Steps
  <2> QED BY <2>1, Recursion
<1> DEFINE q == [k \in 0 .. N |-> g[k]]
<1>10. \A k \in 1 .. N : g[k] = Q(g[k - 1], k)
  <2> HIDE DEF T, step, Q, N, base
  <2> QED BY <1>3, <1>8, <1>9 DEF IsRun
<1>11. q = [k \in 0 .. N |-> IF k = 0 THEN base ELSE Q(q[k - 1], k)]
  <2>1. g[0] = base BY <1>9 DEF IsRun
  <2> HIDE DEF Q, N, base
  <2> QED BY <1>3, <1>4, <1>10, <2>1
<1>12. f = [k \in 0 .. N |-> IF k = 0 THEN base ELSE Q(f[k - 1], k)]
  <2> HIDE DEF q, Q, N, base
  <2> QED BY <1>11
<1> HIDE DEF f
<1>13. f[0] = base /\ \A k \in 1 .. N : f[k] = Q(f[k - 1], k)
  <2> HIDE DEF Q, N, base
  <2> QED BY <1>3, <1>5, <1>12
<1>14. \A k \in 0 .. N : f[k] \in T[k]
  <2> DEFINE S == {k \in 0 .. N : f[k] \in T[k]}
  <2>1. 0 \in S
    <3> HIDE DEF T, N, base
    <3> QED BY <1>5, <1>6, <1>13
  <2>2. \A k \in 1 .. N : k - 1 \in S => k \in S
    <3> HIDE DEF T, Q, step, N
    <3> QED BY <1>3, <1>8, <1>13
  <2>3. \A k \in 0 .. N : k \in S
    <3> HIDE DEF S, N
    <3> QED BY <1>2, <2>1, <2>2, UpTo
  <2> QED BY <2>3
<1>15. \A k \in 0 .. N : f[k] \in Packed BY <1>14
<1>16. PackRun(f, out, n) BY <1>1, <1>13, <1>15 DEF PackRun
<1> QED BY <1>16

(* The bits packed are a sequence.                                         *)
LEMMA StreamNat ==
  ASSUME NEW p \in Packed
  PROVE  Stream(p) \in Seq(Bit) /\ Len(Stream(p)) \in Nat
<1>1. p.dst \in Seq(Bit) /\ p.aux \in Seq(Bit) BY DEF Packed
<1>2. p.dst \o p.aux \in Seq(Bit) BY <1>1, Joined
<1> DEFINE s == p.dst \o p.aux
<1>3. s \in Seq(Bit) BY <1>2
<1> HIDE DEF s
<1>4. Len(s) \in Nat BY <1>3
<1> QED BY <1>3, <1>4 DEF s, Stream

(* s is at the beginning of t.                                             *)
BeginsWith(t, s) == Len(t) >= Len(s) /\ \A j \in 1 .. Len(s) : t[j] = s[j]

(* What is packed stays.                                                   *)
LEMMA PackKeeps ==
  ASSUME NEW out, NEW n, NEW P, NEW i, IsSymbols(out, n), PackRun(P, out, n), i \in 0 .. Len(out)
  PROVE  BeginsWith(Stream(P[Len(out)]), Stream(P[i]))
<1> DEFINE N == Len(out)  L(m) == Len(Stream(P[m]))
           Same(m) == L(m) >= L(i) /\ \A j \in 1 .. L(i) : Stream(P[m])[j] = Stream(P[i])[j]
           S == {m \in 0 .. N : m >= i => Same(m)}
<1>1. N \in Nat BY DEF IsSymbols
<1>2. \A m \in 0 .. N : P[m] \in Packed /\ L(m) \in Nat BY StreamNat DEF PackRun
<1>3. Same(i)
  <2>1. L(i) \in Nat BY <1>2
  <2>2. L(i) >= L(i) BY <2>1
  <2> QED BY <2>2
<1>4. 0 \in S
  <2>1. 0 >= i => i = 0 BY <1>1
  <2>2. 0 \in 0 .. N BY <1>1
  <2> HIDE DEF Same
  <2> QED BY <1>3, <2>1, <2>2
<1>5. ASSUME NEW m \in 1 .. N, m - 1 \in S PROVE m \in S
  <2>1. m \in 0 .. N /\ m - 1 \in 0 .. N
    <3> HIDE DEF N
    <3> QED BY <1>1
  <2>2. CASE ~ m >= i BY <2>1, <2>2
  <2>3. CASE m = i
    <3> HIDE DEF Same
    <3> QED BY <2>1, <2>3, <1>3
  <2>4. CASE m >= i /\ m # i
    <3>1. m - 1 >= i BY <2>1, <2>4
    <3>2. Same(m - 1) BY <3>1, <1>5
    <3> DEFINE code == CodeOf(out, m, n)
    <3>3. code \in Seq(Bit) /\ Len(code) \in 1 .. 8 BY CodeFacts
    <3>4. P[m] = PackCode(P[m - 1], code) BY DEF PackRun
    <3>5. P[m - 1] \in Packed BY <1>2, <2>1
    <3>6. Extends(Stream(P[m - 1]), Stream(P[m]), code)
      <4> HIDE DEF code
      <4> QED BY <3>3, <3>4, <3>5, PackStep
    <3>7. L(m) = L(m - 1) + Len(code)
          /\ \A j \in 1 .. L(m - 1) : Stream(P[m])[j] = Stream(P[m - 1])[j]
      BY <3>6 DEF Extends
    <3>8. L(m) >= L(i) /\ 1 .. L(i) \subseteq 1 .. L(m - 1)
      <4>1. L(m) \in Nat /\ L(m - 1) \in Nat /\ L(i) \in Nat /\ L(m - 1) >= L(i) BY <1>2, <2>1, <3>2
      <4> DEFINE x == L(m)  y == L(m - 1)  z == L(i)  w == Len(code)
      <4>2. x \in Nat /\ y \in Nat /\ z \in Nat /\ y >= z /\ w \in 1 .. 8 /\ x = y + w
        BY <4>1, <3>3, <3>7
      <4> HIDE DEF x, y, z, w
      <4>3. x >= z /\ 1 .. z \subseteq 1 .. y BY <4>2
      <4> QED BY <4>3 DEF x, y, z
    <3>9. Same(m) BY <3>2, <3>7, <3>8
    <3> HIDE DEF Same
    <3> QED BY <2>1, <3>9
  <2> QED BY <2>2, <2>3, <2>4
<1>6. \A m \in 0 .. N : m \in S
  <2> HIDE DEF S, N
  <2> QED BY <1>1, <1>4, <1>5, UpTo
<1>7. N \in 0 .. N /\ N >= i BY <1>1
<1>8. Same(N)
  <2> HIDE DEF Same
  <2> QED BY <1>6, <1>7
<1> QED BY <1>8 DEF BeginsWith

(* What the last byte is filled up with.                                   *)
LEMMA PadFacts ==
  ASSUME NEW x \in Nat
  PROVE  (-x) % 8 \in 0 .. 7 /\ (x + ((-x) % 8)) % 8 = 0
BY SMT

(* The last word is cut behind its last byte in use, and no bit is lost.   *)
LEMMA LastWord ==
  ASSUME NEW p \in Packed, NEW D, D = p.dst \o Padded(p.aux)
  PROVE  /\ D \in Seq(Bit) /\ Len(D) % 8 = 0 /\ Len(Stream(p)) <= Len(D)
         /\ Len(D) < Len(Stream(p)) + 8
         /\ \A j \in 1 .. Len(Stream(p)) : D[j] = Stream(p)[j]
<1> DEFINE d == p.dst  a == p.aux  z == (-Len(a)) % 8  pad == [i \in 1 .. z |-> 0]
<1>1. d \in Seq(Bit) /\ a \in Seq(Bit) /\ Len(d) % 32 = 0 /\ Len(d) \in Nat /\ Len(a) \in Nat
  BY DEF Packed, WORD_BITS
<1>2. Stream(p) = d \o a /\ D = d \o (a \o pad) BY DEF Stream, Padded
<1> HIDE DEF d, a
<1>3. z \in 0 .. 7 /\ (Len(a) + z) % 8 = 0 BY <1>1, PadFacts
<1> HIDE DEF z
<1>4. pad \in Seq(Bit) /\ Len(pad) = z
  <2>1. z \in Nat /\ 0 \in Bit BY <1>3 DEF Bit
  <2>2. pad \in [1 .. z -> Bit] BY <2>1
  <2> QED BY <2>1, <2>2
<1> HIDE DEF pad
<1> DEFINE ap == a \o pad  s == d \o a  t == d \o ap
<1>5. ap \in Seq(Bit) /\ Len(ap) = Len(a) + Len(pad) /\ \A j \in 1 .. Len(a) : ap[j] = a[j]
  BY <1>1, <1>4, Joined
<1>6. /\ s \in Seq(Bit) /\ Len(s) = Len(d) + Len(a) /\ \A j \in 1 .. Len(d) : s[j] = d[j]
      /\ \A j \in 1 .. Len(a) : s[Len(d) + j] = a[j]
  BY <1>1, Joined
<1> HIDE DEF ap
<1>7. /\ t \in Seq(Bit) /\ Len(t) = Len(d) + Len(ap) /\ \A j \in 1 .. Len(d) : t[j] = d[j]
      /\ \A j \in 1 .. Len(ap) : t[Len(d) + j] = ap[j]
  <2>1. d \in Seq(Bit) /\ ap \in Seq(Bit) BY <1>1, <1>5
  <2> QED BY <2>1, Joined
<1> HIDE DEF s, t
<1> DEFINE ld == Len(d)  la == Len(a)
<1>8. ld \in Nat /\ la \in Nat /\ ld % 32 = 0 /\ Len(s) = ld + la /\ Len(t) = ld + (la + z)
      /\ Len(ap) = la + z
  BY <1>1, <1>4, <1>5, <1>6, <1>7
<1> HIDE DEF ld, la
<1>9. (ld + (la + z)) % 8 = 0 /\ ld + la <= ld + (la + z) /\ ld + (la + z) < (ld + la) + 8
  <2>1. (la + z) % 8 = 0 BY <1>3 DEF la
  <2>2. ld \in Nat /\ la \in Nat /\ z \in Nat /\ z < 8 /\ ld % 32 = 0 BY <1>3, <1>8
  <2>3. (ld + (la + z)) % 8 = 0
    <3> DEFINE v == la + z
    <3>1. v \in Nat /\ v % 8 = 0 BY <2>1, <2>2
    <3> HIDE DEF v
    <3> QED BY <2>2, <3>1 DEF v
  <2> QED BY <2>2, <2>3
<1>10. \A j \in 1 .. Len(s) : t[j] = s[j]
  <2> TAKE j \in 1 .. Len(s)
  <2>1. j \in 1 .. ld \/ (j - ld \in 1 .. la /\ j - ld \in 1 .. Len(ap) /\ ld + (j - ld) = j)
    BY <1>8, <1>3
  <2>2. CASE j \in 1 .. ld BY <2>2, <1>6, <1>7 DEF ld
  <2>3. CASE j - ld \in 1 .. la /\ j - ld \in 1 .. Len(ap) /\ ld + (j - ld) = j
    <3> DEFINE m == j - ld
    <3>1. m \in 1 .. la /\ m \in 1 .. Len(ap) /\ ld + m = j BY <2>3
    <3> HIDE DEF m
    <3>2. t[ld + m] = ap[m] /\ s[ld + m] = a[m] /\ ap[m] = a[m] BY <3>1, <1>5, <1>6, <1>7 DEF ld, la
    <3> QED BY <3>1, <3>2
  <2> QED BY <2>1, <2>2, <2>3
<1>11. D = t /\ Stream(p) = s BY <1>2 DEF s, t, ap
<1> QED BY <1>7, <1>8, <1>9, <1>10, <1>11

(* The bytes of a block: the code of the i-th symbol begins behind bit     *)
(* pos[i - 1].                                                             *)
IsCoded(D, pos, out, n) ==
  LET N == Len(out) IN
  /\ D \in Seq(Bit) /\ Len(D) % 8 = 0
  /\ pos[0] = 0 /\ \A i \in 0 .. N : pos[i] \in Nat /\ pos[i] <= pos[N]
  /\ \A i \in 1 .. N : pos[i] = pos[i - 1] + Len(CodeOf(out, i, n))
  /\ pos[N] <= Len(D) /\ Len(D) < pos[N] + 8
  /\ \A i \in 1 .. N : \A j \in 1 .. Len(CodeOf(out, i, n)) : D[pos[i - 1] + j]
     = CodeOf(out, i, n)[j]

(* Huffman writes the codes one after the other, to less than a byte from  *)
(* the end.                                                                *)
LEMMA HuffmanFacts ==
  ASSUME NEW out, NEW n, IsSymbols(out, n)
  PROVE  \E pos : IsCoded(Huffman(out, Len(out), n), pos, out, n)
<1> DEFINE N == Len(out)  D == Huffman(out, N, n)
<1>1. PICK P : PackRun(P, out, n) BY HuffmanRuns
<1> DEFINE s(i) == Stream(P[i])
           pos == [i \in 0 .. N |-> Len(s(i))]
           C(i) == CodeOf(out, i, n)
<1>2. N \in Nat BY DEF IsSymbols
<1>3. \A i \in 0 .. N : P[i] \in Packed BY <1>1 DEF PackRun
<1>4. \A i \in 0 .. N : s(i) \in Seq(Bit) /\ Len(s(i)) \in Nat
  <2> HIDE DEF N
  <2> QED BY <1>3, StreamNat
<1>5. \A i \in 0 .. N : pos[i] = Len(s(i)) OBVIOUS
<1>6. 0 \in 0 .. N /\ N \in 0 .. N BY <1>2
<1>7. \A i \in 1 .. N : i - 1 \in 0 .. N /\ i \in 0 .. N BY <1>2
<1>8. D = P[N].dst \o Padded(P[N].aux) BY <1>1 DEF PackRun
<1>9. P[N] \in Packed
  <2> HIDE DEF N
  <2> QED BY <1>3, <1>6
<1>10. /\ D \in Seq(Bit) /\ Len(D) % 8 = 0 /\ Len(s(N)) <= Len(D) /\ Len(D) < Len(s(N)) + 8
       /\ \A j \in 1 .. Len(s(N)) : D[j] = s(N)[j]
  <2> HIDE DEF D, N
  <2> QED BY <1>8, <1>9, LastWord
<1>11. s(0) = <<>> \o <<>> BY <1>1 DEF PackRun, Stream
<1>12. pos[0] = 0
  <2>1. <<>> \o <<>> = <<>> /\ Len(<<>>) = 0 OBVIOUS
  <2> HIDE DEF N, s, pos
  <2> QED BY <1>5, <1>6, <1>11, <2>1
<1>13. \A i \in 1 .. N : Extends(s(i - 1), s(i), C(i))
  <2> TAKE i \in 1 .. N
  <2>1. C(i) \in Seq(Bit) /\ Len(C(i)) \in 1 .. 8 BY CodeFacts
  <2>2. P[i] = PackCode(P[i - 1], C(i)) BY <1>1 DEF PackRun
  <2>3. P[i - 1] \in Packed
    <3> HIDE DEF N
    <3> QED BY <1>3, <1>7
  <2> HIDE DEF C
  <2> QED BY <2>1, <2>2, <2>3, PackStep
<1>14. \A i \in 0 .. N : Len(s(N)) >= Len(s(i)) /\ \A j \in 1 .. Len(s(i)) : s(N)[j] = s(i)[j]
  <2> TAKE i \in 0 .. N
  <2>1. i \in 0 .. Len(out) OBVIOUS
  <2>2. BeginsWith(Stream(P[Len(out)]), Stream(P[i])) BY <1>1, <2>1, PackKeeps
  <2> QED BY <2>2 DEF BeginsWith
<1> HIDE DEF s, pos, C, N, D
<1>15. \A i \in 1 .. N : pos[i] = pos[i - 1] + Len(C(i)) BY <1>5, <1>7, <1>13 DEF Extends
<1>16. \A i \in 0 .. N : pos[i] \in Nat /\ pos[i] <= pos[N]
  <2> TAKE i \in 0 .. N
  <2>1. pos[i] = Len(s(i)) /\ pos[N] = Len(s(N)) /\ Len(s(i)) \in Nat /\ Len(s(N)) \in Nat
        /\ Len(s(N)) >= Len(s(i))
    BY <1>4, <1>5, <1>6, <1>14
  <2> QED BY <2>1
<1>17. \A i \in 1 .. N : \A j \in 1 .. Len(C(i)) : D[pos[i - 1] + j] = C(i)[j]
  <2> TAKE i \in 1 .. N
  <2> TAKE j \in 1 .. Len(C(i))
  <2> DEFINE a == Len(s(i - 1))  b == Len(s(i))  c == Len(C(i))  m == Len(s(N))
  <2>1. a \in Nat /\ b \in Nat /\ m \in Nat /\ b = a + c /\ b <= m
    <3>1. i \in 0 .. N /\ i - 1 \in 0 .. N BY <1>7
    <3>2. a \in Nat /\ b \in Nat /\ m \in Nat /\ m >= b BY <3>1, <1>4, <1>6, <1>14
    <3>3. b = a + c BY <1>13 DEF Extends
    <3> HIDE DEF a, b, c, m
    <3> QED BY <3>2, <3>3
  <2>2. c \in Nat
    <3>1. C(i) \in Seq(Bit) BY CodeFacts DEF C, N
    <3> QED BY <3>1
  <2>3. j \in 1 .. c OBVIOUS
  <2> HIDE DEF a, b, c, m
  <2>4. a + j \in 1 .. b /\ a + j \in 1 .. m BY <2>1, <2>2, <2>3
  <2>5. s(i)[a + j] = C(i)[j] BY <1>13, <2>3 DEF Extends, a, c
  <2>6. s(N)[a + j] = s(i)[a + j] BY <1>7, <1>14, <2>4 DEF b
  <2>7. D[a + j] = s(N)[a + j] BY <1>10, <2>4 DEF m
  <2>8. pos[i - 1] = a BY <1>5, <1>7 DEF a
  <2> QED BY <2>5, <2>6, <2>7, <2>8
<1>18. pos[N] = Len(s(N)) BY <1>5, <1>6
<1>19. IsCoded(D, pos, out, n)
  BY <1>10, <1>12, <1>15, <1>16, <1>17, <1>18 DEF IsCoded, N, C
<1> QED BY <1>19 DEF D, N

(* Where the codes end: at most seven bits for a hop.                      *)
LEMMA Ends ==
  ASSUME NEW out, NEW n, NEW D, NEW pos, IsSymbols(out, n), IsCoded(D, pos, out, n)
  PROVE  \A i \in 0 .. Len(out) :
           (i <= n => pos[i] = 8 * i) /\ (i >= n => pos[i] <= 8 * n + 7 * (i - n))
<1> DEFINE N == Len(out)
           S == {i \in 0 .. N : (i <= n => pos[i] = 8 * i)
                /\ (i >= n => pos[i] <= 8 * n + 7 * (i - n))}
<1>1. N \in Nat /\ n \in {1, 3} BY DEF IsSymbols
<1>2. 0 \in S
  <2>1. pos[0] = 0 BY DEF IsCoded
  <2>2. 0 \in 0 .. N /\ (0 <= n) /\ ~ (0 >= n) BY <1>1
  <2> QED BY <2>1, <2>2
<1>3. ASSUME NEW i \in 1 .. N, i - 1 \in S PROVE i \in S
  <2> DEFINE c == Len(CodeOf(out, i, n))
  <2>1. c \in 1 .. 8 /\ (i <= n => c = 8) /\ (~ i <= n => c <= 7) BY CodeFacts
  <2>2. pos[i] = pos[i - 1] + c BY DEF IsCoded
  <2>3. i \in 0 .. N /\ i - 1 \in 0 .. N BY <1>1
  <2>4. pos[i - 1] \in Nat BY <2>3 DEF IsCoded
  <2> DEFINE a == pos[i - 1]
  <2>5. (i - 1 <= n => a = 8 * (i - 1)) /\ (i - 1 >= n => a <= 8 * n + 7 * ((i - 1) - n)) BY <1>3
  <2> HIDE DEF c, a
  <2>6. (i <= n => a + c = 8 * i) /\ (i >= n => a + c <= 8 * n + 7 * (i - n))
    <3>1. a \in Nat /\ i \in Nat BY <2>4, <2>3 DEF a
    <3>2. CASE n = 1 BY <2>1, <2>5, <3>1, <3>2
    <3>3. CASE n = 3 BY <2>1, <2>5, <3>1, <3>3
    <3> QED BY <1>1, <3>2, <3>3
  <2> QED BY <2>2, <2>3, <2>6 DEF a
<1>4. \A i \in 0 .. N : i \in S
  <2> HIDE DEF S, N
  <2> QED BY <1>1, <1>2, <1>3, UpTo
<1> QED BY <1>4

(* A block is not larger than its symbols would be as bytes.               *)
LEMMA CodedSize ==
  ASSUME NEW out, NEW n, NEW D, NEW pos, IsSymbols(out, n), IsCoded(D, pos, out, n)
  PROVE  Len(D) <= 8 * Len(out)
<1> DEFINE N == Len(out)  p == pos[N]  d == Len(D)
<1>1. N \in Nat /\ n \in {1, 3} /\ N >= n BY DEF IsSymbols
<1>2. N \in 0 .. N BY <1>1
<1>3. p \in Nat /\ (N <= n => p = 8 * N) /\ p <= 8 * n + 7 * (N - n)
  <2>1. (N <= n => pos[N] = 8 * N) /\ (N >= n => pos[N] <= 8 * n + 7 * (N - n)) BY <1>2, Ends
  <2>2. pos[N] \in Nat BY <1>2 DEF IsCoded
  <2> QED BY <2>1, <2>2, <1>1
<1>4. D \in Seq(Bit) /\ d % 8 = 0 /\ d < p + 8 BY DEF IsCoded
<1>5. d \in Nat BY <1>4
<1> HIDE DEF N, p, d
<1>6. d <= 8 * N
  <2>1. CASE N = n BY <2>1, <1>1, <1>3, <1>4, <1>5
  <2>2. CASE N > n
    <3>1. d < 8 * N + 7 BY <2>2, <1>1, <1>3, <1>4, <1>5
    <3> QED BY <3>1, <1>1, <1>4, <1>5
  <2> QED BY <1>1, <2>1, <2>2
<1> QED BY <1>6 DEF N, d

-----------------------------------------------------------------------------
(* The decoder's bits (inv_Huffman).                                       *)

(* A bit of the decoder's buffer; behind its end it does not matter.       *)
BitAt(src, i) == IF i <= Len(src) THEN src[i] ELSE 0

(* The bits of a byte of the buffer.                                       *)
LEMMA ByteAtIs ==
  ASSUME NEW src \in Seq(Bit), NEW i \in Nat
  PROVE  /\ ByteAt(src, i) \in Seq(Bit) /\ Len(ByteAt(src, i)) = 8
         /\ \A b \in 1 .. 8 : ByteAt(src, i)[b] = BitAt(src, 8 * i + b)
<1> DEFINE t == ByteAt(src, i)
<1>1. t = [b \in 1 .. 8 |-> BitAt(src, 8 * i + b)] BY DEF ByteAt, BitAt
<1>2. \A b \in 1 .. 8 : BitAt(src, 8 * i + b) \in Bit
  <2> TAKE b \in 1 .. 8
  <2>1. 8 * i + b \in Nat /\ 8 * i + b >= 1 OBVIOUS
  <2> DEFINE j == 8 * i + b
  <2> HIDE DEF j
  <2>2. CASE j <= Len(src)
    <3>1. j \in 1 .. Len(src) BY <2>1, <2>2 DEF j
    <3>2. src[j] \in Bit BY <3>1
    <3> QED BY <3>2, <2>2 DEF BitAt, j
  <2>3. CASE ~ j <= Len(src) BY <2>3 DEF BitAt, j, Bit
  <2> QED BY <2>2, <2>3
<1> HIDE DEF t
<1>3. t \in [1 .. 8 -> Bit] BY <1>1, <1>2
<1>4. t \in Seq(Bit) /\ Len(t) = 8 BY <1>3, <1>1
<1>5. \A b \in 1 .. 8 : t[b] = BitAt(src, 8 * i + b) BY <1>1
<1> QED BY <1>4, <1>5 DEF t

(* The buffer of a block, with D at its beginning and anything behind.     *)
IsBuffer(src, D) ==
  src \in Seq(Bit) /\ Len(D) <= Len(src) /\ \A j \in 1 .. Len(D) : src[j] = D[j]

(* inv_Huffman's two bytes are those in front of src_idx.                  *)
Window(u, src) ==
  u.buffer \in Seq(Bit) /\ Len(u.buffer) = 16
  /\ \A b \in 1 .. 16 : u.buffer[b] = BitAt(src, 8 * (u.src_idx - 2) + b)

(* How far inv_Huffman has read after k symbols: to bit p, and no byte     *)
(* ahead of what the codes so far can take.                                *)
Reached(u, k, p, n) ==
  /\ u.src_idx \in Nat /\ u.src_idx >= n + 2 /\ u.bit_ptr \in 0 .. 16
  /\ 8 * (u.src_idx - 2) + u.bit_ptr = p
  /\ (u.src_idx = n + 2 \/ 8 * (u.src_idx - n - 2) <= 7 * k - 9)

(* The first m symbols.                                                    *)
Matches(dst, m, out) ==
  dst \in Seq(Int) /\ Len(dst) = m /\ \A i \in 1 .. m : dst[i] = out[i]

(* The states of inv_Huffman.                                              *)
ReaderStates == [dst : Seq(Int), buffer : Seq(Bit), src_idx : Nat, bit_ptr : Nat]

(* The states inv_Huffman may be in after k hops: it stands where the next *)
(* code begins.                                                            *)
Read(k, src, out, pos, n) ==
  {u \in ReaderStates : Window(u, src) /\ Reached(u, k, pos[n + k], n)
    /\ Matches(u.dst, n + k, out)}

(* A byte is shifted in when fewer than seven bits are left, and not       *)
(* before.                                                                 *)
LEMMA RefillStep ==
  ASSUME NEW src, NEW u, NEW r, NEW k, NEW p, NEW n, NEW m, NEW out,
         src \in Seq(Bit), u \in ReaderStates, r = Refill(src, u), k \in Nat, k >= 1, n \in {1, 3},
         p \in Nat, p <= 8 * n + 7 * (k - 1),
         Window(u, src), Reached(u, k - 1, p, n), Matches(u.dst, m, out)
  PROVE  /\ r \in ReaderStates /\ r.bit_ptr <= 9
         /\ Window(r, src) /\ Reached(r, k, p, n) /\ Matches(r.dst, m, out)
<1> DEFINE s == u.src_idx  b == u.bit_ptr  w == u.buffer
<1>1. s \in Nat /\ b \in 0 .. 16 /\ s >= n + 2 /\ 8 * (s - 2) + b = p
      /\ (s = n + 2 \/ 8 * (s - n - 2) <= 7 * (k - 1) - 9)
  BY DEF Reached
<1>2. w \in Seq(Bit) /\ Len(w) = 16 /\ \A i \in 1 .. 16 : w[i] = BitAt(src, 8 * (s - 2) + i)
  BY DEF Window
<1>3. CASE b <= 9
  <2>1. r = u BY <1>3 DEF Refill, MAX_BIT_PTR, BUFFER_BITS, LARGEST_CODE
  <2>2. Reached(u, k, p, n)
    <3> HIDE DEF s, b
    <3>1. s = n + 2 \/ 8 * (s - n - 2) <= 7 * k - 9 BY <1>1
    <3> QED BY <1>1, <3>1 DEF Reached, s, b
  <2> QED BY <2>1, <2>2, <1>3
<1>4. CASE ~ b <= 9
  <2> DEFINE x == SubSeq(w, 9, 16)  y == ByteAt(src, s)  z == x \o y
  <2>1. r = [dst |-> u.dst, buffer |-> z, src_idx |-> s + 1, bit_ptr |-> b - 8]
    BY <1>4 DEF Refill, MAX_BIT_PTR, BUFFER_BITS, LARGEST_CODE
  <2>2. x \in Seq(Bit) /\ Len(x) = 8 /\ \A i \in 1 .. 8 : x[i] = w[8 + i]
    <3>1. /\ SubSeq(w, 9, 16) \in Seq(Bit) /\ Len(SubSeq(w, 9, 16)) = 16 - 9 + 1
          /\ \A j \in 1 .. (16 - 9 + 1) : SubSeq(w, 9, 16)[j] = w[9 + j - 1]
      <4>1. w \in Seq(Bit) /\ 9 \in Nat /\ 16 \in Nat /\ 1 <= 9 /\ 9 <= 16 + 1 /\ 16 <= Len(w)
        BY <1>2
      <4> HIDE DEF w
      <4> QED BY <4>1, Cut
    <3>2. 16 - 9 + 1 = 8 /\ \A j \in 1 .. 8 : 9 + j - 1 = 8 + j OBVIOUS
    <3> HIDE DEF w
    <3> QED BY <3>1, <3>2
  <2>3. y \in Seq(Bit) /\ Len(y) = 8 /\ \A i \in 1 .. 8 : y[i] = BitAt(src, 8 * s + i)
    BY <1>1, ByteAtIs
  <2> HIDE DEF x, y
  <2>4. z \in Seq(Bit) /\ Len(z) = Len(x) + Len(y) /\ (\A j \in 1 .. Len(x) : z[j] = x[j])
        /\ \A j \in 1 .. Len(y) : z[Len(x) + j] = y[j]
    <3>1. x \in Seq(Bit) /\ y \in Seq(Bit) BY <2>2, <2>3
    <3> QED BY <3>1, Joined
  <2> HIDE DEF z
  <2>5. Len(z) = 16 BY <2>2, <2>3, <2>4
  <2>6. \A i \in 1 .. 16 : z[i] = BitAt(src, 8 * ((s + 1) - 2) + i)
    <3> TAKE i \in 1 .. 16
    <3>1. CASE i <= 8
      <4>1. i \in 1 .. 8 /\ 8 + i \in 1 .. 16 /\ 8 * (s - 2) + (8 + i) = 8 * ((s + 1) - 2) + i
        <5> HIDE DEF s
        <5> QED BY <3>1, <1>1
      <4>2. z[i] = w[8 + i] BY <4>1, <2>2, <2>4
      <4>3. w[8 + i] = BitAt(src, 8 * (s - 2) + (8 + i)) BY <4>1, <1>2
      <4> QED BY <4>1, <4>2, <4>3
    <3>2. CASE ~ i <= 8
      <4> DEFINE j == i - 8
      <4>1. j \in 1 .. 8 /\ 8 + j = i /\ 8 * s + j = 8 * ((s + 1) - 2) + i
        <5> HIDE DEF s
        <5> QED BY <3>2, <1>1
      <4> HIDE DEF j
      <4>2. z[8 + j] = y[j] BY <4>1, <2>2, <2>3, <2>4
      <4>3. y[j] = BitAt(src, 8 * s + j) BY <4>1, <2>3
      <4> QED BY <4>1, <4>2, <4>3
    <3> QED BY <3>1, <3>2
  <2> HIDE DEF s, b, w
  <2>7. /\ s + 1 \in Nat /\ s + 1 >= n + 2 /\ b - 8 \in 0 .. 16 /\ 8 * ((s + 1) - 2) + (b - 8) = p
        /\ 8 * ((s + 1) - n - 2) <= 7 * k - 9 /\ b - 8 <= 9 /\ b - 8 \in Nat
    BY <1>1, <1>4
  <2>8. u.dst \in Seq(Int) BY DEF Matches
  <2> DEFINE d == u.dst
  <2>13. d \in Seq(Int) BY <2>8
  <2> HIDE DEF d
  <2>14. r = [dst |-> d, buffer |-> z, src_idx |-> s + 1, bit_ptr |-> b - 8] BY <2>1 DEF d
  <2>9. r \in ReaderStates /\ r.bit_ptr <= 9
    <3> DEFINE s1 == s + 1  b1 == b - 8
    <3>1. s1 \in Nat /\ b1 \in Nat /\ b1 <= 9 /\ z \in Seq(Bit) BY <2>4, <2>7
    <3>2. r = [dst |-> d, buffer |-> z, src_idx |-> s1, bit_ptr |-> b1] BY <2>14
    <3> HIDE DEF s1, b1
    <3>3. r \in ReaderStates BY <3>1, <3>2, <2>13 DEF ReaderStates
    <3>4. r.bit_ptr = b1 BY <3>2
    <3>5. r.bit_ptr <= 9 BY <3>1, <3>4
    <3> QED BY <3>3, <3>5
  <2>10. Window(r, src)
    <3>1. r.buffer = z /\ r.src_idx = s + 1 BY <2>14
    <3> QED BY <3>1, <2>4, <2>5, <2>6 DEF Window
  <2>11. Reached(r, k, p, n) BY <2>1, <2>7 DEF Reached
  <2>12. Matches(r.dst, m, out) BY <2>1
  <2> QED BY <2>9, <2>10, <2>11, <2>12
<1> QED BY <1>3, <1>4

(* One turn of inv_Huffman's loop reads the symbol that was written.       *)
LEMMA UnpackStep ==
  ASSUME NEW src, NEW D, NEW pos, NEW out, NEW n, NEW k, NEW u,
         IsSymbols(out, n), IsCoded(D, pos, out, n), IsBuffer(src, D),
         k \in 1 .. (Len(out) - n), u \in Read(k - 1, src, out, pos, n)
  PROVE  UnpackSymbol(src, u) \in Read(k, src, out, pos, n)
<1> DEFINE r == Refill(src, u)  p == pos[n + (k - 1)]  i == n + k  m == n + (k - 1)  N == Len(out)
           hop == NextHop(r.buffer, r.bit_ptr)  c == Len(huff_tree(hop))  v == UnpackSymbol(src, u)
<1>1. N \in Nat /\ n \in {1, 3} /\ N >= n /\ k \in Nat /\ k >= 1 /\ k <= N - n BY DEF IsSymbols
<1>2. i \in 1 .. N /\ m \in 0 .. N /\ i = m + 1 /\ i - 1 = m /\ ~ i <= n /\ m >= n /\ m - n = k - 1
      /\ i \in 0 .. N
  <2> HIDE DEF N
  <2> QED BY <1>1
<1>3. p \in Nat /\ p <= 8 * n + 7 * (k - 1)
  <2>1. p \in Nat BY <1>2 DEF IsCoded
  <2>2. pos[m] <= 8 * n + 7 * (m - n) BY <1>2, Ends
  <2> QED BY <2>1, <2>2, <1>2
<1>4. u \in ReaderStates /\ Window(u, src) /\ Reached(u, k - 1, p, n) /\ Matches(u.dst, m, out)
  BY DEF Read
<1>5. src \in Seq(Bit) BY DEF IsBuffer
<1>6. /\ r \in ReaderStates /\ r.bit_ptr <= 9
      /\ Window(r, src) /\ Reached(r, k, p, n) /\ Matches(r.dst, m, out)
  <2> HIDE DEF r, p, m
  <2> QED BY <1>1, <1>3, <1>4, <1>5, RefillStep DEF r
<1> DEFINE code == CodeOf(out, i, n)  o == out[i]
<1>7. code = huff_tree(o) /\ Len(code) \in 1 .. 7 /\ o \in Hops
  <2>1. Len(code) \in 1 .. 8 /\ Len(code) <= 7 /\ code = huff_tree(o) BY <1>2, CodeFacts
  <2>2. o \in Hops BY <1>2 DEF IsSymbols
  <2> HIDE DEF o, code
  <2>3. \A l \in 1 .. 8 : l <= 7 => l \in 1 .. 7 OBVIOUS
  <2> QED BY <2>1, <2>2, <2>3
<1>8. pos[i] = p + Len(code) /\ \A j \in 1 .. Len(code) : D[p + j] = code[j]
  BY <1>2 DEF IsCoded
<1>9. pos[i] <= Len(D) /\ pos[i] \in Nat
  <2>1. pos[i] \in Nat /\ pos[N] \in Nat /\ pos[i] <= pos[N] /\ pos[N] <= Len(D)
    <3>1. N \in 0 .. N BY <1>1
    <3> QED BY <3>1, <1>2 DEF IsCoded
  <2>2. Len(D) \in Nat
    <3>1. D \in Seq(Bit) BY DEF IsCoded
    <3> QED BY <3>1
  <2> QED BY <2>1, <2>2
<1> DEFINE b == r.bit_ptr  s == r.src_idx  w == r.buffer
<1>10. s \in Nat /\ s >= n + 2 /\ b \in 0 .. 16 /\ b <= 9 /\ 8 * (s - 2) + b = p
       /\ (s = n + 2 \/ 8 * (s - n - 2) <= 7 * k - 9)
  BY <1>6 DEF Reached
<1>11. \A j \in 1 .. Len(code) : w[b + j] = code[j]
  <2> TAKE j \in 1 .. Len(code)
  <2>1. b + j \in 1 .. 16 /\ 8 * (s - 2) + (b + j) = p + j /\ p + j \in 1 .. Len(D)
    <3> DEFINE q == Len(code)  e == Len(D)
    <3>1. q \in 1 .. 7 /\ j \in 1 .. q /\ pos[i] = p + q BY <1>7, <1>8
    <3>2. pos[i] <= e /\ e \in Nat
      <4>1. D \in Seq(Bit) BY DEF IsCoded
      <4> QED BY <4>1, <1>9
    <3> HIDE DEF b, s, p, code, q, e, i
    <3>3. p + q <= e BY <3>1, <3>2
    <3>4. b + j \in 1 .. 16 /\ 8 * (s - 2) + (b + j) = p + j BY <3>1, <1>10
    <3>5. p + j \in 1 .. e
      <4>1. q \in Nat /\ j \in Nat /\ 1 <= j /\ j <= q BY <3>1
      <4>2. p \in Nat BY <1>3
      <4> QED BY <4>1, <4>2, <3>2, <3>3
    <3> QED BY <3>4, <3>5 DEF e
  <2>2. w[b + j] = BitAt(src, 8 * (s - 2) + (b + j)) BY <2>1, <1>6 DEF Window
  <2>3. src[p + j] = D[p + j] BY <2>1 DEF IsBuffer
  <2>4. BitAt(src, p + j) = src[p + j]
    <3>1. p + j <= Len(src)
      <4>1. p + j \in 1 .. Len(D) /\ Len(D) <= Len(src) /\ Len(src) \in Nat /\ Len(D) \in Nat
        BY <2>1, <1>5 DEF IsBuffer, IsCoded
      <4> HIDE DEF p
      <4> QED BY <4>1, <1>3
    <3> QED BY <3>1 DEF BitAt
  <2>5. D[p + j] = code[j] BY <1>8
  <2> HIDE DEF p, w, b, s, code
  <2> QED BY <2>1, <2>2, <2>3, <2>4, <2>5
<1>12. hop = o
  <2>1. \A j \in 1 .. Len(huff_tree(o)) : w[b + j] = huff_tree(o)[j]
    <3> HIDE DEF code, o, w, b
    <3> QED BY <1>7, <1>11
  <2>2. b \in Nat
    <3> HIDE DEF b
    <3> QED BY <1>10
  <2> HIDE DEF b, w, o
  <2>3. NextHop(w, b) = o BY <1>7, <2>1, <2>2, NextHopFound
  <2> QED BY <2>3 DEF w, b
<1> DEFINE d == r.dst
<1>13. v = [dst |-> Append(d, o), buffer |-> w, src_idx |-> s, bit_ptr |-> b + Len(code)]
  <2>1. v
        = [dst |-> Append(d, hop), buffer |-> w, src_idx |-> s, bit_ptr |-> b + Len(huff_tree(hop))]
    BY DEF UnpackSymbol
  <2> HIDE DEF v, d, w, s, b, hop, o, code
  <2> QED BY <2>1, <1>7, <1>12
<1>14. o \in Int BY <1>7 DEF Hops
<1>15. Matches(Append(d, o), i, out)
  <2>1. d \in Seq(Int) /\ Len(d) = m /\ \A j \in 1 .. m : d[j] = out[j] BY <1>6 DEF Matches
  <2> DEFINE t == Append(d, o)
  <2> HIDE DEF d
  <2>2. t \in Seq(Int) /\ Len(t) = Len(d) + 1 /\ (\A j \in 1 .. Len(d) : t[j] = d[j])
        /\ t[Len(d) + 1] = o
    BY <2>1, <1>14, Appended
  <2> HIDE DEF t, o, m, i
  <2>3. \A j \in 1 .. i : t[j] = out[j]
    <3>1. m \in Nat BY <1>2
    <3>2. \A j \in 1 .. i : j \in 1 .. m \/ j = i BY <3>1, <1>2
    <3>3. t[i] = out[i] BY <2>1, <2>2, <1>2 DEF o
    <3> QED BY <3>2, <3>3, <2>1, <2>2
  <2>4. Matches(t, i, out) BY <2>1, <2>2, <2>3, <1>2 DEF Matches
  <2> QED BY <2>4 DEF t
<1>16. v \in ReaderStates /\ Window(v, src) /\ Reached(v, k, pos[i], n) /\ Matches(v.dst, i, out)
  <2> DEFINE t == Append(d, o)  e == b + Len(code)
  <2>1. t \in Seq(Int) /\ w \in Seq(Bit) /\ s \in Nat BY <1>15, <1>6, <1>10 DEF Matches, Window
  <2>2. e \in 0 .. 16 /\ e \in Nat /\ 8 * (s - 2) + e = pos[i]
    <3> HIDE DEF s, b, p, i
    <3>1. Len(code) \in 1 .. 7 /\ pos[i] = p + Len(code) BY <1>7, <1>8
    <3> DEFINE l == Len(code)
    <3>2. l \in 1 .. 7 /\ pos[i] = p + l BY <3>1
    <3> HIDE DEF l, code
    <3>3. b + l \in 0 .. 16 /\ b + l \in Nat /\ 8 * (s - 2) + (b + l) = p + l BY <3>2, <1>3, <1>10
    <3> QED BY <3>2, <3>3 DEF l
  <2>3. v = [dst |-> t, buffer |-> w, src_idx |-> s, bit_ptr |-> e] BY <1>13
  <2> HIDE DEF t, w, s, e, v
  <2>4. v \in ReaderStates BY <2>1, <2>2, <2>3 DEF ReaderStates
  <2>5. v.dst = t /\ v.buffer = w /\ v.src_idx = s /\ v.bit_ptr = e BY <2>3
  <2>6. Window(v, src)
    <3>1. w \in Seq(Bit) /\ Len(w) = 16 /\ \A j \in 1 .. 16 : w[j] = BitAt(src, 8 * (s - 2) + j)
      BY <1>6 DEF Window, w, s
    <3> QED BY <2>5, <3>1 DEF Window
  <2>7. Reached(v, k, pos[i], n) BY <2>2, <2>5, <1>10 DEF Reached, s
  <2>8. Matches(v.dst, i, out) BY <2>5, <1>15 DEF t
  <2> QED BY <2>4, <2>6, <2>7, <2>8
<1> QED BY <1>16 DEF Read

(* inv_Huffman's variables when the first pixel is read.                   *)
ReadFrom(src, n) ==
  [dst |-> [i \in 1 .. n |-> Number(ByteAt(src, i - 1))],
   buffer |-> ByteAt(src, n) \o ByteAt(src, n + 1),
   src_idx |-> n + 2, bit_ptr |-> 0]

(* The first pixel is read as it was written.                              *)
LEMMA FirstValues ==
  ASSUME NEW src, NEW D, NEW pos, NEW out, NEW n,
         IsSymbols(out, n), IsCoded(D, pos, out, n), IsBuffer(src, D)
  PROVE  Matches([i \in 1 .. n |-> Number(ByteAt(src, i - 1))], n, out)
<1> DEFINE t == [i \in 1 .. n |-> Number(ByteAt(src, i - 1))]  N == Len(out)
<1>1. N \in Nat /\ n \in {1, 3} /\ n \in Nat /\ N >= n BY DEF IsSymbols
<1>2. \A i \in 1 .. n : t[i] = out[i] /\ out[i] \in Int
  <2> TAKE i \in 1 .. n
  <2> DEFINE o == out[i]  y == ByteAt(src, i - 1)
  <2>1. i \in 1 .. N /\ i - 1 \in Nat /\ i \in 0 .. N /\ i - 1 \in 0 .. N /\ i - 1 <= n /\ i <= n
    <3> HIDE DEF N
    <3> QED BY <1>1
  <2>2. o \in Byte BY <2>1 DEF IsSymbols
  <2>3. pos[i - 1] = 8 * (i - 1) /\ pos[i] = 8 * i BY <2>1, Ends
  <2>4. CodeOf(out, i, n) = Bits(o, 8) /\ Len(CodeOf(out, i, n)) = 8 BY <2>1, CodeFacts DEF CodeOf
  <2>5. \A b \in 1 .. 8 : y[b] = Bits(o, 8)[b]
    <3> TAKE b \in 1 .. 8
    <3> DEFINE j == 8 * (i - 1) + b
    <3>1. y[b] = BitAt(src, j)
      <4>1. src \in Seq(Bit) BY DEF IsBuffer
      <4> DEFINE at == i - 1
      <4>2. at \in Nat BY <2>1
      <4> HIDE DEF at
      <4>3. \A k \in 1 .. 8 : ByteAt(src, at)[k] = BitAt(src, 8 * at + k) BY <4>1, <4>2, ByteAtIs
      <4> QED BY <4>3 DEF at
    <3>2. D[j] = Bits(o, 8)[b] BY <2>1, <2>3, <2>4 DEF IsCoded
    <3>3. j \in 1 .. Len(D) /\ j <= Len(src)
      <4> DEFINE e == Len(D)  l == Len(src)
      <4>1. pos[i] <= pos[N] /\ pos[N] <= e /\ pos[i] = 8 * i BY <2>1, <2>3 DEF IsCoded
      <4>2. D \in Seq(Bit) /\ src \in Seq(Bit) /\ e <= l BY DEF IsCoded, IsBuffer
      <4>3. e \in Nat /\ l \in Nat BY <4>2
      <4>4. N \in 0 .. N BY <1>1
      <4>5. pos[N] \in Nat BY <4>4 DEF IsCoded
      <4> HIDE DEF e, l, N
      <4>6. 8 * i <= e BY <4>1, <4>3, <4>5, <2>1
      <4>7. j \in 1 .. e /\ j <= l BY <2>1, <4>2, <4>3, <4>6
      <4> QED BY <4>7 DEF e, l
    <3> HIDE DEF j
    <3>4. src[j] = D[j] BY <3>3 DEF IsBuffer
    <3>5. BitAt(src, j) = src[j] BY <3>3 DEF BitAt
    <3> QED BY <3>1, <3>2, <3>4, <3>5
  <2> HIDE DEF y, o
  <2>6. Number(y) = o BY <2>2, <2>5, RoundTrip
  <2>7. o \in Int BY <2>2 DEF Byte
  <2> QED BY <2>6, <2>7 DEF y, o
<1>3. DOMAIN t = 1 .. n /\ t = [i \in 1 .. n |-> t[i]] OBVIOUS
<1> HIDE DEF t
<1>4. t \in [1 .. n -> Int] BY <1>2, <1>3
<1>5. t \in Seq(Int) /\ Len(t) = n BY <1>1, <1>3, <1>4
<1>6. Matches(t, n, out) BY <1>2, <1>5 DEF Matches
<1> QED BY <1>6 DEF t

(* The loop starts at the first code.                                      *)
LEMMA ReadStarts ==
  ASSUME NEW src, NEW D, NEW pos, NEW out, NEW n,
         IsSymbols(out, n), IsCoded(D, pos, out, n), IsBuffer(src, D)
  PROVE  ReadFrom(src, n) \in Read(0, src, out, pos, n)
<1> DEFINE t == [i \in 1 .. n |-> Number(ByteAt(src, i - 1))]  N == Len(out)
           x == ByteAt(src, n)  y == ByteAt(src, n + 1)  z == x \o y  v == ReadFrom(src, n)
<1>1. N \in Nat /\ n \in {1, 3} /\ n \in Nat /\ N >= n /\ n \in 0 .. N /\ n + 0 = n BY DEF IsSymbols
<1>2. Matches(t, n, out) BY FirstValues
<1>3. src \in Seq(Bit) BY DEF IsBuffer
<1>4. x \in Seq(Bit) /\ Len(x) = 8 /\ \A b \in 1 .. 8 : x[b] = BitAt(src, 8 * n + b)
  BY <1>1, <1>3, ByteAtIs
<1>5. y \in Seq(Bit) /\ Len(y) = 8 /\ \A b \in 1 .. 8 : y[b] = BitAt(src, 8 * (n + 1) + b)
  <2>1. n + 1 \in Nat BY <1>1
  <2> QED BY <2>1, <1>3, ByteAtIs
<1>6. v = [dst |-> t, buffer |-> z, src_idx |-> n + 2, bit_ptr |-> 0] BY DEF ReadFrom
<1> HIDE DEF x, y, t, v
<1>7. z \in Seq(Bit) /\ Len(z) = Len(x) + Len(y) /\ (\A j \in 1 .. Len(x) : z[j] = x[j])
      /\ \A j \in 1 .. Len(y) : z[Len(x) + j] = y[j]
  <2>1. x \in Seq(Bit) /\ y \in Seq(Bit) BY <1>4, <1>5
  <2> QED BY <2>1, Joined
<1> HIDE DEF z
<1>8. Len(z) = 16 BY <1>4, <1>5, <1>7
<1>9. \A i \in 1 .. 16 : z[i] = BitAt(src, 8 * ((n + 2) - 2) + i)
  <2> TAKE i \in 1 .. 16
  <2>1. CASE i <= 8
    <3>1. i \in 1 .. 8 /\ 8 * ((n + 2) - 2) + i = 8 * n + i BY <2>1, <1>1
    <3> QED BY <3>1, <1>4, <1>7
  <2>2. CASE ~ i <= 8
    <3> DEFINE j == i - 8
    <3>1. j \in 1 .. 8 /\ 8 + j = i /\ 8 * ((n + 2) - 2) + i = 8 * (n + 1) + j BY <2>2, <1>1
    <3> HIDE DEF j
    <3>2. z[8 + j] = y[j] BY <3>1, <1>4, <1>5, <1>7
    <3>3. y[j] = BitAt(src, 8 * (n + 1) + j) BY <3>1, <1>5
    <3> QED BY <3>1, <3>2, <3>3
  <2> QED BY <2>1, <2>2
<1>10. v.dst = t /\ v.buffer = z /\ v.src_idx = n + 2 /\ v.bit_ptr = 0 BY <1>6
<1>11. Window(v, src) BY <1>7, <1>8, <1>9, <1>10 DEF Window
<1>12. pos[n] = 8 * n
  <2>1. n <= n BY <1>1
  <2> QED BY <2>1, <1>1, Ends
<1>13. Reached(v, 0, pos[n], n)
  <2>1. n + 2 \in Nat /\ n + 2 >= n + 2 /\ 0 \in 0 .. 16 /\ 8 * ((n + 2) - 2) + 0 = 8 * n BY <1>1
  <2> QED BY <2>1, <1>10, <1>12 DEF Reached
<1>14. v \in ReaderStates
  <2> DEFINE s == n + 2
  <2>1. t \in Seq(Int) /\ z \in Seq(Bit) /\ s \in Nat /\ 0 \in Nat BY <1>1, <1>2, <1>7 DEF Matches
  <2>2. v = [dst |-> t, buffer |-> z, src_idx |-> s, bit_ptr |-> 0] BY <1>6
  <2> HIDE DEF s
  <2> QED BY <2>1, <2>2 DEF ReaderStates
<1>15. Matches(v.dst, n, out) BY <1>2, <1>10
<1>16. v \in Read(0, src, out, pos, n) BY <1>1, <1>11, <1>13, <1>14, <1>15 DEF Read
<1> QED BY <1>16 DEF v

(* The loop ends with all symbols read.                                    *)
LEMMA ReaderRuns ==
  ASSUME NEW src, NEW D, NEW pos, NEW out, NEW n,
         IsSymbols(out, n), IsCoded(D, pos, out, n), IsBuffer(src, D)
  PROVE  inv_Huffman(src, Len(out), n) \in Read(Len(out) - n, src, out, pos, n)
<1> DEFINE M == Len(out) - n  base == ReadFrom(src, n)
           Q(u, k) == UnpackSymbol(src, u)
           f == CHOOSE f : f = [k \in 0 .. M |-> IF k = 0 THEN base ELSE Q(f[k - 1], k)]
           T == [k \in 0 .. M |-> Read(k, src, out, pos, n)]
           step == [x \in ReaderStates \X (1 .. M) |-> Q(x[1], x[2])]
<1>1. inv_Huffman(src, Len(out), n) = f[M] BY DEF inv_Huffman, Loop, ReadFrom
<1>2. M \in Nat
  <2>1. Len(out) \in Nat /\ n \in {1, 3} /\ Len(out) >= n BY DEF IsSymbols
  <2> QED BY <2>1
<1>3. \A k \in 1 .. M : k - 1 \in 0 .. M /\ k \in 0 .. M /\ k # 0
  <2> HIDE DEF M
  <2> QED BY <1>2
<1>4. \A k \in 0 .. M : k # 0 => k \in 1 .. M
  <2> HIDE DEF M
  <2> QED BY <1>2
<1>5. 0 \in 0 .. M /\ M \in 0 .. M
  <2> HIDE DEF M
  <2> QED BY <1>2
<1>6. base \in T[0]
  <2>1. base \in Read(0, src, out, pos, n) BY ReadStarts
  <2> HIDE DEF M, base
  <2> QED BY <1>5, <2>1
<1>7. \A k \in 1 .. M : \A u \in Read(k - 1, src, out, pos, n) :
        Q(u, k) \in Read(k, src, out, pos, n)
  BY UnpackStep
<1>8. \A k \in 1 .. M : \A u \in T[k - 1] : step[<<u, k>>] \in T[k] /\ step[<<u, k>>] = Q(u, k)
  <2> TAKE k \in 1 .. M
  <2> TAKE u \in T[k - 1]
  <2>1. T[k - 1] = Read(k - 1, src, out, pos, n) /\ T[k] = Read(k, src, out, pos, n)
    <3> HIDE DEF M
    <3> QED BY <1>3
  <2>2. u \in ReaderStates
    <3>1. u \in Read(k - 1, src, out, pos, n) BY <2>1
    <3> QED BY <3>1 DEF Read
  <2>3. Q(u, k) \in Read(k, src, out, pos, n)
    <3> HIDE DEF Q, M, T
    <3> QED BY <1>7, <2>1
  <2>4. <<u, k>> \in ReaderStates \X (1 .. M)
    <3> HIDE DEF M, T
    <3> QED BY <2>2
  <2>5. step[<<u, k>>] = Q(u, k)
    <3> HIDE DEF M, T
    <3> QED BY <2>4
  <2> HIDE DEF step, Q, T
  <2> QED BY <2>1, <2>3, <2>5
<1>9. PICK g : IsRun(g, M, T, base, step)
  <2> HIDE DEF T, step, M, base
  <2>1. Steps(M, T, base, step) BY <1>2, <1>6, <1>8 DEF Steps
  <2> QED BY <2>1, Recursion
<1> DEFINE q == [k \in 0 .. M |-> g[k]]
<1>10. \A k \in 1 .. M : g[k] = Q(g[k - 1], k)
  <2> HIDE DEF T, step, Q, M, base
  <2> QED BY <1>3, <1>8, <1>9 DEF IsRun
<1>11. q = [k \in 0 .. M |-> IF k = 0 THEN base ELSE Q(q[k - 1], k)]
  <2>1. g[0] = base BY <1>9 DEF IsRun
  <2> HIDE DEF Q, M, base
  <2> QED BY <1>3, <1>4, <1>10, <2>1
<1>12. f = [k \in 0 .. M |-> IF k = 0 THEN base ELSE Q(f[k - 1], k)]
  <2> HIDE DEF q, Q, M, base
  <2> QED BY <1>11
<1> HIDE DEF f
<1>13. f[0] = base /\ \A k \in 1 .. M : f[k] = Q(f[k - 1], k)
  <2> HIDE DEF Q, M, base
  <2> QED BY <1>3, <1>5, <1>12
<1>14. \A k \in 0 .. M : f[k] \in T[k]
  <2> DEFINE S == {k \in 0 .. M : f[k] \in T[k]}
  <2>1. 0 \in S
    <3> HIDE DEF T, M, base
    <3> QED BY <1>5, <1>6, <1>13
  <2>2. \A k \in 1 .. M : k - 1 \in S => k \in S
    <3> HIDE DEF T, Q, step, M
    <3> QED BY <1>3, <1>8, <1>13
  <2>3. \A k \in 0 .. M : k \in S
    <3> HIDE DEF S, M
    <3> QED BY <1>2, <2>1, <2>2, UpTo
  <2> QED BY <2>3
<1>15. f[M] \in T[M]
  <2> HIDE DEF T, M
  <2> QED BY <1>5, <1>14
<1>16. T[M] = Read(M, src, out, pos, n)
  <2> HIDE DEF M
  <2> QED BY <1>5
<1> HIDE DEF T
<1> QED BY <1>1, <1>15, <1>16

(* D fits the buffer, the symbols are back, and no byte behind the buffer  *)
(* has been read.                                                          *)
ReadBack(D, u, out, area) ==
  /\ D \in Seq(Bit) /\ Len(D) % 8 = 0 /\ Len(D) <= 8 * (3 * area)
  /\ u.dst = out /\ u.src_idx \in Nat /\ u.src_idx <= 3 * area

(* inv_Huffman undoes Huffman, for all symbols, whatever the buffer holds  *)
(* behind the block; and though it reads up to two bytes ahead and never   *)
(* looks at a length, it does not leave a buffer of three bytes a pixel    *)
(* ("can have problems in super small images" says the comment: not with   *)
(* an even number of pixels).                                              *)
THEOREM HuffmanInverse ==
  ASSUME NEW src, NEW out, NEW n, NEW D, NEW area,
         IsSymbols(out, n), D = Huffman(out, Len(out), n), IsBuffer(src, D),
         area \in Nat, area >= 2, area % 2 = 0, Len(out) <= n * area
  PROVE  ReadBack(D, inv_Huffman(src, Len(out), n), out, area)
<1> DEFINE N == Len(out)  u == inv_Huffman(src, N, n)
<1>1. N \in Nat /\ n \in {1, 3} /\ N >= n /\ out \in Seq(Int) BY DEF IsSymbols
<1>2. PICK pos : IsCoded(D, pos, out, n) BY HuffmanFacts
<1>3. D \in Seq(Bit) /\ Len(D) % 8 = 0 BY <1>2 DEF IsCoded
<1>4. Len(D) <= 8 * N BY <1>2, CodedSize
<1>5. Len(D) <= 8 * (3 * area)
  <2> DEFINE d == Len(D)
  <2>1. d \in Nat BY <1>3
  <2> HIDE DEF d, N
  <2>2. CASE n = 1 BY <2>2, <2>1, <1>1, <1>4 DEF d, N
  <2>3. CASE n = 3 BY <2>3, <2>1, <1>1, <1>4 DEF d, N
  <2> QED BY <1>1, <2>2, <2>3
<1>6. u \in Read(N - n, src, out, pos, n) BY <1>2, ReaderRuns
<1>7. n + (N - n) = N BY <1>1
<1> HIDE DEF u
<1>8. Reached(u, N - n, pos[N], n) /\ Matches(u.dst, N, out)
  <2> HIDE DEF N
  <2>1. Reached(u, N - n, pos[n + (N - n)], n) /\ Matches(u.dst, n + (N - n), out) BY <1>6 DEF Read
  <2> QED BY <2>1, <1>7
<1>9. u.dst = out
  <2> DEFINE d == u.dst
  <2>1. d \in Seq(Int) /\ Len(d) = Len(out) /\ \A i \in 1 .. Len(out) : d[i] = out[i]
    BY <1>8 DEF Matches
  <2> HIDE DEF d
  <2>3. out = [i \in 1 .. Len(out) |-> out[i]] /\ d = [i \in 1 .. Len(d) |-> d[i]] BY <2>1, <1>1
  <2>2. d = out BY <2>1, <2>3
  <2> QED BY <2>2 DEF d
<1>10. u.src_idx \in Nat /\ u.src_idx <= 3 * area
  <2> DEFINE s == u.src_idx
  <2>1. s \in Nat /\ (s = n + 2 \/ 8 * (s - n - 2) <= 7 * (N - n) - 9) BY <1>8 DEF Reached
  <2>4. (n = 1 => N <= area) /\ (n = 3 => N <= 3 * area)
    <3>1. 1 * area = area OBVIOUS
    <3> QED BY <3>1
  <2> SUFFICES s \in Nat /\ s <= 3 * area OBVIOUS
  <2> HIDE DEF s, N
  <2>2. CASE n = 1
    <3>1. s = 3 \/ 8 * (s - 3) <= 7 * (N - 1) - 9 BY <2>1, <2>2
    <3> QED BY <3>1, <2>1, <2>2, <2>4, <1>1
  <2>3. CASE n = 3
    <3>4. s = 5 \/ 8 * (s - 5) <= 7 * (N - 3) - 9 BY <2>1, <2>3
    <3>1. CASE area = 2 BY <3>1, <3>4, <2>1, <2>3, <2>4, <1>1
    <3>2. CASE area >= 4 BY <3>2, <3>4, <2>1, <2>3, <2>4, <1>1
    <3>3. area = 2 \/ area >= 4 OBVIOUS
    <3> QED BY <3>1, <3>2, <3>3
  <2> QED BY <1>1, <2>2, <2>3 DEF s
<1> QED BY <1>3, <1>5, <1>9, <1>10 DEF u, ReadBack

-----------------------------------------------------------------------------
(* A block, from RGB to bytes and back (lhe_encode_core, lhe_decode_core). *)

(* The colours of a pixel.                                                 *)
Colours == Byte \X Byte \X Byte

(* rgb2yuv gives bytes without a clamp.                                    *)
LEMMA RgbToYuv ==
  ASSUME NEW c \in Colours, NEW i \in 1 .. 3
  PROVE  rgb2yuv(c)[i] \in Byte
<1> DEFINE r == c[1]  g == c[2]  b == c[3]
           y == (r*76 + g*150 + b*29 + 128) \div 256
           u == (r*(-43) + g*(-84) + b*127 + 128) \div 256 + 128
           v == (r*127 + g*(-106) + b*(-21) + 128) \div 256 + 128
<1>1. r \in 0 .. 255 /\ g \in 0 .. 255 /\ b \in 0 .. 255 BY DEF Colours, Byte
<1>2. rgb2yuv(c) = <<y, u, v>> BY DEF rgb2yuv
<1> HIDE DEF r, g, b
<1>3. y \in 0 .. 255 /\ u \in 0 .. 255 /\ v \in 0 .. 255 BY <1>1
<1> HIDE DEF y, u, v
<1>4. i = 1 \/ i = 2 \/ i = 3 OBVIOUS
<1> QED BY <1>2, <1>3, <1>4 DEF Byte

(* The block lhe_encode_core gives to LHEquantizer.                        *)
BlockYuv(block, rows, cols, mode) ==
  [at \in Pixels(rows, cols, Channels(mode)) |-> rgb2yuv(block[<<at[1], at[2]>>])[at[3] + 1]]

(* A block of an RGB image.                                                *)
IsColourBlock(block, rows, cols) == block \in [(0 .. rows - 1) \X (0 .. cols - 1) -> Colours]

(* Its values are bytes.                                                   *)
LEMMA YuvOfBlock ==
  ASSUME NEW rows, NEW cols, NEW mode, NEW block,
         IsBlock(rows, cols, mode), IsColourBlock(block, rows, cols)
  PROVE  BlockYuv(block, rows, cols, mode) \in [Pixels(rows, cols, Channels(mode)) -> Byte]
<1> DEFINE f(at) == rgb2yuv(block[<<at[1], at[2]>>])[at[3] + 1]
<1>1. rows \in Nat /\ cols \in Nat /\ Channels(mode) \in {1, 3} BY ChannelsOf DEF IsBlock
<1>2. \A at \in Pixels(rows, cols, Channels(mode)) : f(at) \in Byte
  <2> TAKE at \in Pixels(rows, cols, Channels(mode))
  <2>1. /\ at[1] \in 0 .. rows - 1 /\ at[2] \in 0 .. cols - 1
        /\ at[3] \in 0 .. Channels(mode) - 1
    BY <1>1, PixelAt
  <2>2. block[<<at[1], at[2]>>] \in Colours BY <2>1 DEF IsColourBlock
  <2> DEFINE n == Channels(mode)  c == at[3]
  <2>3. n \in {1, 3} /\ c \in 0 .. n - 1 BY <1>1, <2>1
  <2> HIDE DEF n, c
  <2>4. c + 1 \in 1 .. 3 BY <2>3
  <2> QED BY <2>2, <2>4, RgbToYuv DEF c
<1> HIDE DEF f
<1>3. BlockYuv(block, rows, cols, mode) = [at \in Pixels(rows, cols, Channels(mode)) |-> f(at)]
  BY DEF BlockYuv, f
<1> QED BY <1>2, <1>3

(* What is coded of a block, by a run of LHEquantizer.                     *)
IsCodedBlock(coded, E, block, rows, cols, mode) ==
  LET src == BlockYuv(block, rows, cols, mode)
      z == E[Last(rows, cols, mode)]
  IN /\ src \in [Pixels(rows, cols, Channels(mode)) -> Byte]
     /\ EncRun(E, src, rows, cols, mode)
     /\ coded.img = z.img
     /\ IsSymbols(z.out, Channels(mode))
     /\ Len(z.out) = get_num_of_symbs(rows, cols, mode)
     /\ coded.data = Huffman(z.out, Len(z.out), Channels(mode))

(* lhe_encode_core codes a block like this.                                *)
LEMMA BlockIsCoded ==
  ASSUME NEW rows, NEW cols, NEW mode, NEW block, NEW coded,
         IsBlock(rows, cols, mode), IsColourBlock(block, rows, cols),
         coded = lhe_encode_core(block, rows, cols, mode)
  PROVE  \E E : IsCodedBlock(coded, E, block, rows, cols, mode)
<1> DEFINE src == BlockYuv(block, rows, cols, mode)  n == Channels(mode)
           L == Last(rows, cols, mode)
           q == LHEquantizer(src, rows, cols, n, mode)
<1>1. src \in [Pixels(rows, cols, n) -> Byte] BY YuvOfBlock
<1>2. PICK E : EncRun(E, src, rows, cols, mode) BY <1>1, EncoderRuns
<1> DEFINE z == E[L]
<1>3. z = q BY <1>2 DEF EncRun
<1>4. coded = [data |-> Huffman(q.out, get_num_of_symbs(rows, cols, mode), n), img |-> q.img]
  BY DEF lhe_encode_core, BlockYuv
<1>5. L \in Nat /\ L \in 0 .. L BY LastNat
<1>6. z \in Encoded(L, src, rows, cols, mode)
  <2> HIDE DEF L, src
  <2> QED BY <1>2, <1>5 DEF EncRun, L
<1>7. n \in {1, 3} BY ChannelsOf
<1>8. rows \in Nat /\ cols \in Nat \ {0} /\ rows \in Nat \ {0} /\ cols % 2 = 0
      /\ mode \in ChromaModes
  BY DEF IsBlock
<1>9. L >= n
  <2>1. L = rows * cols * n BY DEF Last
  <2> HIDE DEF L, n
  <2>2. rows * cols \in Nat /\ rows * cols >= 1 BY <1>8, SMT
  <2> DEFINE m == rows * cols
  <2>3. m \in Nat /\ m >= 1 /\ L = m * n BY <2>1, <2>2
  <2> HIDE DEF m
  <2> QED BY <2>3, <1>7
<1>10. z \in EncStates(rows, cols, mode) /\ OutSoFar(z.out, L, cols, mode) BY <1>6 DEF Encoded
<1> HIDE DEF z, q, L, src
<1>11. Len(z.out) = get_num_of_symbs(rows, cols, mode)
  <2>1. Len(z.out) = Count(L, cols, mode) BY <1>10 DEF OutSoFar
  <2>2. L = rows * cols * Channels(mode) BY DEF L, Last
  <2>3. Count(rows * cols * Channels(mode), cols, mode) = get_num_of_symbs(rows, cols, mode)
    BY <1>8, Counting
  <2> QED BY <2>1, <2>2, <2>3
<1>12. IsSymbols(z.out, n)
  <2>1. z.out \in Seq(Int) BY <1>10 DEF EncStates
  <2>2. Len(z.out) >= n /\ \A i \in 1 .. Len(z.out) : z.out[i] \in IF i <= n THEN Byte ELSE Hops
    BY <1>9, <1>10 DEF OutSoFar
  <2> HIDE DEF n
  <2> QED BY <2>1, <2>2, <1>7 DEF IsSymbols
<1>13. coded.img = z.img /\ coded.data = Huffman(z.out, Len(z.out), n) BY <1>3, <1>4, <1>11
<1>14. IsCodedBlock(coded, E, block, rows, cols, mode)
  BY <1>1, <1>2, <1>11, <1>12, <1>13 DEF IsCodedBlock, src, z, L
<1> QED BY <1>14

(* An even factor makes an even product.                                   *)
LEMMA EvenProduct ==
  ASSUME NEW a \in Nat, NEW b \in Nat
  PROVE  (a * (2 * b)) % 2 = 0
<1> DEFINE d == a * b
<1>1. a * (2 * b) = d * 2 + 0 /\ d \in Int BY SMT
<1> HIDE DEF d
<1>2. 0 \in 0 .. 2 - 1 /\ 2 \in Nat OBVIOUS
<1>3. (d * 2 + 0) % 2 = 0 BY <1>1, <1>2, DivUnique
<1> QED BY <1>1, <1>3

(* A block has an even number of pixels.                                   *)
LEMMA Area ==
  ASSUME NEW rows \in Nat \ {0}, NEW cols \in Nat \ {0}, cols % 2 = 0
  PROVE  rows * cols \in Nat /\ rows * cols >= 2 /\ (rows * cols) % 2 = 0
<1> DEFINE h == cols \div 2
<1>1. h \in Nat /\ h >= 1 /\ cols = 2 * h OBVIOUS
<1> HIDE DEF h
<1>2. (rows * (2 * h)) % 2 = 0 BY <1>1, EvenProduct
<1>3. rows * (2 * h) \in Nat /\ rows * (2 * h) >= 2
  <2>1. 2 * h >= 2 /\ 2 * h \in Nat BY <1>1
  <2> DEFINE w == 2 * h
  <2>2. w >= 2 /\ w \in Nat BY <2>1
  <2> HIDE DEF w
  <2>3. rows * w \in Nat /\ rows * w >= w BY <2>2, SMT
  <2> QED BY <2>2, <2>3 DEF w
<1> QED BY <1>1, <1>2, <1>3

(* There are no more symbols than values.                                  *)
LEMMA NumBound ==
  ASSUME NEW rows, NEW cols, NEW mode, IsBlock(rows, cols, mode)
  PROVE  get_num_of_symbs(rows, cols, mode) <= Channels(mode) * (rows * cols)
<1> DEFINE n == Channels(mode)  L == rows * cols * n
           S == {k \in 0 .. L : Count(k, cols, mode) <= k}
<1>1. rows \in Nat /\ cols \in Nat \ {0} /\ cols % 2 = 0 /\ mode \in ChromaModes /\ n \in {1, 3}
      /\ rows \in Nat \ {0}
  BY ChannelsOf DEF IsBlock
<1>2. L \in Nat /\ L = n * (rows * cols)
  <2>1. rows * cols \in Nat BY <1>1, SMT
  <2> DEFINE m == rows * cols
  <2>2. m \in Nat BY <2>1
  <2> HIDE DEF m, n
  <2>3. m * n \in Nat /\ m * n = n * m BY <2>2, <1>1
  <2> QED BY <2>3 DEF m
<1>3. 0 \in S
  <2>1. Count(0, cols, mode) = 0 BY <1>1, Counting
  <2> HIDE DEF L
  <2> QED BY <2>1, <1>2
<1>4. ASSUME NEW k \in 1 .. L, k - 1 \in S PROVE k \in S
  <2> DEFINE at == Raster(k, cols, n)
  <2>1. /\ Count(k - 1, cols, mode) \in Nat
        /\ Count(k, cols, mode) =
             Count(k - 1, cols, mode) + (IF Coded(mode, at[1], at[2], at[3]) THEN 1 ELSE 0)
    BY <1>1, Counting
  <2>2. Count(k - 1, cols, mode) <= k - 1 BY <1>4
  <2>3. k \in 0 .. L
    <3> HIDE DEF L
    <3> QED BY <1>2
  <2> DEFINE c == Coded(mode, at[1], at[2], at[3])  x == Count(k, cols, mode)
             y == Count(k - 1, cols, mode)
  <2>4. y \in Nat /\ x = y + (IF c THEN 1 ELSE 0) /\ y <= k - 1 BY <2>1, <2>2
  <2> HIDE DEF c, x, y, L
  <2>5. x <= k BY <2>3, <2>4, <1>2
  <2> QED BY <2>3, <2>5 DEF x
<1>5. \A k \in 0 .. L : k \in S
  <2> HIDE DEF S, L
  <2> QED BY <1>2, <1>3, <1>4, UpTo
<1>6. Count(L, cols, mode) <= L
  <2>1. L \in 0 .. L
    <3> HIDE DEF L
    <3> QED BY <1>2
  <2> QED BY <2>1, <1>5
<1>7. Count(L, cols, mode) = get_num_of_symbs(rows, cols, mode) BY <1>1, Counting
<1> HIDE DEF L
<1> QED BY <1>2, <1>6, <1>7

(* Decoder and encoder call the mode of a block by the same name, but for  *)
(* the blocks of one line in YUV 4:2:0.                                    *)
SameMode(rows, mode, dmode) ==
  dmode = mode \/ (rows = 1 /\ mode = "yuv422" /\ dmode = "yuv420")

(* Those have the same number of symbols under both names ...              *)
LEMMA OneLine ==
  ASSUME NEW rows, NEW cols, NEW mode, NEW dmode, IsBlock(rows, cols, mode),
         SameMode(rows, mode, dmode)
  PROVE  /\ Channels(dmode) = Channels(mode)
         /\ get_num_of_symbs(rows, cols, dmode) = get_num_of_symbs(rows, cols, mode)
<1>1. CASE dmode = mode BY <1>1
<1>2. CASE rows = 1 /\ mode = "yuv422" /\ dmode = "yuv420"
  <2>1. cols \in Nat /\ cols % 2 = 0 BY DEF IsBlock
  <2>2. Half(1) = 1 BY DEF Half
  <2>3. get_num_of_symbs(1, cols, "yuv422") = 1 * cols + 1 * cols BY <2>1 DEF get_num_of_symbs
  <2>4. get_num_of_symbs(1, cols, "yuv420") = 1 * cols + cols * Half(1)
    BY <2>1 DEF get_num_of_symbs
  <2>5. 1 * cols = cols /\ cols * 1 = cols BY <2>1
  <2> QED BY <1>2, <2>2, <2>3, <2>4, <2>5 DEF Channels
<1> QED BY <1>1, <1>2 DEF SameMode

(* ... and their values are decoded in the same way.                       *)
LEMMA OneLinePixel ==
  ASSUME NEW symbols, NEW cols, NEW d, NEW at, at[1] = 0, at[3] \in Nat, at[2] \in Nat
  PROVE  DequantPixel(symbols, cols, "yuv420", d, at) = DequantPixel(symbols, cols, "yuv422", d, at)
<1> DEFINE row == at[1]  col == at[2]  chn == at[3]
<1>1. JumpX("yuv420", chn) = JumpX("yuv422", chn) BY DEF JumpX
<1>2. 0 % JumpY("yuv420", chn) = 0 /\ 0 % JumpY("yuv422", chn) = 0
  <2>1. JumpY("yuv420", chn) \in {1, 2} /\ JumpY("yuv422", chn) \in {1, 2} BY DEF JumpY
  <2> QED BY <2>1
<1>3. Coded("yuv420", row, col, chn) <=> Coded("yuv422", row, col, chn) BY <1>1, <1>2 DEF Coded
<1>4. lhe_prediction(d.img, cols, row, col, chn, "yuv420")
      = lhe_prediction(d.img, cols, row, col, chn, "yuv422")
  BY <1>1 DEF lhe_prediction
<1>5. Interpolated(d.img, row, col, chn, "yuv420") = Interpolated(d.img, row, col, chn, "yuv422")
  BY <1>1, <1>2 DEF Interpolated
<1> QED BY <1>3, <1>4, <1>5 DEF DequantPixel

(* The image of a block, with what was there before in the channels it was *)
(* not coded with.                                                         *)
Restored(img, img0, rows, cols, mode, ni) ==
  [p \in Pixels(rows, cols, ni) |->
     IF p \in Pixels(rows, cols, Channels(mode)) THEN img[KeptAt(p, mode)] ELSE img0[p]]

(* All pixels of a block have colour c.                                    *)
IsOneColour(block, rows, cols, c) == \A at \in (0 .. rows - 1) \X (0 .. cols - 1) : block[at] = c

(* What lhe_encode_core makes of a block: whole bytes that fit three bytes *)
(* a pixel; bytes wherever the decoder looks; and of a plain block its     *)
(* colour in all of them.                                                  *)
BlockData(coded, block, rows, cols, mode) ==
  /\ coded.data \in Seq(Bit) /\ Len(coded.data) % 8 = 0
  /\ Len(coded.data) <= 8 * (3 * (rows * cols))
  /\ coded.img \in [Pixels(rows, cols, Channels(mode)) -> Byte \cup {Unset}]
  /\ \A p \in Pixels(rows, cols, Channels(mode)) : coded.img[KeptAt(p, mode)] \in Byte
  /\ \A c : IsOneColour(block, rows, cols, c) =>
       \A p \in Pixels(rows, cols, Channels(mode)) : coded.img[KeptAt(p, mode)]
         = rgb2yuv(c)[p[3] + 1]

(* Every value has its place in the loops.                                 *)
LEMMA EveryPixel ==
  ASSUME NEW rows, NEW cols, NEW mode, IsBlock(rows, cols, mode),
         NEW p \in Pixels(rows, cols, Channels(mode))
  PROVE  \E k \in 1 .. Last(rows, cols, mode) : IsAt(p, k, rows, cols, mode)
<1> DEFINE n == Channels(mode)  k == Index(p, cols, n)
<1>1. n \in {1, 3} /\ rows \in Nat /\ cols \in Nat BY ChannelsOf DEF IsBlock
<1>2. k \in 1 .. rows * cols * n /\ Raster(k, cols, n) = p
  <2>1. p \in Pixels(rows, cols, n) OBVIOUS
  <2> HIDE DEF n
  <2> QED BY <1>1, <2>1, RasterOfIndex
<1>3. k \in 1 .. Last(rows, cols, mode) /\ p = At(k, cols, mode) BY <1>2 DEF Last, At
<1> HIDE DEF k
<1>4. IsAt(p, k, rows, cols, mode) BY <1>3, AtFacts
<1> QED BY <1>3, <1>4

(* A run of LHEquantizer makes the image so.                               *)
LEMMA BlockIsData ==
  ASSUME NEW rows, NEW cols, NEW mode, NEW block, NEW coded, NEW E,
         IsBlock(rows, cols, mode), IsColourBlock(block, rows, cols),
         IsCodedBlock(coded, E, block, rows, cols, mode)
  PROVE  /\ coded.img \in [Pixels(rows, cols, Channels(mode)) -> Byte \cup {Unset}]
         /\ \A p \in Pixels(rows, cols, Channels(mode)) : coded.img[KeptAt(p, mode)] \in Byte
         /\ \A c : IsOneColour(block, rows, cols, c) =>
              \A p \in Pixels(rows, cols, Channels(mode)) :
                coded.img[KeptAt(p, mode)] = rgb2yuv(c)[p[3] + 1]
<1> DEFINE src == BlockYuv(block, rows, cols, mode)  n == Channels(mode)
           L == Last(rows, cols, mode)
           z == E[L]  Pix == Pixels(rows, cols, n)
<1>1. coded.img = z.img /\ EncRun(E, src, rows, cols, mode) BY DEF IsCodedBlock
<1>2. L \in 0 .. L BY LastNat
<1>3. z \in Encoded(L, src, rows, cols, mode)
  <2> HIDE DEF L, src
  <2> QED BY <1>1, <1>2 DEF EncRun, L
<1>4. z.img \in [Pix -> Byte \cup {Unset}] /\ ImgSoFar(z.img, L, src, rows, cols, mode)
  BY <1>3 DEF Encoded, EncStates
<1>5. rows \in Nat \ {0} /\ cols \in Nat \ {0} /\ n \in {1, 3} BY ChannelsOf DEF IsBlock
<1> HIDE DEF z, L, src
<1>6. \A p \in Pix : KeptAt(p, mode) \in Pix /\ z.img[KeptAt(p, mode)] \in Byte
        /\ (IsPlain(src, rows, cols, mode) => z.img[KeptAt(p, mode)] = src[KeptAt(p, mode)])
  <2> TAKE p \in Pix
  <2> DEFINE q == KeptAt(p, mode)
  <2>1. PICK k \in 1 .. L : IsAt(p, k, rows, cols, mode) BY EveryPixel DEF L
  <2>2. q \in Pix /\ Coded(mode, q[1], q[2], q[3]) BY <2>1, KeptFacts
  <2>3. \E j \in 1 .. L : IsAt(q, j, rows, cols, mode) BY <2>2, EveryPixel DEF L
  <2>4. Index(q, cols, n) \in 1 .. L BY <2>3 DEF IsAt
  <2>5. L \in Nat BY LastNat DEF L
  <2> HIDE DEF q
  <2>6. Index(q, cols, n) <= L BY <2>4, <2>5
  <2>7. Visited(q, L, cols, mode) BY <2>2, <2>6 DEF Visited
  <2> QED BY <2>2, <2>7, <1>4 DEF ImgSoFar, q
<1>7. ASSUME NEW c, IsOneColour(block, rows, cols, c), NEW p \in Pix
      PROVE  coded.img[KeptAt(p, mode)] = rgb2yuv(c)[p[3] + 1]
  <2>1. \A at \in Pix : src[at] = rgb2yuv(c)[at[3] + 1]
    <3> TAKE at \in Pix
    <3>1. at[1] \in 0 .. rows - 1 /\ at[2] \in 0 .. cols - 1
      <4> HIDE DEF n
      <4> QED BY <1>5, PixelAt
    <3>2. block[<<at[1], at[2]>>] = c BY <3>1, <1>7 DEF IsOneColour
    <3>3. src[at] = rgb2yuv(block[<<at[1], at[2]>>])[at[3] + 1] BY DEF src, BlockYuv
    <3> QED BY <3>2, <3>3
  <2>2. IsPlain(src, rows, cols, mode)
    <3> SUFFICES ASSUME NEW at \in Pix PROVE src[at] = src[<<0, 0, at[3]>>] BY DEF IsPlain
    <3> DEFINE o == <<0, 0, at[3]>>
    <3>1. at[3] \in 0 .. n - 1
      <4> HIDE DEF n
      <4> QED BY <1>5, PixelAt
    <3>2. 0 \in 0 .. rows - 1 /\ 0 \in 0 .. cols - 1 BY <1>5
    <3>3. o \in Pix /\ o[3] = at[3] BY <3>1, <3>2 DEF Pixels
    <3> HIDE DEF o, Pix
    <3>4. src[at] = src[o] BY <2>1, <3>3
    <3> QED BY <3>4 DEF o
  <2>3. KeptAt(p, mode)[3] = p[3] BY DEF KeptAt
  <2> HIDE DEF Pix
  <2> QED BY <1>1, <1>6, <2>1, <2>2, <2>3
<1> QED BY <1>1, <1>4, <1>6, <1>7

(* lhe_encode_core makes that of every block, in every mode.               *)
LEMMA CodedBlock ==
  ASSUME NEW rows, NEW cols, NEW mode, NEW block, NEW coded,
         IsBlock(rows, cols, mode), IsColourBlock(block, rows, cols),
         coded = lhe_encode_core(block, rows, cols, mode)
  PROVE  BlockData(coded, block, rows, cols, mode)
<1> DEFINE n == Channels(mode)  area == rows * cols
<1>1. PICK E : IsCodedBlock(coded, E, block, rows, cols, mode) BY BlockIsCoded
<1> DEFINE out == E[Last(rows, cols, mode)].out  D == coded.data
<1>2. IsSymbols(out, n) /\ Len(out) = get_num_of_symbs(rows, cols, mode)
      /\ D = Huffman(out, Len(out), n)
  BY <1>1 DEF IsCodedBlock
<1>3. area \in Nat /\ area >= 2 /\ area % 2 = 0 BY Area DEF IsBlock
<1>4. Len(out) <= n * area BY <1>2, NumBound
<1>5. PICK pos : IsCoded(D, pos, out, n) BY <1>2, HuffmanFacts
<1>6. D \in Seq(Bit) BY <1>5 DEF IsCoded
<1>7. IsBuffer(D, D)
  <2>1. Len(D) \in Nat BY <1>6
  <2> QED BY <1>6, <2>1 DEF IsBuffer
<1> HIDE DEF n, out, D, area
<1>8. ReadBack(D, inv_Huffman(D, Len(out), n), out, area) BY <1>2, <1>3, <1>4, <1>7, HuffmanInverse
<1>9. D \in Seq(Bit) /\ Len(D) % 8 = 0 /\ Len(D) <= 8 * (3 * area) BY <1>8 DEF ReadBack
<1>10. /\ coded.img \in [Pixels(rows, cols, Channels(mode)) -> Byte \cup {Unset}]
       /\ \A p \in Pixels(rows, cols, Channels(mode)) : coded.img[KeptAt(p, mode)] \in Byte
       /\ \A c : IsOneColour(block, rows, cols, c) =>
            \A p \in Pixels(rows, cols, Channels(mode)) :
              coded.img[KeptAt(p, mode)] = rgb2yuv(c)[p[3] + 1]
  BY <1>1, BlockIsData
<1> QED BY <1>9, <1>10 DEF BlockData, D, area

(* What lhe_decode_core makes of the bytes of a block: the image the       *)
(* encoder predicted from, as colours or still as YUV, without leaving the *)
(* buffer.                                                                 *)
DecodedBlock(d, coded, img0, rows, cols, mode, ni, codec_mode) ==
  LET yuv == Restored(coded.img, img0, rows, cols, mode, ni)
  IN /\ yuv \in [Pixels(rows, cols, ni) -> Byte]
     /\ d.img = IF Channels(mode) = 3 /\ codec_mode # 1 THEN ToRgb(yuv) ELSE yuv
     /\ d.bytes_read \in Nat /\ d.bytes_read <= 3 * (rows * cols)

(* The two names of a mode make no difference to any value.                *)
LEMMA SamePixels ==
  ASSUME NEW rows, NEW cols, NEW mode, NEW dmode, NEW symbols, NEW d,
         IsBlock(rows, cols, mode), SameMode(rows, mode, dmode),
         NEW k \in 1 .. Last(rows, cols, mode)
  PROVE  DequantPixel(symbols, cols, dmode, d, At(k, cols, mode))
         = DequantPixel(symbols, cols, mode, d, At(k, cols, mode))
<1> DEFINE at == At(k, cols, mode)
<1>1. CASE dmode = mode BY <1>1
<1>2. CASE rows = 1 /\ mode = "yuv422" /\ dmode = "yuv420"
  <2>1. IsAt(at, k, rows, cols, mode) BY AtFacts
  <2>2. at[1] \in 0 .. rows - 1 /\ at[2] \in 0 .. cols - 1 /\ at[3] \in 0 .. Channels(mode) - 1
    BY <2>1 DEF IsAt
  <2> HIDE DEF at
  <2>3. at[1] = 0 /\ at[2] \in Nat /\ at[3] \in Nat
    <3>1. cols \in Nat /\ Channels(mode) \in Nat BY ChannelsOf DEF IsBlock
    <3>2. 0 .. rows - 1 = {0} BY <1>2
    <3> QED BY <2>2, <3>1, <3>2
  <2>4. DequantPixel(symbols, cols, "yuv420", d, at) = DequantPixel(symbols, cols, "yuv422", d, at)
    BY <2>3, OneLinePixel
  <2> QED BY <1>2, <2>4 DEF at
<1> QED BY <1>1, <1>2 DEF SameMode

(* lhe_decode_core makes that of what lhe_encode_core has written, for     *)
(* every block of even width, every mode, and whatever else is in the      *)
(* buffer: encoder and decoder, which share no state, agree on every       *)
(* pixel.                                                                  *)
THEOREM BlockIsDecoded ==
  ASSUME NEW rows, NEW cols, NEW mode, NEW dmode, NEW ni, NEW block, NEW coded, NEW buffer,
         NEW img0, NEW codec_mode,
         IsBlock(rows, cols, mode), IsColourBlock(block, rows, cols),
         coded = lhe_encode_core(block, rows, cols, mode),
         IsBuffer(buffer, coded.data), IsImage(img0, rows, cols, mode, ni),
         SameMode(rows, mode, dmode)
  PROVE  DecodedBlock(lhe_decode_core(buffer, img0, rows, cols, dmode, codec_mode), coded, img0,
                      rows, cols, mode, ni, codec_mode)
<1> DEFINE n == Channels(mode)  area == rows * cols  L == Last(rows, cols, mode)
           d == lhe_decode_core(buffer, img0, rows, cols, dmode, codec_mode)
           yuv == Restored(coded.img, img0, rows, cols, mode, ni)
<1>1. PICK E : IsCodedBlock(coded, E, block, rows, cols, mode) BY BlockIsCoded
<1> DEFINE out == E[L].out  D == coded.data  num == get_num_of_symbs(rows, cols, mode)
           u == inv_Huffman(buffer, num, n)
           img == LHE_dequant(out, img0, rows, cols, n, dmode)
<1>2. IsSymbols(out, n) /\ Len(out) = num /\ D = Huffman(out, Len(out), n)
  BY <1>1 DEF IsCodedBlock
<1>3. area \in Nat /\ area >= 2 /\ area % 2 = 0 BY Area DEF IsBlock
<1>4. Len(out) <= n * area BY <1>2, NumBound
<1>5. ReadBack(D, u, out, area)
  <2>1. ReadBack(D, inv_Huffman(buffer, Len(out), n), out, area)
    <3> HIDE DEF n, out, D, area, num
    <3>1. IsBuffer(buffer, D) BY DEF D
    <3> QED BY <1>2, <1>3, <1>4, <3>1, HuffmanInverse
  <2> QED BY <2>1, <1>2
<1>6. Channels(dmode) = n /\ get_num_of_symbs(rows, cols, dmode) = num BY OneLine
<1>7. img \in [Pixels(rows, cols, ni) -> Byte]
      /\ ImgRestored(img, L, img0, E[L], rows, cols, mode, ni)
  <2> DEFINE src == BlockYuv(block, rows, cols, mode)
  <2>1. src \in [Pixels(rows, cols, Channels(mode)) -> Byte] /\ EncRun(E, src, rows, cols, mode)
    BY <1>1 DEF IsCodedBlock
  <2>2. \A k \in 1 .. Last(rows, cols, mode) : \A e :
          DequantPixel(out, cols, dmode, e, At(k, cols, mode))
            = DequantPixel(out, cols, mode, e, At(k, cols, mode))
    BY SamePixels
  <2> HIDE DEF src
  <2>3. out = E[Last(rows, cols, mode)].out OBVIOUS
  <2> HIDE DEF out
  <2>4. Channels(dmode) = Channels(mode) BY <1>6
  <2>5. LET i == LHE_dequant(out, img0, rows, cols, Channels(dmode), dmode)
        IN /\ i \in [Pixels(rows, cols, ni) -> Byte]
           /\ ImgRestored(i, Last(rows, cols, mode), img0, E[Last(rows, cols, mode)], rows, cols,
              mode, ni)
    BY <2>1, <2>2, <2>3, <2>4, DecoderRuns
  <2> QED BY <2>4, <2>5
<1>8. img = yuv
  <2>1. \A p \in Pixels(rows, cols, ni) : img[p] = yuv[p]
    <3> TAKE p \in Pixels(rows, cols, ni)
    <3>1. img[p] = IF p \in Pixels(rows, cols, n) /\ Index(p, cols, n) <= L
                   THEN E[L].img[KeptAt(p, mode)] ELSE img0[p]
      BY <1>7 DEF ImgRestored
    <3>2. p \in Pixels(rows, cols, n) => Index(p, cols, n) <= L
      <4> SUFFICES ASSUME p \in Pixels(rows, cols, n) PROVE Index(p, cols, n) <= L OBVIOUS
      <4>1. \E k \in 1 .. L : IsAt(p, k, rows, cols, mode) BY EveryPixel
      <4>2. Index(p, cols, n) \in 1 .. L BY <4>1 DEF IsAt
      <4>3. L \in Nat BY LastNat
      <4> HIDE DEF L, n
      <4> QED BY <4>2, <4>3
    <3>3. coded.img = E[L].img BY <1>1 DEF IsCodedBlock
    <3>4. yuv[p] = IF p \in Pixels(rows, cols, n) THEN coded.img[KeptAt(p, mode)] ELSE img0[p]
      BY DEF Restored
    <3> HIDE DEF img, yuv, L, n
    <3> QED BY <3>1, <3>2, <3>3, <3>4
  <2>2. yuv = [p \in Pixels(rows, cols, ni) |-> yuv[p]] BY DEF Restored
  <2>3. img = [p \in Pixels(rows, cols, ni) |-> img[p]] BY <1>7
  <2> HIDE DEF img, yuv
  <2> QED BY <2>1, <2>2, <2>3
<1>9. /\ d.img = IF Channels(dmode) = 3 /\ codec_mode # 1
                 THEN ToRgb(LHE_dequant(
                              inv_Huffman(buffer, get_num_of_symbs(rows, cols, dmode),
                                          Channels(dmode)).dst,
                              img0, rows, cols, Channels(dmode), dmode))
                 ELSE LHE_dequant(
                        inv_Huffman(buffer, get_num_of_symbs(rows, cols, dmode),
                                    Channels(dmode)).dst,
                        img0, rows, cols, Channels(dmode), dmode)
      /\ d.bytes_read
         = inv_Huffman(buffer, get_num_of_symbs(rows, cols, dmode), Channels(dmode)).src_idx
  BY DEF lhe_decode_core
<1> HIDE DEF d, num
<1>10. /\ d.img = IF n = 3 /\ codec_mode # 1
                  THEN ToRgb(LHE_dequant(u.dst, img0, rows, cols, n, dmode))
                  ELSE LHE_dequant(u.dst, img0, rows, cols, n, dmode)
       /\ d.bytes_read = u.src_idx
  BY <1>6, <1>9
<1>11. u.dst = out /\ u.src_idx \in Nat /\ u.src_idx <= 3 * area BY <1>5 DEF ReadBack
<1> HIDE DEF u, out, n, L
<1>12. d.img = (IF n = 3 /\ codec_mode # 1 THEN ToRgb(yuv) ELSE yuv) /\ d.bytes_read \in Nat
       /\ d.bytes_read <= 3 * area
  <2> HIDE DEF yuv, area
  <2> QED BY <1>8, <1>10, <1>11
<1>13. yuv \in [Pixels(rows, cols, ni) -> Byte] BY <1>7, <1>8
<1> QED BY <1>12, <1>13 DEF DecodedBlock, d, n

-----------------------------------------------------------------------------
(* The blocks of an image.                                                 *)

(* An index taken apart into a block and a place in it.                    *)
LEMMA Pieces ==
  ASSUME NEW num \in Nat, NEW d \in Nat \ {0}, NEW v \in 0 .. num * d - 1
  PROVE  v \div d \in 0 .. num - 1 /\ v % d \in 0 .. d - 1 /\ v = (v \div d) * d + (v % d)
<1> DEFINE q == v \div d  m == v % d  t == num * d
<1>1. t \in Nat BY SMT
<1>2. v \in Nat /\ v < t
  <2>1. v \in 0 .. t - 1 OBVIOUS
  <2> HIDE DEF t
  <2> QED BY <2>1, <1>1
<1>3. q \in Nat /\ m \in 0 .. d - 1 /\ v = q * d + m BY <1>2, DivFacts
<1>4. q < num
  <2>1. m \in Nat /\ q * d + m < num * d BY <1>2, <1>3
  <2> HIDE DEF q, m, t
  <2> QED BY <2>1, <1>3, ProductLess
<1> HIDE DEF q, m
<1>5. q \in 0 .. num - 1 BY <1>3, <1>4
<1> QED BY <1>3, <1>5 DEF q, m

(* ... and put together again.                                             *)
LEMMA Joining ==
  ASSUME NEW num \in Nat, NEW d \in Nat \ {0}, NEW a \in 0 .. num - 1, NEW b \in 0 .. d - 1
  PROVE  a * d + b \in 0 .. num * d - 1 /\ (a * d + b) \div d = a /\ (a * d + b) % d = b
<1>1. a \in Int /\ d \in Nat /\ a \in Nat /\ a < num OBVIOUS
<1>2. (a * d + b) \div d = a /\ (a * d + b) % d = b BY <1>1, DivUnique
<1>3. a * d + b \in Nat /\ a * d + b < num * d BY <1>1, LessProduct
<1>4. num * d \in Nat BY SMT
<1> DEFINE x == a * d + b  y == num * d
<1>5. x \in Nat /\ x < y /\ y \in Nat BY <1>3, <1>4
<1> HIDE DEF x, y
<1>6. x \in 0 .. y - 1 BY <1>5
<1> QED BY <1>2, <1>6 DEF x, y

(* The blocks in a row of an image.                                        *)
PerRow(r) == r.cols \div r.block_width

(* Its rows of blocks.                                                     *)
Lines(r) == r.rows \div r.block_height

(* Its blocks.                                                             *)
BlockCount(r) == Lines(r) * PerRow(r)

(* The values of an image.                                                 *)
ImagePixels(r) == Pixels(r.rows, r.cols, Channels(r.mode))

(* The values of a block of it.                                            *)
BlockPixels(r) == Pixels(r.block_height, r.block_width, Channels(r.mode))

(* The number of the block a value of the image is in.                     *)
BlockOf(r, p) == (p[1] \div r.block_height) * PerRow(r) + (p[2] \div r.block_width)

(* Where it is in that block.                                              *)
InBlock(r, p) == <<p[1] % r.block_height, p[2] % r.block_width, p[3]>>

(* Where a value of a block is in the image.                               *)
PlaceIn(r, n, at) == Place(n, r.block_height, r.block_width, r.cols, at)

(* What lhe_encoder asks of an image before it starts.                     *)
IsGrid(r) ==
  /\ r.block_height \in Nat \ {0} /\ r.block_width \in Nat \ {0} /\ r.block_width % 2 = 0
  /\ r.rows \in Nat /\ r.cols \in Nat /\ r.rows % r.block_height = 0 /\ r.cols % r.block_width = 0
  /\ r.mode \in ChromaModes

(* Such an image is whole blocks.                                          *)
LEMMA GridFacts ==
  ASSUME NEW r, IsGrid(r)
  PROVE  /\ PerRow(r) \in Nat /\ Lines(r) \in Nat /\ BlockCount(r) \in Nat
         /\ r.cols = PerRow(r) * r.block_width /\ r.rows = Lines(r) * r.block_height
<1> DEFINE rows == r.rows  cols == r.cols  h == r.block_height  w == r.block_width
<1>1. rows \in Nat /\ cols \in Nat /\ h \in Nat \ {0} /\ w \in Nat \ {0} /\ rows % h = 0
      /\ cols % w = 0
  BY DEF IsGrid
<1>2. PerRow(r) = cols \div w /\ Lines(r) = rows \div h BY DEF PerRow, Lines
<1> HIDE DEF rows, cols, h, w
<1>3. rows \div h \in Nat /\ rows = (rows \div h) * h + (rows % h) BY <1>1, DivFacts
<1>4. cols \div w \in Nat /\ cols = (cols \div w) * w + (cols % w) BY <1>1, DivFacts
<1> DEFINE a == rows \div h  b == cols \div w
<1>5. a \in Nat /\ b \in Nat /\ rows = a * h + 0 /\ cols = b * w + 0 BY <1>1, <1>3, <1>4
<1> HIDE DEF a, b
<1>6. a * b \in Nat /\ a * h \in Nat /\ b * w \in Nat BY <1>1, <1>5, SMT
<1>7. rows = a * h /\ cols = b * w
  <2> DEFINE x == a * h  y == b * w
  <2>1. x \in Nat /\ y \in Nat /\ rows = x + 0 /\ cols = y + 0 BY <1>5, <1>6
  <2> HIDE DEF x, y
  <2>2. rows = x /\ cols = y BY <2>1
  <2> QED BY <2>2 DEF x, y
<1>8. PerRow(r) = b /\ Lines(r) = a BY <1>2 DEF a, b
<1> QED BY <1>5, <1>6, <1>7, <1>8 DEF BlockCount, rows, cols, h, w

(* Every value of the image is in one block ...                            *)
LEMMA PixelBlock ==
  ASSUME NEW r, IsGrid(r), NEW p \in ImagePixels(r)
  PROVE  /\ BlockOf(r, p) \in 0 .. BlockCount(r) - 1 /\ InBlock(r, p) \in BlockPixels(r)
         /\ PlaceIn(r, BlockOf(r, p), InBlock(r, p)) = p
         /\ BlockOf(r, p) \div PerRow(r) = p[1] \div r.block_height
<1> DEFINE h == r.block_height  w == r.block_width  a == PerRow(r)  l == Lines(r)
           n == Channels(r.mode)  y == p[1]  x == p[2]  q == y \div h  c == x \div w  b == q * a + c
<1>1. /\ a \in Nat /\ l \in Nat /\ r.cols = a * w /\ r.rows = l * h /\ r.rows \in Nat
      /\ r.cols \in Nat
      /\ h \in Nat \ {0} /\ w \in Nat \ {0}
  BY GridFacts DEF IsGrid
<1>2. n \in {1, 3} BY ChannelsOf
<1>3. p = <<y, x, p[3]>> /\ y \in 0 .. r.rows - 1 /\ x \in 0 .. r.cols - 1 /\ p[3] \in 0 .. n - 1
  <2>1. p \in Pixels(r.rows, r.cols, n) BY DEF ImagePixels
  <2> HIDE DEF n
  <2> QED BY <1>1, <1>2, <2>1, PixelAt
<1> HIDE DEF h, w, a, l, n, y, x
<1>4. q \in 0 .. l - 1 /\ y % h \in 0 .. h - 1 /\ y = q * h + (y % h)
  <2>1. y \in 0 .. l * h - 1 BY <1>1, <1>3
  <2> QED BY <2>1, <1>1, Pieces
<1>5. c \in 0 .. a - 1 /\ x % w \in 0 .. w - 1 /\ x = c * w + (x % w)
  <2>1. x \in 0 .. a * w - 1 BY <1>1, <1>3
  <2> QED BY <2>1, <1>1, Pieces
<1> HIDE DEF q, c
<1>6. a \in Nat \ {0} BY <1>1, <1>5
<1>7. b \in 0 .. l * a - 1 /\ b \div a = q /\ b % a = c BY <1>1, <1>4, <1>5, <1>6, Joining
<1>8. BlockOf(r, p) = b /\ BlockCount(r) = l * a
  BY DEF BlockOf, BlockCount, b, q, c, h, w, a, y, x, l
<1> HIDE DEF b
<1>9. InBlock(r, p) = <<y % h, x % w, p[3]>> BY DEF InBlock, y, x, h, w
<1>10. InBlock(r, p) \in BlockPixels(r) BY <1>3, <1>4, <1>5, <1>9 DEF BlockPixels, Pixels, h, w, n
<1>11. PlaceIn(r, b, InBlock(r, p)) = <<(b \div a) * h + (y % h), (b % a) * w + (x % w), p[3]>>
  BY <1>9 DEF PlaceIn, Place, PerRow, a, h, w
<1>12. PlaceIn(r, b, InBlock(r, p)) = p BY <1>3, <1>4, <1>5, <1>7, <1>11
<1>13. p[1] \div r.block_height = q BY DEF q, y, h
<1> QED BY <1>7, <1>8, <1>10, <1>12, <1>13 DEF a

(* ... and every block has its own.                                        *)
LEMMA PlacePixel ==
  ASSUME NEW r, IsGrid(r), NEW n, n \in 0 .. BlockCount(r) - 1, NEW at \in BlockPixels(r)
  PROVE  /\ PlaceIn(r, n, at) \in ImagePixels(r)
         /\ BlockOf(r, PlaceIn(r, n, at)) = n /\ InBlock(r, PlaceIn(r, n, at)) = at
         /\ PlaceIn(r, n, at)[3] = at[3]
<1> DEFINE h == r.block_height  w == r.block_width  a == PerRow(r)  l == Lines(r)
           m == Channels(r.mode)  y == at[1]  x == at[2]  q == n \div a  c == n % a
           p == PlaceIn(r, n, at)
<1>1. /\ a \in Nat /\ l \in Nat /\ r.cols = a * w /\ r.rows = l * h /\ r.rows \in Nat
      /\ r.cols \in Nat
      /\ h \in Nat \ {0} /\ w \in Nat \ {0} /\ h \in Nat /\ w \in Nat
  BY GridFacts DEF IsGrid
<1>2. m \in {1, 3} BY ChannelsOf
<1>3. at = <<y, x, at[3]>> /\ y \in 0 .. h - 1 /\ x \in 0 .. w - 1 /\ at[3] \in 0 .. m - 1
  <2>1. at \in Pixels(h, w, m) BY DEF BlockPixels
  <2> HIDE DEF m, h, w
  <2> QED BY <1>1, <1>2, <2>1, PixelAt
<1>4. n \in 0 .. l * a - 1 BY DEF BlockCount
<1>5. p = <<q * h + y, c * w + x, at[3]>> BY DEF PlaceIn, Place, PerRow
<1> HIDE DEF h, w, a, l, m, y, x, p
<1>6. a \in Nat \ {0}
  <2>1. a # 0
    <3> SUFFICES ASSUME a = 0 PROVE FALSE OBVIOUS
    <3>1. l * 0 = 0 BY <1>1
    <3>2. n \in 0 .. 0 - 1 BY <3>1, <1>4
    <3> QED BY <3>2
  <2> QED BY <2>1, <1>1
<1>7. q \in 0 .. l - 1 /\ c \in 0 .. a - 1 /\ n = q * a + c
  <2>1. l \in Nat BY <1>1
  <2>2. n \div a \in 0 .. l - 1 /\ n % a \in 0 .. a - 1 /\ n = (n \div a) * a + (n % a)
    BY <2>1, <1>4, <1>6, Pieces
  <2> QED BY <2>2
<1> HIDE DEF q, c
<1>8. q * h + y \in 0 .. l * h - 1 /\ (q * h + y) \div h = q /\ (q * h + y) % h = y
  BY <1>1, <1>3, <1>7, Joining
<1>9. c * w + x \in 0 .. a * w - 1 /\ (c * w + x) \div w = c /\ (c * w + x) % w = x
  BY <1>1, <1>3, <1>7, Joining
<1>10. p \in ImagePixels(r)
  <2>1. ImagePixels(r) = (0 .. r.rows - 1) \X (0 .. r.cols - 1) \X (0 .. m - 1)
    BY DEF ImagePixels, Pixels, m
  <2>2. q * h + y \in 0 .. r.rows - 1 /\ c * w + x \in 0 .. r.cols - 1 BY <1>1, <1>8, <1>9
  <2> QED BY <2>1, <2>2, <1>3, <1>5
<1>11. p[1] = q * h + y /\ p[2] = c * w + x /\ p[3] = at[3] BY <1>5
<1>12. BlockOf(r, p) = q * a + c BY <1>8, <1>9, <1>11 DEF BlockOf, h, w, a
<1>13. InBlock(r, p) = <<y, x, at[3]>> BY <1>8, <1>9, <1>11 DEF InBlock, h, w
<1> QED BY <1>3, <1>7, <1>10, <1>11, <1>12, <1>13 DEF p

(* An image with a block replaced.                                         *)
IsPut(to, img, r, n, block) ==
  /\ to = [p \in ImagePixels(r) |-> to[p]]
  /\ \A p \in ImagePixels(r) :
       to[p] = IF BlockOf(r, p) = n /\ InBlock(r, p) \in DOMAIN block THEN block[InBlock(r, p)]
         ELSE img[p]

(* Put replaces that block and nothing else.                               *)
LEMMA PutBlock ==
  ASSUME NEW r, NEW n, NEW img, NEW block, IsGrid(r), n \in 0 .. BlockCount(r) - 1,
         DOMAIN img = ImagePixels(r), DOMAIN block \subseteq BlockPixels(r)
  PROVE  IsPut(Put(img, n, r.block_height, r.block_width, r.cols, block), img, r, n, block)
<1> DEFINE P(at) == PlaceIn(r, n, at)
           to == Put(img, n, r.block_height, r.block_width, r.cols, block)
           v(p) == IF \E at \in DOMAIN block : P(at) = p
                   THEN block[CHOOSE at \in DOMAIN block : P(at) = p] ELSE img[p]
<1>1. to = [p \in ImagePixels(r) |-> v(p)] BY DEF Put, PlaceIn
<1>2. ASSUME NEW p \in ImagePixels(r)
      PROVE  v(p) = IF BlockOf(r, p) = n /\ InBlock(r, p) \in DOMAIN block THEN block[InBlock(r, p)]
             ELSE img[p]
  <2>1. ASSUME NEW at \in DOMAIN block, P(at) = p PROVE BlockOf(r, p) = n /\ InBlock(r, p) = at
    <3>1. at \in BlockPixels(r) OBVIOUS
    <3> QED BY <2>1, <3>1, PlacePixel
  <2>2. PlaceIn(r, BlockOf(r, p), InBlock(r, p)) = p BY PixelBlock
  <2> HIDE DEF P
  <2>3. CASE \E at \in DOMAIN block : P(at) = p
    <3> DEFINE c == CHOOSE at \in DOMAIN block : P(at) = p
    <3>1. c \in DOMAIN block /\ P(c) = p BY <2>3
    <3> HIDE DEF c
    <3>2. BlockOf(r, p) = n /\ InBlock(r, p) = c BY <3>1, <2>1
    <3>3. v(p) = block[c] BY <2>3 DEF c
    <3> HIDE DEF v
    <3> QED BY <3>1, <3>2, <3>3
  <2>4. CASE ~ \E at \in DOMAIN block : P(at) = p
    <3>1. ~ (BlockOf(r, p) = n /\ InBlock(r, p) \in DOMAIN block) BY <2>2, <2>4 DEF P
    <3>2. v(p) = img[p] BY <2>4
    <3> HIDE DEF v
    <3> QED BY <3>1, <3>2
  <2> QED BY <2>3, <2>4
<1> HIDE DEF v, to
<1>3. to = [p \in ImagePixels(r) |-> to[p]] /\ \A p \in ImagePixels(r) : to[p] = v(p) BY <1>1
<1>4. IsPut(to, img, r, n, block) BY <1>2, <1>3 DEF IsPut
<1> QED BY <1>4 DEF to

(* What may be asked of the encoder, and is not refused.                   *)
IsAsked(r, s) == r \in Requests /\ s \in Images(r.rows, r.cols) /\ Accepted(r)

(* That is an image of whole blocks of even width.                         *)
LEMMA AskedGrid ==
  ASSUME NEW r, NEW s, IsAsked(r, s)
  PROVE  /\ IsGrid(r) /\ s \in [(0 .. r.rows - 1) \X (0 .. r.cols - 1) -> Colours]
         /\ (r.mode = "yuv420" /\ r.block_height = 1 => r.rows % 2 = 0)
         /\ r.block_width = (r.block_width \div WidthUnit) * WidthUnit
         /\ r.block_width \div WidthUnit \in Nat \ {0}
<1>1. /\ r \in [mode : ChromaModes, block_height : Nat \ {0}, block_width : Nat, rows : Nat,
         cols : Nat]
      /\ s \in [(0 .. r.rows - 1) \X (0 .. r.cols - 1) -> Byte \X Byte \X Byte]
      /\ (r.mode = "yuv420" /\ r.block_height = 1 => r.rows % 2 = 0)
  BY RequestAssumption DEF IsAsked
<1>2. /\ r.block_width >= 1 /\ r.block_width % WidthUnit = 0
      /\ r.rows % r.block_height = 0 /\ r.cols % r.block_width = 0
  BY DEF IsAsked, Accepted
<1> DEFINE w == r.block_width  q == w \div WidthUnit  h == WidthUnit \div 2
<1>3. w \in Nat /\ w >= 1 /\ w % WidthUnit = 0 BY <1>1, <1>2
<1>4. WidthUnit \in Nat \ {0} /\ WidthUnit = 2 * h /\ h \in Nat
  <2>1. WidthUnit \in Nat \ {0} /\ WidthUnit % 2 = 0 BY WidthAssumption
  <2> QED BY <2>1
<1> HIDE DEF w, h
<1>5. q \in Nat /\ w = q * WidthUnit + (w % WidthUnit) BY <1>3, <1>4, DivFacts
<1>6. w = q * WidthUnit
  <2>1. q * WidthUnit \in Nat BY <1>4, <1>5, SMT
  <2> DEFINE x == q * WidthUnit
  <2>2. x \in Nat /\ w = x + 0 BY <2>1, <1>3, <1>5
  <2> HIDE DEF x
  <2>3. w = x BY <2>2
  <2> QED BY <2>3 DEF x
<1> HIDE DEF q
<1>7. w % 2 = 0
  <2>1. w = q * (2 * h) BY <1>4, <1>6
  <2>2. (q * (2 * h)) % 2 = 0 BY <1>4, <1>5, EvenProduct
  <2> QED BY <2>1, <2>2
<1>8. q # 0
  <2> SUFFICES ASSUME q = 0 PROVE FALSE OBVIOUS
  <2>1. 0 * WidthUnit = 0 BY <1>4
  <2> QED BY <2>1, <1>3, <1>6
<1>9. w = r.block_width /\ q = r.block_width \div WidthUnit BY DEF w, q
<1>10. IsGrid(r)
  <2>1. r.block_width \in Nat \ {0} /\ r.block_width % 2 = 0 BY <1>3, <1>7, <1>9
  <2> QED BY <1>1, <1>2, <2>1 DEF IsGrid
<1>11. r.block_width = (r.block_width \div WidthUnit) * WidthUnit
       /\ r.block_width \div WidthUnit \in Nat \ {0}
  BY <1>5, <1>6, <1>8, <1>9
<1> QED BY <1>1, <1>10, <1>11 DEF Colours

(* A header without a field cut off.                                       *)
HeaderOf(r) ==
  [profile |-> r.mode, blk_height |-> r.block_height - 1,
    blk_width |-> (r.block_width \div WidthUnit) - 1,
   img_height |-> Lines(r), img_width |-> PerRow(r)]

(* If what is asked fits, the header says what was asked.                  *)
LEMMA HeaderSays ==
  ASSUME NEW s, HeaderFits, IsAsked(request, s)
  PROVE  WriteHeader = HeaderOf(request)
<1> DEFINE r == request  a == r.block_height  q == r.block_width \div WidthUnit  l == Lines(r)
           c == PerRow(r)
<1>1. IsGrid(r) /\ q \in Nat \ {0} BY AskedGrid
<1>2. l \in Nat /\ c \in Nat BY <1>1, GridFacts
<1>3. a \in Nat \ {0} /\ a <= 16 BY <1>1 DEF IsGrid, IsAsked, Accepted, MAX_BLOCK_HEIGHT
<1>4. q <= 256 /\ l < 65536 /\ c < 65536 BY DEF HeaderFits, IsAsked, Lines, PerRow
<1>5. WriteHeader = [profile |-> r.mode, blk_height |-> (a - 1) % 256, blk_width |-> (q - 1) % 256,
                     img_height |-> l % 65536, img_width |-> c % 65536]
  BY DEF WriteHeader, Lines, PerRow
<1>6. HeaderOf(r) = [profile |-> r.mode, blk_height |-> a - 1, blk_width |-> q - 1,
                     img_height |-> l, img_width |-> c]
  BY DEF HeaderOf
<1> HIDE DEF a, q, l, c, r
<1>7. (a - 1) % 256 = a - 1 /\ (q - 1) % 256 = q - 1
  <2>1. a - 1 \in 0 .. 256 - 1 /\ q - 1 \in 0 .. 256 - 1 BY <1>1, <1>3, <1>4
  <2> QED BY <2>1
<1>8. l % 65536 = l /\ c % 65536 = c BY <1>2, <1>4
<1> QED BY <1>5, <1>6, <1>7, <1>8 DEF r

-----------------------------------------------------------------------------
(* What encoder and decoder make of the n-th block of an image.            *)

(* Blocks of one line in YUV 4:2:0.                                        *)
OneLineColour(r) == r.mode = "yuv420" /\ r.block_height = 1

(* The n-th block of the source.                                           *)
SourceBlock(r, s, n) ==
  [at \in (0 .. r.block_height - 1) \X (0 .. r.block_width - 1) |->
     LET p == PlaceIn(r, n, <<at[1], at[2], 0>>) IN s[<<p[1], p[2]>>]]

(* What lhe_encode_core makes of it.                                       *)
CodeAt(r, s, n) == lhe_encode_core(SourceBlock(r, s, n), r.block_height, r.block_width,
                   BlockMode(r, n))

(* The image the decoder finds in that, a channel that was not coded being *)
(* 0.                                                                      *)
YuvAt(r, s, n) ==
  Restored(CodeAt(r, s, n).img, [at \in BlockPixels(r) |-> 0], r.block_height, r.block_width,
           BlockMode(r, n), Channels(r.mode))

(* ... as it is put into the image.                                        *)
ShownAt(r, s, n) ==
  IF Channels(r.mode) = 3 /\ ~ OneLineColour(r) THEN ToRgb(YuvAt(r, s, n)) ELSE YuvAt(r, s, n)

(* The mode of a block is the one of the image, or of its line.            *)
LEMMA ModeOfBlock ==
  ASSUME NEW r, NEW n, IsGrid(r)
  PROVE  /\ IsBlock(r.block_height, r.block_width, BlockMode(r, n))
         /\ Channels(BlockMode(r, n)) <= Channels(r.mode)
         /\ (~ OneLineColour(r) => BlockMode(r, n) = r.mode)
         /\ (OneLineColour(r) =>
               BlockMode(r, n) = IF (n \div PerRow(r)) % 2 # 0 THEN "gray" ELSE "yuv422")
<1>1. (~ OneLineColour(r) => BlockMode(r, n) = r.mode)
      /\ (OneLineColour(r) => BlockMode(r, n) = IF (n \div PerRow(r)) % 2 # 0 THEN "gray"
         ELSE "yuv422")
  BY DEF OneLineColour, BlockMode, PerRow
<1>2. CASE OneLineColour(r)
  <2>1. Channels(r.mode) = 3 /\ Channels("gray") = 1 /\ Channels("yuv422") = 3
    BY <1>2 DEF OneLineColour, Channels
  <2>2. "gray" \in ChromaModes /\ "yuv422" \in ChromaModes BY DEF ChromaModes
  <2>3. BlockMode(r, n) = "gray" \/ BlockMode(r, n) = "yuv422" BY <1>1, <1>2
  <2> QED BY <1>1, <2>1, <2>2, <2>3 DEF IsGrid, IsBlock
<1>3. CASE ~ OneLineColour(r)
  <2>1. Channels(r.mode) <= Channels(r.mode) BY ChannelsOf
  <2> QED BY <1>1, <1>3, <2>1 DEF IsGrid, IsBlock
<1> QED BY <1>2, <1>3

(* The block of an image of one colour is of that colour.                  *)
LEMMA SourceOfBlock ==
  ASSUME NEW r, NEW s, NEW n, IsAsked(r, s), n \in 0 .. BlockCount(r) - 1
  PROVE  /\ IsColourBlock(SourceBlock(r, s, n), r.block_height, r.block_width)
         /\ \A c : (\A x \in DOMAIN s : s[x] = c) =>
                      IsOneColour(SourceBlock(r, s, n), r.block_height, r.block_width, c)
<1> DEFINE h == r.block_height  w == r.block_width  D == (0 .. r.rows - 1) \X (0 .. r.cols - 1)
           v(at) == LET p == PlaceIn(r, n, <<at[1], at[2], 0>>) IN s[<<p[1], p[2]>>]
<1>1. IsGrid(r) /\ s \in [D -> Colours] BY AskedGrid
<1>2. SourceBlock(r, s, n) = [at \in (0 .. h - 1) \X (0 .. w - 1) |-> v(at)] BY DEF SourceBlock
<1>3. \A at \in (0 .. h - 1) \X (0 .. w - 1) : \E x \in D : v(at) = s[x]
  <2> TAKE at \in (0 .. h - 1) \X (0 .. w - 1)
  <2> DEFINE a == <<at[1], at[2], 0>>  p == PlaceIn(r, n, a)
  <2>1. 0 \in 0 .. Channels(r.mode) - 1 BY DEF Channels
  <2>2. a \in BlockPixels(r) BY <2>1 DEF BlockPixels, Pixels
  <2> HIDE DEF a
  <2>3. p \in ImagePixels(r) BY <1>1, <2>2, PlacePixel
  <2> HIDE DEF p
  <2>4. <<p[1], p[2]>> \in D
    <3>1. p[1] \in 0 .. r.rows - 1 /\ p[2] \in 0 .. r.cols - 1 BY <2>3 DEF ImagePixels, Pixels
    <3> QED BY <3>1
  <2>5. v(at) = s[<<p[1], p[2]>>] BY DEF p, a
  <2> HIDE DEF v
  <2> QED BY <2>4, <2>5
<1> HIDE DEF v, D
<1>4. IsColourBlock(SourceBlock(r, s, n), h, w) BY <1>1, <1>2, <1>3 DEF IsColourBlock
<1>5. \A c : (\A x \in DOMAIN s : s[x] = c) => IsOneColour(SourceBlock(r, s, n), h, w, c)
  BY <1>1, <1>2, <1>3 DEF IsOneColour
<1> QED BY <1>4, <1>5

(* Every block is coded as CodedBlock says.                                *)
LEMMA DataOfBlock ==
  ASSUME NEW r, NEW s, NEW n, IsAsked(r, s), n \in 0 .. BlockCount(r) - 1
  PROVE  BlockData(CodeAt(r, s, n), SourceBlock(r, s, n), r.block_height, r.block_width,
         BlockMode(r, n))
<1>1. IsGrid(r) BY AskedGrid
<1>2. IsBlock(r.block_height, r.block_width, BlockMode(r, n)) BY <1>1, ModeOfBlock
<1>3. IsColourBlock(SourceBlock(r, s, n), r.block_height, r.block_width) BY SourceOfBlock
<1> QED BY <1>2, <1>3, CodedBlock DEF CodeAt

(* clamp gives bytes.                                                      *)
LEMMA Clamped == ASSUME NEW v \in Int PROVE clamp(v) \in Byte
BY DEF clamp, Byte

(* So does yuv2rgb.                                                        *)
LEMMA YuvToRgb ==
  ASSUME NEW y \in Byte, NEW u \in Byte, NEW v \in Byte, NEW i \in 1 .. 3
  PROVE  yuv2rgb(<<y, u, v>>)[i] \in Byte
<1> DEFINE a == u - 128  b == v - 128
           r == (y*257 + a + b*363 + 128) \div 256
           g == (y*257 - a*89 - b*183 + 128) \div 256
           l == (y*257 + a*458 + b + 128) \div 256
<1>1. y \in Int /\ a \in Int /\ b \in Int BY DEF Byte
<1>2. yuv2rgb(<<y, u, v>>) = <<clamp(r), clamp(g), clamp(l)>> BY DEF yuv2rgb
<1> HIDE DEF a, b
<1>3. r \in Int /\ g \in Int /\ l \in Int BY <1>1
<1> HIDE DEF r, g, l
<1>4. clamp(r) \in Byte /\ clamp(g) \in Byte /\ clamp(l) \in Byte BY <1>3, Clamped
<1>5. i = 1 \/ i = 2 \/ i = 3 OBVIOUS
<1> QED BY <1>2, <1>4, <1>5

(* The conversion of an image works pixel by pixel.                        *)
LEMMA RgbImage ==
  ASSUME NEW rows \in Nat, NEW cols \in Nat, NEW img \in [Pixels(rows, cols, 3) -> Byte]
  PROVE  /\ ToRgb(img) \in [Pixels(rows, cols, 3) -> Byte]
         /\ \A p \in Pixels(rows, cols, 3) :
              ToRgb(img)[p] = yuv2rgb(<<img[<<p[1], p[2], 0>>], img[<<p[1], p[2], 1>>],
                                        img[<<p[1], p[2], 2>>]>>)[p[3] + 1]
<1> DEFINE v(p) == yuv2rgb(<<img[<<p[1], p[2], 0>>], img[<<p[1], p[2], 1>>],
                             img[<<p[1], p[2], 2>>]>>)[p[3] + 1]
<1>1. ToRgb(img) = [p \in Pixels(rows, cols, 3) |-> v(p)] BY DEF ToRgb
<1>2. \A p \in Pixels(rows, cols, 3) : v(p) \in Byte
  <2> TAKE p \in Pixels(rows, cols, 3)
  <2>1. p[1] \in 0 .. rows - 1 /\ p[2] \in 0 .. cols - 1 /\ p[3] \in 0 .. 2 BY DEF Pixels
  <2>2. p[3] + 1 \in 1 .. 3 BY <2>1
  <2>3. /\ <<p[1], p[2], 0>> \in Pixels(rows, cols, 3)
        /\ <<p[1], p[2], 1>> \in Pixels(rows, cols, 3)
        /\ <<p[1], p[2], 2>> \in Pixels(rows, cols, 3)
    BY <2>1 DEF Pixels
  <2>4. img[<<p[1], p[2], 0>>] \in Byte /\ img[<<p[1], p[2], 1>>] \in Byte
        /\ img[<<p[1], p[2], 2>>] \in Byte
    BY <2>3
  <2> QED BY <2>2, <2>4, YuvToRgb
<1> HIDE DEF v
<1>3. ToRgb(img) \in [Pixels(rows, cols, 3) -> Byte] BY <1>1, <1>2
<1>4. \A p \in Pixels(rows, cols, 3) : ToRgb(img)[p] = v(p) BY <1>1
<1> QED BY <1>3, <1>4 DEF v

(* What the decoder shows of a block is bytes.                             *)
LEMMA ShownIs ==
  ASSUME NEW r, NEW s, NEW n, IsAsked(r, s), n \in 0 .. BlockCount(r) - 1
  PROVE  /\ YuvAt(r, s, n) \in [BlockPixels(r) -> Byte]
         /\ ShownAt(r, s, n) \in [BlockPixels(r) -> Byte]
<1> DEFINE h == r.block_height  w == r.block_width  m == BlockMode(r, n)  ni == Channels(r.mode)
           code == CodeAt(r, s, n)  yuv == YuvAt(r, s, n)  zero == [at \in BlockPixels(r) |-> 0]
           v(p) == IF p \in Pixels(h, w, Channels(m)) THEN code.img[KeptAt(p, m)] ELSE zero[p]
<1>1. BlockData(code, SourceBlock(r, s, n), h, w, m) BY DataOfBlock
<1>2. yuv = [p \in BlockPixels(r) |-> v(p)] BY DEF YuvAt, Restored, BlockPixels
<1>3. \A p \in BlockPixels(r) : v(p) \in Byte
  <2> TAKE p \in BlockPixels(r)
  <2>1. CASE p \in Pixels(h, w, Channels(m))
    <3>1. code.img[KeptAt(p, m)] \in Byte BY <1>1, <2>1 DEF BlockData
    <3> QED BY <2>1, <3>1
  <2>2. CASE ~ p \in Pixels(h, w, Channels(m)) BY <2>2 DEF Byte
  <2> QED BY <2>1, <2>2
<1> HIDE DEF v, yuv
<1>4. yuv \in [BlockPixels(r) -> Byte] BY <1>2, <1>3
<1>5. h \in Nat /\ w \in Nat BY AskedGrid DEF IsGrid
<1>6. CASE ni = 3 /\ ~ OneLineColour(r)
  <2>1. BlockPixels(r) = Pixels(h, w, 3) BY <1>6 DEF BlockPixels
  <2>2. ToRgb(yuv) \in [BlockPixels(r) -> Byte]
    <3> HIDE DEF h, w
    <3> QED BY <1>4, <1>5, <2>1, RgbImage
  <2> QED BY <1>4, <1>6, <2>2 DEF ShownAt, yuv
<1>7. CASE ~ (ni = 3 /\ ~ OneLineColour(r)) BY <1>4, <1>7 DEF ShownAt, yuv
<1> QED BY <1>4, <1>6, <1>7 DEF yuv

(* The mode lhe_decoder takes a block to be of.                            *)
DecoderModeOf(r, n) == IF OneLineColour(r) /\ (n \div PerRow(r)) % 2 # 0 THEN "gray" ELSE r.mode

(* The block is shown as it was coded, and the buffer not left.            *)
ShowsBlock(d, r, s, n) ==
  /\ d.img = ShownAt(r, s, n)
  /\ d.bytes_read \in Nat /\ d.bytes_read <= 3 * (r.block_height * r.block_width)

(* lhe_decode_core does that for every block of every image, though the    *)
(* two programs give the lines of a YUV 4:2:0 image different modes.       *)
LEMMA DecodedIsShown ==
  ASSUME NEW r, NEW s, NEW n, NEW buffer, NEW codec_mode, IsAsked(r, s),
         n \in 0 .. BlockCount(r) - 1,
         IsBuffer(buffer, CodeAt(r, s, n).data), codec_mode = IF OneLineColour(r) THEN 1 ELSE 0
  PROVE  ShowsBlock(lhe_decode_core(buffer, [at \in BlockPixels(r) |-> 0], r.block_height,
         r.block_width,
                                    DecoderModeOf(r, n), codec_mode), r, s, n)
<1> DEFINE h == r.block_height  w == r.block_width  m == BlockMode(r, n)  ni == Channels(r.mode)
           zero == [at \in BlockPixels(r) |-> 0]  code == CodeAt(r, s, n)
           block == SourceBlock(r, s, n)
           dmode == DecoderModeOf(r, n)
<1>1. IsGrid(r) BY AskedGrid
<1>2. /\ IsBlock(h, w, m) /\ Channels(m) <= ni
      /\ (~ OneLineColour(r) => m = r.mode)
      /\ (OneLineColour(r) => m = IF (n \div PerRow(r)) % 2 # 0 THEN "gray" ELSE "yuv422")
  BY <1>1, ModeOfBlock
<1>3. IsColourBlock(block, h, w) BY SourceOfBlock
<1>4. code = lhe_encode_core(block, h, w, m) BY DEF CodeAt
<1>5. IsImage(zero, h, w, m, ni)
  <2>1. zero \in [BlockPixels(r) -> Byte] BY DEF Byte
  <2>2. ni \in {1, 3} BY ChannelsOf
  <2> QED BY <1>2, <2>1, <2>2 DEF IsImage, BlockPixels
<1>6. SameMode(h, m, dmode)
  <2>1. CASE OneLineColour(r)
    <3>1. h = 1 /\ r.mode = "yuv420" BY <2>1 DEF OneLineColour
    <3> QED BY <2>1, <3>1, <1>2 DEF SameMode, DecoderModeOf
  <2>2. CASE ~ OneLineColour(r) BY <2>2, <1>2 DEF SameMode, DecoderModeOf
  <2> QED BY <2>1, <2>2
<1> DEFINE d == lhe_decode_core(buffer, zero, h, w, dmode, codec_mode)  yuv == YuvAt(r, s, n)
<1> HIDE DEF h, w, m, ni, zero, code, block, dmode
<1>7. DecodedBlock(d, code, zero, h, w, m, ni, codec_mode)
  <2>1. IsBuffer(buffer, code.data) BY DEF code
  <2> QED BY <1>2, <1>3, <1>4, <1>5, <1>6, <2>1, BlockIsDecoded
<1> HIDE DEF d
<1>8. yuv = Restored(code.img, zero, h, w, m, ni) BY DEF YuvAt, code, zero, h, w, m, ni
<1> HIDE DEF yuv
<1>9. /\ d.img = IF Channels(m) = 3 /\ codec_mode # 1 THEN ToRgb(yuv) ELSE yuv
      /\ d.bytes_read \in Nat /\ d.bytes_read <= 3 * (h * w)
  BY <1>7, <1>8 DEF DecodedBlock
<1>10. d.img = ShownAt(r, s, n)
  <2>1. ShownAt(r, s, n) = IF ni = 3 /\ ~ OneLineColour(r) THEN ToRgb(yuv) ELSE yuv
    BY DEF ShownAt, ni, yuv
  <2>2. CASE OneLineColour(r) BY <2>1, <2>2, <1>9
  <2>3. CASE ~ OneLineColour(r)
    <3>1. Channels(m) = ni BY <2>3, <1>2 DEF ni
    <3> QED BY <2>1, <2>3, <3>1, <1>9
  <2> QED BY <2>2, <2>3
<1> QED BY <1>9, <1>10 DEF ShowsBlock, d, zero, h, w, dmode

(* The image predictions were made from, after m blocks.                   *)
QuantizedUpTo(q, r, s, m) ==
  /\ q \in [ImagePixels(r) -> Byte \cup {Unset}]
  /\ \A p \in ImagePixels(r) :
       q[p] = IF BlockOf(r, p) < m /\ InBlock(r, p) \in DOMAIN CodeAt(r, s, BlockOf(r, p)).img
              THEN CodeAt(r, s, BlockOf(r, p)).img[InBlock(r, p)] ELSE Unset

(* The image of the decoder, after m blocks.                               *)
DecodedUpTo(d, r, s, m) ==
  /\ d \in [ImagePixels(r) -> Byte]
  /\ \A p \in ImagePixels(r) :
       d[p] = IF BlockOf(r, p) < m THEN ShownAt(r, s, BlockOf(r, p))[InBlock(r, p)] ELSE 0

(* There is none before the first block.                                   *)
LEMMA QuantizedStart ==
  ASSUME NEW r, NEW s, IsAsked(r, s)
  PROVE  QuantizedUpTo([p \in ImagePixels(r) |-> Unset], r, s, 0)
<1> SUFFICES ASSUME NEW p \in ImagePixels(r) PROVE ~ BlockOf(r, p) < 0 BY DEF QuantizedUpTo
<1>1. IsGrid(r) BY AskedGrid
<1>2. BlockOf(r, p) \in 0 .. BlockCount(r) - 1 BY <1>1, PixelBlock
<1> QED BY <1>2

(* A block more is added by the encoder's loop ...                         *)
LEMMA QuantizedMore ==
  ASSUME NEW r, NEW s, NEW n, NEW q, IsAsked(r, s), n \in 0 .. BlockCount(r) - 1,
         QuantizedUpTo(q, r, s, n)
  PROVE  QuantizedUpTo(Put(q, n, r.block_height, r.block_width, r.cols, CodeAt(r, s, n).img), r, s,
         n + 1)
<1> DEFINE code == CodeAt(r, s, n)  to == Put(q, n, r.block_height, r.block_width, r.cols, code.img)
           m == BlockMode(r, n)  V == Byte \cup {Unset}
<1>1. IsGrid(r) BY AskedGrid
<1>2. BlockData(code, SourceBlock(r, s, n), r.block_height, r.block_width, m) BY DataOfBlock
<1>3. code.img \in [Pixels(r.block_height, r.block_width, Channels(m)) -> V] BY <1>2 DEF BlockData
<1>4. Pixels(r.block_height, r.block_width, Channels(m)) \subseteq BlockPixels(r)
  <2>1. Channels(m) <= Channels(r.mode) BY <1>1, ModeOfBlock
  <2>2. Channels(m) \in Nat /\ Channels(r.mode) \in Nat BY ChannelsOf
  <2> DEFINE a == Channels(m)  b == Channels(r.mode)
  <2>3. 0 .. a - 1 \subseteq 0 .. b - 1
    <3>1. a \in Nat /\ b \in Nat /\ a <= b BY <2>1, <2>2
    <3> HIDE DEF a, b
    <3> QED BY <3>1
  <2> QED BY <2>3 DEF BlockPixels, Pixels
<1>5. q \in [ImagePixels(r) -> V] BY DEF QuantizedUpTo
<1> HIDE DEF V
<1>6. IsPut(to, q, r, n, code.img)
  <2>1. DOMAIN q = ImagePixels(r) /\ DOMAIN code.img \subseteq BlockPixels(r) BY <1>3, <1>4, <1>5
  <2> HIDE DEF code
  <2> QED BY <1>1, <2>1, PutBlock
<1> HIDE DEF to
<1>7. ASSUME NEW p \in ImagePixels(r)
      PROVE  /\ to[p] \in V
             /\ to[p] = IF /\ BlockOf(r, p) < n + 1
                           /\ InBlock(r, p) \in DOMAIN CodeAt(r, s, BlockOf(r, p)).img
                        THEN CodeAt(r, s, BlockOf(r, p)).img[InBlock(r, p)] ELSE Unset
  <2> DEFINE b == BlockOf(r, p)  at == InBlock(r, p)
  <2>1. to[p] = IF b = n /\ at \in DOMAIN code.img THEN code.img[at] ELSE q[p] BY <1>6 DEF IsPut
  <2>2. q[p] = IF b < n /\ at \in DOMAIN CodeAt(r, s, b).img THEN CodeAt(r, s, b).img[at] ELSE Unset
    BY DEF QuantizedUpTo
  <2>3. b \in Nat /\ n \in Nat
    <3>1. b \in 0 .. BlockCount(r) - 1 BY <1>1, PixelBlock
    <3> HIDE DEF b
    <3> QED BY <3>1
  <2> HIDE DEF b, at, code
  <2>4. (b < n + 1 <=> b < n \/ b = n) /\ ~ n < n BY <2>3
  <2>5. q[p] \in V BY <1>5
  <2>6. CASE b = n
    <3>1. CodeAt(r, s, b) = code BY <2>6 DEF code
    <3>2. CASE at \in DOMAIN code.img
      <4>1. code.img[at] \in V BY <3>2, <1>3
      <4> QED BY <2>1, <2>4, <2>6, <3>1, <3>2, <4>1 DEF b, at
    <3>3. CASE ~ at \in DOMAIN code.img BY <2>1, <2>2, <2>4, <2>5, <2>6, <3>1, <3>3 DEF b, at
    <3> QED BY <3>2, <3>3
  <2>7. CASE b # n BY <2>1, <2>2, <2>4, <2>5, <2>7 DEF b, at
  <2> QED BY <2>6, <2>7
<1>8. to \in [ImagePixels(r) -> V]
  <2>1. to = [p \in ImagePixels(r) |-> to[p]] BY <1>6 DEF IsPut
  <2> QED BY <2>1, <1>7
<1> QED BY <1>7, <1>8 DEF QuantizedUpTo, to, V, code

(* The decoder's image is black at the start.                              *)
LEMMA DecodedStart ==
  ASSUME NEW r, NEW s, IsAsked(r, s)
  PROVE  DecodedUpTo([p \in ImagePixels(r) |-> 0], r, s, 0)
<1> SUFFICES ASSUME NEW p \in ImagePixels(r) PROVE ~ BlockOf(r, p) < 0 BY DEF DecodedUpTo, Byte
<1>1. IsGrid(r) BY AskedGrid
<1>2. BlockOf(r, p) \in 0 .. BlockCount(r) - 1 BY <1>1, PixelBlock
<1> QED BY <1>2

(* ... and by the decoder's.                                               *)
LEMMA DecodedMore ==
  ASSUME NEW r, NEW s, NEW n, NEW d, IsAsked(r, s), n \in 0 .. BlockCount(r) - 1,
         DecodedUpTo(d, r, s, n)
  PROVE  DecodedUpTo(Put(d, n, r.block_height, r.block_width, r.cols, ShownAt(r, s, n)), r, s, n
         + 1)
<1> DEFINE shown == ShownAt(r, s, n)  to == Put(d, n, r.block_height, r.block_width, r.cols, shown)
<1>1. IsGrid(r) BY AskedGrid
<1>2. shown \in [BlockPixels(r) -> Byte] BY ShownIs
<1>3. d \in [ImagePixels(r) -> Byte] BY DEF DecodedUpTo
<1>4. IsPut(to, d, r, n, shown)
  <2>1. DOMAIN d = ImagePixels(r) /\ DOMAIN shown \subseteq BlockPixels(r) BY <1>2, <1>3
  <2> HIDE DEF shown
  <2> QED BY <1>1, <2>1, PutBlock
<1> HIDE DEF to
<1>5. ASSUME NEW p \in ImagePixels(r)
      PROVE  /\ to[p] \in Byte
             /\ to[p] = IF BlockOf(r, p) < n + 1
                        THEN ShownAt(r, s, BlockOf(r, p))[InBlock(r, p)] ELSE 0
  <2> DEFINE b == BlockOf(r, p)  at == InBlock(r, p)
  <2>1. b \in 0 .. BlockCount(r) - 1 /\ at \in BlockPixels(r) BY <1>1, PixelBlock
  <2>2. to[p] = IF b = n /\ at \in DOMAIN shown THEN shown[at] ELSE d[p] BY <1>4 DEF IsPut
  <2>3. d[p] = IF b < n THEN ShownAt(r, s, b)[at] ELSE 0 BY DEF DecodedUpTo
  <2>4. d[p] \in Byte BY <1>3
  <2> HIDE DEF b, at, shown
  <2>5. (b < n + 1 <=> b < n \/ b = n) /\ ~ n < n BY <2>1
  <2>6. CASE b = n
    <3>1. at \in DOMAIN shown /\ shown[at] \in Byte BY <1>2, <2>1
    <3>2. ShownAt(r, s, b) = shown BY <2>6 DEF shown
    <3> QED BY <2>2, <2>5, <2>6, <3>1, <3>2 DEF b, at
  <2>7. CASE b # n BY <2>2, <2>3, <2>4, <2>5, <2>7 DEF b, at
  <2> QED BY <2>6, <2>7
<1>6. to \in [ImagePixels(r) -> Byte]
  <2>1. to = [p \in ImagePixels(r) |-> to[p]] BY <1>4 DEF IsPut
  <2> QED BY <2>1, <1>5
<1> QED BY <1>5, <1>6 DEF DecodedUpTo, to, shown

(* Blocks of even size do not shift the decimation.                        *)
LEMMA EvenStep ==
  ASSUME NEW c \in Nat, NEW h \in Nat, NEW x \in Nat, NEW j \in {1, 2}
  PROVE  (c * (2 * h) + x) % j = x % j /\ x % j \in 0 .. x
<1> DEFINE d == c * h
<1>1. c * (2 * h) = 2 * d /\ d \in Nat BY SMT
<1> HIDE DEF d
<1>2. (2 * d + x) % j = x % j
  <2>1. CASE j = 1 BY <2>1, <1>1
  <2>2. CASE j = 2 BY <2>2, <1>1
  <2> QED BY <2>1, <2>2
<1>3. x % j \in 0 .. x
  <2>1. CASE j = 1 BY <2>1
  <2>2. CASE j = 2 BY <2>2
  <2> QED BY <2>1, <2>2
<1> QED BY <1>1, <1>2, <1>3

-----------------------------------------------------------------------------
(* The image when all is decoded.                                          *)

(* The value of the image that a value is shown with, the rows counted     *)
(* from the block's first: a block has its own decimation.                 *)
KeptOf(r, p, m) ==
  <<p[1] - ((p[1] % r.block_height) % JumpY(m, p[3])), p[2] - (p[2] % JumpX(m, p[3])), p[3]>>

(* It is in the same block, where KeptAt says.                             *)
LEMMA KeptInBlock ==
  ASSUME NEW r, NEW m, NEW p, IsGrid(r), p \in ImagePixels(r)
  PROVE  /\ KeptOf(r, p, m) \in ImagePixels(r)
         /\ BlockOf(r, KeptOf(r, p, m)) = BlockOf(r, p)
         /\ InBlock(r, KeptOf(r, p, m)) = KeptAt(InBlock(r, p), m)
<1> DEFINE h == r.block_height  w == r.block_width  l == Lines(r)  a == PerRow(r)
           n == Channels(r.mode)
           y == p[1]  x == p[2]  c == p[3]  jy == JumpY(m, c)  jx == JumpX(m, c)
           qy == y \div h  by == y % h  qx == x \div w  bx == x % w
           ky == by - (by % jy)  kx == bx - (bx % jx)  k == KeptOf(r, p, m)
<1>1. /\ a \in Nat /\ l \in Nat /\ r.cols = a * w /\ r.rows = l * h /\ r.rows \in Nat
      /\ r.cols \in Nat
      /\ h \in Nat \ {0} /\ w \in Nat \ {0} /\ w % 2 = 0
  BY GridFacts DEF IsGrid
<1>2. n \in {1, 3} BY ChannelsOf
<1>3. p = <<y, x, c>> /\ y \in 0 .. r.rows - 1 /\ x \in 0 .. r.cols - 1 /\ c \in 0 .. n - 1
  <2>1. p \in Pixels(r.rows, r.cols, n) BY DEF ImagePixels
  <2> HIDE DEF n
  <2> QED BY <1>1, <1>2, <2>1, PixelAt
<1>4. k = <<y - (by % jy), x - (x % jx), c>> BY DEF KeptOf
<1>5. jy \in {1, 2} /\ jx \in {1, 2} BY DEF JumpX, JumpY
<1> HIDE DEF h, w, a, l, n, y, x, c, jx, jy, k
<1>6. qy \in 0 .. l - 1 /\ by \in 0 .. h - 1 /\ y = qy * h + by
  <2>1. y \in 0 .. l * h - 1 BY <1>1, <1>3
  <2> QED BY <2>1, <1>1, Pieces
<1>7. qx \in 0 .. a - 1 /\ bx \in 0 .. w - 1 /\ x = qx * w + bx
  <2>1. x \in 0 .. a * w - 1 BY <1>1, <1>3
  <2> QED BY <2>1, <1>1, Pieces
<1> HIDE DEF qy, by, qx, bx
<1>8. by % jy \in 0 .. by
  <2>1. by \in Nat /\ 0 \in Nat BY <1>6
  <2> QED BY <2>1, <1>5, EvenStep
<1>9. x % jx = bx % jx /\ bx % jx \in 0 .. bx
  <2> DEFINE g == w \div 2
  <2>1. g \in Nat /\ w = 2 * g BY <1>1
  <2> HIDE DEF g
  <2>2. qx \in Nat /\ bx \in Nat BY <1>7
  <2>3. (qx * (2 * g) + bx) % jx = bx % jx /\ bx % jx \in 0 .. bx BY <2>1, <2>2, <1>5, EvenStep
  <2> QED BY <2>1, <2>3, <1>7
<1>10. ky \in 0 .. h - 1 /\ kx \in 0 .. w - 1
  <2> DEFINE u == by % jy  v == bx % jx
  <2>1. u \in 0 .. by /\ v \in 0 .. bx BY <1>8, <1>9
  <2> HIDE DEF u, v
  <2>2. by - u \in 0 .. h - 1 /\ bx - v \in 0 .. w - 1 BY <2>1, <1>1, <1>6, <1>7
  <2> QED BY <2>2 DEF u, v
<1>11. k = <<qy * h + ky, qx * w + kx, c>>
  <2> DEFINE u == by % jy  v == bx % jx  e == qy * h  f == qx * w
  <2>1. u \in 0 .. by /\ v \in 0 .. bx /\ x % jx = v BY <1>8, <1>9
  <2>2. e \in Nat /\ f \in Nat
    <3>1. qy \in Nat /\ qx \in Nat /\ h \in Nat /\ w \in Nat BY <1>1, <1>6, <1>7
    <3> QED BY <3>1, SMT
  <2>3. y = e + by /\ x = f + bx /\ k = <<y - u, x - v, c>> BY <1>4, <1>6, <1>7, <2>1
  <2> HIDE DEF u, v, e, f
  <2>4. y - u = e + (by - u) /\ x - v = f + (bx - v) BY <2>1, <2>2, <2>3, <1>6, <1>7
  <2> QED BY <2>3, <2>4 DEF u, v, e, f
<1> HIDE DEF ky, kx
<1>12. qy * h + ky \in 0 .. l * h - 1 /\ (qy * h + ky) \div h = qy /\ (qy * h + ky) % h = ky
  BY <1>1, <1>6, <1>10, Joining
<1>13. qx * w + kx \in 0 .. a * w - 1 /\ (qx * w + kx) \div w = qx /\ (qx * w + kx) % w = kx
  BY <1>1, <1>7, <1>10, Joining
<1>14. k \in ImagePixels(r)
  <2>1. ImagePixels(r) = (0 .. r.rows - 1) \X (0 .. r.cols - 1) \X (0 .. n - 1)
    BY DEF ImagePixels, Pixels, n
  <2> QED BY <2>1, <1>1, <1>3, <1>11, <1>12, <1>13
<1>15. k[1] = qy * h + ky /\ k[2] = qx * w + kx /\ k[3] = c BY <1>11
<1>16. BlockOf(r, k) = qy * a + qx BY <1>12, <1>13, <1>15 DEF BlockOf, h, w, a
<1>17. BlockOf(r, p) = qy * a + qx BY DEF BlockOf, qy, qx, h, w, a, y, x
<1>18. InBlock(r, k) = <<ky, kx, c>> BY <1>12, <1>13, <1>15 DEF InBlock, h, w
<1>19. KeptAt(InBlock(r, p), m) = <<ky, kx, c>>
  <2>1. InBlock(r, p) = <<by, bx, c>> BY DEF InBlock, by, bx, c, h, w, y, x
  <2>2. KeptAt(<<by, bx, c>>, m) = <<by - (by % jy), bx - (bx % jx), c>> BY DEF KeptAt, jy, jx
  <2> QED BY <2>1, <2>2 DEF ky, kx
<1> QED BY <1>14, <1>16, <1>17, <1>18, <1>19 DEF k

(* An image of one colour.                                                 *)
IsPlainImage(s, c) == \A x \in DOMAIN s : s[x] = c

(* What is shown of a block is what predictions were made from.            *)
LEMMA KeptValue ==
  ASSUME NEW r, NEW s, NEW q, NEW p, IsAsked(r, s), QuantizedUpTo(q, r, s, BlockCount(r)),
         p \in ImagePixels(r),
         InBlock(r, p) \in Pixels(r.block_height, r.block_width,
           Channels(BlockMode(r, BlockOf(r, p))))
  PROVE  LET k == KeptOf(r, p, BlockMode(r, BlockOf(r, p)))
         IN /\ YuvAt(r, s, BlockOf(r, p))[InBlock(r, p)] = q[k]
            /\ q[k] \in Byte
            /\ \A c : IsPlainImage(s, c) => q[k] = rgb2yuv(c)[p[3] + 1]
<1> DEFINE n == BlockOf(r, p)  m == BlockMode(r, n)  at == InBlock(r, p)  h == r.block_height
           w == r.block_width  code == CodeAt(r, s, n)  k == KeptOf(r, p, m)
           Pix == Pixels(h, w, Channels(m))
<1>1. IsGrid(r) BY AskedGrid
<1>2. n \in 0 .. BlockCount(r) - 1 /\ at \in BlockPixels(r) /\ BlockCount(r) \in Nat
  BY <1>1, PixelBlock, GridFacts
<1>3. k \in ImagePixels(r) /\ BlockOf(r, k) = n /\ InBlock(r, k) = KeptAt(at, m)
  BY <1>1, KeptInBlock
<1>4. BlockData(code, SourceBlock(r, s, n), h, w, m) BY <1>2, DataOfBlock
<1>5. IsBlock(h, w, m) BY <1>1, ModeOfBlock
<1>6. at \in Pix OBVIOUS
<1>7. YuvAt(r, s, n)[at] = code.img[KeptAt(at, m)]
  <2>1. YuvAt(r, s, n) = Restored(code.img, [x \in BlockPixels(r) |-> 0], h, w, m, Channels(r.mode))
    BY DEF YuvAt
  <2>2. at \in Pixels(h, w, Channels(r.mode)) BY <1>2 DEF BlockPixels
  <2> HIDE DEF at, code, h, w, m, n
  <2> QED BY <2>1, <2>2, <1>6 DEF Restored
<1>8. at[3] = p[3] BY DEF InBlock
<1>9. IsColourBlock(SourceBlock(r, s, n), h, w)
      /\ \A c : IsPlainImage(s, c) => IsOneColour(SourceBlock(r, s, n), h, w, c)
  BY <1>2, SourceOfBlock DEF IsPlainImage
<1>10. KeptAt(at, m) \in Pix
  <2>1. \E i \in 1 .. Last(h, w, m) : IsAt(at, i, h, w, m) BY <1>5, <1>6, EveryPixel
  <2> HIDE DEF at, h, w, m, n
  <2> QED BY <1>5, <2>1, KeptFacts
<1>11. q[k] = IF n < BlockCount(r) /\ KeptAt(at, m) \in DOMAIN code.img THEN code.img[KeptAt(at, m)]
       ELSE Unset
  <2>1. q[k]
        =
          IF BlockOf(r, k) < BlockCount(r) /\ InBlock(r, k) \in DOMAIN CodeAt(r, s,
            BlockOf(r, k)).img
               THEN CodeAt(r, s, BlockOf(r, k)).img[InBlock(r, k)] ELSE Unset
    <3> HIDE DEF k
    <3> QED BY <1>3 DEF QuantizedUpTo
  <2> HIDE DEF k, n, m, at
  <2> QED BY <2>1, <1>3 DEF code
<1> HIDE DEF n, m, at, h, w, code, k
<1>12. n < BlockCount(r) BY <1>2
<1>13. KeptAt(at, m) \in DOMAIN code.img BY <1>4, <1>10 DEF BlockData
<1>14. q[k] = code.img[KeptAt(at, m)] BY <1>11, <1>12, <1>13
<1>15. q[k] \in Byte BY <1>14, <1>4, <1>6 DEF BlockData
<1>16. \A c : IsPlainImage(s, c) => q[k] = rgb2yuv(c)[p[3] + 1]
  <2> TAKE c
  <2> SUFFICES ASSUME IsPlainImage(s, c) PROVE q[k] = rgb2yuv(c)[p[3] + 1] OBVIOUS
  <2>1. IsOneColour(SourceBlock(r, s, n), h, w, c) BY <1>9
  <2>2. code.img[KeptAt(at, m)] = rgb2yuv(c)[at[3] + 1] BY <1>4, <1>6, <2>1 DEF BlockData
  <2> QED BY <2>2, <1>8, <1>14
<1>17. YuvAt(r, s, n)[at] = q[k] BY <1>7, <1>14
<1> QED BY <1>15, <1>16, <1>17 DEF n, m, at, k

(* The same in the image as it is shown: in blocks of one line chroma is   *)
(* that of the even line.                                                  *)
KeptIn(r, p, c) ==
  <<p[1] - ((p[1] % (IF r.block_height = 1 THEN 2 ELSE r.block_height)) % JumpY(r.mode, c)),
    p[2] - (p[2] % JumpX(r.mode, c)), c>>

(* In blocks of more than one line both are the same.                      *)
LEMMA BlocksKept ==
  ASSUME NEW r, NEW p, NEW c, IsGrid(r), p \in ImagePixels(r), c \in 0 .. Channels(r.mode) - 1,
         ~ OneLineColour(r)
  PROVE  /\ <<p[1], p[2], c>> \in ImagePixels(r)
         /\ BlockMode(r, BlockOf(r, <<p[1], p[2], c>>)) = r.mode
         /\ BlockOf(r, <<p[1], p[2], c>>) = BlockOf(r, p)
         /\ InBlock(r, <<p[1], p[2], c>>) = <<InBlock(r, p)[1], InBlock(r, p)[2], c>>
         /\ KeptOf(r, <<p[1], p[2], c>>, r.mode) = KeptIn(r, p, c)
<1> DEFINE x == <<p[1], p[2], c>>
<1>1. p[1] \in 0 .. r.rows - 1 /\ p[2] \in 0 .. r.cols - 1 BY DEF ImagePixels, Pixels
<1>2. x \in ImagePixels(r) BY <1>1 DEF ImagePixels, Pixels
<1>3. x[1] = p[1] /\ x[2] = p[2] /\ x[3] = c OBVIOUS
<1> HIDE DEF x
<1>4. BlockOf(r, x) = BlockOf(r, p) BY <1>3 DEF BlockOf
<1>5. InBlock(r, x) = <<InBlock(r, p)[1], InBlock(r, p)[2], c>> BY <1>3 DEF InBlock
<1>6. BlockMode(r, BlockOf(r, x)) = r.mode BY <1>4, ModeOfBlock
<1>7. KeptOf(r, x, r.mode) = KeptIn(r, p, c)
  <2> DEFINE h == r.block_height  jy == JumpY(r.mode, c)  y == p[1]
  <2>1. KeptOf(r, x, r.mode) = <<y - ((y % h) % jy), p[2] - (p[2] % JumpX(r.mode, c)), c>>
    BY <1>3 DEF KeptOf
  <2>2. KeptIn(r, p, c)
        = <<y - ((y % (IF h = 1 THEN 2 ELSE h)) % jy), p[2] - (p[2] % JumpX(r.mode, c)), c>>
    BY DEF KeptIn
  <2>3. h = 1 => jy = 1 BY DEF OneLineColour, JumpY
  <2>4. h \in Nat \ {0} /\ jy \in {1, 2} /\ y \in Nat BY <1>1 DEF IsGrid, JumpY
  <2> HIDE DEF h, jy, y
  <2>5. (y % h) % jy = (y % (IF h = 1 THEN 2 ELSE h)) % jy
    <3>1. CASE h = 1
      <4>1. jy = 1 BY <3>1, <2>3
      <4>2. y % 1 = 0 /\ y % 2 \in 0 .. 1 BY <2>4
      <4> DEFINE z == y % 2
      <4>3. z \in 0 .. 1 BY <4>2
      <4> HIDE DEF z
      <4>4. z % 1 = 0 /\ 0 % 1 = 0 BY <4>3
      <4> QED BY <3>1, <4>1, <4>2, <4>4 DEF z
    <3>2. CASE h # 1 BY <3>2
    <3> QED BY <3>1, <3>2
  <2> QED BY <2>1, <2>2, <2>5
<1> QED BY <1>2, <1>4, <1>5, <1>6, <1>7 DEF x

(* In blocks of one line interpol_yuv440 makes them so.                    *)
LEMMA LinesKept ==
  ASSUME NEW r, NEW p, NEW c, IsGrid(r), p \in ImagePixels(r), c \in 0 .. 2, OneLineColour(r)
  PROVE  LET e == <<p[1] - (IF c > 0 THEN p[1] % 2 ELSE 0), p[2], c>>
         IN /\ e \in ImagePixels(r)
            /\ InBlock(r, e) \in Pixels(r.block_height, r.block_width,
               Channels(BlockMode(r, BlockOf(r, e))))
            /\ KeptOf(r, e, BlockMode(r, BlockOf(r, e))) = KeptIn(r, p, c)
<1> DEFINE y == p[1]  x == p[2]  z == y - (IF c > 0 THEN y % 2 ELSE 0)  e == <<z, x, c>>
           h == r.block_height  w == r.block_width  n == BlockOf(r, e)  m == BlockMode(r, n)
<1>1. h = 1 /\ r.mode = "yuv420" /\ Channels(r.mode) = 3 BY DEF OneLineColour, Channels
<1>2. y \in 0 .. r.rows - 1 /\ x \in 0 .. r.cols - 1 BY DEF ImagePixels, Pixels
<1>3. r.rows \in Nat /\ r.cols \in Nat /\ h \in Nat BY DEF IsGrid
<1> HIDE DEF y, x
<1>4. z \in 0 .. r.rows - 1 /\ (c > 0 => z % 2 = 0) /\ (c = 0 => z = y)
      /\ (c > 0 => z = y - (y % 2))
  <2>1. y % 2 \in {0, 1} /\ y % 2 <= y /\ (y - (y % 2)) % 2 = 0 BY <1>2, <1>3
  <2> DEFINE v == y % 2
  <2>2. y - v \in 0 .. r.rows - 1
    <3>1. v \in {0, 1} /\ v <= y BY <2>1
    <3> HIDE DEF v
    <3> QED BY <3>1, <1>2, <1>3
  <2> QED BY <2>1, <2>2, <1>2, <1>3
<1> HIDE DEF z
<1>5. e[1] = z /\ e[2] = x /\ e[3] = c OBVIOUS
<1>6. e \in ImagePixels(r) BY <1>1, <1>2, <1>4 DEF ImagePixels, Pixels
<1> HIDE DEF e
<1>7. InBlock(r, e) \in BlockPixels(r) /\ n \div PerRow(r) = z
  <2>1. z \in Nat BY <1>3, <1>4
  <2>2. z \div 1 = z BY <2>1
  <2> QED BY <1>1, <1>5, <1>6, <2>2, PixelBlock
<1> HIDE DEF n
<1>8. m = IF z % 2 # 0 THEN "gray" ELSE "yuv422" BY <1>7, ModeOfBlock
<1>9. c \in 0 .. Channels(m) - 1
  <2>1. CASE c = 0
    <3>1. Channels(m) \in {1, 3} BY ChannelsOf
    <3> DEFINE k == Channels(m)
    <3> HIDE DEF k
    <3>2. k \in {1, 3} BY <3>1 DEF k
    <3>3. 0 \in 0 .. k - 1 BY <3>2
    <3> QED BY <3>3, <2>1 DEF k
  <2>2. CASE c > 0
    <3>1. Channels(m) = 3 BY <2>2, <1>4, <1>8 DEF Channels
    <3>2. 3 - 1 = 2 OBVIOUS
    <3> QED BY <3>1, <3>2
  <2> QED BY <2>1, <2>2
<1>10. InBlock(r, e) \in Pixels(h, w, Channels(m))
  <2>1. /\ InBlock(r, e)[1] \in 0 .. h - 1 /\ InBlock(r, e)[2] \in 0 .. w - 1
        /\ InBlock(r, e) = <<InBlock(r, e)[1], InBlock(r, e)[2], c>>
    <3>1. InBlock(r, e) \in Pixels(h, w, Channels(r.mode)) BY <1>7 DEF BlockPixels
    <3>2. InBlock(r, e)[3] = c BY <1>5 DEF InBlock
    <3> QED BY <3>1, <3>2 DEF Pixels
  <2> HIDE DEF h, w, m
  <2> QED BY <2>1, <1>9 DEF Pixels
<1>11. KeptOf(r, e, m) = <<z - ((z % 1) % JumpY(m, c)), x - (x % JumpX(m, c)), c>>
  BY <1>1, <1>5 DEF KeptOf
<1>12. KeptIn(r, p, c) = <<y - ((y % 2) % JumpY(r.mode, c)), x - (x % JumpX(r.mode, c)), c>>
  BY <1>1 DEF KeptIn, y, x
<1>13. z \in Nat /\ y \in Nat /\ x \in Nat BY <1>2, <1>3, <1>4
<1>14. CASE c = 0
  <2>1. JumpY(m, c) = 1 /\ JumpX(m, c) = 1 /\ JumpY(r.mode, c) = 1 /\ JumpX(r.mode, c) = 1
    BY <1>14 DEF JumpX, JumpY
  <2>2. (z % 1) % 1 = 0 /\ (y % 2) % 1 = 0
    <3>1. z % 1 = 0 /\ y % 2 \in {0, 1} BY <1>13
    <3>2. 0 % 1 = 0 /\ 1 % 1 = 0 OBVIOUS
    <3> QED BY <3>1, <3>2
  <2>3. KeptOf(r, e, m) = <<z - 0, x - (x % 1), c>> BY <1>11, <2>1, <2>2
  <2>4. KeptIn(r, p, c) = <<y - 0, x - (x % 1), c>> BY <1>12, <2>1, <2>2
  <2> QED BY <1>4, <1>6, <1>10, <1>14, <2>3, <2>4 DEF e, z, y, x, n
<1>15. CASE c > 0
  <2>1. m = "yuv422" BY <1>4, <1>8, <1>15
  <2>2. JumpY(m, c) = 1 /\ JumpX(m, c) = 2 /\ JumpY(r.mode, c) = 2 /\ JumpX(r.mode, c) = 2
    BY <1>1, <1>15, <2>1 DEF JumpX, JumpY
  <2>3. (z % 1) % 1 = 0 /\ (y % 2) % 2 = y % 2
    <3>1. z % 1 = 0 /\ y % 2 \in {0, 1} BY <1>13
    <3>2. 0 % 1 = 0 /\ 0 % 2 = 0 /\ 1 % 2 = 1 OBVIOUS
    <3> QED BY <3>1, <3>2
  <2>4. KeptOf(r, e, m) = <<z - 0, x - (x % 2), c>> BY <1>11, <2>2, <2>3
  <2>5. KeptIn(r, p, c) = <<y - (y % 2), x - (x % 2), c>> BY <1>12, <2>2, <2>3
  <2>6. z - 0 = z BY <1>13
  <2> QED BY <1>4, <1>6, <1>10, <1>15, <2>4, <2>5, <2>6 DEF e, z, y, x, n
<1>16. c = 0 \/ c > 0 OBVIOUS
<1> QED BY <1>14, <1>15, <1>16

(* What lhe_decoder makes of the decoded image.                            *)
FinalImage(r, d) == IF OneLineColour(r) THEN ToRgb(interpol_yuv440(d)) ELSE d

(* An image shown as it was quantized; of an image of one colour the       *)
(* colour is kept.                                                         *)
IsFinal(img, q, r, s) ==
  /\ img \in [ImagePixels(r) -> Byte]
  /\ \A p \in ImagePixels(r) :
       /\ img[p] = IF r.mode = "gray" THEN q[p]
                   ELSE yuv2rgb(<<q[KeptIn(r, p, 0)], q[KeptIn(r, p, 1)], q[KeptIn(r, p, 2)]>>)[p[3]
                        + 1]
       /\ \A c \in 0 .. Channels(r.mode) - 1 :
            /\ q[KeptIn(r, p, c)] \in Byte
            /\ \A e : IsPlainImage(s, e) => q[KeptIn(r, p, c)] = rgb2yuv(e)[c + 1]

(* That, for a channel of a pixel, in the image that is converted to       *)
(* colours last.                                                           *)
HasKeptValue(r, s, q, d, p, c) ==
  /\ q[KeptIn(r, p, c)] \in Byte
  /\ \A e : IsPlainImage(s, e) => q[KeptIn(r, p, c)] = rgb2yuv(e)[c + 1]
  /\ (~ OneLineColour(r) =>
        YuvAt(r, s, BlockOf(r, p))[<<InBlock(r, p)[1], InBlock(r, p)[2], c>>] = q[KeptIn(r, p, c)])
  /\ (OneLineColour(r) =>
        <<p[1], p[2], c>> \in ImagePixels(r)
        /\ interpol_yuv440(d)[<<p[1], p[2], c>>] = q[KeptIn(r, p, c)])

(* It is so of every channel of every pixel.                               *)
LEMMA PixelValue ==
  ASSUME NEW r, NEW s, NEW q, NEW d, NEW p, NEW c, IsAsked(r, s),
         QuantizedUpTo(q, r, s, BlockCount(r)),
         DecodedUpTo(d, r, s, BlockCount(r)), p \in ImagePixels(r), c \in 0 .. Channels(r.mode) - 1
  PROVE  HasKeptValue(r, s, q, d, p, c)
<1> USE DEF HasKeptValue
<1>1. IsGrid(r) BY AskedGrid
<1>2. CASE ~ OneLineColour(r)
  <2> DEFINE x == <<p[1], p[2], c>>
  <2>1. /\ x \in ImagePixels(r) /\ BlockMode(r, BlockOf(r, x)) = r.mode
        /\ BlockOf(r, x) = BlockOf(r, p)
        /\ InBlock(r, x) = <<InBlock(r, p)[1], InBlock(r, p)[2], c>>
        /\ KeptOf(r, x, r.mode) = KeptIn(r, p, c)
    BY <1>1, <1>2, BlocksKept
  <2>2. x[3] = c OBVIOUS
  <2> HIDE DEF x
  <2>3. InBlock(r, x) \in BlockPixels(r) BY <1>1, <2>1, PixelBlock
  <2>4. InBlock(r, x) \in Pixels(r.block_height, r.block_width,
        Channels(BlockMode(r, BlockOf(r, x))))
    BY <2>1, <2>3 DEF BlockPixels
  <2>5. LET k == KeptOf(r, x, BlockMode(r, BlockOf(r, x)))
        IN /\ YuvAt(r, s, BlockOf(r, x))[InBlock(r, x)] = q[k]
           /\ q[k] \in Byte
           /\ \A e : IsPlainImage(s, e) => q[k] = rgb2yuv(e)[x[3] + 1]
    BY <2>1, <2>4, KeptValue
  <2> QED BY <1>2, <2>1, <2>2, <2>5
<1>3. CASE OneLineColour(r)
  <2> DEFINE x == <<p[1] - (IF c > 0 THEN p[1] % 2 ELSE 0), p[2], c>>  o == <<p[1], p[2], c>>
  <2>1. c \in 0 .. 2 BY <1>3 DEF OneLineColour, Channels
  <2>2. /\ x \in ImagePixels(r)
        /\ InBlock(r, x) \in Pixels(r.block_height, r.block_width,
           Channels(BlockMode(r, BlockOf(r, x))))
        /\ KeptOf(r, x, BlockMode(r, BlockOf(r, x))) = KeptIn(r, p, c)
    BY <1>1, <1>3, <2>1, LinesKept
  <2>3. x[3] = c OBVIOUS
  <2>4. o \in ImagePixels(r) BY DEF ImagePixels, Pixels
  <2>5. DOMAIN d = ImagePixels(r) BY DEF DecodedUpTo
  <2>6. interpol_yuv440(d)[o] = d[x]
    <3>1. o[1] = p[1] /\ o[2] = p[2] /\ o[3] = c OBVIOUS
    <3>2. interpol_yuv440(d)[o] = IF c > 0 THEN d[<<p[1] - (p[1] % 2), p[2], c>>] ELSE d[o]
      <4> HIDE DEF o
      <4> QED BY <2>4, <2>5, <3>1 DEF interpol_yuv440
    <3>3. p[1] - 0 = p[1]
      <4>1. p[1] \in 0 .. r.rows - 1 BY DEF ImagePixels, Pixels
      <4> QED BY <4>1
    <3> QED BY <3>2, <3>3
  <2> HIDE DEF x
  <2>7. LET k == KeptOf(r, x, BlockMode(r, BlockOf(r, x)))
        IN /\ YuvAt(r, s, BlockOf(r, x))[InBlock(r, x)] = q[k]
           /\ q[k] \in Byte
           /\ \A e : IsPlainImage(s, e) => q[k] = rgb2yuv(e)[x[3] + 1]
    BY <2>2, KeptValue
  <2>8. d[x] = YuvAt(r, s, BlockOf(r, x))[InBlock(r, x)]
    <3>1. BlockOf(r, x) \in 0 .. BlockCount(r) - 1 /\ BlockCount(r) \in Nat
      BY <1>1, <2>2, PixelBlock, GridFacts
    <3>2. BlockOf(r, x) < BlockCount(r) BY <3>1
    <3>3. d[x] = ShownAt(r, s, BlockOf(r, x))[InBlock(r, x)] BY <2>2, <3>2 DEF DecodedUpTo
    <3> QED BY <1>3, <3>3 DEF ShownAt
  <2> QED BY <1>3, <2>2, <2>3, <2>4, <2>6, <2>7, <2>8
<1> QED BY <1>2, <1>3

(* interpol_yuv440 leaves bytes.                                           *)
LEMMA ChromaInterpolated ==
  ASSUME NEW r, NEW s, NEW q, NEW d, IsAsked(r, s), QuantizedUpTo(q, r, s, BlockCount(r)),
         DecodedUpTo(d, r, s, BlockCount(r)), OneLineColour(r)
  PROVE  interpol_yuv440(d) \in [ImagePixels(r) -> Byte]
<1> DEFINE i == interpol_yuv440(d)
           v(p) == IF p[3] > 0 THEN d[<<p[1] - (p[1] % 2), p[2], p[3]>>] ELSE d[p]
<1>1. DOMAIN d = ImagePixels(r) BY DEF DecodedUpTo
<1>2. i = [p \in ImagePixels(r) |-> v(p)] BY <1>1 DEF interpol_yuv440
<1>3. ASSUME NEW p \in ImagePixels(r) PROVE i[p] \in Byte
  <2>1. p[3] \in 0 .. Channels(r.mode) - 1 /\ p = <<p[1], p[2], p[3]>> BY DEF ImagePixels, Pixels
  <2>2. HasKeptValue(r, s, q, d, p, p[3]) BY <2>1, PixelValue
  <2>3. interpol_yuv440(d)[<<p[1], p[2], p[3]>>] = q[KeptIn(r, p, p[3])]
        /\ q[KeptIn(r, p, p[3])] \in Byte
    BY <2>2 DEF HasKeptValue
  <2> QED BY <2>1, <2>3
<1> HIDE DEF v, i
<1>4. i \in [ImagePixels(r) -> Byte] BY <1>2, <1>3
<1> QED BY <1>4 DEF i

(* What the modes are made of.                                             *)
LEMMA PixelsOfModes ==
  ASSUME NEW r, IsGrid(r)
  PROVE  /\ (r.mode = "gray" => Channels(r.mode) = 1)
         /\ (r.mode # "gray" => /\ Channels(r.mode) = 3
                                /\ ImagePixels(r) = Pixels(r.rows, r.cols, 3)
                                /\ BlockPixels(r) = Pixels(r.block_height, r.block_width, 3))
         /\ r.rows \in Nat /\ r.cols \in Nat /\ r.block_height \in Nat /\ r.block_width \in Nat
BY DEF Channels, ImagePixels, BlockPixels, IsGrid

(* When all blocks are decoded, the image is shown as it was quantized.    *)
LEMMA ImageIsFinal ==
  ASSUME NEW r, NEW s, NEW q, NEW d, IsAsked(r, s), QuantizedUpTo(q, r, s, BlockCount(r)),
         DecodedUpTo(d, r, s, BlockCount(r))
  PROVE  IsFinal(FinalImage(r, d), q, r, s)
<1> DEFINE img == FinalImage(r, d)
           Q(p) == <<q[KeptIn(r, p, 0)], q[KeptIn(r, p, 1)], q[KeptIn(r, p, 2)]>>
<1>1. IsGrid(r) BY AskedGrid
<1>2. img \in [ImagePixels(r) -> Byte]
  <2>1. CASE OneLineColour(r)
    <3>1. r.mode # "gray" BY <2>1 DEF OneLineColour
    <3>2. interpol_yuv440(d) \in [ImagePixels(r) -> Byte] BY <2>1, ChromaInterpolated
    <3>3. ToRgb(interpol_yuv440(d)) \in [ImagePixels(r) -> Byte]
      BY <1>1, <3>1, <3>2, PixelsOfModes, RgbImage
    <3> QED BY <2>1, <3>3 DEF FinalImage
  <2>2. CASE ~ OneLineColour(r) BY <2>2 DEF FinalImage, DecodedUpTo
  <2> QED BY <2>1, <2>2
<1>3. ASSUME NEW p \in ImagePixels(r), NEW c \in 0 .. Channels(r.mode) - 1
      PROVE  HasKeptValue(r, s, q, d, p, c)
  BY PixelValue
<1>4. ASSUME NEW p \in ImagePixels(r)
      PROVE  img[p] = IF r.mode = "gray" THEN q[p] ELSE yuv2rgb(Q(p))[p[3] + 1]
  <2> DEFINE n == BlockOf(r, p)  at == InBlock(r, p)  yuv == YuvAt(r, s, n)
  <2>1. p = <<p[1], p[2], p[3]>> /\ p[3] \in 0 .. Channels(r.mode) - 1
        /\ p[1] \in 0 .. r.rows - 1 /\ p[2] \in 0 .. r.cols - 1
    BY DEF ImagePixels, Pixels
  <2>2. n \in 0 .. BlockCount(r) - 1 /\ at \in BlockPixels(r) /\ at = <<at[1], at[2], p[3]>>
        /\ at[3] = p[3]
    BY <1>1, PixelBlock DEF InBlock
  <2>3. n < BlockCount(r) BY <1>1, <2>2, GridFacts
  <2>4. d[p] = ShownAt(r, s, n)[at]
    <3> HIDE DEF at, n
    <3> QED BY <2>3 DEF DecodedUpTo, n, at
  <2>5. CASE r.mode = "gray"
    <3>1. Channels(r.mode) = 1 /\ ~ OneLineColour(r) BY <2>5 DEF Channels, OneLineColour
    <3>2. p[3] = 0 /\ 0 \in 0 .. Channels(r.mode) - 1 BY <2>1, <3>1
    <3>3. yuv[<<at[1], at[2], 0>>] = q[KeptIn(r, p, 0)] BY <1>3, <3>1, <3>2 DEF HasKeptValue
    <3>4. KeptIn(r, p, 0) = p
      <4>1. JumpX(r.mode, 0) = 1 /\ JumpY(r.mode, 0) = 1 BY DEF JumpX, JumpY
      <4> DEFINE y == p[1]  x == p[2]  h == IF r.block_height = 1 THEN 2 ELSE r.block_height
                 z == y % h
      <4>2. x \in Nat /\ y \in Nat /\ h \in Nat \ {0} BY <1>1, <2>1 DEF IsGrid
      <4>3. KeptIn(r, p, 0) = <<y - (z % 1), x - (x % 1), 0>> BY <4>1 DEF KeptIn
      <4>4. z \in Nat
        <5> HIDE DEF x, y, h
        <5> QED BY <4>2
      <4> HIDE DEF x, y, h, z
      <4>5. y - (z % 1) = y /\ x - (x % 1) = x BY <4>2, <4>4
      <4> QED BY <2>1, <3>2, <4>3, <4>5 DEF x, y
    <3>5. img[p] = d[p] BY <3>1 DEF FinalImage
    <3>6. ShownAt(r, s, n) = yuv BY <3>1 DEF ShownAt
    <3>7. at = <<at[1], at[2], 0>> BY <2>2, <3>2
    <3> HIDE DEF at, n, yuv, img
    <3> QED BY <2>4, <2>5, <3>3, <3>4, <3>5, <3>6, <3>7
  <2>6. CASE r.mode # "gray" /\ ~ OneLineColour(r)
    <3>1. Channels(r.mode) = 3 /\ BlockPixels(r) = Pixels(r.block_height, r.block_width, 3)
          /\ r.block_height \in Nat /\ r.block_width \in Nat
      BY <1>1, <2>6, PixelsOfModes
    <3>2. 0 \in 0 .. Channels(r.mode) - 1 /\ 1 \in 0 .. Channels(r.mode) - 1
          /\ 2 \in 0 .. Channels(r.mode) - 1
      BY <3>1
    <3>3. /\ yuv[<<at[1], at[2], 0>>] = q[KeptIn(r, p, 0)]
          /\ yuv[<<at[1], at[2], 1>>] = q[KeptIn(r, p, 1)]
          /\ yuv[<<at[1], at[2], 2>>] = q[KeptIn(r, p, 2)]
      BY <2>6, <3>2, <1>3 DEF HasKeptValue
    <3>4. yuv \in [Pixels(r.block_height, r.block_width, 3) -> Byte] BY <2>2, <3>1, ShownIs
    <3>5. ShownAt(r, s, n) = ToRgb(yuv) BY <2>6, <3>1 DEF ShownAt
    <3>6. img[p] = d[p] BY <2>6 DEF FinalImage
    <3> HIDE DEF at, n, yuv, img
    <3>7. ToRgb(yuv)[at] = yuv2rgb(<<yuv[<<at[1], at[2], 0>>], yuv[<<at[1], at[2], 1>>],
                                     yuv[<<at[1], at[2], 2>>]>>)[at[3] + 1]
      BY <2>2, <3>1, <3>4, RgbImage
    <3> QED BY <2>2, <2>4, <2>6, <3>3, <3>5, <3>6, <3>7
  <2>7. CASE OneLineColour(r)
    <3> DEFINE i == interpol_yuv440(d)
    <3>1. r.mode # "gray" BY <2>7 DEF OneLineColour
    <3>2. Channels(r.mode) = 3 /\ ImagePixels(r) = Pixels(r.rows, r.cols, 3) /\ r.rows \in Nat
          /\ r.cols \in Nat
      BY <1>1, <3>1, PixelsOfModes
    <3>3. 0 \in 0 .. Channels(r.mode) - 1 /\ 1 \in 0 .. Channels(r.mode) - 1
          /\ 2 \in 0 .. Channels(r.mode) - 1
      BY <3>2
    <3>4. /\ i[<<p[1], p[2], 0>>] = q[KeptIn(r, p, 0)] /\ i[<<p[1], p[2], 1>>] = q[KeptIn(r, p, 1)]
          /\ i[<<p[1], p[2], 2>>] = q[KeptIn(r, p, 2)]
      BY <2>7, <3>3, <1>3 DEF HasKeptValue
    <3>5. i \in [Pixels(r.rows, r.cols, 3) -> Byte] BY <2>7, <3>2, ChromaInterpolated
    <3>6. img = ToRgb(i) BY <2>7 DEF FinalImage
    <3> HIDE DEF i, img
    <3>7. ToRgb(i)[p] = yuv2rgb(<<i[<<p[1], p[2], 0>>], i[<<p[1], p[2], 1>>],
                                  i[<<p[1], p[2], 2>>]>>)[p[3] + 1]
      BY <3>2, <3>5, RgbImage
    <3> QED BY <3>1, <3>4, <3>6, <3>7
  <2>8. OneLineColour(r) \/ (r.mode # "gray" /\ ~ OneLineColour(r)) \/ r.mode = "gray" OBVIOUS
  <2> QED BY <2>5, <2>6, <2>7, <2>8
<1> HIDE DEF img
<1>5. IsFinal(img, q, r, s) BY <1>2, <1>3, <1>4 DEF IsFinal, HasKeptValue
<1> QED BY <1>5 DEF img

-----------------------------------------------------------------------------
(* The colour conversions, one after the other.                            *)

(* rgb2yuv, without the offset of chroma.                                  *)
IsYuvOf(r, g, b, y, u, v) ==
  /\ y = (r*76 + g*150 + b*29 + 128) \div 256
  /\ u = (r*(-43) + g*(-84) + b*127 + 128) \div 256
  /\ v = (r*127 + g*(-106) + b*(-21) + 128) \div 256

(* yuv2rgb of that, before the clamp, is at most 2 away.                   *)
IsNearly(r, g, b, y, u, v) ==
  /\ (y*257 + u + v*363 + 128) \div 256 - r \in -2 .. 2
  /\ (y*257 - u*89 - v*183 + 128) \div 256 - g \in -2 .. 2
  /\ (y*257 + u*458 + v + 128) \div 256 - b \in -2 .. 2

(* The rounding of the two conversions does not add up to more.            *)
LEMMA ColourRounds ==
  ASSUME NEW r \in 0 .. 255, NEW g \in 0 .. 255, NEW b \in 0 .. 255,
         NEW y \in Int, NEW u \in Int, NEW v \in Int, IsYuvOf(r, g, b, y, u, v)
  PROVE  IsNearly(r, g, b, y, u, v)
<1> USE DEF IsYuvOf, IsNearly
<1>1. /\ 256 * y <= r*76 + g*150 + b*29 + 128 /\ r*76 + g*150 + b*29 + 128 < 256 * y + 256
      /\ 256 * u <= r*(-43) + g*(-84) + b*127 + 128
      /\ r*(-43) + g*(-84) + b*127 + 128 < 256 * u + 256
      /\ 256 * v <= r*127 + g*(-106) + b*(-21) + 128
      /\ r*127 + g*(-106) + b*(-21) + 128 < 256 * v + 256
  OBVIOUS
<1>2. (y*257 + u + v*363 + 128) \div 256 - r \in -2 .. 2 BY <1>1
<1>3. (y*257 - u*89 - v*183 + 128) \div 256 - g \in -2 .. 2 BY <1>1
<1>4. (y*257 + u*458 + v + 128) \div 256 - b \in -2 .. 2 BY <1>1
<1> QED BY <1>2, <1>3, <1>4

(* The clamp does not add to it.                                           *)
LEMMA ClampNear ==
  ASSUME NEW v \in Int, NEW c \in 0 .. 255, v - c \in -2 .. 2
  PROVE  clamp(v) - c \in -2 .. 2
BY DEF clamp

(* yuv2rgb undoes rgb2yuv up to 2 in every channel, for all of the 2^24    *)
(* colours, although both round and their coefficients are not inverse.    *)
THEOREM ColourSurvives ==
  ASSUME NEW c \in Colours, NEW i \in 1 .. 3
  PROVE  yuv2rgb(<<rgb2yuv(c)[1], rgb2yuv(c)[2], rgb2yuv(c)[3]>>)[i] - c[i] \in -2 .. 2
<1> DEFINE r == c[1]  g == c[2]  b == c[3]
           y == (r*76 + g*150 + b*29 + 128) \div 256
           u == (r*(-43) + g*(-84) + b*127 + 128) \div 256
           v == (r*127 + g*(-106) + b*(-21) + 128) \div 256
           red == (y*257 + u + v*363 + 128) \div 256
           green == (y*257 - u*89 - v*183 + 128) \div 256
           blue == (y*257 + u*458 + v + 128) \div 256
<1>1. r \in 0 .. 255 /\ g \in 0 .. 255 /\ b \in 0 .. 255 BY DEF Colours, Byte
<1>2. rgb2yuv(c) = <<y, u + 128, v + 128>> BY DEF rgb2yuv
<1> HIDE DEF r, g, b
<1>3. y \in Int /\ u \in Int /\ v \in Int BY <1>1
<1> HIDE DEF y, u, v
<1>4. red - r \in -2 .. 2 /\ green - g \in -2 .. 2 /\ blue - b \in -2 .. 2
  <2>1. IsYuvOf(r, g, b, y, u, v) BY DEF IsYuvOf, y, u, v
  <2>2. IsNearly(r, g, b, y, u, v) BY <1>1, <1>3, <2>1, ColourRounds
  <2> QED BY <2>2 DEF IsNearly
<1>5. red \in Int /\ green \in Int /\ blue \in Int BY <1>3
<1>6. yuv2rgb(<<y, u + 128, v + 128>>) = <<clamp(red), clamp(green), clamp(blue)>>
  <2>1. (u + 128) - 128 = u /\ (v + 128) - 128 = v BY <1>3
  <2> QED BY <2>1 DEF yuv2rgb
<1> HIDE DEF red, green, blue
<1>7. clamp(red) - r \in -2 .. 2 /\ clamp(green) - g \in -2 .. 2 /\ clamp(blue) - b \in -2 .. 2
  BY <1>1, <1>4, <1>5, ClampNear
<1>8. i = 1 \/ i = 2 \/ i = 3 OBVIOUS
<1>9. yuv2rgb(<<rgb2yuv(c)[1], rgb2yuv(c)[2], rgb2yuv(c)[3]>>)
      = <<clamp(red), clamp(green), clamp(blue)>>
  BY <1>2, <1>6
<1> QED BY <1>7, <1>8, <1>9 DEF r, g, b

(* An image with one colour has a colour.                                  *)
LEMMA OneColourImage ==
  ASSUME NEW r, NEW s, IsAsked(r, s), Cardinality(Range(s)) = 1
  PROVE  \E c \in Colours : IsPlainImage(s, c)
<1> DEFINE D == (0 .. r.rows - 1) \X (0 .. r.cols - 1)
<1>1. s \in [D -> Colours] /\ IsGrid(r) BY AskedGrid
<1>2. IsFiniteSet(D)
  <2>1. r.rows - 1 \in Int /\ r.cols - 1 \in Int /\ 0 \in Int BY <1>1 DEF IsGrid
  <2>2. IsFiniteSet(0 .. r.rows - 1) /\ IsFiniteSet(0 .. r.cols - 1) BY <2>1, FS_Interval
  <2> QED BY <2>2, FS_Product
<1> HIDE DEF D
<1>3. s \in Surjection(D, Range(s)) BY <1>1 DEF Surjection, Range
<1>4. IsFiniteSet(Range(s)) BY <1>2, <1>3, FS_Surjection
<1>5. PICK c : Range(s) = {c} BY <1>4, FS_Singleton
<1>6. c \in Colours BY <1>1, <1>5 DEF Range
<1>7. IsPlainImage(s, c) BY <1>1, <1>5 DEF IsPlainImage, Range
<1> QED BY <1>6, <1>7

-----------------------------------------------------------------------------
(* lhe_encoder and lhe_decoder.                                            *)

(* What lhe_decoder ends with is ShownIsQuantized ...                      *)
LEMMA FinalIsShown ==
  ASSUME IsFinal(dst_img, quantized, request, source)
  PROVE  ShownIsQuantized
<1> DEFINE r == request  Kept(y, x, c) ==
      quantized[<<y - ((y % (IF r.block_height = 1 THEN 2 ELSE r.block_height)) % JumpY(r.mode, c)),
                  x - (x % JumpX(r.mode, c)), c>>]
<1>1. SUFFICES ASSUME NEW p \in Pixels(r.rows, r.cols, Channels(r.mode))
               PROVE  dst_img[p] = IF r.mode = "gray" THEN quantized[p]
                        ELSE yuv2rgb(<<Kept(p[1], p[2], 0), Kept(p[1], p[2], 1),
                             Kept(p[1], p[2], 2)>>)[p[3] + 1]
  BY DEF ShownIsQuantized
<1>2. p \in ImagePixels(r) BY DEF ImagePixels
<1>3. \A c \in 0 .. 2 : Kept(p[1], p[2], c) = quantized[KeptIn(r, p, c)] BY DEF KeptIn
<1>4. dst_img[p] = IF r.mode = "gray" THEN quantized[p]
        ELSE yuv2rgb(<<quantized[KeptIn(r, p, 0)], quantized[KeptIn(r, p, 1)],
             quantized[KeptIn(r, p, 2)]>>)[p[3] + 1]
  BY <1>2 DEF IsFinal
<1>5. 0 \in 0 .. 2 /\ 1 \in 0 .. 2 /\ 2 \in 0 .. 2 OBVIOUS
<1> HIDE DEF Kept
<1> QED BY <1>3, <1>4, <1>5

(* ... and PlainImageSurvives.                                             *)
LEMMA FinalIsPlain ==
  ASSUME IsAsked(request, source), IsFinal(dst_img, quantized, request, source)
  PROVE  PlainImageSurvives
<1> DEFINE r == request  q == quantized  s == source
<1>1. SUFFICES ASSUME r.mode # "gray", Cardinality(Range(s)) = 1, NEW p \in DOMAIN dst_img
               PROVE  dst_img[p] - s[<<p[1], p[2]>>][p[3] + 1] \in -2 .. 2
  BY DEF PlainImageSurvives
<1>2. PICK c \in Colours : IsPlainImage(s, c) BY <1>1, OneColourImage
<1>3. p \in ImagePixels(r) /\ IsGrid(r) /\ s \in [(0 .. r.rows - 1) \X (0 .. r.cols - 1) -> Colours]
  BY <1>1, AskedGrid DEF IsFinal
<1>4. Channels(r.mode) = 3 BY <1>1, <1>3, PixelsOfModes
<1>5. 0 \in 0 .. Channels(r.mode) - 1 /\ 1 \in 0 .. Channels(r.mode) - 1
      /\ 2 \in 0 .. Channels(r.mode) - 1
  BY <1>4
<1>6. q[KeptIn(r, p, 0)] = rgb2yuv(c)[1] /\ q[KeptIn(r, p, 1)] = rgb2yuv(c)[2]
      /\ q[KeptIn(r, p, 2)] = rgb2yuv(c)[3]
  <2>1. \A n \in 0 .. Channels(r.mode) - 1 : q[KeptIn(r, p, n)] = rgb2yuv(c)[n + 1]
    <3> TAKE n \in 0 .. Channels(r.mode) - 1
    <3>1. \A e : IsPlainImage(s, e) => q[KeptIn(r, p, n)] = rgb2yuv(e)[n + 1] BY <1>3 DEF IsFinal
    <3> QED BY <3>1, <1>2
  <2>2. 0 + 1 = 1 /\ 1 + 1 = 2 /\ 2 + 1 = 3 OBVIOUS
  <2> QED BY <1>5, <2>1, <2>2
<1>7. dst_img[p] = yuv2rgb(<<q[KeptIn(r, p, 0)], q[KeptIn(r, p, 1)], q[KeptIn(r, p, 2)]>>)[p[3] + 1]
  BY <1>1, <1>3 DEF IsFinal
<1>8. p[3] + 1 \in 1 .. 3 /\ <<p[1], p[2]>> \in DOMAIN s
  <2>1. p[3] \in 0 .. 3 - 1 /\ p[1] \in 0 .. r.rows - 1 /\ p[2] \in 0 .. r.cols - 1
    BY <1>3, <1>4 DEF ImagePixels, Pixels
  <2>2. p[3] + 1 \in 1 .. 3 BY <2>1
  <2> QED BY <1>3, <2>1, <2>2
<1>9. s[<<p[1], p[2]>>] = c BY <1>2, <1>8 DEF IsPlainImage
<1>10. yuv2rgb(<<rgb2yuv(c)[1], rgb2yuv(c)[2], rgb2yuv(c)[3]>>)[p[3] + 1] - c[p[3] + 1] \in -2 .. 2
  BY <1>8, ColourSurvives
<1> QED BY <1>6, <1>7, <1>9, <1>10

(* A block in the file.                                                    *)
Blocks == [size : 0 .. LengthMod - 1, data : Seq(Bit)]

(* A block is stored whole, under what its length field holds.             *)
LEMMA StoredFacts ==
  ASSUME NEW d \in Seq(Bit)
  PROVE  Stored(d) \in Blocks /\ Stored(d).data = d
<1> DEFINE q == Len(d) \div 8
<1>1. q \in Nat OBVIOUS
<1>2. LengthMod \in Nat \ {0} BY LengthAssumption
<1> HIDE DEF q
<1>3. q % LengthMod \in 0 .. LengthMod - 1 BY <1>1, <1>2
<1>4. Stored(d) = [size |-> q % LengthMod, data |-> d] BY DEF Stored, q
<1> QED BY <1>3, <1>4 DEF Blocks

(* A length is cut only of a block that may be longer than its field says. *)
LEMMA LengthCut ==
  ASSUME NEW d \in Seq(Bit), NEW bytes \in Nat, Len(d) % 8 = 0, Len(d) <= 8 * bytes,
         8 * Stored(d).size # Len(d)
  PROVE  bytes >= LengthMod
<1> DEFINE l == Len(d)  q == l \div 8
<1>1. l \in Nat /\ l % 8 = 0 /\ l <= 8 * bytes OBVIOUS
<1>2. LengthMod \in Nat \ {0} BY LengthAssumption
<1>3. Stored(d).size = q % LengthMod BY DEF Stored
<1> HIDE DEF l
<1>4. q \in Nat /\ 8 * q = l /\ q <= bytes BY <1>1
<1> HIDE DEF q
<1>5. SUFFICES ASSUME bytes < LengthMod PROVE FALSE BY <1>2
<1>6. q % LengthMod = q BY <1>2, <1>4, <1>5
<1> QED BY <1>3, <1>4, <1>6 DEF l

(* The file after m blocks: a header without a field cut off, and the      *)
(* length and the bytes of every block.                                    *)
FileUpTo(f, r, s, m) ==
  /\ f = [header |-> HeaderOf(r), blocks |-> f.blocks]
  /\ f.blocks \in Seq(Blocks) /\ Len(f.blocks) = m
  /\ \A n \in 1 .. m : f.blocks[n] = Stored(CodeAt(r, s, n - 1).data)

(* The decoder's buffer, three bytes a pixel of a block, and how far       *)
(* inv_Huffman read in it.                                                 *)
IsDecoder(data, read, r) ==
  LET bytes == 3 * (r.block_height * r.block_width)
  IN data \in Seq(Bit) /\ Len(data) = 8 * bytes /\ read \in Nat /\ read <= bytes

(* Nothing is encoded before the start, or ever, when the image is         *)
(* refused.                                                                *)
IsIdle == file = <<>> /\ dst_img = <<>> /\ quantized = <<>> /\ blk = 0 /\ bytes_read = 0

(* lhe_encoder's loop: file and image agree, block by block.               *)
IsEncoding ==
  /\ Accepted(request) /\ blk \in 0 .. BlockCount(request)
  /\ FileUpTo(file, request, source, blk) /\ QuantizedUpTo(quantized, request, source, blk)
  /\ dst_img = <<>> /\ bytes_read = 0

(* lhe_decoder's loop: the file is complete.                               *)
IsDecoding ==
  /\ Accepted(request) /\ blk \in 0 .. BlockCount(request)
  /\ FileUpTo(file, request, source, BlockCount(request))
  /\ QuantizedUpTo(quantized, request, source, BlockCount(request))
  /\ IsDecoder(lhe_block_data, bytes_read, request)

(* The properties are made inductive by what file, encoder's image and     *)
(* decoder's image have to do with the source, block by block: that the    *)
(* two programs agree is said of blocks not yet decoded too.               *)
CodecInv ==
  /\ request \in Requests /\ source \in Images(request.rows, request.cols)
  /\ pc \in {"start", "refused", "encode", "decode", "done", "undefined"}
  /\ (pc \in {"start", "refused"} => IsIdle)
  /\ (pc = "encode" => IsEncoding)
  /\ (pc \in {"decode", "undefined"} =>
        IsDecoding /\ DecodedUpTo(dst_img, request, source, blk))
  /\ LengthsHold
  /\ (pc = "done" => IsDecoding /\ IsFinal(dst_img, quantized, request, source))

(* What the decoder takes from the header.                                 *)
HeaderReads(r) ==
  /\ BlockHeight = r.block_height /\ BlockWidth = r.block_width /\ Cols = r.cols /\ Rows = r.rows
  /\ (OneLine420 <=> OneLineColour(r))
  /\ file.header.img_height * file.header.img_width = BlockCount(r)
  /\ file.header.profile = r.mode
  /\ BufferBytes = 3 * (r.block_height * r.block_width)
  /\ r.block_height * r.block_width \in Nat
  /\ \A n : DecoderMode(n) = DecoderModeOf(r, n)

(* It is what was asked.                                                   *)
LEMMA HeaderRead ==
  ASSUME NEW r, NEW s, IsAsked(r, s), file.header = HeaderOf(r)
  PROVE  HeaderReads(r)
<1> DEFINE h == r.block_height  w == r.block_width  q == w \div WidthUnit
<1>1. /\ IsGrid(r) /\ w = q * WidthUnit /\ q \in Nat \ {0} BY AskedGrid
<1>2. /\ r.cols = PerRow(r) * w /\ r.rows = Lines(r) * h /\ h \in Nat /\ w \in Nat
      /\ PerRow(r) \in Nat /\ Lines(r) \in Nat
  BY <1>1, GridFacts DEF IsGrid
<1>3. /\ file.header.profile = r.mode /\ file.header.blk_height = h - 1
      /\ file.header.blk_width = q - 1
      /\ file.header.img_height = Lines(r) /\ file.header.img_width = PerRow(r)
  BY DEF HeaderOf
<1> HIDE DEF h, w, q
<1>4. (h - 1) + 1 = h /\ (q - 1) + 1 = q BY <1>1, <1>2
<1>5. BlockHeight = h BY <1>3, <1>4 DEF BlockHeight
<1>6. BlockWidth = w BY <1>1, <1>3, <1>4 DEF BlockWidth
<1>7. Cols = r.cols /\ Rows = r.rows BY <1>2, <1>3, <1>5, <1>6 DEF Cols, Rows
<1>8. OneLine420 <=> OneLineColour(r) BY <1>3, <1>5 DEF OneLine420, OneLineColour, h
<1>9. file.header.img_height * file.header.img_width = BlockCount(r) BY <1>3 DEF BlockCount
<1>10. h * w \in Nat /\ BufferBytes = 3 * (h * w)
  <2> DEFINE a == h * w
  <2>1. a \in Nat BY <1>2, SMT
  <2>2. BufferBytes = a * 3 BY <1>5, <1>6 DEF BufferBytes
  <2> HIDE DEF a
  <2>3. a * 3 = 3 * a BY <2>1
  <2> QED BY <2>1, <2>2, <2>3 DEF a
<1>11. \A n : DecoderMode(n) = DecoderModeOf(r, n) BY <1>3, <1>8 DEF DecoderMode, DecoderModeOf
<1> QED BY <1>3, <1>5, <1>6, <1>7, <1>8, <1>9, <1>10, <1>11 DEF HeaderReads, h, w

(* At the start nothing is there.                                          *)
LEMMA CodecStart == ASSUME Init PROVE CodecInv
BY DEF Init, CodecInv, IsIdle, LengthsHold

(* A refused image leaves it so.                                           *)
LEMMA RefuseKeeps == ASSUME CodecInv, RefuseImage PROVE CodecInv'
BY DEF CodecInv, RefuseImage, IsIdle, LengthsHold, askVars, decoderVars

(* The header is written ...                                               *)
LEMMA StartEncoderKeeps == ASSUME HeaderFits, CodecInv, StartEncoder PROVE CodecInv'
<1> DEFINE r == request  s == source
<1>1. /\ r \in Requests /\ s \in Images(r.rows, r.cols) /\ r' = r /\ s' = s
      /\ pc' = "encode" /\ IsIdle /\ Accepted(r) /\ blk' = 0 /\ dst_img' = <<>> /\ bytes_read' = 0
  BY DEF CodecInv, StartEncoder, IsIdle, askVars, decoderVars
<1>2. IsAsked(r, s) BY <1>1 DEF IsAsked
<1>3. FileUpTo(file', r, s, 0)
  <2>1. file' = [header |-> HeaderOf(r), blocks |-> <<>>] BY <1>2, HeaderSays DEF StartEncoder
  <2>2. file'.blocks = <<>> BY <2>1
  <2>3. <<>> \in Seq(Blocks) /\ Len(<<>>) = 0 OBVIOUS
  <2> QED BY <2>1, <2>2, <2>3 DEF FileUpTo
<1>4. QuantizedUpTo(quantized', r, s, 0)
  <2>1. quantized' = [p \in ImagePixels(r) |-> Unset] BY DEF StartEncoder, ImagePixels
  <2> QED BY <1>2, <2>1, QuantizedStart
<1>5. 0 \in 0 .. BlockCount(r)
  <2>1. BlockCount(r) \in Nat BY <1>2, AskedGrid, GridFacts
  <2> QED BY <2>1
<1>6. IsEncoding' BY <1>1, <1>3, <1>4, <1>5 DEF IsEncoding
<1> QED BY <1>1, <1>6 DEF CodecInv, LengthsHold

(* ... a block's bytes are appended to the file ...                        *)
LEMMA BlocksAppended ==
  ASSUME NEW f, NEW r, NEW s, NEW n, IsAsked(r, s), n \in 0 .. BlockCount(r) - 1,
         FileUpTo(f, r, s, n)
  PROVE  FileUpTo([f EXCEPT !.blocks = Append(@, Stored(CodeAt(r, s, n).data))], r, s, n + 1)
<1> DEFINE h == HeaderOf(r)  b == f.blocks  d == Stored(CodeAt(r, s, n).data)
           c == Append(b, d)  g == [f EXCEPT !.blocks = c]
<1>1. f = [header |-> h, blocks |-> b] /\ b \in Seq(Blocks) /\ Len(b) = n
      /\ \A m \in 1 .. n : b[m] = Stored(CodeAt(r, s, m - 1).data)
  BY DEF FileUpTo
<1>2. d \in Blocks
  <2>1. CodeAt(r, s, n).data \in Seq(Bit) BY DataOfBlock DEF BlockData
  <2> QED BY <2>1, StoredFacts
<1>3. n \in Nat OBVIOUS
<1> HIDE DEF b, d, h
<1>4. c \in Seq(Blocks) /\ Len(c) = n + 1 /\ c[n + 1] = d /\ \A m \in 1 .. n : c[m] = b[m]
  BY <1>1, <1>2
<1> HIDE DEF c
<1>5. g = [header |-> h, blocks |-> c] /\ g.blocks = c BY <1>1
<1>6. \A m \in 1 .. n + 1 : c[m] = Stored(CodeAt(r, s, m - 1).data)
  <2> TAKE m \in 1 .. n + 1
  <2>1. CASE m = n + 1
    <3>1. m - 1 = n BY <2>1, <1>3
    <3> QED BY <2>1, <3>1, <1>4 DEF d
  <2>2. CASE m # n + 1
    <3>1. m \in 1 .. n BY <2>2, <1>3
    <3> QED BY <3>1, <1>1, <1>4
  <2> QED BY <2>1, <2>2
<1> HIDE DEF g
<1>7. FileUpTo(g, r, s, n + 1) BY <1>4, <1>5, <1>6 DEF FileUpTo, h
<1> QED BY <1>7 DEF g, c, b, d

(* ... and so the file grows with the image.                               *)
LEMMA EncodeBlockKeeps == ASSUME CodecInv, EncodeBlock PROVE CodecInv'
<1> DEFINE r == request  s == source  n == blk
           block == [at \in (0 .. r.block_height - 1) \X (0 .. r.block_width - 1) |->
                       LET p == Place(n, r.block_height, r.block_width, r.cols, <<at[1], at[2], 0>>)
                       IN s[<<p[1], p[2]>>]]
           coded == lhe_encode_core(block, r.block_height, r.block_width, BlockMode(r, n))
<1>1. /\ pc = "encode" /\ n < file.header.img_height * file.header.img_width
      /\ file' = [file EXCEPT !.blocks = Append(@, Stored(coded.data))]
      /\ quantized' = Put(quantized, n, r.block_height, r.block_width, r.cols, coded.img)
      /\ blk' = n + 1 /\ pc' = "encode" /\ r' = r /\ s' = s
      /\ dst_img' = dst_img /\ bytes_read' = bytes_read
  BY DEF EncodeBlock, askVars, decoderVars
<1>2. block = SourceBlock(r, s, n) BY DEF SourceBlock, PlaceIn
<1>3. coded = CodeAt(r, s, n) BY <1>2 DEF CodeAt
<1> HIDE DEF block, coded
<1>4. r \in Requests /\ s \in Images(r.rows, r.cols) /\ IsEncoding BY <1>1 DEF CodecInv
<1>5. IsAsked(r, s) BY <1>4 DEF IsAsked, IsEncoding
<1>6. FileUpTo(file, r, s, n) /\ QuantizedUpTo(quantized, r, s, n) /\ n \in 0 .. BlockCount(r)
      /\ dst_img = <<>> /\ bytes_read = 0 /\ Accepted(r)
  BY <1>4 DEF IsEncoding
<1>7. n \in 0 .. BlockCount(r) - 1 /\ n + 1 \in 0 .. BlockCount(r)
  <2>1. file.header = HeaderOf(r) BY <1>6 DEF FileUpTo
  <2>2. HeaderReads(r) BY <1>5, <2>1, HeaderRead
  <2>3. n < BlockCount(r) BY <1>1, <2>2 DEF HeaderReads
  <2>4. BlockCount(r) \in Nat BY <1>5, AskedGrid, GridFacts
  <2> DEFINE t == BlockCount(r)
  <2> HIDE DEF t
  <2>5. n < t /\ t \in Nat /\ n \in 0 .. t BY <1>6, <2>3, <2>4 DEF t
  <2>6. n \in 0 .. t - 1 /\ n + 1 \in 0 .. t BY <2>5
  <2> QED BY <2>6 DEF t
<1>8. FileUpTo(file', r, s, n + 1) BY <1>1, <1>3, <1>5, <1>6, <1>7, BlocksAppended
<1>9. QuantizedUpTo(quantized', r, s, n + 1) BY <1>1, <1>3, <1>5, <1>6, <1>7, QuantizedMore
<1>10. IsEncoding' BY <1>1, <1>6, <1>7, <1>8, <1>9 DEF IsEncoding
<1> QED BY <1>1, <1>4, <1>10 DEF CodecInv, LengthsHold

(* The decoder starts with a black image and any buffer.                   *)
LEMMA StartDecoderKeeps == ASSUME CodecInv, StartDecoder PROVE CodecInv'
<1> DEFINE r == request  s == source
<1>1. /\ pc = "encode" /\ blk = file.header.img_height * file.header.img_width
      /\ pc' = "decode" /\ blk' = 0 /\ r' = r /\ s' = s /\ file' = file /\ quantized' = quantized
      /\ bytes_read' = bytes_read
      /\ dst_img' = [p \in Pixels(Rows, Cols, Channels(file.header.profile)) |-> 0]
  BY DEF StartDecoder, askVars
<1>2. r \in Requests /\ s \in Images(r.rows, r.cols) /\ IsEncoding BY <1>1 DEF CodecInv
<1>3. IsAsked(r, s) BY <1>2 DEF IsAsked, IsEncoding
<1>4. FileUpTo(file, r, s, blk) /\ QuantizedUpTo(quantized, r, s, blk) /\ bytes_read = 0
      /\ Accepted(r)
  BY <1>2 DEF IsEncoding
<1>5. HeaderReads(r)
  <2>1. file.header = HeaderOf(r) BY <1>4 DEF FileUpTo
  <2> QED BY <1>3, <2>1, HeaderRead
<1>6. blk = BlockCount(r) BY <1>1, <1>5 DEF HeaderReads
<1>7. 0 \in 0 .. BlockCount(r)
  <2>1. BlockCount(r) \in Nat BY <1>3, AskedGrid, GridFacts
  <2> QED BY <2>1
<1>8. DecodedUpTo(dst_img', r, s, 0)
  <2>1. dst_img' = [p \in ImagePixels(r) |-> 0] BY <1>1, <1>5 DEF HeaderReads, ImagePixels
  <2> QED BY <1>3, <2>1, DecodedStart
<1>9. IsDecoder(lhe_block_data', 0, r)
  <2> DEFINE bytes == 3 * (r.block_height * r.block_width)
  <2>1. BufferBytes = bytes /\ r.block_height * r.block_width \in Nat BY <1>5 DEF HeaderReads
  <2>2. bytes \in Nat
    <3> DEFINE a == r.block_height * r.block_width
    <3>1. a \in Nat BY <2>1
    <3> HIDE DEF a
    <3>2. 3 * a \in Nat BY <3>1
    <3> QED BY <3>2 DEF a
  <2>3. PICK bit \in {0, 1} : lhe_block_data' = [i \in 1 .. 8 * BufferBytes |-> bit]
    BY DEF StartDecoder
  <2> SUFFICES lhe_block_data' \in Seq(Bit) /\ Len(lhe_block_data') = 8 * bytes /\ 0 \in Nat
               /\ 0 <= bytes
    BY DEF IsDecoder
  <2>4. lhe_block_data' = [i \in 1 .. 8 * bytes |-> bit] BY <2>1, <2>3
  <2> HIDE DEF bytes
  <2>5. 8 * bytes \in Nat /\ 0 <= bytes BY <2>2
  <2>6. bit \in Bit BY DEF Bit
  <2> DEFINE t == 8 * bytes
  <2>7. t \in Nat /\ lhe_block_data' = [i \in 1 .. t |-> bit] BY <2>4, <2>5
  <2> HIDE DEF t
  <2>8. lhe_block_data' \in [1 .. t -> Bit] BY <2>6, <2>7
  <2>9. lhe_block_data' \in Seq(Bit) /\ Len(lhe_block_data') = t BY <2>7, <2>8
  <2> QED BY <2>5, <2>9 DEF t
<1>10. IsDecoding'
  BY <1>1, <1>4, <1>6, <1>7, <1>9 DEF IsDecoding
<1> QED BY <1>1, <1>2, <1>8, <1>10 DEF CodecInv, LengthsHold

(* A block is read over what the buffer held: the block before, or         *)
(* nothing.                                                                *)
LEMMA BufferFilled ==
  ASSUME NEW data \in Seq(Bit), NEW old \in Seq(Bit), Len(data) <= Len(old)
  PROVE  LET buffer == data \o SubSeq(old, Len(data) + 1, Len(old))
         IN IsBuffer(buffer, data) /\ Len(buffer) = Len(old)
<1> DEFINE a == Len(data)  b == Len(old)  rest == SubSeq(old, a + 1, b)  buffer == data \o rest
<1>1. a \in Nat /\ b \in Nat /\ a <= b OBVIOUS
<1>2. rest \in Seq(Bit) /\ Len(rest) = b - a
  <2>1. a + 1 \in Nat /\ 1 <= a + 1 /\ a + 1 <= b + 1 /\ b <= b /\ b - (a + 1) + 1 = b - a BY <1>1
  <2>2. b <= Len(old) BY <1>1
  <2> HIDE DEF a, b
  <2>3. rest \in Seq(Bit) /\ Len(rest) = b - (a + 1) + 1 BY <2>1, <2>2, <1>1, Cut
  <2> QED BY <2>1, <2>3
<1> HIDE DEF rest
<1>3. buffer \in Seq(Bit) /\ Len(buffer) = a + Len(rest) /\ \A j \in 1 .. a : buffer[j] = data[j]
  BY <1>2, Joined
<1>4. Len(buffer) = b BY <1>1, <1>2, <1>3
<1> QED BY <1>1, <1>3, <1>4 DEF IsBuffer, rest

(* The part of the image that a block is decoded to is black.              *)
LEMMA ZeroBlock ==
  ASSUME NEW r, NEW s, NEW n, NEW d, IsAsked(r, s), n \in 0 .. BlockCount(r) - 1,
         DecodedUpTo(d, r, s, n)
  PROVE  [at \in BlockPixels(r) |-> d[PlaceIn(r, n, at)]] = [at \in BlockPixels(r) |-> 0]
<1> SUFFICES ASSUME NEW at \in BlockPixels(r) PROVE d[PlaceIn(r, n, at)] = 0 OBVIOUS
<1> DEFINE p == PlaceIn(r, n, at)
<1>1. IsGrid(r) BY AskedGrid
<1>2. p \in ImagePixels(r) /\ BlockOf(r, p) = n BY <1>1, PlacePixel
<1> HIDE DEF p
<1>3. ~ BlockOf(r, p) < n BY <1>2
<1>4. d[p] = 0 BY <1>2, <1>3 DEF DecodedUpTo
<1> QED BY <1>4 DEF p

(* A block is decoded as it was coded.                                     *)
LEMMA DecodeBlockKeeps == ASSUME CodecInv, DecodeBlock PROVE CodecInv'
<1> DEFINE r == request  s == source  n == blk  h == r.block_height  w == r.block_width
           data == file.blocks[n + 1].data  code == CodeAt(r, s, n)
           buffer == data \o SubSeq(lhe_block_data, Len(data) + 1, Len(lhe_block_data))
           img == [at \in Pixels(BlockHeight, BlockWidth, Channels(file.header.profile)) |->
                     dst_img[Place(n, BlockHeight, BlockWidth, Cols, at)]]
           decoded == lhe_decode_core(buffer, img, BlockHeight, BlockWidth, DecoderMode(n),
                                      IF OneLine420 THEN 1 ELSE 0)
<1>1. /\ pc = "decode" /\ n < file.header.img_height * file.header.img_width
      /\ lhe_block_data' = buffer /\ bytes_read' = decoded.bytes_read
      /\ dst_img' = Put(dst_img, n, BlockHeight, BlockWidth, Cols, decoded.img)
      /\ blk' = n + 1 /\ pc' = "decode" /\ r' = r /\ s' = s /\ file' = file
      /\ quantized' = quantized
  BY DEF DecodeBlock, askVars
<1>2. /\ r \in Requests /\ s \in Images(r.rows, r.cols) /\ IsDecoding
      /\ DecodedUpTo(dst_img, r, s, n)
  BY <1>1 DEF CodecInv
<1>3. IsAsked(r, s) BY <1>2 DEF IsAsked, IsDecoding
<1>4. /\ FileUpTo(file, r, s, BlockCount(r)) /\ QuantizedUpTo(quantized, r, s, BlockCount(r))
      /\ n \in 0 .. BlockCount(r)
      /\ Accepted(r) /\ IsDecoder(lhe_block_data, bytes_read, r)
  BY <1>2 DEF IsDecoding
<1>5. HeaderReads(r)
  <2>1. file.header = HeaderOf(r) BY <1>4 DEF FileUpTo
  <2> QED BY <1>3, <2>1, HeaderRead
<1>6. n \in 0 .. BlockCount(r) - 1 /\ n + 1 \in 0 .. BlockCount(r) /\ n + 1 \in 1 .. BlockCount(r)
      /\ (n + 1) - 1 = n
  <2>1. n < BlockCount(r) BY <1>1, <1>5 DEF HeaderReads
  <2>2. BlockCount(r) \in Nat BY <1>3, AskedGrid, GridFacts
  <2> DEFINE t == BlockCount(r)
  <2> HIDE DEF t
  <2>3. n < t /\ t \in Nat /\ n \in 0 .. t BY <1>4, <2>1, <2>2 DEF t
  <2>4. n \in 0 .. t - 1 /\ n + 1 \in 0 .. t /\ n + 1 \in 1 .. t /\ (n + 1) - 1 = n BY <2>3
  <2> QED BY <2>4 DEF t
<1>7. data = code.data
  <2>1. file.blocks[n + 1] = Stored(CodeAt(r, s, (n + 1) - 1).data) BY <1>4, <1>6 DEF FileUpTo
  <2>2. CodeAt(r, s, n).data \in Seq(Bit) BY <1>3, <1>6, DataOfBlock DEF BlockData
  <2> QED BY <2>1, <2>2, <1>6, StoredFacts
<1>8. data \in Seq(Bit) /\ Len(data) <= 8 * (3 * (h * w))
  <2>1. BlockData(code, SourceBlock(r, s, n), h, w, BlockMode(r, n)) BY <1>3, <1>6, DataOfBlock
  <2> HIDE DEF code, data, h, w
  <2> QED BY <2>1, <1>7 DEF BlockData
<1>9. lhe_block_data \in Seq(Bit) /\ Len(lhe_block_data) = 8 * (3 * (h * w)) BY <1>4 DEF IsDecoder
<1> HIDE DEF data
<1>10. IsBuffer(buffer, data) /\ Len(buffer) = Len(lhe_block_data)
  <2>1. Len(data) <= Len(lhe_block_data) BY <1>8, <1>9
  <2> QED BY <2>1, <1>8, <1>9, BufferFilled
<1> HIDE DEF buffer, code
<1>11. img = [at \in BlockPixels(r) |-> 0]
  <2>1. /\ BlockHeight = r.block_height /\ BlockWidth = r.block_width /\ Cols = r.cols
        /\ file.header.profile = r.mode
    BY <1>5 DEF HeaderReads
  <2>2. img = [at \in BlockPixels(r) |-> dst_img[PlaceIn(r, n, at)]]
    BY <2>1 DEF BlockPixels, PlaceIn
  <2> HIDE DEF img
  <2> QED BY <2>2, <1>2, <1>3, <1>6, ZeroBlock
<1> HIDE DEF img
<1> DEFINE zero == [at \in BlockPixels(r) |-> 0]  m == IF OneLineColour(r) THEN 1 ELSE 0
           d == lhe_decode_core(buffer, zero, r.block_height, r.block_width, DecoderModeOf(r, n), m)
<1>12. decoded = d BY <1>5, <1>11 DEF HeaderReads
<1>13. ShowsBlock(d, r, s, n)
  <2>1. IsBuffer(buffer, CodeAt(r, s, n).data) BY <1>7, <1>10 DEF code
  <2>2. m = IF OneLineColour(r) THEN 1 ELSE 0 OBVIOUS
  <2> HIDE DEF m
  <2> QED BY <1>3, <1>6, <2>1, <2>2, DecodedIsShown
<1> HIDE DEF decoded, d
<1>14. DecodedUpTo(dst_img', r, s, n + 1)
  <2>1. dst_img' = Put(dst_img, n, r.block_height, r.block_width, r.cols, ShownAt(r, s, n))
    BY <1>1, <1>5, <1>12, <1>13 DEF HeaderReads, ShowsBlock
  <2> QED BY <2>1, <1>2, <1>3, <1>6, DecodedMore
<1>15. IsDecoder(lhe_block_data', bytes_read', r)
  <2>1. lhe_block_data' \in Seq(Bit) /\ Len(lhe_block_data') = 8 * (3 * (h * w))
    BY <1>1, <1>9, <1>10 DEF IsBuffer
  <2>2. bytes_read' \in Nat /\ bytes_read' <= 3 * (h * w) BY <1>1, <1>12, <1>13 DEF ShowsBlock
  <2> QED BY <2>1, <2>2 DEF IsDecoder
<1>16. IsDecoding' BY <1>1, <1>4, <1>6, <1>15 DEF IsDecoding
<1> QED BY <1>1, <1>2, <1>14, <1>16 DEF CodecInv, LengthsHold

(* The decoder loses its step at a block that may be too long only.        *)
LEMMA LoseStepKeeps == ASSUME CodecInv, LoseStep PROVE CodecInv'
<1> DEFINE r == request  s == source  n == blk  h == r.block_height  w == r.block_width
           d == CodeAt(r, s, n).data
<1>1. /\ pc = "decode" /\ n < file.header.img_height * file.header.img_width
      /\ pc' = "undefined" /\ r' = r /\ s' = s /\ blk' = n /\ file' = file
      /\ lhe_block_data' = lhe_block_data /\ dst_img' = dst_img /\ bytes_read' = bytes_read
      /\ quantized' = quantized
      /\ 8 * file.blocks[n + 1].size # Len(file.blocks[n + 1].data)
  BY DEF LoseStep, InStep, askVars, decoderVars
<1>2. /\ r \in Requests /\ s \in Images(r.rows, r.cols) /\ IsDecoding
      /\ DecodedUpTo(dst_img, r, s, n)
  BY <1>1 DEF CodecInv
<1>3. IsAsked(r, s) BY <1>2 DEF IsAsked, IsDecoding
<1>4. FileUpTo(file, r, s, BlockCount(r)) /\ n \in 0 .. BlockCount(r) BY <1>2 DEF IsDecoding
<1>5. HeaderReads(r)
  <2>1. file.header = HeaderOf(r) BY <1>4 DEF FileUpTo
  <2> QED BY <1>3, <2>1, HeaderRead
<1>6. n \in 0 .. BlockCount(r) - 1 /\ n + 1 \in 1 .. BlockCount(r) /\ (n + 1) - 1 = n
  <2>1. n < BlockCount(r) BY <1>1, <1>5 DEF HeaderReads
  <2>2. BlockCount(r) \in Nat BY <1>3, AskedGrid, GridFacts
  <2> DEFINE t == BlockCount(r)
  <2> HIDE DEF t
  <2>3. n < t /\ t \in Nat /\ n \in 0 .. t BY <1>4, <2>1, <2>2 DEF t
  <2>4. n \in 0 .. t - 1 /\ n + 1 \in 1 .. t /\ (n + 1) - 1 = n BY <2>3
  <2> QED BY <2>4 DEF t
<1>7. file.blocks[n + 1] = Stored(d) BY <1>4, <1>6 DEF FileUpTo
<1>8. d \in Seq(Bit) /\ Len(d) % 8 = 0 /\ Len(d) <= 8 * (3 * (h * w))
  <2>1. BlockData(CodeAt(r, s, n), SourceBlock(r, s, n), h, w, BlockMode(r, n))
    BY <1>3, <1>6, DataOfBlock
  <2> HIDE DEF h, w
  <2> QED BY <2>1 DEF BlockData
<1>9. BufferBytes = 3 * (h * w) /\ 3 * (h * w) \in Nat
  <2> DEFINE a == h * w
  <2>1. BufferBytes = 3 * a /\ a \in Nat BY <1>5 DEF HeaderReads
  <2> HIDE DEF a
  <2>2. 3 * a \in Nat BY <2>1
  <2> QED BY <2>1, <2>2 DEF a
<1> DEFINE bytes == 3 * (h * w)
<1>10. 8 * Stored(d).size # Len(d)
  <2>1. Stored(d).data = d BY <1>8, StoredFacts
  <2> HIDE DEF d
  <2> QED BY <2>1, <1>1, <1>7
<1> HIDE DEF bytes, d
<1>11. bytes >= LengthMod
  <2>1. d \in Seq(Bit) /\ Len(d) % 8 = 0 /\ Len(d) <= 8 * bytes /\ bytes \in Nat
    BY <1>8, <1>9 DEF bytes
  <2> QED BY <2>1, <1>10, LengthCut
<1>12. BufferBytes' = BufferBytes BY <1>1 DEF BufferBytes, BlockHeight, BlockWidth
<1>13. LengthsHold' BY <1>9, <1>11, <1>12 DEF LengthsHold, bytes
<1>14. IsDecoding' BY <1>1, <1>2 DEF IsDecoding
<1> QED BY <1>1, <1>2, <1>13, <1>14 DEF CodecInv

(* At the end the image is final.                                          *)
LEMMA EndDecoderKeeps == ASSUME CodecInv, EndDecoder PROVE CodecInv'
<1> DEFINE r == request  s == source
<1>1. /\ pc = "decode" /\ blk = file.header.img_height * file.header.img_width /\ pc' = "done"
      /\ dst_img' = IF OneLine420 THEN ToRgb(interpol_yuv440(dst_img)) ELSE dst_img
      /\ blk' = blk /\ r' = r /\ s' = s /\ file' = file /\ quantized' = quantized
      /\ lhe_block_data' = lhe_block_data /\ bytes_read' = bytes_read
  BY DEF EndDecoder, askVars
<1>2. /\ r \in Requests /\ s \in Images(r.rows, r.cols) /\ IsDecoding
      /\ DecodedUpTo(dst_img, r, s, blk)
  BY <1>1 DEF CodecInv
<1>3. IsAsked(r, s) BY <1>2 DEF IsAsked, IsDecoding
<1>4. FileUpTo(file, r, s, BlockCount(r)) /\ QuantizedUpTo(quantized, r, s, BlockCount(r))
  BY <1>2 DEF IsDecoding
<1>5. HeaderReads(r)
  <2>1. file.header = HeaderOf(r) BY <1>4 DEF FileUpTo
  <2> QED BY <1>3, <2>1, HeaderRead
<1>6. blk = BlockCount(r) /\ dst_img' = FinalImage(r, dst_img)
  BY <1>1, <1>5 DEF HeaderReads, FinalImage
<1>7. IsFinal(dst_img', quantized, r, s)
  <2>1. DecodedUpTo(dst_img, r, s, BlockCount(r)) BY <1>2, <1>6
  <2>2. IsFinal(FinalImage(r, dst_img), quantized, r, s) BY <1>3, <1>4, <2>1, ImageIsFinal
  <2> QED BY <2>2, <1>6
<1>8. IsDecoding' BY <1>1, <1>2 DEF IsDecoding
<1> QED BY <1>1, <1>2, <1>7, <1>8 DEF CodecInv, LengthsHold

(* Every step keeps the invariant.                                         *)
LEMMA CodecStep == ASSUME HeaderFits, CodecInv, [Next]_vars PROVE CodecInv'
<1>1. CASE UNCHANGED vars
  BY <1>1
  DEF vars, CodecInv, IsIdle, IsEncoding, IsDecoding, LengthsHold, BufferBytes, BlockHeight,
      BlockWidth
<1> QED
  BY <1>1, RefuseKeeps, StartEncoderKeeps, EncodeBlockKeeps, StartDecoderKeeps, DecodeBlockKeeps,
           LoseStepKeeps, EndDecoderKeeps DEF Next

(* It keeps every value, block and read within bounds.                     *)
LEMMA Bounded == ASSUME CodecInv PROVE WithinBounds
<1> DEFINE r == request  s == source
<1>1. CASE pc \in {"start", "refused"}
  <2>1. IsIdle /\ LengthsHold BY <1>1 DEF CodecInv
  <2> QED BY <1>1, <2>1 DEF IsIdle, WithinBounds, TypeOK, BufferHolds
<1>2. CASE pc \in {"encode", "decode", "done", "undefined"}
  <2> DEFINE m == IF pc = "encode" THEN blk ELSE BlockCount(r)
  <2>1. IsAsked(r, s) BY <1>2 DEF CodecInv, IsEncoding, IsDecoding, IsAsked
  <2>2. FileUpTo(file, r, s, m) /\ QuantizedUpTo(quantized, r, s, m) /\ blk \in 0 .. BlockCount(r)
    BY <1>2 DEF CodecInv, IsEncoding, IsDecoding
  <2>3. BlockCount(r) \in Nat /\ m \in 0 .. BlockCount(r)
    <3>1. BlockCount(r) \in Nat BY <2>1, AskedGrid, GridFacts
    <3> DEFINE t == BlockCount(r)
    <3> HIDE DEF t
    <3>2. t \in Nat /\ blk \in 0 .. t BY <2>2, <3>1 DEF t
    <3>3. t \in 0 .. t BY <3>2
    <3> QED BY <3>2, <3>3 DEF t
  <2> HIDE DEF m
  <2>4. HeaderReads(r)
    <3>1. file.header = HeaderOf(r) BY <2>2 DEF FileUpTo
    <3> QED BY <2>1, <3>1, HeaderRead
  <2>5. \A b \in Range(file.blocks) :
          /\ b.data \in Seq({0, 1}) /\ Len(b.data) % 8 = 0
          /\ Len(b.data) <= 8 * BufferBytes /\ b.size \in 0 .. LengthMod - 1
    <3> TAKE b \in Range(file.blocks)
    <3>1. PICK i \in DOMAIN file.blocks : b = file.blocks[i] BY DEF Range
    <3>2. i \in 1 .. m BY <3>1, <2>2 DEF FileUpTo
    <3>3. i - 1 \in 0 .. BlockCount(r) - 1
      <4> DEFINE t == BlockCount(r)
      <4>1. t \in Nat /\ m \in 0 .. t BY <2>3
      <4> HIDE DEF t
      <4>2. i - 1 \in 0 .. t - 1 BY <3>2, <4>1
      <4> QED BY <4>2 DEF t
    <3>4. b = Stored(CodeAt(r, s, i - 1).data) BY <3>1, <3>2, <2>2 DEF FileUpTo
    <3> DEFINE n == i - 1
    <3> HIDE DEF n
    <3>5. BlockData(CodeAt(r, s, n), SourceBlock(r, s, n), r.block_height, r.block_width,
          BlockMode(r, n))
      BY <2>1, <3>3, DataOfBlock DEF n
    <3>6. BufferBytes = 3 * (r.block_height * r.block_width) BY <2>4 DEF HeaderReads
    <3>7. CodeAt(r, s, n).data \in Seq(Bit) BY <3>5 DEF BlockData
    <3>8. b.data = CodeAt(r, s, n).data /\ b.size \in 0 .. LengthMod - 1
      <4>1. b \in Blocks /\ b.data = CodeAt(r, s, n).data BY <3>4, <3>7, StoredFacts DEF n
      <4> QED BY <4>1 DEF Blocks
    <3> QED BY <3>5, <3>6, <3>8 DEF BlockData, Bit
  <2>6. pc \in {"decode", "done", "undefined"} => bytes_read <= BufferBytes
    BY <2>4 DEF CodecInv, IsDecoding, IsDecoder, HeaderReads
  <2>7. \A p \in DOMAIN dst_img : dst_img[p] \in Byte
    <3>1. CASE pc = "encode" BY <3>1 DEF CodecInv, IsEncoding
    <3>2. CASE pc \in {"decode", "undefined"} BY <3>2 DEF CodecInv, DecodedUpTo
    <3>3. CASE pc = "done" BY <3>3 DEF CodecInv, IsFinal
    <3> QED BY <1>2, <3>1, <3>2, <3>3
  <2>8. \A p \in DOMAIN quantized : quantized[p] = Unset \/ quantized[p] \in Byte
    BY <2>2 DEF QuantizedUpTo
  <2>9. blk \in Nat BY <2>2, <2>3
  <2>10. LengthsHold BY DEF CodecInv
  <2> QED BY <1>2, <2>5, <2>6, <2>7, <2>8, <2>9, <2>10 DEF WithinBounds, TypeOK, BufferHolds
<1> QED BY <1>1, <1>2 DEF CodecInv

(* No value leaves its byte, no block its buffer, no read of inv_Huffman   *)
(* the buffer, and no length is cut of a block that three bytes a pixel    *)
(* would not carry past its field: for every image, in every mode, with    *)
(* blocks of any size, when the file header's fields can hold what is      *)
(* asked (lhe_encoder does not check that they do).                        *)
THEOREM CodecWithinBounds == ASSUME HeaderFits PROVE Spec => []WithinBounds
<1>1. Spec => []CodecInv BY CodecStart, CodecStep, PTL DEF Spec
<1> QED BY <1>1, Bounded, PTL

(* It says what is shown at the end.                                       *)
LEMMA DoneIsShown == ASSUME CodecInv PROVE ShownIsQuantized /\ PlainImageSurvives
<1>1. CASE pc = "done"
  <2>1. IsAsked(request, source) /\ IsFinal(dst_img, quantized, request, source)
    BY <1>1 DEF CodecInv, IsDecoding, IsAsked
  <2> QED BY <2>1, FinalIsShown, FinalIsPlain
<1>2. CASE pc # "done" BY <1>2 DEF ShownIsQuantized, PlainImageSurvives
<1> QED BY <1>1, <1>2

(* What the player shows is, pixel by pixel, what the encoder predicted    *)
(* from, whatever the image, the mode, the size of the blocks and the      *)
(* quantization tables, as long as these are on the right side of the      *)
(* prediction and no block's code outgrows its length field (LoseStep): a  *)
(* symbol lost or misread, a prediction from another pixel or a conversion *)
(* too many would be seen.                                                 *)
THEOREM ShownAsQuantized == ASSUME HeaderFits PROVE Spec => []ShownIsQuantized
<1>1. Spec => []CodecInv BY CodecStart, CodecStep, PTL DEF Spec
<1> QED BY <1>1, DoneIsShown, PTL

(* An image of one colour whose file is decoded in step comes back, each   *)
(* channel at most 2 away.                                                 *)
THEOREM PlainImagesSurvive == ASSUME HeaderFits PROVE Spec => []PlainImageSurvives
<1>1. Spec => []CodecInv BY CodecStart, CodecStep, PTL DEF Spec
<1> QED BY <1>1, DoneIsShown, PTL
=============================================================================
