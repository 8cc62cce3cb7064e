----------------------------- MODULE MCLheCodec -----------------------------
(***************************************************************************)
(* Instances of LheCodec: images of at most two block rows, one colour     *)
(* with up to two pixels of others, in every chroma mode; blocks of one,   *)
(* two and three lines.  The table follows the ratio of 5/2 between hops   *)
(* that tables/quant_values.txt has away from the ends of the scale.       *)
(***************************************************************************)
EXTENDS LheCodec

MCQuantValue(prediction, h1, hop) ==
  LET step == << h1, (h1 * 5) \div 2, (h1 * 25) \div 4, (h1 * 125) \div 8 >>
  IN clamp(IF hop > 0 THEN prediction + step[hop] ELSE prediction - step[-hop])

Request(mode, height, width, rows, cols) ==
  [mode |-> mode, block_height |-> height, block_width |-> width, rows |-> rows, cols |-> cols]

MCRequests ==
  { Request(m, s[1], s[2], s[3], s[4]) :
      m \in ChromaModes, s \in { <<1, 2, 2, 4>>, <<2, 4, 4, 4>>, <<3, 2, 6, 2>> } }
  \cup { Request("gray", 17, 2, 17, 2), Request("yuv420", 2, 3, 2, 3),
         Request("yuv422", 2, 2, 3, 2), Request("yuv444", 2, 4, 2, 6) }

(* What the theorems of LheCodecProofs suppose is so here.                 *)
ASSUME HeaderAssumption == HeaderFits

Plain == { <<40, 40, 40>>, <<255, 0, 0>> }
Spots == { <<0, 0, 255>>, <<80, 60, 50>>, <<255, 255, 0>> }

MCImages(rows, cols) ==
  LET Points == (0 .. rows - 1) \X (0 .. cols - 1)
      Spotted(p, q, c, d, e) == [at \in Points |-> IF at = p THEN d ELSE IF at = q THEN e ELSE c]
      First == {<<0, 0>>, <<0, 1>>, <<1, 0>>} \cap Points
      Second == {<<rows - 1, cols - 1>>, <<rows - 1, 0>>, <<0, cols - 1>>}
  IN { [at \in Points |-> c] : c \in Plain }
     \cup { Spotted(p, q, c, d, e) : p \in First, q \in Second, c \in Plain, d, e \in Spots }
=============================================================================
