---------------------------- MODULE LheCodecCore ----------------------------
(***************************************************************************)
(* lhe_codec_core.cc: one block to symbols (LHEquantizer), symbols to      *)
(* bytes (Huffman) and back (inv_Huffman, LHE_dequant).  A block is a      *)
(* function of <<row, col, chn>>; a symbol is a hop from -4 to 4, or the   *)
(* raw value of a channel of the first pixel; bytes and words are          *)
(* sequences of bits, the least significant first.                         *)
(* The tables of tables/quant_values.txt are the parameter QuantValue; in  *)
(* those of tables/quant_ranges.txt every range ends half way between two  *)
(* values, the middle itself belonging to the smaller hop.                 *)
(***************************************************************************)
EXTENDS Integers, Sequences, FiniteSetsExt, Functions

CONSTANTS
  QuantValue(_, _, _),  (* prediction, hop1, hop other than 0 |-> value      *)
  Unset                 (* what a pixel holds that is not coded              *)

Hops == -4 .. 4
Byte == 0 .. 255
MIN_HOP1 == 4
MAX_HOP1 == 10
INIT_HOP1 == (MIN_HOP1 + MAX_HOP1) \div 2
LARGEST_CODE == 7
WORD_BITS == 32
BUFFER_BITS == 16
ChromaModes == {"gray", "yuv420", "yuv422", "yuv444", "bayer"}

(* The table: bytes, on the side of the prediction their hop is on.        *)
ASSUME TableAssumption ==
  \A p \in Byte, h1 \in MIN_HOP1 .. MAX_HOP1, hop \in Hops \ {0} :
    /\ QuantValue(p, h1, hop) \in Byte
    /\ IF hop < 0 THEN QuantValue(p, h1, hop) <= p ELSE QuantValue(p, h1, hop) >= p

(* A loop: n times op, to which it passes what there is and its number.    *)
Loop(op(_, _), base, n) ==
  LET f[k \in 0 .. n] == IF k = 0 THEN base ELSE op(f[k - 1], k) IN f[n]

PowersOf2 == <<1, 2, 4, 8, 16, 32, 64, 128>>
Bits(code, len) == [i \in 1 .. len |-> (code \div PowersOf2[i]) % 2]
Number(bits) == bits[1] + 2*bits[2] + 4*bits[3] + 8*bits[4]
                + 16*bits[5] + 32*bits[6] + 64*bits[7] + 128*bits[8]

huff_tree(hop) == LET t == << <<26, 7>>, <<58, 6>>, <<2, 4>>, <<4, 3>>, <<1, 1>>,
                              <<0, 3>>, <<6, 3>>, <<10, 5>>, <<90, 7>> >>
                  IN Bits(t[hop + 5][1], t[hop + 5][2])

(***************************************************************************)
(* Colours.                                                                *)
(***************************************************************************)

clamp(v) == IF v < 0 THEN 0 ELSE IF v > 255 THEN 255 ELSE v

rgb2yuv(c) == LET r == c[1]  g == c[2]  b == c[3]
  IN << (r*76 + g*150 + b*29 + 128) \div 256,
        (r*(-43) + g*(-84) + b*127 + 128) \div 256 + 128,
        (r*127 + g*(-106) + b*(-21) + 128) \div 256 + 128 >>

yuv2rgb(c) == LET y == c[1]  u == c[2] - 128  v == c[3] - 128
  IN << clamp((y*257 + u + v*363 + 128) \div 256),
        clamp((y*257 - u*89 - v*183 + 128) \div 256),
        clamp((y*257 + u*458 + v + 128) \div 256) >>

(***************************************************************************)
(* What encoder and decoder share.                                         *)
(***************************************************************************)
JumpX(mode, chn) == IF chn > 0 /\ mode \in {"yuv420", "yuv422"} THEN 2 ELSE 1
JumpY(mode, chn) == IF chn > 0 /\ mode = "yuv420" THEN 2 ELSE 1

(* Chroma is coded in the pixels the decimation keeps only.                *)
Coded(mode, row, col, chn) == row % JumpY(mode, chn) = 0 /\ col % JumpX(mode, chn) = 0

(* The order of the three loops: the k-th value is that of <<row, col, chn>>. *)
Raster(k, cols, num_chn) ==
  <<(k - 1) \div (cols * num_chn), ((k - 1) \div num_chn) % cols, (k - 1) % num_chn>>

lhe_prediction(img, cols, row, col, chn, mode) ==
  LET x == JumpX(mode, chn)  y == JumpY(mode, chn)
      left == img[<<row, col - x, chn>>]
      above(c) == img[<<row - y, c, chn>>]
  IN IF row = 0 THEN left
     ELSE IF col = 0 THEN above(0)
     ELSE IF col = cols - x THEN (left + above(col)) \div 2
     ELSE (left + above(col + x)) \div 2

NewHop1 == [hop1 |-> INIT_HOP1, decrease_if_small_hop |-> FALSE]

adapt_hop1(hop, h) ==
  IF hop \notin {-1, 0, 1} THEN [hop1 |-> MAX_HOP1, decrease_if_small_hop |-> FALSE]
  ELSE IF h.decrease_if_small_hop /\ h.hop1 > MIN_HOP1
       THEN [hop1 |-> h.hop1 - 1, decrease_if_small_hop |-> FALSE]
       ELSE [h EXCEPT !.decrease_if_small_hop = TRUE]

Half(n) == (n \div 2) + (n % 2)

get_num_of_symbs(rows, cols, mode) ==
  CASE mode = "gray"   -> rows * cols
    [] mode = "yuv422" -> rows * cols + (IF cols % 2 = 0 THEN rows * cols ELSE 2 * rows * Half(cols))
    [] mode = "yuv420" -> rows * cols + (IF cols % 2 = 0
                            THEN IF rows % 2 = 0 THEN (rows * cols) \div 2 ELSE cols * Half(rows)
                            ELSE IF rows % 2 = 0 THEN rows * Half(cols) ELSE Half(rows) * Half(cols))
    [] OTHER           -> 3 * rows * cols

Channels(mode) == IF mode = "gray" THEN 1 ELSE 3
Pixels(rows, cols, num_chn) == (0 .. rows - 1) \X (0 .. cols - 1) \X (0 .. num_chn - 1)

(***************************************************************************)
(* Encoder.                                                                *)
(***************************************************************************)
Value(prediction, h1, hop) == IF hop = 0 THEN prediction ELSE QuantValue(prediction, h1, hop)

(* Where the range of hop -k, or k, ends on the far side of the prediction. *)
RangeBelow(p, h1, k) == (Value(p, h1, -k) + Value(p, h1, -(k + 1)) + 1) \div 2
RangeAbove(p, h1, k) == (Value(p, h1, k) + Value(p, h1, k + 1)) \div 2

choose_quant_value(p, pixel, h1) ==
  LET Nearest(inRange) == Min(inRange \cup {4})
  IN IF pixel >= RangeBelow(p, h1, 0)
     THEN Nearest({k \in 0 .. 3 : pixel <= RangeAbove(p, h1, k)})
     ELSE -Nearest({k \in 1 .. 3 : pixel >= RangeBelow(p, h1, k)})

(* Every row starts afresh, before the decimation skips a chroma pixel.    *)
RowStart(h, col, chn) == IF col = 0 THEN [h EXCEPT ![chn] = NewHop1] ELSE h

QuantizePixel(src, cols, mode, e, at) ==
  LET row == at[1]  col == at[2]  chn == at[3]
      h == RowStart(e.h, col, chn)
      prediction == lhe_prediction(e.img, cols, row, col, chn, mode)
      hop == choose_quant_value(prediction, src[at], h[chn].hop1)
  IN IF row = 0 /\ col = 0
     THEN [img |-> [e.img EXCEPT ![at] = src[at]], out |-> Append(e.out, src[at]), h |-> h]
     ELSE IF ~ Coded(mode, row, col, chn) THEN [e EXCEPT !.h = h]
     ELSE [img |-> [e.img EXCEPT ![at] = Value(prediction, h[chn].hop1, hop)],
           out |-> Append(e.out, hop),
           h   |-> [h EXCEPT ![chn] = adapt_hop1(hop, @)]]

LHEquantizer(src, rows, cols, num_chn, mode) ==
  LET start == [img |-> [at \in DOMAIN src |-> Unset], out |-> <<>>,
                h |-> [c \in 0 .. num_chn - 1 |-> NewHop1]]
  IN Loop(LAMBDA e, k : QuantizePixel(src, cols, mode, e, Raster(k, cols, num_chn)), start,
          rows * cols * num_chn)

(* Mutant: the carry is taken from the low end of the code.                *)
Mutant_PackCode(p, code) ==
  LET bit_ptr == Len(p.aux) + Len(code)
  IN IF bit_ptr < WORD_BITS THEN [p EXCEPT !.aux = @ \o code]
     ELSE [dst |-> p.dst \o SubSeq(p.aux \o code, 1, WORD_BITS),
           aux |-> SubSeq(code, 1, bit_ptr - WORD_BITS)]

(* A full word is stored; what did not fit is taken from the code again.   *)
PackCode(p, code) ==
  LET bit_ptr == Len(p.aux) + Len(code)
  IN IF bit_ptr < WORD_BITS THEN [p EXCEPT !.aux = @ \o code]
     ELSE [dst |-> p.dst \o SubSeq(p.aux \o code, 1, WORD_BITS),
           aux |-> SubSeq(code, Len(code) - (bit_ptr - WORD_BITS) + 1, Len(code))]

(* Mutant: file_size=(dst_idx+1)*4, the line that is commented out.        *)
Mutant_Padded(aux) == aux \o [i \in 1 .. (-Len(aux)) % WORD_BITS |-> 0]

(* The last word is cut after the last byte in use.                        *)
Padded(aux) == aux \o [i \in 1 .. (-Len(aux)) % 8 |-> 0]

Huffman(src, num_symb, num_chn) ==
  LET Code(i) == IF i <= num_chn THEN Bits(src[i], 8) ELSE huff_tree(src[i])
      packed == Loop(LAMBDA p, i : PackCode(p, Code(i)), [dst |-> <<>>, aux |-> <<>>], num_symb)
  IN packed.dst \o Padded(packed.aux)

(* The bits of a block of an RGB image, and the image predictions were     *)
(* made from.                                                              *)
lhe_encode_core(block, rows, cols, mode) ==
  LET num_chn == Channels(mode)
      yuv == [at \in Pixels(rows, cols, num_chn) |-> rgb2yuv(block[<<at[1], at[2]>>])[at[3] + 1]]
      coded == LHEquantizer(yuv, rows, cols, num_chn, mode)
  IN [data |-> Huffman(coded.out, get_num_of_symbs(rows, cols, mode), num_chn), img |-> coded.img]

(***************************************************************************)
(* Decoder.                                                                *)
(***************************************************************************)
MAX_BIT_PTR == BUFFER_BITS - LARGEST_CODE
ByteAt(src, i) ==                (* not a word of what lies behind the buffer *)
  [b \in 1 .. 8 |-> IF 8 * i + b <= Len(src) THEN src[8 * i + b] ELSE 0]

(* The first hop whose code lies at bit_ptr, in the order they are tried;  *)
(* the last is taken without a look.                                       *)
Tried == <<0, 1, -1, 2, -2, 3, -3, 4, -4>>
NextHop(buffer, bit_ptr) ==
  LET Lies(hop) == \A i \in DOMAIN huff_tree(hop) : buffer[bit_ptr + i] = huff_tree(hop)[i]
  IN Tried[Min({k \in 1 .. 8 : Lies(Tried[k])} \cup {9})]

Refill(src, u) ==
  IF u.bit_ptr <= MAX_BIT_PTR THEN u
  ELSE [dst |-> u.dst, buffer |-> SubSeq(u.buffer, 9, BUFFER_BITS) \o ByteAt(src, u.src_idx),
        src_idx |-> u.src_idx + 1, bit_ptr |-> u.bit_ptr - 8]

UnpackSymbol(src, u) ==
  LET full == Refill(src, u)  hop == NextHop(full.buffer, full.bit_ptr)
  IN [dst |-> Append(full.dst, hop), buffer |-> full.buffer, src_idx |-> full.src_idx,
      bit_ptr |-> full.bit_ptr + Len(huff_tree(hop))]

(* src is the decoder's whole buffer: the block, then whatever the buffer  *)
(* held before.  The result is the symbols and the number of bytes read.   *)
inv_Huffman(src, num_symb, num_chn) ==
  LET start == [dst     |-> [i \in 1 .. num_chn |-> Number(ByteAt(src, i - 1))],
                buffer  |-> ByteAt(src, num_chn) \o ByteAt(src, num_chn + 1),
                src_idx |-> num_chn + 2, bit_ptr |-> 0]
  IN Loop(LAMBDA u, i : UnpackSymbol(src, u), start, num_symb - num_chn)

Hops2Value(hop, prediction, h1) == IF hop = 0 THEN prediction ELSE QuantValue(prediction, h1, hop)

(* A pixel the decimation skipped takes the value of the coded one before  *)
(* it, to the left and above.                                              *)
Interpolated(img, row, col, chn, mode) ==
  img[<<row - (row % JumpY(mode, chn)), col - (col % JumpX(mode, chn)), chn>>]

DequantPixel(symbols, cols, mode, d, at) ==
  LET row == at[1]  col == at[2]  chn == at[3]
      h == IF col = 0 THEN [d.h EXCEPT ![chn] = NewHop1] ELSE d.h
      hop == symbols[d.src_idx]
      prediction == lhe_prediction(d.img, cols, row, col, chn, mode)
  IN IF row = 0 /\ col = 0
     THEN [img |-> [d.img EXCEPT ![at] = hop], h |-> h, src_idx |-> d.src_idx + 1]
     ELSE IF ~ Coded(mode, row, col, chn)
     THEN [img |-> [d.img EXCEPT ![at] = Interpolated(d.img, row, col, chn, mode)], h |-> h,
           src_idx |-> d.src_idx]
     ELSE [img |-> [d.img EXCEPT ![at] = Hops2Value(hop, prediction, h[chn].hop1)],
           h   |-> [h EXCEPT ![chn] = adapt_hop1(hop, @)], src_idx |-> d.src_idx + 1]

LHE_dequant(symbols, img, rows, cols, num_chn, mode) ==
  LET start == [img |-> img, h |-> [c \in 0 .. num_chn - 1 |-> NewHop1], src_idx |-> 1]
  IN Loop(LAMBDA d, k : DequantPixel(symbols, cols, mode, d, Raster(k, cols, num_chn)), start,
          rows * cols * num_chn).img

ToRgb(img) ==
  [p \in DOMAIN img |->
     yuv2rgb(<<img[<<p[1], p[2], 0>>], img[<<p[1], p[2], 1>>], img[<<p[1], p[2], 2>>]>>)[p[3] + 1]]

(* A block without chroma stays YUV, and so does one whose chroma is still *)
(* to be interpolated (codec_mode 1).                                      *)
lhe_decode_core(buffer, img, rows, cols, mode, codec_mode) ==
  LET num_chn == Channels(mode)
      symbols == inv_Huffman(buffer, get_num_of_symbs(rows, cols, mode), num_chn)
      yuv == LHE_dequant(symbols.dst, img, rows, cols, num_chn, mode)
  IN [img |-> IF num_chn = 3 /\ codec_mode # 1 THEN ToRgb(yuv) ELSE yuv,
      bytes_read |-> symbols.src_idx]
=============================================================================
