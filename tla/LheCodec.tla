------------------------------ MODULE LheCodec ------------------------------
(***************************************************************************)
(* lhe_codec.cc: an image to a .lhe file (lhe_encoder, in the generator of *)
(* mock video) and back (lhe_decoder, in the player), block by block with  *)
(* LheCodecCore.  Encoder and decoder are different programs: all that     *)
(* passes between them is the file.  What the decoder's block buffer holds *)
(* behind a block, another block or memory never written, is any bit.      *)
(*                                                                         *)
(* A block whose code is longer than its 13-bit length field can say makes *)
(* the decoder lose its step; the model ends there, in "undefined".        *)
(*                                                                         *)
(* Bounds: WidthUnit stands for the 16 pixels block widths are counted in, *)
(* LengthMod for the 8192 values of the 13-bit length field of a block.    *)
(***************************************************************************)
EXTENDS LheCodecCore

CONSTANTS
  Requests,    (* [mode, block_height, block_width, rows, cols] to encode  *)
  Images(_, _),(* rows, cols |-> images, functions <<row, col>> |-> colour *)
  WidthUnit, LengthMod

MAX_BLOCK_HEIGHT == 16

(* interpol_yuv440 writes the row below every even row.                    *)
ASSUME RequestAssumption ==
  \A r \in Requests :
    /\ r \in [mode : ChromaModes, block_height : Nat \ {0}, block_width : Nat, rows : Nat, cols : Nat]
    /\ Images(r.rows, r.cols) \subseteq [(0 .. r.rows - 1) \X (0 .. r.cols - 1) -> Byte \X Byte \X Byte]
    /\ r.mode = "yuv420" /\ r.block_height = 1 => r.rows % 2 = 0
ASSUME WidthAssumption == WidthUnit \in Nat \ {0} /\ WidthUnit % 2 = 0
ASSUME LengthAssumption == LengthMod \in Nat \ {0}

VARIABLES
  pc, request, source,
  blk,             (* blocks encoded, or decoded, so far                   *)
  file,            (* [header, blocks], a block [size, data]: its length   *)
                   (* field and the bits of its bytes                      *)
  lhe_block_data,  (* the decoder's buffer                                 *)
  dst_img,
  quantized,       (* what the encoder's predictions were made from, and   *)
  bytes_read       (* how far inv_Huffman read the buffer: of both history *)
vars == <<pc, request, source, blk, file, lhe_block_data, dst_img, quantized, bytes_read>>
askVars == <<request, source>>
decoderVars == <<lhe_block_data, dst_img, bytes_read>>

Init ==
  /\ request \in Requests /\ source \in Images(request.rows, request.cols)
  /\ pc = "start" /\ blk = 0 /\ file = <<>> /\ lhe_block_data = <<>>
  /\ dst_img = <<>> /\ quantized = <<>> /\ bytes_read = 0

(* The block with the given number of an image, and an image with it.      *)
Place(n, height, width, cols, at) ==
  LET per_row == cols \div width
  IN <<(n \div per_row) * height + at[1], (n % per_row) * width + at[2], at[3]>>
Put(img, n, height, width, cols, block) ==
  LET Placed(at) == Place(n, height, width, cols, at)
  IN [p \in DOMAIN img |-> IF \E at \in DOMAIN block : Placed(at) = p
                           THEN block[CHOOSE at \in DOMAIN block : Placed(at) = p] ELSE img[p]]

(***************************************************************************)
(* lhe_encoder                                                             *)
(***************************************************************************)
Accepted(r) ==
  /\ r.block_height <= MAX_BLOCK_HEIGHT
  /\ r.block_width >= 1 /\ r.block_width % WidthUnit = 0
  /\ r.rows % r.block_height = 0 /\ r.cols % r.block_width = 0

RefuseImage ==
  /\ pc = "start" /\ ~ Accepted(request) /\ pc' = "refused"
  /\ UNCHANGED <<askVars, blk, file, decoderVars, quantized>>

WriteHeader ==
  LET r == request
  IN [profile    |-> r.mode,
      blk_height |-> (r.block_height - 1) % 256,
      blk_width  |-> ((r.block_width \div WidthUnit) - 1) % 256,
      img_height |-> (r.rows \div r.block_height) % 65536,
      img_width  |-> (r.cols \div r.block_width) % 65536]

(* The fields of the file's header hold what is asked; nothing in          *)
(* lhe_encoder sees to that.  Of the lengths of blocks this says nothing.  *)
HeaderFits ==
  \A r \in Requests : Accepted(r) =>
    /\ r.block_width \div WidthUnit <= 256
    /\ r.rows \div r.block_height < 65536 /\ r.cols \div r.block_width < 65536

StartEncoder ==
  /\ pc = "start" /\ Accepted(request) /\ pc' = "encode"
  /\ file' = [header |-> WriteHeader, blocks |-> <<>>]
  /\ quantized' = [p \in Pixels(request.rows, request.cols, Channels(request.mode)) |-> Unset]
  /\ UNCHANGED <<askVars, blk, decoderVars>>

(* One-line blocks of YUV 4:2:0 cannot leave out every second row, so      *)
(* every second block is without chroma.                                   *)
BlockMode(r, n) ==
  IF r.block_height = 1 /\ r.mode = "yuv420"
  THEN IF (n \div (r.cols \div r.block_width)) % 2 # 0 THEN "gray" ELSE "yuv422"
  ELSE r.mode

(* The block's header, its length in bytes in 13 bits, and its data.      *)
Stored(data) == [size |-> (Len(data) \div 8) % LengthMod, data |-> data]

EncodeBlock ==
  LET r == request
      Pixel(at) == Place(blk, r.block_height, r.block_width, r.cols, at)
      block == [at \in (0 .. r.block_height - 1) \X (0 .. r.block_width - 1) |->
                  LET p == Pixel(<<at[1], at[2], 0>>) IN source[<<p[1], p[2]>>]]
      coded == lhe_encode_core(block, r.block_height, r.block_width, BlockMode(r, blk))
  IN /\ pc = "encode" /\ blk < file.header.img_height * file.header.img_width
     /\ file' = [file EXCEPT !.blocks = Append(@, Stored(coded.data))]
     /\ quantized' = Put(quantized, blk, r.block_height, r.block_width, r.cols, coded.img)
     /\ blk' = blk + 1
     /\ UNCHANGED <<pc, askVars, decoderVars>>

(***************************************************************************)
(* lhe_decoder                                                             *)
(***************************************************************************)
BlockHeight == file.header.blk_height + 1
BlockWidth  == (file.header.blk_width + 1) * WidthUnit
Cols        == file.header.img_width * BlockWidth
Rows        == file.header.img_height * BlockHeight
BufferBytes == BlockHeight * BlockWidth * 3
OneLine420  == file.header.profile = "yuv420" /\ BlockHeight = 1

StartDecoder ==
  /\ pc = "encode" /\ blk = file.header.img_height * file.header.img_width
  /\ pc' = "decode" /\ blk' = 0
  /\ \E bit \in {0, 1} : lhe_block_data' = [i \in 1 .. 8 * BufferBytes |-> bit]
  /\ dst_img' = [p \in Pixels(Rows, Cols, Channels(file.header.profile)) |-> 0]
  /\ UNCHANGED <<askVars, file, quantized, bytes_read>>

DecoderMode(n) ==
  IF OneLine420 /\ (n \div file.header.img_width) % 2 # 0 THEN "gray" ELSE file.header.profile

InStep == 8 * file.blocks[blk + 1].size = Len(file.blocks[blk + 1].data)

DecodeBlock ==
  LET data == file.blocks[blk + 1].data
      buffer == data \o SubSeq(lhe_block_data, Len(data) + 1, Len(lhe_block_data))
      img == [at \in Pixels(BlockHeight, BlockWidth, Channels(file.header.profile)) |->
                dst_img[Place(blk, BlockHeight, BlockWidth, Cols, at)]]
      decoded == lhe_decode_core(buffer, img, BlockHeight, BlockWidth, DecoderMode(blk),
                                 IF OneLine420 THEN 1 ELSE 0)
  IN /\ pc = "decode" /\ blk < file.header.img_height * file.header.img_width /\ InStep
     /\ lhe_block_data' = buffer /\ bytes_read' = decoded.bytes_read
     /\ dst_img' = Put(dst_img, blk, BlockHeight, BlockWidth, Cols, decoded.img)
     /\ blk' = blk + 1
     /\ UNCHANGED <<pc, askVars, file, quantized>>

(* The length was cut: fewer bytes are read than the block has, and the    *)
(* next block's header is taken from the middle of its data.               *)
LoseStep ==
  /\ pc = "decode" /\ blk < file.header.img_height * file.header.img_width /\ ~ InStep
  /\ pc' = "undefined"
  /\ UNCHANGED <<askVars, blk, file, decoderVars, quantized>>

(* Mutant: the lines without chroma are left as they were decoded.         *)
Mutant_interpol_yuv440(img) == img

interpol_yuv440(img) ==
  [p \in DOMAIN img |-> IF p[3] > 0 THEN img[<<p[1] - (p[1] % 2), p[2], p[3]>>] ELSE img[p]]

EndDecoder ==
  /\ pc = "decode" /\ blk = file.header.img_height * file.header.img_width
  /\ pc' = "done"
  /\ dst_img' = IF OneLine420 THEN ToRgb(interpol_yuv440(dst_img)) ELSE dst_img
  /\ UNCHANGED <<askVars, blk, file, lhe_block_data, quantized, bytes_read>>

Next == \/ RefuseImage \/ StartEncoder \/ EncodeBlock
        \/ StartDecoder \/ DecodeBlock \/ LoseStep \/ EndDecoder
Spec == Init /\ [][Next]_vars

(***************************************************************************)
(* Properties                                                              *)
(***************************************************************************)

(* Every channel of the decoded image is a byte, of the encoder's image a  *)
(* byte or not coded, and the file is made of whole bytes.                 *)
TypeOK ==
  /\ pc \in {"start", "refused", "encode", "decode", "done", "undefined"} /\ blk \in Nat
  /\ \A p \in DOMAIN dst_img : dst_img[p] \in Byte
  /\ \A p \in DOMAIN quantized : quantized[p] = Unset \/ quantized[p] \in Byte
  /\ file # <<>> => \A b \in Range(file.blocks) :
       b.data \in Seq({0, 1}) /\ Len(b.data) % 8 = 0 /\ b.size \in 0 .. LengthMod - 1

(* Decoder and encoder stay in step: what the player shows is the image    *)
(* the encoder made its predictions from (LHEquantizer's quantized_img),   *)
(* chroma that was not coded taken from the coded pixel of its block above *)
(* and to the left, or of the line above when blocks are of one line, in   *)
(* every chroma mode and for every size of block, as long as no block's    *)
(* code is longer than its length field can say (LoseStep); a symbol       *)
(* misread, a hop1 not reset, a prediction from another pixel or one       *)
(* colour conversion too many or too few would show.                       *)
ShownIsQuantized ==
  pc = "done" =>
    LET mode == request.mode
        lines == IF request.block_height = 1 THEN 2 ELSE request.block_height
        Kept(r, c, chn) == quantized[<<r - ((r % lines) % JumpY(mode, chn)), c - (c % JumpX(mode, chn)), chn>>]
    IN \A p \in Pixels(request.rows, request.cols, Channels(mode)) :
         dst_img[p] = IF mode = "gray" THEN quantized[p]
                      ELSE yuv2rgb(<<Kept(p[1], p[2], 0), Kept(p[1], p[2], 1), Kept(p[1], p[2], 2)>>)[p[3] + 1]

(* Whatever the image, a block fits the buffer lhe_decoder gives it and    *)
(* inv_Huffman, which reads ahead without a look at the length, does not   *)
(* leave that buffer ("can have problems in super small images").          *)
BufferHolds ==
  pc \in {"decode", "done", "undefined"} =>
    /\ \A b \in Range(file.blocks) : Len(b.data) <= 8 * BufferBytes
    /\ bytes_read <= BufferBytes

(* A length is only ever cut of a block that with a byte for each channel  *)
(* of each pixel would not fit the field: 16 lines of 176 pixels or more.  *)
LengthsHold == pc = "undefined" => BufferBytes >= LengthMod

(* Together: no value, block or read is outside its bounds, and no length  *)
(* of a block that could not be.                                           *)
WithinBounds == TypeOK /\ BufferHolds /\ LengthsHold

(* An image of one colour whose file is decoded in step comes back, but    *)
(* for the rounding of the colour conversions: nothing is lost to          *)
(* quantization or decimation.                                             *)
PlainImageSurvives ==
  (pc = "done" /\ request.mode # "gray" /\ Cardinality(Range(source)) = 1) =>
    \A p \in DOMAIN dst_img :
      LET sent == source[<<p[1], p[2]>>][p[3] + 1]
      IN dst_img[p] - sent \in -2 .. 2
=============================================================================
