---------------------------- MODULE PacketStream ----------------------------
(***************************************************************************)
(* What the transmitter promises the receivers: the packets it hands to    *)
(* the network, in order.  Every packet is a run of blocks of one frame;   *)
(* the runs tile the frame; the one that ends it has the marker bit; the   *)
(* frames come in order, each with a timestamp of its own; the sequence    *)
(* numbers are consecutive.  A file can be given up between two packets    *)
(* (a block too big to send), the whole stream can end at any point.       *)
(*                                                                         *)
(* sizes[f][g] is the number of blocks of frame g of file f.  LheSender    *)
(* implements this specification; FileStream uses it as its source.        *)
(***************************************************************************)
EXTENDS Integers, Sequences

CONSTANTS SizeSets,       \* the directories: sequences of sequences of sizes
          FirstSeqs,      \* values of the first sequence number
          MaxBlocks,      \* blocks per packet
          TsMod           \* 2^32

VARIABLES sizes, stream
streamVars == <<sizes, stream>>

FileTs  == 3000           \* timestamp step between files
FrameTs == 818            \* timestamp step between frames of a file
TsOf(f, g) == ((f - 1) * FileTs + (g - 1) * FrameTs) % TsMod

StreamInit == sizes \in SizeSets /\ stream = <<>>

Newest == stream[Len(stream)]
Ended(p) == p.fb + p.n = sizes[p.file][p.frame]

(* Where the next packet may start: the first frame, the rest of a frame,  *)
(* the next frame of the file, the next file.                              *)
Starts(f, g, b) ==
  IF stream = <<>> THEN f = 1 /\ g = 1 /\ b = 0
  ELSE \/ ~Ended(Newest) /\ f = Newest.file /\ g = Newest.frame
          /\ b = Newest.fb + Newest.n
       \/ Ended(Newest) /\ f = Newest.file /\ g = Newest.frame + 1 /\ b = 0
       \/ f = Newest.file + 1 /\ g = 1 /\ b = 0

PacketAt(seq, f, g, b, n) ==
  [seq |-> seq, ts |-> TsOf(f, g), m |-> IF b + n = sizes[f][g] THEN 1 ELSE 0,
   file |-> f, frame |-> g, fb |-> b, n |-> n]

NextSeqs == IF stream = <<>> THEN FirstSeqs
                             ELSE {(Newest.seq + 1) % 65536}

Emit ==
  /\ \E f \in DOMAIN sizes : \E g \in DOMAIN sizes[f] :
       \E b \in 0 .. sizes[f][g] - 1 :
         /\ Starts(f, g, b)
         /\ \E n \in 1 .. MaxBlocks, seq \in NextSeqs :
              /\ b + n <= sizes[f][g]
              /\ stream' = Append(stream, PacketAt(seq, f, g, b, n))
  /\ UNCHANGED sizes

StreamSpec == StreamInit /\ [][Emit]_streamVars
=============================================================================
