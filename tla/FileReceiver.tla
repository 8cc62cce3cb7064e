---------------------------- MODULE FileReceiver ----------------------------
(***************************************************************************)
(* LHE_receiver2 (LHE_receiver.c): receives RTP packets and writes one     *)
(* file per frame.  Blocks are collected in the write buffer bf_w, one row *)
(* per block of the image; the frame is dispatched, that is, its rows are  *)
(* written to the file out_path, on the packet with the marker bit, on the *)
(* first packet of the next frame when that marker was lost, or when       *)
(* SIGINT comes in the middle of a frame.  bf_w is a local array that is   *)
(* neither initialised nor cleared between frames.                         *)
(*                                                                         *)
(* pc: "test" (the while condition), "call" (about to call recvfrom),      *)
(* "recv" (inside it), "got" (it returned), "out" (after the loop).        *)
(***************************************************************************)
EXTENDS RtpAccounting, Sequences

CONSTANT U64_MOD        \* 2^64

TS_MAX == 65535      (* LHE_receiver.c; what a timestamp restart is taken for *)

ASSUME ReceiverAssumption ==
  /\ U64_MOD \in Nat \ {0}
  /\ Garbage \notin [img : Images, id : 0 .. IMAGE_BSIZE_MAX - 1]

VARIABLES
  first,             (* the next packet is the first one of a frame        *)
  ts_current,        (* timestamp of the frame in bf_w                     *)
  ts_aux,            (* sum of the timestamp steps: the name of its file   *)
  bf_w,
  written,           (* history: the files, in the order they are written  *)
  frames_received, total_blocks, packets_received, blocks_received,
  packets_dropped, blocks_dropped, blocks_lost,
  pkt,               (* content of the reception buffer                    *)
  received,          (* recvfrom returned a packet, not -1                 *)
  stop, pc

frameVars == <<first, ts_current, ts_aux, bf_w, written>>
statVars  == <<frames_received, total_blocks, packets_received,
               blocks_received, packets_dropped, blocks_dropped, blocks_lost>>
recvVars  == <<pkt, received>>
receiverVars == <<accountVars, frameVars, statVars, recvVars, stop, pc>>

Rows == 0 .. IMAGE_BSIZE_MAX - 1

ReceiverInit ==
  /\ AccountInit
  /\ first = TRUE /\ ts_current = 0 /\ ts_aux = 0
  /\ bf_w = [k \in Rows |-> Garbage] /\ written = <<>>
  /\ frames_received = 0 /\ total_blocks = 0 /\ packets_received = 0
  /\ blocks_received = 0 /\ packets_dropped = 0 /\ blocks_dropped = 0
  /\ blocks_lost = 0
  /\ pkt = NoPacket /\ received = FALSE /\ stop = FALSE /\ pc = "test"

-----------------------------------------------------------------------------
(* The loop around recvfrom                                                *)

Mutant_LoopOver == stop /\ first               \* stops between frames only
LoopOver == stop

(* Leaving the loop by its condition: the statistics are worked out.       *)
TestStop ==
  /\ pc = "test"
  /\ IF LoopOver
     THEN /\ blocks_lost' = (total_blocks - blocks_received) % U64_MOD
          /\ total_blocks' = IF total_blocks = 0 THEN 1 ELSE total_blocks
          /\ pc' = "out"
     ELSE pc' = "call" /\ UNCHANGED <<blocks_lost, total_blocks>>
  /\ UNCHANGED <<accountVars, frameVars, frames_received, packets_received,
                 blocks_received, packets_dropped, blocks_dropped, recvVars,
                 stop>>

EnterRecv ==
  /\ pc = "call"
  /\ pc' = "recv"
  /\ received' = FALSE
  /\ UNCHANGED <<accountVars, frameVars, statVars, pkt, stop>>

Deliver(p) ==
  /\ pc = "recv"
  /\ pkt' = p /\ received' = TRUE
  /\ pc' = "got"
  /\ UNCHANGED <<accountVars, frameVars, statVars, stop>>

(* The handler; recvfrom, when it is waiting, fails with EINTR.            *)
SigInt ==
  /\ pc # "out"
  /\ stop' = TRUE
  /\ blocks_lost' = (total_blocks - blocks_received) % U64_MOD
  /\ total_blocks' = IF total_blocks = 0 THEN 1 ELSE total_blocks
  /\ pc' = IF pc = "recv" THEN "got" ELSE pc
  /\ UNCHANGED <<accountVars, frameVars, frames_received, packets_received,
                 blocks_received, packets_dropped, blocks_dropped, recvVars>>

-----------------------------------------------------------------------------
(* What is done with the packet, or without one                            *)

(* A frame is dispatched under the header in the reception buffer.         *)
File(name, p, rows) ==
  [name |-> name, img |-> p.img, rows |-> [k \in 0 .. p.im - 1 |-> rows[k]]]

Mutant_InFrame == stop /\ ~first /\ ~received  \* a packet came: handle it first
InFrame == stop /\ ~first

(* SIGINT in the middle of a frame: what there is of it is dispatched.     *)
DispatchAndStop ==
  /\ pc = "got" /\ InFrame
  /\ written' = Append(written, File(ts_aux, pkt, bf_w))
  /\ frames_received' = (frames_received + 1) % SEQ_MOD
  /\ total_blocks' = total_blocks + pkt.im
  /\ blocks_lost' = (total_blocks' - blocks_received) % U64_MOD
  /\ pc' = "out"
  /\ UNCHANGED <<accountVars, first, ts_current, ts_aux, bf_w,
                 packets_received, blocks_received, packets_dropped,
                 blocks_dropped, recvVars, stop>>

RecvFailed ==
  /\ pc = "got" /\ ~InFrame /\ ~received
  /\ pc' = "test"
  /\ UNCHANGED <<accountVars, frameVars, statVars, recvVars, stop>>

Mutant_OtherFrameNever(p) == FALSE             \* frames told apart by M only
OtherFrame(p) == ~first /\ p.ts # ts_current
(* current_seqnum is, before the step, the code's previous_seqnum.         *)
PriorFrame(p) == OtherFrame(p) /\ p.seq < current_seqnum
NextFrame(p) == OtherFrame(p) /\ ~PriorFrame(p)

DropLate ==
  /\ pc = "got" /\ ~InFrame /\ received /\ PriorFrame(pkt)
  /\ Account(pkt.seq, pkt.ssrc)
  /\ packets_dropped' = packets_dropped + 1
  /\ blocks_dropped' = blocks_dropped + pkt.n
  /\ pc' = "test"
  /\ UNCHANGED <<frameVars, frames_received, total_blocks, packets_received,
                 blocks_received, blocks_lost, recvVars, stop>>

Mutant_TsStep(ts) == ts - ts_current           \* goes back with the timestamp
TsStep(ts) == IF ts >= ts_current THEN ts - ts_current
                                  ELSE ((TS_MAX - ts_current) + ts) % TS_MOD

(* Dispatching a frame on the first packet of the next one sets that       *)
(* packet's own block count to 0 (the file header wants it so) before its  *)
(* blocks are copied.                                                      *)
BlocksInPaq(p) == IF NextFrame(p) THEN 0 ELSE p.n

Mutant_CopyBlocksShort(p) ==                   \* the last block is left out
  [k \in Rows |-> IF k \in p.fb .. p.fb + BlocksInPaq(p) - 2
                  THEN [img |-> p.img, id |-> k] ELSE bf_w[k]]
CopyBlocks(p) ==
  [k \in Rows |-> IF k \in p.fb .. p.fb + BlocksInPaq(p) - 1
                  THEN [img |-> p.img, id |-> k] ELSE bf_w[k]]

(* The files written before the packet's blocks are looked at, and how     *)
(* many frames are dispatched in all.                                      *)
Mutant_Closed(p) == written                    \* unfinished frame forgotten
Closed(p) == IF NextFrame(p) THEN Append(written, File(ts_aux, p, bf_w))
                             ELSE written
Mutant_Dispatched(p) == p.m                    \* unfinished frame not counted
Dispatched(p) == (IF NextFrame(p) THEN 1 ELSE 0) + p.m

Accept ==
  /\ pc = "got" /\ ~InFrame /\ received /\ ~PriorFrame(pkt)
  /\ Account(pkt.seq, pkt.ssrc)
  /\ LET opens == first \/ NextFrame(pkt)
     IN  /\ ts_current' = IF opens THEN pkt.ts ELSE ts_current
         /\ ts_aux' = IF opens THEN ts_aux + TsStep(pkt.ts) ELSE ts_aux
  /\ bf_w' = CopyBlocks(pkt)
  /\ written' = IF pkt.m = 1 THEN Append(Closed(pkt), File(ts_aux', pkt, bf_w'))
                             ELSE Closed(pkt)
  /\ frames_received' = (frames_received + Dispatched(pkt)) % SEQ_MOD
  /\ total_blocks' = total_blocks + Dispatched(pkt) * pkt.im
  /\ first' = (pkt.m = 1)
  /\ packets_received' = packets_received + 1
  /\ blocks_received' = blocks_received + BlocksInPaq(pkt)
  /\ pc' = "test"
  /\ UNCHANGED <<packets_dropped, blocks_dropped, blocks_lost, recvVars, stop>>

Work == \/ TestStop \/ EnterRecv \/ DispatchAndStop \/ RecvFailed
        \/ DropLate \/ Accept
ReceiverNext == Work \/ SigInt \/ \E p \in Packets : Deliver(p)
ReceiverSpec == ReceiverInit /\ [][ReceiverNext]_receiverVars

-----------------------------------------------------------------------------
(* Properties                                                              *)

Content == [img : Images, id : Rows] \cup {Garbage}
Files == [name : Nat, img : Images,
          rows : UNION {[0 .. m - 1 -> Content] : m \in 1 .. IMAGE_BSIZE_MAX}]

(* The values the receiver's variables range over.                         *)
ReceiverTypeOK ==
  /\ AccountTypeOK
  /\ first \in BOOLEAN /\ ts_current \in 0 .. TS_MOD - 1 /\ ts_aux \in Nat
  /\ bf_w \in [Rows -> Content]
  /\ written \in Seq(Files)
  /\ \A k \in DOMAIN written : written[k].name <= ts_aux
  /\ frames_received \in 0 .. SEQ_MOD - 1
  /\ total_blocks \in Nat /\ packets_received \in Nat /\ blocks_received \in Nat
  /\ packets_dropped \in Nat /\ blocks_dropped \in Nat
  /\ blocks_lost \in 0 .. U64_MOD - 1
  /\ pkt \in Packets \cup {NoPacket} /\ received \in BOOLEAN
  /\ stop \in BOOLEAN /\ pc \in {"test", "call", "recv", "got", "out"}

(* File names never go backwards, even when a late packet of a finished    *)
(* frame opens that frame again: whoever plays the files by name plays     *)
(* them in the order they were written.                                    *)
NamesInOrder ==
  \A f \in 1 .. Len(written) - 1 : written[f].name <= written[f + 1].name
=============================================================================
