---------------------------- MODULE PipeReceiver ----------------------------
(***************************************************************************)
(* LHE_receiver3 (LHE_receiver.c): receives RTP packets and writes their   *)
(* blocks to a named pipe as they come: for every frame a header, then for *)
(* every block its header, its number and its bytes, then a block header   *)
(* of length 0.  Each write is a step: it may wait for the player, SIGINT  *)
(* may come before or in it, and the player may have closed the pipe.      *)
(*                                                                         *)
(* pc: "test" (the while condition), "call" (about to call recvfrom),      *)
(* "recv" (inside it), "got" (it returned); the write that comes next:     *)
(* "end", "header", "block", "number", "data", "marker"; "out" (after the  *)
(* loop), "failed" (returned -1), "killed" (by SIGPIPE).                   *)
(***************************************************************************)
EXTENDS RtpAccounting, Fifo

CONSTANT U64_MOD     \* 2^64

ASSUME PipeAssumption == U64_MOD \in Nat \ {0}

VARIABLES
  first,             (* the next packet is the first one of a frame        *)
  ts_current,        (* timestamp of the frame being written               *)
  done,              (* blocks of the packet already written               *)
  piped,             (* history: everything written                        *)
  frames_received, total_blocks, packets_received, blocks_received,
  packets_dropped, blocks_dropped, blocks_lost,
  pkt, received, stop, pc

frameVars == <<first, ts_current, done>>
pipeVars  == <<piped, fifoVars>>
statVars  == <<frames_received, total_blocks, packets_received,
               blocks_received, packets_dropped, blocks_dropped, blocks_lost>>
recvVars  == <<pkt, received>>
receiverVars == <<accountVars, frameVars, piped, statVars, recvVars, stop, pc>>

Writes == {"end", "header", "block", "number", "data", "marker"}
Left   == {"out", "failed", "killed"}

ReceiverInit ==
  /\ AccountInit
  /\ first = TRUE /\ ts_current = 0 /\ done = 0 /\ piped = <<>>
  /\ frames_received = 0 /\ total_blocks = 0 /\ packets_received = 0
  /\ blocks_received = 0 /\ packets_dropped = 0 /\ blocks_dropped = 0
  /\ blocks_lost = 0
  /\ pkt = NoPacket /\ received = FALSE /\ stop = FALSE /\ pc = "test"

BlockNumber == pkt.fb + done
Mutant_MoreBlocks == done + 1 < pkt.n          \* the last block is left out
MoreBlocks == done < pkt.n

(* The next step writes something.  (A write of no bytes does nothing.)     *)
NoData == [img |-> pkt.img, id |-> BlockNumber] \in EmptyBlocks
Writing == /\ pc \in Writes
           /\ pc = "block" => MoreBlocks
           /\ pc = "data" => ~NoData

(* However the receiver ends, its end of the pipe is closed: at the end of *)
(* the function or, when it returns -1, at the end of the process.         *)
Leave(where) == /\ pc' = where
                /\ writer' = FALSE
                /\ UNCHANGED <<fifo, reader>>

-----------------------------------------------------------------------------
(* The loop around recvfrom                                                *)

TestStop ==
  /\ pc = "test"
  /\ \/ /\ stop
        /\ blocks_lost' = (total_blocks - blocks_received) % U64_MOD
        /\ total_blocks' = IF total_blocks = 0 THEN 1 ELSE total_blocks
        /\ Leave("out")
     \/ /\ ~stop
        /\ pc' = "call"
        /\ UNCHANGED <<fifoVars, blocks_lost, total_blocks>>
  /\ UNCHANGED <<accountVars, frameVars, piped, frames_received,
                 packets_received, blocks_received, packets_dropped,
                 blocks_dropped, recvVars, stop>>

EnterRecv ==
  /\ pc = "call"
  /\ pc' = "recv" /\ received' = FALSE
  /\ UNCHANGED <<accountVars, frameVars, pipeVars, statVars, pkt, stop>>

Deliver(p) ==
  /\ pc = "recv"
  /\ pkt' = p /\ received' = TRUE /\ pc' = "got"
  /\ UNCHANGED <<accountVars, frameVars, pipeVars, statVars, stop>>

(* The handler.  recvfrom, when it is waiting, fails with EINTR, and so    *)
(* does a write that waits for room in the pipe; but a write that was not  *)
(* yet called goes on to wait.                                             *)
SigInt ==
  /\ pc \notin Left
  /\ stop' = TRUE
  /\ blocks_lost' = (total_blocks - blocks_received) % U64_MOD
  /\ total_blocks' = IF total_blocks = 0 THEN 1 ELSE total_blocks
  /\ \/ pc' = (IF pc = "recv" THEN "got" ELSE pc) /\ UNCHANGED fifoVars
     \/ Writing /\ IsFull /\ reader /\ Leave("failed")
  /\ UNCHANGED <<accountVars, frameVars, piped, frames_received,
                 packets_received, blocks_received, packets_dropped,
                 blocks_dropped, recvVars>>

-----------------------------------------------------------------------------
(* What is done with the packet, or without one                            *)

InFrame == stop /\ ~first

(* SIGINT in the middle of a frame: it is counted, and left without an end.*)
StopInFrame ==
  /\ pc = "got" /\ InFrame
  /\ frames_received' = (frames_received + 1) % SEQ_MOD
  /\ total_blocks' = total_blocks + pkt.im
  /\ blocks_lost' = (total_blocks' - blocks_received) % U64_MOD
  /\ Leave("out")
  /\ UNCHANGED <<accountVars, frameVars, piped, packets_received,
                 blocks_received, packets_dropped, blocks_dropped, recvVars,
                 stop>>

(* SIGINT between two frames: recvfrom failed.                             *)
RecvFailed ==
  /\ pc = "got" /\ ~InFrame /\ ~received
  /\ Leave("failed")
  /\ UNCHANGED <<accountVars, frameVars, piped, statVars, recvVars, stop>>

Mutant_OtherFrame(p) == FALSE                  \* frames told apart by M only
OtherFrame(p) == ~first /\ p.ts # ts_current
PriorFrame(p) == OtherFrame(p) /\ p.seq < current_seqnum
NextFrame(p)  == OtherFrame(p) /\ ~PriorFrame(p)

DropLate ==
  /\ pc = "got" /\ ~InFrame /\ received /\ PriorFrame(pkt)
  /\ Account(pkt.seq, pkt.ssrc)
  /\ packets_dropped' = packets_dropped + 1
  /\ blocks_dropped' = blocks_dropped + pkt.n
  /\ pc' = "test"
  /\ UNCHANGED <<frameVars, pipeVars, frames_received, total_blocks,
                 packets_received, blocks_received, blocks_lost, recvVars,
                 stop>>

(* One frame more, closed under the header in the reception buffer.        *)
CountFrame ==
  /\ frames_received' = (frames_received + 1) % SEQ_MOD
  /\ total_blocks' = total_blocks + pkt.im
  /\ UNCHANGED <<packets_received, blocks_received, packets_dropped,
                 blocks_dropped, blocks_lost>>

(* A packet of the frame being written, or of the next one.                *)
Accept ==
  /\ pc = "got" /\ ~InFrame /\ received /\ ~PriorFrame(pkt)
  /\ Account(pkt.seq, pkt.ssrc)
  /\ \/ NextFrame(pkt) /\ CountFrame /\ pc' = "end"
     \/ /\ ~NextFrame(pkt) /\ UNCHANGED statVars
        /\ pc' = IF first THEN "header" ELSE "block"
  /\ done' = 0
  /\ UNCHANGED <<first, ts_current, pipeVars, recvVars, stop>>

-----------------------------------------------------------------------------
(* The writes                                                              *)

Write(t) == /\ Put(t) /\ piped' = Append(piped, t)
            /\ UNCHANGED <<writer, reader>>

(* The frame whose marker was lost ends; the packet opens the next one.    *)
FirstAfterEnd == TRUE
WriteEnd ==
  /\ pc = "end"
  /\ Write(EndOfFrame)
  /\ first' = FirstAfterEnd
  /\ pc' = IF first' THEN "header" ELSE "block"
  /\ UNCHANGED <<accountVars, ts_current, done, statVars, recvVars, stop>>

WriteHeader ==
  /\ pc = "header"
  /\ Write(Token("header", pkt, pkt.im))
  /\ ts_current' = pkt.ts /\ first' = FALSE
  /\ pc' = "block"
  /\ UNCHANGED <<accountVars, done, statVars, recvVars, stop>>

WriteBlock ==
  /\ pc = "block" /\ MoreBlocks
  /\ Write(Token("block", pkt, BlockNumber))
  /\ pc' = "number"
  /\ UNCHANGED <<accountVars, frameVars, statVars, recvVars, stop>>

WriteNumber ==
  /\ pc = "number"
  /\ Write(Token("number", pkt, BlockNumber))
  /\ pc' = "data"
  /\ UNCHANGED <<accountVars, frameVars, statVars, recvVars, stop>>

WriteData ==
  /\ pc = "data"
  /\ IF NoData THEN UNCHANGED pipeVars
               ELSE Write(Token("data", pkt, BlockNumber))
  /\ done' = done + 1
  /\ pc' = "block"
  /\ UNCHANGED <<accountVars, first, ts_current, statVars, recvVars, stop>>

(* All blocks of the packet are written; the marker closes the frame.      *)
Mutant_ClosesFrame(p) == FALSE                 \* closed by the next frame only
ClosesFrame(p) == p.m = 1
EndPacket ==
  /\ pc = "block" /\ ~MoreBlocks
  /\ packets_received' = packets_received + 1
  /\ blocks_received' = blocks_received + pkt.n
  /\ IF ClosesFrame(pkt)
     THEN /\ frames_received' = (frames_received + 1) % SEQ_MOD
          /\ total_blocks' = total_blocks + pkt.im
          /\ pc' = "marker"
     ELSE pc' = "test" /\ UNCHANGED <<frames_received, total_blocks>>
  /\ UNCHANGED <<accountVars, frameVars, pipeVars, packets_dropped,
                 blocks_dropped, blocks_lost, recvVars, stop>>

WriteMarker ==
  /\ pc = "marker"
  /\ Write(EndOfFrame)
  /\ first' = TRUE
  /\ pc' = "test"
  /\ UNCHANGED <<accountVars, ts_current, done, statVars, recvVars, stop>>

(* Writing to a pipe nobody reads: SIGPIPE, which nothing catches.         *)
WriteBroken ==
  /\ Writing /\ ~reader
  /\ Leave("killed")
  /\ UNCHANGED <<accountVars, frameVars, piped, statVars, recvVars, stop>>

Work == \/ TestStop \/ EnterRecv \/ StopInFrame \/ RecvFailed \/ DropLate
        \/ Accept \/ WriteEnd \/ WriteHeader \/ WriteBlock \/ WriteNumber
        \/ WriteData \/ EndPacket \/ WriteMarker \/ WriteBroken

(* Any network, any reader: what is in the pipe may be taken out, and the  *)
(* reader may leave.                                                       *)
Reading == /\ Take \/ UNCHANGED fifo
           /\ reader' \in {reader, FALSE}
           /\ UNCHANGED <<receiverVars, writer>>

PipeNext == Work \/ SigInt \/ (\E p \in Packets : Deliver(p)) \/ Reading
PipeSpec == ReceiverInit /\ FifoInit /\ [][PipeNext]_<<receiverVars, fifoVars>>

-----------------------------------------------------------------------------
(* Properties                                                              *)

(* The values the receiver's variables range over.                         *)
NumbersOK ==
  /\ frames_received \in 0 .. SEQ_MOD - 1 /\ blocks_lost \in 0 .. U64_MOD - 1
  /\ total_blocks \in Nat /\ packets_received \in Nat /\ blocks_received \in Nat
  /\ packets_dropped \in Nat /\ blocks_dropped \in Nat
PipeOK ==
  /\ piped \in Seq(Tokens) /\ fifo \in Seq(Tokens) /\ Len(fifo) <= FIFO_SIZE
  /\ writer \in BOOLEAN /\ reader \in BOOLEAN
ControlOK ==
  /\ first \in BOOLEAN /\ ts_current \in 0 .. TS_MOD - 1 /\ done \in Nat
  /\ pkt \in Packets \cup {NoPacket} /\ received \in BOOLEAN
  /\ stop \in BOOLEAN
  /\ pc \in {"test", "call", "recv", "got"} \cup Writes \cup Left
PipeTypeOK == AccountTypeOK /\ NumbersOK /\ PipeOK /\ ControlOK

(* The token that may follow s in the pipe: frame after frame a header,    *)
(* whole blocks, an end, and nothing of another frame in between.          *)
BlockDone(s) == \/ s.kind \in {"header", "data"}
                \/ s.kind = "number" /\ BlockOf(s) \in EmptyBlocks
Follows(s, t) ==
  \/ s.kind = "end" /\ t.kind = "header"
  \/ BlockDone(s) /\ t.kind = "block" /\ t.ts = s.ts
  \/ BlockDone(s) /\ t.kind = "end"
  \/ /\ <<s.kind, t.kind>> \in {<<"block", "number">>, <<"number", "data">>}
     /\ t = [s EXCEPT !.kind = t.kind]

(* Whatever packets arrive and wherever the writer is interrupted, what is *)
(* in the pipe can be told apart again: it has no lengths, no             *)
(* synchronisation marks and no timestamps of its own.                     *)
PipeGrammar ==
  /\ piped # <<>> => piped[1].kind = "header"
  /\ \A k \in 1 .. Len(piped) - 1 : Follows(piped[k], piped[k + 1])
=============================================================================
