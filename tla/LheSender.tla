----------------------------- MODULE LheSender -----------------------------
(***************************************************************************)
(* The directory transmitter: LHE_send_dir (LHEpack.c) hands the files of  *)
(* a directory, one after the other, to LHE_sender (LHE_sender.c), which   *)
(* cuts every frame of a file into chunks of blocks and sends each chunk   *)
(* as one RTP packet.  SIGINT arrives at any moment and is caught by the   *)
(* handler installed last: LHEpack.c's until LHE_sender is called for the  *)
(* first time, LHE_sender.c's from then on.  Each file has its own "stop". *)
(*                                                                         *)
(* A frame is the sequence of the lengths of its blocks: no decision of    *)
(* the transmitter looks at anything else.  pc names the point of the code *)
(* reached: "dir" (head of LHE_send_dir's loop), "call" (file read, sender *)
(* not yet called), "loop" (head of LHE_sender's loop), "chunk" (its       *)
(* for-loop), "sent"/"failed" (send() has returned), "return" (after the   *)
(* loop), "back" (in LHE_send_dir again), "done", "exited".                *)
(***************************************************************************)
EXTENDS Integers, Sequences

CONSTANTS
  Videos,                (* directories: sequences of files of frames      *)
  InitialSeqs,           (* values rand() may give initial_seq_num         *)
  MaxChunk,              (* max_chunk_size, option --max-chunk-size        *)
  MAX_BLOCKS_PER_CHUNK,  (* 63 in LHE_headers.h                            *)
  TS_MOD,                (* 2^32, the width of an RTP timestamp            *)
  MaxSignals             (* bound: SIGINTs delivered during one run        *)

SEQ_MOD      == 65536    (* uint16_t sequence numbers and block ids        *)
HEADER_BYTES == 22       (* RTP_packetheader_t and LHE_packetheader_t      *)
BLOCK_HEADER == 2        (* LHE_blockheader_t                              *)
PTR_BYTES    == 8        (* size of a pointer: LHE_sender.c:162             *)
TS_STEP      == 818      (* 90000 / DEFAULT_FPS, LHE_sender.c              *)
STEP         == 3000     (* LHEpack.c                                      *)

(* A file holds at least one frame and a frame at least one block; block   *)
(* ids fit the 16-bit header field, chunks fit its 6-bit block count.      *)
ASSUME VideosAssumption ==
  \A v \in Videos :
    /\ v \in Seq(Seq(Seq(Nat)))
    /\ \A i \in DOMAIN v : /\ Len(v[i]) > 0
                           /\ \A f \in DOMAIN v[i] :
                                Len(v[i][f]) \in 1 .. SEQ_MOD - 1
ASSUME ConstantsAssumption ==
  /\ InitialSeqs \subseteq 0 .. SEQ_MOD - 1
  /\ MaxChunk \in Nat /\ MaxChunk >= 30
  /\ MAX_BLOCKS_PER_CHUNK \in 1 .. 63
  /\ TS_MOD \in Nat /\ TS_MOD > STEP
  /\ MaxSignals \in Nat

VARIABLES
  files,            (* namelist: what scandir found                        *)
  i,                (* LHE_send_dir: files begun so far                    *)
  initial_seq_num,  (* LHE_send_dir: sequence number the next file gets    *)
  initial_ts,       (* LHE_send_dir: timestamp the next file gets          *)
  retval,           (* what LHE_sender returned                            *)
  pack_stop,        (* "stop" of LHEpack.c                                 *)
  stop,             (* "stop" of LHE_sender.c                              *)
  handler,          (* the file whose sigint_handler is installed          *)
  pc,
  seq_num, ts, M,   (* fields of the RTP header in the send buffer         *)
  used,             (* bytes in the send buffer                            *)
  frames_sent, packets_sent, first_block_id, blocks_read, blocks_in_chunk,
  wire,             (* history: the packets handed to the network          *)
  signals,          (* SIGINTs so far, bounded by MaxSignals               *)
  told,             (* history: LHE_sender's handler has set stop          *)
  late_sends        (* history: packets sent after that                    *)

dirVars   == <<files, i, initial_seq_num, initial_ts>>
rtpVars   == <<seq_num, ts, M>>
frameVars == <<frames_sent, packets_sent, first_block_id, blocks_read>>
chunkVars == <<used, blocks_in_chunk>>
stopVars  == <<pack_stop, stop, handler, signals, told>>
histVars  == <<wire, late_sends>>
vars == <<dirVars, rtpVars, frameVars, chunkVars, stopVars, histVars, retval, pc>>

Frame         == files[i][frames_sent + 1]
BlocksInImage == Len(Frame)

Init ==
  /\ files \in Videos /\ i = 0
  /\ initial_seq_num \in InitialSeqs /\ initial_ts = 0 /\ retval = 0
  /\ pack_stop = FALSE /\ stop = FALSE /\ handler = "pack" /\ signals = 0
  /\ told = FALSE
  /\ pc = "dir"
  /\ seq_num = 0 /\ ts = 0 /\ M = 0 /\ used = HEADER_BYTES
  /\ frames_sent = 0 /\ packets_sent = 0
  /\ first_block_id = 0 /\ blocks_read = 0 /\ blocks_in_chunk = 0
  /\ wire = <<>> /\ late_sends = 0

-----------------------------------------------------------------------------
(* LHE_send_dir                                                            *)

NextFile ==
  /\ pc = "dir" /\ i < Len(files) /\ ~pack_stop
  /\ i' = i + 1
  /\ pc' = "call"
  /\ UNCHANGED <<files, initial_seq_num, initial_ts, rtpVars, frameVars,
                 chunkVars, stopVars, histVars, retval>>

DirectoryDone == i = Len(files) \/ pack_stop

EndOfDirectory ==
  /\ pc = "dir" /\ DirectoryDone
  /\ pack_stop' = FALSE
  /\ pc' = "done"
  /\ UNCHANGED <<dirVars, rtpVars, frameVars, chunkVars, stop, handler,
                 signals, told, histVars, retval>>

(* The prologue of LHE_sender: handler, send buffer, first frame's header. *)
CallSender ==
  /\ pc = "call"
  /\ handler' = "sender"
  /\ seq_num' = initial_seq_num /\ ts' = initial_ts /\ M' = 0
  /\ used' = HEADER_BYTES
  /\ frames_sent' = 0 /\ packets_sent' = 0
  /\ first_block_id' = 0 /\ blocks_read' = 0
  /\ pc' = "loop"
  /\ UNCHANGED <<dirVars, blocks_in_chunk, pack_stop, stop, signals, told,
                 histVars, retval>>

Mutant_NextFileSeq == initial_seq_num        \* packet count forgotten
NextFileSeq == (initial_seq_num + retval) % SEQ_MOD

(* Back in LHE_send_dir: no packet sent counts as an order to stop.        *)
FileSent ==
  /\ pc = "back"
  /\ pack_stop' = (pack_stop \/ retval = 0)
  /\ initial_seq_num' = NextFileSeq
  /\ initial_ts' = (initial_ts + STEP) % TS_MOD
  /\ pc' = "dir"
  /\ UNCHANGED <<files, i, rtpVars, frameVars, chunkVars, stop, handler,
                 signals, told, histVars, retval>>

-----------------------------------------------------------------------------
(* LHE_sender                                                              *)

StartChunk ==
  /\ pc = "loop" /\ ~stop
  /\ blocks_in_chunk' = 0
  /\ pc' = "chunk"
  /\ UNCHANGED <<dirVars, rtpVars, frameVars, used, stopVars, histVars, retval>>

LeaveLoop ==
  /\ pc = "loop" /\ stop
  /\ pc' = "return"
  /\ UNCHANGED <<dirVars, rtpVars, frameVars, chunkVars, stopVars, histVars,
                 retval>>

CanTake == /\ used < MaxChunk
           /\ blocks_read < BlocksInImage
           /\ blocks_in_chunk < MAX_BLOCKS_PER_CHUNK
BlockLen == Frame[blocks_read + 1]
NewUsed  == used + BLOCK_HEADER + BlockLen
(* The next block goes into this chunk ("copy at least one block!").       *)
Fits == CanTake /\ (NewUsed <= MaxChunk \/ blocks_in_chunk = 0)
TooBig(len) == PTR_BYTES + len > MaxChunk

TakeBlock ==
  /\ pc = "chunk" /\ Fits /\ ~TooBig(BlockLen)
  /\ used' = NewUsed
  /\ blocks_in_chunk' = blocks_in_chunk + 1
  /\ blocks_read' = blocks_read + 1
  /\ UNCHANGED <<dirVars, rtpVars, frames_sent, packets_sent, first_block_id,
                 stopVars, histVars, retval, pc>>

Mutant_RefuseBlock ==         \* the error is reported and the loop goes on
  /\ pc = "chunk" /\ Fits /\ TooBig(BlockLen)
  /\ pc' = "loop"
  /\ UNCHANGED <<dirVars, rtpVars, frameVars, chunkVars, stopVars, histVars,
                 retval>>
(* "ERROR: block too big!": the rest of the file is given up.              *)
RefuseBlock ==
  /\ pc = "chunk" /\ Fits /\ TooBig(BlockLen)
  /\ retval' = packets_sent
  /\ pc' = "back"
  /\ UNCHANGED <<dirVars, rtpVars, frameVars, chunkVars, stopVars, histVars>>

Mutant_Marker == IF first_block_id = BlocksInImage THEN 1 ELSE M
Marker == IF first_block_id' = BlocksInImage THEN 1 ELSE M

FirstBlockId == first_block_id % SEQ_MOD

Packet == [seq |-> seq_num, ts |-> ts, m |-> M', file |-> i,
           frame |-> frames_sent + 1, fb |-> FirstBlockId,
           n |-> blocks_in_chunk % 64, size |-> used]

(* The chunk is complete: header fields, marker and send(), which fails or *)
(* does not; stop is looked at after it returns.                           *)
SendChunk ==
  /\ pc = "chunk" /\ ~Fits
  /\ first_block_id' = first_block_id + blocks_in_chunk
  /\ M' = Marker
  /\ \/ /\ wire' = Append(wire, Packet)
        /\ late_sends' = late_sends + (IF told THEN 1 ELSE 0)
        /\ pc' = "sent"
     \/ UNCHANGED histVars /\ pc' = "failed"
  /\ UNCHANGED <<dirVars, seq_num, ts, frames_sent, packets_sent, blocks_read,
                 chunkVars, stopVars, retval>>

SendInterrupted ==
  /\ pc \in {"sent", "failed"} /\ stop
  /\ pc' = "return"
  /\ UNCHANGED <<dirVars, rtpVars, frameVars, chunkVars, stopVars, histVars,
                 retval>>

SendError ==                                   \* perror_if_condition exits
  /\ pc = "failed" /\ ~stop
  /\ pc' = "exited"
  /\ UNCHANGED <<dirVars, rtpVars, frameVars, chunkVars, stopVars, histVars,
                 retval>>

NextSeq == (seq_num + 1) % SEQ_MOD

(* What every packet sent without an interruption updates.                 *)
CountPacket ==
  /\ pc = "sent" /\ ~stop
  /\ packets_sent' = packets_sent + 1
  /\ used' = HEADER_BYTES
  /\ seq_num' = NextSeq

NextChunk ==
  /\ CountPacket /\ first_block_id < BlocksInImage
  /\ pc' = "loop"
  /\ UNCHANGED <<dirVars, ts, M, frames_sent, first_block_id, blocks_read,
                 blocks_in_chunk, stopVars, histVars, retval>>

Mutant_MoreFrames == frames_sent + 2 < Len(files[i])
MoreFrames == frames_sent + 1 < Len(files[i])
NextFrameTs == (ts + TS_STEP) % TS_MOD

NextFrame ==
  /\ CountPacket /\ first_block_id >= BlocksInImage
  /\ MoreFrames
  /\ frames_sent' = frames_sent + 1
  /\ first_block_id' = 0 /\ blocks_read' = 0
  /\ ts' = NextFrameTs /\ M' = 0
  /\ pc' = "loop"
  /\ UNCHANGED <<dirVars, blocks_in_chunk, stopVars, histVars, retval>>

LastFrame ==
  /\ CountPacket /\ first_block_id >= BlocksInImage
  /\ ~MoreFrames
  /\ frames_sent' = frames_sent + 1
  /\ pc' = "return"
  /\ UNCHANGED <<dirVars, ts, M, first_block_id, blocks_read, blocks_in_chunk,
                 stopVars, histVars, retval>>

Mutant_Answer == packets_sent                 \* the caller is not told
Answer == IF stop THEN 0 ELSE packets_sent

Return ==
  /\ pc = "return"
  /\ retval' = Answer
  /\ stop' = FALSE
  /\ pc' = "back"
  /\ UNCHANGED <<dirVars, rtpVars, frameVars, chunkVars, pack_stop, handler,
                 signals, told, histVars>>

-----------------------------------------------------------------------------
Finished == pc \in {"done", "exited"}

SigInt ==
  /\ ~Finished /\ signals < MaxSignals
  /\ signals' = signals + 1
  /\ pack_stop' = (pack_stop \/ handler = "pack")
  /\ stop' = (stop \/ handler = "sender")
  /\ told' = (told \/ handler = "sender")
  /\ UNCHANGED <<dirVars, rtpVars, frameVars, chunkVars, handler, histVars,
                 retval, pc>>

SendDir == NextFile \/ EndOfDirectory \/ CallSender \/ FileSent
Sender  == \/ StartChunk \/ LeaveLoop \/ TakeBlock \/ RefuseBlock \/ SendChunk
           \/ SendInterrupted \/ SendError \/ NextChunk \/ NextFrame
           \/ LastFrame \/ Return
Next == SendDir \/ Sender \/ SigInt

Spec     == Init /\ [][Next]_vars
(* The transmitter is one thread that never waits for anybody: whatever    *)
(* step it can take, it takes.  Signals are not owed to it.                *)
FairSpec == Spec /\ WF_vars(SendDir \/ Sender)

-----------------------------------------------------------------------------
(* Properties                                                              *)

NB(p) == Len(files[p.file][p.frame])        \* blocks of a packet's frame
SameFrame(p, q) == p.file = q.file /\ p.frame = q.frame
Points == {"dir", "call", "loop", "chunk", "sent", "failed", "return", "back",
           "done", "exited"}

Packets == [seq : 0 .. SEQ_MOD - 1, ts : 0 .. TS_MOD - 1, m : {0, 1},
            file : Nat, frame : Nat, fb : 0 .. SEQ_MOD - 1, n : 0 .. 63,
            size : Nat]

(* The values the transmitter's variables range over.                      *)
TypeOK ==
  /\ files \in Videos /\ i \in 0 .. Len(files)
  /\ initial_seq_num \in 0 .. SEQ_MOD - 1 /\ initial_ts \in 0 .. TS_MOD - 1
  /\ retval \in Nat
  /\ pack_stop \in BOOLEAN /\ stop \in BOOLEAN /\ told \in BOOLEAN
  /\ handler \in {"pack", "sender"} /\ signals \in 0 .. MaxSignals
  /\ pc \in Points
  /\ seq_num \in 0 .. SEQ_MOD - 1 /\ ts \in 0 .. TS_MOD - 1 /\ M \in {0, 1}
  /\ used \in Nat /\ blocks_in_chunk \in 0 .. MAX_BLOCKS_PER_CHUNK
  /\ frames_sent \in Nat /\ packets_sent \in Nat
  /\ first_block_id \in Nat /\ blocks_read \in Nat
  /\ wire \in Seq(Packets)
  /\ late_sends \in Nat

(* The packets of a frame tile it: the first starts at block 0, each next  *)
(* one where the previous ended, and a new frame starts only when the last *)
(* chunk of the previous one is out, or when its file was given up.  This  *)
(* is also what assert(blocks_read <= first_block_id) is there for.        *)
ChunksTile ==
  /\ Len(wire) > 0 => wire[1].fb = 0
  /\ \A k \in 1 .. Len(wire) - 1 :
       LET p == wire[k]  q == wire[k + 1] IN
         IF SameFrame(p, q)
         THEN q.fb = p.fb + p.n
         ELSE q.fb = 0 /\ (p.fb + p.n = NB(p) \/ q.file > p.file)

(* The marker bit is set on the packet that ends a frame and on no other:  *)
(* the receivers close a frame on it.                                      *)
MarkerOnLastChunk ==
  \A k \in DOMAIN wire :
    LET p == wire[k] IN (p.m = 1) <=> (p.fb + p.n = NB(p))

(* No packet is empty (assert(blocks_in_chunk != 0)), none has more blocks *)
(* than the 6-bit field can say, and one that is larger than --max-chunk-  *)
(* size carries a single block ("copy at least one block!").               *)
ChunkBounds ==
  \A k \in DOMAIN wire :
    LET p == wire[k] IN
      /\ p.n \in 1 .. MAX_BLOCKS_PER_CHUNK
      /\ p.size <= MaxChunk \/ p.n = 1

(* No chunk is closed early: a packet that does not end its frame has the  *)
(* maximal number of blocks, or the next block would not have fitted.      *)
Full(p) ==
  \/ p.fb + p.n = NB(p)
  \/ p.n = MAX_BLOCKS_PER_CHUNK
  \/ p.size + BLOCK_HEADER + files[p.file][p.frame][p.fb + p.n + 1] > MaxChunk
ChunksPacked == \A k \in DOMAIN wire : Full(wire[k])

(* Sequence numbers grow by one from packet to packet, modulo 2^16, also   *)
(* from one file to the next, where LHE_send_dir works out the first one   *)
(* from the packet count LHE_sender returned.                              *)
SeqConsecutive ==
  \A k \in 1 .. Len(wire) - 1 : wire[k + 1].seq = (wire[k].seq + 1) % SEQ_MOD

(* Together: whoever puts the blocks of a frame back together can find     *)
(* their place, their end and what is missing from the packets alone.      *)
PacketsWellFormed ==
  /\ TypeOK
  /\ ChunksTile /\ MarkerOnLastChunk /\ ChunkBounds /\ ChunksPacked
  /\ SeqConsecutive

(* Once LHE_sender's handler has set stop, at most the packet being built  *)
(* still leaves, the files still to come included: LHE_sender clears the   *)
(* flag, and LHE_send_dir must gather from its result that it was set.     *)
StopWithinOnePacket == late_sends <= 1

(* An undisturbed run (no signal, no failed send, no block refused) ends   *)
(* with the last chunk of every frame of every file on the wire.           *)
UndisturbedIsComplete ==
  /\ pc = "done" /\ signals = 0
  /\ \A f \in DOMAIN files : \A g \in DOMAIN files[f] :
       \A b \in DOMAIN files[f][g] : ~TooBig(files[f][g][b])
  => \A f \in DOMAIN files : \A g \in DOMAIN files[f] :
       \E k \in DOMAIN wire : /\ wire[k].file = f /\ wire[k].frame = g
                              /\ wire[k].fb + wire[k].n = NB(wire[k])

(* The transmission ends, whatever the directory holds, and a SIGINT at    *)
(* any point does not keep it from ending.                                 *)
Terminates == <>Finished

(* The transmitter implements PacketStream: what a receiver may rely on.   *)
(* Packet sizes in bytes and the lengths of blocks are forgotten.          *)
Sizes(v) == [f \in DOMAIN v |-> [g \in DOMAIN v[f] |-> Len(v[f][g])]]
Abstract(p) == [seq |-> p.seq, ts |-> p.ts, m |-> p.m, file |-> p.file,
                frame |-> p.frame, fb |-> p.fb, n |-> p.n]
Promise == INSTANCE PacketStream
             WITH SizeSets <- {Sizes(v) : v \in Videos}, FirstSeqs <- InitialSeqs,
                  MaxBlocks <- MAX_BLOCKS_PER_CHUNK, TsMod <- TS_MOD,
                  sizes <- Sizes(files),
                  stream <- [k \in DOMAIN wire |-> Abstract(wire[k])]
ImplementsPacketStream == Promise!StreamSpec
=============================================================================
