---------------------------- MODULE MemorySender ----------------------------
(***************************************************************************)
(* LHE_send_from_memory (LHE_sender.c): the thread that turns the frames   *)
(* the codec hardware publishes into packets.  It polls for a frame's      *)
(* header and for each block; a block that no longer fits stays queued for *)
(* the next packet.  SIGINT sets "stop", which "stop = false" may undo.    *)
(*                                                                         *)
(* pc: "created", "caught" (handler installed), "loop" (head of the loop), *)
(* "header" (waiting for a frame), "chunk" (the for-loop), "ship" (past    *)
(* the last look at stop), "gone".  A wait that finds nothing new changes  *)
(* nothing, so it is the guard of the action that follows it.              *)
(***************************************************************************)
EXTENDS BlockMover

CONSTANTS
  InitialSeqs,           (* values rand() may give initial_seq_num         *)
  MaxChunk, MAX_BLOCKS_PER_CHUNK, MAX_BLOCK_BYTES,
  TS_MOD, FpsDivs,       (* width of a timestamp, values of the FPS field  *)
  MaxSignals             (* bound: SIGINTs delivered                       *)

HEADER_BYTES == 22
BLOCK_HEADER == 2
PTR_BYTES    == 8        (* size of a pointer: LHE_sender.c:530             *)
TS_STEP      == 818
SEQ_MOD      == 65536

(* Chunks of at least 30 bytes (LHE_sender.c:322) and at most 63 blocks    *)
(* (LHE_headers.h:107); rand() cut to 16 bits (LHEpack.c:457).             *)
ASSUME MemorySenderAssumption ==
  /\ MaxChunk \in Nat /\ MaxChunk >= 30 /\ MAX_BLOCKS_PER_CHUNK \in 1 .. 63
  /\ InitialSeqs \subseteq 0 .. SEQ_MOD - 1 /\ TS_MOD \in Nat \ {0}
  /\ FpsDivs \subseteq Nat
  /\ MAX_BLOCK_BYTES \in Nat /\ MaxSignals \in Nat

VARIABLES
  pc, stop, first, setup, block_queued, get_id, received_block,
  first_block_id, blocks_read, blocks_in_chunk, blocks_in_image, used,
  seq_num, ts, M,
  packets_sent,          (* packets given to send(), accepted or not       *)
  wire,                  (* history: packets send() has accepted           *)
  taken,                 (* history: frame and block last copied           *)
  in_frame,              (* history: frame whose header was last read      *)
  signals, late_sends

flagVars  == <<first, setup, block_queued, get_id>>
chunkVars == <<received_block, first_block_id, blocks_read, blocks_in_chunk, used>>
rtpVars   == <<seq_num, ts, M, packets_sent>>
histVars  == <<wire, taken, late_sends>>
vars == <<cameraVars, moverVars, pc, stop, flagVars, chunkVars, blocks_in_image,
          rtpVars, histVars, in_frame, signals>>

Init ==
  /\ MoverInit
  /\ pc = "created" /\ stop = FALSE
  /\ first = TRUE /\ setup = TRUE /\ block_queued = FALSE /\ get_id = TRUE
  /\ received_block = 0 /\ first_block_id = 0 /\ blocks_read = 0
  /\ blocks_in_chunk = 0 /\ blocks_in_image = 0 /\ used = HEADER_BYTES
  /\ seq_num \in InitialSeqs /\ ts = 0 /\ M = 0 /\ packets_sent = 0
  /\ wire = <<>> /\ taken = [frame |-> 0, block |-> 0] /\ in_frame = 0
  /\ signals = 0 /\ late_sends = 0

InstallHandler ==
  /\ pc = "created" /\ pc' = "caught"
  /\ UNCHANGED <<cameraVars, moverVars, stop, flagVars, chunkVars,
                 blocks_in_image, rtpVars, histVars, in_frame, signals>>

(* get_parameters has no return statement: its result is any value.        *)
Unreturned(flag) == stop' \in {flag, TRUE}

StartUp ==
  /\ pc = "caught" /\ pc' = "loop"
  /\ Unreturned(FALSE)                              \* "stop = false"
  /\ StartStreaming
  /\ UNCHANGED <<flagVars, chunkVars, blocks_in_image, rtpVars, histVars,
                 in_frame, signals>>

Seen == stop
Loop ==
  /\ pc = "loop"
  /\ pc' = IF Seen THEN "gone" ELSE IF first THEN "header" ELSE "chunk"
  /\ blocks_in_chunk' = 0
  /\ UNCHANGED <<cameraVars, moverVars, stop, flagVars, received_block,
                 first_block_id, blocks_read, used, blocks_in_image, rtpVars,
                 histVars, in_frame, signals>>

DropFrames ==
  /\ pc = "header" /\ Resync
  /\ UNCHANGED <<pc, stop, flagVars, chunkVars, blocks_in_image, rtpVars,
                 histVars, in_frame, signals>>

NextTs(fps) == IF setup THEN ts ELSE (ts + TS_STEP * fps) % TS_MOD
NewFrame ==
  /\ pc = "header" /\ GetGlobalHeader
  /\ Unreturned(stop)
  /\ blocks_in_image' = Header /\ in_frame' = FrameOf(current_frame)
  /\ first' = FALSE /\ setup' = FALSE
  /\ M' = 0 /\ \E fps \in FpsDivs : ts' = NextTs(fps)
  /\ pc' = "chunk"
  /\ UNCHANGED <<block_queued, get_id, chunkVars, seq_num, packets_sent, histVars,
                 signals>>

CanTake == /\ used < MaxChunk /\ blocks_read < blocks_in_image
           /\ blocks_in_chunk < MAX_BLOCKS_PER_CHUNK
Block    == IF block_queued THEN received_block ELSE current_block
InFrame  == IF block_queued THEN taken.frame ELSE FrameOf(current_frame)
Expected == Block = blocks_read
BlockLen == video[InFrame + 1][Block + 1]
NewUsed  == used + PTR_BYTES + BlockLen
Mutant_StaysQueued == used > MaxChunk /\ blocks_in_chunk > 0 /\ ~block_queued
StaysQueued == NewUsed > MaxChunk /\ blocks_in_chunk > 0 /\ ~block_queued

(* The queued block, or the next one of memory, and its id.                *)
Fetch ==
  /\ pc = "chunk" /\ ~Seen /\ CanTake
  /\ IF block_queued THEN UNCHANGED <<cameraVars, moverVars>> ELSE GetNextBlock
  /\ received_block' = Block
  /\ taken' = [frame |-> InFrame, block |-> Block]
  /\ first_block_id' = IF get_id THEN Block ELSE first_block_id
  /\ get_id' = FALSE
  /\ UNCHANGED <<first, setup, blocks_in_image, rtpVars, wire, late_sends,
                 in_frame, signals>>

(* A block that was not expected ("ERROR: Received an unexpected block!")  *)
(* is not copied and ends the transmission.                                *)
CopyBlock ==
  /\ Fetch /\ (Expected => ~StaysQueued)
  /\ stop' = ~Expected
  /\ IF Expected
     THEN /\ block_queued' = FALSE
          /\ used' = used + BLOCK_HEADER
                    + (IF BlockLen > MAX_BLOCK_BYTES THEN 0 ELSE BlockLen)
          /\ blocks_in_chunk' = blocks_in_chunk + 1
          /\ blocks_read' = blocks_read + 1
     ELSE UNCHANGED <<block_queued, used, blocks_in_chunk, blocks_read>>
  /\ pc' = pc

QueueBlock ==
  /\ Fetch /\ Expected /\ StaysQueued
  /\ block_queued' = TRUE
  /\ pc' = "ship"
  /\ UNCHANGED <<used, blocks_in_chunk, blocks_read, stop>>

ChunkFull ==
  /\ pc = "chunk" /\ ~Seen /\ ~CanTake
  /\ pc' = "ship"
  /\ UNCHANGED <<cameraVars, moverVars, stop, flagVars, chunkVars,
                 blocks_in_image, rtpVars, histVars, in_frame, signals>>

Mutant_Interrupted ==                         \* the wait for a frame never gives up
  /\ pc = "chunk" /\ stop
  /\ pc' = "gone"
  /\ UNCHANGED <<cameraVars, moverVars, stop, flagVars, chunkVars,
                 blocks_in_image, rtpVars, histVars, in_frame, signals>>
(* A wait or the for-loop sees stop: what the code still does before it    *)
(* returns works on stale fields that never leave.                         *)
Interrupted ==
  /\ pc \in {"header", "chunk"} /\ Seen
  /\ pc = "header" => (HeaderReady => HeaderDiff > 1)
  /\ pc' = "gone"
  /\ UNCHANGED <<cameraVars, moverVars, stop, flagVars, chunkVars,
                 blocks_in_image, rtpVars, histVars, in_frame, signals>>

FrameDone == blocks_read = blocks_in_image
NextSeq == (seq_num + 1) % SEQ_MOD
Packet == [nth |-> packets_sent + 1, seq |-> NextSeq, ts |-> ts, m |-> M',
           frame |-> in_frame, fb |-> first_block_id,
           n |-> blocks_in_chunk % 64, size |-> used]

(* send() is tried whatever stop has become, and its failure only printed. *)
Ship ==
  /\ pc = "ship"
  /\ seq_num' = NextSeq /\ packets_sent' = packets_sent + 1 /\ get_id' = TRUE
  /\ M' = IF FrameDone THEN 1 ELSE M
  /\ first' = FrameDone
  /\ blocks_read' = IF FrameDone THEN 0 ELSE blocks_read
  /\ first_block_id' = IF FrameDone THEN 0 ELSE first_block_id
  /\ \/ /\ wire' = Append(wire, Packet)
        /\ late_sends' = late_sends + (IF stop THEN 1 ELSE 0)
     \/ UNCHANGED <<wire, late_sends>>
  /\ used' = HEADER_BYTES
  /\ pc' = "loop"
  /\ UNCHANGED <<cameraVars, moverVars, stop, setup, block_queued,
                 received_block, blocks_in_chunk, blocks_in_image, ts, taken,
                 in_frame, signals>>

Camera ==
  /\ pc # "gone" /\ HwBlock
  /\ UNCHANGED <<pc, stop, flagVars, chunkVars, blocks_in_image, rtpVars,
                 histVars, in_frame, signals>>

(* Before the thread has installed its handler SIGINT is somebody else's.  *)
SigInt ==
  /\ pc # "created" /\ signals < MaxSignals
  /\ signals' = signals + 1
  /\ stop' = TRUE
  /\ UNCHANGED <<cameraVars, moverVars, pc, flagVars, chunkVars,
                 blocks_in_image, rtpVars, histVars, in_frame>>

Sender == \/ InstallHandler \/ StartUp \/ Loop \/ DropFrames \/ NewFrame
          \/ CopyBlock \/ QueueBlock \/ ChunkFull \/ Interrupted
          \/ Ship
Next == Sender \/ Camera \/ SigInt
Spec == Init /\ [][Next]_vars
(* The thread takes whatever step it can, and the hardware ends the frames *)
(* it has begun.                                                           *)
FairSpec == Spec /\ WF_vars(Sender) /\ WF_vars(Camera)

-----------------------------------------------------------------------------
(* Properties                                                              *)

Points == {"created", "caught", "loop", "header", "chunk", "ship", "gone"}
Uint16 == 0 .. SEQ_MOD - 1

(* The values the thread's variables range over.                           *)
TypeOK ==
  /\ video \in Videos /\ first_frame \in FirstFrames
  /\ hw.f \in 0 .. Len(video) /\ hw.b \in Nat
  /\ current_frame \in Uint16 /\ current_block \in Nat
  /\ number_blocks \in Nat /\ number_of_available_blocks \in Int
  /\ pc \in Points /\ {stop, first, setup, block_queued, get_id} \subseteq BOOLEAN
  /\ received_block \in Nat /\ first_block_id \in Nat
  /\ blocks_read \in 0 .. blocks_in_image
  /\ blocks_in_chunk \in 0 .. MAX_BLOCKS_PER_CHUNK /\ used \in Nat
  /\ seq_num \in Uint16 /\ ts \in 0 .. TS_MOD - 1 /\ M \in {0, 1}
  /\ packets_sent \in Nat
  /\ signals \in 0 .. MaxSignals

(* The sender never copies a block the hardware has not published yet,     *)
(* across the wrap of the 16-bit frame counter, its signed and unsigned    *)
(* readings, a header read one frame late (when the library announces the  *)
(* size of the PREVIOUS frame) and a jump over dropped frames.             *)
ReadsOnlyPublished ==
  ~get_id => \/ taken.frame < hw.f
             \/ taken.frame = hw.f /\ taken.block < hw.b

(* Every block copied belongs to the frame whose header was read last: the *)
(* library's frame counter and the sender's block count never part.        *)
OneFrameAtATime == ~get_id => taken.frame = in_frame

(* The sender never gives up by itself: the block it gets is the one it    *)
(* counts on, over queued blocks and dropped frames.  Only SIGINT, or the  *)
(* value get_parameters does not return, stops it.                         *)
NoUnexpectedBlock == pc = "chunk" /\ CanTake /\ (block_queued \/ Available > 0)
                       => Expected

(* Together: what is copied is published, of the frame begun, and expected.*)
ReadsItsFrame == ReadsOnlyPublished /\ OneFrameAtATime /\ NoUnexpectedBlock

NB(p) == Len(video[p.frame + 1])
(* The packet given to send() after p.  Nothing is said of a packet that   *)
(* follows refused ones: 65536 of them bring p's sequence number back.     *)
Follows(p, q) ==
  IF p.m = 1 THEN q.frame > p.frame /\ q.fb = 0
             ELSE q.frame = p.frame /\ q.fb = p.fb + p.n /\ q.ts = p.ts
(* The packets of a frame tile it from block 0 to its end, marker on the   *)
(* last; with no send() refused a frame once begun is never left for the   *)
(* next one, and no frame is sent twice or out of order; the sequence      *)
(* numbers count the refused packets, as the receiver takes them to.       *)
PacketsTile ==
  /\ \A k \in DOMAIN wire : (wire[k].m = 1) <=> (wire[k].fb + wire[k].n = NB(wire[k]))
  /\ \A k \in 1 .. Len(wire) - 1 :
       LET p == wire[k]  q == wire[k + 1] IN
         /\ q.nth = p.nth + 1 => Follows(p, q)
         /\ q.seq = (p.seq + q.nth - p.nth) % SEQ_MOD

(* A packet is never empty, and larger than max_chunk_size only when it    *)
(* has a single block: the block queued when it did not fit goes alone or  *)
(* first, and never twice.                                                 *)
ChunkBounds ==
  \A k \in DOMAIN wire : /\ wire[k].n \in 1 .. MAX_BLOCKS_PER_CHUNK
                         /\ wire[k].size <= MaxChunk \/ wire[k].n = 1

(* After stop is set at most the packet being shipped still leaves.        *)
StopWithinOnePacket == late_sends <= 1

(* Together: what reaches the network.                                     *)
PacketsWellFormed == TypeOK /\ PacketsTile /\ ChunkBounds /\ StopWithinOnePacket

(* Once the thread streams, a set flag ends it, whatever the camera does.  *)
StopEndsIt == (stop /\ pc \notin {"created", "caught"}) ~> (pc = "gone")

(* A frame begun is shipped to its last block, unless the thread is told   *)
(* to stop, or stops itself.                                               *)
FrameBegunEnds == (~first) ~> (first \/ stop)

Phase == CASE pc = "created" -> "created" [] pc = "caught" -> "caught"
           [] pc = "gone" -> "gone" [] OTHER -> "streaming"
(* The thread is what the RTSP server takes it for, except that it begins  *)
(* created: it takes the steps SenderThread allows, and ends when told.    *)
Thread == INSTANCE SenderThread WITH phase <- Phase
ImplementsSenderThread ==
  [][Thread!ThreadStep \/ Thread!Signal]_Thread!threadVars /\ StopEndsIt
=============================================================================
