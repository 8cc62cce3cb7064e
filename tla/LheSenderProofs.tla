-------------------------- MODULE LheSenderProofs --------------------------
(***************************************************************************)
(* The transmitter's invariants and its refinement of PacketStream, proved *)
(* for all directories, all block lengths, all packet sizes and any number *)
(* of signals.                                                             *)
(*                                                                         *)
(* Then the pace of LHE_send_dir (FramePacing), for every rate of more     *)
(* than one file a second, every directory and every clock that does not   *)
(* go back: no file is sent before its time, and a late one is put off to  *)
(* a whole number of seconds after it.  The times are pairs, so that the   *)
(* proof is first one of timespec_diff: it is exact when the second time   *)
(* is the later one (DiffExact), and when it is not, what it returns is    *)
(* the same modulo a second (DiffLate).                                    *)
(***************************************************************************)
EXTENDS LheSender, FramePacing, TLAPS

-----------------------------------------------------------------------------
(* The inductive invariant                                                 *)

InSender == pc \in {"loop", "chunk", "sent", "failed"}
Last == wire[Len(wire)]
After(p) == (p.seq + 1) % SEQ_MOD

(* Which file and frame the code is at.                                    *)
Position ==
  /\ pc \notin {"dir", "done", "exited"} => i \in DOMAIN files
  /\ InSender => frames_sent + 1 \in DOMAIN files[i]

(* What has been done of the current frame, and of the chunk being built.  *)
ChunkState ==
  /\ pc = "loop" => /\ blocks_read = first_block_id
                    /\ first_block_id < BlocksInImage
                    /\ M = 0 /\ used = HEADER_BYTES
  /\ pc = "chunk" => /\ blocks_read = first_block_id + blocks_in_chunk
                     /\ blocks_read <= BlocksInImage
                     /\ first_block_id < BlocksInImage
                     /\ M = 0
                     /\ blocks_in_chunk = 0 => used = HEADER_BYTES
                     /\ used <= MaxChunk \/ blocks_in_chunk = 1
  /\ pc = "sent" => /\ blocks_read = first_block_id
                    /\ first_block_id <= BlocksInImage

(* The timestamps of the file and of the frame.                            *)
TsState ==
  /\ pc = "dir" => initial_ts = (i * STEP) % TS_MOD
  /\ pc \in {"call", "loop", "chunk", "sent", "failed", "return", "back"} =>
       initial_ts = ((i - 1) * STEP) % TS_MOD
  /\ InSender => ts = Promise!TsOf(i, frames_sent + 1)

(* What the history of the wire says packet by packet ...                  *)
PacketOK(p) ==
  /\ p.file \in DOMAIN files /\ p.frame \in DOMAIN files[p.file]
  /\ p.n \in 1 .. MAX_BLOCKS_PER_CHUNK
  /\ p.fb + p.n <= NB(p)
  /\ (p.m = 1) <=> (p.fb + p.n = NB(p))
  /\ p.size <= MaxChunk \/ p.n = 1
  /\ Full(p)
(* ... and from one packet to the next.                                    *)
Follows(p, q) ==
  /\ q.seq = After(p)
  /\ \/ SameFrame(p, q) /\ q.fb = p.fb + p.n
     \/ q.file = p.file /\ q.frame = p.frame + 1 /\ q.fb = 0 /\ p.fb + p.n = NB(p)
     \/ q.file = p.file + 1 /\ q.frame = 1 /\ q.fb = 0
WireOK ==
  /\ \A k \in DOMAIN wire : PacketOK(wire[k])
  /\ wire # <<>> => wire[1].fb = 0
  /\ \A k \in 1 .. Len(wire) - 1 : Follows(wire[k], wire[k + 1])

(* f files are over and the next one gets the number that comes next.      *)
Ready(f) == \/ wire = <<>> /\ f = 0 /\ initial_seq_num \in InitialSeqs
            \/ wire # <<>> /\ Last.file = f /\ initial_seq_num = After(Last)
(* n packets of file i are out; added to its first number they give the    *)
(* number that comes next.                                                 *)
Counted(n) == /\ wire # <<>> /\ Last.file = i
              /\ (initial_seq_num + n) % SEQ_MOD = After(Last)

(* How the last packet on the wire relates to what the code does next.     *)
NextPacket ==
  /\ pc = "dir" /\ ~pack_stop => Ready(i)
  /\ pc = "call" => Ready(i - 1)
  /\ pc \in {"loop", "chunk"} =>
       /\ seq_num = (initial_seq_num + packets_sent) % SEQ_MOD
       /\ \/ /\ packets_sent = 0 /\ frames_sent = 0 /\ first_block_id = 0
             /\ seq_num = initial_seq_num
             /\ Ready(i - 1)
          \/ /\ Counted(packets_sent)
             /\ \/ /\ Last.frame = frames_sent + 1
                   /\ Last.fb + Last.n = first_block_id
                \/ /\ Last.frame = frames_sent
                   /\ Last.fb + Last.n = NB(Last) /\ first_block_id = 0
  /\ pc = "sent" =>
       /\ wire # <<>> /\ Last.file = i /\ Last.frame = frames_sent + 1
       /\ Last.seq = seq_num /\ Last.m = M
       /\ Last.fb + Last.n = first_block_id
       /\ seq_num = (initial_seq_num + packets_sent) % SEQ_MOD
  /\ pc = "return" /\ ~stop => packets_sent > 0 /\ Counted(packets_sent)
  /\ pc = "back" /\ retval # 0 => Counted(retval)

SenderInv == /\ TypeOK /\ Position /\ ChunkState /\ TsState
             /\ WireOK /\ NextPacket

-----------------------------------------------------------------------------
(* Facts about the constants and about arithmetic                          *)

(* The provers enumerate an interval whose ends they know: SEQ_MOD is      *)
(* given by its bounds, and by its value only where a remainder needs it.  *)
LEMMA SeqMod == SEQ_MOD \in Nat /\ 65535 < SEQ_MOD /\ SEQ_MOD < 65537
  BY DEF SEQ_MOD

(* What ConstantsAssumption says, limit by limit.                          *)
LEMMA Limits ==
  /\ MaxChunk \in Nat /\ MaxChunk >= 30
  /\ MAX_BLOCKS_PER_CHUNK \in Nat /\ 1 <= MAX_BLOCKS_PER_CHUNK
  /\ MAX_BLOCKS_PER_CHUNK <= 63
  /\ TS_MOD \in Nat \ {0} /\ MaxSignals \in Nat
  /\ InitialSeqs \subseteq 0 .. SEQ_MOD - 1
  BY ConstantsAssumption DEF STEP

(* A number reduced to 16 bits; one that has 16 bits stays what it is.     *)
LEMMA SeqRange ==
  ASSUME NEW a \in Nat
  PROVE  /\ a % SEQ_MOD \in 0 .. SEQ_MOD - 1
         /\ a < SEQ_MOD => a % SEQ_MOD = a
<1>1. a % 65536 >= 0 /\ a % 65536 < 65536 /\ a % 65536 \in Nat
      /\ (a < 65536 => a % 65536 = a)
  OBVIOUS
<1>2. SEQ_MOD = 65536
  BY DEF SEQ_MOD
<1>3. /\ a % SEQ_MOD \in Nat /\ a % SEQ_MOD < SEQ_MOD
      /\ a < SEQ_MOD => a % SEQ_MOD = a
  BY <1>1, <1>2
<1> QED
  BY <1>3, SeqMod

(* Sequence numbers may be reduced at every step or once at the end.       *)
LEMMA SeqAdd ==
  ASSUME NEW a \in Nat, NEW b \in Nat
  PROVE  ((a % SEQ_MOD) + b) % SEQ_MOD = (a + b) % SEQ_MOD
<1>1. ((a % 65536) + b) % 65536 = (a + b) % 65536
  OBVIOUS
<1>2. SEQ_MOD = 65536
  BY DEF SEQ_MOD
<1> QED
  BY <1>1, <1>2

(* A number has one remainder.                                             *)
LEMMA OneRemainder ==
  ASSUME NEW t \in Nat \ {0}, NEW p \in Int, NEW q \in Int,
         NEW r \in 0 .. t - 1, NEW s \in 0 .. t - 1, t * p + r = t * q + s
  PROVE  r = s
<1>1. t * (p - q) = s - r
  OBVIOUS
<1>2. CASE p - q >= 1
  <2>1. t * (p - q) >= t
    BY <1>2
  <2> QED
    BY <1>1, <2>1
<1>3. CASE p - q <= -1
  <2>1. t * (p - q) <= -t
    BY <1>3
  <2> QED
    BY <1>1, <2>1
<1>4. CASE p = q
  BY <1>4
<1> QED
  BY <1>2, <1>3, <1>4

(* Timestamps, too, may be reduced at every step or once at the end.       *)
LEMMA TsAdd ==
  ASSUME NEW a \in Nat, NEW b \in Nat
  PROVE  /\ ((a % TS_MOD) + b) % TS_MOD = (a + b) % TS_MOD
         /\ a % TS_MOD \in 0 .. TS_MOD - 1
<1> DEFINE t == TS_MOD
           x == (a % t) + b
<1>1. t \in Nat \ {0}
  BY Limits
<1> HIDE DEF t
<1>2. \A y \in Nat : /\ y \div t \in Int /\ y % t \in 0 .. t - 1
                     /\ y = t * (y \div t) + (y % t)
  BY <1>1
<1>3. x \in Nat /\ a + b \in Nat
  BY <1>1, <1>2
<1>4. a + b = t * (a \div t) + x
  BY <1>1, <1>2
<1>5. /\ x = t * (x \div t) + (x % t)
      /\ a + b = t * ((a + b) \div t) + ((a + b) % t)
  BY <1>2, <1>3
<1>6. /\ x \div t \in Int /\ x % t \in 0 .. t - 1
      /\ (a + b) \div t \in Int /\ (a + b) % t \in 0 .. t - 1
      /\ a \div t \in Int /\ a % t \in 0 .. t - 1
  BY <1>2, <1>3
<1> HIDE DEF x
<1> DEFINE p == a \div t
           q == x \div t
           w == (a + b) \div t
           r == x % t
           u == (a + b) % t
<1> HIDE DEF p, q, w, r, u
<1>7. t * (p + q) + r = t * w + u
  <2>1. a + b = t * p + x /\ x = t * q + r /\ a + b = t * w + u
    BY <1>4, <1>5 DEF p, q, w, r, u
  <2>2. p \in Int /\ q \in Int /\ w \in Int /\ r \in Int /\ u \in Int
    BY <1>1, <1>6 DEF p, q, w, r, u
  <2>3. t * (p + q) = t * p + t * q
    BY <1>1, <2>2
  <2> QED
    BY <1>1, <1>3, <2>1, <2>2, <2>3
<1>8. r = u
  <2>1. p + q \in Int /\ w \in Int /\ r \in 0 .. t - 1 /\ u \in 0 .. t - 1
    BY <1>6 DEF p, q, w, r, u
  <2> QED
    BY <1>1, <1>7, <2>1, OneRemainder
<1> QED
  BY <1>6, <1>8 DEF t, x, r, u

-----------------------------------------------------------------------------
(* Facts about the state                                                   *)

(* Directories are sequences of non-empty files of non-empty frames.       *)
LEMMA FilesFacts ==
  ASSUME TypeOK
  PROVE  /\ files \in Seq(Seq(Seq(Nat)))
         /\ \A f \in DOMAIN files :
              /\ files[f] \in Seq(Seq(Nat)) /\ Len(files[f]) > 0
              /\ \A g \in DOMAIN files[f] :
                   /\ files[f][g] \in Seq(Nat)
                   /\ Len(files[f][g]) \in 1 .. SEQ_MOD - 1
<1>1. files \in Videos
  BY DEF TypeOK
<1>2. files \in Seq(Seq(Seq(Nat)))
  BY <1>1, VideosAssumption
<1>3. \A f \in DOMAIN files : files[f] \in Seq(Seq(Nat))
  BY <1>2
<1>4. \A f \in DOMAIN files : \A g \in DOMAIN files[f] : files[f][g] \in Seq(Nat)
  BY <1>3
<1> QED
  BY <1>1, <1>2, <1>3, <1>4, VideosAssumption

(* The frame being sent exists, and its block ids fit 16 bits.             *)
LEMMA FrameFacts ==
  ASSUME TypeOK, Position, InSender
  PROVE  /\ i \in DOMAIN files /\ frames_sent + 1 \in DOMAIN files[i]
         /\ Frame \in Seq(Nat) /\ BlocksInImage \in Nat
         /\ BlocksInImage >= 1 /\ BlocksInImage < SEQ_MOD
<1>1. i \in DOMAIN files /\ frames_sent + 1 \in DOMAIN files[i]
  BY DEF Position, InSender
<1>2. Frame \in Seq(Nat) /\ BlocksInImage \in 1 .. SEQ_MOD - 1
  BY <1>1, FilesFacts DEF Frame, BlocksInImage
<1> QED
  BY <1>1, <1>2, SeqMod

(* A step that sends nothing leaves the history of the wire alone.         *)
LEMMA WireKept == ASSUME WireOK, files' = files, wire' = wire PROVE WireOK'
  BY DEF WireOK, PacketOK, Full, Follows, NB, SameFrame, After

-----------------------------------------------------------------------------
(* The invariant holds initially and is kept by every action               *)

(* The transmitter starts in the invariant.                                *)
LEMMA SenderInitInv == Init => SenderInv
<1> SUFFICES ASSUME Init PROVE SenderInv
  OBVIOUS
<1>1. TypeOK
  <2>1. wire \in Seq(Packets)
    BY DEF Init
  <2>2. /\ 0 \in 0 .. SEQ_MOD - 1 /\ 0 \in 0 .. TS_MOD - 1
        /\ 0 \in 0 .. MAX_BLOCKS_PER_CHUNK /\ 0 \in 0 .. MaxSignals
        /\ initial_seq_num \in 0 .. SEQ_MOD - 1
    BY SeqMod, Limits DEF Init
  <2>3. i \in 0 .. Len(files)
    <3>1. files \in Seq(Seq(Seq(Nat)))
      BY VideosAssumption DEF Init
    <3> QED
      BY <3>1 DEF Init
  <2> QED
    BY <2>1, <2>2, <2>3 DEF Init, TypeOK, Points, HEADER_BYTES
<1>2. Position /\ ChunkState
  BY DEF Init, Position, ChunkState, InSender
<1>3. TsState
  BY Limits DEF Init, TsState, InSender, STEP
<1>4. WireOK /\ NextPacket
  BY DEF Init, WireOK, NextPacket, Ready
<1> QED
  BY <1>1, <1>2, <1>3, <1>4 DEF SenderInv

(* LHE_send_dir's own steps.                                               *)
LEMMA NextFileInv == ASSUME SenderInv, NextFile PROVE SenderInv'
<1> USE DEF NextFile, SenderInv, rtpVars, frameVars, chunkVars, stopVars, histVars
<1>1. i' \in DOMAIN files /\ i' = i + 1 /\ i \in Nat
  BY FilesFacts DEF TypeOK
<1>2. TypeOK'
  BY <1>1, FilesFacts DEF TypeOK, Points
<1>3. Position' /\ ChunkState'
  BY <1>1 DEF Position, ChunkState, InSender
<1>4. TsState'
  BY <1>1 DEF TsState, InSender
<1>5. WireOK'
  BY WireKept
<1>6. NextPacket'
  BY <1>1 DEF NextPacket, Ready, Last, After
<1> QED
  BY <1>2, <1>3, <1>4, <1>5, <1>6

(* Leaving LHE_send_dir's loop keeps the invariant.                        *)
LEMMA EndOfDirectoryInv == ASSUME SenderInv, EndOfDirectory PROVE SenderInv'
<1> USE DEF EndOfDirectory, SenderInv, dirVars, rtpVars, frameVars, chunkVars,
            histVars
<1>1. TypeOK'
  BY DEF TypeOK, Points
<1>2. Position' /\ ChunkState' /\ TsState' /\ NextPacket'
  BY DEF Position, ChunkState, TsState, NextPacket, InSender
<1> QED
  BY <1>1, <1>2, WireKept

(* The prologue of LHE_sender keeps it.                                    *)
LEMMA CallSenderInv == ASSUME SenderInv, CallSender PROVE SenderInv'
<1> USE DEF CallSender, SenderInv, dirVars, histVars
<1>1. i \in DOMAIN files /\ i \in Nat
  BY DEF Position, TypeOK
<1>2. 1 \in DOMAIN files[i] /\ Len(files[i][1]) >= 1
  BY <1>1, FilesFacts, SeqMod
<1>3. TypeOK'
  BY DEF TypeOK, Points, HEADER_BYTES
<1>4. Position'
  BY <1>1, <1>2 DEF Position, InSender
<1>5. ChunkState'
  BY <1>1, <1>2 DEF ChunkState, BlocksInImage, Frame
<1>6. TsState'
  <2>1. ts' = ((i - 1) * STEP) % TS_MOD
    BY DEF TsState
  <2>2. (i - 1) * STEP = (i - 1) * 3000 + ((0 + 1) - 1) * 818
    BY <1>1 DEF STEP
  <2> QED
    BY <2>1, <2>2 DEF TsState, Promise!TsOf, Promise!FileTs, Promise!FrameTs
<1>7. WireOK'
  BY WireKept
<1>8. NextPacket'
  <2>1. initial_seq_num % SEQ_MOD = initial_seq_num
    <3>1. initial_seq_num \in Nat /\ initial_seq_num < SEQ_MOD
      BY SeqMod DEF TypeOK
    <3> QED
      BY <3>1, SeqRange
  <2>2. initial_seq_num + 0 = initial_seq_num
    BY SeqMod DEF TypeOK
  <2>3. Ready(i - 1)'
    BY DEF NextPacket, Ready, Last, After
  <2> QED
    BY <2>1, <2>2, <2>3 DEF NextPacket
<1> QED
  BY <1>3, <1>4, <1>5, <1>6, <1>7, <1>8

(* Adding up the packet count of a file keeps it.                          *)
LEMMA FileSentInv == ASSUME SenderInv, FileSent PROVE SenderInv'
<1> USE DEF FileSent, SenderInv, rtpVars, frameVars, chunkVars, histVars
<1>1. i \in DOMAIN files /\ i \in Nat /\ i >= 1
  BY FilesFacts DEF Position, TypeOK
<1>2. initial_seq_num \in Nat /\ retval \in Nat
  BY SeqMod DEF TypeOK
<1>3. initial_seq_num' \in 0 .. SEQ_MOD - 1
  <2>1. initial_seq_num + retval \in Nat
    BY <1>2
  <2> QED
    BY <2>1, SeqRange DEF NextFileSeq
<1>4. initial_ts' = (i * STEP) % TS_MOD /\ initial_ts' \in 0 .. TS_MOD - 1
  <2>1. initial_ts' = ((((i - 1) * STEP) % TS_MOD) + STEP) % TS_MOD
    BY DEF TsState
  <2>2. (i - 1) * STEP \in Nat /\ STEP \in Nat /\ (i - 1) * STEP + STEP = i * STEP
    BY <1>1 DEF STEP
  <2>3. i * STEP \in Nat
    BY <1>1 DEF STEP
  <2> QED
    BY <2>1, <2>2, <2>3, TsAdd
<1>5. TypeOK'
  BY <1>3, <1>4 DEF TypeOK, Points
<1>6. Position' /\ ChunkState' /\ TsState'
  BY <1>4 DEF Position, ChunkState, TsState, InSender
<1>7. WireOK'
  BY WireKept
<1>8. NextPacket'
  BY DEF NextPacket, Ready, Counted, Last, After, NextFileSeq
<1> QED
  BY <1>5, <1>6, <1>7, <1>8

(* LHE_sender's loop, without sending.                                     *)
LEMMA StartChunkInv == ASSUME SenderInv, StartChunk PROVE SenderInv'
<1> USE DEF StartChunk, SenderInv, dirVars, rtpVars, frameVars, stopVars, histVars
<1>1. TypeOK'
  BY Limits DEF TypeOK, Points
<1>2. Position'
  BY DEF Position, InSender
<1>3. ChunkState'
  <2>1. /\ blocks_read = first_block_id /\ first_block_id < BlocksInImage
        /\ M = 0 /\ used = HEADER_BYTES
    BY DEF ChunkState
  <2>2. BlocksInImage \in Nat /\ first_block_id \in Nat
    BY FrameFacts DEF InSender, TypeOK
  <2>3. BlocksInImage' = BlocksInImage
    BY DEF BlocksInImage, Frame
  <2> QED
    BY <2>1, <2>2, <2>3, Limits DEF ChunkState, HEADER_BYTES
<1>4. TsState'
  BY DEF TsState, InSender, Promise!TsOf
<1>5. WireOK'
  BY WireKept
<1>6. NextPacket'
  BY DEF NextPacket, Ready, Counted, Last, After, NB
<1> QED
  BY <1>1, <1>2, <1>3, <1>4, <1>5, <1>6

(* Every way out of LHE_sender's loop keeps it.                            *)
LEMMA LeaveLoopInv ==
  ASSUME SenderInv, LeaveLoop \/ SendInterrupted \/ SendError PROVE SenderInv'
<1> USE DEF LeaveLoop, SendInterrupted, SendError, SenderInv, dirVars, rtpVars,
            frameVars, chunkVars, stopVars, histVars
<1>1. TypeOK'
  BY DEF TypeOK, Points
<1>2. Position' /\ ChunkState' /\ TsState'
  BY DEF Position, ChunkState, TsState, InSender
<1>3. WireOK'
  BY WireKept
<1>4. NextPacket'
  BY DEF NextPacket
<1> QED
  BY <1>1, <1>2, <1>3, <1>4

(* Copying a block into the chunk keeps it.                                *)
LEMMA TakeBlockInv == ASSUME SenderInv, TakeBlock PROVE SenderInv'
<1> USE DEF TakeBlock, SenderInv, dirVars, rtpVars, stopVars, histVars
<1>1. /\ blocks_read \in Nat /\ blocks_in_chunk \in Nat /\ used \in Nat
      /\ first_block_id \in Nat
      /\ blocks_read < BlocksInImage /\ blocks_in_chunk < MAX_BLOCKS_PER_CHUNK
  BY Limits DEF TypeOK, Fits, CanTake
<1>2. Frame \in Seq(Nat) /\ BlocksInImage \in Nat /\ BlocksInImage = Len(Frame)
  BY FrameFacts DEF InSender, BlocksInImage
<1>3. NewUsed \in Nat
  <2>1. Frame[blocks_read + 1] \in Nat
    BY <1>1, <1>2
  <2> QED
    BY <1>1, <2>1 DEF NewUsed, BlockLen, BLOCK_HEADER
<1>4. TypeOK'
  <2>1. blocks_in_chunk' \in 0 .. MAX_BLOCKS_PER_CHUNK /\ blocks_read' \in Nat
        /\ used' \in Nat
    BY <1>1, <1>3, Limits
  <2> QED
    BY <2>1 DEF TypeOK, Points
<1>5. Position'
  BY DEF Position, InSender
<1>6. ChunkState'
  <2>1. BlocksInImage' = BlocksInImage
    BY DEF BlocksInImage, Frame
  <2>2. /\ blocks_read = first_block_id + blocks_in_chunk
        /\ first_block_id < BlocksInImage /\ M = 0
    BY DEF ChunkState
  <2>3. used' <= MaxChunk \/ blocks_in_chunk' = 1
    BY <1>1 DEF Fits
  <2> QED
    BY <1>1, <1>2, <2>1, <2>2, <2>3 DEF ChunkState
<1>7. TsState'
  BY DEF TsState, InSender, Promise!TsOf
<1>8. WireOK'
  BY WireKept
<1>9. NextPacket'
  BY DEF NextPacket, Ready, Counted, Last, After, NB
<1> QED
  BY <1>4, <1>5, <1>6, <1>7, <1>8, <1>9

(* Giving the file up at a block too big keeps it.                         *)
LEMMA RefuseBlockInv == ASSUME SenderInv, RefuseBlock PROVE SenderInv'
<1> USE DEF RefuseBlock, SenderInv, dirVars, rtpVars, frameVars, chunkVars,
            stopVars, histVars
<1>1. TypeOK'
  BY DEF TypeOK, Points
<1>2. Position' /\ ChunkState' /\ TsState'
  BY DEF Position, ChunkState, TsState, InSender
<1>3. WireOK'
  BY WireKept
<1>4. NextPacket'
  BY DEF NextPacket, Counted, Last, After
<1> QED
  BY <1>1, <1>2, <1>3, <1>4

(* The epilogue of LHE_sender keeps it.                                    *)
LEMMA ReturnInv == ASSUME SenderInv, Return PROVE SenderInv'
<1> USE DEF Return, SenderInv, dirVars, rtpVars, frameVars, chunkVars, histVars
<1>1. TypeOK'
  BY DEF TypeOK, Points, Answer
<1>2. Position' /\ ChunkState' /\ TsState'
  BY DEF Position, ChunkState, TsState, InSender
<1>3. WireOK'
  BY WireKept
<1>4. NextPacket'
  BY DEF NextPacket, Counted, Last, After, Answer
<1> QED
  BY <1>1, <1>2, <1>3, <1>4

(* A signal at any point keeps it.                                         *)
LEMMA SigIntInv == ASSUME SenderInv, SigInt PROVE SenderInv'
<1> USE DEF SigInt, SenderInv, dirVars, rtpVars, frameVars, chunkVars, histVars
<1>1. TypeOK'
  BY Limits DEF TypeOK
<1>2. Position' /\ ChunkState' /\ TsState'
  BY DEF Position, ChunkState, TsState, InSender, BlocksInImage, Frame,
         Promise!TsOf
<1>3. WireOK'
  BY WireKept
<1>4. NextPacket'
  BY DEF NextPacket, Ready, Counted, Last, After, NB, TypeOK
<1> QED
  BY <1>1, <1>2, <1>3, <1>4

-----------------------------------------------------------------------------
(* Sending                                                                 *)

(* A chunk is closed only when it holds a block (assert(blocks_in_chunk != *)
(* 0)), and the header fields hold the numbers they are given.             *)
LEMMA ChunkFacts ==
  ASSUME SenderInv, SendChunk
  PROVE  /\ blocks_in_chunk \in 1 .. MAX_BLOCKS_PER_CHUNK
         /\ first_block_id \in Nat /\ first_block_id < BlocksInImage
         /\ first_block_id' = blocks_read
         /\ first_block_id' = first_block_id + blocks_in_chunk
         /\ first_block_id' <= BlocksInImage
         /\ M' \in {0, 1} /\ (M' = 1 <=> first_block_id' = BlocksInImage)
         /\ FirstBlockId = first_block_id /\ blocks_in_chunk % 64 = blocks_in_chunk
         /\ used <= MaxChunk \/ blocks_in_chunk = 1
<1> USE DEF SenderInv
<1>1. /\ pc = "chunk" /\ ~Fits /\ M' = Marker
      /\ first_block_id' = first_block_id + blocks_in_chunk
  BY DEF SendChunk
<1>2. /\ blocks_read = first_block_id + blocks_in_chunk
      /\ blocks_read <= BlocksInImage /\ first_block_id < BlocksInImage
      /\ M = 0 /\ (blocks_in_chunk = 0 => used = HEADER_BYTES)
      /\ used <= MaxChunk \/ blocks_in_chunk = 1
  BY <1>1 DEF ChunkState
<1>3. /\ first_block_id \in Nat /\ blocks_in_chunk \in Nat
      /\ blocks_in_chunk <= MAX_BLOCKS_PER_CHUNK
  BY Limits DEF TypeOK
<1>4. BlocksInImage \in Nat /\ BlocksInImage < SEQ_MOD
  BY <1>1, FrameFacts DEF InSender
<1>5. blocks_in_chunk # 0
  <2> SUFFICES ASSUME blocks_in_chunk = 0 PROVE FALSE
    OBVIOUS
  <2>1. CanTake
    BY <1>2, <1>3, <1>4, Limits DEF CanTake, HEADER_BYTES
  <2> QED
    BY <1>1, <2>1 DEF Fits
<1>6. blocks_in_chunk \in 1 .. MAX_BLOCKS_PER_CHUNK /\ blocks_in_chunk % 64 = blocks_in_chunk
  BY <1>3, <1>5, Limits
<1>7. FirstBlockId = first_block_id
  <2>1. first_block_id < SEQ_MOD
    BY <1>2, <1>3, <1>4, SeqMod
  <2> QED
    BY <1>3, <2>1, SeqRange DEF FirstBlockId
<1>8. M' \in {0, 1} /\ (M' = 1 <=> first_block_id' = BlocksInImage)
  BY <1>1, <1>2 DEF Marker
<1> QED
  BY <1>1, <1>2, <1>3, <1>6, <1>7, <1>8

(* The packet of a chunk, as it goes out.                                  *)
Sent == [seq |-> seq_num, ts |-> ts, m |-> M', file |-> i,
         frame |-> frames_sent + 1, fb |-> first_block_id,
         n |-> blocks_in_chunk, size |-> used]

(* It is the packet the code builds, and a correct one.                    *)
LEMMA SentFacts ==
  ASSUME SenderInv, SendChunk
  PROVE  /\ Packet = Sent /\ Sent \in Packets
         /\ Sent.fb + Sent.n = first_block_id' /\ NB(Sent) = BlocksInImage
         /\ PacketOK(Sent)
<1> USE DEF SenderInv
<1>1. Packet = Sent
  BY ChunkFacts DEF Packet, Sent
<1>2. NB(Sent) = BlocksInImage
  BY DEF NB, Sent, BlocksInImage, Frame
<1>3. pc = "chunk"
  BY DEF SendChunk
<1>4. /\ i \in DOMAIN files /\ frames_sent + 1 \in DOMAIN files[i]
      /\ BlocksInImage \in Nat /\ BlocksInImage < SEQ_MOD
  BY <1>3, FrameFacts DEF InSender
<1>5. Sent \in Packets
  <2>1. first_block_id \in 0 .. SEQ_MOD - 1
    BY <1>4, ChunkFacts, SeqMod
  <2>2. blocks_in_chunk \in 0 .. 63
    BY ChunkFacts, Limits
  <2>3. /\ seq_num \in 0 .. SEQ_MOD - 1 /\ ts \in 0 .. TS_MOD - 1 /\ M' \in {0, 1}
        /\ i \in Nat /\ frames_sent + 1 \in Nat /\ used \in Nat
    BY <1>4, FilesFacts, ChunkFacts DEF TypeOK
  <2> QED
    BY <2>1, <2>2, <2>3 DEF Sent, Packets
<1>6. Sent.fb + Sent.n = first_block_id'
  BY ChunkFacts DEF Sent
<1>7. Full(Sent)
  <2>1. /\ blocks_read = first_block_id + blocks_in_chunk
        /\ blocks_read \in Nat /\ blocks_read <= BlocksInImage
        /\ used \in Nat /\ blocks_in_chunk \in Nat /\ blocks_in_chunk # 0
        /\ blocks_in_chunk <= MAX_BLOCKS_PER_CHUNK
    BY <1>3, ChunkFacts, Limits DEF ChunkState, TypeOK
  <2>2. CASE blocks_read = BlocksInImage
    BY <1>2, <1>6, <2>1, <2>2, ChunkFacts DEF Full
  <2>3. CASE blocks_read < BlocksInImage
    <3>1. BlockLen \in Nat
      <4>1. Frame \in Seq(Nat) /\ Len(Frame) = BlocksInImage
        BY <1>3, FrameFacts DEF InSender, BlocksInImage
      <4>2. blocks_read + 1 \in 1 .. Len(Frame)
        BY <1>4, <2>1, <2>3, <4>1
      <4> QED
        BY <4>1, <4>2 DEF BlockLen
    <3>2. ~CanTake \/ NewUsed > MaxChunk
      <4>1. pc = "chunk" /\ ~Fits
        BY DEF SendChunk
      <4> QED
        BY <2>1, <3>1, <4>1, Limits DEF Fits, NewUsed, BLOCK_HEADER
    <3>3. blocks_in_chunk = MAX_BLOCKS_PER_CHUNK \/ used + BLOCK_HEADER + BlockLen > MaxChunk
      BY <2>1, <2>3, <3>1, <3>2, Limits DEF CanTake, NewUsed, BLOCK_HEADER
    <3>4. /\ Sent.n = blocks_in_chunk /\ Sent.size = used
          /\ files[Sent.file][Sent.frame][Sent.fb + Sent.n + 1] = BlockLen
      BY <2>1 DEF Sent, BlockLen, Frame
    <3> QED
      BY <3>3, <3>4 DEF Full
  <2> QED
    BY <1>4, <2>1, <2>2, <2>3
<1>8. PacketOK(Sent)
  BY <1>2, <1>4, <1>6, <1>7, ChunkFacts DEF PacketOK, Sent
<1> QED
  BY <1>1, <1>2, <1>5, <1>6, <1>8

(* It follows the packet before it, or opens the stream.                   *)
LEMMA SentFollows ==
  ASSUME SenderInv, SendChunk
  PROVE  /\ wire # <<>> => Follows(Last, Sent)
         /\ wire = <<>> => /\ Sent.fb = 0 /\ Sent.file = 1 /\ Sent.frame = 1
                           /\ Sent.seq \in InitialSeqs
<1> USE DEF SenderInv
<1>1. pc = "chunk"
  BY DEF SendChunk
<1>2. i \in Nat /\ frames_sent \in Nat /\ initial_seq_num \in Nat
  BY FilesFacts, SeqMod DEF TypeOK
<1>3. CASE /\ packets_sent = 0 /\ frames_sent = 0 /\ first_block_id = 0
           /\ seq_num = initial_seq_num
           /\ Ready(i - 1)
  BY <1>2, <1>3 DEF Ready, Follows, Sent, SameFrame
<1>4. CASE /\ seq_num = (initial_seq_num + packets_sent) % SEQ_MOD
           /\ Counted(packets_sent)
           /\ \/ /\ Last.frame = frames_sent + 1
                 /\ Last.fb + Last.n = first_block_id
              \/ /\ Last.frame = frames_sent
                 /\ Last.fb + Last.n = NB(Last) /\ first_block_id = 0
  BY <1>2, <1>4 DEF Counted, Follows, Sent, SameFrame
<1> QED
  BY <1>1, <1>3, <1>4 DEF NextPacket

(* Sending a chunk, or failing to, keeps the invariant.                    *)
LEMMA SendChunkInv == ASSUME SenderInv, SendChunk PROVE SenderInv'
<1> USE DEF SenderInv
<1>1. /\ pc = "chunk" /\ pc' \in {"sent", "failed"}
      /\ first_block_id' = first_block_id + blocks_in_chunk /\ M' = Marker
      /\ UNCHANGED <<dirVars, seq_num, ts, frames_sent, packets_sent, blocks_read,
                     chunkVars, stopVars, retval>>
      /\ \/ /\ wire' = Append(wire, Sent) /\ late_sends' \in Nat
            /\ pc' = "sent"
         \/ UNCHANGED histVars /\ pc' = "failed"
  <2>1. late_sends \in Nat
    BY DEF TypeOK
  <2>2. late_sends + (IF told THEN 1 ELSE 0) \in Nat
    BY <2>1
  <2>3. Packet = Sent
    BY SentFacts
  <2> HIDE DEF SenderInv
  <2> QED
    BY <2>2, <2>3 DEF SendChunk
<1> USE DEF dirVars, chunkVars, stopVars, histVars
<1>2. TypeOK'
  <2>1. wire' \in Seq(Packets) /\ late_sends' \in Nat
    <3>1. wire \in Seq(Packets) /\ late_sends \in Nat /\ Sent \in Packets
      BY SentFacts DEF TypeOK
    <3>2. Append(wire, Sent) \in Seq(Packets)
      BY <3>1
    <3> HIDE DEF SenderInv
    <3> QED
      BY <1>1, <3>1, <3>2
  <2>2. first_block_id' \in Nat /\ M' \in {0, 1}
    BY ChunkFacts DEF TypeOK
  <2> QED
    BY <1>1, <2>1, <2>2 DEF TypeOK, Points
<1>3. Position'
  BY <1>1 DEF Position, InSender
<1>4. ChunkState'
  <2>1. BlocksInImage' = BlocksInImage
    BY <1>1 DEF BlocksInImage, Frame
  <2> QED
    BY <1>1, <2>1, ChunkFacts DEF ChunkState
<1>5. TsState'
  BY <1>1 DEF TsState, InSender, Promise!TsOf
<1>6. CASE wire' = Append(wire, Sent) /\ pc' = "sent"
  <2>1. /\ wire \in Seq(Packets) /\ Len(wire') = Len(wire) + 1
        /\ \A k \in 1 .. Len(wire) : wire'[k] = wire[k]
        /\ wire'[Len(wire) + 1] = Sent /\ Len(wire) \in Nat
    BY <1>6, SentFacts DEF TypeOK
  <2>2. WireOK'
    <3>1. \A k \in DOMAIN wire' : PacketOK(wire'[k])
      <4> SUFFICES ASSUME NEW k \in 1 .. Len(wire) + 1 PROVE PacketOK(wire'[k])
        BY <1>6, <2>1
      <4>1. CASE k = Len(wire) + 1
        BY <2>1, <4>1, SentFacts
      <4>2. CASE k \in 1 .. Len(wire)
        <5>1. k \in DOMAIN wire
          BY <2>1, <4>2
        <5> QED
          BY <2>1, <4>2, <5>1 DEF WireOK
      <4> QED
        BY <2>1, <4>1, <4>2
    <3>2. wire'[1].fb = 0
      BY <1>6, <2>1, SentFollows DEF WireOK
    <3>3. \A k \in 1 .. Len(wire') - 1 : Follows(wire'[k], wire'[k + 1])
      <4> SUFFICES ASSUME NEW k \in 1 .. Len(wire') - 1
                   PROVE  Follows(wire'[k], wire'[k + 1])
        OBVIOUS
      <4>1. CASE k = Len(wire)
        BY <2>1, <4>1, SentFollows DEF Last
      <4>2. CASE k < Len(wire)
        BY <2>1, <4>2 DEF WireOK
      <4> QED
        BY <2>1, <4>1, <4>2
    <3>4. files' = files
      BY <1>1
    <3> QED
      BY <3>1, <3>2, <3>3, <3>4 DEF WireOK, PacketOK, Full, Follows, NB, SameFrame, After
  <2>3. NextPacket'
    <3>1. Last' = Sent /\ wire' # <<>>
      BY <2>1 DEF Last
    <3>2. /\ i' = i /\ frames_sent' = frames_sent /\ seq_num' = seq_num
          /\ initial_seq_num' = initial_seq_num /\ packets_sent' = packets_sent
      BY <1>1
    <3>4. Sent.m = M'
      BY DEF Sent
    <3>3. seq_num = (initial_seq_num + packets_sent) % SEQ_MOD
      BY <1>1 DEF NextPacket
    <3> QED
      BY <1>6, <3>1, <3>2, <3>3, <3>4, SentFacts DEF NextPacket, Sent
  <2> QED
    BY <1>2, <1>3, <1>4, <1>5, <2>2, <2>3
<1>7. CASE UNCHANGED histVars /\ pc' = "failed"
  <2>1. WireOK'
    BY <1>1, <1>7, WireKept
  <2>2. NextPacket'
    BY <1>7 DEF NextPacket
  <2> QED
    BY <1>2, <1>3, <1>4, <1>5, <2>1, <2>2
<1> QED
  BY <1>1, <1>6, <1>7

(* Counting a packet that has gone out.                                    *)
LEMMA CountPacketFacts ==
  ASSUME SenderInv, CountPacket, initial_seq_num' = initial_seq_num,
         wire' = wire, i' = i
  PROVE  /\ seq_num' \in 0 .. SEQ_MOD - 1 /\ packets_sent' \in Nat
         /\ packets_sent' > 0
         /\ seq_num' = (initial_seq_num + packets_sent') % SEQ_MOD
         /\ wire # <<>> /\ Last.file = i
         /\ (initial_seq_num + packets_sent') % SEQ_MOD = After(Last)
         /\ Last.frame = frames_sent + 1 /\ Last.fb + Last.n = first_block_id
<1> USE DEF SenderInv
<1>1. /\ pc = "sent" /\ seq_num' = (seq_num + 1) % SEQ_MOD
      /\ packets_sent' = packets_sent + 1
  BY DEF CountPacket, NextSeq
<1>2. /\ wire # <<>> /\ Last.file = i /\ Last.frame = frames_sent + 1
      /\ Last.seq = seq_num /\ Last.fb + Last.n = first_block_id
      /\ seq_num = (initial_seq_num + packets_sent) % SEQ_MOD
  BY <1>1 DEF NextPacket
<1>3. /\ initial_seq_num \in Nat /\ packets_sent \in Nat /\ seq_num \in Nat
  BY SeqMod DEF TypeOK
<1>4. seq_num' \in 0 .. SEQ_MOD - 1
  <2>1. seq_num + 1 \in Nat
    BY <1>3
  <2> QED
    BY <1>1, <2>1, SeqRange
<1>5. seq_num' = (initial_seq_num + packets_sent') % SEQ_MOD
  <2>1. initial_seq_num + packets_sent \in Nat
        /\ (initial_seq_num + packets_sent) + 1 = initial_seq_num + packets_sent'
    BY <1>1, <1>3
  <2>2. (((initial_seq_num + packets_sent) % SEQ_MOD) + 1) % SEQ_MOD
          = ((initial_seq_num + packets_sent) + 1) % SEQ_MOD
    BY <2>1, SeqAdd
  <2> QED
    BY <1>1, <1>2, <2>1, <2>2
<1>6. (initial_seq_num + packets_sent') % SEQ_MOD = After(Last)
  BY <1>1, <1>2, <1>5 DEF After
<1>7. packets_sent' \in Nat /\ packets_sent' > 0
  BY <1>1, <1>3
<1> QED
  BY <1>2, <1>4, <1>5, <1>6, <1>7

(* Going on with the frame keeps it.                                       *)
LEMMA NextChunkInv == ASSUME SenderInv, NextChunk PROVE SenderInv'
<1> USE DEF NextChunk, SenderInv, dirVars, stopVars, histVars
<1>1. /\ pc = "sent" /\ pc' = "loop" /\ used' = HEADER_BYTES
      /\ first_block_id < BlocksInImage
  BY DEF CountPacket
<1>2. TypeOK'
  <2>1. used' \in Nat
    BY <1>1 DEF HEADER_BYTES
  <2> QED
    BY <1>1, <2>1, CountPacketFacts DEF TypeOK, Points
<1>3. Position'
  BY <1>1 DEF Position, InSender
<1>4. M' = 0
  <2>1. /\ wire # <<>> /\ Last.m = M /\ NB(Last) = BlocksInImage
        /\ Last.fb + Last.n = first_block_id
    BY <1>1 DEF NextPacket, NB, BlocksInImage, Frame
  <2>2. PacketOK(Last)
    <3>1. Len(wire) \in DOMAIN wire
      BY <2>1 DEF TypeOK
    <3> QED
      BY <3>1 DEF WireOK, Last
  <2>3. first_block_id \in Nat /\ BlocksInImage \in Nat
    BY <1>1, FrameFacts DEF TypeOK, InSender
  <2> QED
    BY <1>1, <2>1, <2>2, <2>3 DEF PacketOK, TypeOK
<1>5. ChunkState'
  <2>1. BlocksInImage' = BlocksInImage
    BY DEF BlocksInImage, Frame
  <2> QED
    BY <1>1, <1>4, <2>1 DEF ChunkState
<1>6. TsState'
  BY <1>1 DEF TsState, InSender, Promise!TsOf
<1>7. WireOK'
  BY WireKept
<1>8. NextPacket'
  <2>1. Last' = Last
    BY DEF Last
  <2>2. Counted(packets_sent)'
    BY <2>1, CountPacketFacts DEF Counted, After
  <2> QED
    BY <1>1, <2>1, <2>2, CountPacketFacts DEF NextPacket
<1> QED
  BY <1>2, <1>3, <1>5, <1>6, <1>7, <1>8

(* Going on to the next frame keeps it.                                    *)
LEMMA NextFrameInv == ASSUME SenderInv, NextFrame PROVE SenderInv'
<1> USE DEF NextFrame, SenderInv, dirVars, stopVars, histVars
<1>1. /\ pc = "sent" /\ pc' = "loop" /\ used' = HEADER_BYTES
      /\ first_block_id >= BlocksInImage
  BY DEF CountPacket
<1>2. /\ i \in DOMAIN files /\ frames_sent + 1 \in DOMAIN files[i]
      /\ BlocksInImage \in Nat /\ frames_sent \in Nat /\ i \in Nat
  BY <1>1, FrameFacts, FilesFacts DEF InSender, TypeOK
<1>3. frames_sent' + 1 \in DOMAIN files[i] /\ Len(files[i][frames_sent' + 1]) >= 1
  <2>1. frames_sent' + 1 \in DOMAIN files[i]
    BY <1>2, FilesFacts DEF MoreFrames
  <2> QED
    BY <1>2, <2>1, FilesFacts, SeqMod
<1>4. ts' = Promise!TsOf(i, frames_sent' + 1) /\ ts' \in 0 .. TS_MOD - 1
  <2> DEFINE a == (i - 1) * 3000 + ((frames_sent + 1) - 1) * 818
             b == (i - 1) * 3000 + ((frames_sent' + 1) - 1) * 818
  <2>1. ts = a % TS_MOD
    BY <1>1 DEF TsState, InSender, Promise!TsOf, Promise!FileTs, Promise!FrameTs
  <2>2. a \in Nat /\ b \in Nat /\ a + 818 = b
    <3>1. i >= 1
      BY <1>2, FilesFacts
    <3> QED
      BY <1>2, <3>1
  <2>3. ts' = ((a % TS_MOD) + 818) % TS_MOD
    BY <2>1 DEF NextFrameTs, TS_STEP
  <2>4. Promise!TsOf(i, frames_sent' + 1) = b % TS_MOD
    BY DEF Promise!TsOf, Promise!FileTs, Promise!FrameTs
  <2> HIDE DEF a, b
  <2>5. ((a % TS_MOD) + 818) % TS_MOD = b % TS_MOD
    BY <2>2, TsAdd
  <2> QED
    BY <2>2, <2>3, <2>4, <2>5, TsAdd
<1>5. TypeOK'
  <2>1. used' \in Nat
    BY <1>1 DEF HEADER_BYTES
  <2>2. seq_num' \in 0 .. SEQ_MOD - 1 /\ packets_sent' \in Nat
    BY CountPacketFacts
  <2>3. frames_sent' \in Nat /\ M' \in {0, 1} /\ ts' \in 0 .. TS_MOD - 1
    BY <1>2, <1>4
  <2> QED
    BY <1>1, <2>1, <2>2, <2>3 DEF TypeOK, Points
<1>6. Position'
  BY <1>1, <1>2, <1>3 DEF Position, InSender
<1>7. ChunkState'
  BY <1>1, <1>3 DEF ChunkState, BlocksInImage, Frame
<1>8. TsState'
  BY <1>1, <1>4 DEF TsState, InSender, Promise!TsOf
<1>9. WireOK'
  BY WireKept
<1>10. NextPacket'
  <2>1. Last' = Last
    BY DEF Last
  <2>2. Last.file = i /\ Last.frame = frames_sent + 1
        /\ Last.fb + Last.n = first_block_id
    BY <1>1 DEF NextPacket
  <2>3. NB(Last) = BlocksInImage
    BY <2>2 DEF NB, BlocksInImage, Frame
  <2>4. first_block_id = BlocksInImage
    BY <1>1, <1>2 DEF ChunkState, TypeOK
  <2>5. NB(Last)' = NB(Last)
    BY <2>1 DEF NB
  <2>6. Counted(packets_sent)'
    BY <2>1, CountPacketFacts DEF Counted, After
  <2> QED
    BY <1>1, <2>1, <2>2, <2>3, <2>4, <2>5, <2>6, CountPacketFacts DEF NextPacket
<1> QED
  BY <1>5, <1>6, <1>7, <1>8, <1>9, <1>10

(* Ending the file keeps it.                                               *)
LEMMA LastFrameInv == ASSUME SenderInv, LastFrame PROVE SenderInv'
<1> USE DEF LastFrame, SenderInv, dirVars, stopVars, histVars
<1>1. pc = "sent" /\ pc' = "return" /\ used' = HEADER_BYTES
  BY DEF CountPacket
<1>2. TypeOK'
  <2>1. used' \in Nat /\ frames_sent' \in Nat
    BY <1>1 DEF HEADER_BYTES, TypeOK
  <2> QED
    BY <1>1, <2>1, CountPacketFacts DEF TypeOK, Points
<1>3. Position' /\ ChunkState' /\ TsState'
  BY <1>1 DEF Position, ChunkState, TsState, InSender
<1>4. WireOK'
  BY WireKept
<1>5. NextPacket'
  <2>1. Last' = Last
    BY DEF Last
  <2>2. Counted(packets_sent)'
    BY <2>1, CountPacketFacts DEF Counted, After
  <2> QED
    BY <1>1, <2>2, CountPacketFacts DEF NextPacket
<1> QED
  BY <1>2, <1>3, <1>4, <1>5

(* Every step of the transmitter keeps it.                                 *)
LEMMA SenderStepInv == ASSUME SenderInv, [Next]_vars PROVE SenderInv'
<1>1. CASE UNCHANGED vars
  <2>1. /\ UNCHANGED <<files, i, initial_seq_num, initial_ts, retval, pack_stop>>
        /\ UNCHANGED <<stop, handler, pc, seq_num, ts, M, used, frames_sent>>
        /\ UNCHANGED <<packets_sent, first_block_id, blocks_read, wire>>
        /\ UNCHANGED <<blocks_in_chunk, signals, told, late_sends>>
    BY <1>1 DEF vars, dirVars, rtpVars, frameVars, chunkVars, stopVars, histVars
  <2>2. TypeOK' /\ Position' /\ ChunkState'
    BY <2>1 DEF SenderInv, TypeOK, Position, ChunkState, InSender, BlocksInImage,
                Frame
  <2>3. TsState'
    BY <2>1 DEF SenderInv, TsState, InSender, Promise!TsOf
  <2>4. WireOK'
    BY <2>1, WireKept DEF SenderInv
  <2>5. NextPacket'
    BY <2>1 DEF SenderInv, NextPacket, Ready, Counted, Last, After, NB
  <2> QED
    BY <2>2, <2>3, <2>4, <2>5 DEF SenderInv
<1>2. CASE SendDir
  BY <1>2, NextFileInv, EndOfDirectoryInv, CallSenderInv, FileSentInv DEF SendDir
<1>3. CASE Sender
  BY <1>3, StartChunkInv, LeaveLoopInv, TakeBlockInv, RefuseBlockInv, SendChunkInv,
     NextChunkInv, NextFrameInv, LastFrameInv, ReturnInv DEF Sender
<1>4. CASE SigInt
  BY <1>4, SigIntInv
<1> QED
  BY <1>1, <1>2, <1>3, <1>4 DEF Next


(* The inductive invariant holds in every state the transmitter reaches.   *)
LEMMA SenderInvAlways == Spec => []SenderInv
  BY SenderInitInv, SenderStepInv, PTL DEF Spec

-----------------------------------------------------------------------------
(* The invariants the runs check                                           *)

(* LHE_send_dir and LHE_sender keep every variable in its range.           *)
THEOREM SenderTypeCorrect == Spec => []TypeOK
  BY SenderInvAlways, PTL DEF SenderInv

(* The packets LHE_sender puts on the wire tile the frames.                *)
THEOREM ChunksAlwaysTile == Spec => []ChunksTile
<1>1. SenderInv => ChunksTile
  <2> SUFFICES ASSUME SenderInv PROVE ChunksTile
    OBVIOUS
  <2>1. wire \in Seq(Packets)
    BY DEF SenderInv, TypeOK
  <2>2. Len(wire) > 0 => wire[1].fb = 0
    BY <2>1 DEF SenderInv, WireOK
  <2>3. ASSUME NEW k \in 1 .. Len(wire) - 1
        PROVE  IF SameFrame(wire[k], wire[k + 1])
               THEN wire[k + 1].fb = wire[k].fb + wire[k].n
               ELSE /\ wire[k + 1].fb = 0
                    /\ \/ wire[k].fb + wire[k].n = NB(wire[k])
                       \/ wire[k + 1].file > wire[k].file
    <3>1. Follows(wire[k], wire[k + 1])
      BY DEF SenderInv, WireOK
    <3>2. wire[k] \in Packets /\ wire[k + 1] \in Packets
      BY <2>1
    <3>3. /\ wire[k].file \in Nat /\ wire[k].frame \in Nat
          /\ wire[k + 1].file \in Nat /\ wire[k + 1].frame \in Nat
      BY <3>2 DEF Packets
    <3> QED
      BY <3>1, <3>3 DEF Follows, SameFrame
  <2> QED
    BY <2>2, <2>3 DEF ChunksTile
<1> QED
  BY <1>1, SenderInvAlways, PTL

(* LHE_sender sets the marker on the last packet of a frame, on no other.  *)
THEOREM MarkerAlwaysOnLastChunk == Spec => []MarkerOnLastChunk
<1>1. SenderInv => MarkerOnLastChunk
  BY DEF SenderInv, WireOK, PacketOK, MarkerOnLastChunk
<1> QED
  BY <1>1, SenderInvAlways, PTL

(* Every packet of LHE_sender carries 1 to 63 blocks, and exceeds          *)
(* --max-chunk-size only with a single one.                                *)
THEOREM ChunksAlwaysBounded == Spec => []ChunkBounds
<1>1. SenderInv => ChunkBounds
  BY DEF SenderInv, WireOK, PacketOK, ChunkBounds
<1> QED
  BY <1>1, SenderInvAlways, PTL

(* Sequence numbers run on, modulo 2^16, within files and across them,     *)
(* after refused blocks too.                                               *)
THEOREM SeqAlwaysConsecutive == Spec => []SeqConsecutive
<1>1. SenderInv => SeqConsecutive
  BY DEF SenderInv, WireOK, Follows, After, SeqConsecutive
<1> QED
  BY <1>1, SenderInvAlways, PTL

(* Closing a chunk early never happens, and with the rest: what a receiver *)
(* needs to put frames back together holds of everything LHE_sender sends. *)
THEOREM PacketsAlwaysWellFormed == Spec => []PacketsWellFormed
<1>1. SenderInv => TypeOK /\ ChunksPacked
  BY DEF SenderInv, WireOK, PacketOK, ChunksPacked
<1> QED
  BY <1>1, SenderInvAlways, ChunksAlwaysTile, MarkerAlwaysOnLastChunk,
     ChunksAlwaysBounded, SeqAlwaysConsecutive, PTL DEF PacketsWellFormed

-----------------------------------------------------------------------------
(* Stopping                                                                *)

(* Where the order to stop is kept: in stop while LHE_sender runs and up   *)
(* to the next call, in its result when it returns, in pack_stop after.    *)
StopKept ==
  told => \/ stop
          \/ pc = "back" /\ retval = 0
          \/ pc = "dir" /\ pack_stop
          \/ Finished
(* After the one packet that may still leave, nothing leads to another.    *)
OnTheWayOut ==
  \/ pc \in {"sent", "return"} /\ stop
  \/ pc = "back" /\ retval = 0
  \/ pc = "dir" /\ pack_stop
  \/ Finished
LateSends == \/ late_sends = 0
             \/ late_sends = 1 /\ told /\ OnTheWayOut
StopInv == StopKept /\ LateSends

(* LHE_sender's stop is cleared only where its result takes the order on.  *)
LEMMA StopStepInv == ASSUME StopInv, [Next]_vars PROVE StopInv'
<1> USE DEF StopInv, StopKept, LateSends, OnTheWayOut, Finished
<1>1. CASE NextFile
  BY <1>1 DEF NextFile, stopVars, histVars
<1>2. CASE EndOfDirectory
  BY <1>2 DEF EndOfDirectory, histVars
<1>3. CASE CallSender
  BY <1>3 DEF CallSender, histVars
<1>4. CASE FileSent
  BY <1>4 DEF FileSent, histVars
<1>5. CASE StartChunk \/ LeaveLoop
  BY <1>5 DEF StartChunk, LeaveLoop, dirVars, stopVars, histVars
<1>6. CASE TakeBlock \/ RefuseBlock
  BY <1>6 DEF TakeBlock, RefuseBlock, stopVars, histVars
<1>7. CASE SendChunk
  BY <1>7 DEF SendChunk, stopVars, histVars
<1>8. CASE SendInterrupted \/ SendError
  BY <1>8 DEF SendInterrupted, SendError, stopVars, histVars
<1>9. CASE NextChunk \/ NextFrame \/ LastFrame
  BY <1>9 DEF NextChunk, NextFrame, LastFrame, CountPacket, stopVars, histVars
<1>10. CASE Return
  BY <1>10 DEF Return, Answer, histVars
<1>11. CASE SigInt
  BY <1>11 DEF SigInt, histVars
<1>12. CASE UNCHANGED vars
  BY <1>12 DEF vars, stopVars, histVars
<1> QED
  BY <1>1, <1>2, <1>3, <1>4, <1>5, <1>6, <1>7, <1>8, <1>9, <1>10, <1>11, <1>12
     DEF Next, SendDir, Sender

(* A SIGINT that reached LHE_sender's handler lets at most the packet      *)
(* being built leave, the rest of the directory included.                  *)
THEOREM StopAlwaysWithinOnePacket == Spec => []StopWithinOnePacket
<1>1. Init => StopInv
  BY DEF Init, StopInv, StopKept, LateSends
<1>2. StopInv => StopWithinOnePacket
  BY DEF StopInv, LateSends, StopWithinOnePacket
<1> QED
  BY <1>1, <1>2, StopStepInv, PTL DEF Spec

-----------------------------------------------------------------------------
(* Completeness of an undisturbed run                                      *)

(* Nothing has interfered so far, and nothing in the directory makes       *)
(* LHE_sender give a file up.                                              *)
NoneTooBig == \A f \in DOMAIN files : \A g \in DOMAIN files[f] :
                \A b \in DOMAIN files[f][g] : ~TooBig(files[f][g][b])
Undisturbed == signals = 0 /\ NoneTooBig

(* The chunk that ends frame g of file f has left.                         *)
FrameOut(f, g) ==
  \E k \in DOMAIN wire : /\ wire[k].file = f /\ wire[k].frame = g
                         /\ wire[k].fb + wire[k].n = NB(wire[k])
(* ... and so of all frames of the files before f and of n frames of f.    *)
OutUpTo(f, n) ==
  \A a \in DOMAIN files : \A g \in DOMAIN files[a] :
    (a < f \/ (a = f /\ g <= n)) => FrameOut(a, g)

(* Where the code is in the directory, all that lies before is out; no     *)
(* flag is set, and LHE_sender reports the packets of every file.          *)
OutSoFar ==
  /\ pc \in {"dir", "return", "back"} => OutUpTo(i + 1, 0)
  /\ pc = "call" => OutUpTo(i, 0)
  /\ InSender => OutUpTo(i, frames_sent)
  /\ pc = "done" => OutUpTo(Len(files) + 1, 0)
Undeterred == ~stop /\ ~pack_stop /\ (pc = "back" => retval # 0)
CompleteInv == Undisturbed => Undeterred /\ OutSoFar

(* What is out stays out.                                                  *)
LEMMA OutKept ==
  ASSUME SenderInv, files' = files,
         wire' = wire \/ wire' = Append(wire, Packet)
  PROVE  \A f, g : FrameOut(f, g) => FrameOut(f, g)'
<1>1. ASSUME NEW k \in DOMAIN wire PROVE k \in DOMAIN wire' /\ wire'[k] = wire[k]
  <2>1. wire \in Seq(Packets)
    BY DEF SenderInv, TypeOK
  <2> QED
    BY <1>1, <2>1
<1>2. ASSUME NEW f, NEW g, FrameOut(f, g) PROVE FrameOut(f, g)'
  BY <1>1, <1>2 DEF FrameOut, NB
<1> QED
  BY <1>2

(* What is out so far is out so far after a step that stays in place.      *)
LEMMA OutSoFarKept ==
  ASSUME SenderInv, OutSoFar, files' = files, i' = i, frames_sent' = frames_sent,
         wire' = wire \/ wire' = Append(wire, Packet),
         \/ InSender /\ InSender'
         \/ pc' = pc
         \/ pc' = "exited"
  PROVE  OutSoFar'
<1>1. /\ OutUpTo(i, frames_sent) => OutUpTo(i, frames_sent)'
      /\ OutUpTo(i, 0) => OutUpTo(i, 0)'
      /\ OutUpTo(i + 1, 0) => OutUpTo(i + 1, 0)'
      /\ OutUpTo(Len(files) + 1, 0) => OutUpTo(Len(files) + 1, 0)'
  BY OutKept DEF OutUpTo
<1>2. CASE InSender /\ InSender'
  <2>1. OutUpTo(i, frames_sent)'
    BY <1>1, <1>2 DEF OutSoFar
  <2> QED
    BY <1>2, <2>1 DEF OutSoFar, InSender
<1>3. CASE pc' = pc
  BY <1>1, <1>3 DEF OutSoFar, InSender
<1>4. CASE pc' = "exited"
  BY <1>4 DEF OutSoFar, InSender
<1> QED
  BY <1>2, <1>3, <1>4

(* With its last block sent, the frame in hand is out.                     *)
LEMMA FrameOutHere ==
  ASSUME SenderInv, pc = "sent", first_block_id >= BlocksInImage
  PROVE  FrameOut(i, frames_sent + 1)
<1> USE DEF SenderInv
<1>1. /\ wire # <<>> /\ Last.file = i /\ Last.frame = frames_sent + 1
      /\ Last.fb + Last.n = first_block_id
  BY DEF NextPacket
<1>2. first_block_id = BlocksInImage
  <2>1. first_block_id <= BlocksInImage /\ first_block_id \in Nat
    BY DEF ChunkState, TypeOK
  <2>2. BlocksInImage \in Nat
    BY FrameFacts DEF InSender
  <2> QED
    BY <2>1, <2>2
<1>3. NB(Last) = BlocksInImage
  BY <1>1 DEF NB, BlocksInImage, Frame
<1>4. Len(wire) \in DOMAIN wire
  BY <1>1 DEF TypeOK
<1> QED
  BY <1>1, <1>2, <1>3, <1>4 DEF FrameOut, Last

(* The last frame of a file being out, the file is.                        *)
LEMMA FileOut ==
  ASSUME SenderInv, LastFrame, OutUpTo(i, frames_sent)
  PROVE  OutUpTo(i + 1, 0)'
<1> USE DEF SenderInv
<1>1. /\ pc = "sent" /\ first_block_id >= BlocksInImage /\ ~MoreFrames
      /\ files' = files /\ wire' = wire /\ i' = i
  BY DEF LastFrame, CountPacket, dirVars, histVars
<1>2. FrameOut(i, frames_sent + 1)
  BY <1>1, FrameOutHere
<1>3. /\ files \in Seq(Seq(Seq(Nat))) /\ i \in DOMAIN files
      /\ files[i] \in Seq(Seq(Nat)) /\ frames_sent \in Nat
  BY <1>1, FilesFacts, FrameFacts DEF InSender, TypeOK
<1>4. ASSUME NEW a \in DOMAIN files, NEW g \in DOMAIN files[a], a < i + 1
      PROVE  FrameOut(a, g)
  <2>1. a \in Nat /\ i \in Nat /\ (a < i \/ a = i)
    BY <1>3, <1>4
  <2>2. CASE a = i
    <3>1. g <= frames_sent \/ g = frames_sent + 1
      <4>1. g \in Nat /\ g <= Len(files[i]) /\ Len(files[i]) \in Nat
        BY <1>3, <2>2
      <4>2. Len(files[i]) <= frames_sent + 1
        BY <1>1, <1>3, <4>1 DEF MoreFrames
      <4> QED
        BY <1>3, <4>1, <4>2
    <3> QED
      BY <1>2, <2>2, <3>1 DEF OutUpTo
  <2> QED
    BY <2>1, <2>2 DEF OutUpTo
<1>5. OutUpTo(i + 1, 0)
  <2>1. \A a \in DOMAIN files : \A g \in DOMAIN files[a] : ~(a = i + 1 /\ g <= 0)
    BY <1>3, FilesFacts
  <2> QED
    BY <1>4, <2>1 DEF OutUpTo
<1> QED
  BY <1>1, <1>5, OutKept DEF OutUpTo

(* No step of an undisturbed run leaves a frame behind.                    *)
LEMMA CompleteStep ==
  ASSUME SenderInv, CompleteInv, [Next]_vars PROVE CompleteInv'
<1> SUFFICES ASSUME Undisturbed' PROVE Undeterred' /\ OutSoFar'
  BY DEF CompleteInv
<1>1. /\ files' = files
      /\ signals' = signals \/ SigInt
      /\ wire' = wire \/ wire' = Append(wire, Packet)
  BY DEF Next, SendDir, Sender, NextFile, EndOfDirectory, CallSender, FileSent,
         StartChunk, LeaveLoop, TakeBlock, RefuseBlock, SendChunk, SendInterrupted,
         SendError, NextChunk, NextFrame, LastFrame, Return, SigInt, vars, dirVars,
         stopVars, histVars
<1>2. Undisturbed /\ ~SigInt
  <2>1. ~SigInt
    <3>1. signals' = 0 /\ signals \in Nat
      BY Limits DEF Undisturbed, SenderInv, TypeOK
    <3> QED
      BY <3>1 DEF SigInt
  <2> QED
    BY <1>1, <2>1 DEF Undisturbed, NoneTooBig, TooBig
<1>3. Undeterred /\ OutSoFar
  BY <1>2 DEF CompleteInv
<1>4. CASE NextFile
  <2>1. i' = i + 1 /\ OutUpTo(i + 1, 0)
    BY <1>3, <1>4 DEF NextFile, OutSoFar
  <2>2. OutUpTo(i, 0)'
    BY <1>1, <2>1, OutKept DEF OutUpTo
  <2> QED
    BY <1>3, <1>4, <2>1, <2>2 DEF NextFile, OutSoFar, Undeterred, InSender, stopVars
<1>5. CASE EndOfDirectory
  <2>1. i = Len(files) /\ pc' = "done" /\ wire' = wire
    BY <1>3, <1>5 DEF EndOfDirectory, DirectoryDone, Undeterred, histVars
  <2>2. OutUpTo(Len(files) + 1, 0)'
    BY <1>1, <1>3, <1>5, <2>1, OutKept DEF EndOfDirectory, OutSoFar, OutUpTo
  <2> QED
    BY <1>3, <1>5, <2>1, <2>2 DEF EndOfDirectory, OutSoFar, Undeterred, InSender
<1>6. CASE CallSender
  <2>1. pc' = "loop" /\ i' = i /\ frames_sent' = 0 /\ stop' = stop
        /\ pack_stop' = pack_stop
    BY <1>6 DEF CallSender, dirVars
  <2>2. OutUpTo(i, frames_sent)'
    <3>1. OutUpTo(i, 0)
      BY <1>3, <1>6 DEF CallSender, OutSoFar
    <3> QED
      BY <1>1, <2>1, <3>1, OutKept DEF OutUpTo
  <2> QED
    BY <1>3, <2>1, <2>2 DEF OutSoFar, Undeterred, InSender
<1>7. CASE FileSent
  <2>1. pc = "back" /\ pc' = "dir" /\ i' = i /\ stop' = stop /\ ~pack_stop'
    BY <1>3, <1>7 DEF FileSent, Undeterred
  <2>2. OutUpTo(i + 1, 0)'
    BY <1>1, <1>3, <2>1, OutKept DEF OutSoFar, OutUpTo
  <2> QED
    BY <1>3, <2>1, <2>2 DEF OutSoFar, Undeterred, InSender
<1>8. CASE RefuseBlock
  <2>1. i \in DOMAIN files /\ frames_sent + 1 \in DOMAIN files[i]
        /\ Frame = files[i][frames_sent + 1] /\ Frame \in Seq(Nat)
    BY <1>8, FrameFacts DEF RefuseBlock, InSender, SenderInv, Frame
  <2>2. blocks_read + 1 \in DOMAIN Frame
    BY <1>8, <2>1 DEF RefuseBlock, Fits, CanTake, BlocksInImage, SenderInv, TypeOK
  <2>3. ~TooBig(BlockLen)
    BY <1>2, <2>1, <2>2 DEF Undisturbed, NoneTooBig, BlockLen
  <2> QED
    BY <1>8, <2>3 DEF RefuseBlock
<1>9. CASE \/ StartChunk \/ TakeBlock \/ SendChunk \/ NextChunk
           \/ SendError \/ UNCHANGED vars
  <2>1. /\ i' = i /\ frames_sent' = frames_sent /\ stop' = stop
        /\ pack_stop' = pack_stop
        /\ \/ InSender /\ InSender'
           \/ pc' = pc /\ retval' = retval
           \/ pc' = "exited"
    BY <1>9 DEF StartChunk, TakeBlock, SendChunk, NextChunk, SendError, CountPacket,
                InSender, vars, dirVars, frameVars, stopVars
  <2>2. OutSoFar'
    BY <1>1, <1>3, <2>1, OutSoFarKept
  <2> QED
    BY <1>3, <2>1, <2>2 DEF Undeterred, InSender
<1>10. CASE LeaveLoop \/ SendInterrupted
  BY <1>3, <1>10 DEF LeaveLoop, SendInterrupted, Undeterred
<1>11. CASE NextFrame
  <2>1. /\ pc = "sent" /\ first_block_id >= BlocksInImage /\ pc' = "loop"
        /\ i' = i /\ frames_sent' = frames_sent + 1 /\ stop' = stop
        /\ pack_stop' = pack_stop /\ wire' = wire
    BY <1>11 DEF NextFrame, CountPacket, dirVars, stopVars, histVars
  <2>2. OutUpTo(i, frames_sent) /\ FrameOut(i, frames_sent + 1)
    BY <1>3, <2>1, FrameOutHere DEF OutSoFar, InSender
  <2>3. OutUpTo(i, frames_sent + 1)
    <3>1. frames_sent \in Nat
      BY DEF SenderInv, TypeOK
    <3>2. \A a \in DOMAIN files : \A g \in DOMAIN files[a] :
            a = i /\ g <= frames_sent + 1 => g <= frames_sent \/ g = frames_sent + 1
      BY <3>1, FilesFacts DEF SenderInv
    <3> QED
      BY <2>2, <3>2 DEF OutUpTo
  <2>4. OutUpTo(i, frames_sent)'
    BY <1>1, <2>1, <2>3, OutKept DEF OutUpTo
  <2> QED
    BY <1>3, <2>1, <2>4 DEF OutSoFar, Undeterred, InSender
<1>12. CASE LastFrame
  <2>1. pc = "sent" /\ pc' = "return" /\ i' = i /\ stop' = stop
        /\ pack_stop' = pack_stop
    BY <1>12 DEF LastFrame, CountPacket, dirVars, stopVars
  <2>2. OutUpTo(i + 1, 0)'
    BY <1>3, <1>12, <2>1, FileOut DEF OutSoFar, InSender
  <2> QED
    BY <1>3, <2>1, <2>2 DEF OutSoFar, Undeterred, InSender
<1>13. CASE Return
  <2>1. pc = "return" /\ pc' = "back" /\ i' = i /\ ~stop' /\ pack_stop' = pack_stop
        /\ retval' = Answer
    BY <1>13 DEF Return, dirVars
  <2>2. retval' # 0
    <3>1. packets_sent > 0 /\ packets_sent \in Nat /\ ~stop
      BY <1>3, <2>1 DEF Undeterred, SenderInv, NextPacket, TypeOK
    <3> QED
      BY <2>1, <3>1 DEF Answer
  <2>3. OutUpTo(i + 1, 0)'
    BY <1>1, <1>3, <2>1, OutKept DEF OutSoFar, OutUpTo
  <2> QED
    BY <1>3, <2>1, <2>2, <2>3 DEF OutSoFar, Undeterred, InSender
<1> QED
  BY <1>2, <1>4, <1>5, <1>6, <1>7, <1>8, <1>9, <1>10, <1>11, <1>12, <1>13
     DEF Next, SendDir, Sender

(* LHE_send_dir and LHE_sender leave nothing out: a run with no signal, no *)
(* failed send and no block too big ends with every frame of every file on *)
(* the wire, to its last chunk.                                            *)
THEOREM UndisturbedAlwaysComplete == Spec => []UndisturbedIsComplete
<1>1. Init => CompleteInv
  <2> SUFFICES ASSUME Init PROVE Undeterred /\ OutSoFar
    BY DEF CompleteInv
  <2>1. OutUpTo(i + 1, 0)
    <3>1. i = 0 /\ files \in Seq(Seq(Seq(Nat)))
      BY VideosAssumption DEF Init
    <3>2. ASSUME NEW a \in DOMAIN files, NEW g \in DOMAIN files[a]
          PROVE  ~(a < i + 1 \/ (a = i + 1 /\ g <= 0))
      <4>1. a \in Nat /\ a >= 1 /\ files[a] \in Seq(Seq(Nat))
        BY <3>1
      <4>2. g \in Nat /\ g >= 1
        BY <4>1
      <4> QED
        BY <3>1, <4>1, <4>2
    <3> QED
      BY <3>2 DEF OutUpTo
  <2> QED
    BY <2>1 DEF Init, Undeterred, OutSoFar, InSender
<1>2. SenderInv /\ CompleteInv => UndisturbedIsComplete
  <2> SUFFICES ASSUME SenderInv, CompleteInv, pc = "done", signals = 0, NoneTooBig,
                      NEW f \in DOMAIN files, NEW g \in DOMAIN files[f]
               PROVE  FrameOut(f, g)
    BY DEF UndisturbedIsComplete, NoneTooBig, FrameOut
  <2>1. OutUpTo(Len(files) + 1, 0)
    BY DEF CompleteInv, Undisturbed, OutSoFar
  <2>2. f < Len(files) + 1
    BY FilesFacts DEF SenderInv
  <2> QED
    BY <2>1, <2>2 DEF OutUpTo
<1> QED
  BY <1>1, <1>2, CompleteStep, SenderInvAlways, PTL DEF Spec

-----------------------------------------------------------------------------
(* The transmitter implements PacketStream                                 *)

Stream == [k \in DOMAIN wire |-> Abstract(wire[k])]

(* A packet added to the wire is added to the stream it stands for.        *)
LEMMA StreamGrows ==
  ASSUME NEW w \in Seq(Packets), NEW p \in Packets, wire' = Append(w, p), wire = w
  PROVE  Stream' = Append(Stream, Abstract(p))
<1>1. /\ Len(w) \in Nat /\ DOMAIN w = 1 .. Len(w)
      /\ DOMAIN Append(w, p) = 1 .. Len(w) + 1
      /\ \A k \in 1 .. Len(w) : Append(w, p)[k] = w[k]
      /\ Append(w, p)[Len(w) + 1] = p
  OBVIOUS
<1> DEFINE s == [k \in 1 .. Len(w) |-> Abstract(w[k])]
           A == {Abstract(w[k]) : k \in 1 .. Len(w)} \cup {Abstract(p)}
<1>2. Stream = s
  BY <1>1 DEF Stream
<1>3. Stream' = [k \in 1 .. Len(w) + 1 |-> Abstract(Append(w, p)[k])]
  BY <1>1 DEF Stream, Abstract
<1>4. s \in Seq(A) /\ Len(s) = Len(w) /\ Abstract(p) \in A
  BY <1>1
<1>5. Append(s, Abstract(p)) = [k \in 1 .. Len(w) + 1 |-> Abstract(Append(w, p)[k])]
  <2> DEFINE e == Append(s, Abstract(p))
             r == [k \in 1 .. Len(w) + 1 |-> Abstract(Append(w, p)[k])]
  <2>1. e \in Seq(A) /\ Len(e) = Len(w) + 1 /\ e[Len(w) + 1] = Abstract(p)
        /\ \A k \in 1 .. Len(w) : e[k] = s[k]
    BY <1>4
  <2>2. r \in Seq(A) /\ Len(r) = Len(w) + 1
    BY <1>1
  <2>3. \A k \in 1 .. Len(w) + 1 : e[k] = r[k]
    BY <1>1, <2>1
  <2> HIDE DEF e, r, A
  <2> QED
    BY <1>1, <2>1, <2>2, <2>3
<1> QED
  BY <1>2, <1>3, <1>5

(* The frame sizes of the directory, as the promise sees them.             *)
LEMMA SizesFacts ==
  ASSUME TypeOK
  PROVE  /\ DOMAIN Sizes(files) = DOMAIN files
         /\ \A f \in DOMAIN files :
              /\ DOMAIN Sizes(files)[f] = DOMAIN files[f]
              /\ \A g \in DOMAIN files[f] :
                   Sizes(files)[f][g] = Len(files[f][g])
  BY DEF Sizes

(* A packet sent is a step of the promise.                                 *)
LEMMA SendIsEmit ==
  ASSUME SenderInv, SendChunk, wire' = Append(wire, Packet)
  PROVE  Promise!Emit
<1> USE DEF SenderInv
<1>1. /\ Packet = Sent /\ Sent \in Packets /\ PacketOK(Sent)
      /\ NB(Sent) = BlocksInImage
  BY SentFacts
<1>2. Stream' = Append(Stream, Abstract(Sent))
  BY <1>1, StreamGrows DEF TypeOK
<1>3. /\ i \in DOMAIN files /\ frames_sent + 1 \in DOMAIN files[i]
      /\ BlocksInImage = Sizes(files)[i][frames_sent + 1]
      /\ ts = Promise!TsOf(i, frames_sent + 1)
  BY SizesFacts DEF SendChunk, Position, InSender, TsState, BlocksInImage, Frame
<1> DEFINE f == i
           g == frames_sent + 1
           b == first_block_id
           n == blocks_in_chunk
<1>4. /\ first_block_id \in Nat /\ blocks_in_chunk \in 1 .. MAX_BLOCKS_PER_CHUNK
      /\ first_block_id + blocks_in_chunk <= BlocksInImage
      /\ M' \in {0, 1} /\ (M' = 1 <=> first_block_id + blocks_in_chunk = BlocksInImage)
  BY ChunkFacts, <1>1 DEF PacketOK, Sent
<1>5. Abstract(Sent) = Promise!PacketAt(seq_num, f, g, b, n)
  BY <1>3, <1>4 DEF Abstract, Sent, Promise!PacketAt
<1>6. Sizes(files)' = Sizes(files)
  BY DEF SendChunk, dirVars, Sizes
<1>7. b \in 0 .. Sizes(files)[f][g] - 1 /\ b + n <= Sizes(files)[f][g]
      /\ Sizes(files)[f][g] \in Nat /\ b \in Nat
  <2>1. BlocksInImage \in Nat
    BY FrameFacts DEF SendChunk, InSender
  <2> QED
    BY <2>1, <1>3, <1>4
<1>8. /\ wire \in Seq(Packets) /\ DOMAIN Stream = DOMAIN wire
      /\ Stream = <<>> <=> wire = <<>>
      /\ wire # <<>> => Stream[Len(Stream)] = Abstract(Last)
  <2>1. wire \in Seq(Packets)
    BY DEF TypeOK
  <2>2. DOMAIN Stream = 1 .. Len(wire) /\ Len(wire) \in Nat
    BY <2>1 DEF Stream
  <2>3. Stream \in Seq({Abstract(wire[k]) : k \in 1 .. Len(wire)})
    BY <2>1 DEF Stream
  <2>4. Len(Stream) = Len(wire)
    BY <2>2, <2>3
  <2> QED
    BY <2>1, <2>2, <2>3, <2>4 DEF Stream, Last
<1>9. seq_num \in Promise!NextSeqs
  <2>1. CASE wire = <<>>
    <3>1. seq_num \in InitialSeqs
      BY <2>1, SentFollows DEF Sent
    <3> QED
      BY <2>1, <3>1, <1>8 DEF Promise!NextSeqs, Stream
  <2>2. CASE wire # <<>>
    <3>1. seq_num = (Last.seq + 1) % 65536
      BY <2>2, SentFollows DEF Sent, Follows, After, SEQ_MOD
    <3>2. Promise!Newest = Abstract(Last) /\ Stream # <<>>
      BY <2>2, <1>8 DEF Promise!Newest, Stream
    <3>3. Promise!Newest.seq = Last.seq
      BY <3>2 DEF Abstract
    <3> QED
      BY <3>1, <3>2, <3>3 DEF Promise!NextSeqs, Stream
  <2> QED
    BY <2>1, <2>2
<1>10. Promise!Starts(f, g, b)
  <2>1. CASE wire = <<>>
    <3>1. f = 1 /\ g = 1 /\ b = 0
      BY <2>1, SentFollows DEF Sent
    <3> QED
      BY <2>1, <3>1, <1>8 DEF Promise!Starts, Stream
  <2>2. CASE wire # <<>>
    <3>1. Follows(Last, Sent) /\ PacketOK(Last) /\ Last \in Packets
      <4>1. Len(wire) \in DOMAIN wire
        BY <1>8, <2>2
      <4> QED
        BY <2>2, <4>1, <1>8, SentFollows DEF WireOK, Last
    <3>2. \/ Last.file = f /\ Last.frame = g /\ b = Last.fb + Last.n
          \/ f = Last.file /\ g = Last.frame + 1 /\ b = 0 /\ Last.fb + Last.n = NB(Last)
          \/ f = Last.file + 1 /\ g = 1 /\ b = 0
      BY <3>1 DEF Follows, Sent, SameFrame
    <3>3. NB(Last) = Sizes(files)[Last.file][Last.frame]
      BY <3>1, SizesFacts DEF NB, PacketOK
    <3>4. Last.fb + Last.n = NB(Last) <=> Promise!Ended(Stream[Len(Stream)])
      BY <1>8, <2>2, <3>3 DEF Promise!Ended, Abstract
    <3>5. /\ Stream # <<>> /\ Stream[Len(Stream)].file = Last.file
          /\ Stream[Len(Stream)].frame = Last.frame
          /\ Stream[Len(Stream)].fb = Last.fb /\ Stream[Len(Stream)].n = Last.n
      BY <1>8, <2>2 DEF Abstract
    <3>6. Last.file = f /\ Last.frame = g => NB(Last) = Sizes(files)[f][g]
      BY <3>3
    <3> HIDE DEF f, g, b, n
    <3>7. b \in Nat /\ Sizes(files)[f][g] \in Nat /\ b < Sizes(files)[f][g]
      BY <1>7
    <3> QED
      BY <3>2, <3>4, <3>5, <3>6, <3>7 DEF Promise!Starts, Promise!Newest, Stream
  <2> QED
    BY <2>1, <2>2
<1>11. i \in DOMAIN Sizes(files) /\ frames_sent + 1 \in DOMAIN Sizes(files)[i]
  BY <1>3, SizesFacts
<1> HIDE DEF f, g, b, n
<1>12. n \in 1 .. MAX_BLOCKS_PER_CHUNK /\ f \in DOMAIN Sizes(files)
       /\ g \in DOMAIN Sizes(files)[f]
  BY <1>4, <1>11 DEF n, f, g
<1>13. Stream' = Append(Stream, Promise!PacketAt(seq_num, f, g, b, n))
  BY <1>2, <1>5
<1>14. \E m \in 1 .. MAX_BLOCKS_PER_CHUNK, seq \in Promise!NextSeqs :
         /\ b + m <= Sizes(files)[f][g]
         /\ Stream' = Append(Stream, Promise!PacketAt(seq, f, g, b, m))
  BY <1>7, <1>9, <1>12, <1>13
<1>15. \E c \in 0 .. Sizes(files)[f][g] - 1 :
         /\ Promise!Starts(f, g, c)
         /\ \E m \in 1 .. MAX_BLOCKS_PER_CHUNK, seq \in Promise!NextSeqs :
              /\ c + m <= Sizes(files)[f][g]
              /\ Stream' = Append(Stream, Promise!PacketAt(seq, f, g, c, m))
  BY <1>7, <1>10, <1>14
<1>16. \E e \in DOMAIN Sizes(files) : \E h \in DOMAIN Sizes(files)[e] :
         \E c \in 0 .. Sizes(files)[e][h] - 1 :
           /\ Promise!Starts(e, h, c)
           /\ \E m \in 1 .. MAX_BLOCKS_PER_CHUNK, seq \in Promise!NextSeqs :
                /\ c + m <= Sizes(files)[e][h]
                /\ Stream' = Append(Stream, Promise!PacketAt(seq, e, h, c, m))
  BY <1>12, <1>15, Zenon
<1> QED
  BY <1>6, <1>16 DEF Promise!Emit, Stream

(* LHE_sender and LHE_send_dir keep the promise of PacketStream: tiling,   *)
(* order of the frames, marker bit, timestamps and sequence numbers of the *)
(* whole stream, whatever signals arrive and whatever fails.               *)
THEOREM SenderImplementsPacketStream == Spec => ImplementsPacketStream
<1>1. Init => Promise!StreamInit
  BY DEF Init, Promise!StreamInit
<1>2. SenderInv /\ [Next]_vars => [Promise!Emit]_(Promise!streamVars)
  <2> SUFFICES ASSUME SenderInv, [Next]_vars
               PROVE  Promise!Emit \/ UNCHANGED Promise!streamVars
    OBVIOUS
  <2>1. CASE SendChunk /\ wire' = Append(wire, Packet)
    BY <2>1, SendIsEmit
  <2>2. CASE UNCHANGED <<files, wire>>
    BY <2>2 DEF Promise!streamVars, Sizes, Abstract
  <2>3. \/ SendChunk /\ wire' = Append(wire, Packet)
        \/ UNCHANGED <<files, wire>>
    BY DEF Next, SendDir, Sender, NextFile, EndOfDirectory, CallSender, FileSent,
           StartChunk, LeaveLoop, TakeBlock, RefuseBlock, SendChunk, SendInterrupted,
           SendError, NextChunk, NextFrame, LastFrame, Return, SigInt, vars, dirVars,
           histVars
  <2> QED
    BY <2>1, <2>2, <2>3
<1> QED
  BY <1>1, <1>2, SenderInvAlways, PTL DEF Spec, ImplementsPacketStream,
     Promise!StreamSpec
-----------------------------------------------------------------------------
(* The pace of LHE_send_dir, in FramePacing.                              *)

(* Timespecs as the clock and the functions of utils.c return them.        *)
Normal == [s : Nat, ns : 0 .. NSEC - 1]

-----------------------------------------------------------------------------
(* Arithmetic                                                              *)

(* Quotient and remainder give the number back.                            *)
LEMMA DivModExact ==
  ASSUME NEW t \in Nat, NEW n \in Nat, n > 0
  PROVE  (t \div n) \in Nat /\ (t % n) \in 0 .. n - 1
         /\ ((t \div n) * n) + (t % n) = t
BY SMT

(* A multiple leaves no remainder.                                         *)
LEMMA MultipleMod ==
  ASSUME NEW k \in Nat, NEW n \in Nat, n > 0
  PROVE  (k * n) % n = 0
BY SMT

(* A factor can be taken out of an inequality.                             *)
LEMMA LessByFactor ==
  ASSUME NEW a \in Int, NEW b \in Int, NEW n \in Nat, n > 0, a * n < b * n
  PROVE  a < b
BY SMT

(* The products that differences and sums of seconds expand to.            *)
LEMMA Distributes ==
  ASSUME NEW a \in Int, NEW b \in Int, NEW n \in Nat
  PROVE  /\ (a - b) * n = (a * n) - (b * n)
         /\ (a - b - 1) * n = (a * n) - (b * n) - n
         /\ (a - b + 1) * n = (a * n) - (b * n) + n
         /\ (a + 1) * n = (a * n) + n
         /\ (a + b) * n = (a * n) + (b * n)
         /\ (a + b + 1) * n = (a * n) + (b * n) + n
BY SMT

(* The product of two natural numbers is one.                              *)
LEMMA ProductNat ==
  ASSUME NEW a \in Nat, NEW b \in Nat
  PROVE  a * b \in Nat
BY SMT

-----------------------------------------------------------------------------
(* utils.c                                                                 *)

(* A second has nanoseconds, and a unit of the clock is part of it.        *)
LEMMA NsecPositive == NSEC \in Nat /\ NSEC > 0 /\ UNIT_NS \in 1 .. NSEC - 1
BY ClockAssumption

(* A time as a pair of fields is a number of nanoseconds.                  *)
LEMMA TotalNat ==
  ASSUME NEW a \in Normal
  PROVE  Total(a) \in Nat /\ a.s * NSEC \in Nat /\ a.s \in Nat /\ a.ns \in 0 .. NSEC - 1
<1>1. a.s \in Nat /\ a.ns \in 0 .. NSEC - 1
  BY DEF Normal
<1>2. a.s * NSEC \in Nat
  BY <1>1, NsecPositive, ProductNat
<1> QED
  BY <1>1, <1>2, NsecPositive DEF Total

(* What the clock shows is a normal timespec of the same time.             *)
LEMMA TimespecExact ==
  ASSUME NEW t \in Nat
  PROVE  Timespec(t) \in Normal /\ Total(Timespec(t)) = t
<1>1. (t \div NSEC) \in Nat /\ (t % NSEC) \in 0 .. NSEC - 1
      /\ ((t \div NSEC) * NSEC) + (t % NSEC) = t
  BY NsecPositive, DivModExact
<1> QED
  BY <1>1 DEF Timespec, Normal, Total

(* timespec_add is exact.                                                  *)
LEMMA AddExact ==
  ASSUME NEW a \in Normal, NEW b \in Normal
  PROVE  timespec_add(a, b) \in Normal
         /\ Total(timespec_add(a, b)) = Total(a) + Total(b)
<1>1. /\ (a.s + b.s) * NSEC = (a.s * NSEC) + (b.s * NSEC)
      /\ (a.s + b.s + 1) * NSEC = (a.s * NSEC) + (b.s * NSEC) + NSEC
  BY TotalNat, NsecPositive, Distributes
<1>2. CASE a.ns + b.ns >= NSEC
  <2>1. timespec_add(a, b) = [s |-> a.s + b.s + 1, ns |-> a.ns + b.ns - NSEC]
    BY <1>2, TotalNat, NsecPositive DEF timespec_add
  <2> QED
    BY <1>1, <1>2, <2>1, TotalNat, NsecPositive DEF Normal, Total
<1>3. CASE ~ (a.ns + b.ns >= NSEC)
  <2>1. timespec_add(a, b) = [s |-> a.s + b.s, ns |-> a.ns + b.ns]
    BY <1>3, TotalNat, NsecPositive DEF timespec_add
  <2> QED
    BY <1>1, <1>3, <2>1, TotalNat, NsecPositive DEF Normal, Total
<1> QED
  BY <1>2, <1>3

(* timespec_diff is exact as long as the second time is not the earlier.   *)
LEMMA DiffExact ==
  ASSUME NEW a \in Normal, NEW b \in Normal, Total(a) <= Total(b)
  PROVE  timespec_diff(a, b) \in Normal
         /\ Total(timespec_diff(a, b)) = Total(b) - Total(a)
<1>1. /\ (b.s - a.s) * NSEC = (b.s * NSEC) - (a.s * NSEC)
      /\ (b.s - a.s - 1) * NSEC = (b.s * NSEC) - (a.s * NSEC) - NSEC
      /\ (b.s + 1) * NSEC = (b.s * NSEC) + NSEC
  BY TotalNat, NsecPositive, Distributes
<1>2. CASE b.ns - a.ns < 0
  <2>1. a.s * NSEC < b.s * NSEC
    BY <1>2, TotalNat, NsecPositive DEF Total
  <2>2. a.s < b.s
    BY <2>1, TotalNat, NsecPositive, LessByFactor
  <2>3. timespec_diff(a, b) = [s |-> b.s - a.s - 1, ns |-> b.ns - a.ns + NSEC]
    BY <1>2, <2>2, TotalNat, NsecPositive DEF timespec_diff, NotBelow0
  <2> QED
    BY <1>1, <1>2, <2>2, <2>3, TotalNat, NsecPositive DEF Normal, Total
<1>3. CASE ~ (b.ns - a.ns < 0)
  <2>1. a.s * NSEC < (b.s + 1) * NSEC
    BY <1>1, <1>3, TotalNat, NsecPositive DEF Total
  <2>2. a.s < b.s + 1
    BY <2>1, TotalNat, NsecPositive, LessByFactor
  <2>3. timespec_diff(a, b) = [s |-> b.s - a.s, ns |-> b.ns - a.ns]
    BY <1>3, <2>2, TotalNat, NsecPositive DEF timespec_diff, NotBelow0
  <2> QED
    BY <1>1, <1>3, <2>2, <2>3, TotalNat, NsecPositive DEF Normal, Total
<1> QED
  BY <1>2, <1>3

(* When the second time is the earlier, only the seconds of the difference *)
(* are set to 0: it is off by a whole number of seconds.                   *)
LEMMA DiffLate ==
  ASSUME NEW a \in Normal, NEW b \in Normal, Total(a) > Total(b)
  PROVE  /\ timespec_diff(a, b) \in Normal
         /\ Total(timespec_diff(a, b)) \in 0 .. NSEC - 1
         /\ \E k \in Nat : Total(a) - Total(b) + Total(timespec_diff(a, b)) = k * NSEC
<1>1. /\ (a.s - b.s) * NSEC = (a.s * NSEC) - (b.s * NSEC)
      /\ (a.s - b.s + 1) * NSEC = (a.s * NSEC) - (b.s * NSEC) + NSEC
      /\ (a.s + 1) * NSEC = (a.s * NSEC) + NSEC
  BY TotalNat, NsecPositive, Distributes
<1>2. CASE b.ns - a.ns < 0
  <2>1. b.s * NSEC < (a.s + 1) * NSEC
    BY <1>1, <1>2, TotalNat, NsecPositive DEF Total
  <2>2. b.s < a.s + 1
    BY <2>1, TotalNat, NsecPositive, LessByFactor
  <2>3. timespec_diff(a, b) = [s |-> 0, ns |-> b.ns - a.ns + NSEC]
    BY <1>2, <2>2, TotalNat, NsecPositive DEF timespec_diff, NotBelow0
  <2>4. Total(timespec_diff(a, b)) = b.ns - a.ns + NSEC
    BY <2>3, NsecPositive, TotalNat DEF Total
  <2>5. Total(a) - Total(b) + Total(timespec_diff(a, b)) = (a.s - b.s + 1) * NSEC
    BY <1>1, <2>4, TotalNat, NsecPositive DEF Total
  <2>6. a.s - b.s + 1 \in Nat
    BY <2>2, TotalNat
  <2> QED
    BY <1>2, <2>3, <2>4, <2>5, <2>6, TotalNat, NsecPositive DEF Normal
<1>3. CASE ~ (b.ns - a.ns < 0)
  <2>1. b.s * NSEC < a.s * NSEC
    BY <1>3, TotalNat, NsecPositive DEF Total
  <2>2. b.s < a.s
    BY <2>1, TotalNat, NsecPositive, LessByFactor
  <2>3. timespec_diff(a, b) = [s |-> 0, ns |-> b.ns - a.ns]
    BY <1>3, <2>2, TotalNat, NsecPositive DEF timespec_diff, NotBelow0
  <2>4. Total(timespec_diff(a, b)) = b.ns - a.ns
    BY <2>3, NsecPositive, TotalNat DEF Total
  <2>5. Total(a) - Total(b) + Total(timespec_diff(a, b)) = (a.s - b.s) * NSEC
    BY <1>1, <2>4, TotalNat, NsecPositive DEF Total
  <2>6. a.s - b.s \in Nat
    BY <2>2, TotalNat
  <2> QED
    BY <1>3, <2>3, <2>4, <2>5, <2>6, TotalNat, NsecPositive DEF Normal
<1> QED
  BY <1>2, <1>3

(* What is left to wait, from the time that has passed: never less than    *)
(* what is missing, and exactly that unless it is late already.            *)
LEMMA Timeleft ==
  ASSUME NEW should \in Normal, NEW from \in Normal, NEW to \in Normal,
         Total(from) <= Total(to)
  PROVE  LET left == timespec_timeleft(should, from, to)
             late == Total(to) - (Total(from) + Total(should))
         IN  /\ left \in Normal
             /\ late <= 0 => late + Total(left) = 0
             /\ late > 0 => /\ Total(left) \in 0 .. NSEC - 1
                            /\ \E k \in Nat : late + Total(left) = k * NSEC
<1> DEFINE el   == timespec_diff(from, to)
           left == timespec_timeleft(should, from, to)
           late == Total(to) - (Total(from) + Total(should))
<1>1. el \in Normal /\ Total(el) = Total(to) - Total(from)
  BY DiffExact
<1>2. left = timespec_diff(el, should)
  BY DEF timespec_timeleft
<1>3. Total(el) \in Nat /\ Total(should) \in Nat /\ Total(from) \in Nat
      /\ Total(to) \in Nat
  BY <1>1, TotalNat
<1> HIDE DEF el, left
<1>4. late = Total(el) - Total(should)
  BY <1>1, <1>3
<1>5. CASE Total(el) <= Total(should)
  <2>1. left \in Normal /\ Total(left) = Total(should) - Total(el)
    BY <1>1, <1>2, <1>5, DiffExact
  <2> QED
    BY <1>3, <1>4, <1>5, <2>1 DEF left
<1>6. CASE Total(el) > Total(should)
  <2>1. /\ left \in Normal
        /\ Total(left) \in 0 .. NSEC - 1
        /\ \E k \in Nat : Total(el) - Total(should) + Total(left) = k * NSEC
    BY <1>1, <1>2, <1>6, DiffLate
  <2> QED
    BY <1>3, <1>4, <1>6, <2>1 DEF left
<1> QED
  BY <1>3, <1>5, <1>6

-----------------------------------------------------------------------------
(* LHE_send_dir                                                            *)

(* NeverEarly is made inductive by what the loop knows at each place: the  *)
(* schedule is the number of files, and what is left to wait was worked    *)
(* out from a clock that had not passed the present.                       *)
PacingTypeOK ==
  /\ time \in Nat /\ until \in Nat /\ files_sent \in Nat
  /\ start \in Normal /\ now \in Normal /\ wait \in Normal /\ shouldve \in Normal

Scheduled == Total(start) <= time /\ Total(shouldve) = files_sent * UNIT_NS

Waiting ==
  place = "wait" => /\ Total(start) <= Total(now) /\ Total(now) <= time
                 /\ wait = timespec_timeleft(shouldve, start, now)

Sleeping == place = "sleep" => until >= Due(files_sent)

PacingInv == PacingTypeOK /\ Scheduled /\ Waiting /\ Sleeping /\ NeverEarly

(* The two times the loop is given as constants.                           *)
LEMMA ZeroTimes ==
  /\ Zero \in Normal /\ Total(Zero) = 0
  /\ unit \in Normal /\ Total(unit) = UNIT_NS
BY NsecPositive DEF Zero, unit, Normal, Total

(* What wait has to make up for: it is never too short.                    *)
LEMMA WaitIsEnough ==
  ASSUME PacingInv, place = "wait"
  PROVE  Total(now) + Total(wait) >= Due(files_sent)
<1>1. /\ start \in Normal /\ now \in Normal /\ shouldve \in Normal
      /\ Total(start) <= Total(now) /\ Total(shouldve) = files_sent * UNIT_NS
      /\ wait = timespec_timeleft(shouldve, start, now)
  BY DEF PacingInv, PacingTypeOK, Scheduled, Waiting
<1>2. Total(start) \in Nat /\ Total(now) \in Nat /\ Total(shouldve) \in Nat
  BY <1>1, TotalNat
<1>3. LET late == Total(now) - (Total(start) + Total(shouldve))
      IN  /\ wait \in Normal
          /\ late <= 0 => late + Total(wait) = 0
          /\ late > 0 => Total(wait) \in 0 .. NSEC - 1
  BY <1>1, Timeleft
<1>4. Total(wait) \in Nat
  BY <1>3, TotalNat
<1>5. Due(files_sent) = Total(start) + Total(shouldve)
  BY <1>1 DEF Due
<1> QED
  BY <1>2, <1>3, <1>4, <1>5, NsecPositive

(* The first file is due at once (LHEpack.c:370-382).                      *)
LEMMA PacingStarts == PacingInit => PacingInv
<1> SUFFICES ASSUME PacingInit PROVE PacingInv
  OBVIOUS
<1>1. time \in Nat
  BY ClockAssumption DEF PacingInit
<1>2. start \in Normal /\ Total(start) = time
  BY <1>1, TimespecExact DEF PacingInit
<1>3. PacingTypeOK
  BY <1>1, <1>2, ZeroTimes DEF PacingInit, PacingTypeOK
<1>4. Scheduled
  BY <1>1, <1>2, ZeroTimes, NsecPositive DEF PacingInit, Scheduled
<1> QED
  BY <1>3, <1>4 DEF PacingInit, PacingInv, Waiting, Sleeping, NeverEarly

(* Every step of the loop of LHE_send_dir, and of the clock, keeps the     *)
(* times normal and the schedule.                                          *)
LEMMA PacingKeeps == PacingInv /\ [PacingNext]_pacingVars => PacingInv'
<1> SUFFICES ASSUME PacingInv, [PacingNext]_pacingVars PROVE PacingInv'
  OBVIOUS
<1>t. /\ time \in Nat /\ until \in Nat /\ files_sent \in Nat
      /\ start \in Normal /\ now \in Normal /\ wait \in Normal
      /\ shouldve \in Normal
      /\ Total(start) <= time /\ Total(shouldve) = files_sent * UNIT_NS
  BY DEF PacingInv, PacingTypeOK, Scheduled
<1>n. /\ Total(start) \in Nat /\ Total(now) \in Nat /\ Total(wait) \in Nat
      /\ Total(shouldve) \in Nat
  BY <1>t, TotalNat
<1>d. Due(files_sent) = Total(start) + Total(shouldve)
  BY <1>t DEF Due
<1>1. CASE FirstFile
  <2>1. files_sent = 0 /\ Due(files_sent) <= time
    BY <1>1, <1>t, <1>n, <1>d, NsecPositive DEF FirstFile
  <2> QED
    BY <1>1, <1>t, <2>1
    DEF FirstFile, PacingInv, PacingTypeOK, Scheduled, Waiting, Sleeping,
        NeverEarly, Due
<1>2. CASE ReadClock
  <2>1. now' \in Normal /\ Total(now') = time
    BY <1>2, <1>t, TimespecExact DEF ReadClock
  <2>2. wait' = timespec_timeleft(shouldve, start, now') /\ wait' \in Normal
    BY <1>2, <1>t, <2>1, Timeleft DEF ReadClock
  <2> QED
    BY <1>2, <1>t, <2>1, <2>2
    DEF ReadClock, PacingInv, PacingTypeOK, Scheduled, Waiting, Sleeping, NeverEarly
<1>3. CASE Sleep
  <2>1. until' = time + Total(wait) /\ until' \in Nat
    BY <1>3, <1>t, <1>n DEF Sleep
  <2>2. Total(now) <= time
    BY <1>3 DEF Sleep, PacingInv, Waiting
  <2>3. Total(now) + Total(wait) >= Due(files_sent)
    BY <1>3, WaitIsEnough DEF Sleep
  <2>4. until' >= Due(files_sent)
    BY <1>t, <1>n, <1>d, <2>1, <2>2, <2>3
  <2> QED
    BY <1>3, <1>t, <2>1, <2>4
    DEF Sleep, PacingInv, PacingTypeOK, Scheduled, Waiting, Sleeping, NeverEarly, Due
<1>4. CASE Wake
  <2>1. ~interrupted => time >= Due(files_sent)
    BY <1>4, <1>t, <1>n, <1>d DEF Wake, PacingInv, Sleeping
  <2> QED
    BY <1>4, <1>t, <2>1
    DEF Wake, PacingInv, PacingTypeOK, Scheduled, Waiting, Sleeping, NeverEarly, Due
<1>5. CASE SenderReturns
  <2>1. shouldve' \in Normal /\ Total(shouldve') = Total(shouldve) + UNIT_NS
    BY <1>5, <1>t, ZeroTimes, AddExact DEF SenderReturns
  <2>2. (files_sent + 1) * UNIT_NS = (files_sent * UNIT_NS) + UNIT_NS
    BY <1>t, NsecPositive, Distributes
  <2>3. files_sent' = files_sent + 1 /\ files_sent' \in Nat
    BY <1>5, <1>t DEF SenderReturns
  <2>4. Total(shouldve') = files_sent' * UNIT_NS
    BY <1>t, <2>1, <2>2, <2>3
  <2> QED
    BY <1>5, <1>t, <2>1, <2>3, <2>4
    DEF SenderReturns, PacingInv, PacingTypeOK, Scheduled, Waiting, Sleeping, NeverEarly
<1>6. CASE End
  BY <1>6, <1>t
  DEF End, PacingInv, PacingTypeOK, Scheduled, Waiting, Sleeping, NeverEarly
<1>7. CASE SignalSender
  <2>1. Waiting' /\ Sleeping'
    BY <1>7 DEF SignalSender, PacingInv, Waiting, Sleeping, Due
  <2> QED
    BY <1>7, <1>t, <2>1 DEF SignalSender, PacingInv, PacingTypeOK, Scheduled, NeverEarly
<1>8. CASE Tick
  <2>1. PICK d \in Ticks : time' = time + d
    BY <1>8 DEF Tick
  <2>2. time' \in Nat /\ time' >= time
    BY <1>t, <2>1, ClockAssumption
  <2>3. PacingTypeOK' /\ Scheduled'
    BY <1>8, <1>t, <1>n, <2>2 DEF Tick, PacingTypeOK, Scheduled
  <2>4. Waiting' /\ Sleeping'
    BY <1>8, <1>t, <1>n, <2>2 DEF Tick, PacingInv, Waiting, Sleeping, Due
  <2>5. NeverEarly'
    BY <1>8, <1>t, <1>n, <1>d, <2>2 DEF Tick, PacingInv, NeverEarly, Due
  <2> QED
    BY <2>3, <2>4, <2>5 DEF PacingInv
<1>9. CASE UNCHANGED pacingVars
  BY <1>9
  DEF pacingVars, PacingInv, PacingTypeOK, Scheduled, Waiting, Sleeping, NeverEarly, Due
<1> QED
  BY <1>1, <1>2, <1>3, <1>4, <1>5, <1>6, <1>7, <1>8, <1>9 DEF PacingNext

(* LHE_send_dir keeps to the frame rate: no file is sent earlier than the  *)
(* start plus its number times the unit, however long the files before it  *)
(* took, except when a SIGINT has cut the sleep short and nothing is sent. *)
THEOREM NeverSentEarly == PacingSpec => []NeverEarly
<1>1. PacingInv => NeverEarly
  BY DEF PacingInv
<1> QED
  BY <1>1, PacingStarts, PacingKeeps, PTL DEF PacingSpec

(* A file that is in time is slept for exactly; a late one is put off to a *)
(* whole number of seconds after its time, by less than a second.          *)
THEOREM LateFilesPutOff == PacingSpec => []PutOffToWholeSeconds
<1>1. PacingInv => PutOffToWholeSeconds
  <2> SUFFICES ASSUME PacingInv, place = "wait"
               PROVE  LET late   == Total(now) - Due(files_sent)
                          putOff == late + Total(wait)
                      IN  /\ late <= 0 => putOff = 0
                          /\ late > 0 => putOff % NSEC = 0
                                         /\ putOff - late \in 0 .. NSEC - 1
    BY DEF PutOffToWholeSeconds
  <2> DEFINE late   == Total(now) - Due(files_sent)
             putOff == late + Total(wait)
  <2>1. /\ start \in Normal /\ now \in Normal /\ shouldve \in Normal
        /\ Total(start) <= Total(now)
        /\ Total(shouldve) = files_sent * UNIT_NS
        /\ wait = timespec_timeleft(shouldve, start, now)
    BY DEF PacingInv, PacingTypeOK, Scheduled, Waiting
  <2>2. late = Total(now) - (Total(start) + Total(shouldve))
    BY <2>1 DEF Due
  <2>3. /\ wait \in Normal
        /\ late <= 0 => late + Total(wait) = 0
        /\ late > 0 => /\ Total(wait) \in 0 .. NSEC - 1
                       /\ \E k \in Nat : late + Total(wait) = k * NSEC
    BY <2>1, <2>2, Timeleft
  <2>4. late \in Int
    BY <2>1, <2>2, TotalNat
  <2>5. Total(wait) \in Nat
    BY <2>3, TotalNat
  <2> HIDE DEF late
  <2>6. late > 0 => putOff % NSEC = 0
    BY <2>3, NsecPositive, MultipleMod
  <2>7. putOff - late = Total(wait)
    BY <2>4, <2>5
  <2> QED
    BY <2>3, <2>6, <2>7 DEF late
<1> QED
  BY <1>1, PacingStarts, PacingKeeps, PTL DEF PacingSpec
=============================================================================
