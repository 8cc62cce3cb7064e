------------------------- MODULE MemorySenderProofs -------------------------
(***************************************************************************)
(* Theorems about MemorySender, for every camera, every point the frame    *)
(* counter starts from and any number of SIGINTs: the thread takes no step *)
(* that SenderThread, and so the RTSP server's side of the model, does not *)
(* know; once told to stop it sends at most one more packet; and, in a     *)
(* session of at most 65534 frames, it reads published blocks of the frame *)
(* it has begun only, and its packets tile the frames.                     *)
(***************************************************************************)
EXTENDS MemorySender, TLAPS

(* What the flag and the place in the code are worth: only SIGINT, or the  *)
(* thread itself, sets stop once "stop = false" is behind it; then the     *)
(* packet being shipped is the last.                                       *)
FlagOK ==
  /\ stop \in BOOLEAN /\ pc \in Points
  /\ late_sends = 0 \/ (late_sends = 1 /\ stop /\ pc \in {"loop", "gone"})

(* Nothing has been shipped when the thread starts.                        *)
LEMMA FlagInit == Init => FlagOK
BY DEF Init, FlagOK, Points

(* After a packet shipped with the flag set the thread leaves its loop.    *)
LEMMA FlagNext == FlagOK /\ [Next]_vars => FlagOK'
<1> SUFFICES ASSUME FlagOK, [Next]_vars PROVE FlagOK'
  OBVIOUS
<1>t. /\ stop \in BOOLEAN /\ pc \in Points
      /\ late_sends = 0 \/ (late_sends = 1 /\ stop /\ pc \in {"loop", "gone"})
  BY DEF FlagOK
<1>1. CASE InstallHandler
  BY <1>1, <1>t DEF InstallHandler, histVars, FlagOK, Points
<1>2. CASE StartUp
  BY <1>2, <1>t DEF StartUp, Unreturned, histVars, FlagOK, Points
<1>3. CASE Loop
  <2>1. pc' \in Points /\ (stop => pc' = "gone") /\ stop' = stop
        /\ late_sends' = late_sends
    BY <1>3 DEF Loop, Seen, histVars, Points
  <2> QED
    BY <1>t, <2>1 DEF FlagOK
<1>4. CASE DropFrames
  BY <1>4, <1>t DEF DropFrames, histVars, FlagOK, Points
<1>5. CASE NewFrame
  BY <1>5, <1>t DEF NewFrame, Unreturned, histVars, FlagOK, Points
<1>6. CASE CopyBlock
  <2>1. pc = "chunk" /\ pc' = pc /\ late_sends' = late_sends /\ stop' = ~ Expected
    BY <1>6 DEF CopyBlock, Fetch
  <2>2. stop' \in BOOLEAN
    BY <2>1
  <2> QED
    BY <1>t, <2>1, <2>2 DEF FlagOK
<1>7. CASE QueueBlock
  <2>1. pc = "chunk" /\ pc' = "ship" /\ late_sends' = late_sends /\ stop' = stop
    BY <1>7 DEF QueueBlock, Fetch
  <2> QED
    BY <1>t, <2>1 DEF FlagOK, Points
<1>8. CASE ChunkFull
  BY <1>8, <1>t DEF ChunkFull, histVars, FlagOK, Points
<1>9. CASE Interrupted
  BY <1>9, <1>t DEF Interrupted, histVars, FlagOK, Points
<1>10. CASE Ship
  <2>1. /\ pc = "ship" /\ pc' = "loop" /\ stop' = stop
        /\ \/ late_sends' = late_sends + (IF stop THEN 1 ELSE 0)
           \/ late_sends' = late_sends
    BY <1>10 DEF Ship
  <2>2. late_sends = 0
    BY <1>t, <2>1
  <2>3. late_sends' = 0 \/ (late_sends' = 1 /\ stop)
    BY <2>1, <2>2
  <2> QED
    BY <1>t, <2>1, <2>3 DEF FlagOK, Points
<1>11. CASE Camera
  BY <1>11, <1>t DEF Camera, histVars, FlagOK
<1>12. CASE SigInt
  <2>1. stop' = TRUE /\ pc' = pc /\ late_sends' = late_sends
    BY <1>12 DEF SigInt, histVars
  <2> QED
    BY <1>t, <2>1 DEF FlagOK
<1>13. CASE UNCHANGED vars
  BY <1>13, <1>t DEF vars, histVars, FlagOK
<1> QED
  BY <1>1, <1>2, <1>3, <1>4, <1>5, <1>6, <1>7, <1>8, <1>9, <1>10, <1>11, <1>12,
     <1>13 DEF Next, Sender

(* After stop is set at most the packet being shipped still leaves.        *)
THEOREM MemoryStopWithinOnePacket == Spec => []StopWithinOnePacket
<1>1. FlagOK => StopWithinOnePacket
  BY DEF FlagOK, StopWithinOnePacket
<1> QED
  BY <1>1, FlagInit, FlagNext, PTL DEF Spec

(* Each step is one of SenderThread's, a SIGINT, or invisible there.       *)
LEMMA ThreadSteps ==
  FlagOK /\ [Next]_vars =>
    Thread!ThreadStep \/ Thread!Signal \/ UNCHANGED Thread!threadVars
<1> SUFFICES ASSUME FlagOK, [Next]_vars
             PROVE  Thread!ThreadStep \/ Thread!Signal \/ UNCHANGED Thread!threadVars
  OBVIOUS
<1>t. stop \in BOOLEAN /\ pc \in Points
  BY DEF FlagOK
<1>s. Phase' = Phase /\ stop' = stop => UNCHANGED Thread!threadVars
  BY DEF Thread!threadVars
<1>f. Phase = "streaming" /\ Phase' = Phase /\ stop' = TRUE => Thread!ThreadStep
  BY DEF Thread!ThreadStep, Thread!Fail
<1>g. Phase = "streaming" /\ stop /\ Phase' = "gone" /\ stop' = stop => Thread!ThreadStep
  BY DEF Thread!ThreadStep, Thread!Leave
<1>p. /\ pc \in {"loop", "header", "chunk", "ship"} => Phase = "streaming"
      /\ pc' \in {"loop", "header", "chunk", "ship"} => Phase' = "streaming"
      /\ pc' = "gone" => Phase' = "gone"
      /\ pc' = pc => Phase' = Phase
  BY DEF Phase
<1>1. CASE InstallHandler
  BY <1>1 DEF InstallHandler, Phase, Thread!ThreadStep, Thread!Catch
<1>2. CASE StartUp
  BY <1>2 DEF StartUp, Unreturned, Phase, Thread!ThreadStep, Thread!Begin
<1>3. CASE Loop
  <2>1. /\ pc = "loop" /\ stop' = stop
        /\ (pc' = "gone" /\ stop) \/ pc' \in {"header", "chunk"}
    BY <1>3 DEF Loop, Seen
  <2> QED
    BY <1>p, <1>s, <1>g, <2>1
<1>4. CASE DropFrames \/ Camera
  BY <1>4, <1>p, <1>s DEF DropFrames, Camera
<1>5. CASE NewFrame
  <2>1. pc = "header" /\ pc' = "chunk" /\ stop' \in {stop, TRUE}
    BY <1>5 DEF NewFrame, Unreturned
  <2> QED
    BY <1>p, <1>s, <1>f, <2>1
<1>6. CASE CopyBlock
  <2>1. pc = "chunk" /\ pc' = pc /\ stop' = ~ Expected /\ ~ stop
    BY <1>6 DEF CopyBlock, Fetch, Seen
  <2>2. CASE Expected
    <3>1. stop' = stop
      BY <1>t, <2>1, <2>2
    <3> QED
      BY <1>p, <1>s, <2>1, <3>1
  <2>3. CASE ~ Expected
    <3>1. stop' = TRUE
      BY <2>1, <2>3
    <3> QED
      BY <1>p, <1>f, <2>1, <3>1
  <2> QED
    BY <2>2, <2>3
<1>7. CASE QueueBlock \/ ChunkFull
  <2>1. pc = "chunk" /\ pc' = "ship" /\ stop' = stop
    BY <1>7 DEF QueueBlock, ChunkFull, Fetch
  <2> QED
    BY <1>p, <1>s, <2>1
<1>8. CASE Interrupted
  <2>1. pc \in {"header", "chunk"} /\ pc' = "gone" /\ stop /\ stop' = stop
    BY <1>8 DEF Interrupted, Seen
  <2> QED
    BY <1>p, <1>g, <2>1
<1>9. CASE Ship
  <2>1. pc = "ship" /\ pc' = "loop" /\ stop' = stop
    BY <1>9 DEF Ship
  <2> QED
    BY <1>p, <1>s, <2>1
<1>10. CASE SigInt
  <2>1. pc # "created" /\ pc' = pc /\ stop' = TRUE
    BY <1>10 DEF SigInt
  <2>2. Phase # "idle"
    BY DEF Phase
  <2> QED
    BY <1>p, <2>1, <2>2 DEF Thread!Signal
<1>11. CASE UNCHANGED vars
  BY <1>11, <1>p, <1>s DEF vars
<1> QED
  BY <1>1, <1>2, <1>3, <1>4, <1>5, <1>6, <1>7, <1>8, <1>9, <1>10, <1>11
  DEF Next, Sender

(* The transmitting thread takes only the steps the RTSP server's model    *)
(* reckons with: it is caught before it streams, forgets a SIGINT at one   *)
(* place only, and leaves only when stop is set.                           *)
THEOREM MemorySenderIsAThread ==
  Spec => [][Thread!ThreadStep \/ Thread!Signal]_Thread!threadVars
BY FlagInit, FlagNext, ThreadSteps, PTL DEF Spec
-----------------------------------------------------------------------------
(* What reaches the network                                                *)

(* The frame the library stands at, and what is left behind of it.         *)
Cur     == FrameOf(current_frame)
Streams == pc \notin {"created", "caught"}
(* Blocks got from the library for the frame in progress: the ones copied  *)
(* and the one that waits for the next packet.                             *)
Got     == blocks_read + (IF block_queued THEN 1 ELSE 0)
(* The block the packet being filled begins with.                          *)
Start   == IF get_id THEN blocks_read ELSE first_block_id

(* The camera publishes blocks of frames that exist.                       *)
CameraInv ==
  /\ video \in Videos /\ first_frame \in FirstFrames
  /\ hw \in [f : 0 .. Len(video), b : Nat]
  /\ hw.f < Len(video) => hw.b < Len(video[hw.f + 1])
  /\ hw.f = Len(video) => hw.b = 0
  /\ current_frame \in Uint16 /\ current_block \in Nat
  /\ number_blocks \in Nat /\ number_of_available_blocks \in Int

(* What the thread's own variables range over.                             *)
ThreadInv ==
  /\ pc \in Points /\ {stop, first, setup, block_queued, get_id} \subseteq BOOLEAN
  /\ received_block \in Nat /\ first_block_id \in Nat
  /\ blocks_in_image \in Nat /\ blocks_read \in 0 .. blocks_in_image
  /\ blocks_in_chunk \in 0 .. MAX_BLOCKS_PER_CHUNK /\ used \in Nat
  /\ seq_num \in Uint16 /\ ts \in 0 .. TS_MOD - 1 /\ M \in {0, 1}
  /\ packets_sent \in Nat /\ signals \in 0 .. MaxSignals
  /\ taken \in [frame : Nat, block : Nat] /\ in_frame \in Nat

(* Where the flags stand at each point of the code.                        *)
PointInv ==
  /\ ~ Streams => /\ first /\ wire = <<>> /\ packets_sent = 0
  /\ pc = "header" => first /\ blocks_in_chunk = 0
  /\ pc \in {"chunk", "ship"} => ~ first
  /\ pc # "ship" /\ pc # "chunk" /\ pc # "gone" => get_id /\ used = HEADER_BYTES
  /\ first => blocks_read = 0 /\ ~ block_queued /\ get_id
  /\ ~ first => M = 0
  /\ ~ first /\ pc = "loop" => blocks_read < blocks_in_image

(* The packet being filled: its blocks follow each other from its first    *)
(* one, they fit or there is but one, and the queued block goes first.     *)
ChunkInv ==
  pc \in {"chunk", "ship"} =>
    /\ get_id => /\ pc = "chunk" /\ blocks_in_chunk = 0 /\ used = HEADER_BYTES
                 /\ blocks_read < blocks_in_image
    /\ ~ get_id => /\ blocks_in_chunk >= 1
                   /\ first_block_id + blocks_in_chunk = blocks_read
                   /\ pc = "chunk" => ~ block_queued
    /\ blocks_in_chunk <= 1 \/ used <= MaxChunk

(* The library and the sender count the blocks of the same frame, and what *)
(* the library may hand out is published.                                  *)
FrameInv ==
  /\ Streams /\ first => Cur <= hw.f + 1
  /\ ~ first =>
       /\ in_frame < Len(video) /\ blocks_in_image = Len(video[in_frame + 1])
       /\ number_blocks = blocks_in_image /\ Got <= blocks_in_image
       /\ Got < blocks_in_image =>
            /\ Cur = in_frame /\ in_frame <= hw.f /\ current_block = Got
            /\ number_of_available_blocks >= 1 /\ hw.f = in_frame
                 => current_block + number_of_available_blocks <= hw.b
       /\ Got = blocks_in_image =>
            /\ Cur = in_frame + 1 /\ in_frame < hw.f /\ current_block = 0
       /\ block_queued => received_block = blocks_read

(* The block copied last, or kept for the next packet.                     *)
TakenInv ==
  ~ get_id \/ block_queued =>
    /\ taken.frame = in_frame /\ taken.block = received_block
    /\ taken.frame < hw.f \/ (taken.frame = hw.f /\ taken.block < hw.b)

Packets == [nth : Nat, seq : Uint16, ts : Nat, m : {0, 1}, frame : Nat, fb : Nat,
            n : Nat, size : Nat]
(* A packet that has left.                                                 *)
PacketOK(p) ==
  /\ p \in Packets /\ p.nth \in 1 .. packets_sent
  /\ p.frame < Len(video) /\ (p.m = 1 <=> p.fb + p.n = NB(p))
  /\ p.n \in 1 .. MAX_BLOCKS_PER_CHUNK /\ (p.size <= MaxChunk \/ p.n = 1)
(* What comes after the last packet that left.                             *)
LastOK(p) ==
  /\ seq_num = (p.seq + packets_sent - p.nth) % SEQ_MOD
  /\ p.nth = packets_sent =>
       IF p.m = 1 THEN IF first THEN p.frame < Cur ELSE p.frame < in_frame /\ Start = 0
       ELSE ~ first /\ p.frame = in_frame /\ p.ts = ts /\ Start = p.fb + p.n

WireInv ==
  /\ wire \in Seq(Packets)
  /\ \A k \in 1 .. Len(wire) : PacketOK(wire[k])
  /\ \A k \in 1 .. Len(wire) - 1 :
       /\ wire[k + 1].nth = wire[k].nth + 1 => Follows(wire[k], wire[k + 1])
       /\ wire[k + 1].seq = (wire[k].seq + wire[k + 1].nth - wire[k].nth) % SEQ_MOD
  /\ wire # <<>> => LastOK(wire[Len(wire)])

FollowInv ==
  CameraInv /\ ThreadInv /\ PointInv /\ ChunkInv /\ FrameInv /\ TakenInv /\ WireInv

(* A session of at most 65534 frames, 36 minutes at 30 frames per second:  *)
(* with one more, the hardware can be 65535 ahead, which the library reads *)
(* as one behind.                                                          *)
Half        == 32768
Horizon     == 65534
ShortVideos == \A v \in Videos : Len(v) <= Horizon

(* The widths: all that is used of the numbers below.                      *)
LEMMA Widths ==
  /\ Horizon \in Nat /\ Horizon > 1 /\ FRAME_MOD = Horizon + 2 /\ SEQ_MOD = FRAME_MOD
  /\ FRAME_MOD \in Nat /\ Uint16 = 0 .. FRAME_MOD - 1
  /\ Half \in Nat /\ Half > 1 /\ FRAME_MOD = 2 * Half
BY SMTT(30) DEF Horizon, Half, FRAME_MOD, SEQ_MOD, Uint16

(* The bounds of a chunk: all that is used of them below.                  *)
LEMMA Bounds ==
  /\ MaxChunk \in Nat /\ HEADER_BYTES \in Nat /\ HEADER_BYTES < MaxChunk
  /\ MAX_BLOCKS_PER_CHUNK \in Nat \ {0}
  /\ \A n \in 0 .. MAX_BLOCKS_PER_CHUNK : n % 64 = n
  /\ MAX_BLOCK_BYTES \in Nat /\ MaxSignals \in Nat /\ TS_MOD \in Nat \ {0}
  /\ FpsDivs \subseteq Nat /\ InitialSeqs \subseteq Uint16
BY MemorySenderAssumption, SMTT(30) DEF HEADER_BYTES, Uint16

(* A sequence number is of 16 bits.                                        *)
LEMMA SeqKept == \A a \in Int : a % SEQ_MOD \in Uint16
<1>1. SEQ_MOD \in Nat \ {0} /\ Uint16 = 0 .. SEQ_MOD - 1
  BY Widths
<1>2. \A a \in Int, n \in Nat \ {0} : a % n \in 0 .. n - 1
  OBVIOUS
<1> QED
  BY <1>1, <1>2

(* What a 16-bit register keeps of a sum of two 16-bit numbers.            *)
LEMMA SumKept ==
  \A a \in Nat : /\ a < FRAME_MOD => a % FRAME_MOD = a
                 /\ FRAME_MOD <= a /\ a < FRAME_MOD + FRAME_MOD
                      => a % FRAME_MOD = a - FRAME_MOD
BY SMTT(30) DEF FRAME_MOD

(* What it keeps of their difference.                                      *)
LEMMA DifferenceKept ==
  \A a \in Int : 0 - FRAME_MOD < a /\ a < 0 => a % FRAME_MOD = a + FRAME_MOD
BY SMTT(30) DEF FRAME_MOD

(* Counting on from a number that has wrapped.                             *)
LEMMA CountOn == \A a \in Int : ((a % SEQ_MOD) + 1) % SEQ_MOD = (a + 1) % SEQ_MOD
BY SMTT(30) DEF SEQ_MOD

(* A counter stands for one frame, and the frame for that counter.         *)
LEMMA CounterOfFrame ==
  ASSUME NEW s \in Uint16, NEW c \in Uint16, NEW f, f = (c - s) % FRAME_MOD
  PROVE  f \in Uint16 /\ c = (s + f) % FRAME_MOD
<1>t. s \in 0 .. FRAME_MOD - 1 /\ c \in 0 .. FRAME_MOD - 1 /\ FRAME_MOD \in Nat
  BY Widths
<1>1. CASE c >= s
  <2>1. c - s \in Nat /\ c - s < FRAME_MOD
    BY <1>1, <1>t
  <2>2. f = c - s
    BY <1>t, <2>1, SumKept
  <2>3. c \in Nat /\ c < FRAME_MOD /\ s + f = c
    BY <1>t, <2>2
  <2>4. c % FRAME_MOD = c
    BY <1>t, <2>3, SumKept
  <2>5. f \in 0 .. FRAME_MOD - 1
    BY <1>1, <1>t, <2>2
  <2> QED
    BY <2>3, <2>4, <2>5, Widths
<1>2. CASE c < s
  <2>1. c - s \in Int /\ 0 - FRAME_MOD < c - s /\ c - s < 0
    BY <1>2, <1>t
  <2>2. f = c - s + FRAME_MOD
    BY <2>1, DifferenceKept
  <2>3. /\ s + f = c + FRAME_MOD /\ s + f \in Nat /\ FRAME_MOD <= s + f
        /\ s + f < FRAME_MOD + FRAME_MOD /\ s + f - FRAME_MOD = c
    BY <1>t, <2>2
  <2>4. (s + f) % FRAME_MOD = c
    BY <1>t, <2>3, SumKept
  <2>5. f \in 0 .. FRAME_MOD - 1
    BY <1>2, <1>t, <2>2
  <2> QED
    BY <2>4, <2>5, Widths
<1> QED
  BY <1>1, <1>2, <1>t

(* The counter of a frame is read back as that frame.                      *)
LEMMA FrameOfCounter ==
  ASSUME NEW s \in Uint16, NEW f \in Uint16, NEW c, c = (s + f) % FRAME_MOD
  PROVE  c \in Uint16 /\ (c - s) % FRAME_MOD = f
<1>t. s \in 0 .. FRAME_MOD - 1 /\ f \in 0 .. FRAME_MOD - 1 /\ FRAME_MOD \in Nat
  BY Widths
<1>s. s + f \in Nat
  BY <1>t
<1>1. CASE s + f < FRAME_MOD
  <2>1. c = s + f
    BY <1>1, <1>s, <1>t, SumKept
  <2>2. c - s = f /\ f \in Nat /\ f < FRAME_MOD
    BY <1>t, <2>1
  <2>3. f % FRAME_MOD = f
    BY <1>t, <2>2, SumKept
  <2>4. c \in 0 .. FRAME_MOD - 1
    BY <1>1, <1>t, <2>1
  <2> QED
    BY <2>2, <2>3, <2>4, Widths
<1>2. CASE ~ (s + f < FRAME_MOD)
  <2>1. c = s + f - FRAME_MOD
    <3>1. FRAME_MOD <= s + f /\ s + f < FRAME_MOD + FRAME_MOD
      BY <1>2, <1>t
    <3> QED
      BY <1>t, <3>1, <1>s, SumKept
  <2>2. /\ c - s \in Int /\ 0 - FRAME_MOD < c - s /\ c - s < 0
        /\ c - s + FRAME_MOD = f
    BY <1>2, <1>t, <2>1
  <2>3. (c - s) % FRAME_MOD = f
    BY <2>2, DifferenceKept
  <2>4. c \in 0 .. FRAME_MOD - 1
    BY <1>2, <1>t, <2>1
  <2> QED
    BY <2>3, <2>4, Widths
<1> QED
  BY <1>1, <1>2

(* Two counters, and the frames they stand for.                            *)
LEMMA CountersApart ==
  ASSUME NEW s \in Uint16, NEW h \in 0 .. Horizon + 1, NEW c, c = (s + h) % FRAME_MOD
  PROVE  c = IF s + h < FRAME_MOD THEN s + h ELSE s + h - FRAME_MOD
<1>t. /\ s \in 0 .. FRAME_MOD - 1 /\ FRAME_MOD = Horizon + 2 /\ Horizon \in Nat
      /\ Horizon > 1
  BY Widths
<1>s. s + h \in Nat /\ s + h < FRAME_MOD + FRAME_MOD /\ FRAME_MOD \in Nat
  BY <1>t
<1>1. CASE s + h < FRAME_MOD
  BY <1>1, <1>s, SumKept
<1>2. CASE FRAME_MOD <= s + h
  <2>1. (s + h) % FRAME_MOD = s + h - FRAME_MOD
    BY <1>2, <1>t, <1>s, SumKept
  <2> QED
    BY <1>2, <1>s, <2>1
<1> QED
  BY <1>1, <1>2, <1>s

(* How far the hardware is ahead, as both functions of the library work it *)
(* out. The first reads the register as signed: it can be a whole turn     *)
(* short, and then says the hardware is behind; it is never short and not  *)
(* negative. The second reads it as unsigned.                              *)
LEMMA AheadRight ==
  ASSUME NEW s \in Uint16, NEW h \in 0 .. Horizon, NEW f \in 0 .. Horizon + 1, f <= h + 1,
         NEW r, r = (s + h) % FRAME_MOD, NEW c, c = (s + f) % FRAME_MOD
  PROVE  /\ Unwrapped(AsInt16(r) - c) \in {h - f, h - f - FRAME_MOD}
         /\ f <= h => Unwrapped(r - c) = h - f
<1>t. /\ s \in 0 .. FRAME_MOD - 1 /\ FRAME_MOD = Horizon + 2 /\ Horizon \in Nat
      /\ Horizon > 1
  BY Widths
<1>1. r = IF s + h < FRAME_MOD THEN s + h ELSE s + h - FRAME_MOD
  <2>1. h \in 0 .. Horizon + 1
    BY <1>t
  <2> QED
    BY <2>1, CountersApart
<1>2. c = IF s + f < FRAME_MOD THEN s + f ELSE s + f - FRAME_MOD
  BY CountersApart
<1>h. Half \in Nat /\ Half > 1 /\ FRAME_MOD = 2 * Half
  BY Widths
<1>5. AsInt16(r) = IF r >= Half THEN r - FRAME_MOD ELSE r
  BY DEF AsInt16, Half
<1>3. Unwrapped(AsInt16(r) - c) \in {h - f, h - f - FRAME_MOD}
  <2>1. AsInt16(r) \in {r, r - FRAME_MOD}
    BY <1>5
  <2> QED
    BY <1>t, <1>h, <1>1, <1>2, <1>5, SMT DEF Unwrapped
<1>4. f <= h => Unwrapped(r - c) = h - f
  BY <1>t, <1>1, <1>2, SMT DEF Unwrapped
<1> QED
  BY <1>3, <1>4

(* A video is a sequence of frames, none of them empty.                    *)
LEMMA VideoShape ==
  ASSUME ShortVideos, CameraInv
  PROVE  /\ Len(video) \in 0 .. Horizon /\ hw.f \in 0 .. Len(video) /\ hw.b \in Nat
         /\ first_frame \in Uint16 /\ DOMAIN video = 1 .. Len(video)
         /\ \A f \in 1 .. Len(video) :
              video[f] \in Seq(Nat) /\ Len(video[f]) \in Nat \ {0}
<1>1. video \in Seq(Seq(Nat)) /\ \A f \in DOMAIN video : Len(video[f]) > 0
  BY MoverAssumption DEF CameraInv
<1>2. Len(video) \in Nat /\ DOMAIN video = 1 .. Len(video)
  BY <1>1
<1>3. \A f \in 1 .. Len(video) : video[f] \in Seq(Nat) /\ Len(video[f]) \in Nat
  BY <1>1, <1>2
<1>4. first_frame \in Uint16
  BY MoverAssumption, Widths DEF CameraInv
<1>5. Len(video) \in 0 .. Horizon
  BY <1>2 DEF ShortVideos, CameraInv
<1>6. hw.f \in 0 .. Len(video) /\ hw.b \in Nat
  BY DEF CameraInv
<1>7. \A f \in 1 .. Len(video) : video[f] \in Seq(Nat) /\ Len(video[f]) \in Nat \ {0}
  <2> SUFFICES ASSUME NEW f \in 1 .. Len(video)
               PROVE  video[f] \in Seq(Nat) /\ Len(video[f]) \in Nat \ {0}
    OBVIOUS
  <2>1. Len(video[f]) > 0 /\ Len(video[f]) \in Nat /\ video[f] \in Seq(Nat)
    BY <1>1, <1>2, <1>3
  <2> QED
    BY <2>1
<1> QED
  BY <1>2, <1>4, <1>5, <1>6, <1>7

(* The frame the library's counter stands for.                             *)
LEMMA CurCounter ==
  ASSUME ShortVideos, CameraInv
  PROVE  Cur \in Uint16 /\ current_frame = (first_frame + Cur) % FRAME_MOD
<1>1. first_frame \in Uint16 /\ current_frame \in Uint16
  BY VideoShape DEF CameraInv
<1>2. Cur = (current_frame - first_frame) % FRAME_MOD
  BY DEF Cur, FrameOf
<1> QED
  BY <1>1, <1>2, CounterOfFrame

(* As long as the library is not past the hardware by more than the frame  *)
(* it waits for, it knows how far it is behind.                            *)
LEMMA DiffsRight ==
  ASSUME ShortVideos, CameraInv, Cur <= hw.f + 1
  PROVE  /\ Cur \in 0 .. Horizon + 1 /\ HeaderDiff \in Int
         /\ HeaderDiff >= 0 => HeaderDiff = hw.f - Cur
         /\ Cur <= hw.f => BlockDiff = hw.f - Cur
<1>t. /\ hw.f \in 0 .. Horizon /\ first_frame \in Uint16 /\ current_frame \in Uint16
      /\ Horizon \in Nat
  BY VideoShape, Widths DEF CameraInv
<1>1. Cur \in Uint16 /\ current_frame = (first_frame + Cur) % FRAME_MOD
  BY CurCounter
<1>2. Cur \in 0 .. Horizon + 1
  BY <1>t, <1>1, Widths
<1>4. HwFrame = (first_frame + hw.f) % FRAME_MOD
  BY DEF HwFrame
<1>5. /\ Unwrapped(AsInt16(HwFrame) - current_frame)
           \in {hw.f - Cur, hw.f - Cur - FRAME_MOD}
      /\ Cur <= hw.f => Unwrapped(HwFrame - current_frame) = hw.f - Cur
  <2> DEFINE h == hw.f
             f == Cur
             r == HwFrame
             c == current_frame
  <2>1. /\ first_frame \in Uint16 /\ h \in 0 .. Horizon /\ f \in 0 .. Horizon + 1
        /\ f <= h + 1 /\ r = (first_frame + h) % FRAME_MOD
        /\ c = (first_frame + f) % FRAME_MOD
    BY <1>t, <1>1, <1>2, <1>4
  <2> HIDE DEF h, f, r, c
  <2>2. /\ Unwrapped(AsInt16(r) - c) \in {h - f, h - f - FRAME_MOD}
        /\ f <= h => Unwrapped(r - c) = h - f
    BY <2>1, AheadRight
  <2> QED
    BY <2>2 DEF h, f, r, c
<1>6. HeaderDiff \in {hw.f - Cur, hw.f - Cur - FRAME_MOD}
  BY <1>5 DEF HeaderDiff
<1>7. HeaderDiff \in Int /\ (HeaderDiff >= 0 => HeaderDiff = hw.f - Cur)
  BY <1>t, <1>2, <1>6, Widths
<1> QED
  BY <1>2, <1>5, <1>7 DEF BlockDiff

(* The library's counter set to the frame after one a register shows.      *)
LEMMA CounterMoves ==
  ASSUME ShortVideos, CameraInv, first_frame' = first_frame,
         NEW k \in 0 .. Horizon, NEW d, d = (first_frame + k) % FRAME_MOD,
         current_frame' = (d + 1) % FRAME_MOD
  PROVE  current_frame' \in Uint16 /\ Cur' = k + 1
<1>t. /\ first_frame \in Uint16 /\ Horizon \in Nat /\ FRAME_MOD \in Nat
      /\ FRAME_MOD = Horizon + 2 /\ Horizon > 1 /\ Uint16 = 0 .. FRAME_MOD - 1
  BY VideoShape, Widths
<1> DEFINE c == current_frame'
           g == k + 1
<1>2. g \in Uint16
  BY <1>t
<1>1. d = IF first_frame + k < FRAME_MOD THEN first_frame + k
          ELSE first_frame + k - FRAME_MOD
  <2>1. k \in 0 .. Horizon + 1
    BY <1>t
  <2> QED
    BY <1>t, <2>1, CountersApart
<1>3. c = (first_frame + g) % FRAME_MOD
  <2>2. c = (d + 1) % FRAME_MOD
    OBVIOUS
  <2>3. CASE first_frame + k < FRAME_MOD
    <3>1. d + 1 = first_frame + g
      BY <1>t, <1>1, <2>3
    <3> QED
      BY <2>2, <3>1
  <2>4. CASE ~ (first_frame + k < FRAME_MOD)
    <3>1. d + 1 = first_frame + g - FRAME_MOD
      BY <1>t, <1>1, <2>4
    <3>2. d + 1 \in Nat /\ d + 1 < FRAME_MOD
      BY <1>t, <2>4, <3>1
    <3>3. c = d + 1
      BY <1>t, <2>2, <3>2, SumKept
    <3>4. /\ first_frame + g \in Nat /\ FRAME_MOD <= first_frame + g
          /\ first_frame + g < FRAME_MOD + FRAME_MOD
      BY <1>t, <2>4
    <3>5. (first_frame + g) % FRAME_MOD = (first_frame + g) - FRAME_MOD
      <4> DEFINE e == first_frame + g
      <4>1. e \in Nat /\ FRAME_MOD <= e /\ e < FRAME_MOD + FRAME_MOD
        BY <3>4
      <4> HIDE DEF e
      <4>2. e % FRAME_MOD = e - FRAME_MOD
        BY <1>t, <4>1, SumKept
      <4> QED
        BY <4>2 DEF e
    <3> QED
      <4>1. first_frame + g - FRAME_MOD = (first_frame + g) - FRAME_MOD
        BY <1>t
      <4> HIDE DEF c, g
      <4> QED
        BY <3>1, <3>3, <3>5, <4>1
  <2> QED
    BY <2>3, <2>4
<1>4. Cur' = (c - first_frame) % FRAME_MOD
  BY DEF Cur, FrameOf
<1> HIDE DEF c, g
<1>5. c \in Uint16 /\ (c - first_frame) % FRAME_MOD = g
  <2>1. first_frame \in Uint16
    BY <1>t
  <2> QED
    BY <2>1, <1>2, <1>3, FrameOfCounter
<1> QED
  BY <1>4, <1>5 DEF c, g

(* The thread begins with the frame after the one the hardware is in.      *)
LEMMA StartFacts ==
  ASSUME ShortVideos, CameraInv, StartStreaming
  PROVE  /\ current_frame' \in Uint16 /\ Cur' = hw.f + 1
         /\ UNCHANGED <<cameraVars, number_blocks>>
         /\ current_block' = 0 /\ number_of_available_blocks' = 0
<1>1. /\ UNCHANGED <<cameraVars, number_blocks>> /\ current_block' = 0
      /\ number_of_available_blocks' = 0 /\ current_frame' = (HwFrame + 1) % FRAME_MOD
      /\ first_frame' = first_frame
  BY DEF StartStreaming, cameraVars
<1>2. HwFrame = (first_frame + hw.f) % FRAME_MOD
  BY DEF HwFrame
<1>3. hw.f \in 0 .. Horizon
  BY VideoShape, Widths
<1> QED
  BY <1>1, <1>2, <1>3, CounterMoves

(* Frames are dropped when the hardware is more than one ahead.            *)
LEMMA ResyncFacts ==
  ASSUME ShortVideos, CameraInv, Cur <= hw.f + 1, Resync
  PROVE  /\ current_frame' \in Uint16 /\ Cur' = hw.f /\ Cur < hw.f
         /\ UNCHANGED <<cameraVars, current_block, number_blocks,
                        number_of_available_blocks>>
<1>t. /\ first_frame \in Uint16 /\ hw.f \in Uint16 /\ Horizon \in Nat
      /\ hw.f \in 0 .. Horizon
  BY VideoShape, Widths
<1>1. /\ HeaderDiff > 1 /\ current_frame' = HwFrame
      /\ UNCHANGED <<cameraVars, current_block, number_blocks,
                     number_of_available_blocks>>
      /\ first_frame' = first_frame
  BY DEF Resync, cameraVars
<1>2. current_frame' = (first_frame + hw.f) % FRAME_MOD
  BY <1>1 DEF HwFrame
<1> DEFINE c == current_frame'
<1>3. Cur' = (c - first_frame) % FRAME_MOD
  BY <1>1 DEF Cur, FrameOf
<1>4. c = (first_frame + hw.f) % FRAME_MOD
  BY <1>2
<1> HIDE DEF c
<1>5. c \in Uint16 /\ (c - first_frame) % FRAME_MOD = hw.f
  BY <1>t, <1>4, FrameOfCounter
<1>6. Cur < hw.f
  BY <1>t, <1>1, DiffsRight
<1> QED
  BY <1>1, <1>3, <1>5, <1>6 DEF c

(* A header the library hands out is that of a frame of the camera, and    *)
(* what it announces of a frame not yet complete is published.             *)
LEMMA HeaderFacts ==
  ASSUME ShortVideos, CameraInv, Cur <= hw.f + 1, GetGlobalHeader
  PROVE  /\ Cur \in Nat /\ Cur < Len(video) /\ Cur <= hw.f
         /\ Header = Len(video[Cur + 1]) /\ Header \in Nat \ {0}
         /\ UNCHANGED <<cameraVars, current_frame>> /\ Cur' = Cur
         /\ current_block' = 0 /\ number_blocks' = Header
         /\ number_of_available_blocks' \in Nat
         /\ hw.f = Cur => number_of_available_blocks' <= hw.b
<1>t. /\ Len(video) \in 0 .. Horizon /\ hw.f \in 0 .. Len(video) /\ hw.b \in Nat
      /\ \A f \in 1 .. Len(video) : Len(video[f]) \in Nat \ {0}
      /\ Horizon \in Nat /\ number_blocks \in Nat
      /\ hw.f = Len(video) => hw.b = 0
  BY VideoShape, Widths DEF CameraInv
<1>1. /\ HeaderReady /\ HeaderDiff <= 1 /\ number_of_available_blocks' = Announced
      /\ UNCHANGED <<cameraVars, current_frame>>
      /\ current_block' = 0 /\ number_blocks' = Header
  BY DEF GetGlobalHeader
<1>2. /\ Cur \in 0 .. Horizon + 1 /\ HeaderDiff \in Int
      /\ HeaderDiff >= 0 => HeaderDiff = hw.f - Cur
  BY DiffsRight
<1>9. HeaderDiff >= 0
  BY <1>1, <1>2 DEF HeaderReady
<1>3. /\ Cur \in Nat /\ Cur <= hw.f /\ (hw.f = Cur => hw.b > 1)
      /\ HeaderDiff = hw.f - Cur
  BY <1>t, <1>1, <1>2, <1>9 DEF HeaderReady, BLK_WR_BEFORE_RD
<1>4. Cur < Len(video)
  BY <1>t, <1>3
<1>5. Header = Len(video[Cur + 1])
  BY DEF Header, Cur
<1>6. Header \in Nat \ {0}
  <2>1. Cur + 1 \in 1 .. Len(video)
    BY <1>t, <1>3, <1>4
  <2> QED
    BY <1>t, <1>5, <2>1
<1>7. /\ number_of_available_blocks' \in Nat
      /\ hw.f = Cur => number_of_available_blocks' <= hw.b
  BY <1>t, <1>1, <1>3 DEF Announced
<1>8. Cur' = Cur
  BY <1>1 DEF Cur, FrameOf, cameraVars
<1> QED
  BY <1>1, <1>3, <1>4, <1>5, <1>6, <1>7, <1>8

(* The hardware only moves forward, from block to block and frame to frame.*)
LEMMA CameraFacts ==
  ASSUME ShortVideos, CameraInv, HwBlock
  PROVE  /\ UNCHANGED <<video, first_frame, moverVars>>
         /\ hw' \in [f : 0 .. Len(video), b : Nat]
         /\ hw.f < hw'.f \/ (hw.f = hw'.f /\ hw.b < hw'.b)
         /\ hw'.f < Len(video) => hw'.b < Len(video[hw'.f + 1])
         /\ hw'.f = Len(video) => hw'.b = 0
<1>t. /\ Len(video) \in 0 .. Horizon /\ hw.f \in 0 .. Len(video) /\ hw.b \in Nat
      /\ \A f \in 1 .. Len(video) : Len(video[f]) \in Nat \ {0}
      /\ Horizon \in Nat /\ hw \in [f : 0 .. Len(video), b : Nat]
      /\ hw.f < Len(video) => hw.b < Len(video[hw.f + 1])
  BY VideoShape, Widths DEF CameraInv
<1>1. /\ hw.f < Len(video) /\ UNCHANGED <<video, first_frame, moverVars>>
      /\ hw' = IF hw.b + 1 = Len(video[hw.f + 1]) THEN [f |-> hw.f + 1, b |-> 0]
                                                 ELSE [hw EXCEPT !.b = @ + 1]
  BY DEF HwBlock
<1>2. CASE hw.b + 1 = Len(video[hw.f + 1])
  <2>1. hw' = [f |-> hw.f + 1, b |-> 0] /\ hw'.f = hw.f + 1 /\ hw'.b = 0
    BY <1>1, <1>2
  <2>2. hw'.f \in 0 .. Len(video)
    BY <1>t, <1>1, <2>1
  <2>3. hw'.f < Len(video) => hw'.b < Len(video[hw'.f + 1])
    <3>1. ASSUME hw'.f < Len(video) PROVE hw'.f + 1 \in 1 .. Len(video)
      BY <1>t, <2>2, <3>1
    <3>2. ASSUME hw'.f < Len(video) PROVE Len(video[hw'.f + 1]) > 0
      BY <1>t, <3>1, <3>2
    <3> QED
      BY <2>1, <3>2
  <2> QED
    BY <1>t, <1>1, <2>1, <2>2, <2>3
<1>3. CASE hw.b + 1 # Len(video[hw.f + 1])
  <2>1. hw' = [f |-> hw.f, b |-> hw.b + 1] /\ hw'.f = hw.f /\ hw'.b = hw.b + 1
    BY <1>t, <1>1, <1>3
  <2>2. hw.b < Len(video[hw.f + 1]) /\ Len(video[hw.f + 1]) \in Nat
    BY <1>t, <1>1
  <2>3. hw.b + 1 < Len(video[hw.f + 1])
    BY <1>t, <1>3, <2>2
  <2> QED
    BY <1>t, <1>1, <2>1, <2>3
<1> QED
  BY <1>2, <1>3

(* The block the thread gets is the next one of its frame, published, and  *)
(* the one it counts on; the library moves to the one after it.            *)
LEMMA FetchFacts ==
  ASSUME ShortVideos, FollowInv, Fetch
  PROVE  /\ pc = "chunk" /\ ~ first /\ blocks_read < blocks_in_image
         /\ Block = blocks_read /\ InFrame = in_frame /\ BlockLen \in Nat
         /\ in_frame < hw.f \/ (in_frame = hw.f /\ blocks_read < hw.b)
         /\ UNCHANGED cameraVars
         /\ block_queued => UNCHANGED moverVars
         /\ ~ block_queued =>
              /\ number_of_available_blocks' \in Nat /\ number_blocks' = number_blocks
              /\ current_frame' \in Uint16 /\ current_block' \in Nat
              /\ blocks_read + 1 < blocks_in_image =>
                   /\ Cur' = in_frame /\ current_block' = blocks_read + 1
                   /\ in_frame <= hw.f
                   /\ hw.f = in_frame
                        => current_block' + number_of_available_blocks' <= hw.b
              /\ blocks_read + 1 = blocks_in_image =>
                   Cur' = in_frame + 1 /\ in_frame < hw.f /\ current_block' = 0
<1>i. CameraInv /\ ThreadInv /\ PointInv /\ FrameInv /\ TakenInv
  BY DEF FollowInv
<1>0. /\ pc = "chunk" /\ CanTake
      /\ IF block_queued THEN UNCHANGED <<cameraVars, moverVars>> ELSE GetNextBlock
  BY DEF Fetch
<1>1. /\ ~ first /\ blocks_read < blocks_in_image
      /\ blocks_read \in Nat /\ blocks_in_image \in Nat /\ block_queued \in BOOLEAN
      /\ in_frame \in Nat
  BY <1>0, <1>i DEF PointInv, CanTake, ThreadInv
<1>2. /\ in_frame < Len(video) /\ blocks_in_image = Len(video[in_frame + 1])
      /\ number_blocks = blocks_in_image /\ Got <= blocks_in_image
      /\ Got < blocks_in_image =>
            /\ Cur = in_frame /\ in_frame <= hw.f /\ current_block = Got
            /\ number_of_available_blocks >= 1 /\ hw.f = in_frame
                 => current_block + number_of_available_blocks <= hw.b
      /\ block_queued => received_block = blocks_read
  BY <1>1, <1>i DEF FrameInv
<1>3. /\ Len(video) \in 0 .. Horizon /\ hw.f \in 0 .. Len(video) /\ hw.b \in Nat
      /\ \A f \in 1 .. Len(video) :
           video[f] \in Seq(Nat) /\ Len(video[f]) \in Nat \ {0}
      /\ Horizon \in Nat
  BY <1>i, VideoShape, Widths
<1>6. video[in_frame + 1][blocks_read + 1] \in Nat
  <2>1. in_frame + 1 \in 1 .. Len(video)
    BY <1>1, <1>2, <1>3
  <2>2. video[in_frame + 1] \in Seq(Nat)
    BY <1>3, <2>1
  <2>3. blocks_read + 1 \in 1 .. Len(video[in_frame + 1])
    BY <1>1, <1>2
  <2> QED
    BY <2>2, <2>3
<1>4. CASE block_queued
  <2>1. /\ taken.frame = in_frame /\ taken.block = blocks_read
        /\ taken.frame < hw.f \/ (taken.frame = hw.f /\ taken.block < hw.b)
    BY <1>2, <1>4, <1>i DEF TakenInv
  <2>2. Block = blocks_read /\ InFrame = in_frame
    BY <1>2, <1>4, <2>1 DEF Block, InFrame
  <2>3. BlockLen \in Nat
    BY <1>6, <2>2 DEF BlockLen
  <2> QED
    BY <1>0, <1>1, <1>4, <2>1, <2>2, <2>3
<1>5. CASE ~ block_queued
  <2>1. /\ Cur = in_frame /\ in_frame <= hw.f /\ current_block = blocks_read
        /\ number_of_available_blocks >= 1 /\ hw.f = in_frame
             => current_block + number_of_available_blocks <= hw.b
    BY <1>1, <1>2, <1>5 DEF Got
  <2>2. Block = blocks_read /\ InFrame = in_frame
    BY <1>5, <2>1 DEF Block, InFrame, Cur
  <2>3. BlockLen \in Nat
    BY <1>6, <2>2 DEF BlockLen
  <2>4. BlockDiff = hw.f - in_frame
    BY <1>1, <1>3, <1>i, <2>1, DiffsRight
  <2>5. GetNextBlock /\ number_of_available_blocks \in Int
    BY <1>0, <1>5, <1>i DEF CameraInv
  <2>6. /\ Available > 0 /\ Available \in Nat
        /\ in_frame < hw.f \/ (in_frame = hw.f /\ blocks_read < hw.b)
        /\ hw.f = in_frame => current_block + Available <= hw.b
    <3>1. CASE number_of_available_blocks >= 1
      <4>1. Available = number_of_available_blocks
        BY <3>1 DEF Available
      <4> QED
        BY <1>1, <1>3, <2>1, <2>5, <3>1, <4>1
    <3>2. CASE ~ (number_of_available_blocks >= 1)
      <4>1. Available = (IF hw.f - in_frame > 0 THEN number_blocks ELSE hw.b) - blocks_read
        BY <2>1, <2>4, <3>2 DEF Available
      <4>2. Available > 0
        BY <2>5 DEF GetNextBlock
      <4>3. CASE in_frame < hw.f
        <5>1. Available = number_blocks - blocks_read
          BY <1>1, <1>3, <4>1, <4>3
        <5>2. Available \in Nat
          BY <1>1, <1>2, <4>2, <5>1
        <5> QED
          BY <1>1, <1>3, <4>2, <4>3, <5>2
      <4>4. CASE in_frame = hw.f
        <5>1. Available = hw.b - blocks_read
          BY <1>1, <1>3, <4>1, <4>4
        <5>2. Available \in Nat /\ blocks_read < hw.b /\ blocks_read + Available <= hw.b
          BY <1>1, <1>3, <4>2, <5>1
        <5> QED
          BY <2>1, <4>2, <4>4, <5>2
      <4> QED
        BY <1>1, <1>3, <2>1, <4>3, <4>4
    <3> QED
      BY <3>1, <3>2
  <2>7. /\ number_of_available_blocks' = Available - 1 /\ number_blocks' = number_blocks
        /\ current_block' = (IF EndOfFrame THEN 0 ELSE current_block + 1)
        /\ current_frame' = (IF EndOfFrame THEN (current_frame + 1) % FRAME_MOD
                                          ELSE current_frame)
        /\ UNCHANGED cameraVars
    BY <2>5 DEF GetNextBlock
  <2>8. EndOfFrame <=> blocks_read + 1 = blocks_in_image
    BY <1>1, <1>2, <2>1 DEF EndOfFrame
  <2>9. number_of_available_blocks' \in Nat
    BY <2>6, <2>7
  <2>10. CASE blocks_read + 1 < blocks_in_image
    <3>1. ~ EndOfFrame
      BY <1>1, <2>8, <2>10
    <3>2. current_block' = blocks_read + 1 /\ current_frame' = current_frame
      BY <2>1, <2>7, <3>1
    <3>3. Cur' = Cur
      BY <2>7, <3>2 DEF Cur, FrameOf, cameraVars
    <3>4. hw.f = in_frame => current_block' + number_of_available_blocks' <= hw.b
      BY <1>1, <1>3, <2>1, <2>6, <2>7, <3>2
    <3>5. current_frame' \in Uint16
      BY <1>i, <3>2 DEF CameraInv
    <3> QED
      BY <1>0, <1>1, <1>5, <2>1, <2>2, <2>3, <2>6, <2>7, <2>9, <2>10, <3>2, <3>3, <3>4, <3>5
  <2>11. CASE blocks_read + 1 = blocks_in_image
    <3>1. EndOfFrame
      BY <2>8, <2>11
    <3>2. current_block' = 0 /\ current_frame' = (current_frame + 1) % FRAME_MOD
      BY <2>7, <3>1
    <3>3. in_frame < hw.f
      <4>1. SUFFICES ASSUME in_frame = hw.f PROVE FALSE
        BY <1>1, <1>3, <2>1
      <4>2. blocks_read + 1 <= hw.b
        BY <1>1, <1>3, <2>6, <4>1
      <4>3. hw.b < Len(video[hw.f + 1])
        BY <1>2, <1>i, <4>1 DEF CameraInv
      <4> QED
        BY <1>1, <1>2, <1>3, <2>11, <4>1, <4>2, <4>3
    <3>4. Cur \in 0 .. Horizon
      BY <1>1, <1>2, <1>3, <2>1
    <3>5. current_frame' \in Uint16 /\ Cur' = Cur + 1
      <4>1. first_frame' = first_frame /\ CameraInv
        BY <1>i, <2>7 DEF cameraVars
      <4> QED
        BY <3>2, <3>4, <4>1, CurCounter, CounterMoves
    <3> QED
      BY <1>0, <1>1, <1>5, <2>1, <2>2, <2>3, <2>6, <2>7, <2>9, <2>11, <3>2, <3>3, <3>5
  <2> QED
    BY <1>1, <2>10, <2>11
<1> QED
  BY <1>1, <1>4, <1>5

(* A block copied: it was the expected one, and fits or is alone.          *)
LEMMA CopyFacts ==
  ASSUME ShortVideos, FollowInv, CopyBlock
  PROVE  /\ stop' = FALSE /\ pc' = pc /\ block_queued' = FALSE /\ get_id' = FALSE
         /\ blocks_in_chunk < MAX_BLOCKS_PER_CHUNK
         /\ blocks_in_chunk' = blocks_in_chunk + 1 /\ blocks_read' = blocks_read + 1
         /\ used' \in Nat /\ (blocks_in_chunk = 0 \/ used' <= MaxChunk)
<1>1. Expected
  BY FetchFacts DEF CopyBlock, Expected
<1>2. /\ Fetch /\ ~ StaysQueued /\ stop' = ~ Expected /\ pc' = pc
      /\ block_queued' = FALSE /\ blocks_in_chunk' = blocks_in_chunk + 1
      /\ blocks_read' = blocks_read + 1
      /\ used' = used + BLOCK_HEADER + (IF BlockLen > MAX_BLOCK_BYTES THEN 0 ELSE BlockLen)
  BY <1>1 DEF CopyBlock
<1>3. get_id' = FALSE /\ CanTake /\ BlockLen \in Nat /\ pc = "chunk"
  BY <1>2, FetchFacts DEF Fetch
<1>4. /\ used \in Nat /\ blocks_in_chunk \in Nat /\ MaxChunk \in Nat
      /\ MAX_BLOCK_BYTES \in Nat
  BY Bounds DEF FollowInv, ThreadInv
<1>5. used' \in Nat /\ used' <= NewUsed /\ NewUsed \in Nat
  BY <1>2, <1>3, <1>4 DEF BLOCK_HEADER, NewUsed, PTR_BYTES
<1>6. block_queued => blocks_in_chunk = 0
  BY <1>3 DEF FollowInv, ChunkInv, ThreadInv
<1>7. blocks_in_chunk = 0 \/ used' <= MaxChunk
  BY <1>2, <1>4, <1>5, <1>6 DEF StaysQueued
<1> QED
  BY <1>1, <1>2, <1>3, <1>5, <1>7 DEF CanTake

(* What the camera and the library keep.                                   *)
LEMMA CameraNext == ASSUME ShortVideos, FollowInv, [Next]_vars PROVE CameraInv'
<1>i. CameraInv
  BY DEF FollowInv
<1>s. ASSUME UNCHANGED <<cameraVars, moverVars>> PROVE CameraInv'
  BY <1>i, <1>s DEF CameraInv, cameraVars, moverVars
<1>1. CASE InstallHandler \/ Loop \/ ChunkFull \/ Interrupted \/ Ship \/ SigInt
  BY <1>1, <1>s DEF InstallHandler, Loop, ChunkFull, Interrupted, Ship, SigInt
<1>2. CASE StartUp
  <2>1. /\ current_frame' \in Uint16 /\ UNCHANGED <<cameraVars, number_blocks>>
        /\ current_block' = 0 /\ number_of_available_blocks' = 0
    BY <1>2, <1>i, StartFacts DEF StartUp
  <2> QED
    BY <1>i, <2>1 DEF CameraInv, cameraVars
<1>3. CASE DropFrames
  <2>0. Cur <= hw.f + 1
    BY <1>3 DEF DropFrames, FollowInv, FrameInv, PointInv, Streams
  <2>1. /\ current_frame' \in Uint16
        /\ UNCHANGED <<cameraVars, current_block, number_blocks,
                       number_of_available_blocks>>
    BY <1>3, <1>i, <2>0, ResyncFacts DEF DropFrames
  <2> QED
    BY <1>i, <2>1 DEF CameraInv, cameraVars
<1>4. CASE NewFrame
  <2>0. Cur <= hw.f + 1
    BY <1>4 DEF NewFrame, FollowInv, FrameInv, PointInv, Streams
  <2>1. /\ UNCHANGED <<cameraVars, current_frame>> /\ current_block' = 0
        /\ number_blocks' \in Nat /\ number_of_available_blocks' \in Nat
    BY <1>4, <1>i, <2>0, HeaderFacts DEF NewFrame
  <2> QED
    BY <1>i, <2>1 DEF CameraInv, cameraVars
<1>5. CASE CopyBlock \/ QueueBlock
  <2>0. Fetch
    BY <1>5 DEF CopyBlock, QueueBlock
  <2>1. CASE block_queued
    BY <2>0, <2>1, <1>s, FetchFacts
  <2>2. CASE ~ block_queued
    <3>1. /\ UNCHANGED cameraVars /\ number_of_available_blocks' \in Nat
          /\ number_blocks' = number_blocks /\ current_frame' \in Uint16
          /\ current_block' \in Nat
      BY <2>0, <2>2, FetchFacts
    <3> QED
      BY <1>i, <3>1 DEF CameraInv, cameraVars
  <2> QED
    BY <2>1, <2>2
<1>6. CASE Camera
  <2>1. /\ UNCHANGED <<video, first_frame, moverVars>>
        /\ hw' \in [f : 0 .. Len(video), b : Nat]
        /\ hw'.f < Len(video) => hw'.b < Len(video[hw'.f + 1])
        /\ hw'.f = Len(video) => hw'.b = 0
    BY <1>6, <1>i, CameraFacts DEF Camera
  <2> QED
    BY <1>i, <2>1 DEF CameraInv, moverVars
<1>7. CASE UNCHANGED vars
  BY <1>7, <1>s DEF vars
<1> QED
  BY <1>1, <1>2, <1>3, <1>4, <1>5, <1>6, <1>7 DEF Next, Sender

(* What the thread's variables range over.                                 *)
LEMMA ThreadNext == ASSUME ShortVideos, FollowInv, [Next]_vars PROVE ThreadInv'
<1>i. ThreadInv
  BY DEF FollowInv
<1>1. CASE InstallHandler
  BY <1>1, <1>i DEF InstallHandler, ThreadInv, flagVars, chunkVars, rtpVars, histVars, Points
<1>2. CASE StartUp
  BY <1>2, <1>i DEF StartUp, Unreturned, ThreadInv, flagVars, chunkVars, rtpVars,
     histVars, Points
<1>3. CASE Loop
  BY <1>3, <1>i, Bounds
  DEF Loop, ThreadInv, flagVars, rtpVars, histVars, Points
<1>4. CASE DropFrames \/ Camera
  BY <1>4, <1>i DEF DropFrames, Camera, ThreadInv, flagVars, chunkVars, rtpVars, histVars
<1>5. CASE NewFrame
  <2>0. Cur <= hw.f + 1 /\ first /\ CameraInv
    BY <1>5 DEF NewFrame, FollowInv, FrameInv, PointInv, Streams
  <2>1. Header \in Nat \ {0} /\ Cur \in Nat
    BY <1>5, <2>0, HeaderFacts DEF NewFrame
  <2>2. /\ pc' = "chunk" /\ stop' \in {stop, TRUE} /\ blocks_in_image' = Header
        /\ in_frame' = Cur /\ first' = FALSE /\ setup' = FALSE /\ M' = 0
        /\ \E fps \in FpsDivs : ts' = NextTs(fps)
        /\ UNCHANGED <<block_queued, get_id, chunkVars, seq_num, packets_sent, histVars,
                       signals>>
    BY <1>5 DEF NewFrame, Unreturned, Cur
  <2>3. ts' \in 0 .. TS_MOD - 1
    <3>1. PICK fps \in FpsDivs : ts' = NextTs(fps)
      BY <2>2
    <3>2. fps \in Nat /\ TS_MOD \in Nat \ {0} /\ ts \in Nat
      BY <1>i, <3>1, Bounds DEF ThreadInv
    <3>3. ts + TS_STEP * fps \in Int
      BY <3>2 DEF TS_STEP
    <3>4. \A x \in Int : x % TS_MOD \in 0 .. TS_MOD - 1
      BY <3>2
    <3>5. (ts + TS_STEP * fps) % TS_MOD \in 0 .. TS_MOD - 1
      BY <3>3, <3>4
    <3> QED
      BY <1>i, <3>1, <3>5 DEF NextTs, ThreadInv
  <2>4. blocks_read = 0
    BY <2>0 DEF FollowInv, PointInv
  <2>5. stop' \in BOOLEAN /\ pc' \in Points /\ blocks_read' \in 0 .. blocks_in_image'
    <3>1. blocks_read' = 0 /\ blocks_in_image' \in Nat
      BY <2>1, <2>2, <2>4 DEF chunkVars
    <3>2. 0 \in 0 .. blocks_in_image'
      BY <3>1
    <3> QED
      BY <1>i, <2>2, <3>1, <3>2 DEF ThreadInv, Points
  <2> QED
    BY <1>i, <2>1, <2>2, <2>3, <2>5 DEF ThreadInv, chunkVars, histVars
<1>6. CASE CopyBlock
  <2>1. /\ stop' = FALSE /\ pc' = pc /\ block_queued' = FALSE /\ get_id' = FALSE
        /\ blocks_in_chunk < MAX_BLOCKS_PER_CHUNK
        /\ blocks_in_chunk' = blocks_in_chunk + 1 /\ blocks_read' = blocks_read + 1
        /\ used' \in Nat
    BY <1>6, CopyFacts
  <2>2. /\ Fetch /\ Block = blocks_read /\ InFrame = in_frame
        /\ blocks_read < blocks_in_image
    BY <1>6, FetchFacts DEF CopyBlock
  <2>3. /\ received_block' = Block /\ taken' = [frame |-> InFrame, block |-> Block]
        /\ first_block_id' = (IF get_id THEN Block ELSE first_block_id)
        /\ UNCHANGED <<first, setup, blocks_in_image, rtpVars, wire, late_sends,
                       in_frame, signals>>
    BY <2>2 DEF Fetch
  <2>4. /\ blocks_read' \in 0 .. blocks_in_image
        /\ blocks_in_chunk' \in 0 .. MAX_BLOCKS_PER_CHUNK
        /\ first_block_id' \in Nat /\ received_block' \in Nat
        /\ taken' \in [frame : Nat, block : Nat]
    <3>1. /\ blocks_read \in Nat /\ in_frame \in Nat /\ blocks_in_image \in Nat
          /\ blocks_in_chunk \in Nat /\ first_block_id \in Nat
      BY <1>i, Bounds DEF ThreadInv
    <3>2. taken' = [frame |-> in_frame, block |-> blocks_read]
      BY <2>2, <2>3
    <3>3. taken' \in [frame : Nat, block : Nat]
      BY <3>1, <3>2
    <3> QED
      BY <2>1, <2>2, <2>3, <3>1, <3>3, Bounds
  <2> QED
    BY <1>i, <2>1, <2>3, <2>4 DEF ThreadInv, rtpVars
<1>7. CASE QueueBlock
  <2>1. block_queued' = TRUE /\ pc' = "ship"
        /\ UNCHANGED <<used, blocks_in_chunk, blocks_read, stop>>
    BY <1>7 DEF QueueBlock
  <2>2. Fetch /\ Block = blocks_read /\ InFrame = in_frame
    BY <1>7, FetchFacts DEF QueueBlock
  <2>3. /\ received_block' = Block /\ taken' = [frame |-> InFrame, block |-> Block]
        /\ first_block_id' = (IF get_id THEN Block ELSE first_block_id)
        /\ get_id' = FALSE
        /\ UNCHANGED <<first, setup, blocks_in_image, rtpVars, wire, late_sends,
                       in_frame, signals>>
    BY <2>2 DEF Fetch
  <2>4. /\ first_block_id' \in Nat /\ received_block' \in Nat
        /\ taken' \in [frame : Nat, block : Nat]
    BY <1>i, <2>2, <2>3 DEF ThreadInv
  <2> QED
    BY <1>i, <2>1, <2>3, <2>4 DEF ThreadInv, rtpVars, Points
<1>8. CASE ChunkFull \/ Interrupted
  BY <1>8, <1>i DEF ChunkFull, Interrupted, ThreadInv, flagVars, chunkVars, rtpVars,
     histVars, Points
<1>9. CASE Ship
  <2>1. /\ seq_num' = NextSeq /\ packets_sent' = packets_sent + 1 /\ get_id' = TRUE
        /\ M' = (IF FrameDone THEN 1 ELSE M) /\ first' = FrameDone
        /\ blocks_read' = (IF FrameDone THEN 0 ELSE blocks_read)
        /\ first_block_id' = (IF FrameDone THEN 0 ELSE first_block_id)
        /\ used' = HEADER_BYTES /\ pc' = "loop"
        /\ UNCHANGED <<stop, setup, block_queued, received_block, blocks_in_chunk,
                       blocks_in_image, ts, taken, in_frame, signals>>
    BY <1>9 DEF Ship
  <2>2. NextSeq \in Uint16
    <3>2. seq_num + 1 \in Int
      BY <1>i, Widths DEF ThreadInv
    <3> QED
      BY <3>2, SeqKept DEF NextSeq
  <2>3. /\ blocks_read' \in 0 .. blocks_in_image /\ first' \in BOOLEAN
        /\ first_block_id' \in Nat /\ M' \in {0, 1} /\ used' \in Nat
        /\ packets_sent' \in Nat /\ pc' \in Points
    BY <1>i, <2>1, Bounds DEF ThreadInv, FrameDone, Points
  <2> QED
    BY <1>i, <2>1, <2>2, <2>3 DEF ThreadInv
<1>10. CASE SigInt
  BY <1>10, <1>i, Bounds
  DEF SigInt, ThreadInv, flagVars, chunkVars, rtpVars, histVars
<1>11. CASE UNCHANGED vars
  BY <1>11, <1>i DEF vars, ThreadInv, flagVars, chunkVars, rtpVars, histVars
<1> QED
  BY <1>1, <1>2, <1>3, <1>4, <1>5, <1>6, <1>7, <1>8, <1>9, <1>10, <1>11
  DEF Next, Sender

(* Where the flags stand at each point of the code.                        *)
LEMMA PointNext == ASSUME ShortVideos, FollowInv, [Next]_vars PROVE PointInv'
<1>i. PointInv /\ ThreadInv
  BY DEF FollowInv
<1>1. CASE InstallHandler
  BY <1>1, <1>i DEF InstallHandler, PointInv, Streams, flagVars, chunkVars, rtpVars, histVars
<1>2. CASE StartUp
  BY <1>2, <1>i DEF StartUp, PointInv, Streams, flagVars, chunkVars, rtpVars, histVars
<1>3. CASE Loop
  BY <1>3, <1>i DEF Loop, Seen, PointInv, Streams, flagVars, rtpVars, histVars
<1>4. CASE DropFrames \/ Camera
  BY <1>4, <1>i DEF DropFrames, Camera, PointInv, Streams, flagVars, chunkVars, rtpVars,
     histVars
<1>5. CASE NewFrame
  BY <1>5, <1>i DEF NewFrame, PointInv, Streams, chunkVars, histVars
<1>6. CASE CopyBlock
  <2>1. pc' = pc /\ pc = "chunk" /\ first' = first /\ ~ first /\ M' = M
    BY <1>6, CopyFacts, FetchFacts DEF CopyBlock, Fetch, rtpVars
  <2> QED
    BY <1>i, <2>1 DEF PointInv, Streams
<1>7. CASE QueueBlock
  <2>1. pc' = "ship" /\ first' = first /\ ~ first /\ M' = M
    BY <1>7, FetchFacts DEF QueueBlock, Fetch, rtpVars
  <2> QED
    BY <1>i, <2>1 DEF PointInv, Streams
<1>8. CASE ChunkFull \/ Interrupted
  BY <1>8, <1>i DEF ChunkFull, Interrupted, PointInv, Streams, flagVars, chunkVars,
     rtpVars, histVars
<1>9. CASE Ship
  <2>1. /\ pc = "ship" /\ pc' = "loop" /\ used' = HEADER_BYTES /\ get_id' = TRUE
        /\ M' = (IF FrameDone THEN 1 ELSE M) /\ first' = FrameDone
        /\ blocks_read' = (IF FrameDone THEN 0 ELSE blocks_read)
        /\ UNCHANGED <<block_queued, blocks_in_image>>
    BY <1>9 DEF Ship
  <2>2. ~ first /\ M = 0 /\ blocks_read \in 0 .. blocks_in_image /\ blocks_in_image \in Nat
        /\ block_queued \in BOOLEAN
    BY <1>i, <2>1 DEF PointInv, ThreadInv
  <2>3. FrameDone => ~ block_queued
    BY <2>2 DEF FollowInv, FrameInv, Got, FrameDone
  <2>4. ~ FrameDone => blocks_read < blocks_in_image
    BY <2>2 DEF FrameDone
  <2>5. first' <=> FrameDone
    BY <2>1
  <2> QED
    BY <2>1, <2>2, <2>3, <2>4, <2>5 DEF PointInv, Streams
<1>10. CASE SigInt
  BY <1>10, <1>i DEF SigInt, PointInv, Streams, flagVars, chunkVars, rtpVars, histVars
<1>11. CASE UNCHANGED vars
  BY <1>11, <1>i DEF vars, PointInv, Streams, flagVars, chunkVars, rtpVars, histVars
<1> QED
  BY <1>1, <1>2, <1>3, <1>4, <1>5, <1>6, <1>7, <1>8, <1>9, <1>10, <1>11
  DEF Next, Sender

(* The packet being filled keeps its shape.                                *)
LEMMA ChunkNext == ASSUME ShortVideos, FollowInv, [Next]_vars PROVE ChunkInv'
<1>i. ChunkInv /\ PointInv /\ ThreadInv
  BY DEF FollowInv
<1>1. CASE InstallHandler \/ StartUp \/ DropFrames \/ Interrupted \/ Ship
  BY <1>1 DEF InstallHandler, StartUp, DropFrames, Interrupted, Ship, ChunkInv
<1>s. ASSUME pc' = pc, UNCHANGED <<flagVars, chunkVars, blocks_in_image>>
      PROVE  ChunkInv'
  BY <1>i, <1>s DEF ChunkInv, flagVars, chunkVars
<1>2. CASE Camera \/ SigInt
  BY <1>2, <1>s DEF Camera, SigInt
<1>3. CASE Loop
  <2>1. /\ pc = "loop" /\ blocks_in_chunk' = 0 /\ pc' # "ship"
        /\ pc' = "chunk" => ~ first
        /\ UNCHANGED <<flagVars, used, blocks_read, blocks_in_image>>
    BY <1>3 DEF Loop, Seen
  <2>2. get_id /\ used = HEADER_BYTES /\ (~ first => blocks_read < blocks_in_image)
    BY <1>i, <2>1 DEF PointInv
  <2> QED
    BY <2>1, <2>2 DEF ChunkInv, flagVars
<1>4. CASE NewFrame
  <2>0. /\ Cur <= hw.f + 1 /\ CameraInv /\ first /\ get_id /\ used = HEADER_BYTES
        /\ blocks_in_chunk = 0 /\ blocks_read = 0
    BY <1>4 DEF NewFrame, FollowInv, FrameInv, PointInv, Streams
  <2>1. Header \in Nat \ {0}
    BY <1>4, <2>0, HeaderFacts DEF NewFrame
  <2>2. /\ pc' = "chunk" /\ blocks_in_image' = Header
        /\ UNCHANGED <<block_queued, get_id, chunkVars>>
    BY <1>4 DEF NewFrame
  <2> QED
    BY <2>0, <2>1, <2>2 DEF ChunkInv, chunkVars
<1>5. CASE CopyBlock
  <2>1. /\ pc' = pc /\ pc = "chunk" /\ block_queued' = FALSE /\ get_id' = FALSE
        /\ blocks_in_chunk' = blocks_in_chunk + 1 /\ blocks_read' = blocks_read + 1
        /\ blocks_in_chunk = 0 \/ used' <= MaxChunk
        /\ first_block_id' = (IF get_id THEN blocks_read ELSE first_block_id)
    BY <1>5, CopyFacts, FetchFacts DEF CopyBlock, Fetch
  <2>2. /\ blocks_in_chunk \in Nat /\ blocks_read \in Nat /\ first_block_id \in Nat
        /\ get_id \in BOOLEAN
        /\ get_id => blocks_in_chunk = 0
        /\ ~ get_id => first_block_id + blocks_in_chunk = blocks_read
    BY <1>i, <2>1, Bounds DEF ThreadInv, ChunkInv
  <2>3. blocks_in_chunk' >= 1 /\ first_block_id' + blocks_in_chunk' = blocks_read'
    BY <2>1, <2>2
  <2>4. blocks_in_chunk' <= 1 \/ used' <= MaxChunk
    BY <2>1, <2>2
  <2> QED
    BY <2>1, <2>3, <2>4 DEF ChunkInv
<1>6. CASE QueueBlock
  <2>1. /\ pc' = "ship" /\ pc = "chunk" /\ get_id' = FALSE /\ StaysQueued
        /\ UNCHANGED <<used, blocks_in_chunk, blocks_read>>
        /\ first_block_id' = (IF get_id THEN blocks_read ELSE first_block_id)
    BY <1>6, FetchFacts DEF QueueBlock, Fetch
  <2>2. /\ blocks_in_chunk \in Nat /\ blocks_in_chunk > 0 /\ get_id \in BOOLEAN
    BY <1>i, <2>1, Bounds DEF ThreadInv, StaysQueued
  <2>3. /\ ~ get_id /\ first_block_id + blocks_in_chunk = blocks_read
        /\ blocks_in_chunk >= 1 /\ (blocks_in_chunk <= 1 \/ used <= MaxChunk)
    BY <1>i, <2>1, <2>2 DEF ChunkInv
  <2>4. first_block_id' = first_block_id
    BY <2>1, <2>3
  <2> QED
    BY <2>1, <2>3, <2>4 DEF ChunkInv
<1>7. CASE ChunkFull
  <2>1. /\ pc = "chunk" /\ ~ CanTake /\ pc' = "ship"
        /\ UNCHANGED <<flagVars, chunkVars, blocks_in_image>>
    BY <1>7 DEF ChunkFull
  <2>2. ~ get_id
    <3>1. ASSUME get_id PROVE FALSE
      <4>1. blocks_in_chunk = 0 /\ used = HEADER_BYTES /\ blocks_read < blocks_in_image
        BY <1>i, <2>1, <3>1 DEF ChunkInv
      <4>2. used < MaxChunk /\ blocks_in_chunk < MAX_BLOCKS_PER_CHUNK
        BY <4>1, Bounds
      <4> QED
        BY <2>1, <4>1, <4>2 DEF CanTake
    <3> QED
      BY <3>1
  <2>3. /\ blocks_in_chunk >= 1 /\ first_block_id + blocks_in_chunk = blocks_read
        /\ blocks_in_chunk <= 1 \/ used <= MaxChunk
    BY <1>i, <2>1, <2>2 DEF ChunkInv
  <2> QED
    BY <2>1, <2>2, <2>3 DEF ChunkInv, flagVars, chunkVars
<1>8. CASE UNCHANGED vars
  BY <1>8, <1>s DEF vars
<1> QED
  BY <1>1, <1>2, <1>3, <1>4, <1>5, <1>6, <1>7, <1>8 DEF Next, Sender

(* The library and the sender count the blocks of the same frame.          *)
LEMMA FrameNext == ASSUME ShortVideos, FollowInv, [Next]_vars PROVE FrameInv'
<1>i. FrameInv /\ PointInv /\ ThreadInv /\ CameraInv
  BY DEF FollowInv
<1>v. /\ Len(video) \in 0 .. Horizon /\ hw.f \in 0 .. Len(video) /\ hw.b \in Nat
      /\ Horizon \in Nat
  BY <1>i, VideoShape, Widths
<1>s. ASSUME Streams' => Streams, first' = first,
             UNCHANGED <<cameraVars, moverVars, block_queued, received_block, blocks_read,
                         blocks_in_image, in_frame>>
      PROVE  FrameInv'
  <2>1. Cur' = Cur /\ Got' = Got
    BY <1>s DEF Cur, FrameOf, Got, cameraVars, moverVars
  <2> QED
    BY <1>i, <1>s, <2>1 DEF FrameInv, cameraVars, moverVars
<1>1. CASE InstallHandler \/ Loop \/ ChunkFull \/ Interrupted \/ SigInt
  BY <1>1, <1>s DEF InstallHandler, Loop, ChunkFull, Interrupted, SigInt, Streams,
     flagVars, chunkVars
<1>2. CASE StartUp
  <2>1. Cur' = hw.f + 1 /\ hw' = hw /\ first' = first /\ first
    BY <1>2, <1>i, StartFacts DEF StartUp, PointInv, Streams, flagVars, cameraVars
  <2> QED
    BY <1>v, <2>1 DEF FrameInv
<1>3. CASE DropFrames
  <2>0. Cur <= hw.f + 1 /\ first /\ first' = first
    BY <1>3, <1>i DEF DropFrames, FrameInv, PointInv, Streams, flagVars
  <2>1. Cur' = hw.f /\ hw' = hw
    BY <1>3, <1>i, <2>0, ResyncFacts DEF DropFrames, cameraVars
  <2> QED
    BY <1>v, <2>0, <2>1 DEF FrameInv
<1>4. CASE NewFrame
  <2>0. Cur <= hw.f + 1 /\ first
    BY <1>4, <1>i DEF NewFrame, FrameInv, PointInv, Streams
  <2>1. /\ Cur \in Nat /\ Cur < Len(video) /\ Cur <= hw.f
        /\ Header = Len(video[Cur + 1]) /\ Header \in Nat \ {0}
        /\ UNCHANGED <<cameraVars, current_frame>> /\ Cur' = Cur
        /\ current_block' = 0 /\ number_blocks' = Header
        /\ number_of_available_blocks' \in Nat
        /\ hw.f = Cur => number_of_available_blocks' <= hw.b
    BY <1>4, <1>i, <2>0, HeaderFacts DEF NewFrame
  <2>2. /\ blocks_in_image' = Header /\ in_frame' = Cur /\ first' = FALSE
        /\ block_queued' = block_queued /\ blocks_read' = blocks_read
    BY <1>4 DEF NewFrame, Cur, chunkVars
  <2>3. blocks_read = 0 /\ ~ block_queued
    BY <1>i, <2>0 DEF PointInv
  <2>4. Got' = 0 /\ ~ block_queued'
    BY <2>2, <2>3 DEF Got
  <2>5. video' = video /\ hw' = hw
    BY <2>1 DEF cameraVars
  <2>6. in_frame' < Len(video') /\ blocks_in_image' = Len(video'[in_frame' + 1])
    BY <2>1, <2>2, <2>5
  <2>7. Got' <= blocks_in_image' /\ Got' < blocks_in_image' /\ Got' # blocks_in_image'
    BY <2>1, <2>2, <2>4
  <2>8. hw'.f = in_frame' => current_block' + number_of_available_blocks' <= hw'.b
    BY <1>v, <2>1, <2>2, <2>5
  <2> QED
    BY <2>1, <2>2, <2>4, <2>5, <2>6, <2>7, <2>8 DEF FrameInv
<1>5. CASE CopyBlock
  <2>1. /\ block_queued' = FALSE /\ blocks_read' = blocks_read + 1 /\ Fetch
    BY <1>5, CopyFacts DEF CopyBlock
  <2>2. /\ ~ first /\ first' = first /\ in_frame' = in_frame
        /\ blocks_in_image' = blocks_in_image /\ blocks_read < blocks_in_image
        /\ UNCHANGED cameraVars /\ blocks_read \in Nat /\ blocks_in_image \in Nat
        /\ in_frame \in Nat /\ block_queued \in BOOLEAN
    <3>1. /\ ~ first /\ blocks_read < blocks_in_image /\ UNCHANGED cameraVars
          /\ Block = blocks_read
      BY <2>1, FetchFacts
    <3>2. /\ UNCHANGED <<first, blocks_in_image, in_frame>> /\ received_block' = Block
      BY <2>1 DEF Fetch
    <3>3. /\ blocks_read \in Nat /\ blocks_in_image \in Nat /\ in_frame \in Nat
          /\ block_queued \in BOOLEAN
      BY <1>i DEF ThreadInv
    <3> QED
      BY <3>1, <3>2, <3>3
  <2>3. /\ in_frame < Len(video) /\ blocks_in_image = Len(video[in_frame + 1])
        /\ number_blocks = blocks_in_image
    BY <1>i, <2>2 DEF FrameInv
  <2>4. Got' = blocks_read + 1 /\ video' = video /\ hw' = hw
    BY <2>1, <2>2 DEF Got, cameraVars
  <2>5. CASE block_queued
    <3>1. UNCHANGED moverVars /\ Cur' = Cur
      BY <2>1, <2>2, <2>5, FetchFacts DEF Cur, FrameOf, moverVars, cameraVars
    <3>2. Got = blocks_read + 1
      BY <2>5 DEF Got
    <3> QED
      BY <1>i, <2>1, <2>2, <2>4, <3>1, <3>2 DEF FrameInv, moverVars
  <2>6. CASE ~ block_queued
    <3>1. /\ number_of_available_blocks' \in Nat /\ number_blocks' = number_blocks
          /\ blocks_read + 1 < blocks_in_image =>
               /\ Cur' = in_frame /\ current_block' = blocks_read + 1
               /\ in_frame <= hw.f
               /\ hw.f = in_frame
                    => current_block' + number_of_available_blocks' <= hw.b
          /\ blocks_read + 1 = blocks_in_image =>
               Cur' = in_frame + 1 /\ in_frame < hw.f /\ current_block' = 0
      BY <2>1, <2>6, FetchFacts
    <3> QED
      BY <2>1, <2>2, <2>3, <2>4, <3>1 DEF FrameInv
  <2> QED
    BY <2>2, <2>5, <2>6
<1>6. CASE QueueBlock
  <2>1. block_queued' = TRUE /\ blocks_read' = blocks_read /\ Fetch /\ StaysQueued
    BY <1>6 DEF QueueBlock
  <2>2. /\ ~ first /\ first' = first /\ in_frame' = in_frame
        /\ blocks_in_image' = blocks_in_image /\ blocks_read < blocks_in_image
        /\ UNCHANGED cameraVars /\ blocks_read \in Nat /\ blocks_in_image \in Nat
        /\ in_frame \in Nat /\ received_block' = blocks_read
    <3>1. /\ ~ first /\ blocks_read < blocks_in_image /\ UNCHANGED cameraVars
          /\ Block = blocks_read
      BY <2>1, FetchFacts
    <3>2. /\ UNCHANGED <<first, blocks_in_image, in_frame>> /\ received_block' = Block
      BY <2>1 DEF Fetch
    <3>3. /\ blocks_read \in Nat /\ blocks_in_image \in Nat /\ in_frame \in Nat
          /\ block_queued \in BOOLEAN
      BY <1>i DEF ThreadInv
    <3> QED
      BY <3>1, <3>2, <3>3
  <2>3. /\ in_frame < Len(video) /\ blocks_in_image = Len(video[in_frame + 1])
        /\ number_blocks = blocks_in_image
    BY <1>i, <2>2 DEF FrameInv
  <2>4. Got' = blocks_read + 1 /\ video' = video /\ hw' = hw
    BY <2>1, <2>2 DEF Got, cameraVars
  <2>5. ~ block_queued
    BY <2>1 DEF StaysQueued
  <2>6. /\ number_of_available_blocks' \in Nat /\ number_blocks' = number_blocks
        /\ blocks_read + 1 < blocks_in_image =>
             /\ Cur' = in_frame /\ current_block' = blocks_read + 1
             /\ in_frame <= hw.f
             /\ hw.f = in_frame
                  => current_block' + number_of_available_blocks' <= hw.b
        /\ blocks_read + 1 = blocks_in_image =>
             Cur' = in_frame + 1 /\ in_frame < hw.f /\ current_block' = 0
    BY <2>1, <2>5, FetchFacts
  <2> QED
    BY <2>1, <2>2, <2>3, <2>4, <2>6 DEF FrameInv
<1>7. CASE Ship
  <2>1. /\ pc = "ship" /\ pc' = "loop" /\ first' = FrameDone
        /\ blocks_read' = (IF FrameDone THEN 0 ELSE blocks_read)
        /\ UNCHANGED <<cameraVars, moverVars, block_queued, received_block, blocks_in_image,
                       in_frame>>
    BY <1>7 DEF Ship
  <2>2. /\ ~ first /\ Cur' = Cur /\ hw' = hw /\ blocks_read \in Nat
        /\ block_queued \in BOOLEAN
    BY <1>i, <2>1 DEF PointInv, Cur, FrameOf, cameraVars, moverVars, ThreadInv
  <2>3. CASE FrameDone
    <3>1. Got = blocks_in_image
      BY <1>i, <2>2, <2>3 DEF FrameInv, Got, FrameDone
    <3>2. Cur = in_frame + 1 /\ in_frame < hw.f /\ in_frame \in Nat
      BY <1>i, <2>2, <3>1 DEF FrameInv, ThreadInv
    <3> QED
      BY <1>v, <2>1, <2>2, <2>3, <3>2 DEF FrameInv
  <2>4. CASE ~ FrameDone
    <3>1. Got' = Got /\ first' = FALSE
      BY <2>1, <2>4 DEF Got
    <3> QED
      BY <1>i, <2>1, <2>2, <2>4, <3>1 DEF FrameInv, cameraVars, moverVars
  <2> QED
    BY <2>3, <2>4
<1>8. CASE Camera
  <2>1. /\ UNCHANGED <<video, first_frame, moverVars>>
        /\ hw' \in [f : 0 .. Len(video), b : Nat]
        /\ hw.f < hw'.f \/ (hw.f = hw'.f /\ hw.b < hw'.b)
    BY <1>8, <1>i, CameraFacts DEF Camera
  <2>2. /\ pc' = pc /\ UNCHANGED <<first, block_queued, received_block, blocks_read,
                                    blocks_in_image, in_frame>>
    BY <1>8 DEF Camera, flagVars, chunkVars
  <2>3. Cur' = Cur /\ Got' = Got /\ Streams' = Streams
    BY <2>1, <2>2 DEF Cur, FrameOf, Got, moverVars, Streams
  <2>4. Cur \in Nat
    BY <1>i, CurCounter, Widths
  <2>5. hw'.f \in Nat /\ hw'.b \in Nat /\ hw.f <= hw'.f
    BY <1>v, <2>1
  <2>6. /\ in_frame \in Nat /\ current_block \in Nat /\ number_of_available_blocks \in Int
    BY <1>i DEF ThreadInv, CameraInv
  <2>7. Streams /\ first => Cur <= hw'.f + 1
    BY <1>i, <1>v, <2>4, <2>5 DEF FrameInv
  <2>8. CASE first
    BY <2>2, <2>3, <2>7, <2>8 DEF FrameInv
  <2>9. CASE ~ first
    <3>1. ASSUME Got < blocks_in_image
          PROVE  /\ Cur = in_frame /\ in_frame <= hw'.f /\ current_block = Got
                 /\ number_of_available_blocks >= 1 /\ hw'.f = in_frame
                      => current_block + number_of_available_blocks <= hw'.b
      <4>1. /\ Cur = in_frame /\ in_frame <= hw.f /\ current_block = Got
            /\ number_of_available_blocks >= 1 /\ hw.f = in_frame
                 => current_block + number_of_available_blocks <= hw.b
        BY <1>i, <2>9, <3>1 DEF FrameInv
      <4> QED
        BY <1>v, <2>1, <2>5, <2>6, <4>1
    <3>2. ASSUME Got = blocks_in_image
          PROVE  Cur = in_frame + 1 /\ in_frame < hw'.f /\ current_block = 0
      <4>1. Cur = in_frame + 1 /\ in_frame < hw.f /\ current_block = 0
        BY <1>i, <2>9, <3>2 DEF FrameInv
      <4> QED
        BY <1>v, <2>5, <2>6, <4>1
    <3> QED
      BY <1>i, <2>1, <2>2, <2>3, <2>9, <3>1, <3>2 DEF FrameInv, moverVars
  <2> QED
    BY <2>8, <2>9
<1>9. CASE UNCHANGED vars
  BY <1>9, <1>s DEF vars, flagVars, chunkVars, Streams
<1> QED
  BY <1>1, <1>2, <1>3, <1>4, <1>5, <1>6, <1>7, <1>8, <1>9 DEF Next, Sender

(* What the thread has copied, or keeps, is published.                     *)
LEMMA TakenNext == ASSUME ShortVideos, FollowInv, [Next]_vars PROVE TakenInv'
<1>i. TakenInv /\ PointInv /\ ThreadInv /\ CameraInv
  BY DEF FollowInv
<1>v. hw.f \in Nat /\ hw.b \in Nat
  BY <1>i, VideoShape
<1>s. ASSUME UNCHANGED <<cameraVars, get_id, block_queued, received_block, taken, in_frame>>
      PROVE  TakenInv'
  BY <1>i, <1>s DEF TakenInv, cameraVars
<1>1. CASE InstallHandler \/ StartUp \/ Loop \/ DropFrames \/ ChunkFull \/ Interrupted
           \/ SigInt
  BY <1>1, <1>s, <1>i, StartFacts
  DEF InstallHandler, StartUp, StartStreaming, Loop, DropFrames, Resync, ChunkFull,
      Interrupted, SigInt, flagVars, chunkVars, histVars
<1>2. CASE NewFrame
  <2>1. get_id /\ ~ block_queued /\ UNCHANGED <<get_id, block_queued>>
    BY <1>2, <1>i DEF NewFrame, PointInv
  <2> QED
    BY <2>1 DEF TakenInv
<1>3. CASE CopyBlock \/ QueueBlock
  <2>1. Fetch
    BY <1>3 DEF CopyBlock, QueueBlock
  <2>2. /\ received_block' = blocks_read /\ in_frame' = in_frame
        /\ taken' = [frame |-> in_frame, block |-> blocks_read]
        /\ in_frame < hw.f \/ (in_frame = hw.f /\ blocks_read < hw.b)
        /\ hw' = hw
    BY <2>1, FetchFacts DEF Fetch, cameraVars
  <2> QED
    BY <2>2 DEF TakenInv
<1>4. CASE Ship
  <2>1. /\ pc = "ship"
        /\ UNCHANGED <<cameraVars, block_queued, received_block, taken, in_frame>>
    BY <1>4 DEF Ship
  <2>2. ~ get_id
    BY <2>1 DEF FollowInv, ChunkInv
  <2> QED
    BY <1>i, <2>1, <2>2 DEF TakenInv, cameraVars
<1>5. CASE Camera
  <2>1. /\ hw.f < hw'.f \/ (hw.f = hw'.f /\ hw.b < hw'.b)
        /\ hw' \in [f : 0 .. Len(video), b : Nat]
    BY <1>5, <1>i, CameraFacts DEF Camera
  <2>2. UNCHANGED <<get_id, block_queued, received_block, taken, in_frame>>
    BY <1>5 DEF Camera, flagVars, chunkVars, histVars
  <2>3. taken.frame \in Nat /\ taken.block \in Nat
    BY <1>i DEF ThreadInv
  <2>4. hw'.f \in Nat /\ hw'.b \in Nat
    BY <1>i, <2>1, VideoShape
  <2>5. taken.frame < hw.f \/ (taken.frame = hw.f /\ taken.block < hw.b)
          => taken.frame < hw'.f \/ (taken.frame = hw'.f /\ taken.block < hw'.b)
    BY <1>v, <2>1, <2>3, <2>4
  <2> QED
    BY <1>i, <2>2, <2>5 DEF TakenInv
<1>6. CASE UNCHANGED vars
  BY <1>6, <1>s DEF vars, flagVars, chunkVars, histVars
<1> QED
  BY <1>1, <1>2, <1>3, <1>4, <1>5, <1>6 DEF Next, Sender

(* What is known of the thread when it ships, and what shipping changes.   *)
LEMMA ShipFacts ==
  ASSUME ShortVideos, FollowInv, Ship
  PROVE  /\ ~ first /\ ~ get_id /\ M = 0
         /\ first_block_id \in Nat /\ blocks_in_chunk \in 1 .. MAX_BLOCKS_PER_CHUNK
         /\ first_block_id + blocks_in_chunk = blocks_read
         /\ blocks_in_chunk <= 1 \/ used <= MaxChunk
         /\ in_frame \in Nat /\ in_frame < Len(video)
         /\ FrameDone <=> blocks_read = Len(video[in_frame + 1])
         /\ FrameDone => Cur = in_frame + 1
         /\ Cur' = Cur /\ first' = FrameDone /\ M' = (IF FrameDone THEN 1 ELSE 0)
         /\ Start = first_block_id /\ (~ FrameDone => Start' = blocks_read)
         /\ seq_num' = NextSeq /\ packets_sent' = packets_sent + 1
         /\ UNCHANGED <<video, ts, in_frame>>
<1>i. ThreadInv /\ PointInv /\ ChunkInv /\ FrameInv
  BY DEF FollowInv
<1>1. /\ pc = "ship" /\ first' = FrameDone /\ M' = (IF FrameDone THEN 1 ELSE M)
      /\ get_id' = TRUE /\ blocks_read' = (IF FrameDone THEN 0 ELSE blocks_read)
      /\ seq_num' = NextSeq /\ packets_sent' = packets_sent + 1
      /\ UNCHANGED <<cameraVars, moverVars, ts, in_frame>>
  BY DEF Ship
<1>2. ~ first /\ M = 0 /\ ~ get_id
  BY <1>i, <1>1 DEF PointInv, ChunkInv
<1>3. /\ blocks_in_chunk >= 1 /\ first_block_id + blocks_in_chunk = blocks_read
      /\ blocks_in_chunk <= 1 \/ used <= MaxChunk
  BY <1>i, <1>1, <1>2 DEF ChunkInv
<1>4. /\ blocks_in_chunk \in 0 .. MAX_BLOCKS_PER_CHUNK /\ first_block_id \in Nat
      /\ in_frame \in Nat /\ blocks_read \in Nat /\ block_queued \in BOOLEAN
  BY <1>i DEF ThreadInv
<1>5. in_frame < Len(video) /\ blocks_in_image = Len(video[in_frame + 1])
  BY <1>i, <1>2 DEF FrameInv
<1>6. FrameDone => Cur = in_frame + 1
  <2>1. ASSUME FrameDone PROVE Got = blocks_in_image
    BY <1>i, <1>2, <1>4, <2>1 DEF FrameInv, Got, FrameDone
  <2> QED
    BY <1>i, <1>2, <2>1 DEF FrameInv
<1>7. Cur' = Cur /\ video' = video
  BY <1>1 DEF Cur, FrameOf, cameraVars, moverVars
<1>8. Start = first_block_id /\ (~ FrameDone => Start' = blocks_read)
  BY <1>1, <1>2 DEF Start
<1>9. blocks_in_chunk \in 1 .. MAX_BLOCKS_PER_CHUNK
  BY <1>3, <1>4, Bounds
<1>10. FrameDone <=> blocks_read = Len(video[in_frame + 1])
  BY <1>5 DEF FrameDone
<1> QED
  BY <1>1, <1>2, <1>3, <1>4, <1>5, <1>6, <1>7, <1>8, <1>9, <1>10

(* The packet shipped is one block range of the frame begun, its marker    *)
(* set when the range ends the frame.                                      *)
LEMMA PacketFacts ==
  ASSUME ShortVideos, FollowInv, Ship, NEW p, p = Packet
  PROVE  /\ p.nth = packets_sent' /\ p.seq = seq_num' /\ p.ts = ts /\ p.m = M'
         /\ p.frame = in_frame /\ p.fb = first_block_id /\ p.n = blocks_in_chunk
         /\ PacketOK(p)'
<1>i. ThreadInv /\ ThreadInv'
  BY ThreadNext DEF FollowInv, Next, Sender
<1>1. /\ first_block_id \in Nat /\ blocks_in_chunk \in 1 .. MAX_BLOCKS_PER_CHUNK
      /\ first_block_id + blocks_in_chunk = blocks_read
      /\ blocks_in_chunk <= 1 \/ used <= MaxChunk
      /\ in_frame \in Nat /\ in_frame < Len(video)
      /\ FrameDone <=> blocks_read = Len(video[in_frame + 1])
      /\ M' = (IF FrameDone THEN 1 ELSE 0)
      /\ seq_num' = NextSeq /\ packets_sent' = packets_sent + 1
      /\ UNCHANGED <<video, ts, in_frame>>
  BY ShipFacts
<1>2. blocks_in_chunk % 64 = blocks_in_chunk
  <2>1. blocks_in_chunk \in 0 .. MAX_BLOCKS_PER_CHUNK
    BY <1>i DEF ThreadInv
  <2> QED
    BY <2>1, Bounds
<1>3. p = [nth |-> packets_sent', seq |-> seq_num', ts |-> ts, m |-> M',
           frame |-> in_frame, fb |-> first_block_id, n |-> blocks_in_chunk,
           size |-> used]
  BY <1>1, <1>2 DEF Packet
<1>4. /\ packets_sent' \in Nat /\ seq_num' \in Uint16 /\ ts \in Nat /\ M' \in {0, 1}
      /\ in_frame \in Nat /\ first_block_id \in Nat /\ blocks_in_chunk \in Nat
      /\ used \in Nat /\ packets_sent \in Nat
  BY <1>i, Bounds DEF ThreadInv
<1>5. p \in Packets
  BY <1>3, <1>4 DEF Packets
<1>6. /\ p.nth = packets_sent' /\ p.seq = seq_num'
      /\ p.ts = ts /\ p.m = M' /\ p.frame = in_frame
      /\ p.fb = first_block_id /\ p.n = blocks_in_chunk
      /\ p.size = used
  BY <1>3
<1>7. packets_sent' \in 1 .. packets_sent'
  BY <1>1, <1>4
<1>8. M' = 1 <=> first_block_id + blocks_in_chunk = Len(video[in_frame + 1])
  BY <1>1
<1>9. blocks_in_chunk = 1 \/ used <= MaxChunk
  BY <1>1, Bounds
<1>10. PacketOK(p)'
  <2>1. p.nth \in 1 .. packets_sent' /\ p.frame < Len(video') /\ p.n \in 1 .. MAX_BLOCKS_PER_CHUNK
    BY <1>1, <1>6, <1>7
  <2>2. p.m = 1 <=> p.fb + p.n = Len(video'[p.frame + 1])
    BY <1>1, <1>6, <1>8
  <2>3. p.size <= MaxChunk \/ p.n = 1
    BY <1>6, <1>9
  <2> QED
    BY <1>5, <2>1, <2>2, <2>3 DEF PacketOK, NB
<1> QED
  BY <1>6, <1>10

(* A step that sends nothing: only what follows the last packet matters.   *)
LEMMA WireStays ==
  ASSUME ShortVideos, FollowInv, UNCHANGED <<video, wire, packets_sent, seq_num>>,
         wire # <<>> =>
           \A p \in Packets : LastOK(p) /\ PacketOK(p) => LastOK(p)'
  PROVE  WireInv'
<1>i. WireInv
  BY DEF FollowInv
<1>1. \A p : PacketOK(p) => PacketOK(p)'
  BY DEF PacketOK, NB
<1>2. \A k \in 1 .. Len(wire) : PacketOK(wire[k])'
  <2> SUFFICES ASSUME NEW k \in 1 .. Len(wire) PROVE PacketOK(wire[k])'
    OBVIOUS
  <2> DEFINE p == wire[k]
  <2>1. PacketOK(p) /\ wire' = wire
    BY <1>i DEF WireInv
  <2> QED
    BY <2>1 DEF PacketOK, NB
<1>3. wire # <<>> => LastOK(wire[Len(wire)])'
  <2> SUFFICES ASSUME wire # <<>> PROVE LastOK(wire[Len(wire)])'
    OBVIOUS
  <2>1. Len(wire) \in 1 .. Len(wire) /\ wire \in Seq(Packets)
    BY <1>i DEF WireInv
  <2>2. PICK p \in Packets : p = wire[Len(wire)]
    BY <2>1
  <2>3. LastOK(p) /\ PacketOK(p)
    BY <1>i, <2>1, <2>2 DEF WireInv
  <2>4. LastOK(p)'
    BY <2>2, <2>3
  <2>5. wire'[Len(wire')] = p
    BY <2>2
  <2> QED
    BY <2>4, <2>5 DEF LastOK
<1> QED
  BY <1>i, <1>2, <1>3 DEF WireInv

(* A packet shipped follows the one before it, if that one left.           *)
LEMMA ShippedFollows ==
  ASSUME ShortVideos, FollowInv, Ship, NEW p, p = Packet,
         NEW q \in Packets, LastOK(q), PacketOK(q)
  PROVE  /\ p.nth = q.nth + 1 => Follows(q, p)
         /\ p.seq = (q.seq + p.nth - q.nth) % SEQ_MOD
<1>1. /\ p.nth = packets_sent' /\ p.seq = seq_num' /\ p.ts = ts
      /\ p.frame = in_frame /\ p.fb = first_block_id
  BY PacketFacts
<1>2. /\ packets_sent' = packets_sent + 1 /\ seq_num' = NextSeq /\ ~ first
      /\ Start = first_block_id
  BY ShipFacts
<1>3. /\ packets_sent \in Nat /\ q.seq \in Int /\ q.nth \in Nat
  BY Widths DEF FollowInv, ThreadInv, Packets
<1>4. /\ seq_num = (q.seq + packets_sent - q.nth) % SEQ_MOD
      /\ q.nth = packets_sent =>
           IF q.m = 1 THEN q.frame < in_frame /\ Start = 0
           ELSE q.frame = in_frame /\ q.ts = ts /\ Start = q.fb + q.n
  BY <1>2 DEF LastOK
<1>5. p.seq = (q.seq + p.nth - q.nth) % SEQ_MOD
  <2> DEFINE a == q.seq + packets_sent - q.nth
  <2>1. a \in Int /\ q.seq + p.nth - q.nth = a + 1
    BY <1>1, <1>2, <1>3
  <2>2. p.seq = ((a % SEQ_MOD) + 1) % SEQ_MOD
    BY <1>1, <1>2, <1>4 DEF NextSeq
  <2> HIDE DEF a
  <2>3. ((a % SEQ_MOD) + 1) % SEQ_MOD = (a + 1) % SEQ_MOD
    BY <2>1, CountOn
  <2> QED
    BY <2>1, <2>2, <2>3
<1>6. ASSUME p.nth = q.nth + 1 PROVE Follows(q, p)
  <2>1. q.nth = packets_sent
    BY <1>1, <1>2, <1>3, <1>6
  <2>2. q.frame \in Nat /\ in_frame \in Nat
    BY DEF Packets, FollowInv, ThreadInv
  <2> QED
    BY <1>1, <1>2, <1>4, <2>1, <2>2 DEF Follows
<1> QED
  BY <1>5, <1>6

(* What follows the packet just shipped, or one shipped before it.         *)
LEMMA ShippedLast ==
  ASSUME ShortVideos, FollowInv, Ship
  PROVE  /\ \A p : p = Packet => LastOK(p)'
         /\ \A q \in Packets : LastOK(q) /\ PacketOK(q) => LastOK(q)'
<1>2. /\ packets_sent' = packets_sent + 1 /\ seq_num' = NextSeq /\ ~ first
      /\ first' = FrameDone /\ M' = (IF FrameDone THEN 1 ELSE 0)
      /\ first_block_id + blocks_in_chunk = blocks_read
      /\ FrameDone => Cur = in_frame + 1
      /\ Cur' = Cur /\ (~ FrameDone => Start' = blocks_read)
      /\ in_frame \in Nat /\ UNCHANGED <<ts, in_frame>>
  BY ShipFacts
<1>3. packets_sent \in Nat /\ seq_num \in Int
  BY Widths DEF FollowInv, ThreadInv
<1>n. seq_num' \in Uint16 /\ seq_num' \in Int
  <2>1. seq_num + 1 \in Int /\ seq_num' = (seq_num + 1) % SEQ_MOD
    BY <1>2, <1>3 DEF NextSeq
  <2>2. seq_num' \in Uint16
    BY <2>1, SeqKept
  <2> QED
    BY <2>2, Widths
<1>5. ASSUME NEW p, p = Packet PROVE LastOK(p)'
  <2>1. /\ p.nth = packets_sent' /\ p.seq = seq_num' /\ p.ts = ts /\ p.m = M'
        /\ p.frame = in_frame /\ p.fb = first_block_id /\ p.n = blocks_in_chunk
    BY <1>5, PacketFacts
  <2>2. seq_num' = (p.seq + packets_sent' - p.nth) % SEQ_MOD
    <3>1. p.seq + packets_sent' - p.nth = seq_num'
      BY <1>2, <1>3, <1>n, <2>1
    <3>2. seq_num' < FRAME_MOD /\ seq_num' \in Nat /\ SEQ_MOD = FRAME_MOD
      BY <1>n, Widths
    <3>3. seq_num' % SEQ_MOD = seq_num'
      BY <3>2, SumKept
    <3> QED
      BY <3>1, <3>3
  <2>3. CASE FrameDone
    <3>1. p.m = 1 /\ first' /\ p.frame < Cur'
      BY <1>2, <2>1, <2>3
    <3> QED
      BY <2>2, <3>1 DEF LastOK
  <2>4. CASE ~ FrameDone
    <3>1. /\ p.m # 1 /\ ~ first' /\ p.frame = in_frame' /\ p.ts = ts'
          /\ Start' = p.fb + p.n
      BY <1>2, <2>1, <2>4
    <3> QED
      BY <2>2, <3>1 DEF LastOK
  <2> QED
    BY <2>3, <2>4
<1>6. ASSUME NEW q \in Packets, LastOK(q), PacketOK(q) PROVE LastOK(q)'
  <2>1. q.seq \in Int /\ q.nth \in Nat /\ q.nth \in 1 .. packets_sent
    BY <1>6, Widths DEF Packets, PacketOK
  <2> DEFINE a == q.seq + packets_sent - q.nth
  <2>2. a \in Int /\ q.seq + packets_sent' - q.nth = a + 1
    BY <1>2, <1>3, <2>1
  <2>3. seq_num' = ((a % SEQ_MOD) + 1) % SEQ_MOD
    BY <1>2, <1>6 DEF NextSeq, LastOK
  <2> HIDE DEF a
  <2>4. seq_num' = (q.seq + packets_sent' - q.nth) % SEQ_MOD
    BY <2>2, <2>3, CountOn
  <2>5. q.nth # packets_sent'
    BY <1>2, <1>3, <2>1
  <2> QED
    BY <2>4, <2>5 DEF LastOK
<1> QED
  BY <1>5, <1>6

(* What has reached the network, as the thread goes on.                    *)
LEMMA WireNext == ASSUME ShortVideos, FollowInv, [Next]_vars PROVE WireInv'
<1>i. WireInv /\ ThreadInv /\ PointInv /\ FrameInv /\ CameraInv
  BY DEF FollowInv
<1>s. ASSUME UNCHANGED <<video, rtpVars, wire, first, get_id, blocks_read, first_block_id,
                         in_frame, first_frame, current_frame>>
      PROVE  WireInv'
  <2>1. Cur' = Cur /\ Start' = Start
    BY <1>s DEF Cur, FrameOf, Start
  <2>2. ASSUME NEW p, LastOK(p) PROVE LastOK(p)'
    BY <1>s, <2>1, <2>2 DEF LastOK, rtpVars
  <2> QED
    BY <1>s, <2>2, WireStays DEF rtpVars
<1>1. CASE InstallHandler \/ Loop \/ ChunkFull \/ Interrupted \/ SigInt \/ Camera
  BY <1>1, <1>s DEF InstallHandler, Loop, ChunkFull, Interrupted, SigInt, Camera,
     HwBlock, flagVars, chunkVars, histVars, cameraVars, moverVars
<1>2. CASE StartUp
  <2>1. wire = <<>> /\ UNCHANGED <<video, wire, packets_sent, seq_num>>
    BY <1>2, <1>i DEF StartUp, StartStreaming, PointInv, Streams, rtpVars, histVars,
       cameraVars
  <2> QED
    BY <2>1, WireStays
<1>3. CASE DropFrames
  <2>0. Cur <= hw.f + 1 /\ first
    BY <1>3, <1>i DEF DropFrames, FrameInv, PointInv, Streams
  <2>1. Cur' = hw.f /\ Cur < hw.f /\ UNCHANGED cameraVars
    BY <1>3, <1>i, <2>0, ResyncFacts DEF DropFrames
  <2>2. UNCHANGED <<flagVars, chunkVars, rtpVars, histVars, in_frame>>
    BY <1>3 DEF DropFrames
  <2>3. Cur \in Nat /\ hw.f \in Nat
    BY <1>i, CurCounter, VideoShape, Widths
  <2>4. ASSUME NEW p \in Packets, LastOK(p) PROVE LastOK(p)'
    <3>1. p.frame \in Nat
      BY DEF Packets
    <3>2. p.frame < Cur => p.frame < Cur'
      BY <2>1, <2>3, <3>1
    <3>3. first' = first /\ UNCHANGED <<seq_num, packets_sent>>
      BY <2>2 DEF flagVars, rtpVars
    <3> QED
      BY <2>0, <2>4, <3>2, <3>3 DEF LastOK
  <2> QED
    BY <2>1, <2>2, <2>4, WireStays DEF cameraVars, rtpVars, histVars
<1>4. CASE NewFrame
  <2>0. Cur <= hw.f + 1 /\ first /\ blocks_read = 0 /\ get_id
    BY <1>4, <1>i DEF NewFrame, FrameInv, PointInv, Streams
  <2>1. UNCHANGED cameraVars
    BY <1>4, <1>i, <2>0, HeaderFacts DEF NewFrame
  <2>2. /\ in_frame' = Cur /\ first' = FALSE
        /\ UNCHANGED <<get_id, chunkVars, seq_num, packets_sent, histVars>>
    BY <1>4 DEF NewFrame, Cur
  <2>3. Start' = 0
    BY <2>0, <2>2 DEF Start, chunkVars
  <2>4. ASSUME NEW p \in Packets, LastOK(p) PROVE LastOK(p)'
    BY <2>0, <2>2, <2>3, <2>4 DEF LastOK
  <2> QED
    BY <2>1, <2>2, <2>4, WireStays DEF cameraVars, histVars
<1>5. CASE CopyBlock \/ QueueBlock
  <2>1. Fetch
    BY <1>5 DEF CopyBlock, QueueBlock
  <2>2. /\ ~ first /\ UNCHANGED cameraVars /\ get_id' = FALSE
        /\ first_block_id' = (IF get_id THEN blocks_read ELSE first_block_id)
        /\ UNCHANGED <<first, rtpVars, wire, in_frame>>
    BY <2>1, FetchFacts DEF Fetch
  <2>3. Start' = Start
    BY <2>2 DEF Start
  <2>4. ASSUME NEW p \in Packets, LastOK(p) PROVE LastOK(p)'
    BY <2>2, <2>3, <2>4 DEF LastOK, rtpVars
  <2> QED
    BY <2>2, <2>4, WireStays DEF cameraVars, rtpVars
<1>6. CASE Ship
  <2>1. \A p : p = Packet => LastOK(p)'
    BY <1>6, ShippedLast
  <2>2. \A q \in Packets : LastOK(q) /\ PacketOK(q) => LastOK(q)'
    BY <1>6, ShippedLast
  <2>3. packets_sent' = packets_sent + 1 /\ video' = video /\ packets_sent \in Nat
    BY <1>6, <1>i, ShipFacts DEF ThreadInv
  <2>4. ASSUME NEW q, PacketOK(q) PROVE PacketOK(q)'
    <3>1. q.nth \in 1 .. packets_sent'
      BY <2>3, <2>4 DEF PacketOK
    <3> QED
      BY <2>3, <2>4, <3>1 DEF PacketOK, NB
  <2>5. /\ wire \in Seq(Packets) /\ Len(wire) \in Nat
        /\ \A k \in 1 .. Len(wire) : wire[k] \in Packets /\ PacketOK(wire[k])
        /\ \A k \in 1 .. Len(wire) - 1 :
             /\ wire[k + 1].nth = wire[k].nth + 1 => Follows(wire[k], wire[k + 1])
             /\ wire[k + 1].seq
                  = (wire[k].seq + wire[k + 1].nth - wire[k].nth) % SEQ_MOD
        /\ wire # <<>> => LastOK(wire[Len(wire)])
    BY <1>i DEF WireInv
  <2>6. CASE wire' = wire
    <3>1. \A k \in 1 .. Len(wire) : PacketOK(wire[k])'
      <4> SUFFICES ASSUME NEW k \in 1 .. Len(wire) PROVE PacketOK(wire[k])'
        OBVIOUS
      <4>1. PICK q : q = wire[k]
        OBVIOUS
      <4>2. PacketOK(q)'
        BY <2>4, <2>5, <4>1
      <4> QED
        BY <2>6, <4>1, <4>2 DEF PacketOK, NB
    <3>2. wire # <<>> => LastOK(wire[Len(wire)])'
      <4> SUFFICES ASSUME wire # <<>> PROVE LastOK(wire[Len(wire)])'
        OBVIOUS
      <4>0. Len(wire) \in 1 .. Len(wire)
        BY <2>5
      <4>1. PICK q \in Packets : q = wire[Len(wire)]
        BY <2>5, <4>0
      <4>2. LastOK(q)'
        BY <2>2, <2>5, <4>0, <4>1
      <4>3. wire'[Len(wire')] = q
        BY <2>6, <4>1
      <4> QED
        BY <4>2, <4>3 DEF LastOK
    <3> QED
      BY <2>5, <2>6, <3>1, <3>2 DEF WireInv
  <2>7. CASE wire' = Append(wire, Packet)
    <3>1. PICK p : p = Packet
      OBVIOUS
    <3>2. LastOK(p)' /\ PacketOK(p)'
      BY <1>6, <2>1, <3>1, PacketFacts
    <3>3. p \in Packets
      BY <3>2 DEF PacketOK
    <3>4. /\ wire' \in Seq(Packets) /\ Len(wire') = Len(wire) + 1
          /\ wire'[Len(wire) + 1] = p
          /\ \A k \in 1 .. Len(wire) : wire'[k] = wire[k]
      BY <2>5, <2>7, <3>1, <3>3
    <3>5. ASSUME NEW k \in 1 .. Len(wire') PROVE PacketOK(wire[k])'
      <4>1. CASE k = Len(wire) + 1
        BY <3>2, <3>4, <4>1 DEF PacketOK, NB
      <4>2. CASE k \in 1 .. Len(wire)
        <5>1. PICK q : q = wire[k]
          OBVIOUS
        <5>2. PacketOK(q)' /\ wire'[k] = q
          BY <2>4, <2>5, <3>4, <4>2, <5>1
        <5> QED
          BY <5>2 DEF PacketOK, NB
      <4> QED
        BY <2>5, <3>4, <4>1, <4>2
    <3>6. LastOK(wire[Len(wire)])'
      BY <3>2, <3>4 DEF LastOK
    <3>7. ASSUME NEW k \in 1 .. Len(wire') - 1
          PROVE  /\ wire'[k + 1].nth = wire'[k].nth + 1
                      => Follows(wire'[k], wire'[k + 1])
                 /\ wire'[k + 1].seq
                      = (wire'[k].seq + wire'[k + 1].nth - wire'[k].nth) % SEQ_MOD
      <4>1. CASE k = Len(wire)
        <5>1. PICK q \in Packets : q = wire[k]
          BY <2>5, <3>4, <3>7, <4>1
        <5>2. LastOK(q) /\ PacketOK(q)
          BY <2>5, <3>4, <4>1, <5>1
        <5>3. /\ p.nth = q.nth + 1 => Follows(q, p)
              /\ p.seq = (q.seq + p.nth - q.nth) % SEQ_MOD
          BY <1>6, <3>1, <5>2, ShippedFollows
        <5>4. wire'[k] = q /\ wire'[k + 1] = p
          BY <2>5, <3>4, <4>1, <5>1
        <5> QED
          BY <5>3, <5>4
      <4>2. CASE k \in 1 .. Len(wire) - 1
        <5>1. wire'[k] = wire[k] /\ wire'[k + 1] = wire[k + 1]
          BY <2>5, <3>4, <4>2
        <5> QED
          BY <2>5, <4>2, <5>1
      <4> QED
        BY <2>5, <3>4, <4>1, <4>2
    <3> QED
      BY <3>4, <3>5, <3>6, <3>7 DEF WireInv
  <2> QED
    BY <1>6, <2>6, <2>7 DEF Ship
<1>7. CASE UNCHANGED vars
  BY <1>7, <1>s DEF vars, flagVars, chunkVars, histVars, cameraVars, moverVars
<1> QED
  BY <1>1, <1>2, <1>3, <1>4, <1>5, <1>6, <1>7 DEF Next, Sender

(* Before the thread starts there is nothing to know of the frame.         *)
LEMMA FollowInit == ASSUME ShortVideos PROVE Init => FollowInv
<1> SUFFICES ASSUME Init PROVE FollowInv
  OBVIOUS
<1>1. CameraInv
  <2>1. /\ video \in Videos /\ first_frame \in FirstFrames /\ hw = [f |-> 0, b |-> 0]
        /\ current_frame = 1 /\ current_block = 0
        /\ number_blocks \in StaleBlocks /\ number_of_available_blocks = 0
    BY DEF Init, MoverInit
  <2>2. video \in Seq(Seq(Nat)) /\ \A f \in DOMAIN video : Len(video[f]) > 0
    BY <2>1, MoverAssumption
  <2>3. Len(video) \in Nat /\ number_blocks \in Nat /\ 1 \in Uint16
    BY <2>1, <2>2, MoverAssumption, Widths
  <2>4. 0 < Len(video) => 0 < Len(video[1])
    BY <2>2
  <2> QED
    BY <2>1, <2>3, <2>4 DEF CameraInv
<1>2. ThreadInv
  <2>1. seq_num \in Uint16 /\ used \in Nat /\ used = HEADER_BYTES
    BY Bounds DEF Init
  <2>2. 0 \in 0 .. TS_MOD - 1 /\ 0 \in 0 .. MAX_BLOCKS_PER_CHUNK /\ 0 \in 0 .. MaxSignals
    BY Bounds
  <2>3. taken \in [frame : Nat, block : Nat] /\ blocks_read \in 0 .. blocks_in_image
    BY DEF Init
  <2>4. /\ pc \in Points /\ {stop, first, setup, block_queued, get_id} \subseteq BOOLEAN
        /\ M \in {0, 1}
    BY DEF Init, Points
  <2>5. /\ ts \in 0 .. TS_MOD - 1 /\ blocks_in_chunk \in 0 .. MAX_BLOCKS_PER_CHUNK
        /\ signals \in 0 .. MaxSignals
    BY <2>2 DEF Init
  <2>6. /\ received_block \in Nat /\ first_block_id \in Nat /\ blocks_in_image \in Nat
        /\ packets_sent \in Nat /\ in_frame \in Nat
    BY DEF Init
  <2> QED
    BY <2>1, <2>3, <2>4, <2>5, <2>6 DEF ThreadInv
<1>3. PointInv /\ ChunkInv /\ TakenInv
  BY DEF Init, PointInv, ChunkInv, TakenInv, Streams
<1>4. FrameInv
  BY DEF Init, FrameInv, Streams
<1>5. WireInv
  BY DEF Init, WireInv
<1> QED
  BY <1>1, <1>2, <1>3, <1>4, <1>5 DEF FollowInv

(* The invariant is inductive.                                             *)
LEMMA FollowNext == ASSUME ShortVideos PROVE FollowInv /\ [Next]_vars => FollowInv'
BY CameraNext, ThreadNext, PointNext, ChunkNext, FrameNext, TakenNext, WireNext
DEF FollowInv

(* What is copied is published, of the frame begun, and expected.          *)
LEMMA ReadsFollows == ASSUME ShortVideos PROVE FollowInv => ReadsItsFrame
<1> SUFFICES ASSUME FollowInv PROVE ReadsItsFrame
  OBVIOUS
<1>1. ReadsOnlyPublished /\ OneFrameAtATime
  BY DEF FollowInv, TakenInv, ReadsOnlyPublished, OneFrameAtATime
<1>2. ASSUME pc = "chunk", CanTake PROVE Block = blocks_read
  <2>1. ~ first /\ blocks_read < blocks_in_image
    BY <1>2 DEF FollowInv, PointInv, CanTake
  <2>2. blocks_read \in Nat /\ blocks_in_image \in Nat /\ block_queued \in BOOLEAN
    BY DEF FollowInv, ThreadInv
  <2>3. CASE block_queued
    BY <2>1, <2>3 DEF FollowInv, FrameInv, Block
  <2>4. CASE ~ block_queued
    BY <2>1, <2>2, <2>4 DEF FollowInv, FrameInv, Block, Got
  <2> QED
    BY <2>2, <2>3, <2>4
<1>3. NoUnexpectedBlock
  BY <1>2 DEF NoUnexpectedBlock, Expected
<1> QED
  BY <1>1, <1>3 DEF ReadsItsFrame

(* What has left is well formed.                                           *)
LEMMA WellFormedFollows ==
  ASSUME ShortVideos PROVE FollowInv /\ FlagOK => PacketsWellFormed
<1> SUFFICES ASSUME FollowInv, FlagOK PROVE PacketsWellFormed
  OBVIOUS
<1>i. CameraInv /\ ThreadInv /\ WireInv
  BY DEF FollowInv
<1>1. TypeOK
  <2>1. hw.f \in 0 .. Len(video) /\ hw.b \in Nat
    BY <1>i, VideoShape
  <2> QED
    BY <1>i, <2>1 DEF CameraInv, ThreadInv, TypeOK
<1>2. DOMAIN wire = 1 .. Len(wire)
  BY <1>i DEF WireInv
<1>3. PacketsTile
  <2>1. \A k \in DOMAIN wire : (wire[k].m = 1) <=> (wire[k].fb + wire[k].n = NB(wire[k]))
    BY <1>i, <1>2 DEF WireInv, PacketOK
  <2> QED
    BY <1>i, <2>1 DEF WireInv, PacketsTile
<1>4. ChunkBounds
  BY <1>i, <1>2 DEF WireInv, PacketOK, ChunkBounds
<1>5. StopWithinOnePacket
  BY DEF FlagOK, StopWithinOnePacket
<1> QED
  BY <1>1, <1>3, <1>4, <1>5 DEF PacketsWellFormed

(* In a session of at most 65534 frames the sender reads only blocks the   *)
(* hardware has published, of the frame it has begun, each the one it      *)
(* counts on: whatever the pace of the camera, whatever the 16-bit counter *)
(* starts from, over its wrap, late headers and dropped frames.            *)
THEOREM ReadsOnlyItsFrame == ASSUME ShortVideos PROVE Spec => []ReadsItsFrame
<1>1. Init => FollowInv
  BY FollowInit
<1>2. FollowInv /\ [Next]_vars => FollowInv'
  BY FollowNext
<1>3. FollowInv => ReadsItsFrame
  BY ReadsFollows
<1> QED
  BY <1>1, <1>2, <1>3, PTL DEF Spec

(* In such a session the packets that leave tile the frames in order, the  *)
(* marker on the last of each, within the bounds of a chunk; the sequence  *)
(* numbers count the ones send() refused.                                  *)
THEOREM MemoryPacketsWellFormed == ASSUME ShortVideos PROVE Spec => []PacketsWellFormed
<1>1. Init => FollowInv /\ FlagOK
  BY FollowInit, FlagInit
<1>2. FollowInv /\ FlagOK /\ [Next]_vars => FollowInv' /\ FlagOK'
  BY FollowNext, FlagNext
<1>3. FollowInv /\ FlagOK => PacketsWellFormed
  BY WellFormedFollows
<1> QED
  BY <1>1, <1>2, <1>3, PTL DEF Spec
=============================================================================
