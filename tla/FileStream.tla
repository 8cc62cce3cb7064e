----------------------------- MODULE FileStream -----------------------------
(***************************************************************************)
(* PacketStream -> UDP -> LHE_receiver2: the stream of the transmitter,    *)
(* delivered by the network to the file receiver.                          *)
(***************************************************************************)
EXTENDS FileReceiver, Network, FiniteSetsExt

CONSTANT MaxSignals      \* bound: SIGINTs

VARIABLE signals

vars == <<receiverVars, networkVars, signals>>

Init == ReceiverInit /\ NetworkInit /\ signals = 0

Delivery == \E k \in inflight : Arrive(k) /\ Deliver(Datagram(k))
Receive == Work /\ UNCHANGED <<networkVars, signals>>
Interrupt == /\ signals < MaxSignals /\ SigInt
             /\ signals' = signals + 1
             /\ UNCHANGED networkVars

Next == \/ Transmit /\ UNCHANGED <<receiverVars, signals>>
        \/ Lose /\ UNCHANGED <<receiverVars, signals>>
        \/ Delivery /\ UNCHANGED signals
        \/ Receive
        \/ Interrupt
Spec == Init /\ [][Next]_vars

(* The receiver is a thread that takes every step it can; the transmitter  *)
(* sends on; a packet in flight arrives unless the network loses it.       *)
FairSpec == /\ Spec
            /\ WF_vars(Receive)
            /\ WF_vars(Transmit /\ UNCHANGED <<receiverVars, signals>>)
            /\ WF_vars(Delivery /\ UNCHANGED signals)

-----------------------------------------------------------------------------
(* Vocabulary of the properties                                            *)

(* The frame a file is named after: the one whose packet opened it.        *)
FrameOf(file) == CHOOSE v \in Frames : TsOf(v) = file.name

OwnRows(file) == {k \in DOMAIN file.rows : /\ file.rows[k] # Garbage
                                           /\ file.rows[k].img = FrameOf(file)}
IsWhole(file, v) == file.rows = WholeFrame(v)

(* Indices of the packets handled so far.                                  *)
Handled == {arrivals[a] : a \in 1 .. arrived}
Intact(v) == Sent(v) /\ PacketsOf(v) \subseteq Handled

-----------------------------------------------------------------------------
(* Properties of a network that loses packets but keeps their order        *)

(* The losses counted are the packets that are really missing, also when   *)
(* the gap lies across the rollover of the 16-bit sequence number.         *)
LossExact ==
  ~startup => packets_lost = (arrivals[arrived] - arrivals[1] + 1) - arrived

(* Nothing that comes in order is dropped as "too late", as long as the    *)
(* sequence number does not roll over.                                     *)
InOrderNothingDropped == ~RolledOver => packets_dropped = 0

(* Every file is named after the timestamp of a frame a packet of which    *)
(* arrived, and no frame is written twice or after a later one.            *)
OneFilePerFrame ==
  /\ \A f \in DOMAIN written :
       \E v \in Frames : TsOf(v) = written[f].name /\ PacketsOf(v) \cap Handled # {}
  /\ \A f \in 1 .. Len(written) - 1 : written[f].name < written[f + 1].name

(* A file shows nothing of a frame later than its own: what arrives early  *)
(* enough to close a frame is not yet in it.                               *)
NoBlockFromTheFuture ==
  \A f \in DOMAIN written : \A k \in DOMAIN written[f].rows :
    \/ written[f].rows[k] = Garbage
    \/ ~EarlierFrame(FrameOf(written[f]), written[f].rows[k].img)

(* When the marker of the previous frame was received too (or there is no  *)
(* previous frame), a frame that arrives intact is in its file, complete,  *)
(* again as long as nothing rolls over.                                    *)
PreviousClosed(v) ==
  LET start == CHOOSE k \in PacketsOf(v) : stream[k].fb = 0
      before == {j \in Handled : j < start}
  IN  before = {} \/ \E j \in before : /\ \A l \in before : l <= j
                                       /\ stream[j].m = 1
IntactAfterMarkerIsWhole ==
  ~RolledOver => \A v \in Frames : Intact(v) /\ PreviousClosed(v) =>
    \E f \in DOMAIN written : written[f].name = TsOf(v) /\ IsWhole(written[f], v)

(* Every frame of which a packet was handled gets its file, whatever else  *)
(* of it was lost: only the frame in progress has none yet.  SIGINT does   *)
(* not change that.                                                        *)
EveryFrameSeenHasFile ==
  ~RolledOver => \A v \in Frames :
    PacketsOf(v) \cap Handled # {} /\ (first \/ TsOf(v) # ts_current) =>
      \E f \in DOMAIN written : written[f].name = TsOf(v)

(* Together, files and frames correspond: nothing that comes in order is   *)
(* thrown away, and the files are exactly the frames that were seen.       *)
FilesAreFramesSeen == InOrderNothingDropped /\ OneFilePerFrame /\ EveryFrameSeenHasFile

(* Between frames, the blocks the statistics call lost are the rows of the *)
(* files that do not show their own frame, as long as no frame has fewer   *)
(* blocks than one before it (the frames of a video have all the same      *)
(* number): a frame dispatched on a packet of the next one has as many     *)
(* rows as the next one.  (A SIGINT may write a file before anything has   *)
(* arrived.)                                                               *)
FramesNeverShrink ==
  \A u, v \in Frames : EarlierFrame(u, v) => SizeOf(u) <= SizeOf(v)
IsMissing(f, k) == k \in DOMAIN written[f].rows \ OwnRows(written[f])
MissingRows == {r \in (DOMAIN written) \X Rows : IsMissing(r[1], r[2])}
BlocksLostAreMissingRows ==
  FramesNeverShrink /\ first /\ ~stop =>
    total_blocks - blocks_received = Cardinality(MissingRows)

-----------------------------------------------------------------------------
(* Properties of a network that also reorders                              *)

(* As long as nothing is duplicated and the number does not roll over, the *)
(* losses are never counted too low: of the packets after the first one to *)
(* arrive, those missing are at most the losses counted and the packets    *)
(* from before the first that turned up late.                              *)
Missing == LET from == arrivals[1]
               to   == Max(Handled)
           IN  {k \in from .. to : k \notin Handled}
Older == {k \in Handled : k < arrivals[1]}
LossNotUnderestimated ==
  ~startup /\ copies = 0 /\ ~RolledOver =>
    packets_lost + Cardinality(Older) >= Cardinality(Missing)

-----------------------------------------------------------------------------
(* Properties of stopping                                                  *)

(* SIGINT ends the receiver, except when it comes between the test of stop *)
(* and recvfrom: then the receiver waits for one more packet first.        *)
StopLeavesLoop == (stop /\ pc \in {"test", "got"}) ~> pc = "out"

(* A SIGINT that finds the receiver in the middle of a frame, waiting for  *)
(* a packet, or about to wait and noticed with the next packet, leaves     *)
(* that frame in a file under its own name, with the blocks of every       *)
(* packet of it handled so far: all but those of a packet that had to      *)
(* close the frame before it, which the code drops (see IntactIsWhole).    *)
(* One noticed by the test of the loop does not: the frame is then lost.   *)
FrameReceived(k) == <<stream[k].file, stream[k].frame>>
HasBlocks(k) ==
  LET before == {j \in Handled : j < k}
      last   == Max(before)
  IN  before = {} \/ stream[last].m = 1 \/ FrameReceived(last) = FrameReceived(k)
Saved(v) ==
  \E f \in DOMAIN written :
    /\ written[f].name = TsOf(v)
    /\ \A k \in PacketsOf(v) \cap Handled : HasBlocks(k) =>
         stream[k].fb .. stream[k].fb + stream[k].n - 1 \subseteq OwnRows(written[f])
StopSavesFrame ==
  (FramesNeverShrink /\ ~RolledOver /\ stop /\ pc = "got" /\ ~first)
    ~> (pc = "out" /\ Saved(FrameReceived(Max(Handled))))

-----------------------------------------------------------------------------
(* An in-order, lossless network: the receiver shows the video             *)

Link == INSTANCE VideoLink
          WITH Lengths <- {s[1] : s \in SizeSets}, lengths <- sizes[1],
               shown <- [f \in DOMAIN written |-> written[f].rows]
ImplementsVideoLink == Link!LinkSpec

-----------------------------------------------------------------------------
(* What a comment in the code says and the code does not do                *)

(* LHE_receiver.c:442: "copy blocks from reception buffer to write buffer".*)
(* So a frame all packets of which arrive, in order, is in its file.       *)
IntactIsWhole ==
  \A v \in Frames : Intact(v) =>
    \E f \in DOMAIN written : written[f].name = TsOf(v) /\ IsWhole(written[f], v)
=============================================================================
