----------------------------- MODULE PipeStream -----------------------------
(***************************************************************************)
(* PacketStream -> UDP -> LHE_receiver3 -> named pipe -> play_pstream: the *)
(* stream of the transmitter, delivered by the network to the pipe         *)
(* receiver and shown by the player.  Both programs have opened the pipe.  *)
(***************************************************************************)
EXTENDS PipeReceiver, PipePlayer, Network

CONSTANT MaxSignals      \* bound: SIGINTs, to either program

VARIABLE signals

vars == <<receiverVars, fifoVars, playerVars, networkVars, signals>>

Init == ReceiverInit /\ FifoInit /\ PlayerInit /\ NetworkInit /\ signals = 0

Emission  == /\ Transmit
             /\ UNCHANGED <<receiverVars, fifoVars, playerVars, signals>>
Loss      == /\ Lose
             /\ UNCHANGED <<receiverVars, fifoVars, playerVars, signals>>
Delivery  == /\ \E k \in inflight : Arrive(k) /\ Deliver(Datagram(k))
             /\ UNCHANGED <<playerVars, signals>>
Receive   == Work /\ UNCHANGED <<playerVars, networkVars, signals>>
Play      == PlayerWork /\ UNCHANGED <<receiverVars, networkVars, signals>>
Decode    == Pool /\ UNCHANGED <<receiverVars, networkVars, signals>>
Interrupt ==
  /\ signals < MaxSignals
  /\ signals' = signals + 1
  /\ \/ SigInt /\ UNCHANGED playerVars
     \/ PlayerSigInt /\ UNCHANGED receiverVars
  /\ UNCHANGED networkVars

Next == \/ Emission \/ Loss \/ Delivery \/ Receive \/ Play \/ Decode
        \/ Interrupt
Spec == Init /\ [][Next]_vars

(* Receiver, player and decoding threads take every step they can; the     *)
(* transmitter sends on; a packet in flight arrives or is lost.            *)
FairSpec == /\ Spec
            /\ WF_vars(Receive) /\ WF_vars(Play) /\ WF_vars(Decode)
            /\ WF_vars(Emission) /\ WF_vars(Delivery)

-----------------------------------------------------------------------------
(* Properties                                                              *)

(* Every variable of the two programs has its type.                        *)
TypeOK == PipeTypeOK /\ PlayerTypeOK

(* The player never takes bytes for what they are not, whatever packets    *)
(* are lost: it always knows a header from a block from an end of frame.   *)
NeverMisread == ppc # "misread"

(* The frames shown are frames of the video, each once and in order, and   *)
(* none shows a block of a frame later than itself.                        *)
ShownInOrder ==
  /\ \A s \in 1 .. Len(shown) - 1 : EarlierFrame(shown[s].img, shown[s + 1].img)
  /\ \A s \in DOMAIN shown : \A k \in DOMAIN shown[s].rows :
       LET row == shown[s].rows[k]
       IN  row = Nothing \/ (row.id = k /\ ~EarlierFrame(shown[s].img, row.img))

(* Together: what the player shows is what the receiver wrote, read as     *)
(* what it was written as, decoded, and in the order of the video.         *)
ShownFaithfully == TypeOK /\ NeverMisread /\ ShownInOrder /\ ShownIsDecoded

(* A frame all packets of which were received is shown whole, also when    *)
(* the marker of the frame before it was lost (as long as the sequence     *)
(* number does not roll over).                                             *)
Handled == {arrivals[a] : a \in 1 .. arrived}
Intact(v) == Sent(v) /\ PacketsOf(v) \subseteq Handled
IntactShownWhole ==
  ~RolledOver => \A s \in DOMAIN shown :
    Intact(shown[s].img) => shown[s].rows = WholeFrame(shown[s].img)

(* The player always catches up: again and again, every frame of which a   *)
(* packet was received and which is closed, by its marker or by a packet   *)
(* of a later frame, is shown - unless a signal ends one of the programs,  *)
(* joining a thread that does not exist crashes the player, or the         *)
(* sequence number rolls over.                                             *)
FrameOf(k) == <<stream[k].file, stream[k].frame>>
Seen(v)    == PacketsOf(v) \cap Handled # {}
Closed(v)  == \E k \in Handled : \/ FrameOf(k) = v /\ stream[k].m = 1
                                 \/ EarlierFrame(v, FrameOf(k))
IsShown(v) == \E s \in DOMAIN shown : shown[s].img = v
Undisturbed == ~RolledOver /\ signals = 0 /\ ppc # "crashed"
SeenFramesAreShown ==
  []<>(Undisturbed => \A v \in Frames : Seen(v) /\ Closed(v) => IsShown(v))

(* When the receiver has ended, the player ends.                           *)
PlayerEnds == (pc \in Left) ~> (ppc \in PlayerLeft)
=============================================================================
