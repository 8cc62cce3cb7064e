------------------------------- MODULE Network -------------------------------
(***************************************************************************)
(* PacketStream -> UDP.  The network delivers the packets of the stream to *)
(* a receiver's socket; it may lose some, let some overtake others and     *)
(* deliver some twice, within the bounds given as constants.  The packets  *)
(* are those the transmitter promises (PacketStream, implemented by        *)
(* LheSender).                                                             *)
(***************************************************************************)
EXTENDS RtpPackets, Sequences, FiniteSets

CONSTANTS SizeSets, FirstSeqs, MaxBlocks,
          MaxLosses,      (* bound: packets the network loses               *)
          MaxOvertaken,   (* bound: packets in flight one packet overtakes  *)
          MaxCopies       (* bound: extra copies the network delivers       *)

(* The videos' frames are no larger than the receivers' arrays and numbers *)
(* of blocks fit the header fields (IMAGE_BSIZE_MAX, LHE_packetheader_t).  *)
ASSUME NetworkAssumption ==
  /\ \A s \in SizeSets :
       /\ s \in Seq(Seq(1 .. IMAGE_BSIZE_MAX))
       /\ \A f \in DOMAIN s : \A g \in DOMAIN s[f] : <<f, g>> \in Images
  /\ IMAGE_BSIZE_MAX <= SEQ_MAX /\ FirstSeqs \subseteq 0 .. SEQ_MAX
  /\ MaxBlocks \in 1 .. 63 /\ Sessions # {}
  /\ MaxLosses \in Nat /\ MaxOvertaken \in Nat /\ MaxCopies \in Nat

VARIABLES sizes, stream,
          inflight,       (* indices of packets sent, not yet arrived       *)
          arrivals,       (* history: the indices delivered, in order       *)
          losses, copies

networkVars == <<sizes, stream, inflight, arrivals, losses, copies>>

Source == INSTANCE PacketStream WITH TsMod <- TS_MOD

Session == CHOOSE s \in Sessions : TRUE

(* The packet on the wire as the receiver's buffer sees it.                *)
Datagram(k) ==
  LET p == stream[k] IN
    [seq |-> p.seq, ts |-> p.ts, ssrc |-> Session, m |-> p.m,
     img |-> <<p.file, p.frame>>, im |-> sizes[p.file][p.frame],
     fb |-> p.fb, n |-> p.n]

NetworkInit == /\ Source!StreamInit
               /\ inflight = {} /\ arrivals = <<>>
               /\ losses = 0 /\ copies = 0

(* Sending ahead of what the network still reorders changes nothing.       *)
Transmit ==
  /\ Cardinality(inflight) <= MaxOvertaken
  /\ Source!Emit
  /\ inflight' = inflight \cup {Len(stream) + 1}
  /\ UNCHANGED <<arrivals, losses, copies>>

Lose ==
  /\ losses < MaxLosses
  /\ \E k \in inflight : inflight' = inflight \ {k}
  /\ losses' = losses + 1
  /\ UNCHANGED <<sizes, stream, arrivals, copies>>

Overtaken(k) == {j \in inflight : j < k}

Arrive(k) ==
  /\ Cardinality(Overtaken(k)) <= MaxOvertaken
  /\ arrivals' = Append(arrivals, k)
  /\ \/ inflight' = inflight \ {k} /\ UNCHANGED copies
     \/ copies < MaxCopies /\ copies' = copies + 1 /\ UNCHANGED inflight
  /\ UNCHANGED <<sizes, stream, losses>>

-----------------------------------------------------------------------------
(* Vocabulary of the properties                                            *)

Frames == UNION {{<<f, g>> : g \in DOMAIN sizes[f]} : f \in DOMAIN sizes}
SizeOf(v) == sizes[v[1]][v[2]]
TsOf(v) == Source!TsOf(v[1], v[2])
EarlierFrame(u, v) == u[1] < v[1] \/ (u[1] = v[1] /\ u[2] < v[2])

(* The rows of a frame all of which arrived.                               *)
WholeFrame(v) == [k \in 0 .. SizeOf(v) - 1 |-> [img |-> v, id |-> k]]

PacketsOf(v) == {k \in DOMAIN stream : <<stream[k].file, stream[k].frame>> = v}
Sent(v) == \E k \in PacketsOf(v) : stream[k].m = 1

(* The sequence number has gone round: the last packet's, not reduced to   *)
(* 16 bits, is beyond them.                                                *)
RolledOver == stream # <<>> /\ stream[1].seq + Len(stream) > SEQ_MOD
=============================================================================
