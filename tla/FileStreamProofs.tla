------------------------- MODULE FileStreamProofs -------------------------
(***************************************************************************)
(* What LHE_receiver2 guarantees for every network (the packets may be any *)
(* packets, in any order, lost or repeated, and SIGINT may come at any     *)
(* moment), and what the transmitter, the network and the receiver         *)
(* guarantee together.                                                     *)
(***************************************************************************)
EXTENDS FileStream, ReceptionProofs

(* Once a packet has come, and always in the middle of a frame, the        *)
(* reception buffer holds a packet.                                        *)
PacketHeld == received \/ ~first => pkt \in Packets
ReceiverInv == ReceiverTypeOK /\ PacketHeld

(* The step of the timestamp that is added to the name of a file is never  *)
(* negative, also when the timestamp goes back.                            *)
LEMMA TsStepNat ==
  ASSUME ReceiverTypeOK, NEW t \in 0 .. TS_MOD - 1
  PROVE  TsStep(t) \in Nat
<1>1. TS_MOD \in Nat \ {0} /\ ts_current \in 0 .. TS_MOD - 1
  BY PacketAssumption, ReceiverAssumption DEF ReceiverTypeOK
<1>2. CASE t >= ts_current
  BY <1>1, <1>2 DEF TsStep
<1>3. CASE ~(t >= ts_current)
  <2>1. TsStep(t) = ((TS_MAX - ts_current) + t) % TS_MOD
    BY <1>3 DEF TsStep
  <2>2. (TS_MAX - ts_current) + t \in Int
    BY <1>1 DEF TS_MAX
  <2> QED
    BY <1>1, <2>1, <2>2
<1> QED
  BY <1>2, <1>3

(* A frame written under a packet's header has rows of the write buffer.   *)
LEMMA FileType ==
  ASSUME NEW p \in Packets, NEW rows \in [Rows -> Content], NEW name \in Nat
  PROVE  File(name, p, rows) \in Files /\ File(name, p, rows).name = name
<1>1. p.im \in 1 .. IMAGE_BSIZE_MAX /\ p.img \in Images
  BY PacketFields
<1>2. IMAGE_BSIZE_MAX \in Nat
  BY PacketAssumption, ReceiverAssumption
<1>3. [k \in 0 .. p.im - 1 |-> rows[k]] \in [0 .. p.im - 1 -> Content]
  BY <1>1, <1>2 DEF Rows
<1>4. [k \in 0 .. p.im - 1 |-> rows[k]]
        \in UNION {[0 .. m - 1 -> Content] : m \in 1 .. IMAGE_BSIZE_MAX}
  BY <1>1, <1>3
<1> QED
  BY <1>1, <1>4 DEF File, Files

(* Copying a packet's blocks keeps the write buffer in shape.              *)
LEMMA CopyType ==
  ASSUME ReceiverTypeOK, NEW p \in Packets
  PROVE  CopyBlocks(p) \in [Rows -> Content]
<1>1. p.img \in Images /\ bf_w \in [Rows -> Content]
  BY PacketFields DEF ReceiverTypeOK
<1>2. \A k \in Rows : [img |-> p.img, id |-> k] \in Content /\ bf_w[k] \in Content
  BY <1>1 DEF Content
<1> QED
  BY <1>2 DEF CopyBlocks

(* The frame put out on the first packet of the next one, if any.          *)
LEMMA ClosedType ==
  ASSUME ReceiverTypeOK, NEW p \in Packets
  PROVE  /\ Closed(p) \in Seq(Files)
         /\ \A k \in DOMAIN Closed(p) : Closed(p)[k].name <= ts_aux
<1> DEFINE new == File(ts_aux, p, bf_w)
<1>1. /\ written \in Seq(Files) /\ ts_aux \in Nat
      /\ \A k \in DOMAIN written : written[k].name <= ts_aux
  BY DEF ReceiverTypeOK
<1>2. new \in Files /\ new.name = ts_aux
  BY FileType DEF ReceiverTypeOK
<1> HIDE DEF new
<1>3. Append(written, new) \in Seq(Files)
      /\ \A k \in DOMAIN Append(written, new) : Append(written, new)[k].name <= ts_aux
  BY <1>1, <1>2
<1>4. Closed(p) = Append(written, new) \/ Closed(p) = written
  BY DEF Closed, new
<1> QED
  BY <1>1, <1>3, <1>4

(* What an accepted packet leaves behind: the files, the name of the       *)
(* current frame, the counters.                                            *)
LEMMA AcceptEffect ==
  ASSUME ReceiverTypeOK, pkt \in Packets, Accept
  PROVE  /\ ts_aux' \in Nat /\ ts_aux' >= ts_aux
         /\ ts_current' \in 0 .. TS_MOD - 1
         /\ bf_w' \in [Rows -> Content]
         /\ written' \in Seq(Files)
         /\ \A k \in DOMAIN written' : written'[k].name <= ts_aux'
<1> DEFINE new == File(ts_aux', pkt, bf_w')
<1>1. pkt.ts \in 0 .. TS_MOD - 1 /\ TsStep(pkt.ts) \in Nat
  BY PacketFields, TsStepNat
<1>2. ts_aux \in Nat /\ ts_current \in 0 .. TS_MOD - 1
  BY DEF ReceiverTypeOK
<1>3. /\ ts_aux' = ts_aux \/ ts_aux' = ts_aux + TsStep(pkt.ts)
      /\ ts_current' = ts_current \/ ts_current' = pkt.ts
  BY DEF Accept
<1>4. ts_aux' \in Nat /\ ts_aux' >= ts_aux /\ ts_current' \in 0 .. TS_MOD - 1
  BY <1>1, <1>2, <1>3
<1>5. bf_w' \in [Rows -> Content]
  BY CopyType DEF Accept
<1>6. new \in Files /\ new.name = ts_aux'
  BY <1>4, <1>5, FileType
<1>7. /\ Closed(pkt) \in Seq(Files)
      /\ \A k \in DOMAIN Closed(pkt) : Closed(pkt)[k].name <= ts_aux'
  <2>1. \A k \in DOMAIN Closed(pkt) : Closed(pkt)[k] \in Files
    BY ClosedType
  <2>2. \A f \in Files : f.name \in Nat
    BY DEF Files
  <2> QED
    BY <1>2, <1>4, <2>1, <2>2, ClosedType
<1>8. written' = Append(Closed(pkt), new) \/ written' = Closed(pkt)
  BY DEF Accept
<1> HIDE DEF new
<1>9. /\ Append(Closed(pkt), new) \in Seq(Files)
      /\ \A k \in DOMAIN Append(Closed(pkt), new) :
           Append(Closed(pkt), new)[k].name <= ts_aux'
  BY <1>4, <1>6, <1>7
<1> QED
  BY <1>4, <1>5, <1>7, <1>8, <1>9

-----------------------------------------------------------------------------
(* The type invariant                                                      *)

(* The initial values (LHE_receiver.c:203-226) are of their types.         *)
LEMMA ReceiverInitInv == ReceiverInit => ReceiverInv
<1> SUFFICES ASSUME ReceiverInit PROVE ReceiverInv
  OBVIOUS
<1>1. AccountTypeOK
  BY AccountInitType DEF ReceiverInit
<1>2. bf_w \in [Rows -> Content] /\ written \in Seq(Files)
  BY DEF ReceiverInit, Content
<1>3. ts_current \in 0 .. TS_MOD - 1 /\ frames_received \in 0 .. SEQ_MOD - 1
      /\ blocks_lost \in 0 .. U64_MOD - 1
  BY PacketAssumption, ReceiverAssumption, SeqMax DEF ReceiverInit, SEQ_MOD
<1>4. PacketHeld
  BY DEF ReceiverInit, PacketHeld
<1>5. \A k \in DOMAIN written : written[k].name <= ts_aux
  BY DEF ReceiverInit
<1>6. /\ first \in BOOLEAN /\ ts_aux \in Nat /\ total_blocks \in Nat
      /\ packets_received \in Nat /\ blocks_received \in Nat
      /\ packets_dropped \in Nat /\ blocks_dropped \in Nat
      /\ pkt \in Packets \cup {NoPacket} /\ received \in BOOLEAN
      /\ stop \in BOOLEAN /\ pc \in {"test", "call", "recv", "got", "out"}
  BY DEF ReceiverInit
<1> QED
  BY <1>1, <1>2, <1>3, <1>4, <1>5, <1>6 DEF ReceiverInv, ReceiverTypeOK

(* What remainders are taken by.                                           *)
LEMMA Moduli == /\ U64_MOD \in Nat \ {0}
                /\ SEQ_MOD \in Nat \ {0}
                /\ 0 .. SEQ_MOD - 1 \subseteq Nat
  BY PacketAssumption, ReceiverAssumption, SeqMax DEF SEQ_MOD

(* Every step of the receiver, whatever the network delivers, keeps types. *)
LEMMA ReceiverStepInv ==
  ASSUME ReceiverInv, [ReceiverNext]_receiverVars
  PROVE  ReceiverInv'
<1> USE DEF ReceiverInv
<1>1. CASE UNCHANGED receiverVars
  BY <1>1 DEF receiverVars, accountVars, frameVars, statVars, recvVars,
              ReceiverTypeOK, AccountTypeOK, PacketHeld
<1>2. CASE TestStop
  <2>1. blocks_lost' \in 0 .. U64_MOD - 1 /\ total_blocks' \in Nat
    <3>1. total_blocks \in Nat /\ blocks_received \in Nat
      BY DEF ReceiverTypeOK
    <3>2. (total_blocks - blocks_received) % U64_MOD \in 0 .. U64_MOD - 1
      BY <3>1, Moduli
    <3>3. CASE LoopOver
      BY <1>2, <3>1, <3>2, <3>3 DEF TestStop
    <3>4. CASE ~LoopOver
      BY <1>2, <3>4 DEF TestStop, ReceiverTypeOK
    <3> QED
      BY <3>3, <3>4
  <2>2. pc' \in {"out", "call"}
    BY <1>2 DEF TestStop
  <2>3. /\ UNCHANGED <<startup, current_session, current_seqnum, next_seqnum>>
        /\ UNCHANGED <<packets_lost, base, arrived, first, ts_current, ts_aux>>
        /\ UNCHANGED <<bf_w, written, frames_received, packets_received>>
        /\ UNCHANGED <<blocks_received, packets_dropped, blocks_dropped>>
        /\ UNCHANGED <<pkt, received>>
        /\ stop' = stop
    BY <1>2 DEF TestStop, accountVars, frameVars, recvVars
  <2> QED
    BY <2>1, <2>2, <2>3 DEF ReceiverTypeOK, AccountTypeOK, PacketHeld
<1>3. CASE EnterRecv
  BY <1>3 DEF EnterRecv, accountVars, frameVars, statVars,
              ReceiverTypeOK, AccountTypeOK, PacketHeld
<1>4. ASSUME NEW p \in Packets, Deliver(p) PROVE ReceiverInv'
  BY <1>4 DEF Deliver, accountVars, frameVars, statVars,
              ReceiverTypeOK, AccountTypeOK, PacketHeld
<1>5. CASE SigInt
  <2>1. blocks_lost' \in 0 .. U64_MOD - 1 /\ total_blocks' \in Nat
    <3>1. total_blocks \in Nat /\ blocks_received \in Nat
      BY DEF ReceiverTypeOK
    <3>2. (total_blocks - blocks_received) % U64_MOD \in 0 .. U64_MOD - 1
      BY <3>1, Moduli
    <3> QED
      BY <1>5, <3>1, <3>2 DEF SigInt
  <2>2. /\ pc' \in {"test", "call", "recv", "got", "out"}
        /\ stop' = TRUE
    BY <1>5 DEF SigInt, ReceiverTypeOK
  <2>3. /\ UNCHANGED <<startup, current_session, current_seqnum, next_seqnum>>
        /\ UNCHANGED <<packets_lost, base, arrived, first, ts_current, ts_aux>>
        /\ UNCHANGED <<bf_w, written, frames_received, packets_received>>
        /\ UNCHANGED <<blocks_received, packets_dropped, blocks_dropped>>
        /\ UNCHANGED <<pkt, received>>
    BY <1>5 DEF SigInt, accountVars, frameVars, recvVars
  <2> QED
    BY <2>1, <2>2, <2>3 DEF ReceiverTypeOK, AccountTypeOK, PacketHeld
<1>6. CASE DispatchAndStop
  <2>1. pkt \in Packets
    BY <1>6 DEF DispatchAndStop, InFrame, PacketHeld
  <2>2. total_blocks' \in Nat
    <3>1. total_blocks \in Nat
      BY DEF ReceiverTypeOK
    <3>2. pkt.im \in Nat
      BY <2>1, PacketFields, PacketAssumption, ReceiverAssumption
    <3> QED
      BY <1>6, <3>1, <3>2 DEF DispatchAndStop
  <2>3. /\ blocks_lost' \in 0 .. U64_MOD - 1
        /\ frames_received' \in 0 .. SEQ_MOD - 1
    <3>1. blocks_received \in Nat /\ frames_received \in Nat
      BY Moduli DEF ReceiverTypeOK
    <3>2. (total_blocks' - blocks_received) % U64_MOD \in 0 .. U64_MOD - 1
      <4>1. \A t \in Nat : (t - blocks_received) % U64_MOD \in 0 .. U64_MOD - 1
        BY <3>1, Moduli
      <4> QED
        BY <2>2, <4>1
    <3>3. (frames_received + 1) % SEQ_MOD \in 0 .. SEQ_MOD - 1
      BY <3>1, Moduli
    <3> QED
      BY <1>6, <3>2, <3>3 DEF DispatchAndStop
  <2> DEFINE new == File(ts_aux, pkt, bf_w)
  <2>4. new \in Files /\ new.name = ts_aux
    BY <2>1, FileType DEF ReceiverTypeOK
  <2>5. written' = Append(written, new)
    BY <1>6 DEF DispatchAndStop
  <2> HIDE DEF new
  <2>6. /\ written' \in Seq(Files)
        /\ \A k \in DOMAIN written' : written'[k].name <= ts_aux'
    <3>1. written \in Seq(Files) /\ ts_aux' = ts_aux /\ ts_aux \in Nat
          /\ \A k \in DOMAIN written : written[k].name <= ts_aux
      BY <1>6, <2>1 DEF DispatchAndStop, ReceiverTypeOK, frameVars
    <3>2. /\ written' \in Seq(Files) /\ Len(written') = Len(written) + 1
          /\ Len(written) \in Nat
          /\ DOMAIN written = 1 .. Len(written) /\ DOMAIN written' = 1 .. Len(written')
          /\ written'[Len(written) + 1] = new
          /\ \A k \in DOMAIN written : written'[k] = written[k]
      BY <2>4, <2>5, <3>1
    <3> QED
      BY <2>4, <3>1, <3>2
  <2> QED
    BY <1>6, <2>2, <2>3, <2>6 DEF DispatchAndStop, accountVars, recvVars,
                                  ReceiverTypeOK, AccountTypeOK, PacketHeld
<1>7. CASE RecvFailed
  BY <1>7 DEF RecvFailed, accountVars, frameVars, statVars, recvVars,
              ReceiverTypeOK, AccountTypeOK, PacketHeld
<1>8. CASE DropLate
  <2>1. pkt \in Packets
    BY <1>8 DEF DropLate, PacketHeld
  <2>2. AccountTypeOK'
    BY <1>8, <2>1, PacketFields, AccountKeepsType DEF DropLate, ReceiverTypeOK
  <2>3. packets_dropped' \in Nat /\ blocks_dropped' \in Nat
    BY <1>8, <2>1, PacketFields DEF DropLate, ReceiverTypeOK
  <2> QED
    BY <1>8, <2>2, <2>3 DEF DropLate, frameVars, recvVars, ReceiverTypeOK,
                            PacketHeld
<1>9. CASE Accept
  <2>1. pkt \in Packets
    BY <1>9 DEF Accept, PacketHeld
  <2>2. AccountTypeOK'
    BY <1>9, <2>1, PacketFields, AccountKeepsType DEF Accept, ReceiverTypeOK
  <2>3. pkt.n \in Nat /\ pkt.m \in Nat /\ pkt.im \in Nat
    BY <2>1, PacketFields, PacketAssumption, ReceiverAssumption
  <2>4. Dispatched(pkt) \in Nat /\ BlocksInPaq(pkt) \in Nat
    BY <2>3 DEF Dispatched, BlocksInPaq
  <2>5. Dispatched(pkt) * pkt.im \in Nat
    BY <2>3, <2>4
  <2>6. /\ total_blocks' \in Nat /\ packets_received' \in Nat
        /\ blocks_received' \in Nat
    <3>1. /\ total_blocks \in Nat /\ packets_received \in Nat
          /\ blocks_received \in Nat
      BY DEF ReceiverTypeOK
    <3>2. /\ total_blocks' = total_blocks + Dispatched(pkt) * pkt.im
          /\ packets_received' = packets_received + 1
          /\ blocks_received' = blocks_received + BlocksInPaq(pkt)
      BY <1>9 DEF Accept
    <3> HIDE DEF ReceiverInv
    <3> QED
      BY <2>4, <2>5, <3>1, <3>2
  <2>7. frames_received' \in 0 .. SEQ_MOD - 1
    <3>1. frames_received \in Nat
      BY Moduli DEF ReceiverTypeOK
    <3>2. (frames_received + Dispatched(pkt)) % SEQ_MOD \in 0 .. SEQ_MOD - 1
      BY <2>4, <3>1, Moduli
    <3> QED
      BY <1>9, <3>2 DEF Accept
  <2>8. first' \in BOOLEAN /\ pc' = "test" /\ pkt' = pkt
        /\ UNCHANGED <<packets_dropped, blocks_dropped, blocks_lost, received, stop>>
    BY <1>9 DEF Accept, recvVars
  <2> QED
    BY <1>9, <2>1, <2>2, <2>6, <2>7, <2>8, AcceptEffect
       DEF ReceiverTypeOK, PacketHeld
<1> QED
  BY <1>1, <1>2, <1>3, <1>4, <1>5, <1>6, <1>7, <1>8, <1>9
     DEF ReceiverNext, Work

(* For any packets in any order, with SIGINT anywhere, every variable of   *)
(* LHE_receiver2 keeps its type: in particular the write buffer never has  *)
(* a row that is not a block of an image or never written.                 *)
THEOREM ReceiverTypeCorrect == ReceiverSpec => []ReceiverTypeOK
<1>1. ReceiverInv => ReceiverTypeOK
  BY DEF ReceiverInv
<1> QED
  BY <1>1, ReceiverInitInv, ReceiverStepInv, PTL DEF ReceiverSpec

-----------------------------------------------------------------------------
(* What every action does to the files                                     *)

(* A step that changes the list of files appends one file, named after the *)
(* frame in the buffer, with rows of the buffer, or two: the frame in the  *)
(* buffer and then the one the packet completes.                           *)
LEMMA FilesGrow ==
  ASSUME ReceiverInv, [ReceiverNext]_receiverVars
  PROVE  \/ written' = written /\ bf_w' = bf_w
         \/ pkt \in Packets /\ bf_w' = bf_w
              /\ written' = Append(written, File(ts_aux, pkt, bf_w))
         \/ /\ pkt \in Packets /\ bf_w' = CopyBlocks(pkt)
            /\ ts_aux' \in Nat /\ ts_aux' >= ts_aux
            /\ \/ written' = Closed(pkt)
               \/ written' = Append(Closed(pkt), File(ts_aux', pkt, bf_w'))
<1>1. CASE Accept
  <2>1. pkt \in Packets
    BY <1>1 DEF Accept, ReceiverInv, PacketHeld
  <2>2. ts_aux' \in Nat /\ ts_aux' >= ts_aux
    BY <1>1, <2>1, AcceptEffect DEF ReceiverInv
  <2> QED
    BY <1>1, <2>1, <2>2 DEF Accept
<1>2. CASE DispatchAndStop
  <2>1. pkt \in Packets
    BY <1>2 DEF DispatchAndStop, InFrame, ReceiverInv, PacketHeld
  <2> QED
    BY <1>2, <2>1 DEF DispatchAndStop
<1>3. CASE UNCHANGED frameVars
  BY <1>3 DEF frameVars
<1>4. Accept \/ DispatchAndStop \/ UNCHANGED frameVars
  BY DEF ReceiverNext, Work, TestStop, EnterRecv, Deliver, SigInt, RecvFailed,
         DropLate, receiverVars
<1> QED
  BY <1>1, <1>2, <1>3, <1>4

-----------------------------------------------------------------------------
(* Names                                                                   *)

(* Appending a file under a name no smaller than all before keeps order.   *)
LEMMA AppendInOrder ==
  ASSUME NEW s \in Seq(Files), NEW f \in Files,
         \A k \in DOMAIN s : s[k].name <= f.name,
         \A k \in 1 .. Len(s) - 1 : s[k].name <= s[k + 1].name
  PROVE  LET t == Append(s, f) IN
           \A k \in 1 .. Len(t) - 1 : t[k].name <= t[k + 1].name
<1> DEFINE t == Append(s, f)
<1> SUFFICES ASSUME NEW k \in 1 .. Len(t) - 1 PROVE t[k].name <= t[k + 1].name
  OBVIOUS
<1>1. Len(t) = Len(s) + 1 /\ k \in 1 .. Len(s)
  OBVIOUS
<1>2. CASE k = Len(s)
  BY <1>1, <1>2
<1>3. CASE k < Len(s)
  BY <1>1, <1>3
<1> QED
  BY <1>1, <1>2, <1>3

(* NamesInOrder: files are written in the order of their names, whatever   *)
(* arrives, also when a late packet opens a finished frame again.          *)
THEOREM NamesAlwaysInOrder == ReceiverSpec => []NamesInOrder
<1>1. ReceiverInit => NamesInOrder
  BY DEF ReceiverInit, NamesInOrder
<1>2. ReceiverInv /\ NamesInOrder /\ [ReceiverNext]_receiverVars => NamesInOrder'
  <2> SUFFICES ASSUME ReceiverInv, NamesInOrder, [ReceiverNext]_receiverVars
               PROVE  NamesInOrder'
    OBVIOUS
  <2>1. /\ written \in Seq(Files) /\ ts_aux \in Nat
        /\ bf_w \in [Rows -> Content]
        /\ \A k \in DOMAIN written : written[k].name <= ts_aux
    BY DEF ReceiverInv, ReceiverTypeOK
  <2>2. CASE written' = written
    BY <2>2 DEF NamesInOrder
  <2>3. CASE pkt \in Packets /\ written' = Append(written, File(ts_aux, pkt, bf_w))
    BY <2>1, <2>3, FileType, AppendInOrder DEF NamesInOrder
  <2>4. ASSUME pkt \in Packets, bf_w' = CopyBlocks(pkt),
               ts_aux' \in Nat, ts_aux' >= ts_aux,
               \/ written' = Closed(pkt)
               \/ written' = Append(Closed(pkt), File(ts_aux', pkt, bf_w'))
        PROVE  NamesInOrder'
    <3> DEFINE c == Closed(pkt)
               f == File(ts_aux', pkt, bf_w')
    <3>1. \A k \in 1 .. Len(c) - 1 : c[k].name <= c[k + 1].name
      <4>1. CASE c = written
        BY <4>1 DEF NamesInOrder
      <4>2. CASE c = Append(written, File(ts_aux, pkt, bf_w))
        BY <2>1, <2>4, <4>2, FileType, AppendInOrder DEF NamesInOrder
      <4> QED
        BY <4>1, <4>2 DEF Closed
    <3>2. c \in Seq(Files) /\ \A k \in DOMAIN c : c[k].name <= ts_aux
      BY <2>4, ClosedType DEF ReceiverInv
    <3>3. f \in Files /\ f.name = ts_aux'
      BY <2>4, FileType, CopyType DEF ReceiverInv
    <3> HIDE DEF c, f
    <3>4. \A k \in DOMAIN c : c[k].name <= f.name
      <4>1. \A k \in DOMAIN c : c[k] \in Files
        BY <3>2
      <4>2. \A g \in Files : g.name \in Nat
        BY DEF Files
      <4> QED
        BY <2>1, <2>4, <3>2, <3>3, <4>1, <4>2
    <3>5. CASE written' = c
      BY <3>1, <3>5 DEF NamesInOrder
    <3>6. CASE written' = Append(c, f)
      BY <3>1, <3>2, <3>3, <3>4, <3>6, AppendInOrder DEF NamesInOrder
    <3> QED
      BY <2>4, <3>5, <3>6 DEF c, f
  <2> QED
    BY <2>2, <2>3, <2>4, FilesGrow
<1> QED
  BY <1>1, <1>2, ReceiverInitInv, ReceiverStepInv, PTL DEF ReceiverSpec

-----------------------------------------------------------------------------
(* Losses                                                                  *)

(* LossAccounting in the whole receiver: dropping late packets, failing    *)
(* receptions and SIGINT do not disturb the count.                         *)
THEOREM LossesAlwaysAccounted == ReceiverSpec => []LossAccounting
<1>1. ReceiverInit => LossAccounting /\ NothingYet
  BY AccountInitType DEF ReceiverInit, AccountInit, NothingYet
<1>2. ReceiverInv /\ LossAccounting /\ NothingYet /\ [ReceiverNext]_receiverVars
      => LossAccounting' /\ NothingYet'
  <2> SUFFICES ASSUME ReceiverInv, LossAccounting, NothingYet,
                      [ReceiverNext]_receiverVars
               PROVE  LossAccounting' /\ NothingYet'
    OBVIOUS
  <2>1. CASE UNCHANGED accountVars
    BY <2>1 DEF accountVars, LossAccounting, NothingYet
  <2>2. CASE pkt \in Packets /\ Account(pkt.seq, pkt.ssrc)
    <3>1. pkt.seq \in 0 .. SEQ_MAX /\ pkt.ssrc \in Sessions
      BY <2>2, PacketFields
    <3>2. LossAccounting'
      BY <2>2, <3>1, AccountKeepsLoss DEF ReceiverInv, ReceiverTypeOK, NothingYet
    <3> QED
      BY <2>2, <3>2 DEF Account, NothingYet
  <2>3. UNCHANGED accountVars \/ DropLate \/ Accept
    BY DEF ReceiverNext, Work, TestStop, EnterRecv, Deliver, SigInt, RecvFailed,
           DispatchAndStop, receiverVars
  <2>4. DropLate \/ Accept => pkt \in Packets /\ Account(pkt.seq, pkt.ssrc)
    BY DEF DropLate, Accept, ReceiverInv, PacketHeld
  <2> QED
    BY <2>1, <2>2, <2>3, <2>4
<1> QED
  BY <1>1, <1>2, ReceiverInitInv, ReceiverStepInv, PTL DEF ReceiverSpec

-----------------------------------------------------------------------------
(* Transmitter, network and receiver together                              *)

(* A step of the whole is one of the network and one of the receiver.      *)
LEMMA StreamSteps ==
  ASSUME NetworkInv, [Next]_vars
  PROVE  NetworkStep /\ [ReceiverNext]_receiverVars
<1>1. CASE Transmit /\ UNCHANGED <<receiverVars, signals>>
  BY <1>1 DEF NetworkStep
<1>2. CASE Lose /\ UNCHANGED <<receiverVars, signals>>
  BY <1>2 DEF NetworkStep
<1>3. CASE Delivery /\ UNCHANGED signals
  <2>1. PICK k \in inflight : Arrive(k) /\ Deliver(Datagram(k))
    BY <1>3 DEF Delivery
  <2>2. Datagram(k) \in Packets
    BY DatagramType DEF NetworkInv
  <2> QED
    BY <2>1, <2>2 DEF NetworkStep, ReceiverNext
<1>4. CASE Receive
  BY <1>4 DEF Receive, NetworkStep, ReceiverNext
<1>5. CASE Interrupt
  BY <1>5 DEF Interrupt, NetworkStep, ReceiverNext
<1>6. CASE UNCHANGED vars
  BY <1>6 DEF vars, NetworkStep
<1> QED
  BY <1>1, <1>2, <1>3, <1>4, <1>5, <1>6 DEF Next

(* What the network delivers are packets as LHE_receiver2 expects them: so *)
(* everything it guarantees for arbitrary packets (the names in order, the *)
(* blocks at their place, the losses accounted) holds of the whole.        *)
THEOREM StreamFeedsReceiver == Spec => ReceiverSpec /\ []NetworkInv /\ []ReceiverInv
<1>1. Init => ReceiverInit /\ NetworkInv /\ ReceiverInv
  BY NetworkStart, ReceiverInitInv DEF Init
<1>2. NetworkInv /\ ReceiverInv /\ [Next]_vars
      => [ReceiverNext]_receiverVars /\ NetworkInv' /\ ReceiverInv'
  BY StreamSteps, NetworkKept, ReceiverStepInv
<1> QED
  BY <1>1, <1>2, PTL DEF Spec, ReceiverSpec

-----------------------------------------------------------------------------
(* The packets handled are those that arrived, but for one in the buffer   *)

HandlingInv ==
  /\ arrived <= Len(arrivals)
  /\ pc \in {"test", "call", "recv"} => arrived = Len(arrivals)
  /\ pc = "recv" => ~received
  /\ pc = "got" /\ received => /\ Len(arrivals) = arrived + 1
                               /\ pkt = Datagram(arrivals[arrived + 1])
  /\ pc = "got" /\ ~received => arrived = Len(arrivals)
  /\ startup <=> arrived = 0
  /\ startup => first /\ packets_lost = 0
  /\ ~startup => /\ current_session = Session
                 /\ base = stream[arrivals[1]].seq
                 /\ current_seqnum = stream[arrivals[arrived]].seq

StreamInvs == NetworkInv /\ ReceiverInv /\ HandlingInv

(* How far the receiver is along the packets that arrived.                 *)
LEMMA Progress ==
  ASSUME StreamInvs
  PROVE  /\ arrived \in Nat /\ packets_lost \in Nat /\ (startup <=> arrived = 0)
         /\ arrived <= Len(arrivals) /\ Len(arrivals) \in Nat
         /\ DOMAIN arrivals = 1 .. Len(arrivals)
         /\ \A a \in DOMAIN arrivals : arrivals[a] \in DOMAIN stream /\ arrivals[a] \in Nat
         /\ \A a \in 1 .. arrived : a \in DOMAIN arrivals /\ arrivals[a] \in DOMAIN stream
<1>1. arrived \in Nat /\ packets_lost \in Nat
  BY DEF StreamInvs, ReceiverInv, ReceiverTypeOK, AccountTypeOK
<1>2. arrived <= Len(arrivals) /\ (startup <=> arrived = 0)
  BY DEF StreamInvs, HandlingInv
<1>3. arrivals \in Seq(Nat) /\ \A a \in DOMAIN arrivals : arrivals[a] \in DOMAIN stream
  BY DEF StreamInvs, NetworkInv
<1>4. Len(arrivals) \in Nat /\ DOMAIN arrivals = 1 .. Len(arrivals)
      /\ \A a \in DOMAIN arrivals : arrivals[a] \in Nat
  BY <1>3
<1>5. \A a \in 1 .. arrived : a \in DOMAIN arrivals
  BY <1>1, <1>2, <1>4
<1> QED
  BY <1>1, <1>2, <1>3, <1>4, <1>5

(* The packet being handled, and what handling it leaves alone.            *)
Next1 == arrivals[arrived + 1]
Handling ==
  /\ Len(arrivals) = arrived + 1 /\ arrived' = arrived + 1 /\ startup' = FALSE
  /\ Next1 \in DOMAIN stream /\ pkt = Datagram(Next1) /\ pkt \in Packets
  /\ Account(pkt.seq, Session) /\ pkt.ssrc = Session
  /\ pc = "got" /\ pc' = "test"
  /\ UNCHANGED networkVars
Idle == /\ UNCHANGED <<accountVars, frameVars, packets_dropped>>
        /\ pc = "out" => pc' = "out"

(* A step handles a packet, stops in the middle of a frame, or changes     *)
(* nothing of what the receiver knows of packets and frames.               *)
LEMMA StepKinds ==
  ASSUME StreamInvs, [Next]_vars
  PROVE  \/ Handling /\ (Accept \/ DropLate)
         \/ DispatchAndStop /\ UNCHANGED networkVars
         \/ Idle
<1> USE DEF StreamInvs
<1>1. CASE Transmit /\ UNCHANGED <<receiverVars, signals>>
  BY <1>1 DEF receiverVars, statVars, Idle
<1>2. CASE Lose /\ UNCHANGED <<receiverVars, signals>>
  BY <1>2 DEF receiverVars, statVars, Idle
<1>3. CASE Delivery /\ UNCHANGED signals
  BY <1>3 DEF Delivery, Deliver, statVars, Idle
<1>4. CASE Receive /\ (Accept \/ DropLate)
  <2>1. /\ pc = "got" /\ received /\ Account(pkt.seq, pkt.ssrc) /\ pc' = "test"
        /\ UNCHANGED networkVars
    BY <1>4 DEF Accept, DropLate, Receive
  <2>2. Len(arrivals) = arrived + 1 /\ pkt = Datagram(Next1)
    BY <2>1 DEF HandlingInv, Next1
  <2>3. arrived + 1 \in DOMAIN arrivals
    <3>1. arrived \in Nat /\ DOMAIN arrivals = 1 .. Len(arrivals)
      BY DEF ReceiverInv, ReceiverTypeOK, AccountTypeOK, NetworkInv
    <3> QED
      BY <2>2, <3>1
  <2>4. Next1 \in DOMAIN stream
    BY <2>3 DEF Next1, NetworkInv
  <2>5. pkt.ssrc = Session /\ pkt \in Packets
    BY <2>1, <2>2 DEF Datagram, ReceiverInv, PacketHeld
  <2>6. arrived' = arrived + 1 /\ startup' = FALSE /\ Account(pkt.seq, Session)
    BY <2>1, <2>5 DEF Account
  <2> QED
    BY <1>4, <2>1, <2>2, <2>4, <2>5, <2>6 DEF Handling
<1>5. CASE Receive /\ DispatchAndStop
  BY <1>5 DEF Receive
<1>6. CASE Receive /\ (TestStop \/ EnterRecv \/ RecvFailed)
  BY <1>6 DEF TestStop, EnterRecv, RecvFailed, statVars, Idle
<1>7. CASE Interrupt
  BY <1>7 DEF Interrupt, SigInt, Idle
<1>8. CASE UNCHANGED vars
  BY <1>8 DEF vars, receiverVars, statVars, Idle
<1> QED
  BY <1>1, <1>2, <1>3, <1>4, <1>5, <1>6, <1>7, <1>8 DEF Next, Receive, Work

(* Arrivals are only added to, and the packets sent stay what they are.    *)
LEMMA PastKept ==
  ASSUME NetworkInv, NetworkStep
  PROVE  /\ Len(arrivals) \in Nat /\ DOMAIN arrivals = 1 .. Len(arrivals)
         /\ Len(arrivals') \in Nat /\ Len(arrivals) <= Len(arrivals')
         /\ DOMAIN arrivals' = 1 .. Len(arrivals')
         /\ \A a \in DOMAIN arrivals :
              /\ arrivals[a] \in DOMAIN stream /\ arrivals[a] \in Nat
              /\ arrivals'[a] = arrivals[a]
              /\ stream'[arrivals[a]] = stream[arrivals[a]]
              /\ Datagram(arrivals[a])' = Datagram(arrivals[a])
<1>1. /\ arrivals \in Seq(Nat) /\ arrivals' \in Seq(Nat)
      /\ \A a \in DOMAIN arrivals : arrivals[a] \in DOMAIN stream /\ arrivals[a] \in Nat
  BY NetworkKept DEF NetworkInv
<1>2. /\ Len(arrivals) <= Len(arrivals')
      /\ \A a \in DOMAIN arrivals : arrivals'[a] = arrivals[a]
  <2>1. CASE arrivals' = arrivals
    BY <1>1, <2>1
  <2>2. CASE \E k \in inflight : Arrive(k)
    <3>1. PICK k \in inflight : arrivals' = Append(arrivals, k)
      BY <2>2 DEF Arrive
    <3> QED
      BY <1>1, <3>1
  <2> QED
    BY <2>1, <2>2 DEF NetworkStep, Transmit, Lose, networkVars
<1>3. \A k \in DOMAIN stream : stream'[k] = stream[k] /\ Datagram(k)' = Datagram(k)
  BY SentKept, NetworkSends DEF NetworkInv
<1>4. ASSUME NEW a \in DOMAIN arrivals
      PROVE  /\ stream'[arrivals[a]] = stream[arrivals[a]]
             /\ Datagram(arrivals[a])' = Datagram(arrivals[a])
  <2>1. arrivals[a] \in DOMAIN stream /\ arrivals'[a] = arrivals[a]
    BY <1>1, <1>2
  <2> QED
    BY <1>3, <2>1 DEF Datagram
<1> QED
  BY <1>1, <1>2, <1>4

(* Before the first packet.                                                *)
LEMMA HandlingStart == Init => HandlingInv
  BY DEF Init, NetworkInit, ReceiverInit, AccountInit, HandlingInv

(* Where the receiver is in its loop tells how many packets it has         *)
(* handled, and its bookkeeping tells which was the last.                  *)
LEMMA HandlingKept ==
  ASSUME StreamInvs, [Next]_vars PROVE HandlingInv'
<1> USE DEF StreamInvs
<1>1. /\ arrived \in Nat /\ Len(arrivals) \in Nat /\ DOMAIN arrivals = 1 .. Len(arrivals)
      /\ arrived <= Len(arrivals) /\ pc \in {"test", "call", "recv", "got", "out"}
      /\ startup \in BOOLEAN /\ received \in BOOLEAN /\ NetworkStep
  BY StreamSteps, PastKept
     DEF ReceiverInv, ReceiverTypeOK, AccountTypeOK, HandlingInv
<1> DEFINE Loop == /\ arrived <= Len(arrivals)
                   /\ pc \in {"test", "call", "recv"} => arrived = Len(arrivals)
                   /\ pc = "recv" => ~received
                   /\ pc = "got" /\ received => /\ Len(arrivals) = arrived + 1
                                                /\ pkt = Datagram(Next1)
                   /\ pc = "got" /\ ~received => arrived = Len(arrivals)
           Last == /\ startup <=> arrived = 0
                   /\ startup => first /\ packets_lost = 0
                   /\ ~startup => /\ current_session = Session
                                  /\ base = stream[arrivals[1]].seq
                                  /\ current_seqnum = stream[arrivals[arrived]].seq
<1>2. Loop /\ Last
  BY DEF HandlingInv, Next1
<1>3. Loop'
  <2>1. CASE (Transmit \/ Lose) /\ UNCHANGED receiverVars
    <3>1. UNCHANGED <<arrivals, arrived, pc, received, pkt>>
      BY <2>1 DEF Transmit, Lose, receiverVars, accountVars, recvVars
    <3>2. arrived + 1 \in DOMAIN arrivals => Datagram(Next1)' = Datagram(Next1)
      <4>1. arrived + 1 \in DOMAIN arrivals
            => Datagram(arrivals[arrived + 1])' = Datagram(arrivals[arrived + 1])
        BY <1>1, <3>1, PastKept DEF Datagram
      <4> QED
        BY <3>1, <4>1 DEF Next1, Datagram
    <3> QED
      BY <1>1, <1>2, <3>1, <3>2
  <2>2. CASE Delivery
    <3>1. PICK k \in inflight : Arrive(k) /\ Deliver(Datagram(k))
      BY <2>2 DEF Delivery
    <3>2. /\ arrivals' = Append(arrivals, k) /\ arrived' = arrived /\ pc = "recv"
          /\ pc' = "got" /\ received' = TRUE /\ pkt' = Datagram(k)
          /\ UNCHANGED <<sizes, stream>>
      BY <3>1 DEF Arrive, Deliver, accountVars
    <3>3. arrived = Len(arrivals)
      BY <1>2, <3>2
    <3>4. Len(arrivals') = arrived' + 1 /\ arrivals'[arrived' + 1] = k
      BY <1>1, <3>2, <3>3 DEF NetworkInv
    <3>5. Datagram(Next1)' = Datagram(k)
      BY <3>2, <3>4 DEF Datagram, Next1
    <3> QED
      BY <1>1, <3>2, <3>3, <3>4, <3>5
  <2>3. CASE Handling
    BY <1>1, <2>3 DEF Handling, networkVars
  <2>4. CASE Receive /\ ~Handling
    <3>1. UNCHANGED <<arrivals, arrived, stream, sizes>>
      <4>1. DispatchAndStop \/ Idle
        BY <2>4, StepKinds
      <4> QED
        BY <2>4, <4>1 DEF DispatchAndStop, Idle, accountVars, Receive, networkVars
    <3>2. ~(Accept \/ DropLate)
      <4>1. Accept \/ DropLate => arrived' = arrived + 1
        BY DEF Accept, DropLate, Account
      <4> QED
        BY <1>1, <3>1, <4>1
    <3>3. Datagram(Next1)' = Datagram(Next1)
      BY <3>1 DEF Datagram, Next1
    <3>4. CASE TestStop \/ RecvFailed \/ DispatchAndStop
      BY <1>1, <1>2, <3>1, <3>3, <3>4 DEF TestStop, RecvFailed, DispatchAndStop, recvVars
    <3>5. CASE EnterRecv
      BY <1>1, <1>2, <3>1, <3>5 DEF EnterRecv
    <3> QED
      BY <2>4, <3>2, <3>4, <3>5 DEF Receive, Work
  <2>5. CASE Interrupt
    <3>1. UNCHANGED <<arrivals, arrived, stream, sizes, received, pkt>>
          /\ pc' = IF pc = "recv" THEN "got" ELSE pc
      BY <2>5 DEF Interrupt, SigInt, accountVars, recvVars, networkVars
    <3>2. Datagram(Next1)' = Datagram(Next1)
      BY <3>1 DEF Datagram, Next1
    <3> QED
      BY <1>1, <1>2, <3>1, <3>2
  <2>6. CASE UNCHANGED vars
    BY <1>2, <2>6
       DEF vars, receiverVars, accountVars, recvVars, networkVars, Datagram, Next1
  <2> QED
    BY <2>1, <2>2, <2>3, <2>4, <2>5, <2>6 DEF Next
<1>4. Last'
  <2>1. CASE UNCHANGED <<startup, arrived, first, packets_lost, current_session, base,
                         current_seqnum>>
    <3>1. ~startup => 1 \in DOMAIN arrivals /\ arrived \in DOMAIN arrivals
      BY <1>1, <1>2
    <3>2. ~startup => /\ stream'[arrivals'[1]] = stream[arrivals[1]]
                      /\ stream'[arrivals'[arrived']] = stream[arrivals[arrived]]
      BY <1>1, <2>1, <3>1, PastKept
    <3> QED
      BY <1>2, <2>1, <3>2
  <2>2. CASE Handling
    <3>1. /\ startup' = FALSE /\ arrived' = arrived + 1
          /\ UNCHANGED <<arrivals, stream, sizes>>
          /\ pkt = Datagram(Next1) /\ Account(pkt.seq, Session)
      BY <2>2 DEF Handling, networkVars
    <3>2. /\ current_session' = Session /\ current_seqnum' = stream[Next1].seq
          /\ base' = IF startup THEN stream[Next1].seq ELSE base
      BY <1>2, <3>1 DEF Account, Datagram
    <3> QED
      BY <1>1, <1>2, <3>1, <3>2 DEF Next1
  <2>3. CASE DispatchAndStop \/ Idle
    <3>1. CASE DispatchAndStop
      BY <2>1, <3>1 DEF DispatchAndStop, accountVars
    <3>2. CASE Idle
      BY <2>1, <3>2 DEF Idle, accountVars, frameVars
    <3> QED
      BY <2>3, <3>1, <3>2
  <2> QED
    BY <2>2, <2>3, StepKinds
<1> QED
  BY <1>3, <1>4 DEF HandlingInv, Next1

(* Together they hold at the start.                                        *)
LEMMA StreamInvsStart == Init => StreamInvs
  BY NetworkStart, ReceiverInitInv, HandlingStart DEF Init, StreamInvs
(* And every step preserves them.                                          *)
LEMMA StreamInvsKept ==
  ASSUME StreamInvs, [Next]_vars PROVE StreamInvs'
  BY HandlingKept, StreamSteps, NetworkKept, ReceiverStepInv DEF StreamInvs

-----------------------------------------------------------------------------
(* Losses, when the order is kept                                          *)

OrderedInvs == StreamInvs /\ OrderInv
(* With the order of the network.                                          *)
LEMMA OrderedInvsKept ==
  ASSUME InOrder, OrderedInvs, [Next]_vars PROVE OrderedInvs'
  BY StreamInvsKept, StreamSteps, OrderKept DEF OrderedInvs, StreamInvs

(* The packet being handled comes after the last one, and what lies        *)
(* between them was lost.                                                  *)
LEMMA NextComesAfter ==
  ASSUME OrderedInvs, Handling
  PROVE  /\ arrived \in Nat /\ arrived + 1 \in DOMAIN arrivals
         /\ Next1 \in DOMAIN stream /\ Next1 \in Nat
         /\ ~startup => /\ arrived \in DOMAIN arrivals /\ 1 \in DOMAIN arrivals
                        /\ arrivals[arrived] \in DOMAIN stream
                        /\ arrivals[1] \in Nat /\ arrivals[arrived] \in Nat
                        /\ arrivals[arrived] < Next1
                        /\ Next1 - arrivals[arrived] - 1 \in 0 .. MaxLosses
<1>1. /\ arrived \in Nat /\ DOMAIN arrivals = 1 .. Len(arrivals)
      /\ \A a \in DOMAIN arrivals : arrivals[a] \in DOMAIN stream /\ arrivals[a] \in Nat
  BY DEF OrderedInvs, StreamInvs, ReceiverInv, ReceiverTypeOK, AccountTypeOK, NetworkInv
<1>2. Len(arrivals) = arrived + 1 /\ (startup <=> arrived = 0)
  BY DEF Handling, OrderedInvs, StreamInvs, HandlingInv
<1>3. arrived + 1 \in DOMAIN arrivals /\ Next1 \in DOMAIN stream /\ Next1 \in Nat
  BY <1>1, <1>2 DEF Next1
<1>4. ASSUME ~startup
      PROVE  /\ arrived \in DOMAIN arrivals /\ 1 \in DOMAIN arrivals
             /\ arrivals[arrived] < Next1
             /\ Next1 - arrivals[arrived] - 1 \in 0 .. MaxLosses
  <2>1. arrived \in DOMAIN arrivals /\ 1 \in DOMAIN arrivals /\ arrived < arrived + 1
    BY <1>1, <1>2, <1>4
  <2> QED
    BY <1>3, <2>1, ArrivalsGrow DEF OrderedInvs, StreamInvs, Next1
<1> QED
  BY <1>1, <1>3, <1>4

(* What LossExact says, and the number expected next: the one after the    *)
(* last packet handled.                                                    *)
ExactInv ==
  ~startup => /\ next_seqnum = After(stream[arrivals[arrived]].seq)
              /\ packets_lost = (arrivals[arrived] - arrivals[1] + 1) - arrived

(* A packet handled adds to the losses exactly the gap before it.          *)
LEMMA ExactKept ==
  ASSUME MaxLosses <= 32768, OrderedInvs, ExactInv, [Next]_vars
  PROVE  ExactInv'
<1>1. CASE Handling
  <2>1. /\ startup' = FALSE /\ arrived' = arrived + 1 /\ arrivals' = arrivals
        /\ stream' = stream /\ pkt.seq = stream[Next1].seq
        /\ Account(pkt.seq, Session)
    BY <1>1 DEF Handling, networkVars, Datagram
  <2> DEFINE seq == stream[Next1].seq
             expected == IF startup THEN seq ELSE next_seqnum
  <2>2. current_session = Session \/ startup
    BY DEF OrderedInvs, StreamInvs, HandlingInv
  <2>3. /\ packets_lost' = packets_lost + Skipped(expected, seq)
        /\ next_seqnum' = After(IF Skipped(expected, seq) > 0 THEN seq ELSE expected)
    BY <2>1, <2>2 DEF Account
  <2>4. seq \in 0 .. SEQ_MAX /\ seq \in Nat
    BY <1>1, NextComesAfter, StreamFields DEF OrderedInvs, StreamInvs, NetworkInv
  <2>5. CASE startup
    <3>1. expected = seq /\ Skipped(seq, seq) = 0
      BY <2>4, <2>5 DEF Skipped
    <3>2. packets_lost = 0 /\ arrived = 0
      BY <2>5 DEF OrderedInvs, StreamInvs, HandlingInv
    <3>3. Next1 \in Nat
      BY <1>1, NextComesAfter
    <3> QED
      BY <2>1, <2>3, <3>1, <3>2, <3>3 DEF ExactInv, Next1
  <2>6. CASE ~startup
    <3> DEFINE last == arrivals[arrived]
               gap  == Next1 - last - 1
    <3>1. /\ last \in DOMAIN stream /\ Next1 \in DOMAIN stream /\ last < Next1
          /\ last \in Nat /\ Next1 \in Nat /\ arrived \in Nat /\ arrivals[1] \in Nat
          /\ gap \in Nat /\ gap <= 32768
      BY <1>1, <2>6, NextComesAfter, NetworkLimits
    <3>2. next_seqnum = After(stream[last].seq) /\ expected = next_seqnum
      BY <2>6 DEF ExactInv
    <3>3. expected \in 0 .. SEQ_MAX /\ seq = (expected + gap) % SEQ_MOD
      <4>1. StreamInv
        BY DEF OrderedInvs, StreamInvs, NetworkInv
      <4>2. /\ After(stream[last].seq) \in 0 .. SEQ_MAX
            /\ stream[Next1].seq = (After(stream[last].seq) + (Next1 - last - 1)) % SEQ_MOD
        <5> HIDE DEF last
        <5> QED
          BY <3>1, <4>1, SeqAhead
      <4> QED
        BY <3>2, <4>2
    <3>4. Skipped(expected, seq) = gap
      BY <3>1, <3>3, SkippedExact
    <3>5. next_seqnum' = After(seq)
      <4>1. CASE gap = 0
        <5>1. seq = expected
          BY <3>3, <4>1, SeqMax, SeqMod
        <5> QED
          BY <2>3, <5>1
      <4>2. CASE gap > 0
        BY <2>3, <3>4, <4>2
      <4> QED
        BY <3>1, <4>1, <4>2
    <3>6. packets_lost = (last - arrivals[1] + 1) - arrived
      BY <2>6 DEF ExactInv
    <3>7. packets_lost' = (Next1 - arrivals[1] + 1) - (arrived + 1)
      <4> HIDE DEF last, expected, seq
      <4> QED
        BY <2>3, <3>1, <3>4, <3>6
    <3> QED
      BY <2>1, <3>5, <3>7 DEF ExactInv, Next1
  <2> QED
    BY <2>5, <2>6
<1>2. CASE UNCHANGED accountVars
  <2>1. UNCHANGED <<startup, next_seqnum, packets_lost, arrived>>
    BY <1>2 DEF accountVars
  <2>2. ~startup => 1 \in DOMAIN arrivals /\ arrived \in DOMAIN arrivals
    BY DEF OrderedInvs, StreamInvs, HandlingInv, ReceiverInv, ReceiverTypeOK,
           AccountTypeOK, NetworkInv
  <2>3. ~startup => /\ arrivals'[1] = arrivals[1]
                    /\ arrivals'[arrived'] = arrivals[arrived]
                    /\ stream'[arrivals'[arrived']] = stream[arrivals[arrived]]
    BY <2>1, <2>2, PastKept, StreamSteps DEF OrderedInvs, StreamInvs
  <2> QED
    BY <2>1, <2>3 DEF ExactInv
<1> QED
  BY <1>1, <1>2, StepKinds DEF OrderedInvs, DispatchAndStop, Idle

(* LossExact: on a network that keeps the order, the losses counted are    *)
(* exactly the packets missing between the first and the last to arrive,   *)
(* also across the rollover (LHE_receiver.c:373-386), as long as fewer are *)
(* lost than half the range of the sequence number.                        *)
THEOREM LossAlwaysExact ==
  ASSUME InOrder, MaxLosses <= 32768 PROVE Spec => []LossExact
<1>1. Init => OrderedInvs /\ ExactInv
  BY StreamInvsStart, OrderStart
     DEF Init, OrderedInvs, ReceiverInit, AccountInit, ExactInv
<1>2. OrderedInvs /\ ExactInv /\ [Next]_vars => OrderedInvs' /\ ExactInv'
  BY OrderedInvsKept, ExactKept
<1>3. ExactInv => LossExact
  BY DEF ExactInv, LossExact
<1> QED
  BY <1>1, <1>2, <1>3, PTL DEF Spec

-----------------------------------------------------------------------------
(* Losses, whatever the order                                              *)

(* The index of the packet expected next, as far as the code can tell.     *)
ExpectedIndex == arrivals[1] + arrived + packets_lost

(* It is beyond every packet handled, as long as the number has not gone   *)
(* round; and the handled packet with the largest number has a name.       *)
CountInv ==
  ~startup =>
    /\ Counted
    /\ \E a \in 1 .. arrived : \A b \in 1 .. arrived : arrivals[b] <= arrivals[a]
    /\ ~RolledOver => \A a \in 1 .. arrived : arrivals[a] < ExpectedIndex

(* The packet being handled is one of the stream, in whatever order.       *)
LEMMA NextArrived ==
  ASSUME StreamInvs, Handling
  PROVE  /\ arrived \in Nat /\ packets_lost \in Nat /\ arrived + 1 \in DOMAIN arrivals
         /\ Next1 \in DOMAIN stream /\ Next1 \in Nat
         /\ pkt.seq = stream[Next1].seq /\ pkt.seq \in 0 .. SEQ_MAX
         /\ \A a \in 1 .. arrived + 1 : arrivals[a] \in Nat /\ arrivals[a] \in DOMAIN stream
         /\ startup <=> arrived = 0
<1>1. /\ arrived \in Nat /\ packets_lost \in Nat /\ DOMAIN arrivals = 1 .. Len(arrivals)
      /\ \A a \in DOMAIN arrivals : arrivals[a] \in DOMAIN stream /\ arrivals[a] \in Nat
  BY DEF StreamInvs, ReceiverInv, ReceiverTypeOK, AccountTypeOK, NetworkInv
<1>2. Len(arrivals) = arrived + 1 /\ (startup <=> arrived = 0) /\ Next1 \in DOMAIN stream
  BY DEF Handling, StreamInvs, HandlingInv
<1>3. arrived + 1 \in DOMAIN arrivals /\ Next1 \in Nat
  BY <1>1, <1>2 DEF Next1
<1>4. pkt.seq = stream[Next1].seq
  BY DEF Handling, Datagram
<1>5. stream[Next1].seq \in 0 .. SEQ_MAX
  BY <1>2, StreamFields DEF StreamInvs, NetworkInv
<1> QED
  BY <1>1, <1>2, <1>3, <1>4, <1>5

(* A packet handled moves the index expected beyond itself.                *)
LEMMA CountKept ==
  ASSUME StreamInvs, CountInv, [Next]_vars PROVE CountInv'
<1>1. NetworkStep /\ NetworkInv /\ StreamInv /\ (RolledOver => RolledOver')
  BY StreamSteps, RolledOverStays, NetworkSends DEF StreamInvs, NetworkInv
<1>2. CASE Handling
  <2> DEFINE k == Next1
  <2>1. /\ startup' = FALSE /\ arrived' = arrived + 1 /\ arrivals' = arrivals
        /\ stream' = stream /\ Account(pkt.seq, Session)
    BY <1>2 DEF Handling, networkVars
  <2>2. /\ arrived \in Nat /\ packets_lost \in Nat /\ k \in DOMAIN stream /\ k \in Nat
        /\ pkt.seq = stream[k].seq /\ pkt.seq \in 0 .. SEQ_MAX
        /\ \A a \in 1 .. arrived + 1 : arrivals[a] \in Nat /\ arrivals[a] \in DOMAIN stream
        /\ (startup <=> arrived = 0) /\ arrivals[arrived + 1] = k
    BY <1>2, NextArrived DEF Next1
  <2>3. IF startup THEN arrived = 0 /\ packets_lost = 0
                   ELSE Session = current_session /\ Counted
    BY DEF StreamInvs, HandlingInv, CountInv
  <2>4. Counted'
    BY <2>1, <2>2, <2>3, AccountKeepsCount, NetworkLimits
       DEF StreamInvs, ReceiverInv, ReceiverTypeOK
  <2> HIDE DEF k
  <2>5. \E a \in 1 .. arrived + 1 : \A b \in 1 .. arrived + 1 : arrivals[b] <= arrivals[a]
    <3>1. CASE arrived = 0
      BY <2>2, <3>1
    <3>2. CASE arrived # 0
      <4>1. PICK a \in 1 .. arrived : \A b \in 1 .. arrived : arrivals[b] <= arrivals[a]
        BY <2>2, <3>2 DEF CountInv
      <4>2. CASE k <= arrivals[a]
        <5>1. \A b \in 1 .. arrived + 1 : arrivals[b] <= arrivals[a]
          BY <2>2, <4>1, <4>2
        <5> QED
          BY <2>2, <4>1, <5>1
      <4>3. CASE arrivals[a] < k
        <5>1. \A b \in 1 .. arrived + 1 : arrivals[b] <= arrivals[arrived + 1]
          BY <2>2, <4>1, <4>3
        <5> QED
          BY <2>2, <5>1
      <4> QED
        BY <2>2, <4>1, <4>2, <4>3
    <3> QED
      BY <3>1, <3>2
  <2>6. ASSUME ~RolledOver', NEW a \in 1 .. arrived + 1
        PROVE  arrivals[a] < arrivals[1] + (arrived + 1) + packets_lost'
    <3>1. ~RolledOver
      BY <1>1, <2>6
    <3>2. CASE startup
      <4>1. packets_lost' = packets_lost + Skipped(pkt.seq, pkt.seq)
        BY <2>1, <3>2 DEF Account
      <4>2. Skipped(pkt.seq, pkt.seq) = 0
        BY <2>2, SeqMax DEF Skipped
      <4> QED
        BY <2>2, <2>3, <3>2, <4>1, <4>2
    <3>3. CASE ~startup
      <4> DEFINE s       == stream[1].seq
                 e       == ExpectedIndex
                 skipped == Skipped(next_seqnum, s + k - 1)
      <4>1. /\ s \in Nat /\ k \in Nat \ {0} /\ e \in Nat \ {0} /\ stream[k].seq = s + k - 1
            /\ stream[arrivals[1]].seq = s + arrivals[1] - 1
            /\ arrivals[1] \in Nat \ {0}
        <5>1. arrivals[1] \in DOMAIN stream /\ arrivals[1] \in Nat
          BY <2>2, <3>3
        <5>2. \A i \in DOMAIN stream : i \in Nat \ {0}
          BY <1>1, StreamFields
        <5> QED
          BY <1>1, <2>2, <3>1, <5>1, <5>2, SeqUnrolled DEF ExpectedIndex
      <4>2. next_seqnum = (s + e - 1) % 65536 /\ next_seqnum \in 0 .. SEQ_MAX
        <5>1. base = stream[arrivals[1]].seq /\ Counted
          BY <3>3 DEF StreamInvs, HandlingInv, CountInv
        <5>2. next_seqnum = (base + arrived + packets_lost) % 65536
          BY <5>1, SeqMod DEF Counted
        <5>3. base + arrived + packets_lost = s + e - 1
          BY <2>2, <4>1, <5>1 DEF ExpectedIndex
        <5>4. next_seqnum \in 0 .. SEQ_MAX
          BY DEF StreamInvs, ReceiverInv, ReceiverTypeOK, AccountTypeOK
        <5> QED
          BY <5>2, <5>3, <5>4
      <4>3. s + k <= 65536
        <5>1. stream # <<>> /\ k <= Len(stream) /\ Len(stream) \in Nat
          BY <1>1, <2>2, StreamFields
        <5> QED
          BY <3>1, <4>1, <5>1, SeqMod DEF RolledOver
      <4>4. s + k - 1 \in 0 .. SEQ_MAX
        BY <2>2, <4>1
      <4>5. skipped \in Nat /\ packets_lost' = packets_lost + skipped
        <5>1. skipped \in Nat
          <6> HIDE DEF s
          <6> QED
            BY <4>2, <4>4, SkippedBounds
        <5>2. packets_lost' = packets_lost + Skipped(next_seqnum, pkt.seq)
          BY <2>1, <2>3, <3>3 DEF Account
        <5> QED
          BY <2>2, <4>1, <5>1, <5>2
      <4>6. k < e + skipped + 1
        <5>1. skipped = Skipped(next_seqnum, s + k - 1)
          OBVIOUS
        <5> HIDE DEF s, e, skipped
        <5>2. CASE k < e
          BY <4>1, <4>5, <5>2
        <5>3. CASE e <= k
          <6>1. next_seqnum = s + e - 1
            BY <4>1, <4>2, <4>3, <5>3
          <6>2. next_seqnum \in Nat /\ next_seqnum <= s + k - 1
            BY <4>1, <5>3, <6>1
          <6>3. e = k \/ skipped = (s + k - 1) - next_seqnum
            BY <4>1, <5>1, <5>3, <6>1, <6>2 DEF Skipped
          <6> QED
            BY <4>1, <4>5, <5>3, <6>1, <6>3
        <5> QED
          BY <4>1, <5>2, <5>3
      <4>7. a \in 1 .. arrived => arrivals[a] < e
        BY <3>1, <3>3 DEF CountInv
      <4> HIDE DEF s, skipped
      <4> QED
        BY <2>2, <4>1, <4>5, <4>6, <4>7 DEF ExpectedIndex
    <3> QED
      BY <3>2, <3>3
  <2> QED
    BY <2>1, <2>4, <2>5, <2>6 DEF CountInv, ExpectedIndex
<1>3. CASE UNCHANGED accountVars
  <2>1. UNCHANGED <<startup, base, next_seqnum, packets_lost, arrived>>
    BY <1>3 DEF accountVars
  <2>2. ~startup => \A a \in 1 .. arrived : arrivals'[a] = arrivals[a] /\ 1 \in 1 .. arrived
    <3>1. arrived \in Nat /\ arrived <= Len(arrivals) /\ (startup <=> arrived = 0)
      BY DEF StreamInvs, HandlingInv, ReceiverInv, ReceiverTypeOK, AccountTypeOK
    <3>2. \A a \in 1 .. arrived : a \in DOMAIN arrivals
      BY <1>1, <3>1, PastKept
    <3> QED
      BY <1>1, <3>1, <3>2, PastKept
  <2>3. ~startup => Counted'
    BY <2>1 DEF CountInv, Counted
  <2>4. ASSUME ~startup
        PROVE  /\ \E a \in 1 .. arrived : \A b \in 1 .. arrived : arrivals'[b] <= arrivals'[a]
               /\ ~RolledOver' => \A a \in 1 .. arrived :
                    arrivals'[a] < arrivals'[1] + arrived + packets_lost
    BY <1>1, <2>2, <2>4 DEF CountInv, ExpectedIndex
  <2> QED
    BY <2>1, <2>3, <2>4 DEF CountInv, ExpectedIndex
<1> QED
  BY <1>2, <1>3, StepKinds DEF DispatchAndStop, Idle

(* Of the packets between the first to arrive and the last in number, as   *)
(* many are missing as there are, less those handled.                      *)
LEMMA MissingCounted ==
  ASSUME StreamInvs, CountInv, OnceInv, ~startup, copies = 0, ~RolledOver
  PROVE  /\ Cardinality(Older) \in Nat /\ Cardinality(Missing) \in Nat
         /\ Cardinality(Missing) <= packets_lost + Cardinality(Older)
<1> DEFINE from == arrivals[1]
           to   == Max(Handled)
           H    == Handled
           O    == Older
           span == from .. to
<1>1. /\ arrived \in Nat /\ arrived # 0 /\ packets_lost \in Nat /\ arrived <= Len(arrivals)
      /\ DOMAIN arrivals = 1 .. Len(arrivals) /\ Len(arrivals) \in Nat
      /\ \A a \in DOMAIN arrivals : arrivals[a] \in Nat
  BY Progress
<1>2. \A a \in 1 .. arrived : a \in DOMAIN arrivals
  BY <1>1
<1>3. from \in H /\ H \subseteq Nat
  BY <1>1, <1>2 DEF Handled
<1>4. to \in H /\ \A j \in H : j <= to
  <2>1. PICK a \in 1 .. arrived : \A b \in 1 .. arrived : arrivals[b] <= arrivals[a]
    BY DEF CountInv
  <2>2. arrivals[a] \in H /\ \A j \in H : arrivals[a] >= j
    BY <1>1, <1>2, <2>1 DEF Handled
  <2>3. \E m \in H : \A j \in H : m >= j
    BY <2>2
  <2>4. to \in H /\ \A j \in H : to >= j
    BY <2>3, Zenon DEF Max
  <2> QED
    BY <1>3, <2>4
<1>5. to < from + arrived + packets_lost
  BY <1>4 DEF CountInv, ExpectedIndex, Handled
<1>6. IsFiniteSet(H) /\ Cardinality(H) = arrived
  <2> DEFINE h == [a \in 1 .. arrived |-> arrivals[a]]
  <2>1. h \in Bijection(1 .. arrived, H)
    <3>1. h \in Surjection(1 .. arrived, H)
      BY DEF Handled, Surjection
    <3>2. \A a, b \in 1 .. arrived : h[a] = h[b] => a = b
      BY <1>2 DEF OnceInv
    <3> HIDE DEF h
    <3> QED
      BY <3>1, <3>2 DEF Bijection, Injection, Surjection, IsInjective
  <2>2. IsFiniteSet(1 .. arrived) /\ Cardinality(1 .. arrived) = arrived
    BY <1>1, FS_Interval
  <2> HIDE DEF h, H
  <2> QED
    BY <2>1, <2>2, FS_Bijection DEF ExistsBijection
<1>7. O = H \ span /\ Missing = span \ H
  <2>1. \A j \in H : j \in Nat /\ (j \in span <=> from <= j)
    BY <1>3, <1>4
  <2>2. O = {j \in H : j < from}
    BY DEF Older
  <2>3. Missing = {j \in span : j \notin H}
    BY DEF Missing
  <2>4. from \in Nat
    BY <1>3
  <2> HIDE DEF from, to, H, O, span
  <2> QED
    BY <2>1, <2>2, <2>3, <2>4
<1>8. IsFiniteSet(span) /\ Cardinality(span) = to - from + 1
  <2>1. from \in Nat /\ to \in Nat /\ from <= to
    BY <1>3, <1>4
  <2> HIDE DEF from, to
  <2> QED
    BY <2>1, FS_Interval
<1> HIDE DEF from, to, H, O, span
<1>9. /\ IsFiniteSet(H \ span) /\ Cardinality(H \ span) = Cardinality(H) - Cardinality(H \cap span)
      /\ IsFiniteSet(span \ H)
      /\ Cardinality(span \ H) = Cardinality(span) - Cardinality(span \cap H)
  BY <1>6, <1>8, FS_Difference
<1>10. H \cap span = span \cap H
  OBVIOUS
<1>11. Cardinality(H \ span) \in Nat /\ Cardinality(span \ H) \in Nat
       /\ Cardinality(H \cap span) \in Nat
  BY <1>6, <1>9, FS_CardinalityType, FS_Intersection
<1>12. Cardinality(span \ H) <= packets_lost + Cardinality(H \ span)
  <2> DEFINE both == Cardinality(H \cap span)
  <2>1. /\ Cardinality(H \ span) = arrived - both
        /\ Cardinality(span \ H) = (to - from + 1) - both /\ both \in Nat
    BY <1>6, <1>8, <1>9, <1>10, <1>11
  <2>2. from \in Nat /\ to \in Nat
    BY <1>3, <1>4
  <2> HIDE DEF both
  <2> QED
    BY <1>1, <1>5, <2>1, <2>2
<1> QED
  BY <1>7, <1>11, <1>12 DEF O

(* LossNotUnderestimated: whatever is lost, delayed or overtaken, the      *)
(* packets missing are no more than those counted lost and those from      *)
(* before the first that turned up late (LHE_receiver.c:373-386).          *)
THEOREM LossNeverUnderestimated == Spec => []LossNotUnderestimated
<1>1. Init => StreamInvs /\ CountInv /\ OnceInv
  BY StreamInvsStart, OnceStart DEF Init, ReceiverInit, AccountInit, CountInv
<1>2. StreamInvs /\ CountInv /\ OnceInv /\ [Next]_vars
      => StreamInvs' /\ CountInv' /\ OnceInv'
  BY StreamInvsKept, CountKept, OnceKept, StreamSteps DEF StreamInvs
<1>3. StreamInvs /\ CountInv /\ OnceInv => LossNotUnderestimated
  BY MissingCounted DEF LossNotUnderestimated
<1> QED
  BY <1>1, <1>2, <1>3, PTL DEF Spec

-----------------------------------------------------------------------------
(* Files and frames, when the order is kept                                *)

Growing(s)    == \A k \in 1 .. Len(s) - 1 : s[k].name < s[k + 1].name
Below(s, t)   == \A k \in DOMAIN s : s[k].name < t
Named(s, t)   == \E k \in DOMAIN s : s[k].name = t
Last(a)       == stream[arrivals[a]]

(* The frame in the buffer is the one of a packet handled; its file, when  *)
(* it is written, comes after all others.  As long as the sequence number  *)
(* has not gone round, every packet handled is in the frame in the buffer  *)
(* or has a file.                                                          *)
FilesInv ==
  /\ ts_aux = ts_current
  /\ startup => ts_current = 0 /\ written = <<>>
  /\ ~startup => ts_current <= Last(arrived).ts
  /\ ~startup /\ first => Last(arrived).m = 1 /\ ts_current = Last(arrived).ts
  /\ ~first => \E a \in 1 .. arrived : ts_current = Last(a).ts
  /\ ~first /\ pc # "out" => Below(written, ts_current)
  /\ Growing(written)
  /\ \A k \in DOMAIN written : \E a \in 1 .. arrived : written[k].name = Last(a).ts
  /\ ~RolledOver => packets_dropped = 0
  /\ ~RolledOver => \A a \in 1 .. arrived : \/ ~first /\ ts_current = Last(a).ts
                                            \/ Named(written, Last(a).ts)

(* One more file at the end.                                               *)
LEMMA AppendFile ==
  ASSUME NEW s \in Seq(Files), NEW f \in Files
  PROVE  /\ Append(s, f) \in Seq(Files) /\ Len(s) \in Nat /\ f.name \in Nat
         /\ DOMAIN s = 1 .. Len(s) /\ DOMAIN Append(s, f) = 1 .. Len(s) + 1
         /\ Len(Append(s, f)) = Len(s) + 1 /\ Append(s, f)[Len(s) + 1] = f
         /\ \A k \in DOMAIN s : Append(s, f)[k] = s[k] /\ s[k].name \in Nat
         /\ Growing(s) /\ Below(s, f.name) => Growing(Append(s, f))
         /\ \A t : Named(Append(s, f), t) <=> Named(s, t) \/ t = f.name
         /\ \A t \in Nat : Below(Append(s, f), t) <=> Below(s, t) /\ f.name < t
<1> DEFINE u == Append(s, f)
<1>1. \A g \in Files : g.name \in Nat
  BY DEF Files
<1>2. /\ u \in Seq(Files) /\ Len(s) \in Nat /\ DOMAIN s = 1 .. Len(s)
      /\ DOMAIN u = 1 .. Len(s) + 1 /\ Len(u) = Len(s) + 1 /\ u[Len(s) + 1] = f
      /\ \A k \in DOMAIN s : u[k] = s[k] /\ s[k] \in Files
  OBVIOUS
<1> HIDE DEF u
<1>3. ASSUME Growing(s), Below(s, f.name), NEW k \in 1 .. Len(u) - 1
      PROVE  u[k].name < u[k + 1].name
  <2>1. CASE k = Len(s)
    BY <1>2, <1>3, <2>1 DEF Below
  <2>2. CASE k < Len(s)
    BY <1>2, <1>3, <2>2 DEF Growing
  <2>3. k \in 1 .. Len(s)
    BY <1>2
  <2>4. k = Len(s) \/ k < Len(s)
    <3>1. Len(s) \in Nat
      BY <1>2
    <3> HIDE <1>2
    <3> QED
      BY <2>3, <3>1
  <2> QED
    BY <2>1, <2>2, <2>4
<1>4. \A k \in DOMAIN u : k \in DOMAIN s \/ k = Len(s) + 1
  BY <1>2
<1>5. \A t : Named(u, t) <=> Named(s, t) \/ t = f.name
  BY <1>2, <1>4 DEF Named
<1>6. \A t \in Nat : Below(u, t) <=> Below(s, t) /\ f.name < t
  BY <1>2, <1>4 DEF Below
<1> QED
  BY <1>1, <1>2, <1>3, <1>5, <1>6 DEF Growing, u

(* A packet in order never takes the timestamp back: the frame it belongs  *)
(* to is the one in the buffer or a later one, without a file so far.      *)
LEMMA TimeGoesOn ==
  ASSUME TimestampsGrow, OrderedInvs, FilesInv, Handling
  PROVE  /\ pkt.ts = stream[Next1].ts /\ pkt.ts \in Nat /\ ts_current \in Nat
         /\ ts_current <= pkt.ts
         /\ ~startup /\ first => ts_current < pkt.ts
         /\ ~startup => Last(arrived).ts <= pkt.ts
<1>1. /\ Next1 \in DOMAIN stream /\ pkt.ts = stream[Next1].ts /\ StreamInv
      /\ ts_current \in 0 .. TS_MOD - 1
  BY DEF Handling, Datagram, OrderedInvs, StreamInvs, NetworkInv, ReceiverInv,
         ReceiverTypeOK
<1>2. pkt.ts \in Nat /\ ts_current \in Nat
  BY <1>1, StreamFields, NetworkLimits
<1>3. CASE startup
  BY <1>1, <1>2, <1>3 DEF FilesInv
<1>4. CASE ~startup
  <2>1. arrivals[arrived] \in DOMAIN stream /\ arrivals[arrived] < Next1
    BY <1>4, NextComesAfter
  <2>2. /\ Last(arrived).ts \in Nat
        /\ \/ Last(arrived).ts < stream[Next1].ts
           \/ Last(arrived).ts = stream[Next1].ts /\ Last(arrived).m = 0
    BY <1>1, <2>1, TimesGrow DEF Last
  <2>3. ts_current <= Last(arrived).ts
        /\ (first => Last(arrived).m = 1 /\ ts_current = Last(arrived).ts)
    BY <1>4 DEF FilesInv
  <2> QED
    BY <1>1, <1>2, <2>2, <2>3
<1> QED
  BY <1>3, <1>4

(* An accepted packet: its timestamp is the current one afterwards, and    *)
(* all files written before it, that of the frame it closes included, have *)
(* smaller names.                                                          *)
LEMMA AcceptInOrder ==
  ASSUME TimestampsGrow, OrderedInvs, FilesInv, Handling, Accept
  PROVE  /\ ts_current' = pkt.ts /\ ts_aux' = pkt.ts
         /\ Closed(pkt) \in Seq(Files) /\ Growing(Closed(pkt))
         /\ Below(Closed(pkt), pkt.ts)
         /\ \A t : Named(Closed(pkt), t) <=>
                    Named(written, t) \/ (NextFrame(pkt) /\ t = ts_current)
         /\ File(pkt.ts, pkt, bf_w') \in Files
         /\ File(pkt.ts, pkt, bf_w').name = pkt.ts
<1> DEFINE t == pkt.ts
           c == Closed(pkt)
<1>1. /\ t \in Nat /\ ts_current \in Nat /\ ts_current <= t
      /\ ~startup /\ first => ts_current < t
      /\ ts_aux = ts_current /\ first \in BOOLEAN
  BY TimeGoesOn DEF FilesInv, OrderedInvs, StreamInvs, ReceiverInv, ReceiverTypeOK
<1>2. ~PriorFrame(pkt) /\ pc = "got"
  BY DEF Accept
<1>3. ts_current' = t /\ ts_aux' = t
  <2>1. TsStep(t) = t - ts_current
    BY <1>1 DEF TsStep
  <2>2. CASE first \/ NextFrame(pkt)
    BY <1>1, <2>1, <2>2 DEF Accept
  <2>3. CASE ~(first \/ NextFrame(pkt))
    <3>1. t = ts_current
      BY <1>2, <2>3 DEF NextFrame, OtherFrame
    <3> QED
      BY <1>1, <2>3, <3>1 DEF Accept
  <2> QED
    BY <2>2, <2>3
<1>4. written \in Seq(Files) /\ pkt \in Packets /\ bf_w \in [Rows -> Content]
      /\ \A k \in DOMAIN written :
           written[k].name \in Nat /\ written[k].name <= ts_current
  <2>1. written \in Seq(Files) /\ pkt \in Packets /\ bf_w \in [Rows -> Content]
        /\ \A k \in DOMAIN written : written[k].name <= ts_current
    BY <1>1 DEF OrderedInvs, StreamInvs, ReceiverInv, ReceiverTypeOK, Handling
  <2>2. \A k \in DOMAIN written : written[k] \in Files
    BY <2>1
  <2> QED
    BY <2>1, <2>2 DEF Files
<1>5. File(t, pkt, bf_w') \in Files /\ File(t, pkt, bf_w').name = t
  <2>1. bf_w' \in [Rows -> Content]
    BY <1>4, CopyType DEF Accept, OrderedInvs, StreamInvs, ReceiverInv
  <2> QED
    BY <1>1, <1>4, <2>1, FileType
<1>6. CASE NextFrame(pkt)
  <2> DEFINE f == File(ts_aux, pkt, bf_w)
  <2>1. f \in Files /\ f.name = ts_current
    BY <1>1, <1>4, FileType
  <2>2. c = Append(written, f)
    BY <1>6 DEF Closed
  <2>3. ~first /\ ts_current < t
    BY <1>1, <1>6 DEF NextFrame, OtherFrame
  <2>4. Growing(written) /\ Below(written, ts_current)
    BY <1>2, <2>3 DEF FilesInv
  <2>5. Below(written, t)
    BY <1>1, <1>4, <2>3, <2>4 DEF Below
  <2> HIDE DEF f, c
  <2>6. c \in Seq(Files) /\ Growing(c) /\ Below(c, t)
        /\ \A u : Named(c, u) <=> Named(written, u) \/ u = ts_current
    BY <1>1, <1>4, <2>1, <2>2, <2>3, <2>4, <2>5, AppendFile
  <2> QED
    BY <1>3, <1>5, <1>6, <2>6 DEF c
<1>7. CASE ~NextFrame(pkt)
  <2>1. c = written
    BY <1>7 DEF Closed
  <2>2. Growing(written)
    BY DEF FilesInv
  <2>3. Below(written, t)
    <3>1. CASE startup
      BY <3>1 DEF FilesInv, Below
    <3>2. CASE ~startup /\ first
      BY <1>1, <1>4, <3>2 DEF Below
    <3>3. CASE ~first
      <4>1. t = ts_current
        BY <1>2, <1>7, <3>3 DEF NextFrame, OtherFrame
      <4> QED
        BY <1>2, <3>3, <4>1 DEF FilesInv
    <3> QED
      BY <1>1, <3>1, <3>2, <3>3
  <2> QED
    BY <1>3, <1>4, <1>5, <1>7, <2>1, <2>2, <2>3
<1> QED
  BY <1>6, <1>7

(* Every step keeps files and frames in correspondence.                    *)
LEMMA FilesKept ==
  ASSUME TimestampsGrow, OrderedInvs, FilesInv, [Next]_vars
  PROVE  FilesInv'
<1> DEFINE after(a) == stream'[arrivals'[a]]
           Goal == /\ ts_aux' = ts_current'
                   /\ startup' => ts_current' = 0 /\ written' = <<>>
                   /\ ~startup' => ts_current' <= after(arrived').ts
                   /\ ~startup' /\ first' => /\ after(arrived').m = 1
                                             /\ ts_current' = after(arrived').ts
                   /\ ~first' => \E a \in 1 .. arrived' : ts_current' = after(a).ts
                   /\ ~first' /\ pc' # "out" => Below(written', ts_current')
                   /\ Growing(written')
                   /\ \A k \in DOMAIN written' :
                        \E a \in 1 .. arrived' : written'[k].name = after(a).ts
                   /\ ~RolledOver' => packets_dropped' = 0
                   /\ ~RolledOver' => \A a \in 1 .. arrived' :
                        \/ ~first' /\ ts_current' = after(a).ts
                        \/ Named(written', after(a).ts)
<1> SUFFICES Goal
  BY DEF FilesInv, Last, Below, Growing, Named
<1>1. /\ arrived \in Nat /\ NetworkStep /\ (startup <=> arrived = 0)
      /\ written \in Seq(Files) /\ first \in BOOLEAN /\ ts_current \in Nat
      /\ DOMAIN arrivals = 1 .. Len(arrivals) /\ arrived <= Len(arrivals)
      /\ Len(arrivals) \in Nat
      /\ packets_dropped \in Nat
  <2>1. ts_current \in 0 .. TS_MOD - 1
    BY DEF OrderedInvs, StreamInvs, ReceiverInv, ReceiverTypeOK
  <2> QED
    BY <2>1, StreamSteps, NetworkLimits
       DEF OrderedInvs, StreamInvs, HandlingInv, ReceiverInv, ReceiverTypeOK,
           AccountTypeOK, NetworkInv
<1>2. \A a \in 1 .. arrived : after(a) = Last(a)
  <2>1. \A a \in 1 .. arrived : a \in DOMAIN arrivals
    BY <1>1
  <2>2. \A a \in DOMAIN arrivals :
          arrivals'[a] = arrivals[a] /\ stream'[arrivals[a]] = stream[arrivals[a]]
    BY <1>1, PastKept DEF OrderedInvs, StreamInvs
  <2> QED
    BY <2>1, <2>2 DEF Last
<1> HIDE DEF after
<1>3. ~RolledOver' => ~RolledOver
  BY <1>1, RolledOverStays, NetworkSends DEF OrderedInvs, StreamInvs, NetworkInv
<1>4. CASE Idle
  <2>1. UNCHANGED <<startup, arrived, first, ts_current, ts_aux, written, packets_dropped>>
        /\ (pc = "out" => pc' = "out")
    BY <1>4 DEF Idle, accountVars, frameVars
  <2>2. ~startup => after(arrived) = Last(arrived)
    BY <1>1, <1>2
  <2> QED
    BY <1>2, <1>3, <2>1, <2>2 DEF FilesInv
<1>5. CASE DispatchAndStop /\ UNCHANGED networkVars
  <2> DEFINE f == File(ts_aux, pkt, bf_w)
  <2>1. /\ ~first /\ pc # "out" /\ pc' = "out" /\ written' = Append(written, f)
        /\ UNCHANGED <<startup, arrived, first, ts_current, ts_aux, packets_dropped>>
        /\ UNCHANGED <<arrivals, stream, sizes>>
    BY <1>5 DEF DispatchAndStop, InFrame, accountVars, networkVars
  <2>2. f \in Files /\ f.name = ts_current
    <3>1. pkt \in Packets /\ bf_w \in [Rows -> Content] /\ ts_aux = ts_current
      BY <2>1 DEF FilesInv, OrderedInvs, StreamInvs, ReceiverInv, ReceiverTypeOK, PacketHeld
    <3> QED
      BY <1>1, <3>1, FileType
  <2> HIDE DEF f
  <2>3. Growing(written) /\ Below(written, ts_current)
    BY <2>1 DEF FilesInv
  <2>4. Growing(written') /\ \A t : Named(written', t) <=> Named(written, t) \/ t = ts_current
    BY <1>1, <2>1, <2>2, <2>3, AppendFile
  <2>5. \A k \in DOMAIN written' : \E a \in 1 .. arrived : written'[k].name = Last(a).ts
    <3>1. \A k \in DOMAIN written' : Named(written', written'[k].name)
      BY DEF Named
    <3>2. \A t : Named(written, t) => \E a \in 1 .. arrived : t = Last(a).ts
      BY DEF Named, FilesInv
    <3>3. \E a \in 1 .. arrived : ts_current = Last(a).ts
      BY <2>1 DEF FilesInv
    <3> QED
      BY <2>4, <3>1, <3>2, <3>3
  <2>6. after(arrived) = Last(arrived) /\ RolledOver' = RolledOver
        /\ ~startup
    BY <2>1 DEF after, Last, RolledOver, OrderedInvs, StreamInvs, HandlingInv
  <2> QED
    BY <1>2, <2>1, <2>4, <2>5, <2>6 DEF FilesInv
<1>6. CASE Handling /\ DropLate
  <2>1. /\ UNCHANGED <<ts_current, ts_aux, written, first>> /\ UNCHANGED networkVars
        /\ ~first /\ startup' = FALSE /\ arrived' = arrived + 1 /\ pc # "out"
        /\ pkt.seq < current_seqnum
    BY <1>6 DEF Handling, DropLate, PriorFrame, OtherFrame, frameVars
  <2>2. after(arrived') = stream[Next1] /\ ~startup
    BY <1>1, <2>1 DEF after, networkVars, Next1, OrderedInvs, StreamInvs, HandlingInv
  <2>3. ts_current <= stream[Next1].ts
    BY <1>6, TimeGoesOn
  <2>4. RolledOver' = RolledOver /\ RolledOver
    <3>1. current_seqnum = stream[arrivals[arrived]].seq /\ pkt.seq = stream[Next1].seq
      BY <1>6, <2>2 DEF OrderedInvs, StreamInvs, HandlingInv, Handling, Datagram
    <3>2. /\ arrivals[arrived] \in DOMAIN stream /\ Next1 \in DOMAIN stream
          /\ arrivals[arrived] < Next1 /\ arrivals[arrived] \in Nat /\ Next1 \in Nat
      BY <1>6, <2>2, NextComesAfter
    <3>3. ASSUME ~RolledOver PROVE FALSE
      <4>1. stream[Next1].seq = stream[1].seq + Next1 - 1 /\ stream[1].seq \in Nat
        BY <3>2, <3>3, SeqUnrolled DEF OrderedInvs, StreamInvs, NetworkInv
      <4>2. stream[arrivals[arrived]].seq = stream[1].seq + arrivals[arrived] - 1
        BY <3>2, <3>3, SeqUnrolled DEF OrderedInvs, StreamInvs, NetworkInv
      <4> QED
        BY <2>1, <3>1, <3>2, <4>1, <4>2
    <3> QED
      BY <2>1, <3>3 DEF networkVars, RolledOver
  <2>5. 1 .. arrived \subseteq 1 .. arrived'
    BY <1>1, <2>1
  <2>6. /\ ~first' => \E a \in 1 .. arrived' : ts_current' = after(a).ts
        /\ \A k \in DOMAIN written' : \E a \in 1 .. arrived' : written'[k].name = after(a).ts
    BY <1>2, <2>1, <2>5 DEF FilesInv
  <2> QED
    BY <2>1, <2>2, <2>3, <2>4, <2>6 DEF FilesInv
<1>7. CASE Handling /\ Accept
  <2> DEFINE t == pkt.ts
             c == Closed(pkt)
             f == File(t, pkt, bf_w')
  <2>1. /\ UNCHANGED networkVars /\ UNCHANGED packets_dropped
        /\ startup' = FALSE /\ arrived' = arrived + 1 /\ pc = "got"
        /\ first' = (pkt.m = 1) /\ pkt.m = stream[Next1].m
    BY <1>7 DEF Handling, Accept, Datagram
  <2>2. after(arrived') = stream[Next1] /\ t = stream[Next1].ts /\ t \in Nat
    BY <1>7, <2>1, TimeGoesOn DEF after, networkVars, Next1
  <2>3. /\ ts_current' = t /\ ts_aux' = t
        /\ c \in Seq(Files) /\ Growing(c) /\ Below(c, t)
        /\ \A u : Named(c, u) <=>
                   Named(written, u) \/ (NextFrame(pkt) /\ u = ts_current)
        /\ f \in Files /\ f.name = t
    BY <1>7, AcceptInOrder
  <2>4. written' = IF pkt.m = 1 THEN Append(c, f) ELSE c
    BY <1>7, <2>3 DEF Accept
  <2>5. 1 .. arrived \subseteq 1 .. arrived' /\ arrived' \in 1 .. arrived'
        /\ \A a \in 1 .. arrived' : a \in 1 .. arrived \/ a = arrived'
    BY <1>1, <2>1
  <2>6. NextFrame(pkt) => ~first
    BY DEF NextFrame, OtherFrame
  <2>7. ~first /\ ~NextFrame(pkt) => t = ts_current
    BY <1>7 DEF Accept, NextFrame, OtherFrame
  <2> HIDE DEF t, c, f
  <2>8. Growing(written') /\ (~first' => Below(written', t))
        /\ \A u : Named(written', u) <=> Named(c, u) \/ (first' /\ u = t)
    <3>1. CASE first'
      <4>1. written' = Append(c, f)
        BY <2>1, <2>4, <3>1
      <4> QED
        BY <2>3, <3>1, <4>1, AppendFile
    <3>2. CASE ~first'
      <4>1. written' = c
        BY <2>1, <2>4, <3>2
      <4> QED
        BY <2>3, <3>2, <4>1
    <3> QED
      BY <2>1, <3>1, <3>2
  <2>9. \A k \in DOMAIN written' : \E a \in 1 .. arrived' : written'[k].name = after(a).ts
    <3>1. \A k \in DOMAIN written' : Named(written', written'[k].name)
      BY DEF Named
    <3>2. \A u : Named(written, u) => \E a \in 1 .. arrived' : u = after(a).ts
      BY <1>2, <2>5 DEF Named, FilesInv
    <3>3. ~first => \E a \in 1 .. arrived' : ts_current = after(a).ts
      BY <1>2, <2>5 DEF FilesInv
    <3>4. \E a \in 1 .. arrived' : t = after(a).ts
      BY <2>2, <2>5
    <3> QED
      BY <2>3, <2>6, <2>8, <3>1, <3>2, <3>3, <3>4
  <2>10. ~RolledOver => \A a \in 1 .. arrived' : \/ ~first' /\ t = after(a).ts
                                                 \/ Named(written', after(a).ts)
    <3> SUFFICES ASSUME ~RolledOver, NEW a \in 1 .. arrived'
                 PROVE  \/ ~first' /\ t = after(a).ts
                        \/ Named(written', after(a).ts)
      OBVIOUS
    <3>1. CASE a = arrived'
      <4>1. after(a).ts = t
        BY <2>2, <3>1
      <4>2. first' \in BOOLEAN
        BY <2>1
      <4> QED
        BY <2>8, <4>1, <4>2
    <3>2. CASE a \in 1 .. arrived
      <4>1. after(a) = Last(a)
        BY <1>2, <3>2
      <4>2. (~first /\ ts_current = Last(a).ts) \/ Named(written, Last(a).ts)
        BY <3>2 DEF FilesInv
      <4>3. CASE Named(written, Last(a).ts) \/ NextFrame(pkt)
        BY <2>3, <2>8, <4>1, <4>2, <4>3
      <4>4. CASE ~first /\ ts_current = Last(a).ts /\ ~NextFrame(pkt)
        BY <2>1, <2>7, <2>8, <4>1, <4>4
      <4> QED
        BY <4>2, <4>3, <4>4
    <3> QED
      BY <2>5, <3>1, <3>2
  <2>11. RolledOver' = RolledOver
    BY <2>1 DEF networkVars, RolledOver
  <2>12. \E a \in 1 .. arrived' : ts_current' = after(a).ts
    BY <2>2, <2>3, <2>5
  <2>13. after(arrived').ts = t /\ after(arrived').m = pkt.m
    BY <2>1, <2>2
  <2>14. ts_current' <= after(arrived').ts /\ (~RolledOver' => packets_dropped' = 0)
    BY <2>1, <2>2, <2>3, <2>11, <2>13 DEF FilesInv
  <2>15. first' => after(arrived').m = 1 /\ ts_current' = after(arrived').ts
    BY <2>1, <2>3, <2>13
  <2>16. ~RolledOver' => \A a \in 1 .. arrived' :
           \/ ~first' /\ ts_current' = after(a).ts
           \/ Named(written', after(a).ts)
    BY <2>3, <2>10, <2>11
  <2>17. /\ ts_aux' = ts_current' /\ ~startup' /\ Growing(written')
         /\ ~first' => Below(written', ts_current')
    BY <2>1, <2>3, <2>8
  <2> QED
    BY <2>9, <2>12, <2>14, <2>15, <2>16, <2>17
<1> QED
  BY <1>4, <1>5, <1>6, <1>7, StepKinds DEF OrderedInvs

(* A handled packet and the frame it is of.                                *)
LEMMA HandledFacts ==
  ASSUME StreamInvs
  PROVE  /\ \A a \in 1 .. arrived :
              /\ arrivals[a] \in DOMAIN stream /\ arrivals[a] \in Handled
              /\ \E v \in Frames : TsOf(v) = Last(a).ts /\ arrivals[a] \in PacketsOf(v)
         /\ \A v \in Frames : \A k \in PacketsOf(v) : TsOf(v) = stream[k].ts
         /\ \A k \in Handled : \E a \in 1 .. arrived : k = arrivals[a]
<1>1. \A a \in 1 .. arrived : arrivals[a] \in DOMAIN stream
  BY Progress
<1>2. ASSUME NEW a \in 1 .. arrived
      PROVE  \E v \in Frames : TsOf(v) = Last(a).ts /\ arrivals[a] \in PacketsOf(v)
  <2> DEFINE k == arrivals[a]
             v == <<stream[k].file, stream[k].frame>>
  <2>1. k \in DOMAIN stream
    BY <1>1
  <2>2. v \in Frames /\ TsOf(v) = stream[k].ts
    BY <2>1, FrameOfPacket DEF StreamInvs, NetworkInv
  <2>3. k \in PacketsOf(v)
    BY <2>1 DEF PacketsOf
  <2> QED
    BY <2>2, <2>3 DEF Last
<1>3. ASSUME NEW v \in Frames, NEW k \in PacketsOf(v)
      PROVE  TsOf(v) = stream[k].ts
  BY FrameOfPacket DEF PacketsOf, StreamInvs, NetworkInv
<1> QED
  BY <1>1, <1>2, <1>3 DEF Handled

(* That is what FilesAreFramesSeen asks for.                               *)
LEMMA FilesInvMeans ==
  ASSUME OrderedInvs, FilesInv PROVE FilesAreFramesSeen
<1> USE DEF OrderedInvs
<1>1. OneFilePerFrame
  <2>1. ASSUME NEW f \in DOMAIN written
        PROVE  \E v \in Frames : /\ TsOf(v) = written[f].name
                                 /\ PacketsOf(v) \cap Handled # {}
    <3>1. PICK a \in 1 .. arrived : written[f].name = Last(a).ts
      BY <2>1 DEF FilesInv
    <3> QED
      BY <3>1, HandledFacts
  <2> QED
    BY <2>1 DEF OneFilePerFrame, FilesInv, Growing
<1>2. EveryFrameSeenHasFile
  <2> SUFFICES ASSUME ~RolledOver, NEW v \in Frames, PacketsOf(v) \cap Handled # {},
                      first \/ TsOf(v) # ts_current
               PROVE  \E f \in DOMAIN written : written[f].name = TsOf(v)
    BY DEF EveryFrameSeenHasFile
  <2>1. PICK a \in 1 .. arrived : arrivals[a] \in PacketsOf(v)
    BY HandledFacts
  <2>2. TsOf(v) = Last(a).ts
    BY <2>1, HandledFacts DEF Last
  <2> QED
    BY <2>2 DEF FilesInv, Named
<1> QED
  BY <1>1, <1>2 DEF FilesAreFramesSeen, InOrderNothingDropped, FilesInv

(* FilesAreFramesSeen: on a network that keeps the order, files and frames *)
(* correspond.  Every file is named after a frame of which a packet came,  *)
(* none is written twice or out of turn; and as long as the sequence       *)
(* number has not gone round nothing is thrown away as late, and every     *)
(* frame seen but the one in the buffer has its file.                      *)
THEOREM FilesAreAlwaysFramesSeen ==
  ASSUME InOrder, TimestampsGrow PROVE Spec => []FilesAreFramesSeen
<1>1. Init => OrderedInvs /\ FilesInv
  <2>1. Init => OrderedInvs
    BY StreamInvsStart, OrderStart DEF Init, OrderedInvs
  <2>2. Init => FilesInv
    BY DEF Init, ReceiverInit, AccountInit, FilesInv, Growing, Below
  <2> QED
    BY <2>1, <2>2
<1>2. OrderedInvs /\ FilesInv /\ [Next]_vars => OrderedInvs' /\ FilesInv'
  BY OrderedInvsKept, FilesKept
<1>3. OrderedInvs /\ FilesInv => FilesAreFramesSeen
  BY FilesInvMeans
<1> QED
  BY <1>1, <1>2, <1>3, PTL DEF Spec

(* Rows of frames no later than a time.                                    *)
NoLater(rows, t) == \A k \in DOMAIN rows : \/ rows[k] = Garbage
                                           \/ /\ rows[k].img \in Frames
                                              /\ TsOf(rows[k].img) <= t
PastInv == /\ NoLater(bf_w, ts_current)
           /\ \A f \in DOMAIN written : NoLater(written[f].rows, written[f].name)

(* Writing a file out of such rows, and copying blocks of the current time *)
(* to them, makes such rows.                                               *)
LEMMA NoLaterFile ==
  ASSUME NEW p \in Packets, NEW rows \in [Rows -> Content], NEW t \in Nat, NoLater(rows, t)
  PROVE  NoLater(File(t, p, rows).rows, t)
<1>1. p.im \in 1 .. IMAGE_BSIZE_MAX /\ IMAGE_BSIZE_MAX \in Nat
  BY PacketFields, NetworkLimits
<1>2. 0 .. p.im - 1 \subseteq Rows
  BY <1>1 DEF Rows
<1> QED
  BY <1>2 DEF NoLater, File

(* The timestamp of a frame is a number.                                   *)
LEMMA TsOfFrame ==
  ASSUME StreamInv, NEW v \in Frames PROVE TsOf(v) \in Nat
<1>1. PICK f \in DOMAIN sizes : \E g \in DOMAIN sizes[f] : v = <<f, g>>
  BY DEF Frames
<1>2. PICK g \in DOMAIN sizes[f] : v = <<f, g>>
  BY <1>1
<1>3. f \in Nat \ {0} /\ g \in Nat \ {0}
  <2>1. /\ f \in 1 .. Len(sizes) /\ Len(sizes) \in Nat
        /\ g \in 1 .. Len(sizes[f]) /\ Len(sizes[f]) \in Nat
    BY SizesFacts DEF StreamInv
  <2> QED
    BY <2>1
<1>4. TsOf(v) \in 0 .. TS_MOD - 1
  BY <1>2, <1>3, TsOfType DEF TsOf
<1> QED
  BY <1>4, NetworkLimits

(* No step brings a row of a later frame in.                               *)
LEMMA RowsKept ==
  ASSUME TimestampsGrow, OrderedInvs, FilesInv, PastInv, [Next]_vars
  PROVE  PastInv'
<1>1. /\ written \in Seq(Files) /\ bf_w \in [Rows -> Content] /\ NetworkStep
      /\ StreamInv /\ sizes' = sizes /\ ts_aux = ts_current /\ ts_current \in Nat
      /\ IMAGE_BSIZE_MAX \in Nat
  <2>1. ts_current \in 0 .. TS_MOD - 1
    BY DEF OrderedInvs, StreamInvs, ReceiverInv, ReceiverTypeOK
  <2>2. StreamInv /\ NetworkStep
    BY StreamSteps DEF OrderedInvs, StreamInvs, NetworkInv
  <2> QED
    BY <2>1, <2>2, NetworkLimits, SentKept, NetworkSends
       DEF OrderedInvs, StreamInvs, ReceiverInv, ReceiverTypeOK, FilesInv
<1> DEFINE Ok(w) == \A f \in DOMAIN w : NoLater(w[f].rows, w[f].name)
<1>2. /\ NoLater(bf_w, ts_current) /\ Ok(written)
      /\ NoLater(bf_w', ts_current') /\ Ok(written') => PastInv'
  BY <1>1 DEF PastInv, NoLater, Frames, TsOf
<1>3. \A s \in Seq(Files), f \in Files :
        Ok(s) /\ NoLater(f.rows, f.name) => Ok(Append(s, f))
  <2> TAKE s \in Seq(Files), f \in Files
  <2> HAVE Ok(s) /\ NoLater(f.rows, f.name)
  <2>1. \A k \in DOMAIN Append(s, f) : Append(s, f)[k] = f \/ (k \in DOMAIN s /\ Append(s, f)[k] = s[k])
    OBVIOUS
  <2> QED
    BY <2>1
<1>4. CASE Idle
  BY <1>2, <1>4 DEF Idle, frameVars
<1>5. CASE DispatchAndStop /\ UNCHANGED networkVars
  <2> DEFINE f == File(ts_aux, pkt, bf_w)
  <2>1. /\ written' = Append(written, f) /\ bf_w' = bf_w /\ ts_current' = ts_current
        /\ pkt \in Packets
    BY <1>5 DEF DispatchAndStop, InFrame, OrderedInvs, StreamInvs, ReceiverInv, PacketHeld
  <2>2. f \in Files /\ f.name = ts_current /\ NoLater(f.rows, f.name)
    BY <1>1, <1>2, <2>1, FileType, NoLaterFile
  <2> HIDE DEF f, Ok
  <2> QED
    BY <1>1, <1>2, <1>3, <2>1, <2>2
<1>6. CASE Handling /\ DropLate
  BY <1>2, <1>6 DEF DropLate, frameVars
<1>7. CASE Handling /\ Accept
  <2> DEFINE t == pkt.ts
             c == Closed(pkt)
             f == File(t, pkt, bf_w')
             g == File(ts_aux, pkt, bf_w)
  <2>1. /\ pkt \in Packets /\ bf_w' = CopyBlocks(pkt) /\ ts_current' = t
        /\ written' = (IF pkt.m = 1 THEN Append(c, f) ELSE c)
        /\ c \in Seq(Files) /\ f \in Files /\ f.name = t
        /\ t \in Nat /\ ts_current <= t
    BY <1>7, AcceptInOrder, TimeGoesOn DEF Accept, Handling
  <2>2. pkt.img \in Frames /\ TsOf(pkt.img) = t
    <3>1. Next1 \in DOMAIN stream /\ pkt = Datagram(Next1)
      BY <1>7 DEF Handling
    <3>2. /\ pkt.img = <<stream[Next1].file, stream[Next1].frame>>
          /\ pkt.ts = stream[Next1].ts
      BY <3>1 DEF Datagram
    <3> QED
      BY <1>1, <3>1, <3>2, FrameOfPacket
  <2>3. bf_w' \in [Rows -> Content]
    BY <2>1, CopyType DEF OrderedInvs, StreamInvs, ReceiverInv
  <2>4. NoLater(bf_w, t)
    <3>1. \A v \in Frames : TsOf(v) \in Nat
      BY <1>1, TsOfFrame
    <3> QED
      BY <1>1, <1>2, <2>1, <3>1 DEF NoLater
  <2>5. NoLater(bf_w', t)
    <3>1. \A k \in Rows : bf_w'[k] = [img |-> pkt.img, id |-> k] \/ bf_w'[k] = bf_w[k]
      BY <2>1 DEF CopyBlocks
    <3> HIDE DEF t
    <3> QED
      BY <1>1, <2>1, <2>2, <2>3, <2>4, <3>1 DEF NoLater
  <2>6. Ok(c)
    <3>1. g \in Files /\ g.name = ts_current /\ NoLater(g.rows, g.name)
      BY <1>1, <1>2, <2>1, FileType, NoLaterFile
    <3>2. c = Append(written, g) \/ c = written
      BY DEF Closed
    <3> HIDE DEF c, g, Ok
    <3> QED
      BY <1>1, <1>2, <1>3, <3>1, <3>2
  <2>7. NoLater(f.rows, f.name)
    BY <2>1, <2>3, <2>5, NoLaterFile
  <2> HIDE DEF f, c, Ok
  <2>8. Ok(written')
    BY <1>3, <2>1, <2>6, <2>7
  <2> QED
    BY <1>2, <2>1, <2>5, <2>8
<1> QED
  BY <1>4, <1>5, <1>6, <1>7, StepKinds DEF OrderedInvs

(* An earlier frame has a smaller timestamp.                               *)
LEMMA EarlierTs ==
  ASSUME TimestampsGrow, StreamInv, NEW u \in Frames, NEW v \in Frames,
         EarlierFrame(u, v)
  PROVE  TsOf(u) < TsOf(v)
<1>1. PICK f \in DOMAIN sizes : \E g \in DOMAIN sizes[f] : u = <<f, g>>
  BY DEF Frames
<1>2. PICK g \in DOMAIN sizes[f] : u = <<f, g>>
  BY <1>1
<1>3. PICK e \in DOMAIN sizes : \E h \in DOMAIN sizes[e] : v = <<e, h>>
  BY DEF Frames
<1>4. PICK h \in DOMAIN sizes[e] : v = <<e, h>>
  BY <1>3
<1>5. Before(f, g, e, h)
  BY <1>2, <1>4 DEF EarlierFrame, Before
<1> QED
  BY <1>2, <1>4, <1>5 DEF TimestampsGrow, StreamInv, TsOf

(* NoBlockFromTheFuture: on a network that keeps the order, the packet     *)
(* that closes a frame, being of the next one, leaves nothing of itself in *)
(* its file (LHE_receiver.c:410-441); nor does any other later packet.     *)
THEOREM NeverABlockFromTheFuture ==
  ASSUME InOrder, TimestampsGrow PROVE Spec => []NoBlockFromTheFuture
<1>1. Init => OrderedInvs /\ FilesInv /\ PastInv
  <2>1. Init => OrderedInvs
    BY StreamInvsStart, OrderStart DEF Init, OrderedInvs
  <2>2. Init => FilesInv /\ PastInv
    BY DEF Init, ReceiverInit, AccountInit, FilesInv, Growing, Below, PastInv, NoLater
  <2> QED
    BY <2>1, <2>2
<1>2. OrderedInvs /\ FilesInv /\ PastInv /\ [Next]_vars
      => OrderedInvs' /\ FilesInv' /\ PastInv'
  BY OrderedInvsKept, FilesKept, RowsKept
<1>3. OrderedInvs /\ FilesInv /\ PastInv => NoBlockFromTheFuture
  <2> SUFFICES ASSUME OrderedInvs, FilesInv, PastInv, NEW f \in DOMAIN written,
                      NEW k \in DOMAIN written[f].rows,
                      written[f].rows[k] # Garbage
               PROVE  ~EarlierFrame(FrameOf(written[f]), written[f].rows[k].img)
    BY DEF NoBlockFromTheFuture
  <2> DEFINE u == FrameOf(written[f])
             v == written[f].rows[k].img
  <2>1. v \in Frames /\ TsOf(v) <= written[f].name
    BY DEF PastInv, NoLater
  <2>2. \E w \in Frames : TsOf(w) = written[f].name
    BY FilesInvMeans DEF FilesAreFramesSeen, OneFilePerFrame
  <2>3. u \in Frames /\ TsOf(u) = written[f].name
    BY <2>2 DEF FrameOf
  <2>4. StreamInv
    BY DEF OrderedInvs, StreamInvs, NetworkInv
  <2> HIDE DEF u, v
  <2>5. TsOf(u) \in Nat /\ TsOf(v) \in Nat
    BY <2>1, <2>3, <2>4, TsOfFrame
  <2>6. EarlierFrame(u, v) => TsOf(u) < TsOf(v)
    BY <2>1, <2>3, <2>4, EarlierTs
  <2> QED
    BY <2>1, <2>3, <2>5, <2>6 DEF u, v
<1> QED
  BY <1>1, <1>2, <1>3, PTL DEF Spec

-----------------------------------------------------------------------------
(* Intact frames, when the order is kept                                   *)

FrameAt(k)  == <<stream[k].file, stream[k].frame>>
Begins(j, k) == j \in 1 .. k /\ OneFrame(stream[j], stream[k]) /\ stream[j].fb = 0
Came(j, k)  == j .. k \subseteq Handled
EarlierOnes(j) == {i \in Handled : i < j}
MarkerBefore(j) ==
  EarlierOnes(j) = {} \/ \E i \in EarlierOnes(j) : /\ \A l \in EarlierOnes(j) : l <= i
                                                   /\ stream[i].m = 1

(* Before the sequence number has gone round: the last packet decides      *)
(* whether a frame is open, and which; of a frame all of which came so     *)
(* far, after a marker, the buffer has every block; and once its own       *)
(* marker came, it is in its file.                                         *)
IsLast(k)   == k \in Handled /\ \A l \in Handled : l <= k
Unbroken(k) == \E j \in Nat : Begins(j, k) /\ Came(j, k) /\ MarkerBefore(j)
Block(k, i) == [img |-> FrameAt(k), id |-> i]
InBuffer(k) == \A i \in 0 .. stream[k].fb + stream[k].n - 1 : bf_w[i] = Block(k, i)
Shown(k)    == \E f \in DOMAIN written :
                 /\ written[f].name = stream[k].ts
                 /\ written[f].rows = [i \in 0 .. Size(stream[k]) - 1 |-> Block(k, i)]

OpenFrame == \A k \in Handled : IsLast(k) => /\ first <=> stream[k].m = 1
                                             /\ ~first => ts_current = stream[k].ts
BufferHasIt == \A k \in Handled : IsLast(k) /\ Unbroken(k) => InBuffer(k)
FileHasIt == \A k \in Handled : stream[k].m = 1 /\ Unbroken(k) => Shown(k)
WholeInv == ~RolledOver => OpenFrame /\ BufferHasIt /\ FileHasIt

(* What lies between two packets of a frame is of that frame.              *)
LEMMA OneFrameBetween ==
  ASSUME StreamInv, NEW i \in DOMAIN stream, NEW j \in DOMAIN stream,
         NEW k \in DOMAIN stream, i <= j, j <= k, OneFrame(stream[i], stream[k])
  PROVE  OneFrame(stream[i], stream[j]) /\ OneFrame(stream[j], stream[k])
<1>1. /\ stream[i].file \in Nat /\ stream[i].frame \in Nat
      /\ stream[j].file \in Nat /\ stream[j].frame \in Nat
      /\ stream[k].file \in Nat /\ stream[k].frame \in Nat
      /\ i \in Nat /\ j \in Nat /\ k \in Nat
  BY StreamFields
<1>2. i = j \/ Precedes(stream[i], stream[j])
  BY <1>1 DEF StreamInv
<1>3. j = k \/ Precedes(stream[j], stream[k])
  BY <1>1 DEF StreamInv
<1> QED
  BY <1>1, <1>2, <1>3 DEF Precedes, LaterFrame, OneFrame

(* A frame has one first packet.                                           *)
LEMMA OneStart ==
  ASSUME StreamInv, NEW j \in DOMAIN stream, NEW k \in DOMAIN stream,
         OneFrame(stream[j], stream[k]), stream[j].fb = 0, stream[k].fb = 0
  PROVE  j = k
<1>1. /\ stream[j].file \in Nat /\ stream[j].frame \in Nat /\ stream[j].n \in Nat \ {0}
      /\ stream[k].file \in Nat /\ stream[k].frame \in Nat /\ stream[k].n \in Nat \ {0}
      /\ j \in Nat /\ k \in Nat
  BY StreamFields
<1>2. j < k => Precedes(stream[j], stream[k])
  BY DEF StreamInv
<1>3. k < j => Precedes(stream[k], stream[j])
  BY DEF StreamInv
<1> QED
  BY <1>1, <1>2, <1>3 DEF Precedes, LaterFrame, OneFrame

(* The packet before one in the middle of a frame.                         *)
LEMMA JustBefore ==
  ASSUME StreamInv, NEW k \in DOMAIN stream, NEW j \in Nat, Begins(j, k), j < k
  PROVE  LET p == stream[k - 1] IN
           /\ k - 1 \in DOMAIN stream /\ Begins(j, k - 1)
           /\ OneFrame(p, stream[k]) /\ p.m = 0 /\ stream[k].fb = p.fb + p.n
           /\ p.ts = stream[k].ts
<1>1. /\ k \in Nat /\ k <= Len(stream) /\ Len(stream) \in Nat
      /\ DOMAIN stream = 1 .. Len(stream)
  BY StreamFields DEF StreamInv
<1>2. j \in DOMAIN stream /\ k - 1 \in DOMAIN stream /\ j <= k - 1 /\ j \in 1 .. k - 1
  BY <1>1 DEF Begins
<1>3. Continues(stream[k - 1], stream[k])
  <2>1. k - 1 \in 1 .. Len(stream) - 1 /\ (k - 1) + 1 = k
    BY <1>1, <1>2
  <2>2. Continues(stream[k - 1], stream[(k - 1) + 1])
    BY <2>1 DEF StreamInv
  <2> QED
    BY <2>1, <2>2
<1>4. OneFrame(stream[j], stream[k - 1]) /\ OneFrame(stream[k - 1], stream[k])
  BY <1>1, <1>2, OneFrameBetween DEF Begins
<1>5. /\ stream[k].file \in Nat /\ stream[k].frame \in Nat
      /\ stream[k - 1].file \in Nat /\ stream[k - 1].frame \in Nat
  BY <1>2, StreamFields
<1>6. stream[k - 1].m = 0 /\ stream[k].fb = stream[k - 1].fb + stream[k - 1].n
  BY <1>3, <1>4, <1>5 DEF Continues, OneFrame
<1>7. stream[k - 1].ts = stream[k].ts
  BY <1>2, <1>4 DEF StreamInv, Fits, OneFrame
<1> QED
  BY <1>2, <1>4, <1>6, <1>7 DEF Begins

(* The packets handled, in their order.                                    *)
LEMMA HandledOrder ==
  ASSUME OrderedInvs
  PROVE  /\ \A k \in Handled : k \in DOMAIN stream /\ k \in Nat
         /\ startup => Handled = {}
         /\ ~startup => IsLast(arrivals[arrived])
<1>1. /\ arrived \in Nat /\ Len(arrivals) \in Nat /\ arrived <= Len(arrivals)
      /\ DOMAIN arrivals = 1 .. Len(arrivals) /\ (startup <=> arrived = 0)
      /\ \A a \in DOMAIN arrivals : arrivals[a] \in DOMAIN stream /\ arrivals[a] \in Nat
  BY DEF OrderedInvs, StreamInvs, HandlingInv, ReceiverInv, ReceiverTypeOK,
         AccountTypeOK, NetworkInv
<1>2. \A k \in Handled : k \in DOMAIN stream /\ k \in Nat
  BY <1>1 DEF Handled
<1>3. startup => Handled = {}
  BY <1>1 DEF Handled
<1>4. ASSUME ~startup PROVE IsLast(arrivals[arrived])
  <2>1. arrived \in 1 .. arrived /\ arrived \in DOMAIN arrivals
    BY <1>1, <1>4
  <2>2. ASSUME NEW a \in 1 .. arrived PROVE arrivals[a] <= arrivals[arrived]
    <3>1. a \in DOMAIN arrivals /\ (a = arrived \/ a < arrived)
      BY <1>1
    <3>2. a < arrived => arrivals[a] < arrivals[arrived]
      BY <2>1, <3>1, ArrivalsGrow DEF OrderedInvs, StreamInvs
    <3> QED
      BY <1>1, <2>1, <3>1, <3>2
  <2> QED
    BY <2>1, <2>2 DEF IsLast, Handled
<1> QED
  BY <1>2, <1>3, <1>4

(* The packet being handled is the last one from then on.                  *)
LEMMA HandledNext ==
  ASSUME OrderedInvs, Handling
  PROVE  /\ Handled' = Handled \cup {Next1}
         /\ \A k \in Handled : k < Next1
         /\ Next1 \in DOMAIN stream /\ Next1 \in Nat
<1>1. arrived \in Nat /\ arrivals' = arrivals /\ arrived' = arrived + 1
      /\ Next1 \in DOMAIN stream /\ Next1 \in Nat
  BY NextComesAfter DEF Handling, networkVars
<1>2. Handled' = Handled \cup {Next1}
  <2>1. 1 .. arrived' = (1 .. arrived) \cup {arrived + 1}
    BY <1>1
  <2> QED
    BY <1>1, <2>1 DEF Handled, Next1
<1>3. \A k \in Handled : k < Next1
  <2>1. CASE startup
    BY <2>1, HandledOrder
  <2>2. CASE ~startup
    BY <1>1, <2>2, HandledOrder, NextComesAfter DEF IsLast
  <2> QED
    BY <2>1, <2>2
<1> QED
  BY <1>1, <1>2, <1>3

(* What is known of packets sent does not change.                          *)
LEMMA PacketsStay ==
  ASSUME OrderedInvs, NetworkStep, NEW k \in DOMAIN stream
  PROVE  /\ stream'[k] = stream[k] /\ Size(stream[k])' = Size(stream[k])
         /\ FrameAt(k)' = FrameAt(k)
         /\ \A i : Block(k, i)' = Block(k, i)
         /\ \A j : Begins(j, k)' <=> Begins(j, k)
<1>1. /\ sizes' = sizes /\ \A i \in DOMAIN stream : stream'[i] = stream[i]
      /\ StreamInv
  BY SentKept, NetworkSends DEF OrderedInvs, StreamInvs, NetworkInv
<1>2. 1 .. k \subseteq DOMAIN stream
  <2>1. k \in Nat /\ k <= Len(stream) /\ Len(stream) \in Nat
        /\ DOMAIN stream = 1 .. Len(stream)
    BY <1>1, StreamFields DEF StreamInv
  <2> QED
    BY <2>1
<1> QED
  BY <1>1, <1>2 DEF Size, FrameAt, Block, Begins, OneFrame

(* What has been written stays written.                                    *)
LEMMA ShownStays ==
  ASSUME OrderedInvs, NetworkStep, NEW k \in DOMAIN stream, Shown(k),
         \A f \in DOMAIN written : f \in DOMAIN written' /\ written'[f] = written[f]
  PROVE  Shown(k)'
<1>1. stream'[k] = stream[k] /\ Size(stream[k])' = Size(stream[k])
      /\ \A i : Block(k, i)' = Block(k, i)
  BY PacketsStay
<1>2. PICK f \in DOMAIN written :
        /\ written[f].name = stream[k].ts
        /\ written[f].rows = [i \in 0 .. Size(stream[k]) - 1 |-> Block(k, i)]
  BY DEF Shown
<1>3. /\ f \in DOMAIN written' /\ written'[f].name = stream'[k].ts
      /\ written'[f].rows = [i \in 0 .. Size(stream[k])' - 1 |-> Block(k, i)']
  BY <1>1, <1>2
<1> QED
  BY <1>3 DEF Shown

(* Every step that changes the files adds to them.                         *)
LEMMA FilesStay ==
  ASSUME OrderedInvs, [Next]_vars
  PROVE  \A f \in DOMAIN written : f \in DOMAIN written' /\ written'[f] = written[f]
<1>1. written \in Seq(Files)
  BY DEF OrderedInvs, StreamInvs, ReceiverInv, ReceiverTypeOK
<1>2. \A s \in Seq(Files), g \in Files : \A f \in DOMAIN s :
        f \in DOMAIN Append(s, g) /\ Append(s, g)[f] = s[f]
  OBVIOUS
<1>3. ReceiverInv /\ [ReceiverNext]_receiverVars
  BY StreamSteps DEF OrderedInvs, StreamInvs
<1>4. bf_w \in [Rows -> Content] /\ ts_aux \in Nat
  BY <1>3 DEF ReceiverInv, ReceiverTypeOK
<1>5. CASE written' = written
  BY <1>5
<1>6. CASE pkt \in Packets /\ written' = Append(written, File(ts_aux, pkt, bf_w))
  BY <1>1, <1>2, <1>4, <1>6, FileType
<1>7. CASE /\ pkt \in Packets /\ bf_w' = CopyBlocks(pkt) /\ ts_aux' \in Nat
           /\ \/ written' = Closed(pkt)
              \/ written' = Append(Closed(pkt), File(ts_aux', pkt, bf_w'))
  <2> DEFINE c == Closed(pkt)
             g == File(ts_aux', pkt, bf_w')
  <2>1. c \in Seq(Files) /\ g \in Files
    BY <1>3, <1>7, ClosedType, CopyType, FileType DEF ReceiverInv
  <2>2. \A f \in DOMAIN written : f \in DOMAIN c /\ c[f] = written[f]
    BY <1>1, <1>2, <1>4, <1>7, FileType DEF Closed
  <2>3. written' = c \/ written' = Append(c, g)
    BY <1>7
  <2> HIDE DEF c, g
  <2>4. \A f \in DOMAIN c : f \in DOMAIN written' /\ written'[f] = c[f]
    BY <1>2, <2>1, <2>3
  <2> QED
    BY <2>2, <2>4
<1> QED
  BY <1>3, <1>5, <1>6, <1>7, FilesGrow

(* The packet being handled, of a frame all of which came so far after a   *)
(* marker: it closes no other frame, and the buffer has all blocks of its  *)
(* frame that came before it.                                              *)
LEMMA NoGap ==
  ASSUME OrderedInvs, OpenFrame, BufferHasIt, Handling, NEW j \in Nat,
         Begins(j, Next1), j .. Next1 \subseteq Handled \cup {Next1}, MarkerBefore(j)
  PROVE  /\ ~NextFrame(pkt)
         /\ \A i \in 0 .. stream[Next1].fb - 1 : bf_w[i] = Block(Next1, i)
<1> DEFINE k == Next1
           q == stream[k]
<1>1. /\ k \in DOMAIN stream /\ k \in Nat /\ \A l \in Handled : l < k
      /\ StreamInv /\ pkt.ts = q.ts
  BY HandledNext DEF Handling, Datagram, OrderedInvs, StreamInvs, NetworkInv
<1>2. j \in Nat /\ j \in 1 .. k
  BY DEF Begins
<1>3. CASE j = k
  <2>1. EarlierOnes(j) = Handled
    BY <1>1, <1>3 DEF EarlierOnes
  <2>2. first
    <3>1. CASE Handled = {}
      <4>1. startup
        BY <3>1, HandledOrder DEF IsLast
      <4> QED
        BY <4>1 DEF OrderedInvs, StreamInvs, HandlingInv
    <3>2. CASE Handled # {}
      <4>1. PICK i \in Handled : (\A l \in Handled : l <= i) /\ stream[i].m = 1
        BY <2>1, <3>2 DEF MarkerBefore
      <4> QED
        <5>1. IsLast(i)
          BY <4>1 DEF IsLast
        <5> QED
          BY <4>1, <5>1 DEF OpenFrame
    <3> QED
      BY <3>1, <3>2
  <2>3. q.fb = 0
    BY <1>3 DEF Begins
  <2> QED
    BY <2>2, <2>3 DEF NextFrame, OtherFrame
<1>4. CASE j < k
  <2> DEFINE l == k - 1
             p == stream[l]
  <2>1. /\ l \in DOMAIN stream /\ Begins(j, l) /\ OneFrame(p, q) /\ p.m = 0
        /\ q.fb = p.fb + p.n /\ p.ts = q.ts
    BY <1>1, <1>4, JustBefore
  <2>2. l \in Nat /\ l \in j .. k /\ l # k /\ j .. l \subseteq j .. k /\ k \notin j .. l
    BY <1>1, <1>2, <1>4
  <2>3. l \in Handled /\ j .. l \subseteq Handled
    BY <2>2
  <2>4. IsLast(l)
    <3>1. \A i \in Handled : i \in Nat /\ i < k
      BY <1>1, HandledOrder
    <3> QED
      BY <1>1, <2>3, <3>1 DEF IsLast
  <2>5. ~first /\ ts_current = p.ts
    <3>1. p.m # 1 /\ l \in Handled
      BY <2>1, <2>3
    <3> HIDE DEF l
    <3> QED
      BY <2>4, <3>1 DEF OpenFrame
  <2>6. InBuffer(l)
    <3>1. Unbroken(l)
      BY <2>1, <2>3 DEF Unbroken, Came
    <3> QED
      BY <2>4, <3>1 DEF BufferHasIt, IsLast
  <2>7. FrameAt(l) = FrameAt(k)
    BY <2>1 DEF FrameAt, OneFrame
  <2>8. ~NextFrame(pkt)
    BY <1>1, <2>1, <2>5 DEF NextFrame, OtherFrame
  <2>9. \A i \in 0 .. q.fb - 1 : bf_w[i] = Block(k, i)
    <3>1. \A i : Block(l, i) = Block(k, i)
      BY <2>7 DEF Block
    <3>2. \A i \in 0 .. p.fb + p.n - 1 : bf_w[i] = Block(l, i)
      BY <2>6 DEF InBuffer
    <3>3. q.fb - 1 = p.fb + p.n - 1
      <4>0. StreamInv
        BY DEF OrderedInvs, StreamInvs, NetworkInv
      <4>1. p.fb \in Nat /\ p.n \in Nat /\ q.fb = p.fb + p.n
        <5>1. l \in DOMAIN stream /\ q.fb = p.fb + p.n
          BY <2>1
        <5> HIDE DEF l, k
        <5> QED
          BY <4>0, <5>1, StreamFields
      <4> HIDE DEF l, k, p, q
      <4> QED
        BY <4>1
    <3> HIDE DEF l, k, p, q
    <3> QED
      BY <3>1, <3>2, <3>3, Zenon
  <2> QED
    BY <2>8, <2>9
<1> QED
  BY <1>1, <1>2, <1>3, <1>4

(* The blocks a packet brings, with those already there.                   *)
LEMMA BlocksCopied ==
  ASSUME OrderedInvs, Handling, Accept, ~NextFrame(pkt),
         \A i \in 0 .. stream[Next1].fb - 1 : bf_w[i] = Block(Next1, i)
  PROVE  \A i \in 0 .. stream[Next1].fb + stream[Next1].n - 1 :
           i \in Rows /\ bf_w'[i] = Block(Next1, i)
<1> DEFINE q == stream[Next1]
<1>1. /\ pkt \in Packets /\ pkt.fb = q.fb /\ pkt.n = q.n /\ pkt.img = FrameAt(Next1)
      /\ Next1 \in DOMAIN stream /\ StreamInv
  BY DEF Handling, Datagram, FrameAt, OrderedInvs, StreamInvs, NetworkInv
<1>2. q.fb \in Nat /\ q.n \in Nat /\ q.fb + q.n <= IMAGE_BSIZE_MAX
      /\ IMAGE_BSIZE_MAX \in Nat
  BY <1>1, StreamFields, PacketFields, NetworkLimits
<1>3. \A i \in Rows : bf_w'[i] = IF i \in q.fb .. q.fb + q.n - 1
                                 THEN Block(Next1, i) ELSE bf_w[i]
  BY <1>1 DEF Accept, CopyBlocks, BlocksInPaq, Block
<1> SUFFICES ASSUME NEW i \in 0 .. q.fb + q.n - 1
             PROVE  i \in Rows /\ bf_w'[i] = Block(Next1, i)
  OBVIOUS
<1> HIDE DEF q
<1>4. i \in Rows
  BY <1>2 DEF Rows
<1>5. i \in q.fb .. q.fb + q.n - 1 \/ i \in 0 .. q.fb - 1
  BY <1>2
<1> QED
  BY <1>3, <1>4, <1>5 DEF q

(* Every step keeps what is known of unbroken frames: a packet handled     *)
(* goes on where the buffer ends, and the marker writes the whole frame.   *)
LEMMA WholeKept ==
  ASSUME TimestampsGrow, OrderedInvs, FilesInv, WholeInv, [Next]_vars
  PROVE  WholeInv'
<1> SUFFICES ASSUME ~RolledOver' PROVE (OpenFrame /\ BufferHasIt /\ FileHasIt)'
  BY DEF WholeInv
<1>1. NetworkStep /\ StreamInv
  BY StreamSteps DEF OrderedInvs, StreamInvs, NetworkInv
<1>2. ~RolledOver /\ OpenFrame /\ BufferHasIt /\ FileHasIt
  BY <1>1, RolledOverStays, NetworkSends DEF WholeInv
<1>3. \A k \in Handled : k \in DOMAIN stream /\ k \in Nat
  BY HandledOrder
<1>4. \A k \in Handled : Shown(k) => Shown(k)'
  BY <1>1, <1>3, ShownStays, FilesStay
<1>5. \A k \in DOMAIN stream :
        /\ stream'[k] = stream[k] /\ FrameAt(k)' = FrameAt(k)
        /\ \A i : Block(k, i)' = Block(k, i)
        /\ \A j : Begins(j, k)' <=> Begins(j, k)
  BY <1>1, PacketsStay
<1>6. CASE ~Handling
  <2>1. /\ UNCHANGED <<arrived, first, ts_current, bf_w>>
    BY <1>6, StepKinds
       DEF OrderedInvs, DispatchAndStop, Idle, accountVars, frameVars
  <2>2. Handled' = Handled
    <3>1. \A a \in 1 .. arrived : a \in DOMAIN arrivals
      BY DEF OrderedInvs, StreamInvs, HandlingInv, NetworkInv, ReceiverInv,
             ReceiverTypeOK, AccountTypeOK
    <3>2. \A a \in 1 .. arrived : arrivals'[a] = arrivals[a]
      BY <1>1, <3>1, PastKept DEF OrderedInvs, StreamInvs
    <3> QED
      BY <2>1, <3>2 DEF Handled
  <2>3. \A k \in Handled : (IsLast(k)' <=> IsLast(k)) /\ (InBuffer(k)' <=> InBuffer(k))
    BY <1>3, <1>5, <2>1, <2>2 DEF IsLast, InBuffer
  <2>4. \A j : MarkerBefore(j)' <=> MarkerBefore(j)
    BY <1>3, <1>5, <2>2 DEF MarkerBefore, EarlierOnes
  <2>5. \A k \in Handled : Unbroken(k)' <=> Unbroken(k)
    BY <1>3, <1>5, <2>2, <2>4 DEF Unbroken, Came
  <2>6. OpenFrame'
    BY <1>2, <1>3, <1>5, <2>1, <2>2, <2>3 DEF OpenFrame
  <2>7. BufferHasIt'
    BY <1>2, <2>2, <2>3, <2>5 DEF BufferHasIt
  <2>8. FileHasIt'
    BY <1>2, <1>3, <1>4, <1>5, <2>2, <2>5 DEF FileHasIt
  <2> QED
    BY <2>6, <2>7, <2>8
<1>7. CASE Handling
  <2>0. PICK n \in Nat : n = Next1
    BY <1>7, HandledNext
  <2>1. /\ Handled' = Handled \cup {n} /\ \A k \in Handled : k < n
        /\ n \in DOMAIN stream /\ n \in Nat
    BY <1>7, <2>0, HandledNext
  <2>2. /\ UNCHANGED <<stream, sizes>> /\ pkt.ts = stream[n].ts /\ pkt.m = stream[n].m
        /\ pkt.seq = stream[n].seq /\ pkt.im = Size(stream[n])
    BY <1>7, <2>0 DEF Handling, networkVars, Datagram, Size
  <2>3. Accept
    <3>0. Accept \/ DropLate
      <4>1. arrived' # arrived
        BY <1>7 DEF Handling, OrderedInvs, StreamInvs, ReceiverInv, ReceiverTypeOK,
                    AccountTypeOK
      <4>2. ~DispatchAndStop /\ ~Idle
        BY <4>1 DEF DispatchAndStop, Idle, accountVars
      <4> QED
        BY <4>2, StepKinds DEF OrderedInvs
    <3> SUFFICES ASSUME DropLate PROVE FALSE
      BY <3>0
    <3>1. pkt.seq < current_seqnum /\ ~first
      BY DEF DropLate, PriorFrame, OtherFrame
    <3>2. /\ ~startup /\ current_seqnum = stream[arrivals[arrived]].seq
      BY <3>1 DEF OrderedInvs, StreamInvs, HandlingInv
    <3>3. /\ arrivals[arrived] \in DOMAIN stream /\ arrivals[arrived] < n
          /\ arrivals[arrived] \in Nat
      BY <1>7, <2>0, <3>2, NextComesAfter
    <3> QED
      BY <1>1, <1>2, <2>1, <2>2, <3>1, <3>2, <3>3, SeqUnrolled
  <2>4. /\ first' = (stream[n].m = 1) /\ ts_current' = stream[n].ts
        /\ stream[n].m = 1
             => written' = Append(Closed(pkt), File(stream[n].ts, pkt, bf_w'))
        /\ Closed(pkt) \in Seq(Files) /\ File(stream[n].ts, pkt, bf_w') \in Files
    BY <1>7, <2>2, <2>3, AcceptInOrder DEF Accept
  <2>5. \A k \in Handled' : IsLast(k)' => k = n
    <3>1. \A k \in Handled : ~(n <= k)
      BY <1>3, <2>1
    <3> QED
      BY <2>1, <3>1 DEF IsLast
  <2>6. \A j \in Nat : j <= n => (MarkerBefore(j)' <=> MarkerBefore(j))
    <3>1. \A j \in Nat : j <= n => EarlierOnes(j)' = EarlierOnes(j)
      BY <2>1 DEF EarlierOnes
    <3> QED
      BY <2>2, <3>1 DEF MarkerBefore
  <2>7. ASSUME Unbroken(n)' PROVE InBuffer(n)' /\ \A i \in 0 .. stream[n].fb + stream[n].n - 1 : i \in Rows
    <3>1. PICK j \in Nat : Begins(j, n)' /\ Came(j, n)' /\ MarkerBefore(j)'
      BY <2>7 DEF Unbroken
    <3>2. Begins(j, n)
      BY <1>5, <2>1, <3>1
    <3>3. j <= n /\ j .. n \subseteq Handled \cup {n}
      BY <2>1, <3>1, <3>2 DEF Came, Begins
    <3>4. MarkerBefore(j)
      BY <2>6, <3>1, <3>3
    <3>5. /\ ~NextFrame(pkt)
          /\ \A i \in 0 .. stream[n].fb - 1 : bf_w[i] = Block(n, i)
      BY <1>2, <1>7, <3>2, <3>3, <3>4, <2>0, NoGap
    <3>6. \A i \in 0 .. stream[n].fb + stream[n].n - 1 :
            i \in Rows /\ bf_w'[i] = Block(n, i)
      BY <1>7, <2>3, <3>5, <2>0, BlocksCopied
    <3> QED
      BY <1>5, <2>1, <2>2, <3>6 DEF InBuffer
  <2>8. ASSUME Unbroken(n)', stream[n].m = 1 PROVE Shown(n)'
    <3>1. Fits(stream[n])
      BY <1>1, <2>1 DEF StreamInv
    <3>2. Size(stream[n]) = stream[n].fb + stream[n].n
      BY <2>8, <3>1 DEF Fits
    <3>3. \A i \in 0 .. Size(stream[n]) - 1 : bf_w'[i] = Block(n, i)
      <4>1. \A i : Block(n, i)' = Block(n, i)
        BY <1>5, <2>1
      <4>2. \A i \in 0 .. stream[n].fb + stream[n].n - 1 : bf_w'[i] = Block(n, i)'
        BY <2>2, <2>7, <2>8 DEF InBuffer
      <4>3. stream[n].fb \in Nat /\ stream[n].n \in Nat
        BY <1>1, <2>1, StreamFields
      <4>4. Size(stream[n]) - 1 = stream[n].fb + stream[n].n - 1
        BY <3>2, <4>3
      <4> QED
        BY <4>1, <4>2, <4>4
    <3> DEFINE f == File(stream[n].ts, pkt, bf_w')
    <3>4. f.name = stream[n].ts /\ f.rows = [i \in 0 .. Size(stream[n]) - 1 |-> Block(n, i)]
      BY <2>2, <3>3 DEF File
    <3>5. written' = Append(Closed(pkt), f) /\ Closed(pkt) \in Seq(Files) /\ f \in Files
      BY <2>4, <2>8
    <3> HIDE DEF f
    <3>6. \E g \in DOMAIN written' : written'[g] = f
      BY <3>5
    <3> QED
      <4>1. \A i : Block(n, i)' = Block(n, i)
        BY <1>5, <2>1
      <4>2. Size(stream[n])' = Size(stream[n]) /\ stream'[n] = stream[n]
        BY <2>2 DEF Size
      <4>3. \E g \in DOMAIN written' :
              /\ written'[g].name = stream'[n].ts
              /\ written'[g].rows = [i \in 0 .. Size(stream[n])' - 1 |-> Block(n, i)']
        BY <3>4, <3>6, <4>1, <4>2
      <4> QED
        BY <4>3 DEF Shown
  <2>9. \A k \in Handled : Unbroken(k)' => Unbroken(k)
    <3> SUFFICES ASSUME NEW k \in Handled, Unbroken(k)' PROVE Unbroken(k)
      OBVIOUS
    <3>1. k \in Nat /\ k < n /\ k \in DOMAIN stream
      BY <1>3, <2>1
    <3>2. PICK j \in Nat : Begins(j, k)' /\ Came(j, k)' /\ MarkerBefore(j)'
      BY DEF Unbroken
    <3>3. Begins(j, k) /\ j <= k
      BY <1>5, <3>1, <3>2 DEF Begins
    <3>4. j .. k \subseteq Handled
      BY <2>1, <3>1, <3>2 DEF Came
    <3>5. MarkerBefore(j)
      BY <2>1, <2>6, <3>1, <3>2, <3>3
    <3> QED
      BY <3>3, <3>4, <3>5 DEF Unbroken, Came
  <2>10. OpenFrame'
    BY <2>2, <2>4, <2>5 DEF OpenFrame
  <2>11. BufferHasIt'
    BY <2>5, <2>7 DEF BufferHasIt
  <2>12. FileHasIt'
    <3> SUFFICES ASSUME NEW k \in Handled', stream[k].m = 1, Unbroken(k)' PROVE Shown(k)'
      BY <2>2 DEF FileHasIt
    <3>1. CASE k = n
      BY <2>8, <3>1
    <3>2. CASE k \in Handled
      BY <1>2, <1>4, <2>9, <3>2 DEF FileHasIt
    <3> QED
      BY <2>1, <3>1, <3>2
  <2> QED
    BY <2>10, <2>11, <2>12
<1> QED
  BY <1>6, <1>7

(* IntactAfterMarkerIsWhole: on a network that keeps the order, a frame    *)
(* that arrives intact after the marker of the one before is in its file,  *)
(* complete, as long as the sequence number has not gone round.  Without   *)
(* that marker its first packet closes the earlier frame and is not copied *)
(* (LHE_receiver.c:431).                                                   *)
THEOREM IntactAfterMarkerAlwaysWhole ==
  ASSUME InOrder, TimestampsGrow PROVE Spec => []IntactAfterMarkerIsWhole
<1>1. Init => OrderedInvs /\ FilesInv /\ WholeInv
  <2>1. Init => OrderedInvs
    BY StreamInvsStart, OrderStart DEF Init, OrderedInvs
  <2>2. Init => FilesInv
    BY DEF Init, ReceiverInit, AccountInit, FilesInv, Growing, Below
  <2>3. Init => Handled = {}
    BY DEF Init, ReceiverInit, AccountInit, Handled
  <2> QED
    BY <2>1, <2>2, <2>3 DEF WholeInv, OpenFrame, BufferHasIt, FileHasIt
<1>2. OrderedInvs /\ FilesInv /\ WholeInv /\ [Next]_vars
      => OrderedInvs' /\ FilesInv' /\ WholeInv'
  BY OrderedInvsKept, FilesKept, WholeKept
<1>3. OrderedInvs /\ WholeInv => IntactAfterMarkerIsWhole
  <2> SUFFICES ASSUME OrderedInvs, WholeInv, ~RolledOver, NEW v \in Frames,
                      Intact(v), PreviousClosed(v)
               PROVE  \E f \in DOMAIN written :
                        written[f].name = TsOf(v) /\ IsWhole(written[f], v)
    BY DEF IntactAfterMarkerIsWhole
  <2>1. StreamInv
    BY DEF OrderedInvs, StreamInvs, NetworkInv
  <2>2. PICK h \in PacketsOf(v) : stream[h].m = 1
    BY DEF Intact, Sent
  <2>3. h \in DOMAIN stream /\ FrameAt(h) = v /\ h \in Handled /\ h \in Nat
        /\ h <= Len(stream) /\ DOMAIN stream = 1 .. Len(stream) /\ Len(stream) \in Nat
    <3>1. h \in DOMAIN stream /\ FrameAt(h) = v /\ h \in Handled
      BY <2>2 DEF PacketsOf, FrameAt, Intact
    <3> QED
      BY <2>1, <3>1, StreamFields DEF StreamInv
  <2>4. PICK j \in 1 .. h : OneFrame(stream[j], stream[h]) /\ stream[j].fb = 0
    BY <2>1, <2>3 DEF StreamInv
  <2>5. j \in Nat /\ j \in DOMAIN stream /\ j .. h \subseteq DOMAIN stream
    BY <2>3
  <2>6. \A k \in DOMAIN stream : k \in PacketsOf(v) <=> OneFrame(stream[k], stream[h])
    BY <2>3 DEF PacketsOf, FrameAt, OneFrame
  <2>7. Came(j, h)
    <3> SUFFICES ASSUME NEW k \in j .. h PROVE k \in Handled
      BY DEF Came
    <3>1. k \in DOMAIN stream /\ j <= k /\ k <= h
      BY <2>3, <2>5
    <3>2. OneFrame(stream[k], stream[h])
      BY <2>1, <2>3, <2>4, <2>5, <3>1, OneFrameBetween
    <3> QED
      BY <2>6, <3>1, <3>2 DEF Intact
  <2>8. MarkerBefore(j)
    <3> DEFINE start == CHOOSE k \in PacketsOf(v) : stream[k].fb = 0
    <3>1. j \in PacketsOf(v)
      BY <2>4, <2>5, <2>6
    <3>2. start \in PacketsOf(v) /\ stream[start].fb = 0
      BY <2>4, <3>1
    <3> HIDE DEF start
    <3>3. start \in DOMAIN stream /\ OneFrame(stream[j], stream[start])
      BY <2>4, <2>6, <3>2 DEF OneFrame, PacketsOf
    <3>4. start = j
      BY <2>1, <2>4, <2>5, <3>2, <3>3, OneStart
    <3> QED
      BY <3>4 DEF PreviousClosed, MarkerBefore, EarlierOnes, start
  <2>9. Shown(h)
    <3>1. Unbroken(h)
      BY <2>4, <2>5, <2>7, <2>8 DEF Unbroken, Begins
    <3> QED
      BY <2>2, <2>3, <3>1 DEF WholeInv, FileHasIt
  <2>10. TsOf(v) = stream[h].ts /\ SizeOf(v) = Size(stream[h])
    BY <2>1, <2>3, FrameOfPacket DEF FrameAt
  <2> QED
    BY <2>3, <2>9, <2>10 DEF Shown, IsWhole, WholeFrame, Block
<1> QED
  BY <1>1, <1>2, <1>3, PTL DEF Spec

-----------------------------------------------------------------------------
(* Blocks lost and rows missing, when the order is kept                    *)

(* The rows that show the frame of a time, and those a file has not got.   *)
OwnIn(rows, t) == {k \in DOMAIN rows : rows[k] # Garbage /\ TsOf(rows[k].img) = t}
LostOf(file) == DOMAIN file.rows \ OwnIn(file.rows, file.name)
LostIn(w) == {r \in (DOMAIN w) \X Rows : r[2] \in LostOf(w[r[1]])}

(* The rows of the frame in progress that are in the write buffer.         *)
OpenRows == IF first THEN {} ELSE OwnIn(bf_w, ts_current)

(* The blocks not received are the rows missing in the files, but for the  *)
(* rows of the frame in progress, which came in packets handled before and *)
(* are counted as received already.                                        *)
BlocksCounted ==
  (total_blocks - blocks_received) + Cardinality(OpenRows) = Cardinality(LostIn(written))
OpenRowsCame ==
  \A k \in OpenRows : \E a \in 1 .. arrived : /\ Last(a).ts = ts_current
                                              /\ k < Last(a).fb + Last(a).n
BlocksInv == /\ ~stop /\ FramesNeverShrink => BlocksCounted
             /\ startup => \A k \in Rows : bf_w[k] = Garbage
             /\ OpenRowsCame

(* The fields of a packet that say which rows it fills are numbers.        *)
LEMMA FieldsAreNumbers ==
  ASSUME NEW p \in Packets
  PROVE  p.im \in Nat /\ p.fb \in Nat /\ p.n \in Nat
<1>1. \A i \in 1 .. IMAGE_BSIZE_MAX : i \in Nat
  <2>1. IMAGE_BSIZE_MAX \in Nat
    BY NetworkLimits
  <2> QED
    BY <2>1
<1>2. \A i \in 0 .. SEQ_MAX : i \in Nat
  <2>1. SEQ_MAX \in Nat
    BY DEF SEQ_MAX
  <2> QED
    BY <2>1
<1>3. p.im \in 1 .. IMAGE_BSIZE_MAX /\ p.fb \in 0 .. SEQ_MAX /\ p.n \in Nat
  BY PacketFields
<1> QED
  BY <1>1, <1>2, <1>3

(* A file more, and the rows it has not got are missing as well.           *)
LEMMA LostMore ==
  ASSUME NEW s \in Seq(Files), NEW f \in Files
  PROVE  /\ IsFiniteSet(LostIn(s)) /\ IsFiniteSet(LostIn(Append(s, f)))
         /\ Cardinality(LostIn(Append(s, f))) = Cardinality(LostIn(s)) + Cardinality(LostOf(f))
<1> DEFINE N == Len(s) + 1
           u == Append(s, f)
           More == {N} \X LostOf(f)
<1>1. /\ IMAGE_BSIZE_MAX \in Nat /\ Len(s) \in Nat /\ DOMAIN s = 1 .. Len(s)
      /\ DOMAIN u = 1 .. N /\ u[N] = f /\ \A k \in DOMAIN s : u[k] = s[k]
  BY NetworkLimits
<1>2. LostOf(f) \subseteq Rows
  <2>1. PICK m \in 1 .. IMAGE_BSIZE_MAX : f.rows \in [0 .. m - 1 -> Content]
    BY DEF Files
  <2>2. 0 .. m - 1 \subseteq Rows
    BY <1>1, <2>1 DEF Rows
  <2> QED
    BY <2>1, <2>2 DEF LostOf
<1>3. IsFiniteSet(Rows) /\ IsFiniteSet(1 .. Len(s))
  BY <1>1, FS_Interval DEF Rows
<1>4. IsFiniteSet(LostIn(s))
  <2>1. IsFiniteSet((1 .. Len(s)) \X Rows)
    BY <1>3, FS_Product
  <2>2. LostIn(s) \in SUBSET ((1 .. Len(s)) \X Rows)
    BY <1>1 DEF LostIn
  <2> QED
    BY <2>1, <2>2, FS_Subset
<1>5. IsFiniteSet(LostOf(f)) /\ Cardinality(LostOf(f)) \in Nat
  BY <1>2, <1>3, FS_Subset, FS_CardinalityType
<1>6. IsFiniteSet(More) /\ Cardinality(More) = Cardinality(LostOf(f))
  <2>1. IsFiniteSet({N}) /\ Cardinality({N}) = 1
    BY FS_Singleton
  <2>2. IsFiniteSet(More) /\ Cardinality(More) = 1 * Cardinality(LostOf(f))
    BY <1>5, <2>1, FS_Product
  <2> QED
    BY <1>5, <2>2
<1>7. LostIn(u) = LostIn(s) \cup More
  <2> HIDE DEF u, N
  <2>1. ASSUME NEW k, NEW i
        PROVE  <<k, i>> \in LostIn(u) <=> <<k, i>> \in LostIn(s) \/ (k = N /\ i \in LostOf(f))
    <3>1. k \in 1 .. N <=> k \in DOMAIN s \/ k = N
      BY <1>1 DEF N
    <3>2. N \notin DOMAIN s
      BY <1>1 DEF N
    <3> QED
      BY <1>1, <1>2, <3>1, <3>2 DEF LostIn
  <2>2. LostIn(u) \subseteq (1 .. N) \X Rows /\ LostIn(s) \subseteq (DOMAIN s) \X Rows
    BY <1>1 DEF LostIn
  <2>3. ASSUME NEW r \in LostIn(u) PROVE r \in LostIn(s) \cup More
    <3>1. r = <<r[1], r[2]>>
      BY <2>2
    <3>2. <<r[1], r[2]>> \in LostIn(s) \/ (r[1] = N /\ r[2] \in LostOf(f))
      BY <2>1, <3>1
    <3> QED
      BY <3>1, <3>2
  <2>4. ASSUME NEW r \in LostIn(s) \cup More PROVE r \in LostIn(u)
    <3>1. r = <<r[1], r[2]>>
      BY <2>2
    <3>2. <<r[1], r[2]>> \in LostIn(s) \/ (r[1] = N /\ r[2] \in LostOf(f))
      BY <3>1
    <3> QED
      BY <2>1, <3>1, <3>2
  <2> QED
    BY <2>3, <2>4
<1>8. LostIn(s) \cap More = {}
  <2>1. \A r \in LostIn(s) : r[1] # N
    BY <1>1 DEF LostIn
  <2> QED
    BY <2>1
<1> HIDE DEF u, N, More
<1>9. /\ IsFiniteSet(LostIn(u))
      /\ Cardinality(LostIn(u))
           = Cardinality(LostIn(s)) + Cardinality(More) - Cardinality(LostIn(s) \cap More)
  BY <1>4, <1>6, <1>7, FS_Union
<1>10. Cardinality(LostIn(s)) \in Nat
  BY <1>4, FS_CardinalityType
<1> QED
  <2>1. Cardinality(LostIn(s) \cap More) = 0
    BY <1>8, FS_EmptySet
  <2>2. Cardinality(LostIn(u)) = Cardinality(LostIn(s)) + Cardinality(LostOf(f)) - 0
    BY <1>6, <1>9, <2>1
  <2> QED
    BY <1>4, <1>5, <1>9, <1>10, <2>2 DEF u

(* What a file has not got: as many rows as it has, less those of its own. *)
LEMMA LostOfFile ==
  ASSUME NEW p \in Packets, NEW rows \in [Rows -> Content], NEW t,
         OwnIn(rows, t) \subseteq 0 .. p.im - 1
  PROVE  /\ IsFiniteSet(OwnIn(rows, t)) /\ Cardinality(OwnIn(rows, t)) \in Nat
         /\ Cardinality(LostOf(File(t, p, rows))) = p.im - Cardinality(OwnIn(rows, t))
<1> DEFINE own == OwnIn(rows, t)
           all == 0 .. p.im - 1
<1>1. p.im \in 1 .. IMAGE_BSIZE_MAX /\ IMAGE_BSIZE_MAX \in Nat
  BY PacketFields, NetworkLimits
<1>2. all \subseteq Rows
  BY <1>1 DEF Rows
<1>3. LostOf(File(t, p, rows)) = all \ own
  BY <1>2 DEF LostOf, File, OwnIn
<1>4. IsFiniteSet(all) /\ Cardinality(all) = p.im
  <2>1. 0 \in Int /\ p.im - 1 \in Int /\ ~(0 > p.im - 1) /\ (p.im - 1) - 0 + 1 = p.im
    BY <1>1
  <2> QED
    BY <2>1, FS_Interval
<1>5. IsFiniteSet(own)
  BY <1>4, FS_Subset
<1>6. all \cap own = own
  OBVIOUS
<1> HIDE DEF own, all
<1>7. Cardinality(all \ own) = Cardinality(all) - Cardinality(own)
  <2>1. Cardinality(all \ own) = Cardinality(all) - Cardinality(all \cap own)
    BY <1>4, FS_Difference
  <2> QED
    BY <1>6, <2>1
<1> QED
  BY <1>3, <1>4, <1>5, <1>7, FS_CardinalityType DEF own

(* What a packet handled before and the one being handled have to do with  *)
(* each other.                                                             *)
LEMMA EarlierPacket ==
  ASSUME TimestampsGrow, OrderedInvs, Handling, NEW a \in 1 .. arrived
  PROVE  /\ Last(a).ts = pkt.ts => Last(a).fb + Last(a).n <= pkt.fb
         /\ Last(a).ts < pkt.ts /\ FramesNeverShrink => Last(a).fb + Last(a).n <= pkt.im
         /\ Last(a).ts \in Nat /\ Last(a).fb \in Nat /\ Last(a).n \in Nat
<1> DEFINE j == arrivals[a]
           p == stream[j]
           q == stream[Next1]
           u == <<p.file, p.frame>>
           v == <<q.file, q.frame>>
<1>1. /\ StreamInv /\ Next1 \in DOMAIN stream /\ Next1 \in Nat /\ j \in Handled
      /\ j \in DOMAIN stream /\ j \in Nat /\ j < Next1
  <2>1. j \in Handled
    BY DEF Handled
  <2> HIDE DEF j
  <2> QED
    BY <2>1, HandledNext, HandledOrder DEF OrderedInvs, StreamInvs, NetworkInv
<1>2. pkt.ts = q.ts /\ pkt.fb = q.fb /\ pkt.im = Size(q)
  BY DEF Handling, Datagram, Size
<1>3. /\ p.ts \in Nat /\ p.fb \in Nat /\ p.n \in Nat /\ p.m \in {0, 1}
      /\ p.file \in Nat /\ p.frame \in Nat /\ q.file \in Nat /\ q.frame \in Nat
      /\ q.ts \in Nat
  <2> HIDE DEF j
  <2> QED
    BY <1>1, StreamFields
<1>4. Precedes(p, q)
  BY <1>1 DEF StreamInv
<1>5. /\ u \in Frames /\ TsOf(u) = p.ts /\ SizeOf(u) = Size(p)
      /\ v \in Frames /\ TsOf(v) = q.ts /\ SizeOf(v) = Size(q)
  <2> HIDE DEF j
  <2> QED
    BY <1>1, FrameOfPacket
<1>6. LaterFrame(p, q) => EarlierFrame(u, v)
  BY DEF LaterFrame, EarlierFrame
<1>7. OneFrame(p, q) => u = v
  BY DEF OneFrame
<1>8. p.fb + p.n <= Size(p) /\ Size(p) \in Nat /\ Size(q) \in Nat
  <2>1. Fits(p) /\ Fits(q)
    BY <1>1 DEF StreamInv
  <2>2. Size(p) \in Nat /\ Size(q) \in Nat
    <3>1. \A f \in DOMAIN sizes : \A g \in DOMAIN sizes[f] :
            sizes[f][g] \in 1 .. IMAGE_BSIZE_MAX
      BY <1>1, SizesFacts DEF StreamInv
    <3>2. \A i \in 1 .. IMAGE_BSIZE_MAX : i \in Nat
      BY NetworkLimits
    <3> QED
      BY <2>1, <3>1, <3>2 DEF Fits, Size
  <2> QED
    BY <2>1, <2>2 DEF Fits
<1>9. p.ts = q.ts => OneFrame(p, q)
  <2>1. EarlierFrame(u, v) => TsOf(u) < TsOf(v)
    <3> HIDE DEF u, v
    <3> QED
      BY <1>1, <1>5, EarlierTs
  <2> HIDE DEF u, v, p, q
  <2> QED
    BY <1>3, <1>4, <1>5, <1>6, <2>1 DEF Precedes
<1>10. p.ts = q.ts => p.fb + p.n <= q.fb
  <2>1. OneFrame(p, q) => ~LaterFrame(p, q)
    BY <1>3 DEF OneFrame, LaterFrame
  <2> QED
    BY <1>4, <1>9, <2>1 DEF Precedes
<1>11. p.ts < q.ts /\ FramesNeverShrink => Size(p) <= Size(q)
  <2>1. p.ts < q.ts => ~OneFrame(p, q)
    <3> HIDE DEF u, v, p, q
    <3> QED
      BY <1>3, <1>5, <1>7
  <2>2. p.ts < q.ts => EarlierFrame(u, v)
    BY <1>4, <1>6, <2>1 DEF Precedes
  <2> HIDE DEF u, v
  <2> QED
    BY <1>5, <2>2 DEF FramesNeverShrink
<1> HIDE DEF p, q
<1>12. p.ts < q.ts /\ FramesNeverShrink => p.fb + p.n <= Size(q)
  BY <1>3, <1>8, <1>11
<1> QED
  BY <1>2, <1>3, <1>10, <1>12 DEF p, Last

(* Steps that do not accept a packet leave the two counters alone, unless  *)
(* somebody stops the receiver.                                            *)
LEMMA CountersStay ==
  ASSUME [Next]_vars, ~stop'
  PROVE  /\ ~stop
         /\ (Receive /\ Accept) \/ UNCHANGED <<total_blocks, blocks_received>>
<1>1. CASE (Transmit \/ Lose) /\ UNCHANGED <<receiverVars, signals>>
  BY <1>1 DEF receiverVars, statVars
<1>2. CASE Delivery /\ UNCHANGED signals
  BY <1>2 DEF Delivery, Deliver, statVars
<1>3. CASE Receive
  BY <1>3 DEF Receive, Work, TestStop, LoopOver, EnterRecv, DispatchAndStop, InFrame,
     RecvFailed, DropLate, Accept, statVars
<1>4. CASE Interrupt
  BY <1>4 DEF Interrupt, SigInt
<1>5. CASE UNCHANGED vars
  BY <1>5 DEF vars, receiverVars, statVars
<1> QED
  BY <1>1, <1>2, <1>3, <1>4, <1>5 DEF Next

(* What an accepted packet does to the rows of the frame in progress: it   *)
(* adds its own to those that came before; when it closes a frame, it      *)
(* starts the next one with none, and the closed one is not cut off.       *)
LEMMA RowsAfterPacket ==
  ASSUME TimestampsGrow, OrderedInvs, FilesInv, PastInv, BlocksInv, Handling, Accept
  PROVE  /\ NextFrame(pkt) => OwnIn(bf_w', pkt.ts) = {}
         /\ NextFrame(pkt) => OpenRows = OwnIn(bf_w, ts_current)
         /\ NextFrame(pkt) /\ FramesNeverShrink => OpenRows \subseteq 0 .. pkt.im - 1
         /\ ~NextFrame(pkt) => /\ OwnIn(bf_w', pkt.ts)
                                    = OpenRows \cup (pkt.fb .. pkt.fb + pkt.n - 1)
                               /\ \A k \in OpenRows : k \in Rows /\ k < pkt.fb
<1> DEFINE t == pkt.ts
           here == pkt.fb .. pkt.fb + pkt.n - 1
<1>1. /\ pkt \in Packets /\ pkt.img \in Images /\ TsOf(pkt.img) = t
      /\ bf_w \in [Rows -> Content] /\ bf_w' = CopyBlocks(pkt) /\ StreamInv
      /\ pkt.fb \in Nat /\ pkt.n \in Nat /\ pkt.im \in Nat
      /\ pkt.fb + pkt.n <= IMAGE_BSIZE_MAX /\ IMAGE_BSIZE_MAX \in Nat
  <2>1. Next1 \in DOMAIN stream /\ pkt = Datagram(Next1) /\ pkt \in Packets /\ StreamInv
    BY DEF Handling, OrderedInvs, StreamInvs, NetworkInv
  <2>2. /\ pkt.img = <<stream[Next1].file, stream[Next1].frame>>
        /\ pkt.ts = stream[Next1].ts
    BY <2>1 DEF Datagram
  <2>3. TsOf(pkt.img) = t
    BY <2>1, <2>2, FrameOfPacket
  <2>4. pkt.fb \in Nat /\ pkt.n \in Nat /\ pkt.im \in Nat
    BY <2>1, FieldsAreNumbers
  <2> QED
    BY <2>1, <2>3, <2>4, PacketFields, NetworkLimits
       DEF Accept, OrderedInvs, StreamInvs, ReceiverInv, ReceiverTypeOK
<1>2. /\ t \in Nat /\ ts_current \in Nat /\ ts_current <= t /\ first \in BOOLEAN
      /\ ~startup /\ first => ts_current < t
  BY TimeGoesOn DEF OrderedInvs, StreamInvs, ReceiverInv, ReceiverTypeOK
<1>3. NextFrame(pkt) => ~first /\ ts_current < t
  BY <1>2 DEF NextFrame, OtherFrame
<1>4. ~first /\ ~NextFrame(pkt) => t = ts_current
  BY DEF Accept, NextFrame, OtherFrame
<1>5. \A k \in Rows : bf_w[k] # Garbage => /\ TsOf(bf_w[k].img) \in Nat
                                          /\ TsOf(bf_w[k].img) <= ts_current
  <2>1. \A k \in Rows : bf_w[k] # Garbage => /\ bf_w[k].img \in Frames
                                            /\ TsOf(bf_w[k].img) <= ts_current
    BY <1>1 DEF PastInv, NoLater
  <2> QED
    BY <1>1, <2>1, TsOfFrame
<1>6. first \/ NextFrame(pkt) => OwnIn(bf_w, t) = {}
  <2>1. CASE startup
    BY <1>1, <2>1 DEF BlocksInv, OwnIn
  <2>2. CASE ~startup
    <3> SUFFICES ASSUME first \/ NextFrame(pkt), NEW k \in OwnIn(bf_w, t) PROVE FALSE
      OBVIOUS
    <3>1. k \in Rows /\ bf_w[k] # Garbage /\ TsOf(bf_w[k].img) = t
      BY <1>1 DEF OwnIn
    <3> HIDE DEF t
    <3> QED
      BY <1>2, <1>3, <1>5, <2>2, <3>1
  <2> QED
    BY <2>1, <2>2
<1>7. NextFrame(pkt) => OwnIn(bf_w', t) = {}
  <2> SUFFICES ASSUME NextFrame(pkt) PROVE OwnIn(bf_w', t) = {}
    OBVIOUS
  <2>1. pkt.fb .. pkt.fb + BlocksInPaq(pkt) - 1 = {}
    BY <1>1 DEF BlocksInPaq
  <2>2. bf_w' = [k \in Rows |-> bf_w[k]]
    BY <1>1, <2>1 DEF CopyBlocks
  <2>3. bf_w' = bf_w
    BY <1>1, <2>2
  <2> QED
    BY <1>6, <2>3
<1>8. ~NextFrame(pkt) => OwnIn(bf_w', t) = OwnIn(bf_w, t) \cup here
  <2> SUFFICES ASSUME ~NextFrame(pkt) PROVE OwnIn(bf_w', t) = OwnIn(bf_w, t) \cup here
    OBVIOUS
  <2>1. here \subseteq Rows
    BY <1>1 DEF Rows
  <2>2. \A k \in Rows : bf_w'[k] = IF k \in here THEN [img |-> pkt.img, id |-> k]
                                                 ELSE bf_w[k]
    BY <1>1 DEF CopyBlocks, BlocksInPaq
  <2>3. \A k \in Rows : [img |-> pkt.img, id |-> k] # Garbage
    BY <1>1, ReceiverAssumption DEF Rows
  <2>4. DOMAIN bf_w' = Rows /\ DOMAIN bf_w = Rows
    BY <1>1 DEF CopyBlocks
  <2> HIDE DEF here, t
  <2> QED
    BY <1>1, <2>1, <2>2, <2>3, <2>4 DEF OwnIn
<1>9. ~NextFrame(pkt) => OwnIn(bf_w, t) = OpenRows
  BY <1>4, <1>6 DEF OpenRows
<1>10. NextFrame(pkt) => OpenRows = OwnIn(bf_w, ts_current)
  BY <1>3 DEF OpenRows
<1>11. \A k \in OpenRows : k \in Rows /\ k \in Nat
  BY <1>1 DEF OpenRows, OwnIn, Rows
<1>12. ASSUME ~NextFrame(pkt), NEW k \in OpenRows PROVE k < pkt.fb
  <2>1. PICK a \in 1 .. arrived : Last(a).ts = ts_current /\ k < Last(a).fb + Last(a).n
    BY DEF BlocksInv, OpenRowsCame
  <2>2. t = ts_current
    BY <1>4, <1>12 DEF OpenRows
  <2>3. /\ Last(a).fb + Last(a).n <= pkt.fb /\ Last(a).fb \in Nat /\ Last(a).n \in Nat
    BY <2>1, <2>2, EarlierPacket
  <2> QED
    BY <1>1, <1>11, <2>1, <2>3
<1>13. ASSUME NextFrame(pkt), FramesNeverShrink, NEW k \in OpenRows
       PROVE  k \in 0 .. pkt.im - 1
  <2>1. PICK a \in 1 .. arrived : Last(a).ts = ts_current /\ k < Last(a).fb + Last(a).n
    BY DEF BlocksInv, OpenRowsCame
  <2>2. Last(a).ts < pkt.ts
    BY <1>3, <1>13, <2>1
  <2>3. /\ Last(a).fb + Last(a).n <= pkt.im /\ Last(a).fb \in Nat /\ Last(a).n \in Nat
    BY <1>13, <2>2, EarlierPacket
  <2> QED
    BY <1>1, <1>11, <2>1, <2>3
<1> QED
  BY <1>7, <1>8, <1>9, <1>10, <1>11, <1>12, <1>13

(* Two files at most are written for a packet, and the sums stay even.     *)
LEMMA PacketCounted ==
  ASSUME TimestampsGrow, OrderedInvs, FilesInv, PastInv, BlocksInv, Handling, Accept,
         BlocksCounted, FramesNeverShrink
  PROVE  BlocksCounted'
<1> DEFINE t == pkt.ts
           m == pkt.im
           c == Closed(pkt)
           open == OpenRows
           own == OwnIn(bf_w', t)
           f == File(t, pkt, bf_w')
           g == File(ts_aux, pkt, bf_w)
           O == Cardinality(open)
           W == Cardinality(own)
           n == pkt.n
           L == Cardinality(LostIn(written))
           C == Cardinality(LostIn(c))
<1>1. /\ pkt \in Packets /\ pkt.m \in {0, 1} /\ m \in Nat /\ pkt.n \in Nat /\ pkt.fb \in Nat
      /\ pkt.fb + pkt.n <= m
      /\ bf_w \in [Rows -> Content] /\ bf_w' \in [Rows -> Content]
      /\ written \in Seq(Files) /\ ts_aux = ts_current /\ ts_current \in Nat
      /\ IMAGE_BSIZE_MAX \in Nat
  <2>1. Next1 \in DOMAIN stream /\ pkt = Datagram(Next1) /\ pkt \in Packets /\ StreamInv
    BY DEF Handling, OrderedInvs, StreamInvs, NetworkInv
  <2>2. pkt.fb + pkt.n <= m
    BY <2>1 DEF Datagram, StreamInv, Fits, Size
  <2>3. bf_w' \in [Rows -> Content]
    BY <2>1, CopyType DEF Accept, OrderedInvs, StreamInvs, ReceiverInv
  <2>4. m \in Nat /\ pkt.n \in Nat /\ pkt.fb \in Nat /\ pkt.m \in {0, 1}
    BY <2>1, FieldsAreNumbers, PacketFields
  <2> QED
    BY <2>1, <2>2, <2>3, <2>4, TimeGoesOn, NetworkLimits
       DEF FilesInv, OrderedInvs, StreamInvs, ReceiverInv, ReceiverTypeOK
<1>2. /\ ts_current' = t /\ ts_aux' = t /\ c \in Seq(Files) /\ f \in Files
  BY AcceptInOrder
<1>3. /\ written' = IF pkt.m = 1 THEN Append(c, f) ELSE c
      /\ c = IF NextFrame(pkt) THEN Append(written, g) ELSE written
      /\ first' = (pkt.m = 1)
      /\ total_blocks' = total_blocks + Dispatched(pkt) * m
      /\ blocks_received' = blocks_received + BlocksInPaq(pkt)
  BY <1>2 DEF Accept, Closed
<1>4. total_blocks \in Nat /\ blocks_received \in Nat
  BY DEF OrderedInvs, StreamInvs, ReceiverInv, ReceiverTypeOK
<1>5. IsFiniteSet(open) /\ O \in Nat
  <2>1. open \subseteq Rows
    BY <1>1 DEF OpenRows, OwnIn
  <2>2. IsFiniteSet(Rows)
    BY <1>1, FS_Interval DEF Rows
  <2> HIDE DEF open
  <2> QED
    BY <2>1, <2>2, FS_Subset, FS_CardinalityType
<1>6. L \in Nat /\ C \in Nat
  <2>1. IsFiniteSet(LostIn(written)) /\ IsFiniteSet(LostIn(c))
    BY <1>1, <1>2, LostMore
  <2> QED
    BY <2>1, FS_CardinalityType
<1>7. own \subseteq 0 .. m - 1 /\ W \in Nat
      /\ W = IF NextFrame(pkt) THEN 0 ELSE O + pkt.n
  <2>1. CASE NextFrame(pkt)
    <3>1. own = {}
      BY <2>1, RowsAfterPacket
    <3> QED
      BY <2>1, <3>1, FS_EmptySet
  <2>2. CASE ~NextFrame(pkt)
    <3> DEFINE here == pkt.fb .. pkt.fb + pkt.n - 1
    <3>1. own = open \cup here /\ \A k \in open : k \in Rows /\ k < pkt.fb
      BY <2>2, RowsAfterPacket
    <3>2. own \subseteq 0 .. m - 1
      <4>1. \A k \in open : k \in Nat /\ k < pkt.fb
        BY <1>1, <3>1 DEF Rows
      <4>2. open \subseteq 0 .. m - 1 /\ here \subseteq 0 .. m - 1
        BY <1>1, <4>1
      <4> HIDE DEF open, here, own
      <4> QED
        BY <3>1, <4>2
    <3>3. IsFiniteSet(here) /\ Cardinality(here) = pkt.n
      <4>1. /\ pkt.fb \in Int /\ pkt.fb + pkt.n - 1 \in Int
            /\ (IF pkt.fb > pkt.fb + pkt.n - 1 THEN 0
                ELSE (pkt.fb + pkt.n - 1) - pkt.fb + 1) = pkt.n
        BY <1>1
      <4> QED
        BY <4>1, FS_Interval
    <3>4. open \cap here = {}
      BY <1>1, <3>1 DEF Rows
    <3>5. Cardinality(open \cap here) = 0
      BY <3>4, FS_EmptySet
    <3> HIDE DEF open, here, own
    <3>6. Cardinality(own) = Cardinality(open) + Cardinality(here) - Cardinality(open \cap here)
      BY <1>5, <3>1, <3>3, FS_Union
    <3>7. W = O + pkt.n
      BY <1>1, <1>5, <3>3, <3>5, <3>6
    <3> QED
      BY <1>1, <1>5, <2>2, <3>2, <3>7
  <2> QED
    BY <2>1, <2>2
<1>8. C = IF NextFrame(pkt) THEN L + (m - O) ELSE L
  <2>1. CASE NextFrame(pkt)
    <3>1. OpenRows = OwnIn(bf_w, ts_aux) /\ OpenRows \subseteq 0 .. pkt.im - 1
      BY <1>1, <2>1, RowsAfterPacket
    <3>2. Cardinality(LostOf(g)) = m - O
      BY <1>1, <3>1, LostOfFile
    <3>3. g \in Files
      BY <1>1, FileType
    <3> HIDE DEF g
    <3>4. Cardinality(LostIn(Append(written, g))) = L + Cardinality(LostOf(g))
      BY <1>1, <3>3, LostMore
    <3> QED
      BY <1>3, <2>1, <3>2, <3>4
  <2>2. CASE ~NextFrame(pkt)
    BY <1>3, <2>2
  <2> QED
    BY <2>1, <2>2
<1>9. Cardinality(LostIn(written')) = IF pkt.m = 1 THEN C + (m - W) ELSE C
  <2>1. CASE pkt.m = 1
    <3>1. Cardinality(LostOf(f)) = m - W
      BY <1>1, <1>7, LostOfFile
    <3> HIDE DEF f, c
    <3>2. Cardinality(LostIn(Append(c, f))) = C + Cardinality(LostOf(f))
      BY <1>2, LostMore
    <3> QED
      BY <1>3, <2>1, <3>1, <3>2
  <2>2. CASE pkt.m # 1
    BY <1>3, <2>2
  <2> QED
    BY <2>1, <2>2
<1>10. Cardinality(OpenRows') = IF pkt.m = 1 THEN 0 ELSE W
  <2>1. OpenRows' = IF pkt.m = 1 THEN {} ELSE own
    BY <1>2, <1>3 DEF OpenRows
  <2> HIDE DEF own
  <2> QED
    BY <2>1, FS_EmptySet
<1>11. (total_blocks - blocks_received) + O = L
  BY DEF BlocksCounted
<1> HIDE DEF c, open, own, f, g, O, W, L, C, t, m, n
<1>12. BlocksInPaq(pkt) = IF NextFrame(pkt) THEN 0 ELSE pkt.n
  BY DEF BlocksInPaq
<1>13. Dispatched(pkt) * m = (IF NextFrame(pkt) THEN m ELSE 0) + (IF pkt.m = 1 THEN m ELSE 0)
  <2>1. CASE NextFrame(pkt) /\ pkt.m = 1
    BY <1>1, <2>1 DEF Dispatched
  <2>2. CASE NextFrame(pkt) /\ pkt.m = 0
    BY <1>1, <2>2 DEF Dispatched
  <2>3. CASE ~NextFrame(pkt) /\ pkt.m = 1
    BY <1>1, <2>3 DEF Dispatched
  <2>4. CASE ~NextFrame(pkt) /\ pkt.m = 0
    BY <1>1, <2>4 DEF Dispatched
  <2> QED
    BY <1>1, <2>1, <2>2, <2>3, <2>4
<1>14. /\ total_blocks' = total_blocks + ((IF NextFrame(pkt) THEN m ELSE 0)
                                          + (IF pkt.m = 1 THEN m ELSE 0))
       /\ blocks_received' = blocks_received + (IF NextFrame(pkt) THEN 0 ELSE pkt.n)
  BY <1>3, <1>12, <1>13
<1>15. /\ total_blocks \in Nat /\ blocks_received \in Nat /\ m \in Nat /\ n \in Nat
       /\ O \in Nat /\ L \in Nat /\ (total_blocks - blocks_received) + O = L
  BY <1>1, <1>4, <1>5, <1>6, <1>11 DEF n
<1>16. (total_blocks' - blocks_received') + Cardinality(OpenRows')
         = Cardinality(LostIn(written'))
  <2>1. CASE NextFrame(pkt) /\ pkt.m = 1
    <3>1. /\ total_blocks' = total_blocks + (m + m)
          /\ blocks_received' = blocks_received + 0
      BY <1>1, <1>4, <1>14, <2>1
    <3>2. Cardinality(OpenRows') = 0
      BY <1>7, <1>10, <2>1
    <3>3. C = L + (m - O) /\ W = 0
      BY <1>7, <1>8, <2>1
    <3>4. Cardinality(LostIn(written')) = C + (m - W)
      BY <1>9, <2>1
    <3> QED
      BY <1>15, <3>1, <3>2, <3>3, <3>4
  <2>2. CASE NextFrame(pkt) /\ pkt.m # 1
    <3>1. /\ total_blocks' = total_blocks + m
          /\ blocks_received' = blocks_received + 0
      BY <1>1, <1>4, <1>14, <2>2
    <3>2. Cardinality(OpenRows') = 0
      BY <1>7, <1>10, <2>2
    <3>3. Cardinality(LostIn(written')) = L + (m - O)
      BY <1>7, <1>8, <1>9, <2>2
    <3> QED
      BY <1>15, <3>1, <3>2, <3>3
  <2>3. CASE ~NextFrame(pkt) /\ pkt.m = 1
    <3>1. /\ total_blocks' = total_blocks + m
          /\ blocks_received' = blocks_received + n
      BY <1>1, <1>4, <1>14, <2>3 DEF n
    <3>2. Cardinality(OpenRows') = 0
      BY <1>7, <1>10, <2>3
    <3>3. Cardinality(LostIn(written')) = L + (m - (O + n))
      BY <1>7, <1>8, <1>9, <2>3 DEF n
    <3> QED
      BY <1>15, <3>1, <3>2, <3>3
  <2>4. CASE ~NextFrame(pkt) /\ pkt.m # 1
    <3>1. /\ total_blocks' = total_blocks + 0
          /\ blocks_received' = blocks_received + n
      BY <1>1, <1>4, <1>14, <2>4 DEF n
    <3>2. Cardinality(OpenRows') = O + n
      BY <1>7, <1>10, <2>4 DEF n
    <3>3. Cardinality(LostIn(written')) = L
      BY <1>7, <1>8, <1>9, <2>4
    <3> QED
      BY <1>15, <3>1, <3>2, <3>3
  <2>5. pkt.m = 1 \/ pkt.m # 1
    OBVIOUS
  <2> QED
    BY <2>1, <2>2, <2>3, <2>4, <2>5
<1> QED
  BY <1>16 DEF BlocksCounted

(* Every step keeps the count.                                             *)
LEMMA BlocksKept ==
  ASSUME TimestampsGrow, OrderedInvs, FilesInv, PastInv, BlocksInv, [Next]_vars
  PROVE  BlocksInv'
<1> DEFINE after(a) == stream'[arrivals'[a]]
           AllCame == \A k \in OpenRows' : \E a \in 1 .. arrived' :
                        /\ after(a).ts = ts_current'
                        /\ k < after(a).fb + after(a).n
<1>1. /\ arrived \in Nat /\ NetworkStep /\ arrived <= Len(arrivals)
      /\ DOMAIN arrivals = 1 .. Len(arrivals) /\ Len(arrivals) \in Nat
  BY StreamSteps
     DEF OrderedInvs, StreamInvs, HandlingInv, ReceiverInv, ReceiverTypeOK,
         AccountTypeOK, NetworkInv
<1>2. FramesNeverShrink' = FramesNeverShrink
  <2>1. sizes' = sizes
    BY <1>1, NetworkSends, SentKept DEF OrderedInvs, StreamInvs, NetworkInv
  <2> QED
    BY <2>1 DEF FramesNeverShrink, Frames, SizeOf, EarlierFrame
<1>3. \A a \in 1 .. arrived : after(a) = Last(a)
  <2>1. \A a \in 1 .. arrived : a \in DOMAIN arrivals
    BY <1>1
  <2>2. \A a \in DOMAIN arrivals :
          arrivals'[a] = arrivals[a] /\ stream'[arrivals[a]] = stream[arrivals[a]]
    BY <1>1, PastKept DEF OrderedInvs, StreamInvs
  <2> QED
    BY <2>1, <2>2 DEF Last
<1> SUFFICES /\ ~stop' /\ FramesNeverShrink => BlocksCounted'
             /\ startup' => \A k \in Rows : bf_w'[k] = Garbage
             /\ AllCame
  BY <1>2 DEF BlocksInv, OpenRowsCame, Last
<1> HIDE DEF after
<1>4. CASE Handling /\ Accept
  <2>1. /\ startup' = FALSE /\ arrived' = arrived + 1 /\ UNCHANGED networkVars
        /\ pkt = Datagram(Next1) /\ first' = (pkt.m = 1) /\ stop' = stop
        /\ pkt \in Packets
    BY <1>4 DEF Handling, Accept
  <2>2. ~stop' /\ FramesNeverShrink => BlocksCounted'
    BY <1>4, <2>1, PacketCounted DEF BlocksInv
  <2>3. after(arrived') = stream[Next1] /\ arrived' \in 1 .. arrived'
        /\ 1 .. arrived \subseteq 1 .. arrived'
    BY <1>1, <2>1 DEF after, networkVars, Next1
  <2>4. ts_current' = pkt.ts
    BY <1>4, AcceptInOrder
  <2>5. AllCame
    <3> SUFFICES ASSUME NEW k \in OpenRows'
                 PROVE  \E a \in 1 .. arrived' : /\ after(a).ts = ts_current'
                                                 /\ k < after(a).fb + after(a).n
      OBVIOUS
    <3>1. ~first' /\ k \in OwnIn(bf_w', pkt.ts)
      BY <2>4 DEF OpenRows
    <3>2. ~NextFrame(pkt)
      BY <1>4, <3>1, RowsAfterPacket
    <3>3. k \in OpenRows \/ k \in pkt.fb .. pkt.fb + pkt.n - 1
      BY <1>4, <3>1, <3>2, RowsAfterPacket
    <3>4. CASE k \in OpenRows
      <4>1. PICK a \in 1 .. arrived : Last(a).ts = ts_current /\ k < Last(a).fb + Last(a).n
        BY <3>4 DEF BlocksInv, OpenRowsCame
      <4>2. pkt.ts = ts_current
        BY <1>4, <3>2, <3>4 DEF OpenRows, Accept, NextFrame, OtherFrame
      <4> QED
        BY <1>3, <2>3, <2>4, <4>1, <4>2
    <3>5. CASE k \in pkt.fb .. pkt.fb + pkt.n - 1
      <4>1. /\ pkt.ts = stream[Next1].ts /\ pkt.fb = stream[Next1].fb
            /\ pkt.n = stream[Next1].n
        BY <2>1 DEF Datagram
      <4>2. pkt.fb \in Nat /\ pkt.n \in Nat
        BY <2>1, FieldsAreNumbers
      <4>3. k < pkt.fb + pkt.n
        BY <3>5, <4>2
      <4> QED
        BY <2>3, <2>4, <4>1, <4>3
    <3> QED
      BY <3>3, <3>4, <3>5
  <2> QED
    BY <2>1, <2>2, <2>5
<1>5. CASE ~(Handling /\ Accept)
  <2>1. /\ startup' => startup
        /\ UNCHANGED <<bf_w, first, ts_current>>
        /\ arrived' = arrived \/ arrived' = arrived + 1
        /\ ~stop => written' = written
    <3>1. CASE Handling /\ DropLate
      BY <3>1 DEF Handling, DropLate, frameVars
    <3>2. CASE DispatchAndStop
      BY <3>2 DEF DispatchAndStop, InFrame, accountVars
    <3>3. CASE Idle
      BY <3>3 DEF Idle, accountVars, frameVars
    <3> QED
      BY <1>5, <3>1, <3>2, <3>3, StepKinds DEF OrderedInvs
  <2>2. OpenRows' = OpenRows
    BY <2>1 DEF OpenRows
  <2>3. 1 .. arrived \subseteq 1 .. arrived'
    BY <1>1, <2>1
  <2>4. AllCame
    BY <1>3, <2>1, <2>2, <2>3 DEF BlocksInv, OpenRowsCame
  <2>5. startup' => \A k \in Rows : bf_w'[k] = Garbage
    BY <2>1 DEF BlocksInv
  <2>6. ASSUME ~stop', FramesNeverShrink PROVE BlocksCounted'
    <3>1. ~Accept
      <4>1. Accept => arrived' # arrived /\ pc' = "test"
        BY <1>1 DEF Accept, Account
      <4>2. ~(DispatchAndStop /\ Accept) /\ ~(Idle /\ Accept)
        BY <4>1 DEF DispatchAndStop, Idle, accountVars
      <4> QED
        BY <1>5, <4>2, StepKinds DEF OrderedInvs, DropLate, Accept
    <3>2. ~stop /\ UNCHANGED <<total_blocks, blocks_received>>
      BY <2>6, <3>1, CountersStay
    <3>3. BlocksCounted
      BY <2>6, <3>2 DEF BlocksInv
    <3> QED
      BY <2>1, <2>2, <3>2, <3>3 DEF BlocksCounted
  <2> QED
    BY <2>4, <2>5, <2>6
<1> QED
  BY <1>4, <1>5

(* The rows of a file that show its own frame are those of its time.       *)
LEMMA LostAreMissing ==
  ASSUME TimestampsGrow, OrderedInvs, FilesInv, PastInv
  PROVE  LostIn(written) = MissingRows
<1> SUFFICES ASSUME NEW f \in DOMAIN written
             PROVE  OwnRows(written[f]) = OwnIn(written[f].rows, written[f].name)
  BY DEF LostIn, LostOf, MissingRows, IsMissing
<1> DEFINE file == written[f]
           u == FrameOf(file)
<1>1. StreamInv /\ \E w \in Frames : TsOf(w) = file.name
  BY FilesInvMeans
     DEF FilesAreFramesSeen, OneFilePerFrame, OrderedInvs, StreamInvs, NetworkInv
<1>2. u \in Frames /\ TsOf(u) = file.name
  BY <1>1 DEF FrameOf
<1>3. \A k \in DOMAIN file.rows : file.rows[k] # Garbage => file.rows[k].img \in Frames
  BY DEF PastInv, NoLater
<1>4. ASSUME NEW v \in Frames, TsOf(v) = file.name PROVE v = u
  <2> HIDE DEF u, file
  <2>1. ~EarlierFrame(u, v) /\ ~EarlierFrame(v, u)
    <3>1. TsOf(u) \in Nat /\ TsOf(v) \in Nat
      BY <1>1, <1>2, TsOfFrame
    <3>2. EarlierFrame(u, v) => TsOf(u) < TsOf(v)
      BY <1>1, <1>2, EarlierTs
    <3>3. EarlierFrame(v, u) => TsOf(v) < TsOf(u)
      BY <1>1, <1>2, EarlierTs
    <3> QED
      BY <1>2, <1>4, <3>1, <3>2, <3>3
  <2>2. /\ u = <<u[1], u[2]>> /\ u[1] \in Nat /\ u[2] \in Nat
        /\ v = <<v[1], v[2]>> /\ v[1] \in Nat /\ v[2] \in Nat
    <3>1. \A e \in DOMAIN sizes : e \in Nat /\ \A h \in DOMAIN sizes[e] : h \in Nat
      <4>1. /\ DOMAIN sizes = 1 .. Len(sizes) /\ Len(sizes) \in Nat
            /\ \A e \in DOMAIN sizes : /\ DOMAIN sizes[e] = 1 .. Len(sizes[e])
                                       /\ Len(sizes[e]) \in Nat
        BY <1>1, SizesFacts DEF StreamInv
      <4> QED
        BY <4>1
    <3> QED
      BY <1>2, <3>1 DEF Frames
  <2> QED
    BY <2>1, <2>2 DEF EarlierFrame
<1> HIDE DEF u, file
<1>5. OwnRows(file) = OwnIn(file.rows, file.name)
  BY <1>2, <1>3, <1>4 DEF OwnRows, OwnIn, u
<1> QED
  BY <1>5 DEF file

(* BlocksLostAreMissingRows: on a network that keeps the order, total      *)
(* minus received blocks (LHE_receiver.c:547-560) are the rows missing in  *)
(* the files, whatever was lost, rollovers of the sequence number          *)
(* included.                                                               *)
THEOREM BlocksLostAreAlwaysMissingRows ==
  ASSUME InOrder, TimestampsGrow PROVE Spec => []BlocksLostAreMissingRows
<1>1. Init => OrderedInvs /\ FilesInv /\ PastInv /\ BlocksInv
  <2>1. Init => OrderedInvs
    BY StreamInvsStart, OrderStart DEF Init, OrderedInvs
  <2>2. Init => FilesInv /\ PastInv
    BY DEF Init, ReceiverInit, AccountInit, FilesInv, Growing, Below, PastInv, NoLater
  <2>3. Init => BlocksInv
    <3> SUFFICES ASSUME Init PROVE BlocksInv
      OBVIOUS
    <3>1. /\ first = TRUE /\ written = <<>> /\ total_blocks = 0 /\ blocks_received = 0
          /\ \A k \in Rows : bf_w[k] = Garbage
      BY DEF Init, ReceiverInit
    <3>2. OpenRows = {} /\ LostIn(written) = {}
      BY <3>1 DEF OpenRows, LostIn
    <3> QED
      BY <3>1, <3>2, FS_EmptySet DEF BlocksInv, BlocksCounted, OpenRowsCame
  <2> QED
    BY <2>1, <2>2, <2>3
<1>2. OrderedInvs /\ FilesInv /\ PastInv /\ BlocksInv /\ [Next]_vars
      => OrderedInvs' /\ FilesInv' /\ PastInv' /\ BlocksInv'
  BY OrderedInvsKept, FilesKept, RowsKept, BlocksKept
<1>3. OrderedInvs /\ FilesInv /\ PastInv /\ BlocksInv => BlocksLostAreMissingRows
  <2> SUFFICES ASSUME OrderedInvs, FilesInv, PastInv, BlocksInv, FramesNeverShrink, first,
                      ~stop
               PROVE  total_blocks - blocks_received = Cardinality(MissingRows)
    BY DEF BlocksLostAreMissingRows
  <2>1. (total_blocks - blocks_received) + 0 = Cardinality(MissingRows)
    BY LostAreMissing, FS_EmptySet DEF BlocksInv, BlocksCounted, OpenRows
  <2>2. total_blocks \in Nat /\ blocks_received \in Nat
    BY DEF OrderedInvs, StreamInvs, ReceiverInv, ReceiverTypeOK
  <2> QED
    BY <2>1, <2>2
<1> QED
  BY <1>1, <1>2, <1>3, PTL DEF Spec

-----------------------------------------------------------------------------
(* Nothing lost, late or stopped: the receiver shows the video             *)

(* A single video over a lossless network that keeps the order, and nobody *)
(* stops the receiver.                                                     *)
Lossless == /\ InOrder /\ MaxLosses = 0 /\ MaxSignals = 0
            /\ \A s \in SizeSets : Len(s) = 1

(* All frames before the one of the last packet handled are written, whole;*)
(* this one too if that packet had the marker, and otherwise its blocks so *)
(* far are in the buffer.                                                  *)
ShownInv ==
  /\ ~stop /\ signals = 0
  /\ \A g \in DOMAIN written : written[g].rows = Link!Whole(g)
  /\ startup => first /\ written = <<>>
  /\ \A k \in {arrived} \ {0} :
       /\ first <=> stream[k].m = 1
       /\ Len(written) = stream[k].frame - (1 - stream[k].m)
       /\ ~first => ts_current = stream[k].ts /\ InBuffer(k)

(* Every packet arrives, in its turn.                                      *)
LEMMA AllArrive ==
  ASSUME Lossless, OrderedInvs
  PROVE  \A a \in DOMAIN arrivals : arrivals[a] = a
<1>1. /\ Len(arrivals) \in Nat /\ DOMAIN arrivals = 1 .. Len(arrivals)
      /\ \A a \in DOMAIN arrivals : arrivals[a] \in Nat
      /\ losses = 0 /\ Len(stream) \in Nat
  BY DEF Lossless, OrderedInvs, StreamInvs, NetworkInv, OrderInv, StreamInv
<1> SUFFICES ASSUME NEW a \in DOMAIN arrivals PROVE arrivals[a] = a
  OBVIOUS
<1> DEFINE L == Len(arrivals)
<1>2. L \in DOMAIN arrivals /\ a <= L /\ a \in Nat
  BY <1>1
<1>3. OnTheWay \in Nat
  BY DEF OnTheWay
<1>4. /\ Len(stream) = L + losses + OnTheWay /\ arrivals[L] <= Len(stream) - OnTheWay
      /\ arrivals[a] >= a /\ arrivals[L] - arrivals[a] >= L - a
  BY <1>2 DEF OrderedInvs, OrderInv
<1> HIDE DEF L
<1> QED
  BY <1>1, <1>2, <1>3, <1>4

(* The frame of a packet of the only file, and what comes before it.       *)
LEMMA NextInLine ==
  ASSUME Lossless, OrderedInvs, ShownInv, Handling
  PROVE  LET q == stream[Next1] IN
           /\ Next1 = arrived + 1 /\ FrameAt(Next1) = <<1, q.frame>>
           /\ q.frame \in DOMAIN sizes[1] /\ Size(q) = sizes[1][q.frame]
           /\ Len(written) = q.frame - 1
           /\ ~first => ts_current = q.ts
           /\ \A i \in 0 .. q.fb - 1 : bf_w[i] = Block(Next1, i)
<1> DEFINE q == stream[Next1]
<1>1. /\ arrived \in Nat /\ arrived + 1 \in DOMAIN arrivals /\ Next1 \in DOMAIN stream
      /\ Next1 = arrived + 1 /\ (startup <=> arrived = 0) /\ StreamInv
  BY NextArrived, AllArrive DEF OrderedInvs, StreamInvs, NetworkInv, Next1
<1>2. \A k \in DOMAIN stream : /\ stream[k].file = 1 /\ stream[k].frame \in DOMAIN sizes[1]
                               /\ Size(stream[k]) = sizes[1][stream[k].frame]
                               /\ FrameAt(k) = <<1, stream[k].frame>>
                               /\ stream[k].frame \in Nat /\ stream[k].m \in {0, 1}
                               /\ stream[k].fb \in Nat /\ stream[k].n \in Nat
                               /\ stream[k].ts = Source!TsOf(1, stream[k].frame)
  <2>1. sizes \in SizeSets /\ Len(sizes) = 1 /\ DOMAIN sizes = 1 .. Len(sizes)
    BY <1>1, SizesFacts DEF StreamInv, Lossless
  <2>2. \A k \in DOMAIN stream : Fits(stream[k])
    BY <1>1 DEF StreamInv
  <2>3. \A k \in DOMAIN stream : stream[k].file = 1
    BY <2>1, <2>2 DEF Fits
  <2>4. ASSUME NEW k \in DOMAIN stream
        PROVE  /\ stream[k].frame \in Nat /\ stream[k].m \in {0, 1}
               /\ stream[k].fb \in Nat /\ stream[k].n \in Nat
    BY <1>1, StreamFields
  <2> QED
    BY <2>2, <2>3, <2>4 DEF Fits, Size, FrameAt
<1>3. CASE startup
  <2>1. stream[1].frame = 1 /\ stream[1].fb = 0
    BY <1>1 DEF StreamInv
  <2>2. first /\ written = <<>>
    BY <1>3 DEF ShownInv
  <2> QED
    BY <1>1, <1>2, <1>3, <2>1, <2>2
<1>4. CASE ~startup
  <2> DEFINE p == stream[arrived]
  <2>1. arrived \in DOMAIN stream /\ arrived \in 1 .. Len(stream) - 1 /\ arrived # 0
    <3>1. DOMAIN stream = 1 .. Len(stream) /\ Len(stream) \in Nat
      BY <1>1 DEF StreamInv
    <3> QED
      BY <1>1, <1>4, <3>1
  <2>2. Continues(p, q)
    BY <1>1, <2>1 DEF StreamInv
  <2>3. /\ first <=> p.m = 1
        /\ Len(written) = p.frame - (1 - p.m)
        /\ ~first => ts_current = p.ts /\ InBuffer(arrived)
    BY <2>1 DEF ShownInv
  <2>4. p.file = 1 /\ q.file = 1 /\ p.frame \in Nat /\ p.m \in {0, 1}
        /\ p.fb \in Nat /\ p.n \in Nat
    BY <1>1, <1>2, <2>1
  <2>5. CASE p.m = 0
    <3>1. OneFrame(p, q) /\ q.fb = p.fb + p.n
      BY <2>2, <2>4, <2>5 DEF Continues
    <3>2. q.frame = p.frame /\ q.ts = p.ts /\ FrameAt(Next1) = FrameAt(arrived)
      BY <1>1, <1>2, <2>1, <3>1 DEF OneFrame
    <3>3. \A i \in 0 .. q.fb - 1 : bf_w[i] = Block(Next1, i)
      <4>1. \A i : Block(Next1, i) = Block(arrived, i)
        BY <3>2 DEF Block
      <4>2. \A i \in 0 .. p.fb + p.n - 1 : bf_w[i] = Block(arrived, i)
        BY <2>3, <2>5 DEF InBuffer
      <4>3. q.fb - 1 = p.fb + p.n - 1
        <5> HIDE DEF p, q
        <5> QED
          BY <2>4, <3>1
      <4> HIDE DEF p, q
      <4> QED
        BY <4>1, <4>2, <4>3, Zenon
    <3>4. Len(written) = q.frame - 1
      BY <2>3, <2>5, <3>2
    <3> QED
      BY <1>1, <1>2, <2>3, <2>5, <3>2, <3>3, <3>4
  <2>6. CASE p.m = 1
    <3>1. q.frame = p.frame + 1 /\ q.fb = 0
      BY <2>2, <2>4, <2>6 DEF Continues
    <3>2. Len(written) = q.frame - 1 /\ first
      <4> HIDE DEF p, q
      <4> QED
        BY <2>3, <2>4, <2>6, <3>1
    <3>3. \A i \in 0 .. q.fb - 1 : FALSE
      BY <3>1
    <3> QED
      BY <1>1, <1>2, <3>2, <3>3
  <2> QED
    BY <2>4, <2>5, <2>6
<1> QED
  BY <1>3, <1>4

(* Nobody stops the receiver.                                              *)
LEMMA NobodyStops ==
  ASSUME Lossless, ShownInv, [Next]_vars PROVE ~stop' /\ signals' = 0
<1>1. ~Interrupt
  BY DEF Lossless, ShownInv, Interrupt
<1>2. CASE Receive
  BY <1>2 DEF Receive, Work, TestStop, EnterRecv, DispatchAndStop, RecvFailed,
              DropLate, Accept, ShownInv, InFrame
<1>3. CASE Delivery /\ UNCHANGED signals
  BY <1>3 DEF Delivery, Deliver, ShownInv
<1>4. CASE (Transmit \/ Lose) /\ UNCHANGED <<receiverVars, signals>>
  BY <1>4 DEF receiverVars, ShownInv
<1>5. CASE UNCHANGED vars
  BY <1>5 DEF vars, receiverVars, ShownInv
<1> QED
  BY <1>1, <1>2, <1>3, <1>4, <1>5 DEF Next

(* What the files show.                                                    *)
RowsOf(w) == [g \in DOMAIN w |-> w[g].rows]
(* One more file shows one more frame.                                     *)
LEMMA OneMoreShown ==
  ASSUME NEW w \in Seq(Files), NEW f \in Files
  PROVE  RowsOf(Append(w, f)) = Append(RowsOf(w), f.rows) /\ Len(RowsOf(w)) = Len(w)
<1> DEFINE A == {w[g].rows : g \in 1 .. Len(w)} \cup {f.rows}
           s == [g \in 1 .. Len(w) |-> w[g].rows]
           e == Append(s, f.rows)
           r == [g \in 1 .. Len(w) + 1 |-> Append(w, f)[g].rows]
<1>1. /\ Len(w) \in Nat /\ DOMAIN w = 1 .. Len(w)
      /\ DOMAIN Append(w, f) = 1 .. Len(w) + 1 /\ Append(w, f)[Len(w) + 1] = f
      /\ \A g \in 1 .. Len(w) : Append(w, f)[g] = w[g]
  OBVIOUS
<1>2. RowsOf(w) = s /\ RowsOf(Append(w, f)) = r
  BY <1>1 DEF RowsOf
<1>3. s \in Seq(A) /\ Len(s) = Len(w) /\ f.rows \in A
  BY <1>1
<1>4. e \in Seq(A) /\ Len(e) = Len(w) + 1 /\ e[Len(w) + 1] = f.rows
      /\ \A g \in 1 .. Len(w) : e[g] = s[g]
  BY <1>3
<1>5. r \in Seq(A) /\ Len(r) = Len(w) + 1
  BY <1>1
<1>6. \A g \in 1 .. Len(w) + 1 : e[g] = r[g]
  BY <1>1, <1>4
<1>7. e = r
  <2> HIDE DEF e, r, A
  <2> QED
    BY <1>1, <1>4, <1>5, <1>6
<1> QED
  BY <1>2, <1>3, <1>7

(* The next packet is accepted, and its marker shows the frame.            *)
LEMMA ShowsNext ==
  ASSUME Lossless, OrderedInvs, ShownInv, [Next]_vars, Handling, Accept \/ DropLate
  PROVE  ShownInv' /\ (Link!Show \/ UNCHANGED Link!linkVars)
<1>0. PICK n \in Nat : n = Next1
  BY NextArrived DEF OrderedInvs
<1> DEFINE q == stream[n]
<1>1. /\ n = arrived + 1 /\ FrameAt(n) = <<1, q.frame>>
      /\ q.frame \in DOMAIN sizes[1] /\ Size(q) = sizes[1][q.frame]
      /\ Len(written) = q.frame - 1
      /\ ~first => ts_current = q.ts
      /\ \A i \in 0 .. q.fb - 1 : bf_w[i] = Block(n, i)
  BY <1>0, NextInLine
<1>2. /\ pkt.ts = q.ts /\ pkt.m = q.m /\ pkt.im = Size(q) /\ pkt \in Packets
      /\ n \in DOMAIN stream /\ UNCHANGED <<sizes, stream>>
      /\ arrived' = arrived + 1 /\ startup' = FALSE
  BY <1>0 DEF Handling, Datagram, Size, networkVars
<1>3. ~OtherFrame(pkt) /\ ~NextFrame(pkt) /\ ~PriorFrame(pkt)
  BY <1>1, <1>2 DEF OtherFrame, NextFrame, PriorFrame
<1>4. Accept
  BY <1>3 DEF DropLate
<1>5. \A i \in 0 .. q.fb + q.n - 1 : i \in Rows /\ bf_w'[i] = Block(n, i)
  BY <1>0, <1>1, <1>3, <1>4, BlocksCopied
<1>6. StreamInv /\ ReceiverInv /\ ReceiverInv'
  BY StreamInvsKept DEF OrderedInvs, StreamInvs, NetworkInv
<1>7. /\ q.m \in {0, 1} /\ q.frame \in Nat /\ q.fb \in Nat /\ q.n \in Nat
      /\ q.m = 1 <=> q.fb + q.n = Size(q)
  BY <1>2, <1>6, StreamFields DEF StreamInv, Fits
<1>8. /\ written \in Seq(Files) /\ Len(written) \in Nat
      /\ ts_aux' \in Nat /\ bf_w' \in [Rows -> Content]
  <2>1. ReceiverTypeOK /\ ReceiverTypeOK'
    BY <1>6 DEF ReceiverInv
  <2>2. ts_aux' \in Nat /\ bf_w' \in [Rows -> Content]
    BY <2>1 DEF ReceiverTypeOK, Rows, Content
  <2>3. written \in Seq(Files) /\ Len(written) \in Nat
    BY <2>1 DEF ReceiverTypeOK
  <2> QED
    BY <2>2, <2>3
<1>9. /\ first' = (q.m = 1)
      /\ first \/ ts_current' = ts_current
      /\ first => ts_current' = q.ts
      /\ written' = IF q.m = 1 THEN Append(written, File(ts_aux', pkt, bf_w'))
                               ELSE written
  BY <1>2, <1>3, <1>4 DEF Accept, Closed
<1>10. ~first' => ts_current' = q.ts /\ InBuffer(n)'
  <2>1. ts_current' = q.ts
    BY <1>1, <1>9
  <2>2. \A i : Block(n, i)' = Block(n, i)
    BY <1>2 DEF Block, FrameAt
  <2>3. stream'[n] = stream[n]
    BY <1>2
  <2>4. InBuffer(n)'
    BY <1>5, <2>2, <2>3 DEF InBuffer
  <2> QED
    BY <2>1, <2>4
<1>11. ~stop' /\ signals' = 0
  BY NobodyStops
<1>12. \A g : Link!Whole(g)' = Link!Whole(g)
  BY <1>2 DEF Link!Whole
<1>13. {arrived'} \ {0} = {n} /\ stream'[n] = q
  BY <1>0, <1>1, <1>2, NextArrived DEF OrderedInvs
<1>14. CASE q.m = 0
  <2>1. written' = written
    BY <1>9, <1>14
  <2>2. UNCHANGED Link!linkVars
    BY <1>2, <2>1 DEF Link!linkVars
  <2>3. Len(written') = q.frame - (1 - q.m)
    BY <1>1, <1>7, <1>14, <2>1
  <2>4. \A g \in DOMAIN written' : written'[g].rows = Link!Whole(g)'
    BY <1>12, <2>1 DEF ShownInv
  <2> QED
    BY <1>2, <1>9, <1>10, <1>11, <1>13, <2>2, <2>3, <2>4 DEF ShownInv
<1>15. CASE q.m = 1
  <2> DEFINE f == File(ts_aux', pkt, bf_w')
  <2>1. written' = Append(written, f)
    BY <1>9, <1>15
  <2>2. f \in Files
    BY <1>2, <1>8, FileType
  <2>3. f.rows = Link!Whole(q.frame)
    <3>1. f.rows = [i \in 0 .. Size(q) - 1 |-> bf_w'[i]]
      BY <1>2 DEF File
    <3>2. Size(q) - 1 = q.fb + q.n - 1
      <4> HIDE DEF q
      <4> QED
        BY <1>7, <1>15
    <3>3. \A i \in 0 .. Size(q) - 1 : bf_w'[i] = [img |-> <<1, q.frame>>, id |-> i]
      <4>1. \A i \in 0 .. q.fb + q.n - 1 : bf_w'[i] = [img |-> <<1, q.frame>>, id |-> i]
        BY <1>1, <1>5 DEF Block
      <4> HIDE DEF q
      <4> QED
        BY <3>2, <4>1, Zenon
    <3>4. f.rows = [i \in 0 .. Size(q) - 1 |-> [img |-> <<1, q.frame>>, id |-> i]]
      BY <3>1, <3>3
    <3> HIDE DEF f
    <3> QED
      BY <1>1, <3>4 DEF Link!Whole
  <2>4. Len(written) + 1 = q.frame
    <3> HIDE DEF q
    <3> QED
      BY <1>1, <1>7, <1>8
  <2> HIDE DEF f
  <2>5. /\ Len(written') = Len(written) + 1 /\ DOMAIN written' = 1 .. Len(written) + 1
        /\ DOMAIN written = 1 .. Len(written) /\ written'[Len(written) + 1] = f
        /\ \A g \in DOMAIN written : written'[g] = written[g]
    BY <1>8, <2>1, <2>2
  <2>6. \A g \in DOMAIN written' : written'[g].rows = Link!Whole(g)'
    BY <1>8, <1>12, <2>3, <2>4, <2>5 DEF ShownInv
  <2>7. Len(written') = q.frame - (1 - q.m)
    <3> HIDE DEF q
    <3> QED
      BY <1>7, <1>15, <2>4, <2>5
  <2>8. Link!Show
    <3>1. RowsOf(written)' = Append(RowsOf(written), f.rows)
          /\ Len(RowsOf(written)) = Len(written)
      BY <1>8, <2>1, <2>2, OneMoreShown DEF RowsOf
    <3>2. DOMAIN sizes[1] = 1 .. Len(sizes[1]) /\ Len(sizes[1]) \in Nat
      <4>1. sizes \in SizeSets /\ Len(sizes) = 1
        BY <1>6 DEF StreamInv, Lossless
      <4>2. 1 \in DOMAIN sizes
        BY <4>1, SizesFacts
      <4> QED
        BY <4>1, <4>2, SizesFacts
    <3>3. Len(RowsOf(written)) < Len(sizes[1])
      <4>1. q.frame <= Len(sizes[1])
        BY <1>1, <3>2
      <4> HIDE DEF q
      <4> QED
        BY <1>7, <1>8, <2>4, <3>1, <3>2, <4>1
    <3>4. Len(RowsOf(written)) + 1 = q.frame
      BY <2>4, <3>1
    <3>5. RowsOf(written)' = Append(RowsOf(written), Link!Whole(Len(RowsOf(written)) + 1))
      BY <2>3, <3>1, <3>4
    <3>6. UNCHANGED sizes[1]
      BY <1>2
    <3> QED
      BY <3>3, <3>5, <3>6 DEF Link!Show, RowsOf, Link!Whole
  <2> QED
    BY <1>2, <1>9, <1>10, <1>11, <1>13, <2>6, <2>7, <2>8 DEF ShownInv
<1> QED
  BY <1>7, <1>14, <1>15

(* Every step shows the next frame or leaves the picture alone.            *)
LEMMA ShownKept ==
  ASSUME Lossless, OrderedInvs, ShownInv, [Next]_vars
  PROVE  ShownInv' /\ (Link!Show \/ UNCHANGED Link!linkVars)
<1>1. CASE Handling /\ (Accept \/ DropLate)
  BY <1>1, ShowsNext
<1>2. CASE Idle
  <2>1. UNCHANGED <<startup, arrived, first, ts_current, bf_w, written>>
    BY <1>2 DEF Idle, accountVars, frameVars
  <2>2. NetworkStep /\ sizes' = sizes
    BY StreamSteps, SentKept, NetworkSends DEF OrderedInvs, StreamInvs, NetworkInv
  <2>3. ~stop' /\ signals' = 0
    BY NobodyStops
  <2>4. \A g : Link!Whole(g)' = Link!Whole(g)
    BY <2>2 DEF Link!Whole
  <2>5. arrived # 0 => arrived \in DOMAIN stream
    <3>1. /\ arrived \in Nat /\ arrived <= Len(arrivals) /\ Len(arrivals) \in Nat
          /\ DOMAIN arrivals = 1 .. Len(arrivals)
          /\ \A a \in DOMAIN arrivals : arrivals[a] \in DOMAIN stream
      BY DEF OrderedInvs, StreamInvs, NetworkInv, HandlingInv, ReceiverInv,
             ReceiverTypeOK, AccountTypeOK
    <3>2. arrived # 0 => arrived \in DOMAIN arrivals
      BY <3>1
    <3> QED
      BY <3>1, <3>2, AllArrive
  <2>6. ASSUME NEW k \in {arrived} \ {0}
        PROVE  stream'[k] = stream[k] /\ (InBuffer(k)' <=> InBuffer(k))
    <3>1. /\ stream'[k] = stream[k] /\ \A i : Block(k, i)' = Block(k, i)
      BY <2>2, <2>5, <2>6, PacketsStay
    <3> QED
      BY <2>1, <3>1 DEF InBuffer
  <2>7. UNCHANGED Link!linkVars
    BY <2>1, <2>2 DEF Link!linkVars
  <2>8. \A k \in {arrived'} \ {0} :
          /\ first' <=> stream'[k].m = 1
          /\ Len(written') = stream'[k].frame - (1 - stream'[k].m)
          /\ ~first' => ts_current' = stream'[k].ts /\ InBuffer(k)'
    BY <2>1, <2>6 DEF ShownInv
  <2>9. /\ \A g \in DOMAIN written' : written'[g].rows = Link!Whole(g)'
        /\ startup' => first' /\ written' = <<>>
    BY <2>1, <2>4 DEF ShownInv
  <2> QED
    BY <2>3, <2>7, <2>8, <2>9 DEF ShownInv
<1>3. CASE DispatchAndStop
  BY <1>3 DEF DispatchAndStop, InFrame, ShownInv
<1> QED
  BY <1>1, <1>2, <1>3, StepKinds DEF OrderedInvs

(* The safety part of ImplementsVideoLink: for any video, split into       *)
(* packets in any way, transmitter, network and receiver put out its       *)
(* frames one by one, in order, each complete and with nothing in it that  *)
(* belongs to another (LHE_receiver.c:319-480).                            *)
THEOREM LosslessShowsTheVideo ==
  ASSUME Lossless PROVE Spec => Link!LinkInit /\ [][Link!Show]_(Link!linkVars)
<1>1. Init => OrderedInvs /\ ShownInv /\ Link!LinkInit
  <2> SUFFICES ASSUME Init PROVE OrderedInvs /\ ShownInv /\ Link!LinkInit
    OBVIOUS
  <2>1. OrderedInvs
    BY StreamInvsStart, OrderStart DEF Init, OrderedInvs
  <2>2. /\ startup /\ arrived = 0 /\ first = TRUE /\ written = <<>> /\ stop = FALSE
        /\ signals = 0 /\ sizes \in SizeSets
    BY DEF Init, ReceiverInit, AccountInit, NetworkInit, Source!StreamInit
  <2>3. ShownInv
    BY <2>2 DEF ShownInv
  <2>4. Link!LinkInit
    BY <2>2 DEF Link!LinkInit
  <2> QED
    BY <2>1, <2>3, <2>4
<1>2. OrderedInvs /\ ShownInv /\ [Next]_vars
      => OrderedInvs' /\ ShownInv' /\ [Link!Show]_(Link!linkVars)
  BY OrderedInvsKept, ShownKept DEF Lossless
<1> QED
  BY <1>1, <1>2, PTL DEF Spec
=============================================================================
