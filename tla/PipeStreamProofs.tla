-------------------------- MODULE PipeStreamProofs --------------------------
(***************************************************************************)
(* What LHE_receiver3 guarantees for every network and every reader of the *)
(* pipe: any packets in any order, SIGINT at any moment, a pipe of any     *)
(* size that may be read slowly, or no longer.  Then the player, its pool  *)
(* of decoding threads, and the two programs joined by the pipe, for every *)
(* video, every size of the pipe, of the packets and of the pool, and      *)
(* every bound of the network.                                             *)
(***************************************************************************)
EXTENDS PipeStream, ReceptionProofs

allVars == <<receiverVars, fifoVars>>

-----------------------------------------------------------------------------
(* Tokens                                                                  *)

(* What is written of a packet (LHE_receiver.c:759-798) is a token.        *)
LEMMA TokenType ==
  ASSUME NEW p \in Packets, NEW kind \in Kinds, NEW id \in Nat
  PROVE  Token(kind, p, id) \in Tokens
  BY PacketFields DEF Token, Tokens

(* So is the block header of length 0 (LHE_receiver.c:583-587).            *)
LEMMA EndType == EndOfFrame \in Tokens
  BY PacketAssumption DEF EndOfFrame, Tokens, Kinds

(* What the pipe saw last.                                                 *)
Last == IF piped = <<>> THEN EndOfFrame ELSE piped[Len(piped)]

(* One token more, if it may follow the last one, keeps the grammar.       *)
LEMMA GrammarAppend ==
  ASSUME piped \in Seq(Tokens), PipeGrammar, NEW t \in Tokens, Follows(Last, t),
         piped' = Append(piped, t)
  PROVE  piped' \in Seq(Tokens) /\ PipeGrammar' /\ Last' = t
<1>1. piped' \in Seq(Tokens) /\ Len(piped') = Len(piped) + 1 /\ piped' # <<>>
  OBVIOUS
<1>2. Last' = t
  BY <1>1 DEF Last
<1>3. piped'[1].kind = "header"
  <2>1. CASE piped = <<>>
    <3>1. Follows(EndOfFrame, t)
      BY <2>1 DEF Last
    <3>2. t.kind = "header"
      BY <3>1 DEF Follows, BlockDone, EndOfFrame
    <3> QED
      BY <2>1, <3>2
  <2>2. CASE piped # <<>>
    BY <2>2 DEF PipeGrammar
  <2> QED
    BY <2>1, <2>2
<1>4. ASSUME NEW k \in 1 .. Len(piped') - 1
      PROVE  Follows(piped'[k], piped'[k + 1])
  <2>1. CASE k < Len(piped)
    <3>1. Follows(piped[k], piped[k + 1])
      BY <2>1 DEF PipeGrammar
    <3>2. piped'[k] = piped[k] /\ piped'[k + 1] = piped[k + 1]
      BY <2>1
    <3> QED
      BY <3>1, <3>2
  <2>2. CASE k = Len(piped)
    <3>1. piped'[k] = Last /\ piped'[k + 1] = t
      BY <2>2, <1>1 DEF Last
    <3> QED
      BY <3>1
  <2> QED
    BY <1>1, <2>1, <2>2
<1> QED
  BY <1>1, <1>2, <1>3, <1>4 DEF PipeGrammar

-----------------------------------------------------------------------------
(* The grammar of the pipe                                                 *)

(* Where the code is, and what the pipe saw last.                          *)
Held ==
  /\ pkt \in Packets \cup {NoPacket}
  /\ received \/ ~first \/ pc \in Writes => pkt \in Packets
Place ==
  /\ first \in BOOLEAN
  /\ pc \in {"block", "number", "data", "marker"} => ~first /\ pkt.ts = ts_current
  /\ pc = "header" => first
  /\ pc = "end" => ~first
LastSeen ==
  /\ pc \notin Left /\ first => Last.kind = "end"
  /\ pc \notin Left \cup {"number", "data"} /\ ~first =>
       BlockDone(Last) /\ Last.ts = ts_current
  /\ pc = "number" => Last = Token("block", pkt, BlockNumber)
  /\ pc = "data" => Last = Token("number", pkt, BlockNumber)
GrammarInv ==
  /\ piped \in Seq(Tokens) /\ PipeGrammar
  /\ done \in Nat /\ Held /\ Place /\ LastSeen

(* LHE_receiver.c:548-664: nothing is written yet.                         *)
LEMMA GrammarInit == ReceiverInit => GrammarInv
<1> SUFFICES ASSUME ReceiverInit PROVE GrammarInv
  OBVIOUS
<1>1. piped = <<>> /\ Last = EndOfFrame
  BY DEF ReceiverInit, Last
<1>2. PipeGrammar /\ piped \in Seq(Tokens)
  BY <1>1 DEF PipeGrammar
<1> QED
  BY <1>1, <1>2 DEF ReceiverInit, GrammarInv, Held, Place, LastSeen, Writes, Left,
                    EndOfFrame

(* Steps that write nothing and stay with the packet and the frame.        *)
LEMMA GrammarKept ==
  ASSUME GrammarInv, UNCHANGED <<piped, first, ts_current, done, pkt>>,
         received' = received \/ received' = FALSE,
         \/ pc' = pc
         \/ pc' \in Left
         \/ pc \in {"test", "call", "recv", "got", "block"} /\ pc' \in {"test", "call", "recv", "got"}
         \/ pc = "block" /\ pc' = "marker"
         \/ pc \in {"got"} /\ pc' = "header" /\ first /\ pkt \in Packets
  PROVE  GrammarInv'
<1>1. Last' = Last /\ PipeGrammar'
  BY DEF Last, GrammarInv, PipeGrammar
<1> QED
  BY <1>1 DEF GrammarInv, Held, Place, LastSeen, Writes, Left, BlockNumber

(* The packet taken out of the socket.                                     *)
LEMMA GrammarDeliver ==
  ASSUME GrammarInv, NEW p \in Packets, Deliver(p)
  PROVE  GrammarInv'
<1>1. /\ pc = "recv" /\ pc' = "got" /\ pkt' = p
      /\ piped' = piped /\ first' = first /\ ts_current' = ts_current /\ done' = done
  BY DEF Deliver, frameVars, pipeVars
<1>2. Last' = Last /\ PipeGrammar'
  BY <1>1 DEF Last, GrammarInv, PipeGrammar
<1> QED
  BY <1>1, <1>2 DEF GrammarInv, Held, Place, LastSeen, Writes, Left

(* LHE_receiver.c:723-748: the packet belongs to the frame being written,  *)
(* opens a new one, or closes one whose marker is missing.                 *)
LEMMA GrammarAccept == ASSUME GrammarInv, Accept PROVE GrammarInv'
<1>1. /\ pc = "got" /\ pkt \in Packets /\ pkt' = pkt /\ received' = received
      /\ first' = first /\ ts_current' = ts_current /\ done' = 0 /\ piped' = piped
  BY DEF Accept, GrammarInv, Held, pipeVars, recvVars
<1>2. Last' = Last /\ PipeGrammar'
  BY <1>1 DEF Last, GrammarInv, PipeGrammar
<1>3. \/ pc' = "end" /\ ~first
      \/ pc' = "header" /\ first
      \/ pc' = "block" /\ ~first /\ pkt.ts = ts_current
  BY DEF Accept, NextFrame, PriorFrame, OtherFrame
<1> QED
  BY <1>1, <1>2, <1>3 DEF GrammarInv, Held, Place, LastSeen, Writes, Left

(* The six writes.                                                         *)
LEMMA GrammarWrite ==
  ASSUME GrammarInv,
         WriteEnd \/ WriteHeader \/ WriteBlock \/ WriteNumber \/ WriteData \/ WriteMarker
  PROVE  GrammarInv'
<1> USE DEF GrammarInv
<1>1. CASE WriteEnd \/ WriteMarker
  <2>1. /\ pc \in {"end", "marker"} /\ ~first /\ pkt \in Packets
        /\ piped' = Append(piped, EndOfFrame) /\ first' = TRUE /\ pkt' = pkt
        /\ done' = done /\ pc' \in {"header", "test"}
    BY <1>1 DEF WriteEnd, WriteMarker, Write, FirstAfterEnd, Place, Held, Writes,
                recvVars
  <2>2. Follows(Last, EndOfFrame)
    BY <2>1 DEF LastSeen, Follows, EndOfFrame, Left
  <2>3. piped' \in Seq(Tokens) /\ PipeGrammar' /\ Last' = EndOfFrame
    BY <2>1, <2>2, EndType, GrammarAppend
  <2> QED
    BY <2>1, <2>3 DEF Held, Place, LastSeen, Left, EndOfFrame
<1>2. CASE WriteHeader
  <2> DEFINE t == Token("header", pkt, pkt.im)
  <2>1. /\ pc = "header" /\ first /\ pkt \in Packets
        /\ piped' = Append(piped, t) /\ first' = FALSE /\ pkt' = pkt
        /\ ts_current' = pkt.ts /\ done' = done /\ pc' = "block"
    BY <1>2 DEF WriteHeader, Write, Place, Held, Writes, recvVars
  <2>2. t \in Tokens
    BY <2>1, TokenType, PacketFields, PacketAssumption DEF Kinds
  <2>3. t.kind = "header" /\ t.ts = pkt.ts
    BY DEF Token
  <2>4. Follows(Last, t)
    BY <2>1, <2>3 DEF LastSeen, Follows, Left
  <2> HIDE DEF t
  <2>5. piped' \in Seq(Tokens) /\ PipeGrammar' /\ Last' = t
    BY <2>1, <2>2, <2>4, GrammarAppend
  <2> QED
    BY <2>1, <2>3, <2>5 DEF Held, Place, LastSeen, Left, BlockDone
<1>3. CASE WriteBlock
  <2> DEFINE t == Token("block", pkt, BlockNumber)
  <2>1. /\ pc = "block" /\ ~first /\ pkt \in Packets /\ pkt.ts = ts_current
        /\ piped' = Append(piped, t) /\ first' = first /\ pkt' = pkt
        /\ ts_current' = ts_current /\ done' = done /\ pc' = "number"
    BY <1>3 DEF WriteBlock, Write, Place, Held, Writes, recvVars, frameVars
  <2>2. t \in Tokens
    BY <2>1, TokenType, PacketFields, SeqMax DEF Kinds, BlockNumber
  <2>3. t.kind = "block" /\ t.ts = pkt.ts
    BY DEF Token
  <2>4. Follows(Last, t)
    BY <2>1, <2>3 DEF LastSeen, Follows, Left
  <2>5. piped' \in Seq(Tokens) /\ PipeGrammar' /\ Last' = t
    <3> HIDE DEF t
    <3> QED
      BY <2>1, <2>2, <2>4, GrammarAppend
  <2>6. BlockNumber' = BlockNumber
    BY <2>1 DEF BlockNumber
  <2>7. Last' = Token("block", pkt', BlockNumber')
    BY <2>1, <2>5, <2>6
  <2> QED
    BY <2>1, <2>5, <2>7 DEF Held, Place, LastSeen, Left
<1>4. CASE WriteNumber
  <2> DEFINE t == Token("number", pkt, BlockNumber)
  <2>1. /\ pc = "number" /\ ~first /\ pkt \in Packets /\ pkt.ts = ts_current
        /\ piped' = Append(piped, t) /\ first' = first /\ pkt' = pkt
        /\ ts_current' = ts_current /\ done' = done /\ pc' = "data"
    BY <1>4 DEF WriteNumber, Write, Place, Held, Writes, recvVars, frameVars
  <2>2. t \in Tokens
    BY <2>1, TokenType, PacketFields, SeqMax DEF Kinds, BlockNumber
  <2>3. Last = Token("block", pkt, BlockNumber)
    BY <2>1 DEF LastSeen
  <2>4. Follows(Last, t)
    BY <2>3 DEF Follows, Token
  <2>5. piped' \in Seq(Tokens) /\ PipeGrammar' /\ Last' = t
    <3> HIDE DEF t
    <3> QED
      BY <2>1, <2>2, <2>4, GrammarAppend
  <2>6. BlockNumber' = BlockNumber
    BY <2>1 DEF BlockNumber
  <2>7. Last' = Token("number", pkt', BlockNumber')
    BY <2>1, <2>5, <2>6
  <2> QED
    BY <2>1, <2>5, <2>7 DEF Held, Place, LastSeen, Left
<1>5. CASE WriteData
  <2> DEFINE t == Token("data", pkt, BlockNumber)
  <2>1. /\ pc = "data" /\ ~first /\ pkt \in Packets /\ pkt.ts = ts_current
        /\ first' = first /\ pkt' = pkt /\ ts_current' = ts_current
        /\ done' = done + 1 /\ pc' = "block"
    BY <1>5 DEF WriteData, Place, Held, Writes, recvVars
  <2>2. Last = Token("number", pkt, BlockNumber)
    BY <2>1 DEF LastSeen
  <2>3. CASE NoData
    <3>1. piped' = piped
      BY <1>5, <2>3 DEF WriteData, pipeVars
    <3>2. Last' = Last /\ PipeGrammar'
      BY <3>1 DEF Last, PipeGrammar
    <3>3. BlockDone(Last) /\ Last.ts = pkt.ts
      BY <2>2, <2>3 DEF NoData, BlockDone, BlockOf, Token
    <3> QED
      BY <2>1, <3>1, <3>2, <3>3 DEF Held, Place, LastSeen, Left
  <2>4. CASE ~NoData
    <3>1. piped' = Append(piped, t)
      BY <1>5, <2>4 DEF WriteData, Write
    <3>2. t \in Tokens
      BY <2>1, TokenType, PacketFields, SeqMax DEF Kinds, BlockNumber
    <3>3. Follows(Last, t)
      BY <2>2 DEF Follows, Token
    <3>4. t.kind = "data" /\ t.ts = pkt.ts
      BY DEF Token
    <3> HIDE DEF t
    <3>5. piped' \in Seq(Tokens) /\ PipeGrammar' /\ Last' = t
      BY <3>1, <3>2, <3>3, GrammarAppend
    <3> QED
      BY <2>1, <3>4, <3>5 DEF Held, Place, LastSeen, Left, BlockDone
  <2> QED
    BY <2>3, <2>4
<1> QED
  BY <1>1, <1>2, <1>3, <1>4, <1>5

(* Every step of the receiver and of the reader keeps GrammarInv.          *)
LEMMA GrammarStep == ASSUME GrammarInv, [PipeNext]_allVars PROVE GrammarInv'
<1>1. ASSUME TestStop PROVE GrammarInv'
  BY <1>1, GrammarKept DEF TestStop, Leave, Left, frameVars, recvVars
<1>2. ASSUME EnterRecv PROVE GrammarInv'
  BY <1>2, GrammarKept DEF EnterRecv, frameVars, pipeVars
<1>3. ASSUME SigInt PROVE GrammarInv'
  BY <1>3, GrammarKept DEF SigInt, Leave, Left, frameVars, recvVars
<1>4. ASSUME StopInFrame PROVE GrammarInv'
  BY <1>4, GrammarKept DEF StopInFrame, Leave, Left, frameVars, recvVars
<1>5. ASSUME RecvFailed PROVE GrammarInv'
  BY <1>5, GrammarKept DEF RecvFailed, Leave, Left, frameVars, recvVars
<1>6. ASSUME DropLate PROVE GrammarInv'
  BY <1>6, GrammarKept DEF DropLate, frameVars, pipeVars, recvVars
<1>7. ASSUME EndPacket PROVE GrammarInv'
  BY <1>7, GrammarKept DEF EndPacket, frameVars, pipeVars, recvVars
<1>8. ASSUME WriteBroken PROVE GrammarInv'
  BY <1>8, GrammarKept DEF WriteBroken, Leave, Left, frameVars, recvVars
<1>9. ASSUME Reading \/ UNCHANGED allVars PROVE GrammarInv'
  BY <1>9, GrammarKept DEF Reading, allVars, receiverVars, frameVars, recvVars
<1> QED
  BY <1>1, <1>2, <1>3, <1>4, <1>5, <1>6, <1>7, <1>8, <1>9, GrammarAccept,
     GrammarWrite, GrammarDeliver DEF PipeNext, Work

(* Whatever arrives and whenever it is stopped, what the receiver writes   *)
(* to the pipe is frame after frame a header, whole blocks of one          *)
(* timestamp, and an end (LHE_receiver.c:719-827).                         *)
THEOREM PipeAlwaysWellFormed == PipeSpec => []PipeGrammar
<1>1. GrammarInv => PipeGrammar
  BY DEF GrammarInv
<1> QED
  BY <1>1, GrammarInit, GrammarStep, PTL DEF PipeSpec, allVars

-----------------------------------------------------------------------------
(* Types                                                                   *)

TypeInv == PipeTypeOK /\ Held

(* The initial values (LHE_receiver.c:553-578) are of their types.         *)
LEMMA TypeInit == ReceiverInit /\ FifoInit => TypeInv
<1> SUFFICES ASSUME ReceiverInit, FifoInit PROVE TypeInv
  OBVIOUS
<1>1. AccountTypeOK
  BY AccountInitType DEF ReceiverInit
<1>2. NumbersOK
  BY PipeAssumption, SeqMax DEF ReceiverInit, NumbersOK, SEQ_MOD
<1>3. PipeOK
  BY FifoAssumption DEF ReceiverInit, FifoInit, PipeOK
<1>4. 0 \in 0 .. TS_MOD - 1
  BY PacketAssumption
<1>5. ControlOK
  BY <1>4 DEF ReceiverInit, ControlOK
<1>6. Held
  BY DEF ReceiverInit, Held, Writes
<1> QED
  BY <1>1, <1>2, <1>3, <1>5, <1>6 DEF TypeInv, PipeTypeOK

(* The numbers of a packet change with every packet, and only then.        *)
LEMMA AccountStep ==
  ASSUME TypeInv, [PipeNext]_allVars
  PROVE  \/ UNCHANGED accountVars
         \/ pkt \in Packets /\ Account(pkt.seq, pkt.ssrc)
<1>1. DropLate \/ Accept => pkt \in Packets /\ Account(pkt.seq, pkt.ssrc)
  BY DEF DropLate, Accept, TypeInv, Held
<1>2. ~(DropLate \/ Accept) => UNCHANGED accountVars
  BY DEF PipeNext, Work, TestStop, EnterRecv, Deliver, SigInt, RecvFailed,
         StopInFrame, WriteEnd, WriteHeader, WriteBlock, WriteNumber, WriteData,
         EndPacket, WriteMarker, WriteBroken, Reading, receiverVars, allVars
<1> QED
  BY <1>1, <1>2

(* What the statistics become: nothing in most steps.                      *)
LEMMA NumbersStep ==
  ASSUME TypeInv, [PipeNext]_allVars
  PROVE  NumbersOK'
<1> DEFINE lost(t) == (t - blocks_received) % U64_MOD
           more(n) == (n + 1) % SEQ_MOD
<1>1. /\ frames_received \in Nat /\ total_blocks \in Nat /\ blocks_received \in Nat
      /\ packets_received \in Nat /\ packets_dropped \in Nat /\ blocks_dropped \in Nat
  BY SeqMax DEF TypeInv, PipeTypeOK, NumbersOK, SEQ_MOD
<1>2. \A t \in Nat : lost(t) \in 0 .. U64_MOD - 1
  BY <1>1, PipeAssumption
<1>3. more(frames_received) \in 0 .. SEQ_MOD - 1
  BY <1>1, SeqMax DEF SEQ_MOD
<1>4. pkt \in Packets => pkt.im \in Nat /\ pkt.n \in Nat
  BY PacketFields, PacketAssumption
<1>5. NumbersOK
  BY DEF TypeInv, PipeTypeOK
<1> HIDE DEF lost, more
<1>6. CASE TestStop \/ SigInt
  <2>1. /\ blocks_lost' \in {blocks_lost, lost(total_blocks)}
        /\ total_blocks' \in {1, total_blocks}
        /\ UNCHANGED <<frames_received, packets_received, blocks_received>>
        /\ UNCHANGED <<packets_dropped, blocks_dropped>>
    BY <1>6 DEF TestStop, SigInt, lost
  <2> QED
    BY <1>1, <1>2, <1>5, <2>1 DEF NumbersOK
<1>7. CASE StopInFrame
  <2>1. pkt \in Packets
    BY <1>7 DEF StopInFrame, InFrame, TypeInv, Held
  <2>2. /\ frames_received' = more(frames_received)
        /\ total_blocks' = total_blocks + pkt.im
        /\ blocks_lost' = lost(total_blocks')
        /\ UNCHANGED <<packets_received, blocks_received>>
        /\ UNCHANGED <<packets_dropped, blocks_dropped>>
    BY <1>7 DEF StopInFrame, more, lost
  <2>3. total_blocks' \in Nat
    BY <1>1, <1>4, <2>1, <2>2
  <2> QED
    BY <1>1, <1>2, <1>3, <2>2, <2>3 DEF NumbersOK
<1>8. CASE DropLate
  <2>1. pkt \in Packets
    BY <1>8 DEF DropLate, TypeInv, Held
  <2>2. /\ packets_dropped' = packets_dropped + 1
        /\ blocks_dropped' = blocks_dropped + pkt.n
        /\ UNCHANGED <<frames_received, total_blocks, packets_received>>
        /\ UNCHANGED <<blocks_received, blocks_lost>>
    BY <1>8 DEF DropLate
  <2> QED
    BY <1>1, <1>4, <1>5, <2>1, <2>2 DEF NumbersOK
<1>9. CASE Accept /\ ~UNCHANGED statVars
  <2>1. pkt \in Packets
    BY <1>9 DEF Accept, TypeInv, Held
  <2>2. /\ frames_received' = more(frames_received)
        /\ total_blocks' = total_blocks + pkt.im
        /\ UNCHANGED <<packets_received, blocks_received, blocks_lost>>
        /\ UNCHANGED <<packets_dropped, blocks_dropped>>
    BY <1>9 DEF Accept, CountFrame, more
  <2> QED
    BY <1>1, <1>3, <1>4, <1>5, <2>1, <2>2 DEF NumbersOK
<1>10. CASE EndPacket
  <2>1. pkt \in Packets
    BY <1>10 DEF EndPacket, TypeInv, Held, Writes
  <2>2. /\ frames_received' \in {frames_received, more(frames_received)}
        /\ total_blocks' \in {total_blocks, total_blocks + pkt.im}
        /\ packets_received' = packets_received + 1
        /\ blocks_received' = blocks_received + pkt.n
        /\ UNCHANGED <<packets_dropped, blocks_dropped, blocks_lost>>
    BY <1>10 DEF EndPacket, more
  <2>3. total_blocks' \in Nat
    BY <1>1, <1>4, <2>1, <2>2
  <2> QED
    BY <1>1, <1>3, <1>4, <1>5, <2>1, <2>2, <2>3 DEF NumbersOK
<1>11. CASE UNCHANGED statVars
  BY <1>5, <1>11 DEF statVars, NumbersOK
<1> QED
  <2>1. TestStop \/ SigInt \/ StopInFrame \/ DropLate \/ Accept \/ EndPacket
          \/ UNCHANGED statVars
    BY DEF PipeNext, Work, EnterRecv, Deliver, RecvFailed, WriteEnd, WriteHeader,
           WriteBlock, WriteNumber, WriteData, WriteMarker, WriteBroken, Reading,
           receiverVars, allVars
  <2> QED
    BY <1>6, <1>7, <1>8, <1>9, <1>10, <1>11, <2>1

(* The pipe holds tokens, and never more than there is room for.           *)
LEMMA PipeStep ==
  ASSUME TypeInv, [PipeNext]_allVars
  PROVE  PipeOK'
<1>1. PipeOK
  BY DEF TypeInv, PipeTypeOK
<1>2. ASSUME NEW t \in Tokens, Write(t) PROVE PipeOK'
  <2>1. /\ fifo' = Append(fifo, t) /\ Len(fifo) # FIFO_SIZE
        /\ piped' = Append(piped, t) /\ writer' = writer /\ reader' = reader
    BY <1>2 DEF Write, Put, IsFull
  <2> QED
    BY <1>1, <2>1, FifoAssumption DEF PipeOK
<1>3. CASE piped' = piped /\ fifo' = fifo /\ writer' \in BOOLEAN /\ reader' \in BOOLEAN
  BY <1>1, <1>3 DEF PipeOK
<1>4. CASE Reading
  <2>1. /\ fifo' = fifo \/ (fifo # <<>> /\ fifo' = Tail(fifo))
        /\ piped' = piped /\ writer' = writer /\ reader' \in {reader, FALSE}
    BY <1>4 DEF Reading, Take, IsEmpty, receiverVars
  <2>2. fifo # <<>> => Tail(fifo) \in Seq(Tokens) /\ Len(Tail(fifo)) <= FIFO_SIZE
    <3>1. fifo \in Seq(Tokens) /\ Len(fifo) <= FIFO_SIZE
      BY <1>1 DEF PipeOK
    <3>2. fifo # <<>> => Tail(fifo) \in Seq(Tokens) /\ Len(Tail(fifo)) = Len(fifo) - 1
      BY <3>1
    <3>3. Len(fifo) \in Nat
      BY <3>1
    <3> QED
      BY <3>1, <3>2, <3>3, FifoAssumption
  <2>3. fifo' \in Seq(Tokens) /\ Len(fifo') <= FIFO_SIZE
    BY <1>1, <2>1, <2>2 DEF PipeOK
  <2> QED
    BY <1>1, <2>1, <2>3 DEF PipeOK
<1>5. WriteEnd \/ WriteHeader \/ WriteBlock \/ WriteNumber \/ WriteMarker
        \/ (WriteData /\ ~NoData) => \E t \in Tokens : Write(t)
  <2>1. pc \in Writes => pkt \in Packets /\ pkt.im \in Nat /\ BlockNumber \in Nat
    BY PacketFields, PacketAssumption, SeqMax
    DEF TypeInv, Held, PipeTypeOK, ControlOK, BlockNumber
  <2> QED
    BY <2>1, TokenType, EndType
    DEF WriteEnd, WriteHeader, WriteBlock, WriteNumber, WriteMarker, WriteData,
        Writes, Kinds
<1>6. WriteEnd \/ WriteHeader \/ WriteBlock \/ WriteNumber \/ WriteMarker
        \/ (WriteData /\ ~NoData) \/ Reading
        \/ (piped' = piped /\ fifo' = fifo /\ writer' \in BOOLEAN /\ reader' \in BOOLEAN)
  BY <1>1
  DEF PipeOK, PipeNext, Work, TestStop, EnterRecv, Deliver, SigInt, RecvFailed,
      StopInFrame, DropLate, Accept, WriteData, EndPacket, WriteBroken, Leave,
      receiverVars, allVars, pipeVars, fifoVars
<1> QED
  BY <1>2, <1>3, <1>4, <1>5, <1>6

(* Flags, counters of blocks and the points of the code.                   *)
LEMMA ControlStep ==
  ASSUME TypeInv, [PipeNext]_allVars
  PROVE  ControlOK' /\ Held'
<1>1. ControlOK /\ Held
  BY DEF TypeInv, PipeTypeOK
<1>2. CASE UNCHANGED <<first, ts_current, done, pkt, received, stop, pc>>
  BY <1>1, <1>2 DEF ControlOK, Held
<1>3. ASSUME TestStop \/ EnterRecv \/ SigInt \/ StopInFrame \/ RecvFailed
               \/ DropLate \/ EndPacket \/ WriteBroken
      PROVE  ControlOK' /\ Held'
  <2>1. /\ first' = first /\ ts_current' = ts_current /\ done' = done /\ pkt' = pkt
        /\ received' \in {received, FALSE} /\ stop' \in {stop, TRUE}
    BY <1>3
    DEF TestStop, EnterRecv, SigInt, StopInFrame, RecvFailed, DropLate, EndPacket,
        WriteBroken, frameVars, recvVars
  <2>2. pc' \in {pc, "test", "call", "recv", "got"} \cup Left
          \/ (pc = "block" /\ pc' = "marker")
    BY <1>3
    DEF TestStop, EnterRecv, SigInt, StopInFrame, RecvFailed, DropLate, EndPacket,
        WriteBroken, Leave, Left
  <2>3. pc' \in {"test", "call", "recv", "got"} \cup Writes \cup Left
    BY <1>1, <2>2 DEF ControlOK, Writes
  <2>4. ControlOK'
    BY <1>1, <2>1, <2>3 DEF ControlOK
  <2>5. pc' \in Writes => pc \in Writes
    BY <2>2 DEF Writes, Left
  <2>6. received' => received
    BY <2>1
  <2>7. pkt' = pkt /\ first' = first
    BY <2>1
  <2> QED
    BY <1>1, <2>4, <2>5, <2>6, <2>7 DEF Held
<1>4. ASSUME NEW p \in Packets, Deliver(p) PROVE ControlOK' /\ Held'
  BY <1>1, <1>4 DEF Deliver, frameVars, ControlOK, Held, Writes, Left
<1>5. ASSUME Accept PROVE ControlOK' /\ Held'
  <2>1. /\ pkt \in Packets /\ pkt' = pkt /\ first' = first /\ ts_current' = ts_current
        /\ done' = 0 /\ received' = received /\ stop' = stop
        /\ pc' \in {"end", "header", "block"}
    BY <1>1, <1>5 DEF Accept, Held, recvVars
  <2> QED
    BY <1>1, <2>1 DEF ControlOK, Held, Writes
<1>6. ASSUME WriteEnd \/ WriteHeader \/ WriteBlock \/ WriteNumber \/ WriteData
               \/ WriteMarker
      PROVE  ControlOK' /\ Held'
  <2>1. pkt \in Packets /\ pkt.ts \in 0 .. TS_MOD - 1
    BY <1>1, <1>6, PacketFields
    DEF WriteEnd, WriteHeader, WriteBlock, WriteNumber, WriteData, WriteMarker,
        Held, Writes
  <2>2. /\ first' = first \/ first' = TRUE \/ first' = FALSE
        /\ ts_current' \in {ts_current, pkt.ts} /\ done' \in {done, done + 1}
        /\ pc' \in {"header", "block", "number", "data", "test"}
    BY <1>6
    DEF WriteEnd, WriteHeader, WriteBlock, WriteNumber, WriteData, WriteMarker,
        FirstAfterEnd, frameVars
  <2>3. first' \in BOOLEAN /\ done' \in Nat /\ ts_current' \in 0 .. TS_MOD - 1
    <3>1. first \in BOOLEAN /\ done \in Nat /\ ts_current \in 0 .. TS_MOD - 1
      BY <1>1 DEF ControlOK
    <3>2. first' \in BOOLEAN
      BY <2>2, <3>1
    <3>3. done' \in Nat /\ ts_current' \in 0 .. TS_MOD - 1
      BY <2>1, <2>2, <3>1
    <3> QED
      BY <3>2, <3>3
  <2>4. pc' \in {"test", "call", "recv", "got"} \cup Writes \cup Left
    BY <2>2 DEF Writes
  <2>5. pkt' = pkt /\ received' = received /\ stop' = stop
    BY <1>6
    DEF WriteEnd, WriteHeader, WriteBlock, WriteNumber, WriteData, WriteMarker,
        recvVars
  <2>6. ControlOK'
    BY <1>1, <2>3, <2>4, <2>5 DEF ControlOK
  <2>7. Held'
    BY <2>1, <2>5 DEF Held
  <2> QED
    BY <2>6, <2>7
<1>7. Reading \/ UNCHANGED allVars =>
        UNCHANGED <<first, ts_current, done, pkt, received, stop, pc>>
  BY DEF Reading, allVars, receiverVars, frameVars, recvVars
<1> QED
  BY <1>2, <1>3, <1>4, <1>5, <1>6, <1>7 DEF PipeNext, Work

(* Every step of the receiver and of the reader keeps the types.           *)
LEMMA TypeStep == ASSUME TypeInv, [PipeNext]_allVars PROVE TypeInv'
<1>1. AccountTypeOK'
  <2>1. CASE UNCHANGED accountVars
    BY <2>1 DEF accountVars, TypeInv, PipeTypeOK, AccountTypeOK
  <2>2. CASE pkt \in Packets /\ Account(pkt.seq, pkt.ssrc)
    BY <2>2, PacketFields, AccountKeepsType DEF TypeInv, PipeTypeOK
  <2> QED
    BY <2>1, <2>2, AccountStep
<1> QED
  BY <1>1, NumbersStep, PipeStep, ControlStep DEF TypeInv, PipeTypeOK

(* Every variable of LHE_receiver3 keeps its type, and the pipe its bound. *)
THEOREM PipeTypeCorrect == PipeSpec => []PipeTypeOK
<1>1. TypeInv => PipeTypeOK
  BY DEF TypeInv
<1> QED
  BY <1>1, TypeInit, TypeStep, PTL DEF PipeSpec, allVars

(* The losses obey LossAccounting here, too: writing the blocks in between *)
(* does not disturb the count, nor does a write that fails.                *)
THEOREM PipeLossesAccounted == PipeSpec => []LossAccounting
<1>1. ReceiverInit => LossAccounting /\ NothingYet
  BY AccountInitType DEF ReceiverInit, AccountInit, NothingYet
<1>2. TypeInv /\ LossAccounting /\ NothingYet /\ [PipeNext]_allVars
      => LossAccounting' /\ NothingYet'
  <2> SUFFICES ASSUME TypeInv, LossAccounting, NothingYet, [PipeNext]_allVars
               PROVE  LossAccounting' /\ NothingYet'
    OBVIOUS
  <2>1. CASE UNCHANGED accountVars
    BY <2>1 DEF accountVars, LossAccounting, NothingYet
  <2>2. CASE pkt \in Packets /\ Account(pkt.seq, pkt.ssrc)
    <3>1. pkt.seq \in 0 .. SEQ_MAX /\ pkt.ssrc \in Sessions
      BY <2>2, PacketFields
    <3>2. LossAccounting'
      BY <2>2, <3>1, AccountKeepsLoss DEF TypeInv, PipeTypeOK, NothingYet
    <3> QED
      BY <2>2, <3>2 DEF Account, NothingYet
  <2> QED
    BY <2>1, <2>2, AccountStep
<1> QED
  BY <1>1, <1>2, TypeInit, TypeStep, PTL DEF PipeSpec, allVars

-----------------------------------------------------------------------------
(* The pool of threads, whatever is written to the pipe                    *)

(* The slots that were given a block of this frame: all of them once slot  *)
(* 0, the last in the round that starts at 1, had its turn.                *)
Launched(k) == ~pool_startup \/ (k # 0 /\ (next_thread = 0 \/ k < next_thread))

PoolTypeOK ==
  /\ threads \in [Slots -> {"none", "running", "finished"}]
  /\ next_thread \in Slots /\ pool_startup \in BOOLEAN /\ joined \in 0 .. THREAD_N

(* While a frame is read, the slots launched hold a thread, and no other   *)
(* does; at its end, those waited for hold none any more.                  *)
PoolInv ==
  /\ PoolTypeOK
  /\ ppc \notin PlayerLeft \cup {"join"} =>
       \A k \in Slots : threads[k] # "none" <=> Launched(k)
  /\ ppc = "join" =>
       \A k \in Slots : threads[k] # "none" <=> Launched(k) /\ k >= joined

(* Counting round robin over the slots (newmain.cc:753-754).               *)
LEMMA SlotNumbers ==
  /\ 0 \in Slots /\ 1 \in Slots /\ Slots \subseteq Nat
  /\ \A k \in Slots : k < THREAD_N
  /\ \A k \in Slots : (k + 1) % THREAD_N = (IF k + 1 = THREAD_N THEN 0 ELSE k + 1)
  BY PoolAssumption DEF Slots

(* newmain.cc:549-552: no thread is launched yet.                          *)
LEMMA PoolInit == PlayerInit => PoolInv
  BY PoolAssumption, SlotNumbers
  DEF PlayerInit, PoolInv, PoolTypeOK, Launched, PlayerLeft

(* Steps that leave the pool alone and do not end a frame.                 *)
LEMMA PoolKept ==
  ASSUME PoolInv, UNCHANGED <<threads, next_thread, pool_startup, joined>>,
         \/ ppc' = ppc
         \/ ppc # "join" /\ ppc' # "join" /\ ppc \notin PlayerLeft
         \/ ppc' \in PlayerLeft
  PROVE  PoolInv'
  BY DEF PoolInv, PoolTypeOK, Launched, PlayerLeft

(* newmain.cc:729-754: the next block goes to the next slot.               *)
LEMMA PoolLaunch == ASSUME PoolInv, LaunchThread PROVE PoolInv'
<1>1. CASE block.id \notin DOMAIN frame_buffer
  BY <1>1, PoolKept DEF LaunchThread, PlayerLeave, PlayerLeft
<1>2. CASE block.id \in DOMAIN frame_buffer
  <2>1. /\ ppc = "slot" /\ ppc' = "blocks"
        /\ threads' = [threads EXCEPT ![next_thread] = "running"]
        /\ pool_startup' = (pool_startup /\ next_thread # 0)
        /\ next_thread' = (next_thread + 1) % THREAD_N
        /\ joined' = joined
    BY <1>2 DEF LaunchThread
  <2>2. /\ threads \in [Slots -> {"none", "running", "finished"}]
        /\ next_thread \in Slots /\ pool_startup \in BOOLEAN /\ joined \in 0 .. THREAD_N
        /\ \A k \in Slots : threads[k] # "none" <=> Launched(k)
    BY <2>1 DEF PoolInv, PoolTypeOK, PlayerLeft
  <2>3. /\ next_thread' = IF next_thread + 1 = THREAD_N THEN 0 ELSE next_thread + 1
        /\ next_thread' \in Slots
    BY <2>1, <2>2, SlotNumbers, PoolAssumption DEF Slots
  <2>4. PoolTypeOK'
    BY <2>1, <2>2, <2>3 DEF PoolTypeOK
  <2>5. \A k \in Slots : Launched(k)' <=> Launched(k) \/ k = next_thread
    <3> SUFFICES ASSUME NEW k \in Slots
                 PROVE  Launched(k)' <=> Launched(k) \/ k = next_thread
      OBVIOUS
    <3>1. CASE ~pool_startup
      BY <3>1, <2>1 DEF Launched
    <3>2. CASE pool_startup /\ next_thread = 0
      <4>1. ~pool_startup'
        BY <3>2, <2>1
      <4> QED
        BY <3>2, <4>1 DEF Launched
    <3>3. CASE pool_startup /\ next_thread # 0
      <4>1. pool_startup' /\ k \in Nat /\ next_thread \in Nat /\ k < THREAD_N
        BY <3>3, <2>1, <2>2, SlotNumbers
      <4>2. CASE next_thread + 1 = THREAD_N
        BY <3>3, <4>1, <4>2, <2>3, PoolAssumption DEF Launched
      <4>3. CASE next_thread + 1 # THREAD_N
        BY <3>3, <4>1, <4>3, <2>3, PoolAssumption DEF Launched
      <4> QED
        BY <4>2, <4>3
    <3> QED
      BY <3>1, <3>2, <3>3, <2>2
  <2>6. \A k \in Slots : threads'[k] # "none" <=> threads[k] # "none" \/ k = next_thread
    BY <2>1, <2>2
  <2> QED
    BY <2>1, <2>2, <2>4, <2>5, <2>6 DEF PoolInv
<1> QED
  BY <1>1, <1>2

(* newmain.cc:674-676: the slots are waited for one by one.                *)
LEMMA PoolJoin == ASSUME PoolInv, JoinAll PROVE PoolInv'
<1>1. CASE ppc' = "crashed" /\ UNCHANGED <<threads, joined>>
  BY <1>1, PoolKept DEF JoinAll, PlayerLeft
<1>2. CASE /\ threads' = [threads EXCEPT ![joined] = "none"]
           /\ joined' = joined + 1 /\ ppc' = ppc
  <2>1. /\ ppc = "join" /\ joined < THREAD_N
        /\ next_thread' = next_thread /\ pool_startup' = pool_startup
    BY DEF JoinAll, SlotsToJoin
  <2>2. /\ threads \in [Slots -> {"none", "running", "finished"}]
        /\ next_thread \in Slots /\ pool_startup \in BOOLEAN /\ joined \in Slots
        /\ \A k \in Slots : threads[k] # "none" <=> Launched(k) /\ k >= joined
    BY <2>1, PoolAssumption DEF PoolInv, PoolTypeOK, Slots
  <2>3. PoolTypeOK'
    BY <1>2, <2>1, <2>2, PoolAssumption DEF PoolTypeOK, Slots
  <2>4. \A k \in Slots : Launched(k)' <=> Launched(k)
    BY <2>1 DEF Launched
  <2>5. \A k \in Slots : threads'[k] # "none" <=> threads[k] # "none" /\ k # joined
    BY <1>2, <2>2
  <2>6. \A k \in Slots : k >= joined' <=> k >= joined /\ k # joined
    BY <1>2, <2>2, SlotNumbers
  <2> QED
    BY <1>2, <2>1, <2>2, <2>3, <2>4, <2>5, <2>6 DEF PoolInv, PlayerLeft
<1> QED
  BY <1>1, <1>2 DEF JoinAll, PlayerLeave

(* newmain.cc:689-701: the frame is shown and the round starts anew.       *)
LEMMA PoolShow == ASSUME PoolInv, Show PROVE PoolInv'
<1>1. /\ ppc = "join" /\ joined = THREAD_N /\ ppc' = "frame"
      /\ next_thread' = 1 /\ pool_startup' = TRUE
      /\ threads' = threads /\ joined' = joined
  BY DEF Show, SlotsToJoin
<1>2. \A k \in Slots : threads[k] = "none"
  <2> SUFFICES ASSUME NEW k \in Slots PROVE threads[k] = "none"
    OBVIOUS
  <2>1. k \in Nat /\ ~(k >= joined)
    BY <1>1, SlotNumbers, PoolAssumption
  <2> QED
    BY <1>1, <2>1 DEF PoolInv
<1>3. \A k \in Slots : ~Launched(k)'
  BY <1>1, SlotNumbers DEF Launched
<1>4. PoolTypeOK'
  BY <1>1, SlotNumbers DEF PoolInv, PoolTypeOK
<1> QED
  BY <1>1, <1>2, <1>3, <1>4 DEF PoolInv

(* newmain.cc:516-524: a thread that has decoded its block ends.           *)
LEMMA PoolDecode == ASSUME PoolInv, NEW k \in Slots, DecodeBlock(k) PROVE PoolInv'
<1>1. /\ threads[k] = "running" /\ threads' = [threads EXCEPT ![k] = "finished"]
      /\ ppc' = ppc /\ next_thread' = next_thread
      /\ pool_startup' = pool_startup /\ joined' = joined
  BY DEF DecodeBlock
<1>2. PoolTypeOK' /\ \A j \in Slots : threads'[j] # "none" <=> threads[j] # "none"
  BY <1>1 DEF PoolInv, PoolTypeOK
<1> QED
  BY <1>1, <1>2 DEF PoolInv, Launched

(* newmain.cc:660-672: an end of frame starts the waiting, at slot 0.      *)
LEMMA PoolReadBlock == ASSUME PoolInv, ReadBlock PROVE PoolInv'
<1>1. CASE ppc' \in PlayerLeft /\ UNCHANGED <<threads, next_thread, pool_startup>>
           /\ joined' \in {0, joined}
  BY <1>1, PoolAssumption DEF PoolInv, PoolTypeOK, PlayerLeft
<1>2. CASE /\ ppc' \in {"join", "number"} /\ joined' = 0
           /\ UNCHANGED <<threads, next_thread, pool_startup>>
  BY <1>2, SlotNumbers, PoolAssumption
  DEF ReadBlock, PoolInv, PoolTypeOK, Launched, PlayerLeft
<1> QED
  BY <1>1, <1>2 DEF ReadBlock, Misread, PlayerLeave, poolVars, PlayerLeft

(* Every step of the player, its threads and the writer keeps PoolInv.     *)
LEMMA PoolStep == ASSUME PoolInv, [PlayerNext]_<<playerVars, fifoVars>> PROVE PoolInv'
<1>1. ASSUME TestPlayerStop PROVE PoolInv'
  BY <1>1, PoolKept DEF TestPlayerStop, PlayerLeave, PlayerLeft, poolVars
<1>2. ASSUME ReadEof PROVE PoolInv'
  BY <1>2, PoolKept DEF ReadEof, PlayerLeave, PlayerLeft, Reads, poolVars
<1>3. ASSUME ReadHeader PROVE PoolInv'
  BY <1>3, PoolKept DEF ReadHeader, Misread, PlayerLeave, PlayerLeft, poolVars
<1>4. ASSUME ReadNumber PROVE PoolInv'
  BY <1>4, PoolKept DEF ReadNumber, Misread, PlayerLeave, PlayerLeft, poolVars
<1>5. ASSUME ReadData PROVE PoolInv'
  BY <1>5, PoolKept DEF ReadData, Misread, PlayerLeave, PlayerLeft, poolVars
<1>6. ASSUME PlayerSigInt PROVE PoolInv'
  BY <1>6, PoolKept DEF PlayerSigInt, PlayerLeave, PlayerLeft, poolVars
<1>7. ASSUME Feeding PROVE PoolInv'
  BY <1>7, PoolKept DEF Feeding, playerVars, poolVars
<1>8. ASSUME UNCHANGED playerVars PROVE PoolInv'
  BY <1>8, PoolKept DEF playerVars, poolVars
<1> QED
  BY <1>1, <1>2, <1>3, <1>4, <1>5, <1>6, <1>7, <1>8, PoolReadBlock, PoolLaunch,
     PoolJoin, PoolShow, PoolDecode
  DEF PlayerNext, PlayerWork, Pool

(* A slot is used again only after its thread has ended and is waited for, *)
(* for every number of threads and every number of blocks per frame        *)
(* (newmain.cc:729-754).                                                   *)
THEOREM SlotsNeverOverwritten == PlayerSpec => SlotsNotOverwritten
<1>1. PlayerInit => PoolInv
  BY PoolInit
<1>2. PoolInv /\ [PlayerNext]_<<playerVars, fifoVars>> => PoolInv'
  BY PoolStep
<1>3. PoolInv /\ [PlayerNext]_<<playerVars, fifoVars>> =>
        [ppc = "slot" /\ ppc' = "blocks" =>
           threads[next_thread] = IF pool_startup THEN "none" ELSE "finished"]_playerVars
  <2> SUFFICES ASSUME PoolInv, PlayerNext, ppc = "slot", ppc' = "blocks"
               PROVE  threads[next_thread] = IF pool_startup THEN "none" ELSE "finished"
    BY DEF playerVars
  <2>1. LaunchThread
    BY DEF PlayerNext, PlayerWork, TestPlayerStop, ReadEof, ReadHeader, ReadBlock,
           ReadNumber, ReadData, JoinAll, Show, Pool, DecodeBlock, PlayerSigInt,
           Feeding, playerVars, Reads, PlayerLeave
  <2>2. ~pool_startup => threads[next_thread] # "running"
    BY <2>1 DEF LaunchThread, WaitsForSlot, Join
  <2>3. /\ next_thread \in Slots /\ pool_startup \in BOOLEAN
        /\ threads[next_thread] \in {"none", "running", "finished"}
        /\ threads[next_thread] # "none" <=> Launched(next_thread)
    BY DEF PoolInv, PoolTypeOK, PlayerLeft
  <2>4. Launched(next_thread) <=> ~pool_startup
    BY <2>3, SlotNumbers DEF Launched
  <2> QED
    BY <2>2, <2>3, <2>4
<1> QED
  BY <1>1, <1>2, <1>3, PTL DEF PlayerSpec, SlotsNotOverwritten

-----------------------------------------------------------------------------
(* The player's types, whatever is written to the pipe                     *)

(* What is read is a token; the frame buffer has the size of the header.   *)
PlayerInv ==
  /\ PlayerTypeOK
  /\ fifo \in Seq(Tokens) /\ header \in Tokens /\ block \in Tokens
  /\ lhe_block_data \in Row
  /\ frame_buffer \in [0 .. header.id - 1 -> Row]
  /\ args \in [Slots -> [row : Nat, data : Row]]

(* The fields of a token, and the block it is about.                       *)
LEMMA TokenFields ==
  ASSUME NEW t \in Tokens
  PROVE  /\ t.kind \in Kinds /\ t.ts \in 0 .. TS_MOD - 1 /\ t.id \in Nat
         /\ t.img \in Images \cup {Garbage} /\ BlockOf(t) \in Row
  BY DEF Tokens, BlockOf, Row

(* newmain.cc:541-552: the player starts with nothing.                     *)
LEMMA PlayerStart == PlayerInit /\ FifoInit => PlayerInv
<1> SUFFICES ASSUME PlayerInit, FifoInit PROVE PlayerInv
  OBVIOUS
<1>1. Nothing \in Row /\ EndOfFrame \in Tokens /\ EndOfFrame.id = 0
  BY EndType DEF Nothing, Row, EndOfFrame
<1>2. /\ threads = [k \in Slots |-> "none"]
      /\ args = [k \in Slots |-> [row |-> 0, data |-> Nothing]]
      /\ next_thread = 1 /\ joined = 0 /\ asked = {}
      /\ frame_buffer = <<>> /\ ppc = "frame" /\ player_stop = FALSE
      /\ header = EndOfFrame /\ block = EndOfFrame
      /\ lhe_block_data = Nothing /\ fifo = <<>>
  BY DEF PlayerInit, FifoInit
<1>3. frame_buffer \in [0 .. header.id - 1 -> Row]
  <2>1. 0 .. header.id - 1 = {} /\ DOMAIN frame_buffer = {}
    BY <1>1, <1>2
  <2> QED
    BY <2>1, <1>2
<1>4. args \in [Slots -> [row : Nat, data : Row]]
  BY <1>1, <1>2
<1>5. next_thread \in Slots /\ joined \in 0 .. THREAD_N
  BY <1>2, SlotNumbers, PoolAssumption
<1>6. PlayerTypeOK
  BY <1>2, <1>3, <1>4, <1>5 DEF PlayerTypeOK
<1> QED
  BY <1>1, <1>2, <1>3, <1>4, <1>6 DEF PlayerInv

(* Reading takes a token out of the pipe.                                  *)
LEMMA TakeType ==
  ASSUME fifo \in Seq(Tokens), Take
  PROVE  /\ fifo # <<>> /\ Head(fifo) \in Tokens /\ fifo' = Tail(fifo)
         /\ fifo' \in Seq(Tokens)
  BY DEF Take, IsEmpty

(* Where the player can go next.                                           *)
LEMMA PlayerPoints ==
  ASSUME PlayerInv, PlayerWork \/ Pool \/ PlayerSigInt
  PROVE  /\ ppc' \in {"frame", "blocks", "slot", "join"} \cup Reads \cup PlayerLeft
         /\ player_stop' \in BOOLEAN
<1>1. ppc \in {"frame", "blocks", "slot", "join"} \cup Reads \cup PlayerLeft
      /\ player_stop \in BOOLEAN
  BY DEF PlayerInv, PlayerTypeOK
<1>2. ASSUME TestPlayerStop \/ ReadEof \/ JoinAll \/ LaunchThread \/ Show \/ Pool
               \/ PlayerSigInt
      PROVE  /\ ppc' \in {"frame", "blocks", "slot", "join"} \cup Reads \cup PlayerLeft
             /\ player_stop' \in BOOLEAN
  BY <1>1, <1>2
  DEF TestPlayerStop, ReadEof, JoinAll, LaunchThread, Show, Pool, DecodeBlock,
      PlayerSigInt, PlayerLeave, Reads, PlayerLeft
<1>3. ASSUME ReadHeader \/ ReadBlock \/ ReadNumber \/ ReadData
      PROVE  /\ ppc' \in {"frame", "blocks", "slot", "join"} \cup Reads \cup PlayerLeft
             /\ player_stop' \in BOOLEAN
  BY <1>1, <1>3
  DEF ReadHeader, ReadBlock, ReadNumber, ReadData, Misread, PlayerLeave, Reads,
      PlayerLeft
<1> QED
  BY <1>2, <1>3 DEF PlayerWork

(* The slots stay slots, with one block each.                              *)
LEMMA PlayerPool ==
  ASSUME PlayerInv, PoolInv, PlayerWork \/ Pool \/ PlayerSigInt
  PROVE  /\ threads' \in [Slots -> {"none", "running", "finished"}]
         /\ args' \in [Slots -> [row : Nat, data : Row]]
         /\ next_thread' \in Slots /\ joined' \in 0 .. THREAD_N
<1>1. PoolTypeOK'
  BY PoolStep DEF PlayerNext, PoolInv
<1>2. args \in [Slots -> [row : Nat, data : Row]]
  BY DEF PlayerInv
<1>3. CASE LaunchThread /\ block.id \in DOMAIN frame_buffer
  <2>1. /\ block.id \in Nat /\ lhe_block_data \in Row
        /\ args' = [args EXCEPT ![next_thread] =
                      [row |-> block.id, data |-> lhe_block_data]]
    BY <1>3, TokenFields DEF LaunchThread, PlayerInv
  <2> QED
    BY <1>1, <1>2, <2>1 DEF PoolTypeOK
<1>4. CASE args' = args
  BY <1>1, <1>2, <1>4 DEF PoolTypeOK
<1>5. (LaunchThread /\ block.id \in DOMAIN frame_buffer) \/ args' = args
  <2>1. ReadHeader \/ ReadBlock \/ ReadNumber \/ ReadData \/ ReadEof => args' = args
    BY DEF ReadHeader, ReadBlock, ReadNumber, ReadData, ReadEof, Misread, poolVars
  <2>2. TestPlayerStop \/ JoinAll \/ Show \/ Pool \/ PlayerSigInt => args' = args
    BY DEF TestPlayerStop, JoinAll, Show, Pool, DecodeBlock, PlayerSigInt, poolVars
  <2>3. LaunchThread /\ block.id \notin DOMAIN frame_buffer => args' = args
    BY DEF LaunchThread
  <2> QED
    BY <2>1, <2>2, <2>3 DEF PlayerWork
<1> QED
  BY <1>3, <1>4, <1>5

(* The buffer keeps the size of the header, and rows of it are decoded.    *)
LEMMA PlayerBuffer ==
  ASSUME PlayerInv, PlayerWork \/ Pool \/ PlayerSigInt
  PROVE  /\ header' \in Tokens /\ block' \in Tokens /\ lhe_block_data' \in Row
         /\ frame_buffer' \in [0 .. header'.id - 1 -> Row]
         /\ asked' \subseteq DOMAIN frame_buffer' /\ fifo' \in Seq(Tokens)
<1>1. /\ fifo \in Seq(Tokens) /\ header \in Tokens /\ block \in Tokens
      /\ lhe_block_data \in Row /\ frame_buffer \in [0 .. header.id - 1 -> Row]
      /\ args \in [Slots -> [row : Nat, data : Row]]
      /\ asked \subseteq DOMAIN frame_buffer
  BY DEF PlayerInv, PlayerTypeOK
<1>2. CASE /\ UNCHANGED <<header, block, lhe_block_data, frame_buffer, asked>>
           /\ fifo' = fifo \/ Take
  BY <1>1, <1>2, TakeType
<1>3. CASE ReadHeader
  <2>1. fifo' \in Seq(Tokens) /\ Head(fifo) \in Tokens
    BY <1>1, <1>3, TakeType DEF ReadHeader
  <2>2. CASE Head(fifo).kind = "header"
    <3>1. /\ header' = Head(fifo) /\ asked' = {} /\ block' = block
          /\ lhe_block_data' = lhe_block_data
          /\ frame_buffer' = IF header'.id = header.id THEN frame_buffer
                             ELSE [k \in 0 .. header'.id - 1 |-> Nothing]
      BY <1>3, <2>2 DEF ReadHeader
    <3>2. Nothing \in Row
      BY DEF Nothing, Row
    <3>3. frame_buffer' \in [0 .. header'.id - 1 -> Row]
      <4>1. CASE header'.id = header.id
        BY <3>1, <4>1, <1>1
      <4>2. CASE header'.id # header.id
        BY <3>1, <3>2, <4>2
      <4> QED
        BY <4>1, <4>2
    <3> QED
      BY <1>1, <2>1, <3>1, <3>3
  <2>3. CASE Head(fifo).kind # "header"
    BY <1>1, <1>3, <2>1, <2>3 DEF ReadHeader, Misread, videoVars
  <2> QED
    BY <2>2, <2>3
<1>4. CASE ReadBlock \/ ReadNumber \/ ReadData
  <2>1. fifo' \in Seq(Tokens) /\ Head(fifo) \in Tokens /\ BlockOf(Head(fifo)) \in Row
    BY <1>1, <1>4, TakeType, TokenFields DEF ReadBlock, ReadNumber, ReadData
  <2>2. /\ UNCHANGED <<header, frame_buffer, asked>> /\ block' \in {block, Head(fifo)}
        /\ lhe_block_data' \in {lhe_block_data, BlockOf(Head(fifo))}
    BY <1>4 DEF ReadBlock, ReadNumber, ReadData, Misread, videoVars
  <2> QED
    BY <1>1, <2>1, <2>2
<1>5. CASE LaunchThread
  <2>1. UNCHANGED <<fifo, header, block, lhe_block_data, frame_buffer>>
        /\ asked' \subseteq DOMAIN frame_buffer
    BY <1>1, <1>5 DEF LaunchThread
  <2> QED
    BY <1>1, <2>1
<1>6. ASSUME NEW t \in Slots, DecodeBlock(t)
      PROVE  /\ UNCHANGED <<fifo, header, block, lhe_block_data, asked>>
             /\ frame_buffer' \in [0 .. header.id - 1 -> Row]
             /\ asked \subseteq DOMAIN frame_buffer'
  <2>1. /\ UNCHANGED <<fifo, header, block, lhe_block_data, asked>>
        /\ frame_buffer' = [frame_buffer EXCEPT ![args[t].row] = args[t].data]
    BY <1>6 DEF DecodeBlock, fifoVars
  <2>2. args[t].data \in Row
    BY <1>1
  <2> QED
    BY <1>1, <2>1, <2>2
<1>7. CASE Pool
  BY <1>1, <1>6, <1>7 DEF Pool
<1>8. TestPlayerStop \/ ReadEof \/ JoinAll \/ Show \/ PlayerSigInt
        => /\ UNCHANGED <<header, block, lhe_block_data, frame_buffer, asked>>
           /\ fifo' = fifo
  BY DEF TestPlayerStop, ReadEof, JoinAll, Show, PlayerSigInt, PlayerLeave,
         videoVars, fifoVars
<1> QED
  BY <1>2, <1>3, <1>4, <1>5, <1>7, <1>8 DEF PlayerWork

(* Every step of the player, its threads and the writer keeps the types.   *)
LEMMA PlayerKept ==
  ASSUME PlayerInv, PoolInv, [PlayerNext]_<<playerVars, fifoVars>>
  PROVE  PlayerInv'
<1>1. CASE PlayerWork \/ Pool \/ PlayerSigInt
  <2>1. frame_buffer' \in [0 .. header'.id - 1 -> Row]
    BY <1>1, PlayerBuffer
  <2>2. \A k \in DOMAIN frame_buffer' : frame_buffer'[k] \in Row
    BY <2>1
  <2>3. \A k \in Slots : args'[k].row \in Nat /\ args'[k].data \in Row
    BY <1>1, PlayerPool
  <2> QED
    BY <1>1, <2>1, <2>2, <2>3, PlayerPoints, PlayerPool, PlayerBuffer
    DEF PlayerInv, PlayerTypeOK
<1>2. CASE UNCHANGED playerVars /\ fifo' \in Seq(Tokens)
  BY <1>2 DEF PlayerInv, PlayerTypeOK, playerVars, poolVars, videoVars
<1>3. Feeding \/ UNCHANGED <<playerVars, fifoVars>>
        => UNCHANGED playerVars /\ fifo' \in Seq(Tokens)
  <2>1. fifo \in Seq(Tokens)
    BY DEF PlayerInv
  <2>2. Feeding => UNCHANGED playerVars
    BY DEF Feeding
  <2>3. Feeding => fifo' = fifo \/ \E t \in Tokens : fifo' = Append(fifo, t)
    BY DEF Feeding, Put
  <2>4. \A t \in Tokens : Append(fifo, t) \in Seq(Tokens)
    BY <2>1
  <2>5. UNCHANGED <<playerVars, fifoVars>> => UNCHANGED playerVars /\ fifo' = fifo
    BY DEF fifoVars
  <2> QED
    BY <2>1, <2>2, <2>3, <2>4, <2>5
<1> QED
  BY <1>1, <1>2, <1>3 DEF PlayerNext

(* Every variable of the player keeps its type, whatever is written to the *)
(* pipe, for every size of the pool; in particular only rows of the frame  *)
(* buffer are given to the threads (newmain.cc:541-763).                   *)
THEOREM PlayerTypeCorrect == PlayerSpec => []PlayerTypeOK
<1>1. PlayerInit /\ FifoInit => PlayerInv /\ PoolInv
  BY PlayerStart, PoolInit
<1>2. PlayerInv /\ PoolInv /\ [PlayerNext]_<<playerVars, fifoVars>>
      => PlayerInv' /\ PoolInv'
  BY PlayerKept, PoolStep
<1>3. PlayerInv => PlayerTypeOK
  BY DEF PlayerInv
<1> QED
  BY <1>1, <1>2, <1>3, PTL DEF PlayerSpec

-----------------------------------------------------------------------------
(* The receiver and the player joined                                      *)

(* What a step of the receiver does to the pipe: nothing, but that it may  *)
(* close its end; or it writes one token.                                  *)
Silent == /\ UNCHANGED <<piped, fifo, reader>>
          /\ writer' = writer \/ (writer' = FALSE /\ pc' \in Left)
Puts(t) ==
  /\ pc \in Writes
  /\ \/ t = EndOfFrame /\ (WriteEnd \/ WriteMarker)
     \/ t = Token("header", pkt, pkt.im) /\ WriteHeader
     \/ t = Token("block", pkt, BlockNumber) /\ WriteBlock
     \/ t = Token("number", pkt, BlockNumber) /\ WriteNumber
     \/ t = Token("data", pkt, BlockNumber) /\ WriteData /\ ~NoData
(* What a step of the receiver does to the pipe is one of these.           *)
LEMMA WorkWrites ==
  ASSUME TypeInv, Work \/ SigInt \/ \E p \in Packets : Deliver(p)
  PROVE  Silent \/ \E t \in Tokens : Write(t) /\ Puts(t)
<1>1. CASE WriteEnd \/ WriteMarker
  BY <1>1, EndType DEF WriteEnd, WriteMarker, Writes, Puts
<1>2. CASE WriteHeader \/ WriteBlock \/ WriteNumber \/ (WriteData /\ ~NoData)
  <2>1. pc \in {"header", "block", "number", "data"} /\ pc \in Writes
    BY <1>2 DEF WriteHeader, WriteBlock, WriteNumber, WriteData, Writes
  <2>2. pkt \in Packets /\ done \in Nat
    BY <2>1 DEF TypeInv, Held, PipeTypeOK, ControlOK
  <2>3. pkt.im \in Nat /\ BlockNumber \in Nat
    BY <2>2, PacketFields, PacketAssumption DEF BlockNumber
  <2>4. \A kind \in {"header", "block", "number", "data"}, id \in Nat :
          Token(kind, pkt, id) \in Tokens
    BY <2>2, TokenType DEF Kinds
  <2>5. WriteHeader => Write(Token("header", pkt, pkt.im))
    BY DEF WriteHeader
  <2>6. WriteBlock => Write(Token("block", pkt, BlockNumber))
    BY DEF WriteBlock
  <2>7. WriteNumber => Write(Token("number", pkt, BlockNumber))
    BY DEF WriteNumber
  <2>8. WriteData /\ ~NoData => Write(Token("data", pkt, BlockNumber))
    BY DEF WriteData
  <2> QED
    BY <1>2, <2>1, <2>3, <2>4, <2>5, <2>6, <2>7, <2>8 DEF Puts
<1>3. CASE (WriteData /\ NoData) \/ TestStop \/ EnterRecv \/ SigInt
             \/ (\E p \in Packets : Deliver(p)) \/ RecvFailed \/ StopInFrame
  BY <1>3 DEF WriteData, TestStop, EnterRecv, SigInt, Deliver, RecvFailed,
              StopInFrame, Leave, Silent, pipeVars, fifoVars, Left
<1>4. CASE DropLate \/ Accept \/ EndPacket \/ WriteBroken
  BY <1>4 DEF DropLate, Accept, EndPacket, WriteBroken, Leave, Silent, pipeVars,
              fifoVars, Left
<1> QED
  BY <1>1, <1>2, <1>3, <1>4 DEF Work

(* A step of the player takes a token at most, and leaves the writer be.   *)
LEMMA PlayReads ==
  ASSUME PlayerWork \/ Pool \/ PlayerSigInt
  PROVE  /\ Take \/ fifo' = fifo
         /\ reader' \in {reader, FALSE} /\ writer' = writer
<1>1. PlayerWork \/ PlayerSigInt => /\ reader' \in {reader, FALSE}
                                    /\ writer' = writer
  BY DEF PlayerWork, TestPlayerStop, ReadEof, ReadHeader, ReadBlock, ReadNumber,
         ReadData, LaunchThread, JoinAll, Show, PlayerSigInt, Misread, PlayerLeave,
         fifoVars
<1>2. PlayerWork \/ PlayerSigInt => Take \/ fifo' = fifo
  BY DEF PlayerWork, TestPlayerStop, ReadEof, ReadHeader, ReadBlock, ReadNumber,
         ReadData, LaunchThread, JoinAll, Show, PlayerSigInt, Misread, PlayerLeave,
         fifoVars
<1>3. Pool => fifo' = fifo /\ reader' = reader /\ writer' = writer
  BY DEF Pool, DecodeBlock, fifoVars
<1> QED
  BY <1>1, <1>2, <1>3

(* A step of PipeStream, part by part: a packet is sent or lost; or one is *)
(* delivered; or the receiver, or the player, takes a step.                *)
NetworkOnly == /\ Transmit \/ Lose \/ UNCHANGED networkVars
               /\ UNCHANGED <<receiverVars, fifoVars, playerVars>>
Delivered   == \E k \in inflight :
                 Arrive(k) /\ Deliver(Datagram(k)) /\ UNCHANGED playerVars
Received    == (Work \/ SigInt) /\ UNCHANGED <<playerVars, networkVars>>
Played      == /\ PlayerWork \/ Pool \/ PlayerSigInt
               /\ UNCHANGED <<receiverVars, networkVars>>
(* Every step of PipeStream is one of these.                               *)
LEMMA StepParts ==
  ASSUME [Next]_vars
  PROVE  NetworkOnly \/ Delivered \/ Received \/ Played
<1>1. Emission \/ Loss => NetworkOnly
  BY DEF Emission, Loss, NetworkOnly
<1>2. Delivery => Delivered
  BY DEF Delivery, Delivered
<1>3. Receive => Received
  BY DEF Receive, Received
<1>4. Play \/ Decode => Played
  BY DEF Play, Decode, Played
<1>5. Interrupt => Received \/ Played
  BY DEF Interrupt, Received, Played
<1>6. UNCHANGED vars => NetworkOnly
  BY DEF vars, NetworkOnly
<1> QED
  BY <1>1, <1>2, <1>3, <1>4, <1>5, <1>6 DEF Next

BaseInv == NetworkInv /\ GrammarInv /\ TypeInv /\ PoolInv /\ PlayerInv

(* Every step is one the receiver takes with some network and some reader, *)
(* one the player takes with some writer, and one of the network.          *)
LEMMA StepsOfParts ==
  ASSUME NetworkInv, TypeInv, [Next]_vars
  PROVE  /\ NetworkStep /\ [PipeNext]_allVars
         /\ [PlayerNext]_<<playerVars, fifoVars>>
<1>1. CASE NetworkOnly
  BY <1>1 DEF NetworkOnly, NetworkStep, allVars
<1>2. CASE Delivered
  <2>1. PICK k \in inflight : Arrive(k) /\ Deliver(Datagram(k)) /\ UNCHANGED playerVars
    BY <1>2 DEF Delivered
  <2>2. Datagram(k) \in Packets
    BY <2>1, DatagramType DEF NetworkInv
  <2>3. fifoVars' = fifoVars
    BY <2>1 DEF Deliver, pipeVars
  <2> QED
    BY <2>1, <2>2, <2>3 DEF PipeNext, NetworkStep
<1>3. CASE Received
  <2>1. UNCHANGED playerVars /\ UNCHANGED networkVars /\ PipeNext
    BY <1>3 DEF Received, PipeNext
  <2>2. Silent \/ \E t \in Tokens : Write(t)
    BY <1>3, WorkWrites DEF Received
  <2>3. Feeding
    BY <2>1, <2>2 DEF Feeding, Silent, Write
  <2> QED
    BY <2>1, <2>3 DEF PlayerNext, NetworkStep
<1>4. CASE Played
  <2>1. UNCHANGED receiverVars /\ UNCHANGED networkVars /\ PlayerNext
    BY <1>4 DEF Played, PlayerNext
  <2>2. Reading
    BY <1>4, <2>1, PlayReads DEF Reading, Played
  <2> QED
    BY <2>1, <2>2 DEF PipeNext, NetworkStep
<1> QED
  BY <1>1, <1>2, <1>3, <1>4, StepParts

(* What is known of each part alone holds of the two joined.               *)
LEMMA BaseStart == Init => BaseInv
  BY NetworkStart, GrammarInit, TypeInit, PoolInit, PlayerStart DEF Init, BaseInv
(* And every step of the whole keeps it.                                   *)
LEMMA BaseKept == ASSUME BaseInv, [Next]_vars PROVE BaseInv'
<1>1. NetworkStep /\ [PipeNext]_allVars /\ [PlayerNext]_<<playerVars, fifoVars>>
  BY StepsOfParts DEF BaseInv
<1> QED
  BY <1>1, NetworkKept, GrammarStep, TypeStep, PoolStep, PlayerKept DEF BaseInv

(* The receiver in front of the player is LHE_receiver3 as PipeReceiver    *)
(* has it, and the player behind it is play_pstream as PipePlayer has it:  *)
(* what is proved of either for any peer holds here.                       *)
THEOREM PipeJoinsThem == Spec => PipeSpec /\ PlayerSpec /\ []TypeOK
<1>1. Init => BaseInv /\ ReceiverInit /\ FifoInit /\ PlayerInit
  BY BaseStart DEF Init
<1>2. BaseInv /\ [Next]_vars => BaseInv'
  BY BaseKept
<1>3. BaseInv /\ [Next]_vars => /\ [PipeNext]_<<receiverVars, fifoVars>>
                                /\ [PlayerNext]_<<playerVars, fifoVars>>
  BY StepsOfParts DEF BaseInv, allVars
<1>4. BaseInv => TypeOK
  BY DEF BaseInv, TypeInv, PlayerInv, TypeOK
<1> QED
  BY <1>1, <1>2, <1>3, <1>4, PTL DEF Spec, PipeSpec, PlayerSpec

-----------------------------------------------------------------------------
(* What the player has taken out of the pipe                               *)

Eaten == Len(piped) - Len(fifo)
Taken == [j \in 1 .. Eaten |-> piped[j]]
Prev  == IF Taken = <<>> THEN EndOfFrame ELSE Taken[Len(Taken)]

(* The pipe holds the end of what was written; its writer is the receiver. *)
FifoInv ==
  /\ Len(fifo) <= Len(piped)
  /\ \A i \in 1 .. Len(fifo) : fifo[i] = piped[Eaten + i]
  /\ writer <=> pc \notin Left

(* A sequence is the function from its indices to its elements.            *)
LEMMA SeqIsFunction ==
  ASSUME NEW S, NEW s \in Seq(S)
  PROVE  s = [j \in 1 .. Len(s) |-> s[j]]
  OBVIOUS

(* When the programs start, nothing was written.                           *)
LEMMA FifoStart == Init => FifoInv
  BY DEF Init, FifoInit, ReceiverInit, FifoInv, Eaten, Left

(* What was taken is what was written first.                               *)
LEMMA TakenFacts ==
  ASSUME BaseInv, FifoInv
  PROVE  /\ piped \in Seq(Tokens) /\ fifo \in Seq(Tokens)
         /\ Len(piped) \in Nat /\ Len(fifo) \in Nat
         /\ Eaten \in Nat /\ Len(piped) = Eaten + Len(fifo)
         /\ Taken \in Seq(Tokens) /\ Len(Taken) = Eaten
         /\ DOMAIN Taken = 1 .. Eaten /\ DOMAIN piped = 1 .. Len(piped)
         /\ \A j \in 1 .. Eaten : Taken[j] = piped[j] /\ j \in DOMAIN piped
         /\ Prev \in Tokens
<1>1. /\ piped \in Seq(Tokens) /\ fifo \in Seq(Tokens)
      /\ Len(piped) \in Nat /\ Len(fifo) \in Nat /\ DOMAIN piped = 1 .. Len(piped)
  BY DEF BaseInv, TypeInv, PipeTypeOK, PipeOK
<1>2. Eaten \in Nat /\ Len(piped) = Eaten + Len(fifo)
  BY <1>1 DEF Eaten, FifoInv
<1>3. \A j \in 1 .. Eaten : j \in DOMAIN piped /\ piped[j] \in Tokens
  BY <1>1, <1>2
<1> DEFINE n == Eaten
<1>4. Taken = [j \in 1 .. n |-> piped[j]]
  BY DEF Taken
<1> HIDE DEF n
<1>5. Taken \in Seq(Tokens) /\ Len(Taken) = n /\ DOMAIN Taken = 1 .. n
  BY <1>2, <1>3, <1>4 DEF n
<1>6. Prev \in Tokens
  BY <1>2, <1>5, EndType DEF Prev, n
<1> QED
  BY <1>1, <1>2, <1>3, <1>4, <1>5, <1>6 DEF n

(* The receiver's writes are behind what was taken.                        *)
LEMMA WriteBehind ==
  ASSUME BaseInv, FifoInv, NEW t \in Tokens, Write(t), writer, pc \in Writes,
         pc' \notin Left
  PROVE  FifoInv' /\ Taken' = Taken
<1>1. /\ piped' = Append(piped, t) /\ fifo' = Append(fifo, t) /\ writer' = writer
  BY DEF Write, Put
<1>2. /\ Len(piped') = Len(piped) + 1 /\ Len(fifo') = Len(fifo) + 1
      /\ \A j \in DOMAIN piped : piped'[j] = piped[j]
      /\ \A i \in 1 .. Len(fifo) : fifo'[i] = fifo[i]
      /\ piped'[Len(piped) + 1] = t /\ fifo'[Len(fifo) + 1] = t
  BY <1>1, TakenFacts
<1>3. Eaten' = Eaten
  BY <1>2, TakenFacts DEF Eaten
<1>4. Taken' = Taken
  BY <1>2, <1>3, TakenFacts DEF Taken
<1>5. \A i \in 1 .. Len(fifo') : fifo'[i] = piped'[Eaten' + i]
  <2> SUFFICES ASSUME NEW i \in 1 .. Len(fifo) + 1 PROVE fifo'[i] = piped'[Eaten + i]
    BY <1>2, <1>3
  <2>1. CASE i = Len(fifo) + 1
    <3>1. Eaten + i = Len(piped) + 1
      BY <2>1, TakenFacts
    <3> QED
      BY <1>2, <2>1, <3>1
  <2>2. CASE i \in 1 .. Len(fifo)
    <3>1. Eaten + i \in DOMAIN piped
      BY <2>2, TakenFacts
    <3> QED
      BY <1>2, <2>2, <3>1 DEF FifoInv
  <2> QED
    BY <2>1, <2>2, TakenFacts
<1>6. Len(fifo') <= Len(piped')
  BY <1>2, TakenFacts DEF FifoInv
<1> QED
  BY <1>1, <1>4, <1>5, <1>6 DEF FifoInv

(* A read takes the next token.                                            *)
LEMMA ReadAhead ==
  ASSUME BaseInv, FifoInv, Take, piped' = piped, writer' = writer, pc' = pc
  PROVE  FifoInv' /\ Taken' = Append(Taken, Head(fifo))
<1>1. /\ fifo # <<>> /\ fifo' = Tail(fifo)
  BY DEF Take, IsEmpty
<1>2. /\ Len(fifo) >= 1 /\ Len(fifo') = Len(fifo) - 1 /\ Head(fifo) = fifo[1]
      /\ \A i \in 1 .. Len(fifo') : fifo'[i] = fifo[i + 1]
  BY <1>1, TakenFacts
<1>3. Eaten' = Eaten + 1
  BY <1>2, TakenFacts DEF Eaten
<1>4. Head(fifo) = piped[Eaten + 1] /\ Head(fifo) \in Tokens
  BY <1>1, <1>2, TakenFacts DEF FifoInv
<1>5. Taken' = Append(Taken, Head(fifo))
  <2>1. Taken' = [j \in 1 .. Eaten + 1 |-> piped[j]]
    BY <1>3 DEF Taken
  <2>2. /\ DOMAIN Append(Taken, Head(fifo)) = 1 .. Eaten + 1
        /\ \A j \in 1 .. Eaten : Append(Taken, Head(fifo))[j] = piped[j]
        /\ Append(Taken, Head(fifo))[Eaten + 1] = piped[Eaten + 1]
    BY <1>4, TakenFacts
  <2>3. Append(Taken, Head(fifo)) =
          [j \in 1 .. Eaten + 1 |-> Append(Taken, Head(fifo))[j]]
    <3>1. /\ Append(Taken, Head(fifo)) \in Seq(Tokens)
          /\ Len(Append(Taken, Head(fifo))) = Eaten + 1
      BY <1>4, TakenFacts
    <3> QED
      BY <3>1, SeqIsFunction
  <2>4. \A j \in 1 .. Eaten + 1 : Append(Taken, Head(fifo))[j] = piped[j]
    BY <2>2, TakenFacts
  <2> QED
    BY <2>1, <2>2, <2>3, <2>4
<1>6. \A i \in 1 .. Len(fifo') : fifo'[i] = piped'[Eaten' + i]
  <2> SUFFICES ASSUME NEW i \in 1 .. Len(fifo') PROVE fifo'[i] = piped[Eaten + 1 + i]
    BY <1>3
  <2>1. i + 1 \in 1 .. Len(fifo) /\ Eaten + (i + 1) = Eaten + 1 + i
    BY <1>2, TakenFacts
  <2> QED
    BY <1>2, <2>1 DEF FifoInv
<1> QED
  BY <1>2, <1>5, <1>6, TakenFacts DEF FifoInv

(* What a step does to what was taken: nothing, or it takes the next token.*)
LEMMA TakenStep ==
  ASSUME BaseInv, FifoInv, [Next]_vars
  PROVE  /\ FifoInv'
         /\ \/ /\ NetworkOnly \/ Delivered \/ Received
               /\ Taken' = Taken /\ UNCHANGED playerVars
               /\ AtEof => AtEof'
            \/ /\ Played /\ Taken' = Taken /\ fifo' = fifo /\ ~Take
               /\ writer' = writer
            \/ /\ Played /\ Take /\ Taken' = Append(Taken, Head(fifo))
<1>1. CASE NetworkOnly
  BY <1>1 DEF NetworkOnly, FifoInv, Taken, Eaten, receiverVars, fifoVars, AtEof, IsEmpty
<1>2. CASE Delivered
  <2>1. /\ UNCHANGED playerVars /\ piped' = piped /\ fifo' = fifo /\ writer' = writer
        /\ pc = "recv" /\ pc' = "got"
    BY <1>2 DEF Delivered, Deliver, pipeVars, fifoVars
  <2> QED
    BY <1>2, <2>1 DEF FifoInv, Taken, Eaten, AtEof, IsEmpty, Left
<1>3. CASE Received
  <2>1. UNCHANGED playerVars
    BY <1>3 DEF Received
  <2>2. Silent \/ \E t \in Tokens : Write(t) /\ pc \in Writes
    BY <1>3, WorkWrites DEF Received, BaseInv, Puts
  <2>3. pc \in Left => FALSE
    BY <1>3 DEF Received, Work, SigInt, Left, TestStop, EnterRecv, StopInFrame, RecvFailed,
                DropLate, Accept, WriteEnd, WriteHeader, WriteBlock, WriteNumber,
                WriteData, EndPacket, WriteMarker, WriteBroken, Writing, Writes
  <2>4. pc' \in Left => writer' = FALSE
    BY <1>3, <2>3
       DEF Received, Work, SigInt, Left, TestStop, EnterRecv, StopInFrame, RecvFailed,
           DropLate, Accept, WriteEnd, WriteHeader, WriteBlock, WriteNumber,
           WriteData, EndPacket, WriteMarker, WriteBroken, Leave, FirstAfterEnd
  <2>5. CASE Silent
    <3>1. FifoInv'
      BY <2>3, <2>4, <2>5 DEF Silent, FifoInv, Eaten
    <3> QED
      BY <1>3, <2>1, <2>5, <3>1 DEF Silent, Taken, Eaten, AtEof, IsEmpty
  <2>6. ASSUME NEW t \in Tokens, Write(t), pc \in Writes
        PROVE  FifoInv' /\ Taken' = Taken /\ ~AtEof
    <3>1. writer' = writer /\ writer
      BY <2>3, <2>6 DEF Write, FifoInv
    <3>2. pc' \notin Left
      BY <2>4, <3>1
    <3> QED
      BY <2>6, <3>1, <3>2, WriteBehind DEF AtEof
  <2> QED
    BY <1>3, <2>1, <2>2, <2>5, <2>6
<1>4. CASE Played
  <2>1. piped' = piped /\ pc' = pc /\ writer' = writer
    BY <1>4, PlayReads DEF Played, receiverVars
  <2>2. CASE Take
    BY <1>4, <2>1, <2>2, ReadAhead
  <2>3. CASE ~Take
    <3>1. fifo' = fifo
      BY <1>4, <2>3, PlayReads DEF Played
    <3> QED
      BY <1>4, <2>1, <2>3, <3>1 DEF FifoInv, Taken, Eaten
  <2> QED
    BY <2>2, <2>3
<1> QED
  BY <1>1, <1>2, <1>3, <1>4, StepParts

(* The token that comes next may follow the last one taken.                *)
LEMMA HeadFollows ==
  ASSUME BaseInv, FifoInv, fifo # <<>>
  PROVE  /\ Head(fifo) \in Tokens /\ Head(fifo) = piped[Eaten + 1]
         /\ Eaten + 1 \in DOMAIN piped /\ Follows(Prev, Head(fifo))
<1>1. /\ Len(fifo) >= 1 /\ Head(fifo) = fifo[1] /\ Head(fifo) \in Tokens
  BY TakenFacts
<1>2. Head(fifo) = piped[Eaten + 1] /\ Eaten + 1 \in DOMAIN piped
  BY <1>1, TakenFacts DEF FifoInv
<1>3. CASE Eaten = 0
  <2>1. piped # <<>> /\ Prev = EndOfFrame
    BY <1>2, <1>3, TakenFacts DEF Prev
  <2>2. Head(fifo).kind = "header"
    BY <1>2, <1>3, <2>1 DEF BaseInv, GrammarInv, PipeGrammar
  <2> QED
    BY <1>1, <1>2, <2>1, <2>2 DEF Follows, EndOfFrame
<1>4. CASE Eaten # 0
  <2>1. Eaten \in 1 .. Len(piped) - 1 /\ Taken # <<>>
    BY <1>2, <1>4, TakenFacts
  <2>2. Prev = piped[Eaten]
    BY <2>1, <1>4, TakenFacts DEF Prev
  <2> QED
    BY <1>1, <1>2, <2>1, <2>2 DEF BaseInv, GrammarInv, PipeGrammar
<1> QED
  BY <1>3, <1>4

-----------------------------------------------------------------------------
(* The player reads what the receiver wrote                                *)

(* Where the player is between two tokens, and what it took last.          *)
Within == {"blocks", "block", "number", "data", "slot", "join"}
ReadInv ==
  /\ ppc # "misread"
  /\ ppc \in {"frame", "header", "join"} => Prev.kind = "end"
  /\ ppc \in {"blocks", "block", "slot"} =>
       Prev.kind \in {"header", "data"} /\ Prev.ts = header.ts
  /\ ppc = "number" => Prev = block /\ block.kind = "block"
  /\ ppc = "data" => AtEof \/ (Prev = block /\ block.kind = "number")
  /\ ppc \in {"number", "data"} => block.ts = header.ts
  /\ ppc = "slot" => block.id = Prev.id /\ lhe_block_data = BlockOf(Prev)
  /\ ppc \in Within => header.kind = "header"

(* Nothing was taken when the player starts.                               *)
LEMMA ReadStart == Init => ReadInv
<1> SUFFICES ASSUME Init PROVE ReadInv
  OBVIOUS
<1>1. piped = <<>> /\ fifo = <<>> /\ ppc = "frame"
  BY DEF Init, ReceiverInit, FifoInit, PlayerInit
<1>2. Prev = EndOfFrame
  BY <1>1 DEF Prev, Taken, Eaten
<1> QED
  BY <1>1, <1>2 DEF ReadInv, Within, EndOfFrame

(* The reads are the steps that take a token; one more token is the last.  *)
LEMMA TakingSteps ==
  ASSUME BaseInv, FifoInv, Played, Take
  PROVE  ReadHeader \/ ReadBlock \/ ReadNumber \/ ReadData
<1>1. fifo' # fifo
  <2>1. fifo \in Seq(Tokens) /\ fifo # <<>> /\ fifo' = Tail(fifo)
    BY TakenFacts DEF Take, IsEmpty
  <2>2. Len(fifo') # Len(fifo)
    BY <2>1
  <2> QED
    BY <2>2
<1> QED
  BY <1>1 DEF Played, PlayerWork, TestPlayerStop, ReadEof, LaunchThread, JoinAll,
              Show, Pool, DecodeBlock, PlayerSigInt, PlayerLeave, fifoVars
(* One more token taken is the last one.                                   *)
LEMMA PrevTaken ==
  ASSUME BaseInv, FifoInv, NEW t \in Tokens, Taken' = Append(Taken, t)
  PROVE  Prev' = t
<1>1. Append(Taken, t) # <<>> /\ Append(Taken, t)[Len(Append(Taken, t))] = t
  BY TakenFacts
<1> QED
  BY <1>1 DEF Prev

(* The steps of the player that take nothing.                              *)
LEMMA ReadKeptWithin ==
  ASSUME ReadInv, Played, Taken' = Taken, fifo' = fifo, ~Take, writer' = writer
  PROVE  ReadInv'
<1>1. Prev' = Prev /\ AtEof' = AtEof
  BY DEF Prev, AtEof, IsEmpty
<1>2. CASE TestPlayerStop
  BY <1>1, <1>2
  DEF TestPlayerStop, ReadInv, Within, PlayerLeave, videoVars
<1>3. CASE ReadEof
  BY <1>1, <1>3
  DEF ReadEof, NoticesEof, ReadInv, Within, Reads, PlayerLeave, videoVars
<1>4. CASE LaunchThread
  BY <1>1, <1>4 DEF LaunchThread, ReadInv, Within, PlayerLeave
<1>5. CASE JoinAll
  BY <1>1, <1>5 DEF JoinAll, ReadInv, Within, PlayerLeave, videoVars
<1>6. CASE Show
  BY <1>1, <1>6 DEF Show, ReadInv, Within
<1>7. CASE Pool
  BY <1>1, <1>7 DEF Pool, DecodeBlock, ReadInv, Within
<1>8. CASE PlayerSigInt
  BY <1>1, <1>8 DEF PlayerSigInt, ReadInv, Within, PlayerLeave, videoVars
<1> QED
  BY <1>2, <1>3, <1>4, <1>5, <1>6, <1>7, <1>8
  DEF Played, PlayerWork, ReadHeader, ReadBlock, ReadNumber, ReadData

(* newmain.cc:620-714: the four reads.  No block is empty, so that a block *)
(* header of length 0 is the end of a frame.                               *)
LEMMA ReadKeptReading ==
  ASSUME EmptyBlocks = {}, BaseInv, FifoInv, ReadInv, Played, Take,
         Taken' = Append(Taken, Head(fifo))
  PROVE  ReadInv' /\ Prev' = Head(fifo)
<1> DEFINE t == Head(fifo)
<1>1. fifo # <<>> /\ ~AtEof
  BY DEF Take, IsEmpty, AtEof
<1>2. t \in Tokens /\ Follows(Prev, t) /\ Prev \in Tokens
  BY <1>1, HeadFollows, TakenFacts
<1>3. Prev' = t
  BY <1>2, PrevTaken
<1>4. IsEnd(t) <=> t.kind = "end"
  BY DEF IsEnd
<1>5. \/ Prev.kind = "end" /\ t.kind = "header"
      \/ Prev.kind \in {"header", "data"} /\ t.kind = "block" /\ t.ts = Prev.ts
      \/ Prev.kind \in {"header", "data"} /\ t.kind = "end"
      \/ Prev.kind = "block" /\ t = [Prev EXCEPT !.kind = "number"]
      \/ Prev.kind = "number" /\ t = [Prev EXCEPT !.kind = "data"]
  BY <1>2 DEF Follows, BlockDone
<1> HIDE DEF t
<1>6. CASE ReadHeader
  <2>1. Prev.kind = "end" /\ ppc = "header"
    BY <1>6 DEF ReadHeader, ReadInv
  <2>2. t.kind = "header"
    BY <1>5, <2>1
  <2>3. ppc' = "blocks" /\ header' = t
    BY <1>6, <2>2 DEF ReadHeader, t
  <2> QED
    BY <1>3, <2>2, <2>3 DEF ReadInv, Within, t
<1>7. CASE ReadBlock
  <2>1. Prev.kind \in {"header", "data"} /\ Prev.ts = header.ts /\ ppc = "block"
        /\ header.kind = "header"
    BY <1>7 DEF ReadBlock, ReadInv, Within
  <2>2. t.kind = "end" \/ (t.kind = "block" /\ t.ts = Prev.ts)
    BY <1>5, <2>1
  <2>3. /\ block' = t /\ header' = header
        /\ \/ ppc' = "out"
           \/ ppc' = IF t.kind = "end" THEN "join" ELSE "number"
    BY <1>4, <1>7, <2>2 DEF ReadBlock, PlayerLeave, t
  <2> QED
    BY <1>3, <2>1, <2>2, <2>3 DEF ReadInv, Within, t
<1>8. CASE ReadNumber
  <2>1. Prev.kind = "block" /\ Prev = block /\ block.ts = header.ts
        /\ header.kind = "header" /\ ppc = "number"
    BY <1>8 DEF ReadNumber, ReadInv, Within
  <2>2. t = [Prev EXCEPT !.kind = "number"]
    BY <1>5, <2>1
  <2>3. t.kind = "number" /\ t.ts = header.ts
    BY <1>2, <2>1, <2>2 DEF Tokens
  <2>4. ppc' = "data" /\ block' = t /\ header' = header
    BY <1>8, <2>3 DEF ReadNumber, t
  <2> QED
    BY <1>3, <2>1, <2>3, <2>4 DEF ReadInv, Within, t
<1>9. CASE ReadData
  <2>1. Prev.kind = "number" /\ Prev = block /\ block.ts = header.ts
        /\ header.kind = "header" /\ ppc = "data"
    BY <1>1, <1>9 DEF ReadData, ReadInv, Within
  <2>2. t = [Prev EXCEPT !.kind = "data"]
    BY <1>5, <2>1
  <2>3. t.kind = "data" /\ t.ts = header.ts /\ t.id = block.id
    BY <1>2, <2>1, <2>2 DEF Tokens
  <2>4. ppc' = "slot" /\ block' = block /\ header' = header
        /\ lhe_block_data' = BlockOf(t)
    BY <1>9, <2>3 DEF ReadData, t
  <2> QED
    BY <1>3, <2>1, <2>3, <2>4 DEF ReadInv, Within, t
<1> QED
  BY <1>3, <1>6, <1>7, <1>8, <1>9, TakingSteps DEF t

(* Every step keeps the player in step with what it took last.             *)
LEMMA ReadKept ==
  ASSUME EmptyBlocks = {}, BaseInv, FifoInv, ReadInv, [Next]_vars
  PROVE  ReadInv'
<1>1. CASE Taken' = Taken /\ UNCHANGED playerVars /\ (AtEof => AtEof')
  <2>1. Prev' = Prev /\ ppc' = ppc /\ header' = header /\ block' = block
        /\ lhe_block_data' = lhe_block_data
    BY <1>1 DEF Prev, playerVars, videoVars
  <2> QED
    BY <1>1, <2>1 DEF ReadInv
<1> QED
  BY <1>1, TakenStep, ReadKeptWithin, ReadKeptReading

(* Whatever packets are lost, overtaken or delivered twice, and whenever   *)
(* either program is stopped, the player always knows a header from a      *)
(* block from the end of a frame - as long as no block is empty: the       *)
(* header of an empty block is the end of a frame to the player            *)
(* (newmain.cc:622-690, LHE_receiver.c:744-829).                           *)
THEOREM PipeNeverMisread ==
  ASSUME EmptyBlocks = {} PROVE Spec => []NeverMisread
<1>1. Init => BaseInv /\ FifoInv /\ ReadInv
  BY BaseStart, FifoStart, ReadStart
<1>2. BaseInv /\ FifoInv /\ ReadInv /\ [Next]_vars => BaseInv' /\ FifoInv' /\ ReadInv'
  BY BaseKept, TakenStep, ReadKept
<1>3. ReadInv => NeverMisread
  BY DEF ReadInv, NeverMisread
<1> QED
  BY <1>1, <1>2, <1>3, PTL DEF Spec

-----------------------------------------------------------------------------
(* What the tokens are made from                                           *)

(* The frames of a video can be told apart by their timestamps.            *)
TimestampsDiffer ==
  \A s \in SizeSets : \A f, e \in DOMAIN s :
    \A g \in DOMAIN s[f], h \in DOMAIN s[e] :
      Source!TsOf(f, g) = Source!TsOf(e, h) => f = e /\ g = h

(* Files start 3000 apart and frames are 818 apart: two frames of one      *)
(* timestamp are 1500 frames and 409 files apart, or more.                 *)
LEMMA TimesApart ==
  ASSUME NEW f \in Nat \ {0}, NEW e \in Nat \ {0}, NEW g \in Nat \ {0},
         NEW h \in Nat \ {0}, g <= 1500, h <= 1500,
         (f - 1) * 3000 + (g - 1) * 818 = (e - 1) * 3000 + (h - 1) * 818
  PROVE  f = e /\ g = h
<1> DEFINE c == f - e
           d == h - g
<1>1. c \in Int /\ d \in Int /\ d < 1500 /\ -1500 < d /\ c * 1500 = d * 409
  OBVIOUS
<1>2. c = 0 => f = e
  OBVIOUS
<1>3. d = 0 => g = h
  OBVIOUS
<1> HIDE DEF c, d
<1> DEFINE w == d * 3 - c * 11
<1>4. d = w * 1500 /\ w \in Int
  BY <1>1
<1> HIDE DEF w
<1>5. w = 0
  BY <1>1, <1>4
<1>6. d = 0 /\ c = 0
  BY <1>1, <1>4, <1>5
<1> QED
  BY <1>2, <1>3, <1>6

(* The same of the timestamps themselves, before they wrap around.         *)
LEMMA FileTimes ==
  ASSUME NEW f \in Nat \ {0}, NEW e \in Nat \ {0}, NEW g \in Nat \ {0},
         NEW h \in Nat \ {0}, g <= 1500, h <= 1500, NEW n \in Nat, f <= n, e <= n,
         n * 3000 + 1500 * 818 <= TS_MOD,
         Source!TsOf(f, g) = Source!TsOf(e, h)
  PROVE  f = e /\ g = h
<1> DEFINE a == (f - 1) * 3000 + (g - 1) * 818
           b == (e - 1) * 3000 + (h - 1) * 818
<1>1. a \in Nat /\ b \in Nat
  OBVIOUS
<1>2. TS_MOD \in Nat \ {0} /\ a < TS_MOD /\ b < TS_MOD
  BY NetworkLimits
<1>3. a % TS_MOD = b % TS_MOD
  BY DEF Source!TsOf, Source!FileTs, Source!FrameTs
<1>4. a = b => f = e /\ g = h
  BY TimesApart
<1> HIDE DEF a, b
<1>5. a % TS_MOD = a /\ b % TS_MOD = b
  BY <1>1, <1>2
<1> QED
  BY <1>3, <1>4, <1>5

(* An index of a sequence no longer than n.                                *)
LEMMA ShortIndex ==
  ASSUME NEW S, NEW q \in Seq(S), NEW i \in DOMAIN q, NEW n \in Nat, Len(q) <= n
  PROVE  i \in Nat \ {0} /\ i <= n
<1>1. i \in 1 .. Len(q) /\ Len(q) \in Nat
  OBVIOUS
<1> QED
  BY <1>1

(* A directory of files of up to 1500 frames, as long as the timestamp     *)
(* does not wrap around.                                                   *)
LEMMA FilesDiffer ==
  ASSUME \A s \in SizeSets : /\ Len(s) * 3000 + 1500 * 818 <= TS_MOD
                             /\ \A f \in DOMAIN s : Len(s[f]) <= 1500
  PROVE  TimestampsDiffer
<1> SUFFICES ASSUME NEW s \in SizeSets, NEW f \in DOMAIN s, NEW e \in DOMAIN s,
                    NEW g \in DOMAIN s[f], NEW h \in DOMAIN s[e],
                    Source!TsOf(f, g) = Source!TsOf(e, h)
             PROVE  f = e /\ g = h
  BY DEF TimestampsDiffer
<1>1. s \in Seq(Seq(1 .. IMAGE_BSIZE_MAX))
  BY NetworkAssumption
<1>2. /\ Len(s) * 3000 + 1500 * 818 <= TS_MOD
      /\ Len(s[f]) <= 1500 /\ Len(s[e]) <= 1500
  OBVIOUS
<1>3. /\ f \in Nat \ {0} /\ f <= Len(s) /\ e \in Nat \ {0} /\ e <= Len(s)
      /\ Len(s) \in Nat
  BY <1>1
<1>4. s[f] \in Seq(1 .. IMAGE_BSIZE_MAX) /\ s[e] \in Seq(1 .. IMAGE_BSIZE_MAX)
  BY <1>1
<1>5. g \in Nat \ {0} /\ g <= 1500
  BY <1>2, <1>4, ShortIndex
<1>6. h \in Nat \ {0} /\ h <= 1500
  BY <1>2, <1>4, ShortIndex
<1> QED
  BY <1>2, <1>3, <1>5, <1>6, FileTimes

(* Frames of one timestamp are the same.                                   *)
LEMMA OneFramePerTime ==
  ASSUME TimestampsDiffer, StreamInv, NEW u \in Frames, NEW v \in Frames,
         TsOf(u) = TsOf(v)
  PROVE  u = v
<1>1. PICK f \in DOMAIN sizes : \E g \in DOMAIN sizes[f] : u = <<f, g>>
  BY DEF Frames
<1>2. PICK g \in DOMAIN sizes[f] : u = <<f, g>>
  BY <1>1
<1>3. PICK e \in DOMAIN sizes : \E h \in DOMAIN sizes[e] : v = <<e, h>>
  BY DEF Frames
<1>4. PICK h \in DOMAIN sizes[e] : v = <<e, h>>
  BY <1>3
<1>5. Source!TsOf(f, g) = Source!TsOf(e, h) /\ sizes \in SizeSets
  BY <1>2, <1>4 DEF TsOf, StreamInv
<1>6. f = e /\ g = h
  BY <1>5 DEF TimestampsDiffer
<1> QED
  BY <1>2, <1>4, <1>6

(* A token that is not an end was made from a packet of the video.         *)
OfFrame(t) == /\ t.img \in Frames /\ t.ts = TsOf(t.img)
              /\ t.kind = "header" => t.id = SizeOf(t.img)
PktInv   == pkt \in Packets =>
              pkt.img \in Frames /\ pkt.ts = TsOf(pkt.img) /\ pkt.im = SizeOf(pkt.img)
TokenInv == \A j \in DOMAIN piped : piped[j].kind # "end" => OfFrame(piped[j])

(* No packet was received, nothing was written.                            *)
LEMMA TokenStart == Init => PktInv /\ TokenInv
  BY PacketAssumption DEF Init, ReceiverInit, NoPacket, Packets, PktInv, TokenInv

(* The video stays the same.                                               *)
LEMMA VideoStays ==
  ASSUME BaseInv, [Next]_vars
  PROVE  /\ sizes' = sizes /\ Frames' = Frames
         /\ \A v : SizeOf(v)' = SizeOf(v)
<1>1. sizes' = sizes
  BY StepsOfParts, NetworkSends, SentKept DEF BaseInv, NetworkInv
<1> QED
  BY <1>1 DEF Frames, SizeOf

(* The packet in the receiver's buffer changes when one is delivered.      *)
LEMMA PktKept ==
  ASSUME BaseInv, PktInv, [Next]_vars
  PROVE  PktInv'
<1>1. CASE pkt' = pkt
  BY <1>1, VideoStays DEF PktInv
<1>2. CASE Delivered
  <2>1. PICK k \in inflight : Deliver(Datagram(k))
    BY <1>2 DEF Delivered
  <2>2. pkt' = Datagram(k) /\ k \in DOMAIN stream
    BY <2>1 DEF Deliver, BaseInv, NetworkInv
  <2>3. LET v == <<stream[k].file, stream[k].frame>> IN
          /\ v \in Frames /\ TsOf(v) = stream[k].ts /\ SizeOf(v) = Size(stream[k])
    BY <2>2, FrameOfPacket DEF BaseInv, NetworkInv
  <2>4. /\ pkt'.img = <<stream[k].file, stream[k].frame>> /\ pkt'.ts = stream[k].ts
        /\ pkt'.im = Size(stream[k])
    BY <2>2 DEF Datagram, Size
  <2> QED
    BY <2>3, <2>4, VideoStays DEF PktInv, TsOf
<1>3. NetworkOnly \/ Received \/ Played => pkt' = pkt
  BY DEF NetworkOnly, Received, Played, receiverVars, recvVars, Work, SigInt, TestStop,
         EnterRecv, StopInFrame, RecvFailed, DropLate, Accept, WriteEnd, WriteHeader,
         WriteBlock, WriteNumber, WriteData, EndPacket, WriteMarker, WriteBroken
<1> QED
  BY <1>1, <1>2, <1>3, StepParts

(* What a step does to what was written: nothing, or one token more.       *)
LEMMA PipedStep ==
  ASSUME BaseInv, [Next]_vars
  PROVE  \/ piped' = piped
         \/ \E t \in Tokens : /\ Received /\ Puts(t) /\ piped' = Append(piped, t)
                              /\ pkt \in Packets
<1>1. CASE Received
  <2>1. Silent \/ \E t \in Tokens : Write(t) /\ Puts(t)
    BY <1>1, WorkWrites DEF Received, BaseInv
  <2>2. \A t : Puts(t) => pkt \in Packets
    BY DEF Puts, BaseInv, TypeInv, Held
  <2> QED
    BY <1>1, <2>1, <2>2 DEF Silent, Write
<1>2. NetworkOnly \/ Delivered \/ Played => piped' = piped
  BY DEF NetworkOnly, Delivered, Deliver, Played, receiverVars, pipeVars
<1> QED
  BY <1>1, <1>2, StepParts

(* What is written of a packet is a token about its frame.                 *)
LEMMA PutsFrame ==
  ASSUME PktInv, pkt \in Packets, NEW t, Puts(t)
  PROVE  \/ t.kind = "end"
         \/ /\ t.kind # "end" /\ OfFrame(t) /\ t.img = pkt.img /\ t.ts = pkt.ts
<1>1. CASE t = EndOfFrame
  BY <1>1 DEF EndOfFrame
<1>2. CASE t = Token("header", pkt, pkt.im)
  BY <1>2 DEF Token, OfFrame, PktInv
<1>3. ASSUME NEW kind \in {"block", "number", "data"}, t = Token(kind, pkt, BlockNumber)
      PROVE  t.kind # "end" /\ OfFrame(t) /\ t.img = pkt.img /\ t.ts = pkt.ts
  BY <1>3 DEF Token, OfFrame, PktInv
<1> QED
  BY <1>1, <1>2, <1>3 DEF Puts

(* What is written is about frames of the video (LHE_receiver.c:723-829).  *)
LEMMA TokenKept ==
  ASSUME BaseInv, PktInv, TokenInv, [Next]_vars
  PROVE  TokenInv'
<1>1. sizes' = sizes /\ Frames' = Frames
  BY VideoStays
<1>2. CASE piped' = piped
  BY <1>1, <1>2 DEF TokenInv, OfFrame, TsOf, SizeOf
<1>3. ASSUME NEW t \in Tokens, Puts(t), piped' = Append(piped, t), pkt \in Packets
      PROVE  TokenInv'
  <2>1. piped \in Seq(Tokens)
    BY DEF BaseInv, GrammarInv
  <2>2. /\ DOMAIN piped' = 1 .. Len(piped) + 1 /\ Len(piped) \in Nat
        /\ piped'[Len(piped) + 1] = t /\ DOMAIN piped = 1 .. Len(piped)
        /\ \A j \in DOMAIN piped : piped'[j] = piped[j]
    BY <1>3, <2>1
  <2>3. t.kind = "end" \/ OfFrame(t)
    BY <1>3, PutsFrame
  <2>4. \A j \in DOMAIN piped' : piped'[j].kind # "end" => OfFrame(piped'[j])
    BY <2>2, <2>3 DEF TokenInv
  <2> QED
    BY <1>1, <2>4 DEF TokenInv, OfFrame, TsOf, SizeOf
<1> QED
  BY <1>2, <1>3, PipedStep

-----------------------------------------------------------------------------
(* What is shown is decoded                                                *)

(* Between two frames no thread runs; in a frame, the threads decode       *)
(* blocks of it, each into its own row; a row given to a thread is decoded *)
(* or the thread still runs.                                               *)
OwnBlock(k) == [img |-> header.img, id |-> k]
DecodedInv ==
  /\ ppc \in Within => OfFrame(header)
  /\ ppc = "slot" => lhe_block_data = OwnBlock(block.id)
  /\ ppc \in {"frame", "header"} => \A t \in Slots : threads[t] # "running"
  /\ ppc \in Within =>
       \A t \in Slots : threads[t] = "running" =>
         args[t].row \in DOMAIN frame_buffer /\ args[t].data = OwnBlock(args[t].row)
  /\ ppc \in Within =>
       \A k \in asked : \/ frame_buffer[k] = OwnBlock(k)
                        \/ \E t \in Slots : threads[t] = "running" /\ args[t].row = k

(* No thread runs when the player starts.                                  *)
LEMMA DecodedStart == Init => DecodedInv
  BY DEF Init, PlayerInit, DecodedInv, Within

(* The points of a player that has not left.                               *)
LEMMA PlayerIsIn ==
  ASSUME PlayerInv, ppc \notin Within, ppc \notin {"frame", "header"}
  PROVE  ppc \in PlayerLeft
  BY DEF PlayerInv, PlayerTypeOK, Within, Reads

(* Steps that leave the threads alone and stay in the frame, or out of it. *)
LEMMA DecodedIdle ==
  ASSUME DecodedInv, UNCHANGED <<header, frame_buffer, threads, args, asked>>,
         sizes' = sizes, Frames' = Frames,
         \/ ppc' = ppc /\ UNCHANGED <<block, lhe_block_data>>
         \/ ppc' \in PlayerLeft
         \/ ppc = "frame" /\ ppc' = "header"
         \/ ppc \in Within /\ ppc' \in Within /\ ppc' # "slot"
  PROVE  DecodedInv'
<1>1. CASE ppc' = ppc /\ UNCHANGED <<block, lhe_block_data>>
  BY <1>1 DEF DecodedInv, OwnBlock, OfFrame, TsOf, SizeOf
<1>2. CASE ppc' \in PlayerLeft
  BY <1>2 DEF DecodedInv, PlayerLeft, Within
<1>3. CASE ppc = "frame" /\ ppc' = "header"
  BY <1>3 DEF DecodedInv, Within
<1>4. CASE ppc \in Within /\ ppc' \in Within /\ ppc' # "slot"
  <2>1. ppc' \notin {"frame", "header"}
    BY <1>4 DEF Within
  <2> QED
    BY <1>4, <2>1 DEF DecodedInv, OwnBlock, OfFrame, TsOf, SizeOf
<1> QED
  BY <1>1, <1>2, <1>3, <1>4

(* newmain.cc:622-690: a header opens a frame nothing of which is decoded; *)
(* the bytes of a block are those of the frame the header is of, since     *)
(* they have its timestamp.                                                *)
LEMMA DecodedReads ==
  ASSUME TimestampsDiffer, BaseInv, FifoInv, ReadInv, ReadInv', TokenInv, DecodedInv,
         Played, Take, Prev' = Head(fifo), sizes' = sizes, Frames' = Frames
  PROVE  DecodedInv'
<1>1. fifo # <<>> /\ Head(fifo) \in Tokens
  BY HeadFollows DEF Take, IsEmpty
<1>2. Head(fifo).kind # "end" => OfFrame(Head(fifo))
  BY <1>1, HeadFollows DEF TokenInv
<1>3. CASE ReadHeader
  <2>1. ppc = "header" /\ threads' = threads
    BY <1>3 DEF ReadHeader, Misread, poolVars
  <2>2. CASE Head(fifo).kind = "header"
    <3>1. header' = Head(fifo) /\ asked' = {} /\ ppc' = "blocks"
      BY <1>3, <2>2 DEF ReadHeader
    <3>2. \A t \in Slots : threads'[t] # "running"
      BY <2>1 DEF DecodedInv
    <3>3. OfFrame(header)'
      BY <1>2, <2>2, <3>1 DEF OfFrame, TsOf, SizeOf
    <3> QED
      BY <3>1, <3>2, <3>3 DEF DecodedInv
  <2>3. CASE Head(fifo).kind # "header"
    BY <1>3, <2>3 DEF ReadHeader, Misread, PlayerLeave, ReadInv
  <2> QED
    BY <2>2, <2>3
<1>4. CASE ReadBlock
  <2>1. /\ UNCHANGED <<header, frame_buffer, threads, args, asked>>
        /\ ppc = "block" /\ ppc' \in {"misread", "out", "join", "number"}
    BY <1>4 DEF ReadBlock, Misread, PlayerLeave, poolVars, videoVars
  <2> QED
    BY <2>1, DecodedIdle DEF PlayerLeft, Within
<1>5. CASE ReadNumber
  <2>1. /\ UNCHANGED <<header, frame_buffer, threads, args, asked>>
        /\ ppc = "number" /\ ppc' \in {"misread", "data"}
    BY <1>5 DEF ReadNumber, Misread, PlayerLeave, poolVars, videoVars
  <2> QED
    BY <2>1, DecodedIdle DEF PlayerLeft, Within
<1>6. CASE ReadData
  <2>1. CASE Head(fifo).kind = "data"
    <3>1. /\ lhe_block_data' = BlockOf(Head(fifo)) /\ ppc' = "slot" /\ ppc = "data"
          /\ UNCHANGED <<header, block, frame_buffer, threads, args, asked>>
      BY <1>6, <2>1 DEF ReadData, poolVars
    <3>2. Head(fifo).ts = header.ts /\ Head(fifo).id = block.id
      BY <3>1 DEF ReadInv
    <3>3. OfFrame(header) /\ OfFrame(Head(fifo))
      BY <1>2, <2>1, <3>1 DEF DecodedInv, Within
    <3>4. Head(fifo).img = header.img
      BY <3>2, <3>3, OneFramePerTime DEF OfFrame, BaseInv, NetworkInv
    <3>5. lhe_block_data' = OwnBlock(block.id)
      BY <3>1, <3>2, <3>4 DEF BlockOf, OwnBlock
    <3>6. ppc \in Within /\ ppc' \in Within /\ ppc' \notin {"frame", "header"}
      BY <3>1 DEF Within
    <3> QED
      BY <3>1, <3>5, <3>6 DEF DecodedInv, OwnBlock, OfFrame, TsOf, SizeOf
  <2>2. CASE Head(fifo).kind # "data"
    BY <1>6, <2>2 DEF ReadData, Misread, PlayerLeave, ReadInv
  <2> QED
    BY <2>1, <2>2
<1> QED
  BY <1>3, <1>4, <1>5, <1>6, TakingSteps

(* newmain.cc:729-754: the slot the block is given has no thread running.  *)
LEMMA FreeSlot ==
  ASSUME PoolInv, LaunchThread
  PROVE  next_thread \in Slots /\ threads[next_thread] # "running"
<1>1. /\ next_thread \in Slots /\ pool_startup \in BOOLEAN
      /\ threads[next_thread] # "none" <=> Launched(next_thread)
  BY DEF PoolInv, PoolTypeOK, PlayerLeft, LaunchThread
<1>2. CASE pool_startup
  <2>1. ~Launched(next_thread)
    BY <1>1, <1>2, SlotNumbers DEF Launched
  <2> QED
    BY <1>1, <2>1
<1>3. CASE ~pool_startup
  BY <1>1, <1>3 DEF LaunchThread, WaitsForSlot, Join
<1> QED
  BY <1>1, <1>2, <1>3

(* newmain.cc:729-754: the thread launched decodes the block just read.    *)
LEMMA DecodedLaunch ==
  ASSUME PoolInv, PlayerInv, DecodedInv, LaunchThread, sizes' = sizes, Frames' = Frames
  PROVE  DecodedInv'
<1>1. CASE block.id \notin DOMAIN frame_buffer
  BY <1>1, DecodedIdle DEF LaunchThread, PlayerLeave, PlayerLeft
<1>2. CASE block.id \in DOMAIN frame_buffer
  <2> DEFINE m == next_thread
  <2>1. /\ threads' = [threads EXCEPT ![m] = "running"]
        /\ args' = [args EXCEPT ![m] = [row |-> block.id, data |-> lhe_block_data]]
        /\ asked' = asked \cup {block.id} /\ ppc = "slot" /\ ppc' = "blocks"
        /\ UNCHANGED <<header, block, frame_buffer>>
    BY <1>2 DEF LaunchThread
  <2>2. /\ m \in Slots /\ threads[m] # "running"
        /\ threads \in [Slots -> {"none", "running", "finished"}]
        /\ args \in [Slots -> [row : Nat, data : Row]]
    BY FreeSlot DEF PlayerInv, PlayerTypeOK
  <2> HIDE DEF m
  <2>3. /\ threads'[m] = "running" /\ args'[m].row = block.id
        /\ args'[m].data = lhe_block_data
        /\ \A t \in Slots : t # m => threads'[t] = threads[t] /\ args'[t] = args[t]
    BY <2>1, <2>2
  <2>4. lhe_block_data = OwnBlock(block.id)
    BY <2>1 DEF DecodedInv
  <2>5. \A k : OwnBlock(k)' = OwnBlock(k)
    BY <2>1 DEF OwnBlock
  <2>6. ASSUME NEW t \in Slots, threads'[t] = "running"
        PROVE  /\ args'[t].row \in DOMAIN frame_buffer
               /\ args'[t].data = OwnBlock(args'[t].row)
    <3>1. CASE t = m
      BY <1>2, <2>3, <2>4, <3>1
    <3>2. CASE t # m
      BY <2>1, <2>3, <2>6, <3>2 DEF DecodedInv, Within
    <3> QED
      BY <3>1, <3>2
  <2>7. ASSUME NEW k \in asked'
        PROVE  \/ frame_buffer[k] = OwnBlock(k)
               \/ \E t \in Slots : threads'[t] = "running" /\ args'[t].row = k
    <3>1. CASE k = block.id
      BY <2>2, <2>3, <3>1
    <3>2. CASE k \in asked
      <4>1. \/ frame_buffer[k] = OwnBlock(k)
            \/ \E t \in Slots : threads[t] = "running" /\ args[t].row = k
        BY <2>1, <3>2 DEF DecodedInv, Within
      <4> QED
        BY <2>2, <2>3, <4>1
    <3> QED
      BY <2>1, <3>1, <3>2
  <2>8. OfFrame(header)'
    BY <2>1 DEF DecodedInv, Within, OfFrame, TsOf, SizeOf
  <2> QED
    BY <2>1, <2>6, <2>7, <2>8 DEF DecodedInv, OwnBlock
<1> QED
  BY <1>1, <1>2

(* newmain.cc:516-524: a thread decodes its block and ends.                *)
LEMMA DecodedDecode ==
  ASSUME PlayerInv, DecodedInv, NEW m \in Slots, DecodeBlock(m),
         sizes' = sizes, Frames' = Frames
  PROVE  DecodedInv'
<1>1. /\ threads[m] = "running" /\ threads' = [threads EXCEPT ![m] = "finished"]
      /\ frame_buffer' = [frame_buffer EXCEPT ![args[m].row] = args[m].data]
      /\ UNCHANGED <<ppc, args, header, block, lhe_block_data, asked>>
      /\ ppc \notin PlayerLeft
  BY DEF DecodeBlock
<1>2. ppc \in Within
  BY <1>1, PlayerIsIn DEF DecodedInv
<1>3. /\ args[m].row \in DOMAIN frame_buffer
      /\ args[m].data = OwnBlock(args[m].row)
      /\ threads \in [Slots -> {"none", "running", "finished"}]
  BY <1>1, <1>2 DEF DecodedInv, PlayerInv, PlayerTypeOK
<1>4. /\ DOMAIN frame_buffer' = DOMAIN frame_buffer
      /\ frame_buffer'[args[m].row] = OwnBlock(args[m].row)
      /\ \A k \in DOMAIN frame_buffer : k # args[m].row => frame_buffer'[k] = frame_buffer[k]
  BY <1>1, <1>3
<1>5. \A t \in Slots : threads'[t] = "running" <=> threads[t] = "running" /\ t # m
  BY <1>1, <1>3
<1>6. ASSUME NEW k \in asked
      PROVE  \/ frame_buffer'[k] = OwnBlock(k)
             \/ \E t \in Slots : threads'[t] = "running" /\ args[t].row = k
  <2>1. k \in DOMAIN frame_buffer
    BY DEF PlayerInv, PlayerTypeOK
  <2>2. \/ frame_buffer[k] = OwnBlock(k)
        \/ \E t \in Slots : threads[t] = "running" /\ args[t].row = k
    BY <1>2 DEF DecodedInv
  <2> QED
    BY <1>4, <1>5, <2>1, <2>2
<1>7. OfFrame(header)' /\ ppc' \in Within /\ ppc' \notin {"frame", "header"}
  BY <1>1, <1>2 DEF DecodedInv, Within, OfFrame, TsOf, SizeOf
<1>8. \A t \in Slots : threads'[t] = "running" =>
        args[t].row \in DOMAIN frame_buffer' /\ args[t].data = OwnBlock(args[t].row)
  BY <1>2, <1>4, <1>5 DEF DecodedInv
<1>9. (ppc = "slot" => lhe_block_data = OwnBlock(block.id))
  BY DEF DecodedInv
<1> QED
  BY <1>1, <1>6, <1>7, <1>8, <1>9 DEF DecodedInv, OwnBlock

(* newmain.cc:674-676: only a thread that has ended is waited for.         *)
LEMMA DecodedJoin ==
  ASSUME PoolInv, DecodedInv, JoinAll, sizes' = sizes, Frames' = Frames
  PROVE  DecodedInv'
<1>1. CASE ppc' = "crashed"
  BY <1>1 DEF DecodedInv, Within
<1>2. CASE threads' = [threads EXCEPT ![joined] = "none"] /\ ppc' = ppc
  <2>1. /\ ppc = "join" /\ threads[joined] # "running"
        /\ UNCHANGED <<args, header, block, lhe_block_data, frame_buffer, asked>>
    BY DEF JoinAll, Join, videoVars
  <2>2. \A t \in Slots : threads'[t] = "running" <=> threads[t] = "running"
    BY <1>2, <2>1 DEF PoolInv, PoolTypeOK
  <2> QED
    BY <1>2, <2>1, <2>2 DEF DecodedInv, Within, OwnBlock, OfFrame, TsOf, SizeOf
<1> QED
  BY <1>1, <1>2 DEF JoinAll, PlayerLeave

(* newmain.cc:674-701: when all slots were waited for no thread runs, and  *)
(* every row given to a thread is decoded.                                 *)
LEMMA AllDecoded ==
  ASSUME PoolInv, DecodedInv, Show
  PROVE  /\ \A t \in Slots : threads[t] # "running"
         /\ \A k \in asked : frame_buffer[k] = OwnBlock(k)
<1>1. ppc = "join" /\ joined = THREAD_N
  BY DEF Show, SlotsToJoin
<1>2. ASSUME NEW t \in Slots PROVE threads[t] = "none"
  <2>1. t \in Nat /\ ~(t >= joined)
    BY <1>1, SlotNumbers, PoolAssumption
  <2> QED
    BY <1>1, <2>1 DEF PoolInv
<1>3. \A t \in Slots : threads[t] # "running"
  BY <1>2
<1> QED
  BY <1>1, <1>3 DEF DecodedInv, Within

(* Every step of the player and its threads keeps the rows apart.          *)
LEMMA DecodedKept ==
  ASSUME TimestampsDiffer, EmptyBlocks = {}, BaseInv, FifoInv, ReadInv, TokenInv,
         DecodedInv, [Next]_vars
  PROVE  DecodedInv'
<1>1. sizes' = sizes /\ Frames' = Frames
  BY VideoStays
<1>2. CASE UNCHANGED playerVars
  BY <1>1, <1>2, DecodedIdle DEF playerVars, poolVars, videoVars
<1>3. CASE Played /\ Take /\ Taken' = Append(Taken, Head(fifo))
  BY <1>1, <1>3, ReadKept, ReadKeptReading, DecodedReads
<1>4. CASE Played /\ ~Take
  <2>1. TestPlayerStop => DecodedInv'
    BY <1>1, DecodedIdle
    DEF TestPlayerStop, PlayerLeave, PlayerLeft, poolVars, videoVars, Within
  <2>2. ReadEof => DecodedInv'
    BY <1>1, DecodedIdle
    DEF ReadEof, PlayerLeave, PlayerLeft, poolVars, videoVars, Within
  <2>3. PlayerSigInt => DecodedInv'
    BY <1>1, DecodedIdle
    DEF PlayerSigInt, PlayerLeave, PlayerLeft, poolVars, videoVars
  <2>4. ASSUME Show PROVE DecodedInv'
    <3>1. threads' = threads /\ ppc' = "frame"
      BY <2>4 DEF Show
    <3> QED
      BY <2>4, <3>1, AllDecoded DEF DecodedInv, Within, BaseInv
  <2>5. Pool => DecodedInv'
    BY <1>1, DecodedDecode DEF Pool, BaseInv
  <2>6. LaunchThread \/ JoinAll => DecodedInv'
    BY <1>1, DecodedLaunch, DecodedJoin DEF BaseInv
  <2> QED
    BY <1>4, <2>1, <2>2, <2>3, <2>4, <2>5, <2>6
    DEF Played, PlayerWork, ReadHeader, ReadBlock, ReadNumber, ReadData
<1> QED
  BY <1>2, <1>3, <1>4, TakenStep

(* The frames shown stay; one more is shown when all its rows are decoded. *)
LEMMA ShownStep ==
  ASSUME BaseInv, [Next]_vars
  PROVE  \/ shown' = shown
         \/ /\ Show /\ Played
            /\ shown' = Append(shown, [img |-> header.img, rows |-> frame_buffer,
                                       asked |-> asked])
<1>1. CASE Played
  <2>1. Show \/ shown' = shown
    BY <1>1
    DEF Played, PlayerWork, TestPlayerStop, ReadEof, ReadHeader, ReadBlock, ReadNumber,
        ReadData, LaunchThread, JoinAll, Pool, DecodeBlock, PlayerSigInt, Misread,
        videoVars
  <2> QED
    BY <1>1, <2>1 DEF Show
<1>2. NetworkOnly \/ Delivered \/ Received => shown' = shown
  BY DEF NetworkOnly, Delivered, Received, playerVars, videoVars
<1> QED
  BY <1>1, <1>2, StepParts

(* The frames shown are frames of the video, of their size, and decoded.   *)
Picture == [img : Images \cup {Garbage}, asked : SUBSET Nat,
            rows : UNION {[0 .. n - 1 -> Row] : n \in Nat}]
Decoded(f) == /\ f.img \in Frames /\ f.rows \in [0 .. SizeOf(f.img) - 1 -> Row]
              /\ \A k \in f.asked : f.rows[k] = [img |-> f.img, id |-> k]
PictureInv == shown \in Seq(Picture) /\ \A s \in DOMAIN shown : Decoded(shown[s])

(* What Show adds to them.                                                 *)
NewPicture == [img |-> header.img, rows |-> frame_buffer, asked |-> asked]
(* A frame shown is of its size, and every row of it asked for is decoded. *)
LEMMA PictureShown ==
  ASSUME BaseInv, ReadInv, DecodedInv, Show
  PROVE  NewPicture \in Picture /\ Decoded(NewPicture)
<1>1. ppc = "join" /\ ppc \in Within
  BY DEF Show, Within
<1>2. /\ header \in Tokens /\ header.id \in Nat /\ header.img \in Images \cup {Garbage}
      /\ frame_buffer \in [0 .. header.id - 1 -> Row]
      /\ asked \subseteq 0 .. header.id - 1
  <2>1. /\ header \in Tokens /\ frame_buffer \in [0 .. header.id - 1 -> Row]
        /\ asked \subseteq DOMAIN frame_buffer
    BY DEF BaseInv, PlayerInv, PlayerTypeOK
  <2> QED
    BY <2>1, TokenFields
<1>3. OfFrame(header) /\ header.id = SizeOf(header.img)
  BY <1>1 DEF DecodedInv, ReadInv, OfFrame
<1>4. NewPicture \in Picture
  <2>1. asked \in SUBSET Nat
    BY <1>2
  <2>2. frame_buffer \in UNION {[0 .. n - 1 -> Row] : n \in Nat}
    BY <1>2
  <2> QED
    BY <1>2, <2>1, <2>2 DEF NewPicture, Picture
<1>5. \A k \in asked : frame_buffer[k] = [img |-> header.img, id |-> k]
  BY AllDecoded DEF BaseInv, OwnBlock
<1> QED
  BY <1>2, <1>3, <1>4, <1>5 DEF NewPicture, Decoded, OfFrame

(* No frame was shown when the player starts.                              *)
LEMMA PictureStart == Init => PictureInv
  BY DEF Init, PlayerInit, PictureInv
(* The frames shown before stay as they are; one more is decoded.          *)
LEMMA PictureKept ==
  ASSUME BaseInv, ReadInv, DecodedInv, PictureInv, [Next]_vars
  PROVE  PictureInv'
<1>1. sizes' = sizes /\ Frames' = Frames
  BY VideoStays
<1>2. CASE shown' = shown
  BY <1>1, <1>2 DEF PictureInv, Decoded, SizeOf
<1>3. CASE Show /\ shown' = Append(shown, NewPicture)
  <2>1. shown \in Seq(Picture) /\ NewPicture \in Picture /\ Decoded(NewPicture)
    BY <1>3, PictureShown DEF PictureInv
  <2>2. /\ shown' \in Seq(Picture) /\ DOMAIN shown' = 1 .. Len(shown) + 1
        /\ Len(shown) \in Nat /\ shown'[Len(shown) + 1] = NewPicture
        /\ DOMAIN shown = 1 .. Len(shown)
        /\ \A s \in DOMAIN shown : shown'[s] = shown[s]
    BY <1>3, <2>1
  <2>3. \A s \in DOMAIN shown' : Decoded(shown'[s])
    BY <2>1, <2>2 DEF PictureInv
  <2> QED
    BY <1>1, <2>2, <2>3 DEF PictureInv, Decoded, SizeOf
<1> QED
  BY <1>2, <1>3, ShownStep DEF NewPicture

(* All that is known of the player's frames without the order of packets.  *)
FrameInvs == /\ BaseInv /\ FifoInv /\ ReadInv /\ PktInv /\ TokenInv
             /\ DecodedInv /\ PictureInv
(* All that holds when the programs start.                                 *)
LEMMA FramesStart == Init => FrameInvs
  BY BaseStart, FifoStart, ReadStart, TokenStart, DecodedStart, PictureStart
  DEF FrameInvs
(* All that is kept by every step.                                         *)
LEMMA FramesKept ==
  ASSUME EmptyBlocks = {}, TimestampsDiffer, FrameInvs, [Next]_vars
  PROVE  FrameInvs'
  BY BaseKept, TakenStep, ReadKept, PktKept, TokenKept, DecodedKept, PictureKept
  DEF FrameInvs

(* Every row given to a thread is decoded before the frame is shown, and   *)
(* it is the row of that frame, whatever packets are lost, overtaken or    *)
(* delivered twice: a late block never gets into a frame of another        *)
(* timestamp (newmain.cc:622-763, LHE_receiver.c:723-748).                 *)
THEOREM ShownAlwaysDecoded ==
  ASSUME EmptyBlocks = {}, TimestampsDiffer PROVE Spec => []ShownIsDecoded
<1>1. FrameInvs => ShownIsDecoded
  BY DEF FrameInvs, PictureInv, Decoded, ShownIsDecoded
<1> QED
  BY <1>1, FramesStart, FramesKept, PTL DEF Spec

-----------------------------------------------------------------------------
(* The order of the frames                                                 *)

(* One frame is earlier than another, or they are the same.                *)
LEMMA FrameOrder ==
  ASSUME StreamInv, NEW u \in Frames, NEW v \in Frames
  PROVE  /\ ~EarlierFrame(v, v)
         /\ EarlierFrame(u, v) => ~EarlierFrame(v, u)
         /\ ~EarlierFrame(v, u) /\ u # v => EarlierFrame(u, v)
         /\ \A w \in Frames :
              /\ EarlierFrame(u, v) /\ ~EarlierFrame(w, v) => EarlierFrame(u, w)
              /\ ~EarlierFrame(v, u) /\ EarlierFrame(v, w) => EarlierFrame(u, w)
              /\ ~EarlierFrame(v, u) /\ ~EarlierFrame(w, v) => ~EarlierFrame(w, u)
<1>1. ASSUME NEW x \in Frames
      PROVE  x = <<x[1], x[2]>> /\ x[1] \in Nat /\ x[2] \in Nat
  <2>1. PICK f \in DOMAIN sizes : \E g \in DOMAIN sizes[f] : x = <<f, g>>
    BY DEF Frames
  <2>2. PICK g \in DOMAIN sizes[f] : x = <<f, g>>
    BY <2>1
  <2>3. f \in Nat /\ g \in Nat
    BY SizesFacts DEF StreamInv
  <2> QED
    BY <2>2, <2>3
<1>2. \A x, y \in Nat : x < y => ~(y < x)
  OBVIOUS
<1>3. /\ u = <<u[1], u[2]>> /\ u[1] \in Nat /\ u[2] \in Nat
      /\ v = <<v[1], v[2]>> /\ v[1] \in Nat /\ v[2] \in Nat
  BY <1>1
<1>4. ~EarlierFrame(v, v) /\ (EarlierFrame(u, v) => ~EarlierFrame(v, u))
  BY <1>3 DEF EarlierFrame
<1>5. ~EarlierFrame(v, u) /\ u # v => EarlierFrame(u, v)
  <2>1. u[1] = v[1] /\ u[2] = v[2] => u = v
    BY <1>3
  <2> QED
    BY <1>3, <2>1 DEF EarlierFrame
<1>6. ASSUME NEW w \in Frames
      PROVE  /\ EarlierFrame(u, v) /\ ~EarlierFrame(w, v) => EarlierFrame(u, w)
             /\ ~EarlierFrame(v, u) /\ EarlierFrame(v, w) => EarlierFrame(u, w)
             /\ ~EarlierFrame(v, u) /\ ~EarlierFrame(w, v) => ~EarlierFrame(w, u)
  <2>1. w[1] \in Nat /\ w[2] \in Nat
    BY <1>1
  <2> QED
    BY <1>3, <2>1 DEF EarlierFrame
<1> QED
  BY <1>4, <1>5, <1>6

(* All that was written is of frames up to v; of frames before v; what an  *)
(* end closes is of frames before v.                                       *)
Upto(v) == \A j \in DOMAIN piped :
             piped[j].kind # "end" => ~EarlierFrame(v, piped[j].img)
Past(v) == \A j \in DOMAIN piped :
             piped[j].kind # "end" => EarlierFrame(piped[j].img, v)
EndsBefore(v) ==
  \A h, e \in DOMAIN piped :
    h < e /\ piped[e].kind = "end" /\ piped[h].kind # "end" =>
      EarlierFrame(piped[h].img, v)

(* The frames never fall, and with a header they grow.                     *)
Ordered ==
  \A i, j \in DOMAIN piped :
    i < j /\ piped[i].kind # "end" /\ piped[j].kind # "end" =>
      /\ ~EarlierFrame(piped[j].img, piped[i].img)
      /\ piped[j].kind = "header" => EarlierFrame(piped[i].img, piped[j].img)

(* What one more token does to that.                                       *)
LEMMA OneMoreToken ==
  ASSUME piped \in Seq(Tokens), NEW t \in Tokens, piped' = Append(piped, t)
  PROVE  /\ \A v : Upto(v) /\ (t.kind = "end" \/ ~EarlierFrame(v, t.img)) => Upto(v)'
         /\ \A v : Past(v) /\ t.kind = "end" => Past(v)'
         /\ \A v : EndsBefore(v) /\ (t.kind # "end" \/ Past(v)) => EndsBefore(v)'
         /\ /\ Ordered
            /\ t.kind # "end" => Upto(t.img)
            /\ t.kind = "header" => Past(t.img)
            => Ordered'
<1>1. /\ DOMAIN piped' = 1 .. Len(piped) + 1 /\ DOMAIN piped = 1 .. Len(piped)
      /\ Len(piped) \in Nat /\ piped'[Len(piped) + 1] = t
      /\ \A j \in DOMAIN piped : piped'[j] = piped[j]
  OBVIOUS
<1>2. \A j \in DOMAIN piped' : j \in DOMAIN piped \/ j = Len(piped) + 1
  BY <1>1
<1>3. ASSUME NEW v, Upto(v), t.kind = "end" \/ ~EarlierFrame(v, t.img)
      PROVE  Upto(v)'
  BY <1>1, <1>2, <1>3 DEF Upto
<1>4. ASSUME NEW v, Past(v), t.kind = "end" PROVE Past(v)'
  BY <1>1, <1>2, <1>4 DEF Past
<1>5. ASSUME NEW v, EndsBefore(v), t.kind # "end" \/ Past(v) PROVE EndsBefore(v)'
  <2> SUFFICES ASSUME NEW h \in DOMAIN piped', NEW e \in DOMAIN piped', h < e,
                      piped'[e].kind = "end", piped'[h].kind # "end"
               PROVE  EarlierFrame(piped'[h].img, v)
    BY DEF EndsBefore
  <2>1. h \in DOMAIN piped
    BY <1>1
  <2> QED
    BY <1>1, <1>2, <1>5, <2>1 DEF EndsBefore, Past
<1>6. ASSUME Ordered, t.kind # "end" => Upto(t.img), t.kind = "header" => Past(t.img)
      PROVE  Ordered'
  <2> SUFFICES ASSUME NEW i \in DOMAIN piped', NEW j \in DOMAIN piped', i < j,
                      piped'[i].kind # "end", piped'[j].kind # "end"
               PROVE  /\ ~EarlierFrame(piped'[j].img, piped'[i].img)
                      /\ piped'[j].kind = "header" =>
                           EarlierFrame(piped'[i].img, piped'[j].img)
    BY DEF Ordered
  <2>1. i \in DOMAIN piped /\ piped'[i] = piped[i]
    BY <1>1
  <2>2. CASE j \in DOMAIN piped
    BY <1>1, <1>6, <2>1, <2>2 DEF Ordered
  <2>3. CASE j = Len(piped) + 1
    BY <1>1, <1>6, <2>1, <2>3 DEF Upto, Past
  <2> QED
    BY <1>2, <2>2, <2>3
<1> QED
  BY <1>3, <1>4, <1>5, <1>6

(* What follows an end is of a later frame than what it closes.            *)
LEMMA AfterEnd ==
  ASSUME StreamInv, piped \in Seq(Tokens), PipeGrammar, TokenInv, Ordered,
         NEW h \in DOMAIN piped, NEW e \in DOMAIN piped, NEW j \in DOMAIN piped,
         h < e, e < j, piped[e].kind = "end",
         piped[h].kind # "end", piped[j].kind # "end"
  PROVE  EarlierFrame(piped[h].img, piped[j].img)
<1>1. /\ h \in Nat /\ e \in Nat /\ j \in Nat /\ e + 1 <= j /\ h < e + 1
      /\ e \in 1 .. Len(piped) - 1 /\ e + 1 \in DOMAIN piped
  OBVIOUS
<1>2. piped[e + 1].kind = "header"
  <2>1. Follows(piped[e], piped[e + 1])
    BY <1>1 DEF PipeGrammar
  <2> QED
    BY <2>1 DEF Follows, BlockDone
<1>3. EarlierFrame(piped[h].img, piped[e + 1].img)
  BY <1>1, <1>2 DEF Ordered
<1>4. CASE j = e + 1
  BY <1>3, <1>4
<1>5. CASE e + 1 < j
  <2>1. ~EarlierFrame(piped[j].img, piped[e + 1].img)
    BY <1>1, <1>2, <1>5 DEF Ordered
  <2>2. piped[h].img \in Frames /\ piped[j].img \in Frames /\ piped[e + 1].img \in Frames
    BY <1>1, <1>2 DEF TokenInv, OfFrame
  <2> QED
    BY <1>3, <2>1, <2>2, FrameOrder
<1> QED
  BY <1>1, <1>4, <1>5

(* The packet delivered last, and its frame.                               *)
Latest  == arrivals[Len(arrivals)]
Now     == FrameOf(Latest)
Holding == (pc = "got" /\ received) \/ pc \in Writes

(* The frame being written: all that was written is of it or of earlier    *)
(* ones, and it is not closed; no later packet has arrived than ones of it *)
(* or of later ones.                                                       *)
OpenAt(u) == /\ TsOf(u) = ts_current /\ Upto(u) /\ EndsBefore(u)
             /\ ~EarlierFrame(Now, u)

(* The frame written is closed by its marker, or it is open; the packet    *)
(* held is the last one delivered, and when it is about to open a frame,   *)
(* all that was written is of earlier ones.                                *)
InTurn ==
  /\ Ordered
  /\ pc = "recv" => ~received
  /\ arrivals = <<>> => piped = <<>> /\ first
  /\ Holding => arrivals # <<>> /\ pkt = Datagram(Latest)
  /\ pc \in {"test", "call", "recv"} /\ first /\ arrivals # <<>> =>
       stream[Latest].m = 1 /\ Upto(Now)
  /\ ~first /\ pc \notin Left => \E u \in Frames : OpenAt(u)
  /\ (pc = "got" /\ received /\ first) \/ pc \in {"end", "header"} => Past(pkt.img)
  /\ pc = "marker" => pkt.m = 1

OrderlyInvs == FrameInvs /\ OrderInv /\ InTurn

(* What has arrived last stays that, while none arrives.                   *)
LEMMA LatestFacts ==
  ASSUME NetworkInv, arrivals # <<>>
  PROVE  /\ Latest \in DOMAIN stream /\ Len(arrivals) \in DOMAIN arrivals
         /\ Now \in Frames /\ Datagram(Latest).img = Now
         /\ TsOf(Now) = Datagram(Latest).ts /\ Datagram(Latest).m = stream[Latest].m
<1>1. Len(arrivals) \in DOMAIN arrivals /\ Latest \in DOMAIN stream
  BY DEF NetworkInv, Latest
<1>2. StreamInv
  BY DEF NetworkInv
<1> QED
  BY <1>1, <1>2, FrameOfPacket DEF Now, FrameOf, Datagram
(* And its frame stays the same.                                           *)
LEMMA LatestStays ==
  ASSUME NetworkInv, NetworkStep, arrivals' = arrivals
  PROVE  /\ sizes' = sizes /\ Frames' = Frames
         /\ arrivals # <<>> =>
              /\ Latest' = Latest /\ Now' = Now /\ Datagram(Latest)' = Datagram(Latest)
              /\ stream'[Latest] = stream[Latest]
<1>1. /\ sizes' = sizes
      /\ \A k \in DOMAIN stream : stream'[k] = stream[k]
  BY NetworkSends, SentKept DEF NetworkInv
<1>2. Latest' = Latest
  BY DEF Latest
<1>3. arrivals # <<>> => stream'[Latest] = stream[Latest]
  BY <1>1, LatestFacts
<1> QED
  BY <1>1, <1>2, <1>3 DEF Frames, Now, FrameOf, Datagram

(* Steps of the network and the player are none of the receiver.           *)
LEMMA InTurnOthers ==
  ASSUME FrameInvs, InTurn, NetworkOnly \/ Played
  PROVE  InTurn'
<1>1. UNCHANGED receiverVars /\ arrivals' = arrivals /\ NetworkStep
  BY DEF NetworkOnly, Played, Transmit, Lose, networkVars, NetworkStep
<1>2. /\ UNCHANGED <<first, ts_current, pkt, received, pc, piped>>
  BY <1>1 DEF receiverVars, frameVars, recvVars
<1>3. /\ Frames' = Frames
      /\ arrivals # <<>> =>
           /\ Latest' = Latest /\ Now' = Now /\ Datagram(Latest)' = Datagram(Latest)
           /\ stream'[Latest] = stream[Latest]
  BY <1>1, LatestStays DEF FrameInvs, BaseInv
<1>4. Ordered' /\ (Holding' <=> Holding)
  BY <1>2 DEF InTurn, Ordered, Holding
<1>5. \A v : (Upto(v)' <=> Upto(v)) /\ (Past(v)' <=> Past(v))
             /\ (EndsBefore(v)' <=> EndsBefore(v))
  BY <1>2 DEF Upto, Past, EndsBefore
<1>6. ~first /\ pc \notin Left => \E u \in Frames : OpenAt(u)'
  <2> SUFFICES ASSUME ~first, pc \notin Left PROVE \E u \in Frames : OpenAt(u)'
    OBVIOUS
  <2>1. PICK u \in Frames : OpenAt(u)
    BY DEF InTurn
  <2>2. arrivals # <<>>
    BY DEF InTurn
  <2>3. OpenAt(u)'
    BY <1>2, <1>3, <1>5, <2>1, <2>2 DEF OpenAt, TsOf, EarlierFrame
  <2> QED
    BY <2>3
<1>7. arrivals # <<>> /\ Upto(Now) => Upto(Now)'
  BY <1>2, <1>3 DEF Upto
<1>8. Past(pkt.img) => Past(pkt.img)'
  BY <1>2 DEF Past
<1>9. Holding' => arrivals' # <<>> /\ pkt' = Datagram(Latest)'
  BY <1>1, <1>2, <1>3, <1>4 DEF InTurn
<1>10. pc' \in {"test", "call", "recv"} /\ first' /\ arrivals' # <<>> =>
         stream'[Latest'].m = 1 /\ Upto(Now)'
  BY <1>1, <1>2, <1>3, <1>7 DEF InTurn
<1>11. /\ pc' = "recv" => ~received'
       /\ arrivals' = <<>> => piped' = <<>> /\ first'
       /\ (pc' = "got" /\ received' /\ first') \/ pc' \in {"end", "header"} => Past(pkt.img)'
       /\ pc' = "marker" => pkt'.m = 1
  BY <1>1, <1>2, <1>8 DEF InTurn
<1>12. ~first' /\ pc' \notin Left => \E u \in Frames' : OpenAt(u)'
  BY <1>2, <1>3, <1>6
<1> QED
  BY <1>4, <1>9, <1>10, <1>11, <1>12 DEF InTurn

(* The packet delivered is later than those before it: of the frame of the *)
(* last one, or of a later one, and of a later one if that had the marker. *)
LEMMA InTurnDelivered ==
  ASSUME FrameInvs, OrderInv, InTurn, Delivered
  PROVE  InTurn'
<1>1. PICK k \in inflight : Arrive(k) /\ Deliver(Datagram(k))
  BY DEF Delivered
<1>2. /\ arrivals' = Append(arrivals, k) /\ stream' = stream /\ sizes' = sizes
      /\ pc = "recv" /\ pc' = "got" /\ received' = TRUE /\ pkt' = Datagram(k)
      /\ UNCHANGED <<first, ts_current, piped>>
  BY <1>1 DEF Arrive, Deliver, frameVars, pipeVars
<1>3. StreamInv /\ NetworkInv /\ k \in DOMAIN stream /\ arrivals \in Seq(Nat)
  BY <1>1 DEF FrameInvs, BaseInv, NetworkInv
<1>4. /\ arrivals' # <<>> /\ Latest' = k /\ Frames' = Frames
      /\ Len(arrivals') = Len(arrivals) + 1
  <2>1. Len(Append(arrivals, k)) = Len(arrivals) + 1 /\ Len(arrivals) \in Nat
        /\ Append(arrivals, k)[Len(arrivals) + 1] = k
    BY <1>3
  <2> QED
    BY <1>2, <2>1 DEF Latest, Frames
<1>5. /\ Now' = FrameOf(k) /\ Datagram(Latest)' = Datagram(k)
      /\ FrameOf(k) \in Frames /\ Datagram(k).img = FrameOf(k)
  BY <1>2, <1>3, <1>4, FrameOfPacket DEF Now, FrameOf, Datagram
<1>6. ASSUME arrivals # <<>>
      PROVE  /\ ~EarlierFrame(FrameOf(k), Now)
             /\ stream[Latest].m = 1 => EarlierFrame(Now, FrameOf(k))
  <2>1. k = Len(stream) /\ Latest < k /\ Latest \in DOMAIN stream
    <3>1. Len(arrivals) \in DOMAIN arrivals /\ Latest \in DOMAIN stream
      BY <1>3, <1>6, LatestFacts
    <3>2. inflight = {Len(stream)} /\ OnTheWay = 1
      BY <1>1 DEF OrderInv, OnTheWay
    <3>3. k = Len(stream) /\ Latest <= Len(stream) - 1
      BY <1>1, <3>1, <3>2 DEF OrderInv, Latest
    <3> QED
      BY <1>3, <3>1, <3>3, StreamFields
  <2>2. Precedes(stream[Latest], stream[k])
    BY <1>3, <2>1 DEF StreamInv
  <2>3. \/ EarlierFrame(Now, FrameOf(k))
        \/ Now = FrameOf(k) /\ stream[Latest].m = 0
    BY <2>2 DEF Precedes, LaterFrame, OneFrame, EarlierFrame, Now, FrameOf
  <2>4. Now \in Frames
    BY <1>3, <1>6, LatestFacts
  <2> QED
    BY <1>3, <1>5, <2>3, <2>4, FrameOrder
<1>7. Ordered'
  BY <1>2 DEF InTurn, Ordered
<1>8. ASSUME first PROVE Past(FrameOf(k))'
  <2>1. CASE arrivals = <<>>
    BY <1>2, <2>1 DEF InTurn, Past
  <2>2. CASE arrivals # <<>>
    <3>1. Upto(Now) /\ EarlierFrame(Now, FrameOf(k)) /\ Now \in Frames
      BY <1>2, <1>3, <1>6, <1>8, <2>2, LatestFacts DEF InTurn
    <3>2. \A j \in DOMAIN piped : piped[j].kind # "end" => piped[j].img \in Frames
      BY DEF FrameInvs, TokenInv, OfFrame
    <3>3. Past(FrameOf(k))
      BY <1>3, <1>5, <3>1, <3>2, FrameOrder DEF Upto, Past
    <3> QED
      BY <1>2, <3>3 DEF Past, FrameOf
  <2> QED
    BY <2>1, <2>2
<1>9. ASSUME ~first PROVE \E u \in Frames : OpenAt(u)'
  <2>1. PICK u \in Frames : OpenAt(u)
    BY <1>2, <1>9 DEF InTurn, Left
  <2>2. arrivals # <<>> /\ Now \in Frames
    BY <1>3, <1>9, LatestFacts DEF InTurn
  <2>3. ~EarlierFrame(FrameOf(k), u)
    BY <1>3, <1>5, <1>6, <2>1, <2>2, FrameOrder DEF OpenAt
  <2>4. Upto(u)' /\ EndsBefore(u)' /\ TsOf(u) = ts_current'
    BY <1>2, <2>1 DEF OpenAt, Upto, EndsBefore
  <2>5. OpenAt(u)'
    BY <1>5, <2>3, <2>4 DEF OpenAt, TsOf, EarlierFrame
  <2> QED
    BY <2>5
<1>10. Past(pkt.img)' <=> Past(FrameOf(k))'
  BY <1>2, <1>5 DEF Past, FrameOf
<1>11. Holding' => arrivals' # <<>> /\ pkt' = Datagram(Latest)'
  BY <1>2, <1>4, <1>5
<1> QED
  BY <1>2, <1>4, <1>7, <1>8, <1>9, <1>10, <1>11 DEF InTurn, Left

(* The frame being written is that of a packet with its timestamp.         *)
LEMMA OpenFrameIs ==
  ASSUME TimestampsDiffer, FrameInvs, InTurn, ~first, pc \notin Left,
         pkt \in Packets, pkt.ts = ts_current
  PROVE  pkt.img \in Frames /\ OpenAt(pkt.img)
<1>1. PICK u \in Frames : OpenAt(u)
  BY DEF InTurn
<1>2. pkt.img \in Frames /\ TsOf(pkt.img) = TsOf(u)
  BY <1>1 DEF FrameInvs, PktInv, OpenAt
<1>3. pkt.img = u
  BY <1>1, <1>2, OneFramePerTime DEF FrameInvs, BaseInv, NetworkInv
<1> QED
  BY <1>1, <1>2, <1>3

(* The steps of the receiver that write nothing.                           *)
LEMMA SilentMoves ==
  ASSUME BaseInv, Received, piped' = piped
  PROVE  /\ UNCHANGED <<first, ts_current, pkt>>
         /\ \/ pc' = pc /\ pc # "recv" /\ received' = received
            \/ pc' \in Left
            \/ pc = "recv" /\ pc' = "got" /\ received' = received
            \/ pc = "test" /\ pc' = "call" /\ received' = received
            \/ pc = "call" /\ pc' = "recv" /\ received' = FALSE
            \/ pc = "got" /\ ~first /\ pc' = "test" /\ received' = received
            \/ /\ pc = "got" /\ received /\ received' = received
               /\ \/ pc' = "end" /\ ~first /\ pkt.ts # ts_current
                  \/ pc' = "header" /\ first
                  \/ pc' = "block" /\ ~first /\ pkt.ts = ts_current
            \/ /\ pc = "block" /\ received' = received
               /\ \/ pc' = "marker" /\ pkt.m = 1
                  \/ pc' = "test" /\ pkt.m # 1
            \/ pc = "data" /\ pc' = "block" /\ received' = received
<1>1. piped \in Seq(Tokens)
  BY DEF BaseInv, GrammarInv
<1>2. \A t : piped' # Append(piped, t)
  <2> SUFFICES ASSUME NEW t, piped' = Append(piped, t) PROVE FALSE
    OBVIOUS
  <2>1. Append(piped, t) # piped
    BY <1>1
  <2> QED
    BY <2>1
<1>3. ~(WriteEnd \/ WriteHeader \/ WriteBlock \/ WriteNumber \/ WriteMarker)
  BY <1>2 DEF WriteEnd, WriteHeader, WriteBlock, WriteNumber, WriteMarker, Write
<1>4. first \in BOOLEAN
  BY DEF BaseInv, TypeInv, PipeTypeOK, ControlOK
<1>5. CASE TestStop \/ EnterRecv \/ SigInt \/ StopInFrame \/ RecvFailed \/ WriteBroken
  BY <1>5 DEF TestStop, EnterRecv, SigInt, StopInFrame, RecvFailed, WriteBroken, Leave,
              Left, frameVars, recvVars
<1>6. CASE DropLate
  BY <1>6 DEF DropLate, PriorFrame, OtherFrame, frameVars, recvVars
<1>7. CASE Accept
  BY <1>4, <1>7 DEF Accept, NextFrame, PriorFrame, OtherFrame, recvVars
<1>8. CASE EndPacket
  BY <1>8 DEF EndPacket, ClosesFrame, frameVars, recvVars
<1>9. CASE WriteData
  BY <1>9 DEF WriteData, recvVars
<1> QED
  BY <1>3, <1>5, <1>6, <1>7, <1>8, <1>9 DEF Received, Work

(* A step of the receiver that writes nothing keeps the frames in turn.    *)
LEMMA InTurnSilent ==
  ASSUME FrameInvs, InTurn, Received, piped' = piped
  PROVE  InTurn'
<1>1. arrivals' = arrivals /\ NetworkStep
  BY DEF Received, networkVars, NetworkStep
<1>2. /\ Frames' = Frames
      /\ arrivals # <<>> =>
           /\ Latest' = Latest /\ Now' = Now /\ Datagram(Latest)' = Datagram(Latest)
           /\ stream'[Latest] = stream[Latest]
  BY <1>1, LatestStays DEF FrameInvs, BaseInv
<1>3. UNCHANGED <<first, ts_current, pkt>>
  BY SilentMoves DEF FrameInvs
<1>4. \A v : (Upto(v)' <=> Upto(v)) /\ (Past(v)' <=> Past(v))
             /\ (EndsBefore(v)' <=> EndsBefore(v))
  BY DEF Upto, Past, EndsBefore
<1>5. Ordered' /\ (arrivals' = <<>> => piped' = <<>> /\ first')
  BY <1>1, <1>3 DEF InTurn, Ordered
<1>6. ~first' /\ pc' \notin Left => pc \notin Left /\ arrivals # <<>>
  BY SilentMoves, <1>3 DEF InTurn, Left, FrameInvs
<1>7. Holding' => Holding
  BY SilentMoves DEF Holding, Writes, Left, FrameInvs, InTurn
<1>8. Holding' => arrivals' # <<>> /\ pkt' = Datagram(Latest)'
  BY <1>1, <1>2, <1>3, <1>7 DEF InTurn
<1>9. ~first' /\ pc' \notin Left => \E u \in Frames' : OpenAt(u)'
  <2> SUFFICES ASSUME ~first', pc' \notin Left PROVE \E u \in Frames : OpenAt(u)'
    BY <1>2
  <2>1. PICK u \in Frames : OpenAt(u)
    BY <1>3, <1>6 DEF InTurn
  <2>2. OpenAt(u)'
    BY <1>2, <1>3, <1>4, <1>6, <2>1 DEF OpenAt, TsOf, EarlierFrame
  <2> QED
    BY <2>2
<1>10. pc' = "recv" => ~received'
  BY SilentMoves DEF InTurn, FrameInvs, Left
<1>11. ASSUME pc' \in {"test", "call", "recv"}, first', arrivals' # <<>>
       PROVE  stream'[Latest'].m = 1 /\ Upto(Now)'
  <2>1. pc = "block" => ~first
    BY DEF FrameInvs, BaseInv, GrammarInv, Place
  <2>2. pc \in {"test", "call", "recv"} /\ first
    BY <1>3, <1>11, <2>1, SilentMoves DEF Left, FrameInvs
  <2>3. Upto(Now)' <=> Upto(Now)
    BY <1>1, <1>2, <1>11 DEF Upto
  <2> QED
    BY <1>1, <1>2, <1>11, <2>2, <2>3 DEF InTurn
<1>12. ASSUME (pc' = "got" /\ received' /\ first') \/ pc' \in {"end", "header"}
       PROVE  Past(pkt.img)'
  <2>1. Past(pkt.img)' <=> Past(pkt.img)
    BY <1>3 DEF Past
  <2>2. CASE (pc = "got" /\ received /\ first) \/ pc \in {"end", "header"}
    BY <2>1, <2>2 DEF InTurn
  <2>3. CASE pc = "got" /\ received /\ pc' = "end" /\ ~first /\ pkt.ts # ts_current
    <3>1. PICK u \in Frames : OpenAt(u)
      BY <2>3 DEF InTurn, Left
    <3>2. arrivals # <<>> /\ pkt = Datagram(Latest)
      BY <2>3 DEF InTurn, Holding
    <3>3. pkt.img = Now /\ Now \in Frames /\ TsOf(Now) = pkt.ts
      BY <3>2, LatestFacts DEF FrameInvs, BaseInv
    <3>4. EarlierFrame(u, pkt.img)
      BY <2>3, <3>1, <3>3, FrameOrder DEF OpenAt, FrameInvs, BaseInv, NetworkInv
    <3>5. \A j \in DOMAIN piped : piped[j].kind # "end" => piped[j].img \in Frames
      BY DEF FrameInvs, TokenInv, OfFrame
    <3>6. Past(pkt.img)
      BY <3>1, <3>3, <3>4, <3>5, FrameOrder
      DEF OpenAt, Upto, Past, FrameInvs, BaseInv, NetworkInv
    <3> QED
      BY <2>1, <3>6
  <2>4. \/ (pc = "got" /\ received /\ first) \/ pc \in {"end", "header"}
        \/ pc = "got" /\ received /\ pc' = "end" /\ ~first /\ pkt.ts # ts_current
    BY <1>3, <1>12, SilentMoves DEF Left, FrameInvs, InTurn
  <2> QED
    BY <2>2, <2>3, <2>4
<1>13. pc' = "marker" => pkt'.m = 1
  BY <1>3, SilentMoves DEF InTurn, Left, FrameInvs
<1> QED
  BY <1>5, <1>8, <1>9, <1>10, <1>11, <1>12, <1>13 DEF InTurn

(* The writes, in the order of the frames.                                 *)
LEMMA InTurnWrites ==
  ASSUME TimestampsDiffer, FrameInvs, InTurn, Received,
         NEW t \in Tokens, Puts(t), piped' = Append(piped, t), pkt \in Packets
  PROVE  InTurn'
<1>1. arrivals' = arrivals /\ NetworkStep
  BY DEF Received, networkVars, NetworkStep
<1>2. /\ arrivals # <<>> /\ pkt = Datagram(Latest) /\ piped \in Seq(Tokens)
      /\ StreamInv /\ pkt.img \in Frames /\ pkt.ts = TsOf(pkt.img)
  BY DEF InTurn, Holding, Puts, FrameInvs, BaseInv, GrammarInv, NetworkInv, PktInv
<1>3. /\ Frames' = Frames /\ Latest' = Latest /\ Now' = Now
      /\ Datagram(Latest)' = Datagram(Latest) /\ stream'[Latest] = stream[Latest]
  BY <1>1, <1>2, LatestStays DEF FrameInvs, BaseInv
<1>4. pkt.img = Now /\ pkt.m = stream[Latest].m
  BY <1>2, LatestFacts DEF FrameInvs, BaseInv
<1>5. ~EarlierFrame(Now, Now) /\ ~EarlierFrame(pkt.img, pkt.img)
  BY <1>2, <1>4, FrameOrder
<1>6. CASE t = EndOfFrame /\ WriteEnd
  <2>1. /\ pc = "end" /\ pc' = "header" /\ first' = TRUE
        /\ pkt' = pkt /\ received' = received
    BY <1>6 DEF WriteEnd, FirstAfterEnd, recvVars
  <2>2. t.kind = "end"
    BY <1>6 DEF EndOfFrame
  <2>3. Ordered' /\ (Past(pkt.img) => Past(pkt.img)')
    <3>1. \A v : Past(v) => Past(v)'
      BY <1>2, <2>2, OneMoreToken
    <3>2. Past(pkt.img) => Past(pkt.img)'
      BY <1>2, <1>3, <1>4, <2>1, <3>1 DEF Past
    <3> QED
      BY <1>2, <2>2, <3>2, OneMoreToken DEF InTurn
  <2> QED
    BY <1>1, <1>2, <1>3, <2>1, <2>3 DEF InTurn
<1>7. CASE t = EndOfFrame /\ WriteMarker
  <2>1. /\ pc = "marker" /\ pc' = "test" /\ first' = TRUE
        /\ pkt' = pkt /\ received' = received
    BY <1>7 DEF WriteMarker, recvVars
  <2>2. t.kind = "end"
    BY <1>7 DEF EndOfFrame
  <2>3. Upto(Now)
    <3>1. ~first /\ pkt.ts = ts_current
      BY <2>1 DEF FrameInvs, BaseInv, GrammarInv, Place
    <3> QED
      BY <1>2, <1>4, <2>1, <3>1, OpenFrameIs DEF OpenAt, Left
  <2>4. Upto(Now)'
    <3>1. \A v : Upto(v) => Upto(v)'
      BY <1>2, <2>2, OneMoreToken
    <3> QED
      BY <1>3, <2>3, <3>1 DEF Upto
  <2>5. Ordered'
    BY <1>2, <2>2, OneMoreToken DEF InTurn
  <2>6. stream'[Latest'].m = 1
    BY <1>3, <1>4, <2>1 DEF InTurn
  <2> QED
    BY <1>1, <1>2, <1>3, <2>1, <2>4, <2>5, <2>6 DEF InTurn, Holding, Writes
<1>8. CASE t = Token("header", pkt, pkt.im) /\ WriteHeader
  <2>1. /\ pc = "header" /\ pc' = "block" /\ first' = FALSE
        /\ pkt' = pkt /\ received' = received /\ ts_current' = pkt.ts
    BY <1>8 DEF WriteHeader, recvVars
  <2>2. t.kind = "header" /\ t.img = Now
    BY <1>4, <1>8 DEF Token
  <2>3. Past(Now) /\ Ordered
    BY <1>4, <2>1 DEF InTurn
  <2>4. Upto(Now) /\ EndsBefore(Now)
    <3>1. \A j \in DOMAIN piped : piped[j].kind # "end" => piped[j].img \in Frames
      BY DEF FrameInvs, TokenInv, OfFrame
    <3>2. Upto(Now)
      BY <1>2, <1>4, <2>3, <3>1, FrameOrder DEF Past, Upto
    <3> QED
      BY <2>3, <3>2 DEF EndsBefore, Past
  <2>5. Ordered'
    BY <1>2, <2>2, <2>3, <2>4, OneMoreToken
  <2>6. Upto(Now)' /\ EndsBefore(Now)'
    <3>1. \A v : /\ Upto(v) /\ ~EarlierFrame(v, t.img) => Upto(v)'
                 /\ EndsBefore(v) => EndsBefore(v)'
      BY <1>2, <2>2, OneMoreToken
    <3> QED
      BY <1>3, <1>5, <2>2, <2>4, <3>1 DEF Upto, EndsBefore
  <2>7. TsOf(Now) = ts_current' /\ ~EarlierFrame(Now', Now)
    BY <1>2, <1>3, <1>4, <1>5, <2>1
  <2>8. \E u \in Frames' : OpenAt(u)'
    <3>1. OpenAt(Now)'
      BY <1>3, <2>6, <2>7 DEF OpenAt, TsOf, EarlierFrame
    <3> QED
      BY <1>2, <1>3, <1>4, <3>1 DEF OpenAt, Upto, EndsBefore, TsOf, EarlierFrame
  <2> QED
    BY <1>1, <1>2, <1>3, <2>1, <2>5, <2>8 DEF InTurn, Holding
<1>9. CASE t.kind \in {"block", "number", "data"} /\ t.img = pkt.img
             /\ (WriteBlock \/ WriteNumber \/ WriteData)
  <2>1. /\ pc \in {"block", "number", "data"} /\ pc' \in {"number", "data", "block"}
        /\ UNCHANGED <<first, ts_current, pkt, received>>
    BY <1>9 DEF WriteBlock, WriteNumber, WriteData, frameVars, recvVars
  <2>2. ~first /\ pkt.ts = ts_current
    BY <2>1 DEF FrameInvs, BaseInv, GrammarInv, Place
  <2>3. Upto(Now) /\ EndsBefore(Now) /\ TsOf(Now) = ts_current
    BY <1>2, <1>4, <2>1, <2>2, OpenFrameIs DEF OpenAt, Left
  <2>4. Ordered'
    BY <1>2, <1>4, <1>9, <2>3, OneMoreToken DEF InTurn
  <2>5. Upto(Now)' /\ EndsBefore(Now)'
    <3>1. \A v : /\ Upto(v) /\ ~EarlierFrame(v, t.img) => Upto(v)'
                 /\ EndsBefore(v) => EndsBefore(v)'
      BY <1>2, <1>9, OneMoreToken
    <3> QED
      BY <1>3, <1>4, <1>5, <1>9, <2>3, <3>1 DEF Upto, EndsBefore
  <2>6. \E u \in Frames' : OpenAt(u)'
    <3>1. OpenAt(Now)'
      BY <1>3, <1>5, <2>1, <2>3, <2>5 DEF OpenAt, TsOf, EarlierFrame
    <3> QED
      BY <1>2, <1>3, <1>4, <3>1 DEF OpenAt, Upto, EndsBefore, TsOf, EarlierFrame
  <2> QED
    BY <1>1, <1>2, <1>3, <2>1, <2>2, <2>4, <2>6 DEF InTurn, Holding
<1> QED
  BY <1>6, <1>7, <1>8, <1>9 DEF Puts, Token

(* Every step keeps the frames in turn.                                    *)
LEMMA InTurnKept ==
  ASSUME TimestampsDiffer, FrameInvs, OrderInv, InTurn, [Next]_vars
  PROVE  InTurn'
<1>1. CASE Received
  <2>1. CASE piped' = piped
    BY <1>1, <2>1, InTurnSilent
  <2>2. ASSUME NEW t \in Tokens, Puts(t), piped' = Append(piped, t), pkt \in Packets
        PROVE  InTurn'
    BY <1>1, <2>2, InTurnWrites
  <2> QED
    BY <2>1, <2>2, PipedStep DEF FrameInvs
<1> QED
  BY <1>1, InTurnOthers, InTurnDelivered, StepParts

(* Nothing has arrived and nothing is written when the programs start.     *)
LEMMA InTurnStart == Init => InTurn
  BY DEF Init, ReceiverInit, NetworkInit, InTurn, Ordered, Holding, Writes

(* All that holds of packets in order when the programs start.             *)
LEMMA OrderlyStart == Init => OrderlyInvs
  BY FramesStart, OrderStart, InTurnStart DEF Init, OrderlyInvs
(* All that every step keeps while packets do not overtake each other.     *)
LEMMA OrderlyKept ==
  ASSUME EmptyBlocks = {}, TimestampsDiffer, InOrder, OrderlyInvs, [Next]_vars
  PROVE  OrderlyInvs'
<1>1. NetworkInv /\ NetworkStep
  BY StepsOfParts DEF OrderlyInvs, FrameInvs, BaseInv
<1>2. OrderInv'
  BY <1>1, OrderKept DEF OrderlyInvs
<1> QED
  BY <1>2, FramesKept, InTurnKept DEF OrderlyInvs

-----------------------------------------------------------------------------
(* The frames are shown in order                                           *)

(* What the player has seen of the frames.                                 *)
FromPipe(v) == \E j \in DOMAIN Taken : Taken[j].kind # "end" /\ Taken[j].img = v
RowOK(row, k) == row = Nothing \/ (row.id = k /\ FromPipe(row.img))

(* The rows of the buffer are at their place, of frames seen, and none is  *)
(* later than the frame being read; the frames shown are earlier.          *)
RowsInv ==
  /\ \A k \in DOMAIN frame_buffer : RowOK(frame_buffer[k], k)
  /\ \A s \in DOMAIN shown : FromPipe(shown[s].img)
  /\ ppc \in Within => FromPipe(header.img)
  /\ ppc \in Within => \A k \in DOMAIN frame_buffer :
       frame_buffer[k] = Nothing \/ ~EarlierFrame(header.img, frame_buffer[k].img)
  /\ ppc \in Within => \A s \in DOMAIN shown : EarlierFrame(shown[s].img, header.img)
  /\ ShownInOrder

(* No row is decoded when the player starts.                               *)
LEMMA RowsStart == Init => RowsInv
  BY DEF Init, PlayerInit, RowsInv, ShownInOrder, Within

(* A header that comes next is later than everything seen.                 *)
LEMMA HeaderIsLater ==
  ASSUME OrderlyInvs, fifo # <<>>, Head(fifo).kind = "header"
  PROVE  /\ Head(fifo).img \in Frames
         /\ \A v : FromPipe(v) => v \in Frames /\ EarlierFrame(v, Head(fifo).img)
<1>1. /\ Head(fifo) = piped[Eaten + 1] /\ Eaten + 1 \in DOMAIN piped
      /\ DOMAIN Taken = 1 .. Eaten /\ Eaten \in Nat
      /\ \A j \in 1 .. Eaten : Taken[j] = piped[j] /\ j \in DOMAIN piped
  BY HeadFollows, TakenFacts DEF OrderlyInvs, FrameInvs
<1>2. \A j \in DOMAIN piped : piped[j].kind # "end" => piped[j].img \in Frames
  BY DEF OrderlyInvs, FrameInvs, TokenInv, OfFrame
<1>3. Ordered
  BY DEF OrderlyInvs, InTurn
<1>4. ASSUME NEW v, FromPipe(v)
      PROVE  v \in Frames /\ EarlierFrame(v, Head(fifo).img)
  <2>1. PICK j \in 1 .. Eaten : piped[j].kind # "end" /\ piped[j].img = v
    BY <1>1, <1>4 DEF FromPipe
  <2>2. j \in DOMAIN piped /\ j < Eaten + 1
    BY <1>1
  <2>3. EarlierFrame(piped[j].img, piped[Eaten + 1].img)
    BY <1>1, <1>3, <2>1, <2>2 DEF Ordered
  <2> QED
    BY <1>1, <1>2, <2>1, <2>2, <2>3
<1> QED
  BY <1>1, <1>2, <1>4

(* Steps that show nothing and decode nothing.                             *)
LEMMA RowsIdle ==
  ASSUME RowsInv, UNCHANGED <<header, frame_buffer, shown>>,
         \A v : FromPipe(v) => FromPipe(v)',
         ppc' \in Within => ppc \in Within
  PROVE  RowsInv'
<1>1. \A k \in DOMAIN frame_buffer' :
        frame_buffer'[k] = Nothing
          \/ (frame_buffer'[k].id = k /\ FromPipe(frame_buffer[k].img)')
  BY DEF RowsInv, RowOK
<1>2. \A k \in DOMAIN frame_buffer' : RowOK(frame_buffer[k], k)'
  BY <1>1 DEF RowOK, FromPipe
<1>3. \A s \in DOMAIN shown' : FromPipe(shown[s].img)'
  BY DEF RowsInv, FromPipe
<1>4. ppc' \in Within => FromPipe(header.img)'
  BY DEF RowsInv, FromPipe
<1>5. ShownInOrder'
  BY DEF RowsInv, ShownInOrder, EarlierFrame
<1> QED
  BY <1>2, <1>3, <1>4, <1>5 DEF RowsInv, EarlierFrame

(* What was seen stays seen; a token taken is seen.                        *)
LEMMA SeenGrows ==
  ASSUME BaseInv, FifoInv,
         Taken' = Taken \/ (fifo # <<>> /\ Taken' = Append(Taken, Head(fifo)))
  PROVE  /\ \A v : FromPipe(v) => FromPipe(v)'
         /\ Taken' = Append(Taken, Head(fifo)) /\ fifo # <<>> =>
              \A v : Head(fifo).kind # "end" /\ v = Head(fifo).img => FromPipe(v)'
<1>1. CASE Taken' = Taken /\ ~(fifo # <<>> /\ Taken' = Append(Taken, Head(fifo)))
  BY <1>1 DEF FromPipe
<1>2. CASE fifo # <<>> /\ Taken' = Append(Taken, Head(fifo))
  <2>1. Head(fifo) \in Tokens /\ Taken \in Seq(Tokens)
    BY <1>2, HeadFollows, TakenFacts
  <2>2. /\ \A j \in DOMAIN Taken : j \in DOMAIN Taken' /\ Taken'[j] = Taken[j]
        /\ Len(Taken) + 1 \in DOMAIN Taken' /\ Taken'[Len(Taken) + 1] = Head(fifo)
    BY <1>2, <2>1
  <2> QED
    BY <2>2 DEF FromPipe
<1> QED
  BY <1>1, <1>2

(* newmain.cc:622-657: a header opens a frame later than all seen before.  *)
LEMMA RowsHeader ==
  ASSUME OrderlyInvs, RowsInv, ReadHeader, fifo # <<>>, Head(fifo).kind = "header",
         Taken' = Append(Taken, Head(fifo))
  PROVE  RowsInv'
<1> DEFINE t == Head(fifo)
<1>1. /\ header' = t /\ shown' = shown
      /\ frame_buffer' = IF t.id = header.id THEN frame_buffer
                         ELSE [k \in 0 .. t.id - 1 |-> Nothing]
  BY DEF ReadHeader
<1>2. t.img \in Frames /\ \A v : FromPipe(v) => v \in Frames /\ EarlierFrame(v, t.img)
  BY HeaderIsLater
<1>3. /\ \A v : FromPipe(v) => FromPipe(v)'
      /\ \A v : v = t.img => FromPipe(v)'
  BY SeenGrows DEF OrderlyInvs, FrameInvs
<1>4. StreamInv
  BY DEF OrderlyInvs, FrameInvs, BaseInv, NetworkInv
<1> HIDE DEF t
<1>5. ASSUME NEW k \in DOMAIN frame_buffer'
      PROVE  \/ frame_buffer'[k] = Nothing
             \/ k \in DOMAIN frame_buffer /\ frame_buffer'[k] = frame_buffer[k]
  BY <1>1, <1>5
<1>6. ASSUME NEW k \in DOMAIN frame_buffer', frame_buffer'[k] # Nothing
      PROVE  /\ frame_buffer'[k].id = k /\ FromPipe(frame_buffer'[k].img)
             /\ ~EarlierFrame(t.img, frame_buffer'[k].img)
  <2>1. RowOK(frame_buffer'[k], k)
    BY <1>5, <1>6 DEF RowsInv
  <2>2. frame_buffer'[k].id = k /\ FromPipe(frame_buffer'[k].img)
    BY <1>6, <2>1 DEF RowOK
  <2> QED
    BY <1>2, <1>4, <2>2, FrameOrder
<1>7. \A k \in DOMAIN frame_buffer' :
        frame_buffer'[k] = Nothing
          \/ (frame_buffer'[k].id = k /\ FromPipe(frame_buffer[k].img)')
  <2> SUFFICES ASSUME NEW k \in DOMAIN frame_buffer', frame_buffer'[k] # Nothing
               PROVE  frame_buffer'[k].id = k /\ FromPipe(frame_buffer[k].img)'
    OBVIOUS
  <2> QED
    BY <1>3, <1>6 DEF FromPipe
<1>8. \A k \in DOMAIN frame_buffer' : RowOK(frame_buffer[k], k)'
  BY <1>7 DEF RowOK, FromPipe
<1>9. \A s \in DOMAIN shown' : /\ FromPipe(shown[s].img)'
                               /\ EarlierFrame(shown'[s].img, t.img)
  BY <1>1, <1>2, <1>3 DEF RowsInv, FromPipe
<1>10. FromPipe(header.img)'
  BY <1>1, <1>3 DEF FromPipe
<1>11. ShownInOrder'
  BY <1>1 DEF RowsInv, ShownInOrder, EarlierFrame
<1> QED
  BY <1>1, <1>6, <1>8, <1>9, <1>10, <1>11 DEF RowsInv, EarlierFrame

(* newmain.cc:516-524: a thread decodes a block of the frame being read.   *)
LEMMA RowsDecode ==
  ASSUME OrderlyInvs, RowsInv, NEW m \in Slots, DecodeBlock(m), Taken' = Taken
  PROVE  RowsInv'
<1>1. /\ threads[m] = "running" /\ ppc \notin PlayerLeft
      /\ frame_buffer' = [frame_buffer EXCEPT ![args[m].row] = args[m].data]
      /\ UNCHANGED <<ppc, header, shown>>
  BY DEF DecodeBlock
<1>2. ppc \in Within
  BY <1>1, PlayerIsIn DEF DecodedInv, OrderlyInvs, FrameInvs, BaseInv
<1>3. /\ args[m].row \in DOMAIN frame_buffer /\ args[m].data = OwnBlock(args[m].row)
      /\ header.img \in Frames /\ FromPipe(header.img)
  BY <1>1, <1>2 DEF DecodedInv, OfFrame, OrderlyInvs, FrameInvs, RowsInv
<1>4. ~EarlierFrame(header.img, header.img)
  BY <1>3, FrameOrder DEF OrderlyInvs, FrameInvs, BaseInv, NetworkInv
<1>5. DOMAIN frame_buffer' = DOMAIN frame_buffer
  BY <1>1
<1>6. ASSUME NEW k \in DOMAIN frame_buffer
      PROVE  \/ frame_buffer'[k] = frame_buffer[k]
             \/ frame_buffer'[k] = OwnBlock(k)
  <2>1. CASE k = args[m].row
    BY <1>1, <1>3, <2>1
  <2>2. CASE k # args[m].row
    BY <1>1, <2>2
  <2> QED
    BY <2>1, <2>2
<1>7. ASSUME NEW k \in DOMAIN frame_buffer
      PROVE  /\ \/ frame_buffer'[k] = Nothing
                \/ frame_buffer'[k].id = k /\ FromPipe(frame_buffer'[k].img)
             /\ \/ frame_buffer'[k] = Nothing
                \/ ~EarlierFrame(header.img, frame_buffer'[k].img)
  <2>1. CASE frame_buffer'[k] = frame_buffer[k]
    BY <1>2, <2>1 DEF RowsInv, RowOK
  <2>2. CASE frame_buffer'[k] = OwnBlock(k)
    BY <1>3, <1>4, <2>2 DEF OwnBlock
  <2> QED
    BY <1>6, <2>1, <2>2
<1>8. \A v : FromPipe(v)' <=> FromPipe(v)
  BY DEF FromPipe
<1>9. \A k \in DOMAIN frame_buffer' : RowOK(frame_buffer[k], k)'
  BY <1>5, <1>7 DEF RowOK, FromPipe
<1>10. /\ \A s \in DOMAIN shown' : FromPipe(shown[s].img)'
       /\ FromPipe(header.img)'
  BY <1>1, <1>3 DEF RowsInv, FromPipe
<1>11. ShownInOrder'
  BY <1>1 DEF RowsInv, ShownInOrder, EarlierFrame
<1> QED
  BY <1>1, <1>2, <1>5, <1>7, <1>9, <1>10, <1>11 DEF RowsInv, EarlierFrame

(* newmain.cc:689-701: the frame shown is later than those shown before.   *)
LEMMA RowsShow ==
  ASSUME OrderlyInvs, RowsInv, Show, shown' = Append(shown, NewPicture), Taken' = Taken
  PROVE  RowsInv'
<1>1. ppc = "join" /\ ppc' = "frame" /\ UNCHANGED <<header, frame_buffer>>
  BY DEF Show
<1>2. NewPicture \in Picture /\ shown \in Seq(Picture)
  BY PictureShown DEF OrderlyInvs, FrameInvs, PictureInv
<1>3. /\ DOMAIN shown' = 1 .. Len(shown) + 1 /\ DOMAIN shown = 1 .. Len(shown)
      /\ Len(shown) \in Nat /\ Len(shown') = Len(shown) + 1
      /\ shown'[Len(shown) + 1] = NewPicture
      /\ \A s \in DOMAIN shown : shown'[s] = shown[s]
  BY <1>2
<1>4. /\ FromPipe(header.img)
      /\ \A k \in DOMAIN frame_buffer :
           \/ frame_buffer[k] = Nothing
           \/ frame_buffer[k].id = k /\ ~EarlierFrame(header.img, frame_buffer[k].img)
      /\ \A s \in DOMAIN shown : EarlierFrame(shown[s].img, header.img)
  BY <1>1 DEF RowsInv, RowOK, Within
<1>5. ASSUME NEW s \in 1 .. Len(shown') - 1
      PROVE  EarlierFrame(shown'[s].img, shown'[s + 1].img)
  <2>1. s \in DOMAIN shown /\ shown'[s] = shown[s]
    BY <1>3
  <2>2. CASE s = Len(shown)
    BY <1>3, <1>4, <2>1, <2>2 DEF NewPicture
  <2>3. CASE s # Len(shown)
    <3>1. s \in 1 .. Len(shown) - 1 /\ s + 1 \in DOMAIN shown
      BY <1>3, <2>1, <2>3
    <3> QED
      BY <1>3, <2>1, <3>1 DEF RowsInv, ShownInOrder
  <2> QED
    BY <2>2, <2>3
<1>6. ASSUME NEW s \in DOMAIN shown', NEW k \in DOMAIN shown'[s].rows
      PROVE  \/ shown'[s].rows[k] = Nothing
             \/ /\ shown'[s].rows[k].id = k
                /\ ~EarlierFrame(shown'[s].img, shown'[s].rows[k].img)
  <2>1. CASE s \in DOMAIN shown
    BY <1>3, <1>6, <2>1 DEF RowsInv, ShownInOrder
  <2>2. CASE s = Len(shown) + 1
    BY <1>3, <1>4, <1>6, <2>2 DEF NewPicture
  <2> QED
    BY <1>3, <2>1, <2>2
<1>7. ShownInOrder'
  BY <1>5, <1>6 DEF ShownInOrder, EarlierFrame
<1>8. \A s \in DOMAIN shown' : FromPipe(shown'[s].img)
  <2> SUFFICES ASSUME NEW s \in DOMAIN shown' PROVE FromPipe(shown'[s].img)
    OBVIOUS
  <2>1. CASE s \in DOMAIN shown
    BY <1>3, <2>1 DEF RowsInv
  <2>2. CASE s = Len(shown) + 1
    BY <1>3, <1>4, <2>2 DEF NewPicture
  <2> QED
    BY <1>3, <2>1, <2>2
<1>9. \A s \in DOMAIN shown' : FromPipe(shown[s].img)'
  BY <1>8 DEF FromPipe
<1>10. \A k \in DOMAIN frame_buffer' : RowOK(frame_buffer[k], k)'
  BY <1>1 DEF RowsInv, RowOK, FromPipe
<1>11. ppc' \notin Within
  BY <1>1 DEF Within
<1> QED
  BY <1>7, <1>9, <1>10, <1>11 DEF RowsInv

(* Every step keeps the rows and the frames shown in order.                *)
LEMMA RowsKept ==
  ASSUME EmptyBlocks = {}, TimestampsDiffer, InOrder, OrderlyInvs, RowsInv, [Next]_vars
  PROVE  RowsInv'
<1>1. BaseInv /\ FifoInv /\ ReadInv /\ ReadInv'
  BY OrderlyKept DEF OrderlyInvs, FrameInvs
<1>2. CASE UNCHANGED playerVars /\ Taken' = Taken
  <2>1. \A v : FromPipe(v) => FromPipe(v)'
    BY <1>1, <1>2, SeenGrows
  <2> QED
    BY <1>2, <2>1, RowsIdle DEF playerVars, videoVars
<1>3. CASE Played /\ Take /\ Taken' = Append(Taken, Head(fifo))
  <2>1. fifo # <<>>
    BY <1>3 DEF Take, IsEmpty
  <2>2. \A v : FromPipe(v) => FromPipe(v)'
    BY <1>1, <1>3, <2>1, SeenGrows
  <2>3. CASE ReadHeader
    <3>1. Head(fifo).kind = "header"
      BY <1>1, <2>3 DEF ReadHeader, Misread, PlayerLeave, ReadInv
    <3> QED
      BY <1>3, <2>1, <2>3, <3>1, RowsHeader
  <2>4. CASE ReadBlock \/ ReadNumber \/ ReadData
    <3>1. UNCHANGED <<header, frame_buffer, shown>> /\ ppc \in Within
      BY <2>4 DEF ReadBlock, ReadNumber, ReadData, Misread, videoVars, Within
    <3> QED
      BY <2>2, <3>1, RowsIdle
  <2> QED
    BY <1>1, <1>3, <2>3, <2>4, TakingSteps
<1>4. CASE Played /\ ~Take /\ Taken' = Taken
  <2>1. \A v : FromPipe(v) => FromPipe(v)'
    BY <1>1, <1>4, SeenGrows
  <2>2. TestPlayerStop \/ ReadEof \/ LaunchThread \/ JoinAll \/ PlayerSigInt
          => UNCHANGED <<header, frame_buffer, shown>> /\ (ppc' \in Within => ppc \in Within)
    BY DEF TestPlayerStop, ReadEof, LaunchThread, JoinAll, PlayerSigInt, PlayerLeave,
           Within, videoVars
  <2>3. TestPlayerStop \/ ReadEof \/ LaunchThread \/ JoinAll \/ PlayerSigInt => RowsInv'
    BY <2>1, <2>2, RowsIdle
  <2>4. Pool => RowsInv'
    BY <1>4, RowsDecode DEF Pool
  <2>5. Show => RowsInv'
    BY <1>4, RowsShow DEF Show, NewPicture
  <2> QED
    BY <1>4, <2>3, <2>4, <2>5
    DEF Played, PlayerWork, ReadHeader, ReadBlock, ReadNumber, ReadData
<1> QED
  BY <1>1, <1>2, <1>3, <1>4, TakenStep

(* As long as packets do not overtake each other: the frames shown are     *)
(* frames of the video, each once and in order; every row of a frame shown *)
(* is a block of that number, of that frame or of an earlier one; and      *)
(* every row given to a thread is decoded (LHE_receiver.c:723-829,         *)
(* newmain.cc:622-763).                                                    *)
THEOREM ShownAlwaysFaithful ==
  ASSUME EmptyBlocks = {}, TimestampsDiffer, InOrder
  PROVE  Spec => []ShownFaithfully
<1>1. Init => OrderlyInvs /\ RowsInv
  BY OrderlyStart, RowsStart
<1>2. OrderlyInvs /\ RowsInv /\ [Next]_vars => OrderlyInvs' /\ RowsInv'
  BY OrderlyKept, RowsKept
<1>3. OrderlyInvs /\ RowsInv => ShownFaithfully
  BY DEF OrderlyInvs, FrameInvs, RowsInv, BaseInv, TypeInv, PlayerInv, TypeOK, ReadInv,
         NeverMisread, PictureInv, Decoded, ShownIsDecoded, ShownFaithfully
<1> QED
  BY <1>1, <1>2, <1>3, PTL DEF Spec

-----------------------------------------------------------------------------
(* A frame all packets of which arrived                                    *)

(* The packets up to one that is sent tile its frame.                      *)
Blocks(k) == stream[k].fb .. stream[k].fb + stream[k].n - 1
CoverInv == \A k \in DOMAIN stream : \A i \in 0 .. stream[k].fb + stream[k].n - 1 :
              \E j \in DOMAIN stream : OneFrame(stream[j], stream[k]) /\ i \in Blocks(j)

(* What is sent next goes on where the last packet ended, or starts anew.  *)
LEMMA CoverKept ==
  ASSUME StreamInv, CoverInv, Source!Emit \/ UNCHANGED <<sizes, stream>>
  PROVE  CoverInv'
<1>1. CASE UNCHANGED <<sizes, stream>>
  BY <1>1 DEF CoverInv, Blocks, OneFrame
<1>2. CASE Source!Emit
  <2> DEFINE N == Len(stream)
  <2>1. PICK p \in StreamPackets :
          /\ stream' = Append(stream, p)
          /\ stream = <<>> => p.fb = 0
          /\ stream # <<>> => Continues(stream[N], p)
    BY <1>2, EmitEffect
  <2>2. /\ N \in Nat /\ DOMAIN stream = 1 .. N /\ DOMAIN stream' = 1 .. N + 1
        /\ stream'[N + 1] = p /\ \A k \in 1 .. N : stream'[k] = stream[k]
        /\ stream = <<>> <=> N = 0
    BY <2>1 DEF StreamInv
  <2>3. p.fb \in Nat /\ p.n \in Nat
    BY DEF StreamPackets
  <2> HIDE DEF N
  <2>4. ASSUME NEW k \in 1 .. N, NEW i \in 0 .. stream[k].fb + stream[k].n - 1
        PROVE  \E j \in 1 .. N : /\ OneFrame(stream[j], stream[k])
                                 /\ i \in stream[j].fb .. stream[j].fb + stream[j].n - 1
    BY <2>2 DEF CoverInv, Blocks
  <2>5. ASSUME NEW k \in 1 .. N + 1, NEW i \in 0 .. stream'[k].fb + stream'[k].n - 1
        PROVE  \E j \in 1 .. N + 1 :
                 /\ OneFrame(stream'[j], stream'[k])
                 /\ i \in stream'[j].fb .. stream'[j].fb + stream'[j].n - 1
    <3>1. CASE k \in 1 .. N
      <4>1. stream'[k] = stream[k]
        BY <2>2, <3>1
      <4>2. PICK j \in 1 .. N : /\ OneFrame(stream[j], stream[k])
                                /\ i \in stream[j].fb .. stream[j].fb + stream[j].n - 1
        BY <2>4, <3>1, <4>1
      <4>3. stream'[j] = stream[j] /\ j \in 1 .. N + 1
        BY <2>2
      <4> QED
        BY <4>1, <4>2, <4>3
    <3>2. CASE k = N + 1 /\ i \in p.fb .. p.fb + p.n - 1
      BY <2>2, <3>2 DEF OneFrame
    <3>3. CASE k = N + 1 /\ i \notin p.fb .. p.fb + p.n - 1
      <4>1. i \in 0 .. p.fb - 1 /\ p.fb # 0
        BY <2>2, <2>3, <2>5, <3>3
      <4>2. N \in 1 .. N /\ OneFrame(stream[N], p) /\ p.fb = stream[N].fb + stream[N].n
        BY <2>1, <2>2, <4>1 DEF Continues
      <4>3. i \in 0 .. stream[N].fb + stream[N].n - 1
        BY <2>2, <4>1, <4>2, StreamFields
      <4>4. PICK j \in 1 .. N : /\ OneFrame(stream[j], stream[N])
                                /\ i \in stream[j].fb .. stream[j].fb + stream[j].n - 1
        BY <2>4, <4>2, <4>3
      <4>5. stream'[j] = stream[j] /\ stream'[k] = p /\ j \in 1 .. N + 1
        BY <2>2, <3>3
      <4> QED
        BY <4>2, <4>4, <4>5 DEF OneFrame
    <3> QED
      BY <2>2, <3>1, <3>2, <3>3
  <2>6. ASSUME NEW k \in DOMAIN stream',
               NEW i \in 0 .. stream'[k].fb + stream'[k].n - 1
        PROVE  \E j \in DOMAIN stream' : /\ OneFrame(stream[j], stream[k])'
                                         /\ i \in Blocks(j)'
    <3>1. PICK j \in 1 .. N + 1 :
            /\ OneFrame(stream'[j], stream'[k])
            /\ i \in stream'[j].fb .. stream'[j].fb + stream'[j].n - 1
      BY <2>2, <2>5, <2>6
    <3>2. i \in Blocks(j)' /\ OneFrame(stream[j], stream[k])'
      BY <3>1 DEF Blocks, OneFrame
    <3> QED
      BY <2>2, <3>2
  <2> QED
    BY <2>6 DEF CoverInv, OneFrame
<1> QED
  BY <1>1, <1>2

(* How far the receiver is along the packets that arrived.                 *)
AheadInv ==
  /\ arrived <= Len(arrivals)
  /\ pc \notin Left =>
       arrived = IF pc = "got" /\ received THEN Len(arrivals) - 1 ELSE Len(arrivals)
  /\ current_seqnum = IF arrived = 0 THEN 0 ELSE stream[arrivals[arrived]].seq

(* The receiver does its bookkeeping once for every packet, when it has    *)
(* decided what to do with it.                                             *)
LEMMA AccountMoves ==
  ASSUME InTurn, Received
  PROVE  \/ Accept \/ DropLate
         \/ /\ ~Accept /\ ~DropLate /\ UNCHANGED accountVars
            /\ \/ pc' \in Left
               \/ /\ pc \notin Left
                  /\ (pc' = "got" /\ received') <=> (pc = "got" /\ received)
<1>1. pc = "recv" => ~received
  BY DEF InTurn
<1>2. CASE TestStop \/ EnterRecv \/ StopInFrame \/ RecvFailed \/ EndPacket \/ WriteBroken
  BY <1>2 DEF TestStop, EnterRecv, StopInFrame, RecvFailed, EndPacket, WriteBroken,
              Leave, Left, recvVars
<1>3. CASE WriteEnd \/ WriteHeader \/ WriteBlock \/ WriteNumber \/ WriteData \/ WriteMarker
  BY <1>3 DEF WriteEnd, WriteHeader, WriteBlock, WriteNumber, WriteData, WriteMarker,
              FirstAfterEnd, Left, recvVars
<1>4. CASE SigInt
  BY <1>1, <1>4 DEF SigInt, Leave, Left, recvVars
<1> QED
  BY <1>2, <1>3, <1>4 DEF Received, Work

(* The packet it does the bookkeeping for is the one that arrived last.    *)
LEMMA HandledNext ==
  ASSUME OrderlyInvs, AheadInv, Received, Accept \/ DropLate
  PROVE  /\ pc = "got" /\ received /\ Latest \in DOMAIN stream /\ arrivals # <<>>
         /\ arrived \in Nat /\ Len(arrivals) = arrived + 1 /\ arrived' = arrived + 1
         /\ pkt = Datagram(Latest) /\ current_seqnum' = stream[Latest].seq
<1>1. pc = "got" /\ received /\ Account(pkt.seq, pkt.ssrc)
  BY DEF Accept, DropLate
<1>2. arrivals # <<>> /\ pkt = Datagram(Latest)
  BY <1>1 DEF OrderlyInvs, InTurn, Holding
<1>3. Latest \in DOMAIN stream /\ pkt.seq = stream[Latest].seq
  BY <1>2, LatestFacts DEF OrderlyInvs, FrameInvs, BaseInv, Datagram
<1>4. arrived \in Nat /\ arrivals \in Seq(Nat)
  BY DEF OrderlyInvs, FrameInvs, BaseInv, TypeInv, PipeTypeOK, AccountTypeOK, NetworkInv
<1>5. Len(arrivals) = arrived + 1
  BY <1>1, <1>4 DEF AheadInv, Left
<1> QED
  BY <1>1, <1>2, <1>3, <1>4, <1>5 DEF Account

(* What arrived stays, and what was handled of it.                         *)
LEMMA ArrivedStays ==
  ASSUME OrderlyInvs, AheadInv, [Next]_vars
  PROVE  /\ NetworkStep /\ arrived \in Nat /\ Len(arrivals) \in Nat
         /\ \A a \in 1 .. arrived : /\ a \in DOMAIN arrivals /\ arrivals'[a] = arrivals[a]
                                    /\ arrivals[a] \in DOMAIN stream
         /\ \A k \in DOMAIN stream : /\ k \in DOMAIN stream' /\ stream'[k] = stream[k]
                                     /\ FrameOf(k)' = FrameOf(k)
         /\ RolledOver => RolledOver'
         /\ \/ arrivals' = arrivals
            \/ Delivered /\ \E k \in inflight : arrivals' = Append(arrivals, k)
<1>1. NetworkStep /\ NetworkInv /\ StreamInv
  BY StepsOfParts DEF OrderlyInvs, FrameInvs, BaseInv, NetworkInv
<1>2. /\ arrived \in Nat /\ arrivals \in Seq(Nat) /\ arrived <= Len(arrivals)
      /\ \A a \in DOMAIN arrivals : arrivals[a] \in DOMAIN stream
  BY DEF OrderlyInvs, FrameInvs, BaseInv, TypeInv, PipeTypeOK, AccountTypeOK,
         NetworkInv, AheadInv
<1>3. \A k \in DOMAIN stream : k \in DOMAIN stream' /\ stream'[k] = stream[k]
  BY <1>1, SentKept, NetworkSends
<1>4. RolledOver => RolledOver'
  BY <1>1, RolledOverStays, NetworkSends
<1>5. \/ arrivals' = arrivals
      \/ Delivered /\ \E k \in inflight : arrivals' = Append(arrivals, k)
  BY StepParts DEF NetworkOnly, Transmit, Lose, networkVars, Received, Played, Delivered,
                   Arrive
<1>6. ASSUME NEW a \in 1 .. arrived
      PROVE  a \in DOMAIN arrivals /\ arrivals'[a] = arrivals[a]
  <2>1. a \in DOMAIN arrivals
    BY <1>2
  <2>2. ASSUME NEW k, arrivals' = Append(arrivals, k) PROVE arrivals'[a] = arrivals[a]
    BY <1>2, <2>1, <2>2
  <2> QED
    BY <1>5, <2>1, <2>2
<1>7. \A k \in DOMAIN stream : FrameOf(k)' = FrameOf(k)
  BY <1>3 DEF FrameOf
<1> QED
  BY <1>1, <1>2, <1>3, <1>4, <1>5, <1>6, <1>7

(* Every step keeps the receiver's bookkeeping at the packet it is at.     *)
LEMMA AheadKept ==
  ASSUME OrderlyInvs, AheadInv, [Next]_vars
  PROVE  AheadInv'
<1>1. /\ arrived \in Nat /\ Len(arrivals) \in Nat /\ arrived <= Len(arrivals)
      /\ arrived # 0 => /\ arrivals'[arrived] = arrivals[arrived]
                        /\ stream'[arrivals[arrived]] = stream[arrivals[arrived]]
  <2>1. arrived \in Nat /\ Len(arrivals) \in Nat /\ (arrived # 0 => arrived \in 1 .. arrived)
    BY ArrivedStays
  <2> QED
    BY <2>1, ArrivedStays DEF AheadInv
<1>2. CASE UNCHANGED receiverVars /\ arrivals' = arrivals
  BY <1>1, <1>2 DEF AheadInv, receiverVars, accountVars, recvVars
<1>3. CASE Delivered
  <2>1. /\ pc = "recv" /\ pc' = "got" /\ received' = TRUE /\ UNCHANGED accountVars
    BY <1>3 DEF Delivered, Deliver
  <2>2. PICK k \in inflight : arrivals' = Append(arrivals, k)
    BY <1>3 DEF Delivered, Arrive
  <2>3. Len(arrivals') = Len(arrivals) + 1
    BY <2>2 DEF OrderlyInvs, FrameInvs, BaseInv, NetworkInv
  <2>4. arrived = Len(arrivals)
    BY <2>1 DEF AheadInv, Left
  <2> QED
    BY <1>1, <2>1, <2>3, <2>4 DEF AheadInv, accountVars
<1>4. CASE Received /\ (Accept \/ DropLate)
  <2>1. /\ pc' # "got" /\ arrivals' = arrivals
    BY <1>4 DEF Accept, DropLate, Received, networkVars
  <2>2. Latest \in DOMAIN stream /\ Len(arrivals) = arrived + 1 /\ arrived' = arrived + 1
        /\ current_seqnum' = stream[Latest].seq
    BY <1>4, HandledNext
  <2>3. stream'[Latest] = stream[Latest] /\ Latest = arrivals[arrived']
    BY <2>2, ArrivedStays DEF Latest
  <2> QED
    BY <1>1, <2>1, <2>2, <2>3 DEF AheadInv
<1>5. CASE Received /\ UNCHANGED accountVars
             /\ \/ pc' \in Left
                \/ /\ pc \notin Left
                   /\ (pc' = "got" /\ received') <=> (pc = "got" /\ received)
  BY <1>1, <1>5 DEF AheadInv, accountVars, Received, networkVars
<1> QED
  BY <1>2, <1>3, <1>4, <1>5, StepParts, AccountMoves
  DEF NetworkOnly, Played, Transmit, Lose, networkVars, OrderlyInvs

(* Before the sequence number rolls over no packet is taken for a late one *)
(* (LHE_receiver.c:723-728): each has a greater number than the last.      *)
LEMMA NothingDropped ==
  ASSUME InOrder, OrderlyInvs, AheadInv, Received, DropLate
  PROVE  RolledOver
<1> SUFFICES ASSUME ~RolledOver PROVE FALSE
  OBVIOUS
<1>1. /\ Latest \in DOMAIN stream /\ Len(arrivals) = arrived + 1 /\ arrived \in Nat
      /\ pkt = Datagram(Latest)
  BY HandledNext
<1>2. StreamInv /\ NetworkInv /\ OrderInv
  BY DEF OrderlyInvs, FrameInvs, BaseInv, NetworkInv
<1>3. pkt.seq = stream[Latest].seq /\ pkt.seq < current_seqnum
  BY <1>1 DEF Datagram, DropLate, PriorFrame
<1>4. stream[Latest].seq = stream[1].seq + Latest - 1 /\ stream[1].seq \in Nat
  BY <1>1, <1>2, SeqUnrolled
<1>5. Latest \in Nat \ {0}
  BY <1>1, <1>2, StreamFields
<1>6. CASE arrived = 0
  <2>1. current_seqnum = 0 /\ stream[Latest].seq \in Nat
    BY <1>1, <1>2, <1>6, StreamFields DEF AheadInv
  <2> QED
    BY <1>3, <2>1
<1>7. CASE arrived # 0
  <2> DEFINE l == arrivals[arrived]
  <2>1. current_seqnum = stream[l].seq
    BY <1>7 DEF AheadInv
  <2>2. arrived \in DOMAIN arrivals /\ arrived + 1 \in DOMAIN arrivals
    BY <1>1, <1>2, <1>7 DEF NetworkInv
  <2>3. l \in DOMAIN stream /\ l < Latest
    BY <1>1, <1>2, <2>2, ArrivalsGrow DEF NetworkInv, Latest
  <2>4. stream[l].seq = stream[1].seq + l - 1 /\ l \in Nat
    BY <1>2, <2>3, SeqUnrolled, StreamFields
  <2> HIDE DEF l
  <2> QED
    BY <1>3, <1>4, <1>5, <2>1, <2>3, <2>4
<1> QED
  BY <1>6, <1>7

(* The bytes of a block of a frame were written; those of all blocks of a  *)
(* packet.  The packet held is being written, block by block; all others   *)
(* handled are written, but for one the receiver left in the middle of.    *)
HasBlock(v, i) == \E j \in DOMAIN piped :
                    piped[j].kind = "data" /\ piped[j].img = v /\ piped[j].id = i
AllWritten(k) == \A i \in Blocks(k) : HasBlock(FrameOf(k), i)
WrittenInv ==
  /\ pc \in Writes => \A i \in 0 .. done - 1 : HasBlock(Now, stream[Latest].fb + i)
  /\ pc = "marker" => AllWritten(Latest)
  /\ ~RolledOver => \A k \in Handled :
       \/ AllWritten(k)
       \/ k = Latest /\ (pc \in Writes \/ (pc \in Left /\ EndsBefore(Now)))

(* What was written stays written.                                         *)
LEMMA BlocksStay ==
  ASSUME OrderlyInvs, AheadInv, [Next]_vars
  PROVE  /\ \A v, i : HasBlock(v, i) => HasBlock(v, i)'
         /\ \A k \in DOMAIN stream : AllWritten(k) => AllWritten(k)'
<1>1. \A j \in DOMAIN piped : j \in DOMAIN piped' /\ piped'[j] = piped[j]
  <2>1. piped \in Seq(Tokens)
    BY TakenFacts DEF OrderlyInvs, FrameInvs
  <2>2. \/ piped' = piped
        \/ \E t \in Tokens : piped' = Append(piped, t)
    BY PipedStep DEF OrderlyInvs, FrameInvs
  <2> QED
    BY <2>1, <2>2
<1>2. \A v, i : HasBlock(v, i) => HasBlock(v, i)'
  BY <1>1 DEF HasBlock
<1>3. ASSUME NEW k \in DOMAIN stream, AllWritten(k) PROVE AllWritten(k)'
  <2>1. stream'[k] = stream[k]
    BY ArrivedStays
  <2>2. \A v : v = FrameOf(k) => \A i \in Blocks(k) : HasBlock(v, i)'
    BY <1>2, <1>3 DEF AllWritten
  <2>3. FrameOf(k)' = FrameOf(k) /\ Blocks(k)' = Blocks(k)
    BY <2>1 DEF FrameOf, Blocks
  <2> QED
    BY <2>2, <2>3 DEF AllWritten, HasBlock
<1> QED
  BY <1>2, <1>3

(* The packet held is of the frame being written or of one to be opened:   *)
(* that frame is not closed.                                               *)
LEMMA HeldIsOpen ==
  ASSUME TimestampsDiffer, OrderlyInvs, pc \in Writes
  PROVE  /\ arrivals # <<>> /\ Latest \in DOMAIN stream /\ pkt = Datagram(Latest)
         /\ pkt.img = Now /\ pkt.fb = stream[Latest].fb /\ pkt.n = stream[Latest].n
         /\ EndsBefore(Now)
<1>1. arrivals # <<>> /\ pkt = Datagram(Latest) /\ FrameInvs /\ InTurn
  BY DEF OrderlyInvs, InTurn, Holding
<1>2. Latest \in DOMAIN stream /\ pkt.img = Now
  BY <1>1, LatestFacts DEF FrameInvs, BaseInv
<1>3. pkt.fb = stream[Latest].fb /\ pkt.n = stream[Latest].n
  BY <1>1 DEF Datagram
<1>4. CASE pc \in {"end", "header"}
  <2>1. Past(Now)
    BY <1>1, <1>2, <1>4 DEF InTurn
  <2> QED
    BY <1>1, <1>2, <1>3, <2>1 DEF Past, EndsBefore
<1>5. CASE pc \in {"block", "number", "data", "marker"}
  <2>1. ~first /\ pkt.ts = ts_current /\ pc \notin Left
    BY <1>1, <1>5 DEF FrameInvs, BaseInv, GrammarInv, Place, Left
  <2>2. pkt \in Packets
    BY <1>1 DEF FrameInvs, BaseInv, TypeInv, Held
  <2>3. OpenAt(pkt.img)
    BY <1>1, <2>1, <2>2, OpenFrameIs
  <2> QED
    BY <1>1, <1>2, <1>3, <2>3 DEF OpenAt
<1> QED
  BY <1>4, <1>5 DEF Writes

(* How the receiver goes through the blocks of the packet it holds.        *)
LEMMA WritingMoves ==
  ASSUME EmptyBlocks = {}, Received, ~Accept, ~DropLate, pc' \notin Left
  PROVE  /\ pc \notin Left
         /\ \/ pc \notin Writes /\ pc' \notin Writes
            \/ /\ pc \in Writes /\ pc' \in Writes /\ done' = done
               /\ pc' = "marker" => pc = "marker" \/ (pc = "block" /\ ~MoreBlocks)
            \/ /\ pc = "data" /\ pc' = "block" /\ done' = done + 1
               /\ piped' = Append(piped, Token("data", pkt, BlockNumber))
            \/ /\ pc = "marker" \/ (pc = "block" /\ ~MoreBlocks)
               /\ pc' = "test"
<1>1. CASE TestStop \/ EnterRecv \/ StopInFrame \/ RecvFailed \/ WriteBroken
  BY <1>1 DEF TestStop, EnterRecv, StopInFrame, RecvFailed, WriteBroken, Leave, Left, Writes
<1>2. CASE SigInt
  BY <1>2 DEF SigInt, Leave, Left, Writes, frameVars
<1>3. CASE EndPacket
  BY <1>3 DEF EndPacket, Left, Writes, frameVars
<1>4. CASE WriteEnd \/ WriteHeader \/ WriteBlock \/ WriteNumber
  BY <1>4 DEF WriteEnd, WriteHeader, WriteBlock, WriteNumber, FirstAfterEnd, Left, Writes,
              frameVars
<1>5. CASE WriteData
  BY <1>5 DEF WriteData, NoData, Write, Left, Writes
<1>6. CASE WriteMarker
  BY <1>6 DEF WriteMarker, Left, Writes
<1> QED
  BY <1>1, <1>2, <1>3, <1>4, <1>5, <1>6 DEF Received, Work

(* A packet whose blocks are all gone through is written.                  *)
LEMMA PacketWritten ==
  ASSUME TimestampsDiffer, OrderlyInvs, WrittenInv, pc \in Writes,
         pc = "marker" \/ (pc = "block" /\ ~MoreBlocks)
  PROVE  AllWritten(Latest)
<1>1. CASE pc = "marker"
  BY <1>1 DEF WrittenInv
<1>2. CASE pc = "block" /\ ~MoreBlocks
  <2>1. /\ Latest \in DOMAIN stream /\ pkt.n = stream[Latest].n
    BY HeldIsOpen
  <2>2. /\ stream[Latest].fb \in Nat /\ stream[Latest].n \in Nat /\ done \in Nat
    BY <2>1, StreamFields
    DEF OrderlyInvs, FrameInvs, BaseInv, NetworkInv, TypeInv, PipeTypeOK, ControlOK
  <2>3. stream[Latest].n <= done
    BY <1>2, <2>1, <2>2 DEF MoreBlocks
  <2>4. \A i \in 0 .. done - 1 : HasBlock(Now, stream[Latest].fb + i)
    BY DEF WrittenInv
  <2>5. ASSUME NEW b \in Blocks(Latest) PROVE HasBlock(Now, b)
    <3> DEFINE f == stream[Latest].fb
               i == b - f
    <3>1. i \in 0 .. done - 1 /\ f + i = b
      BY <2>2, <2>3 DEF Blocks
    <3>2. HasBlock(Now, f + i)
      BY <2>4, <3>1
    <3> HIDE DEF i, f
    <3> QED
      BY <3>1, <3>2
  <2> QED
    BY <2>5 DEF AllWritten, Now
<1> QED
  BY <1>1, <1>2

(* A step that handles no packet and delivers none.                        *)
LEMMA WrittenMoves ==
  ASSUME OrderlyInvs, AheadInv, WrittenInv, [Next]_vars,
         arrived' = arrived, arrivals' = arrivals,
         pc' \in Writes =>
           /\ pc \in Writes
           /\ \A v, f : v = Now /\ f = stream[Latest].fb =>
                \A i \in 0 .. done' - 1 : HasBlock(v, f + i)',
         pc' = "marker" => \A k : k = Latest => AllWritten(k)',
         pc \in Writes /\ pc' \notin Writes =>
           \/ \A k : k = Latest => AllWritten(k)'
           \/ pc' \in Left /\ piped' = piped /\ EndsBefore(Now),
         pc \in Left => pc' \in Left /\ piped' = piped
  PROVE  WrittenInv'
<1>1. Handled' = Handled
  BY DEF Handled
<1>2. ASSUME NEW k \in Handled PROVE k \in DOMAIN stream /\ arrivals # <<>>
  <2>1. PICK a \in 1 .. arrived : k = arrivals[a]
    BY DEF Handled
  <2> QED
    BY <2>1, ArrivedStays
<1>3. arrivals # <<>> => /\ Latest' = Latest /\ Now' = Now
                         /\ stream'[Latest] = stream[Latest]
  BY ArrivedStays, LatestStays DEF OrderlyInvs, FrameInvs, BaseInv
<1>4. pc \in Writes => arrivals # <<>>
  BY DEF OrderlyInvs, InTurn, Holding
<1>5. ASSUME pc' \in Writes
      PROVE  \A i \in 0 .. done' - 1 : HasBlock(Now, stream[Latest].fb + i)'
  <2>1. Latest' = Latest /\ Now' = Now /\ stream'[Latest'].fb = stream[Latest].fb
    BY <1>3, <1>4, <1>5
  <2> DEFINE v == Now
             f == stream[Latest].fb
  <2>2. \A i \in 0 .. done' - 1 : \E j \in DOMAIN piped' :
          piped'[j].kind = "data" /\ piped'[j].img = v /\ piped'[j].id = f + i
    BY <1>5 DEF HasBlock
  <2>3. v = Now' /\ f = stream'[Latest'].fb
    BY <2>1
  <2> HIDE DEF v, f
  <2> QED
    BY <2>2, <2>3 DEF HasBlock
<1>6. ASSUME pc' = "marker" PROVE AllWritten(Latest)'
  <2>1. Latest' = Latest
    BY <1>3, <1>4, <1>6 DEF Writes
  <2>2. \A k : k = Latest' => AllWritten(k)'
    BY <1>6, <2>1
  <2>3. \A k : k = Latest' =>
          \A i \in stream'[k].fb .. stream'[k].fb + stream'[k].n - 1 :
            \E j \in DOMAIN piped' :
              /\ piped'[j].kind = "data" /\ piped'[j].id = i
              /\ piped'[j].img = <<stream'[k].file, stream'[k].frame>>
    BY <2>2 DEF AllWritten, Blocks, FrameOf, HasBlock
  <2> QED
    BY <2>3 DEF AllWritten, Blocks, FrameOf, HasBlock
<1>7. ASSUME ~RolledOver', NEW k \in Handled
      PROVE  \/ AllWritten(k)'
             \/ k = Latest' /\ (pc' \in Writes \/ (pc' \in Left /\ EndsBefore(Now)'))
  <2>1. k \in DOMAIN stream /\ Latest' = Latest /\ Now' = Now
    BY <1>2, <1>3
  <2>2. \/ AllWritten(k)
        \/ k = Latest /\ (pc \in Writes \/ (pc \in Left /\ EndsBefore(Now)))
    BY <1>7, ArrivedStays DEF WrittenInv
  <2>3. EndsBefore(Now) /\ piped' = piped => EndsBefore(Now)'
    BY <2>1 DEF EndsBefore, EarlierFrame
  <2>4. AllWritten(k) => AllWritten(k)'
    BY <2>1, BlocksStay
  <2>5. CASE k = Latest /\ pc \in Writes
    BY <2>1, <2>3, <2>5
  <2>6. CASE k = Latest /\ pc \in Left /\ EndsBefore(Now)
    BY <2>1, <2>3, <2>6
  <2> QED
    BY <2>2, <2>4, <2>5, <2>6
<1>8. ~RolledOver' => \A k \in Handled' :
        \/ AllWritten(k)'
        \/ k = Latest' /\ (pc' \in Writes \/ (pc' \in Left /\ EndsBefore(Now)'))
  BY <1>1, <1>7
<1> QED
  BY <1>5, <1>6, <1>8 DEF WrittenInv

(* Steps of the network and the player write nothing.                      *)
LEMMA WrittenOthers ==
  ASSUME OrderlyInvs, AheadInv, WrittenInv, [Next]_vars, NetworkOnly \/ Played
  PROVE  WrittenInv'
<1>1. UNCHANGED receiverVars /\ arrivals' = arrivals
  BY DEF NetworkOnly, Played, Transmit, Lose, networkVars
<1>2. UNCHANGED <<pc, done, arrived, piped>>
  BY <1>1 DEF receiverVars, accountVars, frameVars
<1>3. ASSUME pc' \in Writes, NEW v, NEW f, v = Now, f = stream[Latest].fb
      PROVE  \A i \in 0 .. done' - 1 : HasBlock(v, f + i)'
  <2>1. \A i \in 0 .. done - 1 : HasBlock(v, f + i)
    BY <1>2, <1>3 DEF WrittenInv
  <2> QED
    BY <1>2, <2>1 DEF HasBlock
<1>4. pc' = "marker" => \A k : k = Latest => AllWritten(k)'
  <2> SUFFICES ASSUME pc = "marker", NEW k, k = Latest PROVE AllWritten(k)'
    BY <1>2
  <2>1. AllWritten(k) /\ arrivals # <<>>
    BY DEF WrittenInv, OrderlyInvs, InTurn, Holding, Writes
  <2>2. k \in DOMAIN stream
    BY <2>1, LatestFacts DEF OrderlyInvs, FrameInvs, BaseInv
  <2> QED
    BY <2>1, <2>2, BlocksStay
<1> QED
  BY <1>1, <1>2, <1>3, <1>4, WrittenMoves

(* A packet that arrives, one the receiver takes, one it drops.            *)
LEMMA WrittenDelivered ==
  ASSUME OrderlyInvs, AheadInv, WrittenInv, [Next]_vars, Delivered
  PROVE  WrittenInv'
<1>1. pc = "recv" /\ pc' = "got" /\ UNCHANGED accountVars
  BY DEF Delivered, Deliver
<1>2. arrived' = arrived /\ \A a \in 1 .. arrived : arrivals'[a] = arrivals[a]
  BY <1>1, ArrivedStays DEF accountVars
<1>3. Handled' = Handled /\ \A k \in Handled : k \in DOMAIN stream
  BY <1>2, ArrivedStays DEF Handled
<1>4. ~RolledOver' => \A k \in Handled : AllWritten(k)
  BY <1>1, ArrivedStays DEF WrittenInv, Writes, Left
<1>5. ~RolledOver' => \A k \in Handled' : AllWritten(k)'
  BY <1>3, <1>4, BlocksStay
<1> QED
  BY <1>1, <1>5 DEF WrittenInv, Writes
(* LHE_receiver.c:723-748: a packet taken is the one to be written now.    *)
LEMMA WrittenAccept ==
  ASSUME OrderlyInvs, AheadInv, WrittenInv, [Next]_vars, Received, Accept
  PROVE  WrittenInv'
<1>1. /\ pc = "got" /\ pc' \in Writes /\ pc' # "marker" /\ done' = 0
      /\ arrivals' = arrivals
  BY DEF Accept, Writes, Received, networkVars
<1>2. /\ arrived \in Nat /\ Len(arrivals) = arrived + 1 /\ arrived' = arrived + 1
      /\ Latest' = Latest
  BY <1>1, HandledNext DEF Latest
<1>3. ASSUME NEW k \in Handled'
      PROVE  k \in Handled \/ k = Latest
  <2>1. PICK a \in 1 .. arrived' : k = arrivals[a]
    BY <1>1, <1>3 DEF Handled
  <2>2. a \in 1 .. arrived \/ a = Len(arrivals)
    BY <1>2
  <2> QED
    BY <2>1, <2>2 DEF Handled, Latest
<1>4. ASSUME ~RolledOver', NEW k \in Handled PROVE AllWritten(k)'
  <2>1. k \in DOMAIN stream
    BY ArrivedStays DEF Handled
  <2>2. AllWritten(k)
    BY <1>1, <1>4, ArrivedStays DEF WrittenInv, Writes, Left
  <2> QED
    BY <2>1, <2>2, BlocksStay
<1>5. ~RolledOver' => \A k \in Handled' : AllWritten(k)' \/ (k = Latest' /\ pc' \in Writes)
  BY <1>1, <1>2, <1>3, <1>4
<1> QED
  BY <1>1, <1>5 DEF WrittenInv
(* LHE_receiver.c:723-728: no packet is dropped before the rollover.       *)
LEMMA WrittenDrop ==
  ASSUME InOrder, OrderlyInvs, AheadInv, WrittenInv, [Next]_vars, Received, DropLate
  PROVE  WrittenInv'
<1>1. pc' = "test"
  BY DEF DropLate
<1>2. RolledOver'
  BY NothingDropped, ArrivedStays
<1> QED
  BY <1>1, <1>2 DEF WrittenInv, Writes

(* The receiver leaves with nothing written but the blocks so far.         *)
LEMMA LeavesSilently ==
  ASSUME OrderlyInvs, [Next]_vars, Received
  PROVE  pc \notin Left /\ (pc' \in Left => piped' = piped)
<1>1. pc \notin Left
  BY DEF Received, Work, SigInt, Left, TestStop, EnterRecv, StopInFrame, RecvFailed,
         DropLate, Accept, WriteEnd, WriteHeader, WriteBlock, WriteNumber,
         WriteData, EndPacket, WriteMarker, WriteBroken, Writing, Writes
<1>2. \A t : Puts(t) => pc' \notin Left
  BY DEF Puts, WriteEnd, WriteHeader, WriteBlock, WriteNumber, WriteData, WriteMarker,
         FirstAfterEnd, Left
<1> QED
  BY <1>1, <1>2, PipedStep DEF OrderlyInvs, FrameInvs

(* LHE_receiver.c:744-829: the writes of a packet.                         *)
LEMMA WrittenReceived ==
  ASSUME EmptyBlocks = {}, TimestampsDiffer, OrderlyInvs, AheadInv, WrittenInv,
         [Next]_vars, Received, ~Accept, ~DropLate
  PROVE  WrittenInv'
<1>1. arrived' = arrived /\ arrivals' = arrivals
  BY AccountMoves DEF OrderlyInvs, accountVars, Received, networkVars
<1>2. pc \notin Left /\ (pc' \in Left => piped' = piped)
  BY LeavesSilently
<1>3. pc \in Writes => /\ Latest \in DOMAIN stream /\ pkt.img = Now
                       /\ pkt.fb = stream[Latest].fb /\ EndsBefore(Now)
  BY HeldIsOpen
<1>4. CASE pc' \in Left
  <2>1. pc' \notin Writes
    BY <1>4 DEF Left, Writes
  <2>2. pc' # "marker"
    BY <2>1 DEF Writes
  <2> QED
    BY <1>1, <1>2, <1>3, <1>4, <2>1, <2>2, WrittenMoves
<1>5. ASSUME pc \in Writes, pc = "marker" \/ (pc = "block" /\ ~MoreBlocks),
             NEW k, k = Latest
      PROVE  AllWritten(k)'
  <2>1. AllWritten(k)
    BY <1>5, PacketWritten
  <2> QED
    BY <1>3, <1>5, <2>1, BlocksStay
<1>6. ASSUME NEW v, NEW f, v = Now, f = stream[Latest].fb, pc \in Writes,
             NEW i \in 0 .. done - 1
      PROVE  HasBlock(v, f + i)'
  <2>1. HasBlock(v, f + i)
    BY <1>6 DEF WrittenInv
  <2> QED
    BY <2>1, BlocksStay
<1>7. CASE pc \notin Writes /\ pc' \notin Writes /\ pc' \notin Left
  <2>1. pc' # "marker"
    BY <1>7 DEF Writes
  <2> QED
    BY <1>1, <1>2, <1>7, <2>1, WrittenMoves
<1>8. CASE /\ pc \in Writes /\ pc' \in Writes /\ done' = done
           /\ pc' = "marker" => pc = "marker" \/ (pc = "block" /\ ~MoreBlocks)
  <2>1. \A v, f : v = Now /\ f = stream[Latest].fb =>
          \A i \in 0 .. done' - 1 : HasBlock(v, f + i)'
    BY <1>6, <1>8
  <2>2. pc' = "marker" => \A k : k = Latest => AllWritten(k)'
    BY <1>5, <1>8
  <2> QED
    BY <1>1, <1>2, <1>8, <2>1, <2>2, WrittenMoves
<1>9. CASE /\ pc = "data" /\ pc' = "block" /\ done' = done + 1
           /\ piped' = Append(piped, Token("data", pkt, BlockNumber))
  <2>1. pc \in Writes /\ pc' \in Writes /\ pc' # "marker"
    BY <1>9 DEF Writes
  <2>2. /\ piped \in Seq(Tokens) /\ done \in Nat
    BY DEF OrderlyInvs, FrameInvs, BaseInv, TypeInv, PipeTypeOK, PipeOK, ControlOK
  <2>3. ASSUME NEW v, NEW f, NEW i, v = Now, f = stream[Latest].fb, i = done
        PROVE  HasBlock(v, f + i)'
    <3> DEFINE t == Token("data", pkt, BlockNumber)
    <3>1. t.kind = "data" /\ t.img = v /\ t.id = f + i
      BY <1>3, <2>1, <2>3 DEF Token, BlockNumber
    <3>2. piped' = Append(piped, t)
      BY <1>9
    <3> HIDE DEF t
    <3>3. Len(piped) + 1 \in DOMAIN piped' /\ piped'[Len(piped) + 1] = t
      BY <2>2, <3>2
    <3> QED
      BY <3>1, <3>3 DEF HasBlock
  <2>4. \A v, f : v = Now /\ f = stream[Latest].fb =>
          \A i \in 0 .. done' - 1 : HasBlock(v, f + i)'
    <3> SUFFICES ASSUME NEW v, NEW f, v = Now, f = stream[Latest].fb,
                        NEW i \in 0 .. done' - 1
                 PROVE  HasBlock(v, f + i)'
      OBVIOUS
    <3>1. i \in 0 .. done - 1 \/ i = done
      BY <1>9, <2>2
    <3> QED
      BY <1>6, <2>1, <2>3, <3>1
  <2> QED
    BY <1>1, <1>2, <2>1, <2>4, WrittenMoves
<1>10. CASE pc' = "test" /\ (pc = "marker" \/ (pc = "block" /\ ~MoreBlocks))
  <2>1. pc \in Writes /\ pc' \notin Writes /\ pc' # "marker"
    BY <1>10 DEF Writes
  <2>2. \A k : k = Latest => AllWritten(k)'
    BY <1>5, <1>10, <2>1
  <2> QED
    BY <1>1, <1>2, <2>1, <2>2, WrittenMoves
<1> QED
  BY <1>4, <1>7, <1>8, <1>9, <1>10, WritingMoves

(* Nothing was sent, has arrived or is written.                            *)
LEMMA WrittenStart == Init => CoverInv /\ AheadInv /\ WrittenInv
<1> SUFFICES ASSUME Init PROVE CoverInv /\ AheadInv /\ WrittenInv
  OBVIOUS
<1>1. /\ stream = <<>> /\ arrivals = <<>> /\ arrived = 0 /\ current_seqnum = 0
      /\ pc = "test"
  BY DEF Init, ReceiverInit, AccountInit, NetworkInit, Source!StreamInit
<1>2. Handled = {}
  BY <1>1 DEF Handled
<1> QED
  BY <1>1, <1>2 DEF CoverInv, AheadInv, WrittenInv, Writes, Left
(* Every packet handled is written, or being written.                      *)
LEMMA WrittenKept ==
  ASSUME EmptyBlocks = {}, TimestampsDiffer, InOrder, OrderlyInvs, AheadInv,
         WrittenInv, [Next]_vars
  PROVE  WrittenInv'
  BY StepParts, WrittenOthers, WrittenDelivered, WrittenAccept, WrittenDrop,
     WrittenReceived

-----------------------------------------------------------------------------
(* What the player makes of it                                             *)

(* The blocks of the frame being read that were taken were given to a      *)
(* thread, but for the one that waits for its slot.                        *)
CollectedInv ==
  ppc \in Within => \A j \in DOMAIN Taken :
    Taken[j].kind = "data" /\ Taken[j].img = header.img =>
      Taken[j].id \in asked \/ (ppc = "slot" /\ Taken[j].id = block.id)

(* The four reads.                                                         *)
LEMMA CollectedReads ==
  ASSUME OrderlyInvs, ReadInv', CollectedInv, Played, Take,
         Taken' = Append(Taken, Head(fifo))
  PROVE  CollectedInv'
<1> DEFINE t == Head(fifo)
<1>1. fifo # <<>> /\ ppc' # "misread"
  BY DEF Take, IsEmpty, ReadInv
<1>2. t \in Tokens /\ Taken \in Seq(Tokens)
  BY <1>1, HeadFollows, TakenFacts DEF OrderlyInvs, FrameInvs
<1>3. /\ DOMAIN Taken' = 1 .. Len(Taken) + 1 /\ DOMAIN Taken = 1 .. Len(Taken)
      /\ Len(Taken) \in Nat /\ Taken'[Len(Taken) + 1] = t
      /\ \A j \in DOMAIN Taken : Taken'[j] = Taken[j]
  BY <1>2
<1>4. Prev' = t
  BY <1>2, PrevTaken DEF OrderlyInvs, FrameInvs
<1>5. CASE ReadHeader
  <2>1. t.kind = "header" /\ header' = t
    BY <1>1, <1>5 DEF ReadHeader, Misread, PlayerLeave
  <2>2. t.img \in Frames /\ \A v : FromPipe(v) => EarlierFrame(v, t.img)
    BY <1>1, <2>1, HeaderIsLater
  <2>3. ~EarlierFrame(t.img, t.img)
    BY <2>2, FrameOrder DEF OrderlyInvs, FrameInvs, BaseInv, NetworkInv
  <2>4. ASSUME NEW j \in DOMAIN Taken', Taken'[j].kind = "data"
        PROVE  Taken'[j].img # t.img
    <3>1. j \in DOMAIN Taken /\ Taken[j].kind = "data" /\ Taken'[j] = Taken[j]
      <4>1. j # Len(Taken) + 1
        BY <1>3, <2>1, <2>4
      <4> QED
        BY <1>3, <2>4, <4>1
    <3>2. \A v : v = Taken[j].img => FromPipe(v)
      BY <3>1 DEF FromPipe
    <3> QED
      BY <2>2, <2>3, <3>1, <3>2
  <2> QED
    BY <2>1, <2>4 DEF CollectedInv
<1>6. CASE ReadBlock \/ ReadNumber
  <2>1. /\ t.kind # "data" /\ ppc \in Within /\ ppc # "slot"
        /\ UNCHANGED <<header, asked>>
    BY <1>1, <1>6 DEF ReadBlock, ReadNumber, Misread, PlayerLeave, Within
  <2> HIDE DEF t
  <2> QED
    BY <1>3, <2>1 DEF CollectedInv
<1>7. CASE ReadData
  <2>1. /\ ppc \in Within /\ ppc # "slot" /\ ppc' = "slot"
        /\ UNCHANGED <<header, asked>>
    BY <1>1, <1>7 DEF ReadData, Misread, PlayerLeave, Within
  <2>2. block'.id = t.id
    BY <1>4, <2>1 DEF ReadInv
  <2> HIDE DEF t
  <2> QED
    BY <1>3, <2>1, <2>2 DEF CollectedInv
<1> QED
  BY <1>5, <1>6, <1>7, TakingSteps DEF OrderlyInvs, FrameInvs

(* newmain.cc:729-754: a block taken is given to a thread.                 *)
LEMMA CollectedKept ==
  ASSUME EmptyBlocks = {}, TimestampsDiffer, InOrder, OrderlyInvs, CollectedInv,
         [Next]_vars
  PROVE  CollectedInv'
<1>1. BaseInv /\ FifoInv /\ ReadInv'
  BY OrderlyKept DEF OrderlyInvs, FrameInvs
<1>2. CASE UNCHANGED playerVars /\ Taken' = Taken
  BY <1>2 DEF CollectedInv, playerVars, videoVars
<1>3. CASE Played /\ ~Take /\ Taken' = Taken
  <2>1. CASE TestPlayerStop \/ ReadEof \/ JoinAll \/ PlayerSigInt \/ Pool
    <3>1. UNCHANGED <<header, block, asked>>
      BY <2>1 DEF TestPlayerStop, ReadEof, JoinAll, PlayerSigInt, Pool, DecodeBlock,
                  videoVars
    <3>2. ppc' \in Within => ppc \in Within /\ (ppc = "slot" => ppc' = "slot")
      BY <2>1 DEF TestPlayerStop, ReadEof, JoinAll, PlayerSigInt, Pool, DecodeBlock,
                  PlayerLeave, Within, Reads
    <3> QED
      BY <1>3, <3>1, <3>2 DEF CollectedInv
  <2>2. CASE LaunchThread
    <3>1. ppc \in Within /\ UNCHANGED <<header, block>>
      BY <2>2 DEF LaunchThread, Within
    <3>2. ppc' \in Within => asked' = asked \cup {block.id}
      BY <2>2 DEF LaunchThread, PlayerLeave, Within
    <3> QED
      BY <1>3, <3>1, <3>2 DEF CollectedInv
  <2>3. CASE Show
    BY <2>3 DEF Show, CollectedInv, Within
  <2> QED
    BY <1>3, <2>1, <2>2, <2>3
    DEF Played, PlayerWork, ReadHeader, ReadBlock, ReadNumber, ReadData
<1> QED
  BY <1>1, <1>2, <1>3, TakenStep, CollectedReads

(* A frame was shown after its end was taken, with all blocks of it that   *)
(* came before.                                                            *)
ClosedAt(f, h, e) ==
  /\ h \in DOMAIN Taken /\ e \in DOMAIN Taken /\ h < e
  /\ Taken[h].kind # "end" /\ Taken[h].img = f.img /\ Taken[e].kind = "end"
  /\ \A j \in DOMAIN Taken :
       j <= e /\ Taken[j].kind = "data" /\ Taken[j].img = f.img => Taken[j].id \in f.asked
ClosedInv == \A s \in DOMAIN shown : \E h, e \in Nat : ClosedAt(shown[s], h, e)

(* What the player has taken grows behind that.                            *)
LEMMA ClosedStays ==
  ASSUME BaseInv, FifoInv,
         Taken' = Taken \/ (fifo # <<>> /\ Taken' = Append(Taken, Head(fifo)))
  PROVE  \A f : \A h, e \in Nat : ClosedAt(f, h, e) => ClosedAt(f, h, e)'
<1>1. CASE Taken' = Taken
  BY <1>1 DEF ClosedAt
<1>2. CASE fifo # <<>> /\ Taken' = Append(Taken, Head(fifo))
  <2>1. Head(fifo) \in Tokens /\ Taken \in Seq(Tokens)
    BY <1>2, HeadFollows, TakenFacts
  <2>2. /\ DOMAIN Taken' = 1 .. Len(Taken) + 1 /\ DOMAIN Taken = 1 .. Len(Taken)
        /\ Len(Taken) \in Nat /\ \A j \in DOMAIN Taken : Taken'[j] = Taken[j]
    BY <1>2, <2>1
  <2>3. \A e \in DOMAIN Taken, j \in DOMAIN Taken' : j <= e => j \in DOMAIN Taken
    BY <2>2
  <2> QED
    BY <2>2, <2>3 DEF ClosedAt
<1> QED
  BY <1>1, <1>2
(* newmain.cc:689-701: a frame is shown when its end was taken.            *)
LEMMA ClosedKept ==
  ASSUME OrderlyInvs, RowsInv, CollectedInv, ClosedInv, [Next]_vars
  PROVE  ClosedInv'
<1>1. BaseInv /\ FifoInv /\ ReadInv
  BY DEF OrderlyInvs, FrameInvs
<1>2. Taken' = Taken \/ (fifo # <<>> /\ Taken' = Append(Taken, Head(fifo)))
  BY <1>1, TakenStep DEF Take, IsEmpty
<1>3. \A f : \A h, e \in Nat : ClosedAt(f, h, e) => ClosedAt(f, h, e)'
  BY <1>1, <1>2, ClosedStays
<1>4. CASE shown' = shown
  <2>1. \A s \in DOMAIN shown' : \A f : f = shown'[s] =>
          \E h, e \in Nat : ClosedAt(f, h, e)'
    BY <1>3, <1>4 DEF ClosedInv
  <2> QED
    BY <2>1 DEF ClosedInv, ClosedAt
<1>5. CASE Show /\ Played /\ shown' = Append(shown, NewPicture)
  <2>1. ppc = "join" /\ ppc \in Within /\ Prev.kind = "end"
    BY <1>1, <1>5 DEF Show, Within, ReadInv
  <2>2. Taken \in Seq(Tokens)
    BY <1>1, TakenFacts
  <2>3. PICK h \in DOMAIN Taken : Taken[h].kind # "end" /\ Taken[h].img = header.img
    BY <2>1 DEF RowsInv, FromPipe
  <2> DEFINE e == Len(Taken)
  <2>4. /\ e \in Nat /\ e \in DOMAIN Taken /\ Taken[e] = Prev /\ h \in Nat /\ h <= e
    BY <2>2, <2>3 DEF Prev
  <2>5. h < e /\ Taken[e].kind = "end"
    <3> HIDE DEF e
    <3> QED
      BY <2>1, <2>3, <2>4
  <2>6. \A j \in DOMAIN Taken :
          Taken[j].kind = "data" /\ Taken[j].img = header.img => Taken[j].id \in asked
    BY <2>1 DEF CollectedInv
  <2> HIDE DEF e
  <2>7. \A f : f = NewPicture => ClosedAt(f, h, e)
    BY <2>3, <2>4, <2>5, <2>6 DEF ClosedAt, NewPicture
  <2>8. NewPicture \in Picture /\ shown \in Seq(Picture)
    BY <1>1, <1>5, PictureShown DEF OrderlyInvs, FrameInvs, PictureInv
  <2>9. \A s \in DOMAIN shown' : shown'[s] = NewPicture
                                 \/ (s \in DOMAIN shown /\ shown'[s] = shown[s])
    BY <1>5, <2>8
  <2>10. \A s \in DOMAIN shown' : \A f : f = shown'[s] =>
           \E g, d \in Nat : ClosedAt(f, g, d)'
    BY <1>3, <2>4, <2>7, <2>9 DEF ClosedInv
  <2> QED
    BY <2>10 DEF ClosedInv, ClosedAt
<1> QED
  BY <1>1, <1>4, <1>5, ShownStep DEF NewPicture
(* No frame was shown and nothing was taken.                               *)
LEMMA ClosedStart == Init => CollectedInv /\ ClosedInv
  BY DEF Init, PlayerInit, CollectedInv, ClosedInv, Within

(* Every block of a frame all packets of which were handled is written, or *)
(* the frame is not closed.                                                *)
LEMMA IntactIsWritten ==
  ASSUME TimestampsDiffer, OrderlyInvs, CoverInv, WrittenInv, ~RolledOver,
         NEW v \in Frames, Intact(v), NEW i \in 0 .. SizeOf(v) - 1
  PROVE  HasBlock(v, i) \/ EndsBefore(v)
<1>1. StreamInv
  BY DEF OrderlyInvs, FrameInvs, BaseInv, NetworkInv
<1>2. PICK k \in DOMAIN stream : FrameOf(k) = v /\ stream[k].m = 1
  BY DEF Intact, Sent, PacketsOf, FrameOf
<1>3. stream[k].fb + stream[k].n = SizeOf(v)
  <2>1. Fits(stream[k])
    BY <1>1 DEF StreamInv
  <2>2. SizeOf(v) = Size(stream[k])
    BY <1>1, <1>2, FrameOfPacket DEF FrameOf
  <2> QED
    BY <1>2, <2>1, <2>2 DEF Fits
<1>4. PICK j \in DOMAIN stream : OneFrame(stream[j], stream[k]) /\ i \in Blocks(j)
  <2>1. stream[k].fb \in Nat /\ stream[k].n \in Nat
    BY <1>1, StreamFields
  <2>2. i \in 0 .. stream[k].fb + stream[k].n - 1
    BY <1>3, <2>1
  <2> QED
    BY <2>2 DEF CoverInv
<1>5. FrameOf(j) = v
  BY <1>2, <1>4 DEF FrameOf, OneFrame
<1>6. j \in Handled
  BY <1>5 DEF Intact, PacketsOf, FrameOf
<1>7. CASE AllWritten(j)
  BY <1>4, <1>5, <1>7 DEF AllWritten
<1>8. CASE j = Latest /\ pc \in Writes
  BY <1>5, <1>8, HeldIsOpen DEF Now
<1>9. CASE j = Latest /\ EndsBefore(Now)
  BY <1>5, <1>9 DEF Now
<1> QED
  BY <1>6, <1>7, <1>8, <1>9 DEF WrittenInv

(* A block written of a frame that was shown was taken before its end, and *)
(* so is in it.                                                            *)
LEMMA WrittenIsShown ==
  ASSUME OrderlyInvs, ClosedInv, NEW s \in DOMAIN shown, NEW i,
         HasBlock(shown[s].img, i) \/ EndsBefore(shown[s].img)
  PROVE  i \in shown[s].asked
<1> DEFINE v == shown[s].img
<1>1. StreamInv /\ BaseInv /\ FifoInv
  BY DEF OrderlyInvs, FrameInvs, BaseInv, NetworkInv
<1>2. v \in Frames /\ ~EarlierFrame(v, v)
  <2>1. v \in Frames
    BY DEF OrderlyInvs, FrameInvs, PictureInv, Decoded
  <2> HIDE DEF v
  <2> QED
    BY <1>1, <2>1, FrameOrder
<1>3. PICK h, e \in Nat : ClosedAt(shown[s], h, e)
  BY DEF ClosedInv
<1>4. /\ h \in DOMAIN Taken /\ e \in DOMAIN Taken /\ h < e
      /\ Taken[h].kind # "end" /\ Taken[h].img = v /\ Taken[e].kind = "end"
  BY <1>3 DEF ClosedAt
<1>5. /\ DOMAIN Taken = 1 .. Eaten /\ Eaten \in Nat /\ DOMAIN piped = 1 .. Len(piped)
      /\ \A j \in 1 .. Eaten : Taken[j] = piped[j] /\ j \in DOMAIN piped
      /\ piped \in Seq(Tokens)
  BY <1>1, TakenFacts
<1>6. /\ h \in DOMAIN piped /\ e \in DOMAIN piped
      /\ piped[h].kind # "end" /\ piped[h].img = v /\ piped[e].kind = "end"
  BY <1>4, <1>5
<1>7. ~EndsBefore(v)
  BY <1>2, <1>4, <1>6 DEF EndsBefore
<1>8. PICK j \in DOMAIN piped :
        piped[j].kind = "data" /\ piped[j].img = v /\ piped[j].id = i
  BY <1>7 DEF HasBlock
<1>9. CASE j <= e
  <2>1. j \in DOMAIN Taken /\ Taken[j] = piped[j]
    BY <1>4, <1>5, <1>9
  <2> QED
    BY <1>3, <1>8, <1>9, <2>1 DEF ClosedAt
<1>10. CASE e < j
  <2>1. PipeGrammar /\ TokenInv /\ Ordered
    BY DEF OrderlyInvs, FrameInvs, BaseInv, GrammarInv, InTurn
  <2>2. EarlierFrame(piped[h].img, piped[j].img)
    BY <1>1, <1>4, <1>5, <1>6, <1>8, <1>10, <2>1, AfterEnd
  <2> QED
    BY <1>2, <1>6, <1>8, <2>2
<1> QED
  BY <1>5, <1>9, <1>10

(* All that is known of a frame whose packets all arrived.                 *)
IntactInvs == /\ OrderlyInvs /\ RowsInv /\ CoverInv /\ AheadInv /\ WrittenInv
              /\ CollectedInv /\ ClosedInv

(* A frame all packets of which were received is shown whole, also when    *)
(* the marker of the frame before it was lost, as long as packets do not   *)
(* overtake each other and the sequence number does not roll over          *)
(* (LHE_receiver.c:723-829, newmain.cc:622-763).                           *)
THEOREM IntactAlwaysShownWhole ==
  ASSUME EmptyBlocks = {}, TimestampsDiffer, InOrder
  PROVE  Spec => []IntactShownWhole
<1>1. Init => IntactInvs
  BY OrderlyStart, RowsStart, WrittenStart, ClosedStart DEF IntactInvs
<1>2. IntactInvs /\ [Next]_vars => IntactInvs'
  <2> SUFFICES ASSUME IntactInvs, [Next]_vars PROVE IntactInvs'
    OBVIOUS
  <2>1. NetworkStep /\ StreamInv
    BY StepsOfParts DEF IntactInvs, OrderlyInvs, FrameInvs, BaseInv, NetworkInv
  <2>2. CoverInv'
    BY <2>1, NetworkSends, CoverKept DEF IntactInvs
  <2> QED
    BY <2>2, OrderlyKept, RowsKept, AheadKept, WrittenKept, CollectedKept, ClosedKept
    DEF IntactInvs
<1>3. IntactInvs => IntactShownWhole
  <2> SUFFICES ASSUME IntactInvs, ~RolledOver, NEW s \in DOMAIN shown,
                      Intact(shown[s].img)
               PROVE  shown[s].rows = WholeFrame(shown[s].img)
    BY DEF IntactShownWhole
  <2>1. Decoded(shown[s])
    BY DEF IntactInvs, OrderlyInvs, FrameInvs, PictureInv
  <2>2. shown[s].img \in Frames
        /\ shown[s].rows \in [0 .. SizeOf(shown[s].img) - 1 -> Row]
    BY <2>1 DEF Decoded
  <2>3. ASSUME NEW i \in 0 .. SizeOf(shown[s].img) - 1
        PROVE  shown[s].rows[i] = [img |-> shown[s].img, id |-> i]
    <3>1. HasBlock(shown[s].img, i) \/ EndsBefore(shown[s].img)
      BY <2>2, IntactIsWritten DEF IntactInvs
    <3>2. i \in shown[s].asked
      BY <3>1, WrittenIsShown DEF IntactInvs
    <3> QED
      BY <2>1, <3>2 DEF Decoded
  <2> QED
    BY <2>2, <2>3 DEF WholeFrame
<1> QED
  BY <1>1, <1>2, <1>3, PTL DEF Spec
=============================================================================
