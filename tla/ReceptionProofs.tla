-------------------------- MODULE ReceptionProofs --------------------------
(***************************************************************************)
(* What both receivers rest on: the sequence-number bookkeeping they share,*)
(* for every sequence of packets, and the stream of packets the network    *)
(* delivers, for every network and, further down, for one that keeps the   *)
(* order of the packets.                                                   *)
(***************************************************************************)
EXTENDS RtpAccounting, Network, FiniteSetTheorems, TLAPS

(* The two constants of the arithmetic.  They are given by their bounds:   *)
(* the provers enumerate an interval whose ends they know.                 *)
LEMMA SeqMax == SEQ_MAX \in Nat /\ SEQ_MAX < 65536 /\ 65534 < SEQ_MAX
  BY DEF SEQ_MAX
(* Sequence numbers have 16 bits.                                          *)
LEMMA SeqMod == SEQ_MOD = 65536
  BY DEF SEQ_MAX, SEQ_MOD

(* A packet as the code reads it: field by field.                          *)
LEMMA PacketFields ==
  ASSUME NEW p \in Packets
  PROVE  /\ p.seq \in 0 .. SEQ_MAX /\ p.ts \in 0 .. TS_MOD - 1
         /\ p.ssrc \in Sessions /\ p.m \in {0, 1} /\ p.img \in Images
         /\ p.im \in 1 .. IMAGE_BSIZE_MAX /\ p.fb \in 0 .. SEQ_MAX /\ p.n \in Nat
         /\ p.fb + p.n <= IMAGE_BSIZE_MAX
<1>1. p \in [seq : 0 .. SEQ_MAX, ts : 0 .. TS_MOD - 1, ssrc : Sessions,
             m : {0, 1}, img : Images, im : 1 .. IMAGE_BSIZE_MAX,
             fb : 0 .. SEQ_MAX, n : 0 .. 63] /\ p.fb + p.n <= IMAGE_BSIZE_MAX
  BY DEF Packets
<1>2. 0 .. 63 \subseteq Nat
  OBVIOUS
<1> QED
  BY <1>1, <1>2

(* The number of packets taken for lost is never negative; it is less than *)
(* a full turn, and at most half a turn when it lies over the rollover:    *)
(* the shorter way round is taken (LHE_receiver.c:378).                    *)
LEMMA SkippedBounds ==
  ASSUME NEW next \in 0 .. SEQ_MAX, NEW cur \in 0 .. SEQ_MAX
  PROVE  /\ Skipped(next, cur) \in 0 .. SEQ_MAX
         /\ cur < next => Skipped(next, cur) <= 32768
  BY SeqMax DEF Skipped

(* A packet that skips others ends where it would have, had the skipped    *)
(* ones arrived; any other packet moves the expected number by one.        *)
LEMMA SkippedLands ==
  ASSUME NEW next \in 0 .. SEQ_MAX, NEW cur \in 0 .. SEQ_MAX
  PROVE  After(IF Skipped(next, cur) > 0 THEN cur ELSE next)
           = (next + Skipped(next, cur) + 1) % SEQ_MOD
  BY SeqMax, SeqMod DEF Skipped, After

(* The number after n (LHE_receiver.c:385) is again a sequence number.     *)
LEMMA AfterType == \A n \in 0 .. SEQ_MAX : After(n) \in 0 .. SEQ_MAX
  BY SeqMax, SeqMod DEF After

(* The initial values of the bookkeeping (LHE_receiver.c:208-226).         *)
LEMMA AccountInitType == AccountInit => AccountTypeOK /\ LossAccounting
  BY SeqMax DEF AccountInit, AccountTypeOK, LossAccounting

(* One packet keeps the bookkeeping within its types.                      *)
LEMMA AccountKeepsType ==
  ASSUME AccountTypeOK, NEW seq \in 0 .. SEQ_MAX, NEW ssrc \in Sessions,
         Account(seq, ssrc)
  PROVE  AccountTypeOK'
<1> DEFINE session  == IF startup THEN ssrc ELSE current_session
           expected == IF startup \/ ssrc # session THEN seq ELSE next_seqnum
           skipped  == Skipped(expected, seq)
           from     == IF skipped > 0 THEN seq ELSE expected
<1>1. session \in Sessions /\ expected \in 0 .. SEQ_MAX
  BY DEF AccountTypeOK
<1>2. skipped \in Nat
  <2> HIDE DEF expected
  <2> QED
    BY <1>1, SkippedBounds
<1>3. After(from) \in 0 .. SEQ_MAX
  BY <1>1, AfterType
<1>4. /\ startup' = FALSE
      /\ current_session' = session
      /\ current_seqnum' = seq
      /\ packets_lost' = packets_lost + skipped
      /\ next_seqnum' = After(from)
      /\ base' = IF startup THEN seq ELSE base
      /\ arrived' = arrived + 1
  BY DEF Account
<1> HIDE DEF session, expected, skipped, from
<1>5. startup' \in BOOLEAN /\ current_session' \in Sessions
  BY <1>1, <1>4
<1>6. /\ current_seqnum' \in 0 .. SEQ_MAX /\ next_seqnum' \in 0 .. SEQ_MAX
      /\ base' \in 0 .. SEQ_MAX /\ packets_lost' \in Nat /\ arrived' \in Nat
  BY <1>2, <1>3, <1>4 DEF AccountTypeOK
<1> QED
  BY <1>5, <1>6 DEF AccountTypeOK

(* The law that ties losses, arrivals and the number expected together.    *)
Counted == (base + arrived + packets_lost) % SEQ_MOD = next_seqnum
(* A packet of the session that began keeps it (LHE_receiver.c:373-386).   *)
LEMMA AccountKeepsCount ==
  ASSUME AccountTypeOK, NEW seq \in 0 .. SEQ_MAX, NEW ssrc \in Sessions,
         Account(seq, ssrc),
         IF startup THEN arrived = 0 /\ packets_lost = 0
                    ELSE ssrc = current_session /\ Counted
  PROVE  Counted'
<1> DEFINE expected == IF startup THEN seq ELSE next_seqnum
           skipped  == Skipped(expected, seq)
<1>1. expected \in 0 .. SEQ_MAX
  BY DEF AccountTypeOK
<1>2. /\ packets_lost' = packets_lost + skipped
      /\ next_seqnum' = After(IF skipped > 0 THEN seq ELSE expected)
      /\ base' = IF startup THEN seq ELSE base
      /\ arrived' = arrived + 1
  BY DEF Account
<1>3. next_seqnum' = (expected + skipped + 1) % SEQ_MOD
  BY <1>1, <1>2, SkippedLands
<1>4. skipped \in Nat
  BY <1>1, SkippedBounds
<1>5. CASE startup
  <2>1. expected = seq /\ arrived = 0 /\ packets_lost = 0
    BY <1>5
  <2> HIDE DEF expected, skipped
  <2> QED
    BY <1>2, <1>3, <1>4, <1>5, <2>1, SeqMax, SeqMod DEF AccountTypeOK, Counted
<1>6. CASE ~startup
  <2>1. (base + arrived + packets_lost) % SEQ_MOD = next_seqnum
    BY <1>6 DEF Counted
  <2>2. expected = next_seqnum
    BY <1>6
  <2> HIDE DEF expected, skipped
  <2> QED
    BY <1>2, <1>3, <1>4, <1>6, <2>1, <2>2, SeqMax, SeqMod DEF AccountTypeOK, Counted
<1> QED
  BY <1>5, <1>6

(* So does every packet when there is but one session.                     *)
LEMMA AccountKeepsLoss ==
  ASSUME AccountTypeOK, LossAccounting, startup => arrived = 0 /\ packets_lost = 0,
         NEW seq \in 0 .. SEQ_MAX, NEW ssrc \in Sessions, Account(seq, ssrc)
  PROVE  LossAccounting'
<1> SUFFICES ASSUME \A s, t \in Sessions : s = t PROVE Counted'
  BY DEF LossAccounting, Counted
<1>1. ssrc = current_session
  BY DEF AccountTypeOK
<1>2. ~startup => Counted
  BY DEF LossAccounting, Counted
<1> QED
  BY <1>1, <1>2, AccountKeepsCount

-----------------------------------------------------------------------------
(* The bookkeeping by itself, fed with arbitrary packets                   *)

(* Before the first packet nothing has been counted.                       *)
NothingYet == startup => arrived = 0 /\ packets_lost = 0
AccountInv == AccountTypeOK /\ LossAccounting /\ NothingYet

(* The losses counted, by the lines LHE_receiver2 and LHE_receiver3 share, *)
(* obey LossAccounting whatever packets arrive, in whatever order.         *)
THEOREM AccountLosses == AccountSpec => [](AccountTypeOK /\ LossAccounting)
<1>1. AccountInit => AccountInv
  BY AccountInitType DEF AccountInit, AccountInv, NothingYet
<1>2. AccountInv /\ [AccountNext]_accountVars => AccountInv'
  <2>1. CASE UNCHANGED accountVars
    BY <2>1 DEF accountVars, AccountInv, AccountTypeOK, LossAccounting, NothingYet
  <2>2. ASSUME AccountInv, AccountNext PROVE AccountInv'
    <3>1. PICK seq \in 0 .. SEQ_MAX, ssrc \in Sessions : Account(seq, ssrc)
      BY <2>2 DEF AccountNext
    <3>2. AccountTypeOK'
      BY <2>2, <3>1, AccountKeepsType DEF AccountInv
    <3>3. LossAccounting'
      BY <2>2, <3>1, AccountKeepsLoss DEF AccountInv, NothingYet
    <3>4. NothingYet'
      BY <3>1 DEF Account, NothingYet
    <3> QED
      BY <3>2, <3>3, <3>4 DEF AccountInv
  <2> QED
    BY <2>1, <2>2
<1>3. AccountInv => AccountTypeOK /\ LossAccounting
  BY DEF AccountInv
<1> QED
  BY <1>1, <1>2, <1>3, PTL DEF AccountSpec

-----------------------------------------------------------------------------
(* The stream of the transmitter, as the network carries it                *)

StreamPackets == [seq : 0 .. SEQ_MAX, ts : 0 .. TS_MOD - 1, m : {0, 1},
                  file : Nat, frame : Nat, fb : Nat, n : Nat]

(* A packet is a run of blocks of a frame of the video, and says so.       *)
Size(p) == sizes[p.file][p.frame]
Fits(p) ==
  /\ p.file \in DOMAIN sizes /\ p.frame \in DOMAIN sizes[p.file]
  /\ p.n \in 1 .. MaxBlocks /\ p.fb + p.n <= Size(p)
  /\ p.ts = Source!TsOf(p.file, p.frame)
  /\ (p.m = 1) <=> (p.fb + p.n = Size(p))

(* How a packet continues the one before it.                               *)
OneFrame(p, q) == p.file = q.file /\ p.frame = q.frame
Continues(p, q) ==
  \/ p.m = 0 /\ OneFrame(p, q) /\ q.fb = p.fb + p.n
  \/ p.m = 1 /\ q.file = p.file /\ q.frame = p.frame + 1 /\ q.fb = 0
  \/ q.file = p.file + 1 /\ q.frame = 1 /\ q.fb = 0

(* How any packet relates to any earlier one.                              *)
LaterFrame(p, q) == p.file < q.file \/ (p.file = q.file /\ p.frame < q.frame)
Precedes(p, q) ==
  LaterFrame(p, q) \/ (OneFrame(p, q) /\ p.m = 0 /\ p.fb + p.n <= q.fb)

SeqOf(k) == (stream[1].seq + (k - 1)) % SEQ_MOD

StreamInv ==
  /\ sizes \in SizeSets /\ stream \in Seq(StreamPackets)
  /\ \A k \in DOMAIN stream : Fits(stream[k]) /\ stream[k].seq = SeqOf(k)
  /\ stream # <<>> => stream[1].file = 1 /\ stream[1].frame = 1 /\ stream[1].fb = 0
  /\ \A k \in 1 .. Len(stream) - 1 : Continues(stream[k], stream[k + 1])
  /\ \A j, k \in DOMAIN stream : j < k => Precedes(stream[j], stream[k])
  /\ \A k \in DOMAIN stream :
       \E j \in 1 .. k : OneFrame(stream[j], stream[k]) /\ stream[j].fb = 0

(* What NetworkAssumption says, limit by limit.                            *)
LEMMA NetworkLimits ==
  /\ MaxBlocks \in Nat /\ MaxBlocks >= 1 /\ MaxBlocks <= 63
  /\ FirstSeqs \subseteq 0 .. SEQ_MAX /\ Session \in Sessions
  /\ IMAGE_BSIZE_MAX \in Nat \ {0} /\ IMAGE_BSIZE_MAX <= SEQ_MAX
  /\ TS_MOD \in Nat \ {0}
  /\ MaxLosses \in Nat /\ MaxOvertaken \in Nat /\ MaxCopies \in Nat
  BY NetworkAssumption, PacketAssumption DEF Session

(* What a sequence over a set is made of.                                  *)
LEMMA SeqParts ==
  ASSUME NEW S, NEW s \in Seq(S)
  PROVE  /\ DOMAIN s = 1 .. Len(s) /\ Len(s) \in Nat
         /\ \A k \in DOMAIN s : s[k] \in S
  OBVIOUS

(* The frames of a video have at least one block, and few enough.          *)
LEMMA SizesFacts ==
  ASSUME sizes \in SizeSets
  PROVE  /\ DOMAIN sizes = 1 .. Len(sizes) /\ Len(sizes) \in Nat
         /\ \A f \in DOMAIN sizes :
              /\ DOMAIN sizes[f] = 1 .. Len(sizes[f]) /\ Len(sizes[f]) \in Nat
              /\ \A g \in DOMAIN sizes[f] :
                   /\ sizes[f][g] \in 1 .. IMAGE_BSIZE_MAX
                   /\ <<f, g>> \in Images
<1>1. sizes \in Seq(Seq(1 .. IMAGE_BSIZE_MAX))
      /\ \A f \in DOMAIN sizes : \A g \in DOMAIN sizes[f] : <<f, g>> \in Images
  BY NetworkAssumption
<1>2. ASSUME NEW f \in DOMAIN sizes
      PROVE  /\ DOMAIN sizes[f] = 1 .. Len(sizes[f]) /\ Len(sizes[f]) \in Nat
             /\ \A g \in DOMAIN sizes[f] : sizes[f][g] \in 1 .. IMAGE_BSIZE_MAX
  <2> DEFINE s == sizes[f]
  <2>1. s \in Seq(1 .. IMAGE_BSIZE_MAX)
    BY <1>1
  <2> HIDE DEF s
  <2>2. /\ DOMAIN s = 1 .. Len(s) /\ Len(s) \in Nat
        /\ \A g \in DOMAIN s : s[g] \in 1 .. IMAGE_BSIZE_MAX
    BY <2>1, SeqParts
  <2> QED
    BY <2>2 DEF s
<1>3. DOMAIN sizes = 1 .. Len(sizes) /\ Len(sizes) \in Nat
  BY <1>1
<1> QED
  BY <1>1, <1>2, <1>3

(* Timestamps are reduced to the width of their field.                     *)
LEMMA TsOfType ==
  ASSUME NEW f \in Nat \ {0}, NEW g \in Nat \ {0}
  PROVE  Source!TsOf(f, g) \in 0 .. TS_MOD - 1
<1> DEFINE a == (f - 1) * 3000 + (g - 1) * 818
<1>1. a \in Int /\ TS_MOD \in Nat \ {0}
  BY NetworkLimits
<1>2. Source!TsOf(f, g) = a % TS_MOD
  BY DEF Source!TsOf, Source!FileTs, Source!FrameTs
<1> HIDE DEF a
<1> QED
  BY <1>1, <1>2

(* Two packets apart are in the order of the two steps between them.       *)
LEMMA PrecedesTrans ==
  ASSUME NEW p \in StreamPackets, NEW q \in StreamPackets, NEW r \in StreamPackets,
         Precedes(p, q), Precedes(q, r), q.n \in Nat
  PROVE  Precedes(p, r)
  BY DEF Precedes, LaterFrame, OneFrame, StreamPackets

(* The packet that continues another comes after it.                       *)
LEMMA ContinuesPrecedes ==
  ASSUME NEW p \in StreamPackets, NEW q \in StreamPackets, Continues(p, q)
  PROVE  Precedes(p, q)
  BY DEF Continues, Precedes, LaterFrame, OneFrame, StreamPackets

(* A packet the transmitter adds is of the video and continues the last.   *)
LEMMA EmitEffect ==
  ASSUME StreamInv, Source!Emit
  PROVE  /\ sizes' = sizes
         /\ \E p \in StreamPackets :
              /\ stream' = Append(stream, p) /\ Fits(p)
              /\ stream = <<>> => p.file = 1 /\ p.frame = 1 /\ p.fb = 0
              /\ stream # <<>> => /\ Continues(stream[Len(stream)], p)
                                  /\ p.seq = (stream[Len(stream)].seq + 1) % SEQ_MOD
<1>a. PICK f \in DOMAIN sizes :
        \E g \in DOMAIN sizes[f] : \E b \in 0 .. sizes[f][g] - 1 :
        \E n \in 1 .. MaxBlocks : \E seq \in Source!NextSeqs :
          /\ Source!Starts(f, g, b) /\ b + n <= sizes[f][g]
          /\ stream' = Append(stream, Source!PacketAt(seq, f, g, b, n))
  BY DEF Source!Emit
<1>b. PICK g \in DOMAIN sizes[f] : \E b \in 0 .. sizes[f][g] - 1 :
        \E n \in 1 .. MaxBlocks : \E seq \in Source!NextSeqs :
          /\ Source!Starts(f, g, b) /\ b + n <= sizes[f][g]
          /\ stream' = Append(stream, Source!PacketAt(seq, f, g, b, n))
  BY <1>a
<1>1. PICK b \in 0 .. sizes[f][g] - 1, n \in 1 .. MaxBlocks, seq \in Source!NextSeqs :
        /\ Source!Starts(f, g, b) /\ b + n <= sizes[f][g]
        /\ stream' = Append(stream, Source!PacketAt(seq, f, g, b, n))
  BY <1>b
<1> DEFINE p == Source!PacketAt(seq, f, g, b, n)
<1>2. /\ f \in Nat \ {0} /\ g \in Nat \ {0} /\ sizes[f][g] \in Nat
      /\ b \in Nat /\ n \in Nat
  <2>1. sizes[f][g] \in 1 .. IMAGE_BSIZE_MAX /\ f \in 1 .. Len(sizes)
        /\ g \in 1 .. Len(sizes[f]) /\ Len(sizes) \in Nat /\ Len(sizes[f]) \in Nat
    BY SizesFacts DEF StreamInv
  <2> QED
    BY <2>1, NetworkLimits
<1>3. stream # <<>> => /\ stream[Len(stream)] \in StreamPackets
                       /\ Fits(stream[Len(stream)])
  BY DEF StreamInv
<1>4. seq \in 0 .. SEQ_MAX
  <2>1. CASE stream = <<>>
    BY <2>1, NetworkLimits DEF Source!NextSeqs
  <2>2. CASE stream # <<>>
    <3>1. seq = (stream[Len(stream)].seq + 1) % 65536
      BY <2>2 DEF Source!NextSeqs, Source!Newest
    <3>2. stream[Len(stream)].seq \in Nat
      BY <1>3, <2>2, SeqMax DEF StreamPackets
    <3>3. seq \in Nat /\ seq <= 65535
      BY <3>1, <3>2
    <3> QED
      BY <3>3, SeqMax
  <2> QED
    BY <2>1, <2>2
<1>5. /\ p.seq = seq /\ p.ts = Source!TsOf(f, g) /\ p.file = f /\ p.frame = g
      /\ p.fb = b /\ p.n = n /\ p.m = (IF b + n = sizes[f][g] THEN 1 ELSE 0)
  BY DEF Source!PacketAt
<1>6. p \in StreamPackets
  <2>1. Source!TsOf(f, g) \in 0 .. TS_MOD - 1
    BY <1>2, TsOfType
  <2> QED
    BY <1>2, <1>4, <2>1 DEF StreamPackets, Source!PacketAt
<1> HIDE DEF p
<1>7. Fits(p)
  BY <1>1, <1>5 DEF Fits, Size
<1>8. stream = <<>> => p.file = 1 /\ p.frame = 1 /\ p.fb = 0
  BY <1>1, <1>5 DEF Source!Starts
<1>9. ASSUME stream # <<>>
      PROVE  /\ Continues(stream[Len(stream)], p)
             /\ p.seq = (stream[Len(stream)].seq + 1) % SEQ_MOD
  <2> DEFINE q == stream[Len(stream)]
  <2>1. q \in StreamPackets /\ Fits(q)
    BY <1>3, <1>9
  <2>2. q.m \in {0, 1} /\ (q.m = 1 <=> Source!Ended(q))
    BY <2>1 DEF Fits, Size, StreamPackets, Source!Ended
  <2>3. \/ ~Source!Ended(q) /\ f = q.file /\ g = q.frame /\ b = q.fb + q.n
        \/ Source!Ended(q) /\ f = q.file /\ g = q.frame + 1 /\ b = 0
        \/ f = q.file + 1 /\ g = 1 /\ b = 0
    BY <1>1, <1>9 DEF Source!Starts, Source!Newest
  <2>4. seq = (q.seq + 1) % SEQ_MOD
    BY <1>9, SeqMod DEF Source!NextSeqs, Source!Newest
  <2> HIDE DEF q
  <2>5. Continues(q, p)
    BY <1>5, <2>2, <2>3 DEF Continues, OneFrame
  <2> QED
    BY <1>5, <2>4, <2>5 DEF q
<1> QED
  BY <1>1, <1>6, <1>7, <1>8, <1>9 DEF Source!Emit, p

(* Counting on from a number modulo 2^16.                                  *)
LEMMA SeqCount ==
  ASSUME NEW s \in Nat, NEW k \in Nat \ {0}
  PROVE  (((s + (k - 1)) % SEQ_MOD) + 1) % SEQ_MOD = (s + k) % SEQ_MOD
  BY SeqMod

(* The stream keeps its form while it grows.                               *)
LEMMA StreamGrowth ==
  ASSUME StreamInv, Source!Emit PROVE StreamInv'
<1>1. PICK p \in StreamPackets :
        /\ sizes' = sizes /\ stream' = Append(stream, p) /\ Fits(p)
        /\ stream = <<>> => p.file = 1 /\ p.frame = 1 /\ p.fb = 0
        /\ stream # <<>> => /\ Continues(stream[Len(stream)], p)
                            /\ p.seq = (stream[Len(stream)].seq + 1) % SEQ_MOD
  BY EmitEffect
<1> DEFINE N == Len(stream)
<1>2. /\ stream \in Seq(StreamPackets) /\ stream' \in Seq(StreamPackets)
      /\ N \in Nat /\ DOMAIN stream = 1 .. N /\ DOMAIN stream' = 1 .. N + 1
      /\ Len(stream') = N + 1 /\ stream'[N + 1] = p
      /\ \A k \in 1 .. N : stream'[k] = stream[k] /\ stream[k] \in StreamPackets
      /\ stream = <<>> <=> N = 0
  BY <1>1 DEF StreamInv
<1>3. sizes' \in SizeSets
  BY <1>1 DEF StreamInv
<1> HIDE DEF N
<1>4. /\ stream'[1].file = 1 /\ stream'[1].frame = 1 /\ stream'[1].fb = 0
      /\ N > 0 => stream'[1] = stream[1]
  BY <1>1, <1>2 DEF StreamInv
<1>5. ASSUME NEW k \in 1 .. N + 1
      PROVE  Fits(stream'[k]) /\ stream'[k].seq = SeqOf(k)'
  <2>1. CASE k \in 1 .. N
    <3>1. Fits(stream[k]) /\ stream[k].seq = SeqOf(k)
      BY <1>2, <2>1 DEF StreamInv
    <3>2. stream'[k] = stream[k] /\ stream'[1] = stream[1]
      BY <1>2, <1>4, <2>1
    <3> QED
      BY <3>1, <3>2 DEF SeqOf
  <2>2. CASE k = N + 1 /\ N = 0
    <3>1. p.seq \in 0 .. SEQ_MAX
      BY DEF StreamPackets
    <3>2. (p.seq + 0) % SEQ_MOD = p.seq
      BY <3>1, SeqMax, SeqMod
    <3> QED
      BY <1>1, <1>2, <2>2, <3>2 DEF SeqOf
  <2>3. CASE k = N + 1 /\ N > 0
    <3>1. stream[N].seq = (stream[1].seq + (N - 1)) % SEQ_MOD
      BY <1>2, <2>3 DEF StreamInv, SeqOf
    <3>2. stream[1].seq \in Nat
      BY <1>2, <2>3, SeqMax DEF StreamPackets
    <3>3. p.seq = (stream[1].seq + N) % SEQ_MOD
      BY <1>1, <1>2, <2>3, <3>1, <3>2, SeqCount DEF N
    <3> QED
      BY <1>1, <1>2, <1>4, <2>3, <3>3 DEF SeqOf
  <2> QED
    BY <1>2, <2>1, <2>2, <2>3
<1>6. ASSUME NEW k \in 1 .. N PROVE Continues(stream'[k], stream'[k + 1])
  <2>1. CASE k = N
    BY <1>1, <1>2, <2>1 DEF N
  <2>2. CASE k < N
    BY <1>2, <2>2 DEF StreamInv, N
  <2> QED
    BY <1>2, <2>1, <2>2
<1>7. ASSUME NEW j \in 1 .. N PROVE Precedes(stream'[j], p)
  <2>1. Precedes(stream[N], p)
    BY <1>1, <1>2, ContinuesPrecedes DEF N
  <2>2. CASE j = N
    BY <1>2, <2>1, <2>2
  <2>3. CASE j < N
    <3>1. Precedes(stream[j], stream[N])
      BY <1>2, <2>3 DEF StreamInv
    <3>2. stream[N].n \in Nat /\ stream[j] \in StreamPackets
          /\ stream[N] \in StreamPackets
      <4>1. \A q \in StreamPackets : q.n \in Nat
        BY DEF StreamPackets
      <4> QED
        BY <1>2, <2>3, <4>1
    <3> QED
      BY <1>2, <2>1, <3>1, <3>2, PrecedesTrans
  <2> QED
    BY <1>2, <2>2, <2>3
<1>8. ASSUME NEW j \in 1 .. N + 1, NEW k \in 1 .. N + 1, j < k
      PROVE  Precedes(stream'[j], stream'[k])
  <2>1. CASE k = N + 1
    BY <1>2, <1>7, <1>8, <2>1
  <2>2. CASE k \in 1 .. N
    <3>1. j \in 1 .. N
      BY <1>2, <1>8, <2>2
    <3>2. Precedes(stream[j], stream[k])
      BY <1>2, <1>8, <2>2, <3>1 DEF StreamInv
    <3>3. stream'[j] = stream[j] /\ stream'[k] = stream[k]
      BY <1>2, <2>2, <3>1
    <3> QED
      BY <3>2, <3>3
  <2> QED
    BY <1>2, <2>1, <2>2
<1>9. \A k \in DOMAIN stream' : Fits(stream[k])' /\ (stream[k].seq = SeqOf(k))'
  BY <1>1, <1>2, <1>5 DEF Fits, Size
<1>10. (\A k \in 1 .. Len(stream) - 1 : Continues(stream[k], stream[k + 1]))'
  BY <1>2, <1>6 DEF Continues, OneFrame
<1>11. (\A j, k \in DOMAIN stream : j < k => Precedes(stream[j], stream[k]))'
  BY <1>2, <1>8 DEF Precedes, LaterFrame, OneFrame
<1>12. ASSUME NEW k \in 1 .. N + 1
       PROVE  \E j \in 1 .. k : OneFrame(stream'[j], stream'[k]) /\ stream'[j].fb = 0
  <2>1. CASE k \in 1 .. N
    <3>1. PICK j \in 1 .. k : OneFrame(stream[j], stream[k]) /\ stream[j].fb = 0
      BY <1>2, <2>1 DEF StreamInv
    <3>2. stream'[j] = stream[j] /\ stream'[k] = stream[k]
      BY <1>2, <2>1
    <3> QED
      BY <3>1, <3>2
  <2>2. CASE k = N + 1 /\ p.fb = 0
    BY <1>2, <2>2 DEF OneFrame
  <2>3. CASE k = N + 1 /\ p.fb # 0
    <3>1. N > 0 /\ stream[N].m = 0 /\ OneFrame(stream[N], p)
      BY <1>1, <1>2, <2>3 DEF Continues, N
    <3>2. PICK j \in 1 .. N : OneFrame(stream[j], stream[N]) /\ stream[j].fb = 0
      BY <1>2, <3>1 DEF StreamInv
    <3>3. stream'[j] = stream[j] /\ j \in 1 .. k /\ stream'[k] = p
      BY <1>2, <2>3
    <3> QED
      BY <3>1, <3>2, <3>3 DEF OneFrame
  <2> QED
    BY <1>2, <2>1, <2>2, <2>3
<1>13. (\A k \in DOMAIN stream :
          \E j \in 1 .. k : OneFrame(stream[j], stream[k]) /\ stream[j].fb = 0)'
  BY <1>2, <1>12 DEF OneFrame
<1> QED
  BY <1>2, <1>3, <1>4, <1>9, <1>10, <1>11, <1>13 DEF StreamInv

(* What the network delivers is a packet as the receivers expect them.     *)
LEMMA DatagramType ==
  ASSUME StreamInv, NEW k \in DOMAIN stream
  PROVE  Datagram(k) \in Packets
<1> DEFINE p == stream[k]
<1>1. p \in StreamPackets /\ Fits(p)
  BY DEF StreamInv
<1>2. /\ p.file \in DOMAIN sizes /\ p.frame \in DOMAIN sizes[p.file]
      /\ Size(p) \in 1 .. IMAGE_BSIZE_MAX /\ <<p.file, p.frame>> \in Images
  BY <1>1, SizesFacts DEF Fits, Size, StreamInv
<1>3. /\ p.n \in Nat /\ p.n <= 63 /\ p.fb \in Nat
      /\ p.fb + p.n <= IMAGE_BSIZE_MAX /\ p.fb \in 0 .. SEQ_MAX
  BY <1>1, <1>2, NetworkLimits, SeqMax DEF Fits, StreamPackets
<1> HIDE DEF p
<1>4. /\ Datagram(k).seq = p.seq /\ Datagram(k).ts = p.ts
      /\ Datagram(k).ssrc = Session /\ Datagram(k).m = p.m
      /\ Datagram(k).img = <<p.file, p.frame>> /\ Datagram(k).im = Size(p)
      /\ Datagram(k).fb = p.fb /\ Datagram(k).n = p.n
  BY DEF Datagram, Size, p
<1>5. Datagram(k) \in [seq : 0 .. SEQ_MAX, ts : 0 .. TS_MOD - 1, ssrc : Sessions,
                       m : {0, 1}, img : Images, im : 1 .. IMAGE_BSIZE_MAX,
                       fb : 0 .. SEQ_MAX, n : 0 .. 63]
  <2>1. p.n \in 0 .. 63
    BY <1>3
  <2>2. p.seq \in 0 .. SEQ_MAX /\ p.ts \in 0 .. TS_MOD - 1 /\ p.m \in {0, 1}
    BY <1>1 DEF StreamPackets
  <2> QED
    BY <1>2, <1>3, <2>1, <2>2, NetworkLimits DEF Datagram, Size, p
<1> QED
  BY <1>3, <1>4, <1>5 DEF Packets

(* The stream starts empty.                                                *)
LEMMA StreamStart == Source!StreamInit => StreamInv
  BY DEF Source!StreamInit, StreamInv
(* A step that sends nothing leaves the stream as it is.                   *)
LEMMA StreamKept ==
  ASSUME StreamInv, UNCHANGED <<sizes, stream>>
  PROVE  StreamInv'
  BY DEF StreamInv, Fits, Size, SeqOf, Continues, OneFrame, Precedes, LaterFrame

(* What has been sent is not changed by what is sent later.                *)
LEMMA SentKept ==
  ASSUME StreamInv, Source!Emit \/ UNCHANGED <<sizes, stream>>
  PROVE  /\ sizes' = sizes
         /\ stream' \in Seq(StreamPackets) /\ Len(stream') \in Nat
         /\ Len(stream) <= Len(stream')
         /\ \A k \in DOMAIN stream : /\ k \in DOMAIN stream'
                                     /\ stream'[k] = stream[k]
                                     /\ Datagram(k)' = Datagram(k)
<1>1. CASE UNCHANGED <<sizes, stream>>
  BY <1>1 DEF StreamInv, Datagram
<1>2. CASE Source!Emit
  <2>1. PICK p \in StreamPackets : sizes' = sizes /\ stream' = Append(stream, p)
    BY <1>2, EmitEffect
  <2>2. /\ stream' \in Seq(StreamPackets) /\ Len(stream') = Len(stream) + 1
        /\ Len(stream) \in Nat
        /\ \A k \in DOMAIN stream : k \in DOMAIN stream' /\ stream'[k] = stream[k]
    BY <2>1 DEF StreamInv
  <2>3. \A k \in DOMAIN stream : Datagram(k)' = Datagram(k)
    BY <2>1, <2>2 DEF Datagram
  <2> QED
    BY <2>1, <2>2, <2>3
<1> QED
  BY <1>1, <1>2

(* The packets in flight and those that arrived are packets of the stream. *)
NetworkInv ==
  /\ StreamInv
  /\ inflight \subseteq DOMAIN stream
  /\ arrivals \in Seq(Nat) /\ \A a \in DOMAIN arrivals : arrivals[a] \in DOMAIN stream
  /\ losses \in Nat /\ copies \in Nat

NetworkStep == \/ Transmit \/ Lose
               \/ \E k \in inflight : Arrive(k)
               \/ UNCHANGED networkVars

(* The network starts idle.                                                *)
LEMMA NetworkStart == NetworkInit => NetworkInv
  BY StreamStart DEF NetworkInit, NetworkInv, Source!StreamInit

(* Every step of the network sends a packet or leaves the stream alone.    *)
LEMMA NetworkSends ==
  NetworkStep => Source!Emit \/ UNCHANGED <<sizes, stream>>
  BY DEF NetworkStep, Transmit, Lose, Arrive, networkVars

(* No step of the network makes up a packet.                               *)
LEMMA NetworkKept ==
  ASSUME NetworkInv, NetworkStep PROVE NetworkInv'
<1>1. StreamInv'
  BY StreamGrowth, StreamKept, NetworkSends DEF NetworkInv
<1>2. /\ Len(stream) <= Len(stream') /\ Len(stream') \in Nat /\ Len(stream) \in Nat
      /\ DOMAIN stream = 1 .. Len(stream) /\ DOMAIN stream' = 1 .. Len(stream')
  BY SentKept, NetworkSends DEF NetworkInv, StreamInv
<1>3. CASE Transmit
  <2>1. Len(stream) + 1 \in DOMAIN stream'
    <3>1. PICK p \in StreamPackets : stream' = Append(stream, p)
      BY <1>3, EmitEffect DEF Transmit, NetworkInv
    <3> QED
      BY <1>2, <3>1 DEF NetworkInv, StreamInv
  <2> QED
    BY <1>1, <1>2, <1>3, <2>1 DEF Transmit, NetworkInv
<1>4. CASE Lose
  BY <1>1, <1>4 DEF Lose, NetworkInv
<1>5. CASE \E k \in inflight : Arrive(k)
  <2>1. PICK k \in inflight : Arrive(k)
    BY <1>5
  <2>2. /\ arrivals' = Append(arrivals, k) /\ k \in DOMAIN stream
        /\ stream' = stream /\ sizes' = sizes /\ losses' = losses
        /\ inflight' \subseteq inflight /\ copies' \in {copies, copies + 1}
    BY <2>1 DEF Arrive, NetworkInv
  <2>3. k \in Nat
    BY <1>2, <2>2
  <2>4. arrivals' \in Seq(Nat)
        /\ \A a \in DOMAIN arrivals' : arrivals'[a] \in DOMAIN stream'
    BY <2>2, <2>3 DEF NetworkInv
  <2> QED
    BY <1>1, <2>2, <2>4 DEF NetworkInv
<1>6. CASE UNCHANGED networkVars
  BY <1>1, <1>6 DEF networkVars, NetworkInv
<1> QED
  BY <1>3, <1>4, <1>5, <1>6 DEF NetworkStep

(* Without copies no packet arrives twice.                                 *)
OnceInv ==
  copies = 0 =>
    /\ \A a, b \in DOMAIN arrivals : a # b => arrivals[a] # arrivals[b]
    /\ \A a \in DOMAIN arrivals : arrivals[a] \notin inflight
(* At the start nothing has arrived.                                       *)
LEMMA OnceStart == NetworkInit => OnceInv
  BY DEF NetworkInit, OnceInv
(* A packet is sent under a new index and leaves the network as it arrives.*)
LEMMA OnceKept ==
  ASSUME NetworkInv, OnceInv, NetworkStep PROVE OnceInv'
<1> SUFFICES ASSUME copies' = 0
             PROVE  /\ \A a, b \in DOMAIN arrivals' : a # b => arrivals'[a] # arrivals'[b]
                    /\ \A a \in DOMAIN arrivals' : arrivals'[a] \notin inflight'
  BY DEF OnceInv
<1>1. /\ copies \in Nat /\ DOMAIN stream = 1 .. Len(stream) /\ Len(stream) \in Nat
      /\ DOMAIN arrivals = 1 .. Len(arrivals) /\ Len(arrivals) \in Nat
      /\ \A a \in DOMAIN arrivals : arrivals[a] \in DOMAIN stream
  BY DEF NetworkInv, StreamInv
<1>2. CASE Transmit
  BY <1>1, <1>2 DEF Transmit, OnceInv
<1>3. CASE Lose
  BY <1>3 DEF Lose, OnceInv
<1>4. CASE \E k \in inflight : Arrive(k)
  <2>1. PICK k \in inflight : Arrive(k)
    BY <1>4
  <2>2. copies = 0 /\ inflight' = inflight \ {k} /\ arrivals' = Append(arrivals, k)
    BY <1>1, <2>1 DEF Arrive
  <2>3. /\ DOMAIN arrivals' = 1 .. Len(arrivals) + 1
        /\ arrivals'[Len(arrivals) + 1] = k
        /\ \A a \in DOMAIN arrivals : arrivals'[a] = arrivals[a]
    BY <2>2 DEF NetworkInv
  <2> QED
    BY <1>1, <2>2, <2>3 DEF OnceInv
<1>5. CASE UNCHANGED networkVars
  BY <1>5 DEF networkVars, OnceInv
<1> QED
  BY <1>2, <1>3, <1>4, <1>5 DEF NetworkStep

-----------------------------------------------------------------------------
(* A network that keeps the order of the packets, and may lose some        *)

InOrder == MaxOvertaken = 0 /\ MaxCopies = 0

(* One packet at most is in flight, the last one sent; packets arrive in   *)
(* the order they were sent, and those that did not arrive are the losses. *)
OnTheWay == IF inflight = {} THEN 0 ELSE 1
OrderInv ==
  /\ inflight = {} \/ inflight = {Len(stream)}
  /\ losses <= MaxLosses
  /\ Len(stream) = Len(arrivals) + losses + OnTheWay
  /\ \A a \in DOMAIN arrivals : arrivals[a] >= a /\ arrivals[a] <= Len(stream) - OnTheWay
  /\ \A a, b \in DOMAIN arrivals : a <= b => arrivals[b] - arrivals[a] >= b - a

(* An idle network is in order, and no step of the network disturbs that.  *)
LEMMA OrderStart == NetworkInit => OrderInv
  BY NetworkLimits DEF NetworkInit, OrderInv, OnTheWay, Source!StreamInit

(* Neither sending, losing nor delivering disturbs the order.              *)
LEMMA OrderKept ==
  ASSUME InOrder, NetworkInv, OrderInv, NetworkStep PROVE OrderInv'
<1>1. /\ MaxOvertaken = 0 /\ MaxCopies = 0 /\ MaxLosses \in Nat
      /\ Len(stream) \in Nat /\ DOMAIN stream = 1 .. Len(stream)
      /\ losses \in Nat /\ copies \in Nat /\ Len(arrivals) \in Nat
      /\ DOMAIN arrivals = 1 .. Len(arrivals)
      /\ \A a \in DOMAIN arrivals : arrivals[a] \in Nat
  BY NetworkLimits DEF InOrder, NetworkInv, StreamInv
<1>2. CASE Transmit
  <2>1. inflight = {}
    <3> SUFFICES ASSUME inflight = {Len(stream)} PROVE FALSE
      BY DEF OrderInv
    <3>1. Cardinality(inflight) = 1
      BY FS_Singleton
    <3>2. Cardinality(inflight) <= 0
      BY <1>1, <1>2 DEF Transmit
    <3> QED
      BY <3>1, <3>2
  <2>2. PICK p \in StreamPackets : stream' = Append(stream, p)
    BY <1>2, EmitEffect DEF Transmit, NetworkInv
  <2>3. Len(stream') = Len(stream) + 1
    BY <2>2 DEF NetworkInv, StreamInv
  <2>4. /\ inflight' = {Len(stream')} /\ OnTheWay' = 1 /\ OnTheWay = 0
        /\ UNCHANGED <<arrivals, losses>>
    BY <1>2, <2>1, <2>3 DEF Transmit, OnTheWay
  <2> QED
    BY <1>1, <2>3, <2>4 DEF OrderInv
<1>3. CASE Lose
  <2>1. /\ inflight = {Len(stream)} /\ inflight' = {} /\ losses' = losses + 1
        /\ losses < MaxLosses /\ UNCHANGED <<stream, arrivals>>
    BY <1>3 DEF Lose, OrderInv
  <2>2. OnTheWay = 1 /\ OnTheWay' = 0
    BY <2>1 DEF OnTheWay
  <2> QED
    BY <1>1, <2>1, <2>2 DEF OrderInv
<1>4. CASE \E k \in inflight : Arrive(k)
  <2> DEFINE k == Len(stream)
             L == Len(arrivals)
  <2>1. /\ inflight = {k} /\ inflight' = {} /\ arrivals' = Append(arrivals, k)
        /\ UNCHANGED <<stream, losses>>
    BY <1>1, <1>4 DEF Arrive, OrderInv
  <2>2. OnTheWay = 1 /\ OnTheWay' = 0
    BY <2>1 DEF OnTheWay
  <2>3. /\ Len(arrivals') = L + 1 /\ DOMAIN arrivals' = 1 .. L + 1
        /\ arrivals'[L + 1] = k /\ \A a \in 1 .. L : arrivals'[a] = arrivals[a]
    BY <1>1, <2>1 DEF NetworkInv
  <2>4. k = L + losses + 1
    BY <2>2 DEF OrderInv
  <2>5. \A a \in 1 .. L : arrivals[a] >= a /\ arrivals[a] <= k - 1
                         /\ arrivals[L] - arrivals[a] >= L - a
    BY <1>1, <2>2 DEF OrderInv
  <2> HIDE DEF k, L
  <2>6. \A a \in 1 .. L + 1 : arrivals'[a] >= a /\ arrivals'[a] <= k
    BY <1>1, <2>3, <2>4, <2>5 DEF k, L
  <2>7. \A a \in 1 .. L : k - arrivals[a] >= L + 1 - a
    <3> TAKE a \in 1 .. L
    <3>1. L \in Nat /\ k \in Nat
      BY <1>1 DEF k, L
    <3>2. L \in 1 .. L
      BY <3>1
    <3>3. arrivals[a] \in Nat /\ arrivals[L] \in Nat
      BY <1>1, <3>2 DEF L
    <3>4. arrivals[L] <= k - 1 /\ arrivals[L] - arrivals[a] >= L - a
      BY <2>5, <3>2
    <3> QED
      BY <3>1, <3>3, <3>4
  <2>8. ASSUME NEW a \in 1 .. L + 1, NEW b \in 1 .. L + 1, a <= b
        PROVE  arrivals'[b] - arrivals'[a] >= b - a
    <3>1. CASE b = L + 1 /\ a = L + 1
      BY <1>1, <2>3, <3>1 DEF k, L
    <3>2. CASE b = L + 1 /\ a \in 1 .. L
      BY <1>1, <2>3, <2>7, <3>2 DEF k, L
    <3>3. CASE b \in 1 .. L
      <4>1. a \in 1 .. L
        BY <1>1, <2>8, <3>3 DEF L
      <4>2. arrivals[b] - arrivals[a] >= b - a
        BY <1>1, <2>8, <3>3, <4>1 DEF OrderInv, L
      <4> QED
        BY <2>3, <3>3, <4>1, <4>2
    <3> QED
      BY <1>1, <2>8, <3>1, <3>2, <3>3 DEF L
  <2>9. /\ inflight' = {} /\ losses' = losses /\ Len(stream') = k
        /\ Len(arrivals') = L + 1
    BY <2>1, <2>3 DEF k
  <2>10. \A a \in DOMAIN arrivals' :
           arrivals'[a] >= a /\ arrivals'[a] <= Len(stream') - OnTheWay'
    <3>1. \A a \in 1 .. L + 1 : arrivals'[a] \in Nat
      BY <1>1, <2>3 DEF k, L
    <3> QED
      BY <1>1, <2>2, <2>3, <2>6, <2>9, <3>1 DEF k
  <2>11. Len(stream') = Len(arrivals') + losses' + OnTheWay'
    BY <1>1, <2>2, <2>4, <2>9 DEF L
  <2>12. losses' <= MaxLosses
    BY <2>1 DEF OrderInv
  <2> QED
    BY <2>3, <2>8, <2>9, <2>10, <2>11, <2>12 DEF OrderInv
<1>5. CASE UNCHANGED networkVars
  BY <1>5 DEF networkVars, OrderInv, OnTheWay
<1> QED
  BY <1>2, <1>3, <1>4, <1>5 DEF NetworkStep

(* Packets arrive in the order of the stream, and a gap between two that   *)
(* arrive one after the other is made of losses.                           *)
LEMMA ArrivalsGrow ==
  ASSUME NetworkInv, OrderInv
  PROVE  /\ \A a, b \in DOMAIN arrivals : a < b => arrivals[a] < arrivals[b]
         /\ \A a \in DOMAIN arrivals : a + 1 \in DOMAIN arrivals =>
              arrivals[a + 1] - arrivals[a] - 1 \in 0 .. MaxLosses
<1>1. /\ MaxLosses \in Nat /\ Len(stream) \in Nat
      /\ losses \in Nat /\ losses <= MaxLosses /\ Len(arrivals) \in Nat
      /\ DOMAIN arrivals = 1 .. Len(arrivals)
      /\ \A a \in DOMAIN arrivals : arrivals[a] \in Nat
  BY NetworkLimits DEF NetworkInv, StreamInv, OrderInv
<1>2. \A a, b \in DOMAIN arrivals : a <= b => arrivals[b] - arrivals[a] >= b - a
  BY DEF OrderInv
<1>3. \A a, b \in DOMAIN arrivals : a < b => arrivals[a] < arrivals[b]
  BY <1>1, <1>2
<1>4. ASSUME NEW a \in DOMAIN arrivals, a + 1 \in DOMAIN arrivals
      PROVE  arrivals[a + 1] - arrivals[a] - 1 \in 0 .. MaxLosses
  <2> DEFINE L == Len(arrivals)
  <2>1. L \in DOMAIN arrivals /\ a + 1 <= L
    BY <1>1, <1>4
  <2>2. arrivals[L] - arrivals[a + 1] >= L - (a + 1)
    BY <1>2, <1>4, <2>1
  <2>3. arrivals[a] >= a /\ arrivals[L] <= L + losses
    <3>1. OnTheWay \in {0, 1}
      BY DEF OnTheWay
    <3>2. Len(stream) = L + losses + OnTheWay /\ arrivals[L] <= Len(stream) - OnTheWay
          /\ arrivals[a] >= a
      BY <2>1 DEF OrderInv
    <3> HIDE DEF L
    <3> QED
      BY <1>1, <2>1, <3>1, <3>2
  <2>4. arrivals[a] < arrivals[a + 1]
    BY <1>1, <1>3, <1>4
  <2> DEFINE x == arrivals[a]
             y == arrivals[a + 1]
             z == arrivals[L]
  <2>5. /\ x \in Nat /\ y \in Nat /\ z \in Nat /\ L \in Nat /\ a \in Nat
        /\ z - y >= L - (a + 1) /\ x >= a /\ z <= L + losses /\ x < y
    BY <1>1, <1>4, <2>1, <2>2, <2>3, <2>4
  <2> HIDE DEF L, x, y, z
  <2>6. y - x - 1 \in 0 .. MaxLosses
    BY <1>1, <2>5
  <2> QED
    BY <2>6 DEF x, y
<1> QED
  BY <1>3, <1>4

-----------------------------------------------------------------------------
(* Numbers and times of the packets of the stream                          *)

(* The packets of the stream, field by field.                              *)
LEMMA StreamFields ==
  ASSUME StreamInv, NEW k \in DOMAIN stream
  PROVE  /\ k \in Nat \ {0} /\ k <= Len(stream) /\ Len(stream) \in Nat
         /\ 1 \in DOMAIN stream /\ stream # <<>>
         /\ stream[k].seq \in Nat /\ stream[k].seq \in 0 .. SEQ_MAX
         /\ stream[k].ts \in Nat /\ stream[k].m \in {0, 1}
         /\ stream[k].file \in Nat /\ stream[k].frame \in Nat
         /\ stream[k].fb \in Nat /\ stream[k].n \in Nat \ {0}
<1>1. stream[k] \in StreamPackets /\ Fits(stream[k])
  BY DEF StreamInv
<1>2. \A p \in StreamPackets :
        /\ p.seq \in 0 .. SEQ_MAX /\ p.ts \in 0 .. TS_MOD - 1 /\ p.m \in {0, 1}
        /\ p.file \in Nat /\ p.frame \in Nat /\ p.fb \in Nat /\ p.n \in Nat
  BY DEF StreamPackets
<1>3. 0 .. SEQ_MAX \subseteq Nat /\ 0 .. TS_MOD - 1 \subseteq Nat
  BY SeqMax, NetworkLimits
<1>4. stream[k].n # 0
  BY <1>1, NetworkLimits DEF Fits
<1>5. k \in Nat \ {0} /\ k <= Len(stream) /\ Len(stream) \in Nat
      /\ 1 \in DOMAIN stream /\ stream # <<>>
  BY DEF StreamInv
<1> QED
  BY <1>1, <1>2, <1>3, <1>4, <1>5

(* A gap of up to half a turn is counted exactly, also when it lies over   *)
(* the rollover of the sequence number (LHE_receiver.c:373-381).           *)
LEMMA SkippedExact ==
  ASSUME NEW next \in 0 .. SEQ_MAX, NEW gap \in Nat, gap <= 32768
  PROVE  Skipped(next, (next + gap) % SEQ_MOD) = gap
<1> DEFINE n == next
           cur == (n + gap) % SEQ_MOD
<1>1. n \in Nat /\ n <= 65535
  BY SeqMax
<1>2. cur = IF n + gap <= 65535 THEN n + gap ELSE n + gap - 65536
  <2> HIDE DEF n
  <2> QED
    BY <1>1, SeqMod
<1>3. SEQ_MAX - n + cur + 1 = 65536 - n + cur
      /\ (SEQ_MAX - n + cur < n - cur <=> 65535 - n + cur < n - cur)
  <2> HIDE DEF n
  <2> QED
    BY <1>1, <1>2, SeqMax
<1> HIDE DEF n, cur
<1>4. Skipped(n, cur) = gap
  BY <1>1, <1>2, <1>3 DEF Skipped
<1> QED
  BY <1>4 DEF n, cur

(* The number expected after one packet, when a later one arrives next.    *)
LEMMA SeqAhead ==
  ASSUME StreamInv, NEW j \in DOMAIN stream, NEW k \in DOMAIN stream, j < k
  PROVE  /\ After(stream[j].seq) \in 0 .. SEQ_MAX
         /\ stream[k].seq = (After(stream[j].seq) + (k - j - 1)) % SEQ_MOD
<1>1. /\ j \in Nat \ {0} /\ k \in Nat \ {0} /\ stream[1].seq \in Nat
      /\ stream[j].seq \in 0 .. SEQ_MAX
  BY StreamFields
<1>2. /\ stream[j].seq = (stream[1].seq + (j - 1)) % 65536
      /\ stream[k].seq = (stream[1].seq + (k - 1)) % 65536
  BY SeqMod DEF StreamInv, SeqOf
<1>3. After(stream[j].seq) = (stream[1].seq + j) % 65536
  BY <1>1, <1>2, SeqMod DEF After
<1>4. stream[k].seq = (After(stream[j].seq) + (k - j - 1)) % 65536
  <2> DEFINE s == stream[1].seq
             e == After(stream[j].seq)
             q == stream[k].seq
  <2>1. s \in Nat /\ e = (s + j) % 65536 /\ q = (s + (k - 1)) % 65536
    BY <1>1, <1>2, <1>3
  <2> HIDE DEF s, e, q
  <2>2. q = (e + (k - j - 1)) % 65536
    BY <1>1, <2>1
  <2> QED
    BY <2>2 DEF e, q
<1> QED
  BY <1>1, <1>4, AfterType, SeqMod

(* Before the number has gone round, it tells how far a packet is.         *)
LEMMA SeqUnrolled ==
  ASSUME StreamInv, ~RolledOver, NEW k \in DOMAIN stream
  PROVE  stream[k].seq = stream[1].seq + k - 1 /\ stream[1].seq \in Nat
<1>1. k \in Nat \ {0} /\ k <= Len(stream) /\ stream[1].seq \in Nat
      /\ Len(stream) \in Nat /\ stream # <<>>
  BY StreamFields
<1>2. stream[1].seq + Len(stream) <= 65536
  BY <1>1, SeqMod DEF RolledOver
<1>3. stream[k].seq = (stream[1].seq + (k - 1)) % 65536
  BY SeqMod DEF StreamInv, SeqOf
<1> QED
  BY <1>1, <1>2, <1>3

(* The number does not come back once it has gone round.                   *)
LEMMA RolledOverStays ==
  ASSUME StreamInv, Source!Emit \/ UNCHANGED <<sizes, stream>>, RolledOver
  PROVE  RolledOver'
<1>1. /\ stream'[1] = stream[1] /\ Len(stream) <= Len(stream')
      /\ Len(stream) \in Nat /\ Len(stream') \in Nat /\ stream[1].seq \in Nat
      /\ Len(stream) > 0
  <2>1. 1 \in DOMAIN stream /\ Len(stream) > 0 /\ Len(stream) \in Nat
    BY DEF RolledOver, StreamInv
  <2> QED
    BY <2>1, SentKept, StreamFields
<1>2. stream' # <<>>
  BY <1>1, SentKept
<1> QED
  BY <1>1, <1>2, SeqMod DEF RolledOver

(* The timestamps grow from frame to frame.  So they do in a single file   *)
(* until they wrap around, and in a directory of short files; in a longer  *)
(* file they run past those of the next, which begins 3000 after it did.   *)
Before(f, g, e, h) == f < e \/ (f = e /\ g < h)
TimestampsGrow ==
  \A s \in SizeSets : \A f, e \in DOMAIN s :
    \A g \in DOMAIN s[f], h \in DOMAIN s[e] :
      Before(f, g, e, h) => Source!TsOf(f, g) < Source!TsOf(e, h)

(* A single file, as long as the timestamp does not wrap around in it.     *)
LEMMA OneFileGrows ==
  ASSUME \A s \in SizeSets : Len(s) = 1 /\ Len(s[1]) * 818 <= TS_MOD
  PROVE  TimestampsGrow
<1> SUFFICES ASSUME NEW s \in SizeSets, NEW f \in DOMAIN s, NEW e \in DOMAIN s,
                    NEW g \in DOMAIN s[f], NEW h \in DOMAIN s[e],
                    Before(f, g, e, h)
             PROVE  Source!TsOf(f, g) < Source!TsOf(e, h)
  BY DEF TimestampsGrow
<1>1. s \in Seq(Seq(1 .. IMAGE_BSIZE_MAX)) /\ Len(s) = 1 /\ Len(s[1]) * 818 <= TS_MOD
  BY NetworkAssumption
<1>2. f = 1 /\ e = 1 /\ s[1] \in Seq(1 .. IMAGE_BSIZE_MAX)
  BY <1>1
<1>3. /\ g \in Nat \ {0} /\ h \in Nat \ {0} /\ h <= Len(s[1]) /\ g < h
      /\ Len(s[1]) \in Nat
  BY <1>2, SeqParts DEF Before
<1> DEFINE x == (g - 1) * 818
           y == (h - 1) * 818
<1>4. TS_MOD \in Nat /\ x \in Nat /\ y \in Nat /\ y < TS_MOD /\ x < y
  BY <1>1, <1>3, NetworkLimits
<1>5. Source!TsOf(f, g) = x % TS_MOD /\ Source!TsOf(e, h) = y % TS_MOD
  <2>1. (f - 1) * 3000 + x = x /\ (e - 1) * 3000 + y = y
    BY <1>2, <1>4
  <2> QED
    BY <2>1 DEF Source!TsOf, Source!FileTs, Source!FrameTs
<1> HIDE DEF x, y
<1>6. x % TS_MOD = x /\ y % TS_MOD = y
  BY <1>4
<1> QED
  BY <1>4, <1>5, <1>6

(* The frames of files of up to four frames.                               *)
LEMMA ShortFileTimes ==
  ASSUME NEW f \in Nat \ {0}, NEW g \in Nat \ {0}, NEW e \in Nat \ {0},
         NEW h \in Nat \ {0}, g <= 4, h <= 4, Before(f, g, e, h),
         NEW n \in Nat, e <= n, n * 3000 <= TS_MOD
  PROVE  Source!TsOf(f, g) < Source!TsOf(e, h)
<1> DEFINE a == (f - 1) * 3000 + (g - 1) * 818
           b == (e - 1) * 3000 + (h - 1) * 818
<1>1. a \in Nat /\ b \in Nat
  OBVIOUS
<1>2. TS_MOD \in Nat \ {0} /\ b < TS_MOD
  BY NetworkLimits
<1>3. a < b
  BY DEF Before
<1>4. Source!TsOf(f, g) = a % TS_MOD /\ Source!TsOf(e, h) = b % TS_MOD
  BY DEF Source!TsOf, Source!FileTs, Source!FrameTs
<1> HIDE DEF a, b
<1>5. a % TS_MOD = a
  BY <1>1, <1>2, <1>3
<1>6. b % TS_MOD = b
  BY <1>1, <1>2
<1> QED
  BY <1>3, <1>4, <1>5, <1>6

(* A directory of files of up to four frames.                              *)
LEMMA ShortFilesGrow ==
  ASSUME \A s \in SizeSets : /\ Len(s) * 3000 <= TS_MOD
                             /\ \A f \in DOMAIN s : Len(s[f]) <= 4
  PROVE  TimestampsGrow
<1> SUFFICES ASSUME NEW s \in SizeSets, NEW f \in DOMAIN s, NEW e \in DOMAIN s,
                    NEW g \in DOMAIN s[f], NEW h \in DOMAIN s[e],
                    Before(f, g, e, h)
             PROVE  Source!TsOf(f, g) < Source!TsOf(e, h)
  BY DEF TimestampsGrow
<1>1. s \in Seq(Seq(1 .. IMAGE_BSIZE_MAX)) /\ Len(s) * 3000 <= TS_MOD
      /\ Len(s[f]) <= 4 /\ Len(s[e]) <= 4
  BY NetworkAssumption
<1>2. f \in 1 .. Len(s) /\ e \in 1 .. Len(s) /\ Len(s) \in Nat
      /\ s[f] \in Seq(1 .. IMAGE_BSIZE_MAX) /\ s[e] \in Seq(1 .. IMAGE_BSIZE_MAX)
  BY <1>1
<1>3. g \in Nat \ {0} /\ g <= 4 /\ h \in Nat \ {0} /\ h <= 4
  <2>1. /\ Len(s[f]) \in Nat /\ DOMAIN s[f] = 1 .. Len(s[f])
        /\ Len(s[e]) \in Nat /\ DOMAIN s[e] = 1 .. Len(s[e])
    BY <1>2, SeqParts
  <2> QED
    BY <1>1, <2>1
<1>4. f \in Nat \ {0} /\ e \in Nat \ {0} /\ e <= Len(s)
  BY <1>2
<1>5. Source!TsOf(f, g) < Source!TsOf(e, h)
  BY <1>1, <1>2, <1>3, <1>4, ShortFileTimes
<1> QED
  BY <1>5

(* The frame of a packet, and its timestamp.                               *)
LEMMA FrameOfPacket ==
  ASSUME StreamInv, NEW k \in DOMAIN stream
  PROVE  LET v == <<stream[k].file, stream[k].frame>> IN
           v \in Frames /\ TsOf(v) = stream[k].ts /\ SizeOf(v) = Size(stream[k])
<1>1. Fits(stream[k])
  BY DEF StreamInv
<1> QED
  BY <1>1 DEF Fits, Frames, TsOf, SizeOf, Size

(* Along the stream timestamps never fall; packets with the same one are   *)
(* of one frame, and after its marker the next frame has a greater one.    *)
LEMMA TimesGrow ==
  ASSUME TimestampsGrow, StreamInv,
         NEW j \in DOMAIN stream, NEW k \in DOMAIN stream, j < k
  PROVE  /\ stream[j].ts \in Nat /\ stream[k].ts \in Nat
         /\ \/ stream[j].ts < stream[k].ts
            \/ /\ stream[j].ts = stream[k].ts /\ OneFrame(stream[j], stream[k])
               /\ stream[j].m = 0
<1>1. stream[j] \in StreamPackets /\ stream[k] \in StreamPackets
  BY DEF StreamInv
<1>2. stream[j].ts \in 0 .. TS_MOD - 1 /\ stream[k].ts \in 0 .. TS_MOD - 1
  BY <1>1 DEF StreamPackets
<1>3. stream[j].ts \in Nat /\ stream[k].ts \in Nat
  BY <1>2, NetworkLimits
<1>4. Fits(stream[j]) /\ Fits(stream[k]) /\ Precedes(stream[j], stream[k])
      /\ sizes \in SizeSets
  BY DEF StreamInv
<1>5. CASE LaterFrame(stream[j], stream[k])
  BY <1>3, <1>4, <1>5 DEF TimestampsGrow, Before, LaterFrame, Fits
<1>6. CASE OneFrame(stream[j], stream[k]) /\ stream[j].m = 0
  BY <1>3, <1>4, <1>6 DEF OneFrame, Fits
<1> QED
  BY <1>3, <1>4, <1>5, <1>6 DEF Precedes
=============================================================================
