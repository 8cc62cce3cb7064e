--------------------------- MODULE RtpAccounting ---------------------------
(***************************************************************************)
(* The sequence-number bookkeeping that LHE_receiver2 and LHE_receiver3    *)
(* share (the same lines in both): for every packet that arrives, how many *)
(* packets are taken for lost, and which number is expected next.          *)
(*                                                                         *)
(* next_seqnum and current_seqnum are uint16_t, so they live in            *)
(* 0 .. SEQ_MAX; the comparisons and subtractions of the code are done in  *)
(* int, hence without wrap-around.                                         *)
(***************************************************************************)
EXTENDS RtpPackets

VARIABLES
  startup,          (* no packet has arrived yet                           *)
  current_session,  (* SSRC of the first packet; never changed afterwards  *)
  current_seqnum,   (* sequence number of the last packet                  *)
  next_seqnum,      (* sequence number expected next                       *)
  packets_lost,
  base, arrived     (* history: first sequence number, packets since then  *)

accountVars == <<startup, current_session, current_seqnum, next_seqnum,
                 packets_lost, base, arrived>>

AccountInit ==
  /\ startup = TRUE
  /\ current_session \in Sessions /\ current_seqnum = 0 /\ next_seqnum = 0
  /\ packets_lost = 0 /\ base = 0 /\ arrived = 0

Mutant_SkippedShort(next, cur) ==               \* off by one at the rollover
  IF next < cur THEN cur - next
  ELSE IF next > cur /\ SEQ_MAX - next + cur < next - cur
       THEN SEQ_MAX - next + cur
       ELSE 0
Mutant_SkippedFromNext(next, cur) ==            \* counts from after next
  IF next < cur THEN cur - next - 1
  ELSE IF next > cur /\ SEQ_MAX - next + cur < next - cur
       THEN SEQ_MAX - next + cur
       ELSE 0
(* How many packets the arrival of cur skips when next was expected.       *)
Skipped(next, cur) ==
  IF next < cur THEN cur - next                   \* skips forward
  ELSE IF next > cur /\ SEQ_MAX - next + cur < next - cur
       THEN SEQ_MAX - next + cur + 1              \* skips over the rollover
       ELSE 0                                     \* expected, or late

After(n) == (n + 1) % SEQ_MOD

(* The bookkeeping done for one packet.  A packet of another session than  *)
(* the first one is taken as the start of a session: nothing is skipped.   *)
Account(seq, ssrc) ==
  LET session  == IF startup THEN ssrc ELSE current_session
      expected == IF startup \/ ssrc # session THEN seq ELSE next_seqnum
      skipped  == Skipped(expected, seq)
  IN  /\ startup' = FALSE
      /\ current_session' = session
      /\ current_seqnum' = seq
      /\ packets_lost' = packets_lost + skipped
      /\ next_seqnum' = After(IF skipped > 0 THEN seq ELSE expected)
      /\ base' = IF startup THEN seq ELSE base
      /\ arrived' = arrived + 1

AccountNext == \E seq \in 0 .. SEQ_MAX, ssrc \in Sessions : Account(seq, ssrc)
AccountSpec == AccountInit /\ [][AccountNext]_accountVars

-----------------------------------------------------------------------------
(* Properties                                                              *)

(* The values the bookkeeping ranges over.                                 *)
AccountTypeOK ==
  /\ startup \in BOOLEAN /\ current_session \in Sessions
  /\ current_seqnum \in 0 .. SEQ_MAX /\ next_seqnum \in 0 .. SEQ_MAX
  /\ base \in 0 .. SEQ_MAX
  /\ packets_lost \in Nat /\ arrived \in Nat

(* Whatever packets arrive, in whatever order, late or twice: as long as   *)
(* they are of one session, the expected number has moved by exactly the   *)
(* packets that arrived and the packets taken for lost, modulo 2^16.       *)
LossAccounting ==
  ~startup /\ (\A s, t \in Sessions : s = t)
  => (base + arrived + packets_lost) % SEQ_MOD = next_seqnum
=============================================================================
