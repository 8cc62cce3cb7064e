----------------------------- MODULE RtpPackets -----------------------------
(***************************************************************************)
(* The packets as the reception buffer of LHE_receiver2 and LHE_receiver3  *)
(* holds them: seq, ts, ssrc and m of the RTP header, n (number of         *)
(* blocks), fb (first block id) and im (blocks in the image) of the LHE    *)
(* header, and img, which stands for the frame the header and the blocks   *)
(* were made from.  Block j of frame img is [img |-> img, id |-> j].       *)
(***************************************************************************)
EXTENDS Integers

CONSTANTS
  Sessions,          (* values of the SSRC field                           *)
  Images,            (* the frames headers and blocks can be made from     *)
  Garbage,           (* the content of memory nothing was written to       *)
  IMAGE_BSIZE_MAX,   (* blocks in the largest image: 2880 in the code      *)
  TS_MOD             (* 2^32                                               *)

ASSUME PacketAssumption == IMAGE_BSIZE_MAX \in Nat \ {0} /\ TS_MOD \in Nat \ {0}

SEQ_MAX == 65535
SEQ_MOD == SEQ_MAX + 1

(* What the network can deliver: images are no larger than the largest     *)
(* one, and blocks lie inside it.                                          *)
Packets == {p \in [seq : 0 .. SEQ_MAX, ts : 0 .. TS_MOD - 1, ssrc : Sessions,
                   m : {0, 1}, img : Images, im : 1 .. IMAGE_BSIZE_MAX,
                   fb : 0 .. SEQ_MAX, n : 0 .. 63] :
              p.fb + p.n <= IMAGE_BSIZE_MAX}

NoPacket == [seq |-> 0, ts |-> 0, ssrc |-> 0, m |-> 0, img |-> Garbage, im |-> 0,
             fb |-> 0, n |-> 0]
=============================================================================
