----------------------------- MODULE BlockMover -----------------------------
(***************************************************************************)
(* block_mover_lib.c: the pointers by which the transmitter follows the    *)
(* codec hardware.  The hardware (external) publishes the blocks of frame  *)
(* after frame and never waits; hw is the position PTR_VALID_BLOCK stands  *)
(* for, in frames since the start, of which the register keeps 16 bits.    *)
(* The library keeps a 16-bit frame counter of its own, the number of      *)
(* blocks of the last frame whose header it has read, and how many blocks  *)
(* it may hand out before it must look at the register again.  The blocks  *)
(* themselves are not modelled: where memory holds them is the hardware's. *)
(***************************************************************************)
EXTENDS Integers, Sequences

CONSTANTS
  Videos,        (* what the camera sees: sequences of frames, a frame the *)
                 (* sequence of the lengths of its blocks                  *)
  FirstFrames,   (* values the 16-bit frame counter may start from         *)
  StaleBlocks    (* values number_blocks may keep from an earlier session  *)

FRAME_MOD == 65536
BLK_WR_BEFORE_RD == 0

ASSUME MoverAssumption ==
  /\ \A v \in Videos : v \in Seq(Seq(Nat)) /\ \A f \in DOMAIN v : Len(v[f]) > 0
  /\ FirstFrames \subseteq 0 .. FRAME_MOD - 1 /\ StaleBlocks \subseteq Nat

VARIABLES
  video, first_frame,
  hw,                          (* [f, b]: f frames published, and b blocks *)
  current_frame, current_block, number_blocks,
  number_of_available_blocks
cameraVars == <<video, first_frame, hw>>
moverVars  == <<current_frame, current_block, number_blocks,
                number_of_available_blocks>>

MoverInit ==
  /\ video \in Videos /\ first_frame \in FirstFrames /\ hw = [f |-> 0, b |-> 0]
  /\ current_frame = 1 /\ current_block = 0
  /\ number_blocks \in StaleBlocks /\ number_of_available_blocks = 0

(* External: one more block of the frame is valid; after the last one the  *)
(* register shows the next frame with none.                                *)
HwBlock ==
  /\ hw.f < Len(video)
  /\ hw' = IF hw.b + 1 = Len(video[hw.f + 1]) THEN [f |-> hw.f + 1, b |-> 0]
                                             ELSE [hw EXCEPT !.b = @ + 1]
  /\ UNCHANGED <<video, first_frame, moverVars>>

HwFrame  == (first_frame + hw.f) % FRAME_MOD    (* the upper 16 bits         *)
FrameOf(counter) == (counter - first_frame) % FRAME_MOD
Header   == Len(video[FrameOf(current_frame) + 1])

StartStreaming ==
  /\ number_of_available_blocks' = 0
  /\ current_frame' = (HwFrame + 1) % FRAME_MOD /\ current_block' = 0
  /\ UNCHANGED <<cameraVars, number_blocks>>

Unwrapped(diff) == IF diff < -1 THEN diff + FRAME_MOD ELSE diff
AsInt16(x) == IF x >= 32768 THEN x - FRAME_MOD ELSE x

(* get_lhe_global_header takes the register's frame as a signed number.    *)
HeaderDiff  == Unwrapped(AsInt16(HwFrame) - current_frame)
HeaderReady == \/ hw.b > BLK_WR_BEFORE_RD + 1 /\ HeaderDiff = 0
               \/ HeaderDiff > 0

(* More than a frame behind: go to the hardware's frame, and ask again.    *)
Resync ==
  /\ HeaderReady /\ HeaderDiff > 1
  /\ current_frame' = HwFrame
  /\ UNCHANGED <<cameraVars, current_block, number_blocks,
                 number_of_available_blocks>>

Mutant_Announced == IF HeaderDiff = 0 THEN hw.b + 1 ELSE number_blocks
(* With the whole frame published this is the size of the PREVIOUS frame.  *)
Announced == IF HeaderDiff = 0 THEN hw.b ELSE number_blocks

GetGlobalHeader ==
  /\ HeaderReady /\ HeaderDiff <= 1
  /\ number_of_available_blocks' = Announced
  /\ current_block' = 0 /\ number_blocks' = Header
  /\ UNCHANGED <<cameraVars, current_frame>>

BlockDiff == Unwrapped(HwFrame - current_frame)
Mutant_Available ==                          \* the hardware's frame not looked at
  IF number_of_available_blocks >= 1 THEN number_of_available_blocks
                                     ELSE hw.b - current_block
Available == IF number_of_available_blocks >= 1 THEN number_of_available_blocks
             ELSE (IF BlockDiff > 0 THEN number_blocks ELSE hw.b) - current_block

EndOfFrame == current_block = number_blocks - 1
GetNextBlock ==
  /\ Available > 0
  /\ number_of_available_blocks' = Available - 1
  /\ current_block' = IF EndOfFrame THEN 0 ELSE current_block + 1
  /\ current_frame' = IF EndOfFrame THEN (current_frame + 1) % FRAME_MOD
                                    ELSE current_frame
  /\ UNCHANGED <<cameraVars, number_blocks>>
=============================================================================
