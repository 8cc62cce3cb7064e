--------------------------- MODULE MCMemorySender ---------------------------
(***************************************************************************)
(* Instances of MemorySender: three frames of one to three blocks, among   *)
(* them one that must be queued, one larger than any packet and one the    *)
(* sender will not copy; frame counters that wrap at 2^16 and that change  *)
(* sign as 16-bit numbers.                                                 *)
(***************************************************************************)
EXTENDS MemorySender

MCVideos == { << <<3, 9, 3>>, <<4, 2>>, <<3, 3, 3>> >>,
              << <<5>>, <<12, 3, 13>>, <<8, 8>> >>,
              << <<3, 3>>, <<2, 8, 4>>, <<20>> >> }
MCFirstFrames == {7, 32766, 65533, 65534}
=============================================================================
