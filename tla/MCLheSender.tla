---------------------------- MODULE MCLheSender ----------------------------
(***************************************************************************)
(* Instances of LheSender.  With max_chunk_size 30 a packet has 8 bytes    *)
(* left for blocks: lengths 0 and 1 give several blocks a packet, 6 fills  *)
(* one exactly, 7 and 22 are sent alone in an oversized packet and 23 is   *)
(* refused.                                                                *)
(***************************************************************************)
EXTENDS LheSender

Lengths == {0, 1, 6, 7, 22, 23}

(* Every single frame of up to three blocks, ...                           *)
SmallFrames == UNION {[1 .. n -> Lengths] : n \in 1 .. 3}
(* ... frames that exercise the limit on the number of blocks, ...         *)
LongFrames == {<<0, 0, 0, 0, 0>>, <<0, 0, 0, 6, 0, 0, 0>>, <<1, 1, 1, 1>>}
OneFrame == {<< <<f>> >> : f \in SmallFrames \cup LongFrames}
(* ... and directories of several files, of one and of several frames.     *)
Several == {
  << << <<6, 6>>, <<1, 7, 0>> >>, << <<0, 0, 0>> >> >>,
  << << <<6>> >>, << <<0, 1, 1>> >>, << <<22>>, <<6>> >> >>,
  << << <<6>>, <<6, 23>>, <<6>> >>, << <<1, 1>> >> >>,
  << << <<23>> >>, << <<6>> >> >>,
  << << <<1>>, <<1>>, <<1>>, <<1>>, <<1>> >>, << <<1>> >> >> }

MCVideos == OneFrame \cup Several
MCInitialSeqs == {7, 65534}
=============================================================================
