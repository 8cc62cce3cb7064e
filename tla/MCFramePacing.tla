--------------------------- MODULE MCFramePacing ---------------------------
(***************************************************************************)
(* Instances of FramePacing: a second of ten units, three of them from one *)
(* file to the next, so that the times cross whole seconds at every offset.*)
(***************************************************************************)
EXTENDS FramePacing

MCStartTimes == {0, 4, 9}
MCTicks == {1, 2, 7}
=============================================================================
