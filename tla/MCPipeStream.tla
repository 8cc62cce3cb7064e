---------------------------- MODULE MCPipeStream ----------------------------
(***************************************************************************)
(* Instances of PipeStream: two or three frames of up to three blocks,     *)
(* decoded by two threads, so that a frame of which one block arrives has  *)
(* fewer blocks than there are threads, and one with three uses a slot     *)
(* twice.                                                                  *)
(***************************************************************************)
EXTENDS PipeStream

Videos == { << <<3, 1>> >>, << <<2>>, <<2>> >> }
Short  == { << <<2, 2>> >> }

NoRollover == {10}
Rollover == {10, 65534}
NoBlocks == {}

MCImages == {<<1, 1>>, <<1, 2>>, <<2, 1>>, <<3, 1>>}
=============================================================================
