------------------------------ MODULE VideoLink ------------------------------
(***************************************************************************)
(* What a viewer expects of transmitter, network and receiver together     *)
(* when no packet is lost, late or duplicated: the frames of the video     *)
(* come out one by one, in order, each complete and with nothing in it     *)
(* that belongs to another frame.                                          *)
(***************************************************************************)
EXTENDS Integers, Sequences

CONSTANT Lengths       \* the videos: sequences of numbers of blocks
VARIABLES lengths,     \* lengths[g]: the blocks of frame g
          shown        \* shown[g]: the frame put out at place g, row by row

linkVars == <<lengths, shown>>

LinkInit == lengths \in Lengths /\ shown = <<>>

Whole(g) == [k \in 0 .. lengths[g] - 1 |-> [img |-> <<1, g>>, id |-> k]]

Show == /\ Len(shown) < Len(lengths)
        /\ shown' = Append(shown, Whole(Len(shown) + 1))
        /\ UNCHANGED lengths

LinkSpec == LinkInit /\ [][Show]_linkVars /\ WF_linkVars(Show)
=============================================================================
