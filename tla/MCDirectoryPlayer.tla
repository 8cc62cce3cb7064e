------------------------- MODULE MCDirectoryPlayer -------------------------
(* Instances of DirectoryPlayer: every mode, with enough arguments and     *)
(* without.                                                                *)
EXTENDS DirectoryPlayer

MCCommands ==
  { [option |-> o, argc |-> c] : o \in {"decode", "play", "step", "fstream"}, c \in 3 .. 4 }
  \cup { [option |-> "help", argc |-> 2], [option |-> "play", argc |-> 2],
         [option |-> "none", argc |-> 1], [option |-> "decode", argc |-> 5] }
=============================================================================
