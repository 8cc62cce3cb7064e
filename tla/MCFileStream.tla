---------------------------- MODULE MCFileStream ----------------------------
(***************************************************************************)
(* Instances of FileStream: videos of two or three frames of up to three   *)
(* blocks, in packets of one or two, so that frames have one, two or three *)
(* packets.  Sequence numbers start where nothing rolls over, and just     *)
(* below 65536 so that the rollover falls inside the stream.               *)
(***************************************************************************)
EXTENDS FileStream

Uniform == { << <<2, 2, 2>> >>, << <<2, 2>>, <<2>> >>, << <<2>>, <<2>>, <<2>> >> }
Lossy   == Uniform \cup { << <<1, 3>> >>, << <<3, 1>> >> }
OneFile == { << <<2, 3, 1>> >>, << <<3, 2>> >>, << <<1, 1, 1, 1>> >>,
             << <<3, 1, 2>> >> }
Mixed   == { << <<2, 1>>, <<2>> >>, << <<2, 2, 2>> >> }
Short   == { << <<2, 2>> >> }

NoRollover == {10}
Rollover == {10, 65532, 65533, 65534}

MCImages == {<<f, g>> : f \in 1 .. 3, g \in 1 .. 4}
=============================================================================
