-------------------------- MODULE DirectoryPlayer --------------------------
(***************************************************************************)
(* The player on a directory of .lhe files (LHE_Player/newmain.cc): main   *)
(* and its modes decode, play, step and play_fstream; play_pstream is      *)
(* PipePlayer.  The directory is shared with the receiver that fills it    *)
(* (LHE_receiver.c), which opens the file of a frame, writes it and closes *)
(* it: lhe_decoder takes what it finds there and never reports an error.   *)
(* A frame is the number of its file, in the order of the names.  The      *)
(* names never go back (NamesInOrder, FileReceiver), but the last one is   *)
(* made again for a packet of the finished frame that comes late or twice. *)
(*                                                                         *)
(* pc: "main"; "scan"; "loop" (the loop's condition), "key" (in waitKey),  *)
(* and in play_fstream "unlink", "show", "delete", "free_fstream"; "free"; *)
(* then "end", or "undefined": namelist is read outside its bounds, or the *)
(* headers in a file that is not there yet.                                *)
(***************************************************************************)
EXTENDS Integers, Sequences, FiniteSets

CONSTANTS
  Commands,       (* [option, argc] the player is started with             *)
  Frames,         (* bound: frames the receiver has to write               *)
  MaxAgain,       (* bound: how often it makes its last file again         *)
  InitialFiles    (* how many of them it may have written before           *)

A_BUFFER_SIZE == 1

ASSUME DirectoryAssumption ==
  Frames \in Nat /\ MaxAgain \in Nat /\ InitialFiles \subseteq 0 .. Frames

VARIABLES
  directory,      (* frame |-> its file: whole, or still being written;    *)
                  (* made, the value of again when it was                  *)
  writing,        (* the receiver: the last frame begun,                   *)
  open,           (* whether its file is open,                             *)
  again,          (* and how often it has made a file again                *)
  command, pc, stop,
  namelist, i,
  decode_img,     (* the frame decoded, and the file it was decoded from   *)
  ui,             (* step: the options the keys toggle                     *)
  shown,          (* history: frames shown, or written by decode           *)
  out             (* the numbers of the .png files decode has written      *)
receiverVars == <<writing, open, again>>
playerVars == <<command, pc, stop, namelist, i, decode_img, ui, shown, out>>
vars == <<directory, receiverVars, playerVars>>

Files == DOMAIN directory
n     == Len(namelist)
Mode  == command.option

Init ==
  /\ writing \in InitialFiles /\ open = FALSE /\ again = 0
  /\ directory = [f \in 1 .. writing |-> [whole |-> TRUE, made |-> 0]]
  /\ command \in Commands /\ pc = "main" /\ stop = FALSE
  /\ namelist = <<>> /\ i = 0 /\ decode_img = <<>>
  /\ ui = [showname |-> FALSE, colour |-> 0] /\ shown = <<>> /\ out = <<>>

Without(f) == [g \in Files \ {f} |-> directory[g]]

(***************************************************************************)
(* The receiver                                                            *)
(***************************************************************************)
With(f, file) == [g \in Files \cup {f} |-> IF g = f THEN file ELSE directory[g]]

OpenFile ==
  /\ ~ open /\ writing < Frames /\ open' = TRUE /\ writing' = writing + 1
  /\ directory' = With(writing', [whole |-> FALSE, made |-> again])
  /\ UNCHANGED <<again, playerVars>>

(* After the marker, a packet of the finished frame begins that frame once *)
(* more: its timestamp step is 0, so fopen(out_path, "w+") makes the file  *)
(* of the same name again, empty, whether or not it is still there.        *)
OpenAgain ==
  /\ ~ open /\ writing > 0 /\ again < MaxAgain /\ open' = TRUE /\ again' = again + 1
  /\ directory' = With(writing, [whole |-> FALSE, made |-> again'])
  /\ UNCHANGED <<writing, playerVars>>

(* A file deleted while it was written stays deleted.                      *)
CloseFile ==
  /\ open /\ open' = FALSE
  /\ directory' = [f \in Files |-> [directory[f] EXCEPT !.whole = @ \/ f = writing]]
  /\ UNCHANGED <<writing, again, playerVars>>

(***************************************************************************)
(* main                                                                    *)
(***************************************************************************)
Needs == [decode |-> 4, play |-> 3, step |-> 3, fstream |-> 3]

Main ==
  /\ pc = "main"
  /\ pc' = IF command.argc < 2 \/ command.argc > 4 \/ Mode \notin DOMAIN Needs THEN "end"
           ELSE IF command.argc < Needs[Mode] THEN "end"
           ELSE IF Mode = "fstream" THEN "loop" ELSE "scan"
  /\ UNCHANGED <<directory, receiverVars, command, stop, namelist, i, decode_img, ui, shown, out>>

(* The handler, which every mode installs first.                           *)
SigInt ==
  /\ pc \notin {"main", "end", "undefined"} /\ ~ stop /\ stop' = TRUE
  /\ UNCHANGED <<directory, receiverVars, command, pc, namelist, i, decode_img, ui, shown, out>>

(* scandir with alphasort: the k-th name is the one up to which there are k.*)
Upto(f) == {g \in Files : g <= f}
Scandir == [k \in 1 .. Cardinality(Files) |->
              CHOOSE f \in Files : Cardinality(Upto(f)) = k]

(***************************************************************************)
(* decode, play and step: the directory is read once                       *)
(***************************************************************************)
Scan ==
  /\ pc = "scan" /\ pc' = "loop" /\ namelist' = Scandir /\ i' = 0
  /\ UNCHANGED <<directory, receiverVars, command, stop, decode_img, ui, shown, out>>

(* lhe_decoder on the file with index k of the list.                       *)
FileAt(k)  == directory[namelist[k + 1]]
Decoded(k) == [frame |-> namelist[k + 1], whole |-> FileAt(k).whole, made |-> FileAt(k).made]

LeaveLoop ==
  /\ pc = "loop" /\ Mode # "fstream"
  /\ stop \/ (i >= n /\ Mode # "step")
  /\ pc' = "free"
  /\ UNCHANGED <<directory, receiverVars, command, stop, namelist, i, decode_img, ui, shown, out>>

DecodeFile ==
  /\ pc = "loop" /\ Mode = "decode" /\ ~ stop /\ i < n
  /\ shown' = Append(shown, Decoded(i)) /\ out' = Append(out, Len(out) + 1) /\ i' = i + 1
  /\ UNCHANGED <<directory, receiverVars, command, pc, stop, namelist, decode_img, ui>>

(* The wait until the frame is due is not modelled.                        *)
PlayFile ==
  /\ pc = "loop" /\ Mode = "play" /\ ~ stop /\ i < n
  /\ shown' = Append(shown, Decoded(i))
  /\ \E key \in {"esc", "none"} :
       IF key = "esc" THEN stop' = TRUE /\ pc' = "free" /\ UNCHANGED i
                      ELSE i' = i + 1 /\ UNCHANGED <<stop, pc>>
  /\ UNCHANGED <<directory, receiverVars, command, namelist, decode_img, ui, out>>

StepFile ==
  /\ pc = "loop" /\ Mode = "step" /\ ~ stop
  /\ IF i < n THEN pc' = "key" /\ decode_img' = <<Decoded(i)>>
              ELSE pc' = "undefined" /\ UNCHANGED decode_img
  /\ UNCHANGED <<directory, receiverVars, command, stop, namelist, i, ui, shown, out>>

Back(k)    == IF k > 0 THEN k - 1 ELSE k
Forward(k) == IF k < n - 1 THEN k + 1 ELSE k

StepKey ==
  /\ pc = "key"
  /\ \E key \in {"esc", "up", "down", "space", "left", "other"} :
       /\ stop' = (stop \/ key = "esc")
       /\ pc' = IF key = "esc" THEN "free" ELSE "loop"
       /\ ui' = CASE key = "down"  -> [ui EXCEPT !.showname = ~ @]
                  [] key = "space" -> [ui EXCEPT !.colour = (@ + 1) % 4]
                  [] OTHER -> ui
       /\ i' = CASE key = "left"  -> Back(i) [] key = "other" -> Forward(i) [] OTHER -> i
  /\ UNCHANGED <<directory, receiverVars, command, namelist, decode_img, shown, out>>

Free ==
  /\ pc = "free" /\ pc' = "end"
  /\ UNCHANGED <<directory, receiverVars, command, stop, namelist, i, decode_img, ui, shown, out>>

(***************************************************************************)
(* play_fstream: the directory is read again for every frame               *)
(***************************************************************************)
Latest == namelist[n - A_BUFFER_SIZE + 1]

Mutant_EndPlaying ==                                     \* when a file is there to free
  /\ pc = "loop" /\ Mode = "fstream" /\ stop /\ n > A_BUFFER_SIZE /\ pc' = "free_fstream"
  /\ UNCHANGED <<directory, receiverVars, command, stop, namelist, i, decode_img, ui, shown, out>>

EndPlaying ==
  /\ pc = "loop" /\ Mode = "fstream" /\ stop /\ pc' = "free_fstream"
  /\ UNCHANGED <<directory, receiverVars, command, stop, namelist, i, decode_img, ui, shown, out>>

Mutant_Enough(k) == k > 1 + A_BUFFER_SIZE
Enough(k) == k >= 1 + A_BUFFER_SIZE

Look ==
  /\ pc = "loop" /\ Mode = "fstream" /\ ~ stop
  /\ namelist' = Scandir /\ i' = 0
  /\ \E key \in {"esc", "none"} :
       /\ stop' = (stop \/ key = "esc")
       /\ pc' = IF key = "esc" THEN "free_fstream"
                ELSE IF Enough(Len(Scandir)) THEN "unlink" ELSE "loop"
  /\ UNCHANGED <<directory, receiverVars, command, decode_img, ui, shown, out>>

(* Get rid of all but the two latest.                                      *)
Mutant_TooOld(k) == k < n - (2 + A_BUFFER_SIZE)
TooOld(k) == k < n - (1 + A_BUFFER_SIZE)

DeleteOld ==
  /\ pc = "unlink" /\ TooOld(i)
  /\ directory' = Without(namelist[i + 1])
  /\ i' = i + 1
  /\ stop' = (stop \/ namelist[i + 1] \notin Files)
  /\ UNCHANGED <<receiverVars, command, pc, namelist, decode_img, ui, shown, out>>

DecodeLast ==
  /\ pc = "unlink" /\ ~ TooOld(i)
  /\ pc' = "show" /\ decode_img' = <<Decoded(n - A_BUFFER_SIZE)>>
  /\ UNCHANGED <<directory, receiverVars, command, stop, namelist, i, ui, shown, out>>

ShowLast ==
  /\ pc = "show" /\ pc' = "delete" /\ shown' = Append(shown, decode_img[1])
  /\ \E key \in {"esc", "none"} : stop' = (stop \/ key = "esc")
  /\ UNCHANGED <<directory, receiverVars, command, namelist, i, decode_img, ui, out>>

Mutant_DeletePlayed ==                                   \* not once played
  /\ pc = "delete" /\ pc' = "loop"
  /\ UNCHANGED <<directory, receiverVars, command, stop, namelist, i, decode_img, ui, shown, out>>

DeletePlayed ==
  /\ pc = "delete" /\ pc' = "loop"
  /\ directory' = Without(Latest) /\ stop' = (stop \/ Latest \notin Files)
  /\ UNCHANGED <<receiverVars, command, namelist, i, decode_img, ui, shown, out>>

(* The file of the last entry goes too, played or not; its name is read    *)
(* after it was freed, so that it may be any, or no file's.                *)
FreeStream ==
  /\ pc = "free_fstream"
  /\ IF n >= A_BUFFER_SIZE THEN pc' = "end" /\ directory' \in {directory, Without(Latest)}
                           ELSE pc' = "undefined" /\ UNCHANGED directory
  /\ UNCHANGED <<receiverVars, command, stop, namelist, i, decode_img, ui, shown, out>>

(* An empty or half-written file: where a header is missing, lhe_decoder   *)
(* goes by what its memory held.  (It need not be missing: what there is   *)
(* of the file may be shown.)                                              *)
ReadsUnfinished ==
  \/ pc = "loop" /\ Mode # "fstream" /\ ~ stop /\ i < n /\ ~ FileAt(i).whole
  \/ pc = "unlink" /\ ~ TooOld(i) /\ ~ FileAt(n - A_BUFFER_SIZE).whole
Misread ==
  /\ ReadsUnfinished /\ pc' = "undefined"
  /\ UNCHANGED <<directory, receiverVars, command, stop, namelist, i, decode_img, ui, shown, out>>

Receiver == OpenFile \/ CloseFile
Player ==
  \/ Main \/ Scan \/ LeaveLoop \/ DecodeFile \/ PlayFile \/ StepFile \/ Free
  \/ EndPlaying \/ Look \/ DeleteOld \/ DecodeLast \/ ShowLast \/ DeletePlayed \/ FreeStream
  \/ Misread
Next == Receiver \/ OpenAgain \/ Player \/ StepKey \/ SigInt
Spec == Init /\ [][Next]_vars

(* The processes run; nobody has to press a key, nor to send a packet late *)
(* or twice.                                                               *)
FairSpec == Spec /\ WF_vars(Receiver) /\ WF_vars(Player /\ stop' = stop)

(***************************************************************************)
(* Properties                                                              *)
(***************************************************************************)

(* Besides the types: step never leaves the list, whatever keys are        *)
(* pressed, and a file in the middle of being written is the last.         *)
TypeOK ==
  /\ Files \subseteq 1 .. Frames /\ writing \in 0 .. Frames /\ again \in 0 .. MaxAgain
  /\ \A f \in Files : directory[f] \in [whole : BOOLEAN, made : 0 .. again]
  /\ open \in BOOLEAN /\ stop \in BOOLEAN
  /\ pc \in {"main", "scan", "loop", "key", "unlink", "show", "delete",
             "free", "free_fstream", "end", "undefined"}
  /\ (Mode = "step" /\ n > 0) => i \in 0 .. n - 1
  /\ \A f \in Files : ~ directory[f].whole => f = writing /\ open

(* Frames are shown in order and no file is shown twice, although the      *)
(* directory changes under the player and it deletes files itself: a frame *)
(* comes twice only in play_fstream and only when the receiver has made    *)
(* its file again in between, for a late packet or a copy.                 *)
Before(p, q) == \/ p.frame < q.frame
                \/ Mode = "fstream" /\ p.frame = q.frame /\ p.made < q.made
ShownInOrder ==
  Mode # "step" => \A j, k \in DOMAIN shown : j < k => Before(shown[j], shown[k])

(* decode that was not stopped has converted every file it found, and      *)
(* numbered the pictures without a gap, as ffmpeg needs them.              *)
AllDecoded ==
  (Mode = "decode" /\ pc = "end" /\ command.argc = 4 /\ ~ stop) =>
    /\ [k \in DOMAIN shown |-> shown[k].frame] = namelist
    /\ out = [k \in 1 .. n |-> k]

(* Together: the pictures shown are those of the directory, in order.      *)
ShowsTheDirectory == TypeOK /\ ShownInOrder /\ AllDecoded

(* While it plays, play_fstream deletes no frame that was not shown unless *)
(* a later one is there to show instead.  (One made again between its show *)
(* and its deletion goes, too.)                                            *)
DeletesOldOnly ==
  pc # "free_fstream" =>
    \A f \in Files \ DOMAIN directory' :
      \/ \E g \in DOMAIN directory' : g > f
      \/ \E k \in DOMAIN shown : shown[k].frame = f

(* What is left behind stays bounded: of the frames before the one just    *)
(* played, play_fstream leaves A_BUFFER_SIZE files, and of that one itself *)
(* none but a file made again since.                                       *)
LeftoverBounded ==
  (Mode = "fstream" /\ pc = "loop" /\ shown # <<>>) =>
    LET last == shown[Len(shown)]
    IN  /\ Cardinality({f \in Files : f < last.frame}) <= A_BUFFER_SIZE
        /\ last.frame \in Files => directory[last.frame].made > last.made

(* Together: the directory is cleared, and only of what is past.           *)
ClearsThePast == [][DeletesOldOnly /\ LeftoverBounded']_vars

(* The last frame of a stream of at least two comes to be shown, or its    *)
(* file is read too early: a file that is not written to its end is shown  *)
(* as far as it is there, if at all, and then deleted.  When the last file *)
(* is finished and another one is there, the whole frame is shown, unless  *)
(* the receiver makes it again first.                                      *)
Playing == Mode = "fstream" /\ pc = "loop"
LastFrameShown ==
  /\ (Playing /\ Frames >= 2) ~>
       (stop \/ pc = "undefined" \/ \E k \in DOMAIN shown : shown[k].frame = Frames)
  /\ (Playing /\ Frames \in Files /\ directory[Frames].whole /\ Cardinality(Files) >= 2) ~>
       (stop \/ open \/ \E k \in DOMAIN shown : shown[k].frame = Frames /\ shown[k].whole)

(* SIGINT and escape end the player, except while step waits for a key.    *)
StopEnds == stop ~> pc \in {"end", "undefined", "key"}
=============================================================================
