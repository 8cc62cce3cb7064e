----------------------- MODULE DirectoryPlayerProofs -----------------------
(***************************************************************************)
(* DirectoryPlayer: the pictures shown are those of the directory, in      *)
(* order, and play_fstream clears only what is past.  DirectoryInv says    *)
(* which files can be there: what the receiver has begun, and of that what *)
(* the player has not deleted at this point of its loop, or what was made  *)
(* again since.                                                            *)
(***************************************************************************)
EXTENDS DirectoryPlayer, FiniteSetTheorems, TLAPS

Points == {"main", "scan", "loop", "key", "unlink", "show", "delete",
           "free", "free_fstream", "end", "undefined"}
File == [whole : BOOLEAN, made : Nat]
Pictures == [frame : 1 .. Frames, whole : BOOLEAN, made : Nat]

(* A list of names, as scandir makes them.                                 *)
Sorted(s) == \A j, k \in DOMAIN s : j < k => s[j] < s[k]

(* Files are of frames begun, and complete but for the one being written.  *)
FilesInv ==
  /\ writing \in 0 .. Frames /\ again \in 0 .. MaxAgain /\ open \in BOOLEAN
  /\ Files \subseteq 1 .. Frames
  /\ \A f \in Files : directory[f] \in File /\ directory[f].made <= again
  /\ \A f \in Files : f <= writing /\ (~ directory[f].whole => f = writing /\ open)

(* Which mode is at which point.                                           *)
ModeInv ==
  /\ pc \in Points /\ stop \in BOOLEAN
  /\ pc \in {"scan", "free"} => Mode \in {"decode", "play", "step"}
  /\ pc = "loop" => Mode \in {"decode", "play", "step", "fstream"}
  /\ pc = "key" => Mode = "step"
  /\ pc \in {"unlink", "show", "delete", "free_fstream"} => Mode = "fstream"

(* The list read last: sorted, of frames begun; where the directory is     *)
(* read once, of files that stay.                                          *)
ListInv ==
  /\ namelist \in Seq(1 .. Frames) /\ Sorted(namelist) /\ i \in Nat
  /\ \A k \in DOMAIN namelist : namelist[k] <= writing
  /\ Mode \in {"decode", "play", "step"} =>
       \A k \in DOMAIN namelist : namelist[k] \in Files
  /\ Mode = "step" /\ n > 0 => i \in 0 .. n - 1

(* decode and play have shown the list so far.                             *)
OnceInv ==
  /\ shown \in Seq(Pictures)
  /\ Mode \notin {"decode", "play", "fstream"} \/ pc = "main" => shown = <<>>
  /\ pc = "scan" => shown = <<>>
  /\ Mode \in {"decode", "play"} =>
       /\ Len(shown) <= n /\ \A k \in DOMAIN shown : shown[k].frame = namelist[k]
       /\ pc = "loop" => Len(shown) = i
  /\ Mode = "decode" =>
       /\ out = [k \in 1 .. Len(shown) |-> k]
       /\ pc \in {"free", "end"} /\ ~ stop /\ command.argc = 4 => Len(shown) = n

(* play_fstream shows q after p: a later frame, or one made again.         *)
Later(p, q) == p.frame < q.frame \/ (p.frame = q.frame /\ p.made < q.made)

(* play_fstream: what it has shown it does not find again, but for one     *)
(* file before the last shown and one that was made again; while it deals  *)
(* with a list, what the list had from i on is there, and nothing else     *)
(* that is not newer.                                                      *)
StreamInv ==
  Mode = "fstream" =>
    /\ \A k \in DOMAIN shown : shown[k].frame <= writing /\ shown[k].made <= again
    /\ \A j, k \in DOMAIN shown : j < k => Later(shown[j], shown[k])
    /\ pc = "loop" =>
         \A k \in DOMAIN shown, f, g \in Files :
           f < shown[k].frame /\ g < shown[k].frame => f = g
    /\ pc \in {"loop", "unlink", "show", "delete"} =>
         \A k \in DOMAIN shown, f \in Files :
           f = shown[k].frame => \/ directory[f].made > shown[k].made
                                 \/ pc = "delete" /\ f = namelist[n]
    /\ pc \in {"unlink", "show", "delete"} =>
         /\ n >= 2 /\ i \in 0 .. n - 2
         /\ \A k \in i + 1 .. n : namelist[k] \in Files
         /\ \A f \in Files : f > namelist[n] \/ \E k \in i + 1 .. n : f = namelist[k]
         /\ \A k \in DOMAIN shown : shown[k].frame <= namelist[n]
    /\ pc \in {"show", "delete"} => i = n - 2
    /\ pc = "show" =>
         /\ decode_img[1] \in Pictures /\ decode_img[1].frame = namelist[n]
         /\ decode_img[1].made <= again
         /\ \A k \in DOMAIN shown : Later(shown[k], decode_img[1])
    /\ pc = "delete" => shown # <<>> /\ shown[Len(shown)].frame = namelist[n]

DirectoryInv == FilesInv /\ ModeInv /\ ListInv /\ OnceInv /\ StreamInv

(* scandir: the k-th name is well defined, as many names are up to it, and *)
(* the list is sorted and complete.                                        *)
LEMMA Listed ==
  ASSUME FilesInv
  PROVE  /\ Scandir \in Seq(Files) /\ Sorted(Scandir)
         /\ \A f \in Files : \E k \in DOMAIN Scandir : f = Scandir[k]
<1> DEFINE c == Cardinality(Files)
           rank == [f \in Files |-> Cardinality(Upto(f))]
<1>1. Files \subseteq Int /\ Files \in SUBSET Nat /\ Frames \in Nat
  BY DirectoryAssumption DEF FilesInv
<1>2. IsFiniteSet(Files) /\ c \in Nat
  <2>1. \A f \in Files : f <= Frames
    BY <1>1 DEF FilesInv
  <2>2. IsFiniteSet(Files)
    BY <1>1, <2>1, FS_BoundedSetOfNaturals
  <2> QED
    BY <2>2, FS_CardinalityType
<1>3. \A f \in Files : IsFiniteSet(Upto(f)) /\ Cardinality(Upto(f)) \in 1 .. c
  <2> SUFFICES ASSUME NEW f \in Files
               PROVE  IsFiniteSet(Upto(f)) /\ Cardinality(Upto(f)) \in 1 .. c
    OBVIOUS
  <2>1. Upto(f) \in SUBSET Files /\ f \in Upto(f)
    BY <1>1 DEF Upto
  <2>2. IsFiniteSet(Upto(f)) /\ Cardinality(Upto(f)) <= c
    BY <1>2, <2>1, FS_Subset
  <2>3. Cardinality(Upto(f)) \in Nat /\ Cardinality(Upto(f)) # 0
    BY <2>1, <2>2, FS_CardinalityType, FS_EmptySet
  <2> QED
    BY <1>2, <2>2, <2>3
<1>4. \A f, g \in Files : f < g => Cardinality(Upto(f)) < Cardinality(Upto(g))
  <2> SUFFICES ASSUME NEW f \in Files, NEW g \in Files, f < g
               PROVE  Cardinality(Upto(f)) < Cardinality(Upto(g))
    OBVIOUS
  <2>3. f \in Nat /\ g \in Nat /\ \A h \in Files : h \in Nat
    BY <1>1
  <2>1. Upto(f) \in SUBSET Upto(g) /\ g \in Upto(g) /\ g \notin Upto(f)
    <3>1. (\A h \in Files : h <= f => h <= g) /\ g <= g /\ ~ (g <= f)
      BY <2>3
    <3> QED
      BY <3>1 DEF Upto
  <2>2. /\ Cardinality(Upto(f)) <= Cardinality(Upto(g))
        /\ Cardinality(Upto(g)) # Cardinality(Upto(f))
    BY <1>3, <2>1, FS_Subset
  <2> QED
    BY <1>3, <2>2
<1>5. rank \in Injection(Files, 1 .. c)
  <2>1. rank \in [Files -> 1 .. c]
    BY <1>3
  <2>2. \A f, g \in Files : rank[f] = rank[g] => f = g
    BY <1>1, <1>3, <1>4
  <2> QED
    BY <2>1, <2>2 DEF Injection, IsInjective
<1>6. \A k \in 1 .. c : \E f \in Files : Cardinality(Upto(f)) = k
  <2>1. IsFiniteSet(1 .. c) /\ Cardinality(1 .. c) = c
    BY <1>2, FS_Interval
  <2> HIDE DEF rank, c
  <2>2. rank \in Surjection(Files, 1 .. c)
    BY <1>5, <2>1, FS_Injection DEF c
  <2>3. \A k \in 1 .. c : \E f \in Files : rank[f] = k
    BY <2>2 DEF Surjection
  <2> QED
    BY <2>3 DEF rank
<1>7. \A k \in 1 .. c : Scandir[k] \in Files /\ Cardinality(Upto(Scandir[k])) = k
  BY <1>6 DEF Scandir
<1>8. DOMAIN Scandir = 1 .. c
  BY DEF Scandir
<1>9. Scandir \in Seq(Files)
  <2>1. Scandir = [k \in 1 .. c |-> Scandir[k]]
    BY DEF Scandir
  <2>2. Scandir \in [1 .. c -> Files]
    BY <1>7, <2>1
  <2> HIDE DEF c
  <2> QED
    BY <1>2, <2>2
<1>10. Sorted(Scandir)
  <2> SUFFICES ASSUME NEW j \in 1 .. c, NEW k \in 1 .. c, j < k
               PROVE  Scandir[j] < Scandir[k]
    BY <1>8 DEF Sorted
  <2>1. /\ Scandir[j] \in Files /\ Cardinality(Upto(Scandir[j])) = j
        /\ Scandir[k] \in Files /\ Cardinality(Upto(Scandir[k])) = k
    BY <1>7
  <2>2. ~ (Scandir[k] < Scandir[j])
    BY <1>2, <1>4, <2>1
  <2>3. Scandir[k] # Scandir[j]
    BY <1>2, <2>1
  <2>4. Scandir[j] \in Nat /\ Scandir[k] \in Nat
    BY <1>1, <2>1
  <2> QED
    BY <2>2, <2>3, <2>4
<1>11. \A f \in Files : \E k \in DOMAIN Scandir : f = Scandir[k]
  <2> SUFFICES ASSUME NEW f \in Files PROVE \E k \in 1 .. c : f = Scandir[k]
    BY <1>8
  <2>1. PICK k \in 1 .. c : k = Cardinality(Upto(f))
    BY <1>3
  <2>2. Scandir[k] \in Files /\ Cardinality(Upto(Scandir[k])) = k
    BY <1>7
  <2>3. ~ (f < Scandir[k]) /\ ~ (Scandir[k] < f)
    BY <1>2, <1>4, <2>1, <2>2
  <2>4. f \in Nat /\ Scandir[k] \in Nat
    BY <1>1, <2>2
  <2> QED
    BY <2>3, <2>4
<1> QED
  BY <1>9, <1>10, <1>11

(* What a sequence of names is.                                            *)
LEMMA SeqOf ==
  ASSUME NEW S
  PROVE  /\ \A s \in Seq(S) : Len(s) \in Nat /\ \A k \in DOMAIN s : s[k] \in S
         /\ \A T \in SUBSET S : \A s \in Seq(T) : s \in Seq(S)
OBVIOUS

(* What a name and a file are.                                             *)
LEMMA FileTypes ==
  ASSUME FilesInv
  PROVE  /\ Frames \in Nat /\ writing \in Nat /\ again \in Nat /\ MaxAgain \in Nat
         /\ \A f \in Files : f \in Nat /\ directory[f].made \in Nat
         /\ \A f \in 1 .. Frames : f \in Nat
BY DirectoryAssumption DEF FilesInv, File

(* A_BUFFER_SIZE counts from the end: the file that is played is the last. *)
LEMMA LastOfList ==
  ASSUME ListInv
  PROVE  /\ n \in Nat /\ DOMAIN namelist = 1 .. n /\ Latest = namelist[n]
         /\ Decoded(n - A_BUFFER_SIZE) =
              [frame |-> namelist[n], whole |-> directory[namelist[n]].whole,
               made |-> directory[namelist[n]].made]
<1>1. n \in Nat /\ DOMAIN namelist = 1 .. n
  BY DEF ListInv, n
<1>2. n - A_BUFFER_SIZE + 1 = n
  BY <1>1 DEF A_BUFFER_SIZE
<1> QED
  BY <1>1, <1>2 DEF Latest, Decoded, FileAt

(* What becomes of the files in a step: the receiver adds the one it       *)
(* begins, or makes the last one again; only play_fstream deletes, and     *)
(* what, in a loop over the list.                                          *)
LEMMA Moves ==
  ASSUME DirectoryInv, [Next]_vars
  PROVE  /\ command' = command
         /\ writing' \in Nat /\ writing <= writing' /\ again' \in Nat /\ again <= again'
         /\ \A f \in Files' : \/ f \in Files /\ directory'[f].made = directory[f].made
                              \/ OpenFile /\ f = writing + 1
                              \/ OpenAgain /\ f = writing /\ directory'[f].made = again + 1
         /\ \A f \in Files : \/ f \in Files'
                             \/ DeleteOld /\ f = namelist[i + 1]
                             \/ DeletePlayed /\ f = Latest
                             \/ FreeStream /\ f = Latest
<1>t. /\ FilesInv /\ writing \in Nat /\ again \in Nat
      /\ \A f \in Files : f \in Nat /\ directory[f] \in File
  BY FileTypes DEF DirectoryInv, FilesInv
<1>k. ASSUME UNCHANGED receiverVars
      PROVE  /\ writing' \in Nat /\ writing <= writing'
             /\ again' \in Nat /\ again <= again'
  BY <1>t, <1>k DEF receiverVars
<1>1. CASE OpenFile
  <2>1. /\ UNCHANGED <<again, playerVars>> /\ writing' = writing + 1
        /\ Files' = Files \cup {writing + 1}
        /\ \A f \in Files : f # writing + 1 => directory'[f] = directory[f]
    BY <1>1 DEF OpenFile, With, Files
  <2>2. command' = command
    BY <2>1 DEF playerVars
  <2> QED
    BY <1>t, <1>1, <2>1, <2>2
<1>2. CASE OpenAgain
  <2>1. /\ UNCHANGED <<writing, playerVars>> /\ again' = again + 1
        /\ Files' = Files \cup {writing}
        /\ directory'[writing] = [whole |-> FALSE, made |-> again + 1]
        /\ \A f \in Files : f # writing => directory'[f] = directory[f]
    BY <1>2 DEF OpenAgain, With, Files
  <2>2. command' = command
    BY <2>1 DEF playerVars
  <2> QED
    BY <1>t, <1>2, <2>1, <2>2
<1>3. CASE CloseFile
  <2>1. /\ UNCHANGED <<writing, again, playerVars>> /\ Files' = Files
        /\ \A f \in Files :
             directory'[f] = [directory[f] EXCEPT !.whole = @ \/ f = writing]
    BY <1>3 DEF CloseFile, Files
  <2>2. \A f \in Files' : directory'[f].made = directory[f].made
    BY <1>t, <2>1 DEF File
  <2>3. command' = command
    BY <2>1 DEF playerVars
  <2> QED
    BY <1>t, <2>1, <2>2, <2>3
<1>4. CASE DeleteOld
  <2>1. /\ UNCHANGED <<receiverVars, command>>
        /\ Files' = Files \ {namelist[i + 1]}
        /\ \A f \in Files' : directory'[f] = directory[f]
    BY <1>4 DEF DeleteOld, Without, Files
  <2> QED
    BY <1>k, <1>4, <2>1
<1>5. CASE DeletePlayed
  <2>1. /\ UNCHANGED <<receiverVars, command>> /\ Files' = Files \ {Latest}
        /\ \A f \in Files' : directory'[f] = directory[f]
    BY <1>5 DEF DeletePlayed, Without, Files
  <2> QED
    BY <1>k, <1>5, <2>1
<1>6. CASE FreeStream
  <2>1. /\ UNCHANGED <<receiverVars, command>>
        /\ Files' = Files \/ Files' = Files \ {Latest}
        /\ \A f \in Files' : directory'[f] = directory[f]
    BY <1>6 DEF FreeStream, Without, Files
  <2> QED
    BY <1>k, <1>6, <2>1
<1>7. CASE UNCHANGED <<directory, receiverVars, command>>
  <2>1. Files' = Files /\ command' = command /\ directory' = directory
    BY <1>7 DEF Files
  <2> QED
    BY <1>k, <1>7, <2>1
<1>8. ASSUME Main \/ SigInt \/ Scan \/ LeaveLoop \/ DecodeFile \/ Misread
      PROVE  UNCHANGED <<directory, receiverVars, command>>
  BY <1>8 DEF Main, SigInt, Scan, LeaveLoop, DecodeFile, Misread
<1>9. ASSUME PlayFile \/ StepFile \/ StepKey \/ Free \/ EndPlaying
      PROVE  UNCHANGED <<directory, receiverVars, command>>
  BY <1>9 DEF PlayFile, StepFile, StepKey, Free, EndPlaying
<1>10. ASSUME Look \/ DecodeLast \/ ShowLast \/ UNCHANGED vars
       PROVE  UNCHANGED <<directory, receiverVars, command>>
  BY <1>10 DEF Look, DecodeLast, ShowLast, vars, playerVars
<1> QED
  BY <1>1, <1>2, <1>3, <1>4, <1>5, <1>6, <1>7, <1>8, <1>9, <1>10 DEF Next, Receiver, Player

(* Files stay of frames begun, complete but for the one being written.     *)
LEMMA FilesNext == DirectoryInv /\ [Next]_vars => FilesInv'
<1> SUFFICES ASSUME DirectoryInv, [Next]_vars PROVE FilesInv'
  OBVIOUS
<1>i. FilesInv
  BY DEF DirectoryInv
<1>t. /\ Frames \in Nat /\ writing \in Nat /\ again \in Nat /\ MaxAgain \in Nat
      /\ \A f \in Files : f \in Nat /\ directory[f].made \in Nat
  BY <1>i, FileTypes
<1>1. CASE OpenFile
  <2> DEFINE w == writing + 1
  <2>1. /\ writing' = w /\ open' = TRUE /\ ~ open /\ writing < Frames /\ again' = again
        /\ Files' = Files \cup {w}
        /\ directory'[w] = [whole |-> FALSE, made |-> again]
        /\ \A f \in Files : f # w => directory'[f] = directory[f]
    BY <1>1 DEF OpenFile, With, Files
  <2>2. w \in 1 .. Frames /\ directory'[w] \in File /\ directory'[w].made = again
    BY <1>t, <2>1 DEF File
  <2>3. \A f \in Files : f # w /\ f < w /\ directory[f].whole
    BY <1>i, <1>t, <2>1 DEF FilesInv
  <2> HIDE DEF w
  <2>4. \A f \in Files' : directory'[f] \in File /\ directory'[f].made <= again'
    BY <1>i, <1>t, <2>1, <2>2, <2>3 DEF FilesInv
  <2>5. \A f \in Files' :
          f <= writing' /\ (~ directory'[f].whole => f = writing' /\ open')
    BY <1>t, <2>1, <2>2, <2>3
  <2>6. writing' \in 0 .. Frames /\ Files' \subseteq 1 .. Frames
    BY <1>i, <1>t, <2>1, <2>2 DEF FilesInv
  <2> QED
    BY <1>i, <2>1, <2>4, <2>5, <2>6 DEF FilesInv
<1>2. CASE OpenAgain
  <2>1. /\ writing' = writing /\ open' = TRUE /\ ~ open /\ writing > 0
        /\ again < MaxAgain /\ again' = again + 1
        /\ Files' = Files \cup {writing}
        /\ directory'[writing] = [whole |-> FALSE, made |-> again + 1]
        /\ \A f \in Files : f # writing => directory'[f] = directory[f]
    BY <1>2 DEF OpenAgain, With, Files
  <2>2. directory'[writing] \in File /\ directory'[writing].made = again + 1
    BY <1>t, <2>1 DEF File
  <2>3. \A f \in Files : directory[f].whole
    BY <1>i, <2>1 DEF FilesInv
  <2>4. \A f \in Files' : directory'[f] \in File /\ directory'[f].made <= again'
    BY <1>i, <1>t, <2>1, <2>2 DEF FilesInv
  <2>5. \A f \in Files' :
          f <= writing' /\ (~ directory'[f].whole => f = writing' /\ open')
    BY <1>i, <1>t, <2>1, <2>3 DEF FilesInv
  <2>6. again' \in 0 .. MaxAgain /\ Files' \subseteq 1 .. Frames
    BY <1>i, <1>t, <2>1 DEF FilesInv
  <2> QED
    BY <1>i, <2>1, <2>4, <2>5, <2>6 DEF FilesInv
<1>3. CASE CloseFile
  <2>1. /\ writing' = writing /\ open /\ open' = FALSE /\ again' = again
        /\ Files' = Files
        /\ \A f \in Files :
             directory'[f] = [directory[f] EXCEPT !.whole = @ \/ f = writing]
    BY <1>3 DEF CloseFile, Files
  <2>2. \A f \in Files : directory[f] \in File /\ (~ directory[f].whole => f = writing)
    BY <1>i DEF FilesInv
  <2>3. \A f \in Files' : /\ directory'[f] \in File /\ directory'[f].whole
                          /\ directory'[f].made = directory[f].made
    BY <2>1, <2>2 DEF File
  <2> QED
    BY <1>i, <2>1, <2>3 DEF FilesInv
<1>4. ASSUME NEW g, directory' = Without(g), UNCHANGED receiverVars PROVE FilesInv'
  <2>1. /\ writing' = writing /\ open' = open /\ again' = again /\ Files' = Files \ {g}
        /\ \A f \in Files' : directory'[f] = directory[f]
    BY <1>4 DEF Without, receiverVars, Files
  <2> QED
    BY <1>i, <2>1 DEF FilesInv
<1>5. CASE UNCHANGED <<directory, receiverVars>>
  BY <1>i, <1>5 DEF FilesInv, Files, receiverVars
<1>6. ASSUME DeleteOld \/ DeletePlayed \/ FreeStream PROVE FilesInv'
  BY <1>4, <1>5, <1>6 DEF DeleteOld, DeletePlayed, FreeStream
<1>7. ASSUME Main \/ SigInt \/ Scan \/ LeaveLoop \/ DecodeFile \/ Misread
      PROVE  UNCHANGED <<directory, receiverVars>>
  BY <1>7 DEF Main, SigInt, Scan, LeaveLoop, DecodeFile, Misread
<1>8. ASSUME PlayFile \/ StepFile \/ StepKey \/ Free \/ EndPlaying
      PROVE  UNCHANGED <<directory, receiverVars>>
  BY <1>8 DEF PlayFile, StepFile, StepKey, Free, EndPlaying
<1>9. ASSUME Look \/ DecodeLast \/ ShowLast \/ UNCHANGED vars
      PROVE  UNCHANGED <<directory, receiverVars>>
  BY <1>9 DEF Look, DecodeLast, ShowLast, vars
<1> QED
  BY <1>1, <1>2, <1>3, <1>5, <1>6, <1>7, <1>8, <1>9 DEF Next, Receiver, Player

(* Each mode keeps to its part of the code.                                *)
LEMMA ModeNext == DirectoryInv /\ [Next]_vars => ModeInv'
<1> SUFFICES ASSUME DirectoryInv, [Next]_vars PROVE ModeInv'
  OBVIOUS
<1>i. ModeInv /\ Mode' = Mode
  BY Moves DEF DirectoryInv, Mode
<1>1. CASE Main
  BY <1>i, <1>1 DEF Main, ModeInv, Points, Needs
<1>2. CASE SigInt \/ UNCHANGED vars \/ Receiver \/ OpenAgain
  BY <1>i, <1>2
     DEF SigInt, Receiver, OpenFile, OpenAgain, CloseFile, vars, playerVars, ModeInv
<1>3. CASE Scan \/ LeaveLoop \/ DecodeFile \/ StepFile \/ Misread
  BY <1>i, <1>3 DEF Scan, LeaveLoop, DecodeFile, StepFile, Misread, ModeInv, Points
<1>4. CASE PlayFile
  BY <1>i, <1>4 DEF PlayFile, ModeInv, Points
<1>5. CASE StepKey
  BY <1>i, <1>5 DEF StepKey, ModeInv, Points
<1>6. CASE Free \/ EndPlaying
  BY <1>i, <1>6 DEF Free, EndPlaying, ModeInv, Points
<1>7. CASE Look
  BY <1>i, <1>7 DEF Look, ModeInv, Points
<1>8. CASE DeleteOld
  BY <1>i, <1>8 DEF DeleteOld, ModeInv, Points
<1>9. CASE DecodeLast \/ ShowLast \/ DeletePlayed
  BY <1>i, <1>9 DEF DecodeLast, ShowLast, DeletePlayed, ModeInv, Points
<1>10. CASE FreeStream
  BY <1>i, <1>10 DEF FreeStream, ModeInv, Points
<1> QED
  BY <1>1, <1>2, <1>3, <1>4, <1>5, <1>6, <1>7, <1>8, <1>9, <1>10 DEF Next, Player

(* A list that is kept stays a list of frames begun, and where the         *)
(* directory is read once, of files.                                       *)
LEMMA ListKept ==
  ASSUME DirectoryInv, [Next]_vars, namelist' = namelist
  PROVE  /\ namelist' \in Seq(1 .. Frames) /\ Sorted(namelist')
         /\ \A k \in DOMAIN namelist' : namelist[k] <= writing'
         /\ Mode \in {"decode", "play", "step"} =>
              \A k \in DOMAIN namelist' : namelist[k]' \in Files'
<1>i. ListInv /\ ModeInv /\ FilesInv
  BY DEF DirectoryInv
<1>1. /\ namelist \in Seq(1 .. Frames) /\ Sorted(namelist)
      /\ \A k \in DOMAIN namelist : namelist[k] \in 1 .. Frames /\ namelist[k] <= writing
      /\ Mode \in {"decode", "play", "step"} =>
           \A k \in DOMAIN namelist : namelist[k] \in Files
  <2>1. namelist \in Seq(1 .. Frames)
    BY <1>i DEF ListInv
  <2>2. \A k \in DOMAIN namelist : namelist[k] \in 1 .. Frames
    BY <2>1, SeqOf
  <2> QED
    BY <1>i, <2>1, <2>2 DEF ListInv
<1>2. \A k \in DOMAIN namelist : namelist[k] \in Nat
  BY <1>i, <1>1, FileTypes
<1>3. \A k \in DOMAIN namelist : namelist[k] <= writing'
  <2>1. writing \in Nat /\ writing' \in Nat /\ writing <= writing'
    BY <1>i, FileTypes, Moves
  <2> QED
    BY <1>1, <1>2, <2>1
<1>4. Mode \in {"decode", "play", "step"} => \A f \in Files : f \in Files'
  BY <1>i, Moves DEF ModeInv, DeleteOld, DeletePlayed, FreeStream
<1> QED
  BY <1>1, <1>3, <1>4

(* The list read last stays sorted, and step stays within it.              *)
LEMMA ListNext == DirectoryInv /\ [Next]_vars => ListInv'
<1> SUFFICES ASSUME DirectoryInv, [Next]_vars PROVE ListInv'
  OBVIOUS
<1>i. ListInv /\ ModeInv /\ FilesInv /\ Mode' = Mode
  BY Moves DEF DirectoryInv, Mode
<1>n. n \in Nat /\ i \in Nat
  BY <1>i, LastOfList DEF ListInv
<1>k. ASSUME namelist' = namelist, i' \in Nat,
             Mode = "step" /\ n > 0 => i' \in 0 .. n - 1
      PROVE  ListInv'
  <2>1. n' = n
    BY <1>k DEF n
  <2> QED
    BY <1>i, <1>k, <2>1, ListKept DEF ListInv
<1>0. ASSUME UNCHANGED <<namelist, i>> PROVE ListInv'
  BY <1>i, <1>k, <1>0 DEF ListInv
<1>s. ASSUME namelist' = Scandir, i' = 0, Files' = Files, UNCHANGED receiverVars
      PROVE  ListInv'
  <2>1. /\ Scandir \in Seq(Files) /\ Sorted(Scandir) /\ Files \subseteq 1 .. Frames
    BY <1>i, Listed DEF FilesInv
  <2>2. Scandir \in Seq(1 .. Frames) /\ Len(Scandir) \in Nat
    BY <2>1, SeqOf
  <2>3. \A k \in DOMAIN Scandir : Scandir[k] \in Files
    BY <2>1
  <2>4. \A k \in DOMAIN namelist' : namelist'[k] <= writing'
    BY <1>i, <1>s, <2>3 DEF FilesInv, receiverVars
  <2>5. n' = Len(Scandir)
    BY <1>s DEF n
  <2>6. n' > 0 => i' \in 0 .. n' - 1
    BY <1>s, <2>2, <2>5
  <2> QED
    BY <1>s, <2>1, <2>2, <2>3, <2>4, <2>6 DEF ListInv
<1>1. CASE Main \/ SigInt \/ UNCHANGED vars \/ Receiver \/ OpenAgain
  BY <1>0, <1>1
     DEF Main, SigInt, Receiver, OpenFile, OpenAgain, CloseFile, vars, playerVars
<1>2. CASE Scan \/ Look
  BY <1>s, <1>2 DEF Scan, Look, Files, receiverVars
<1>3. CASE LeaveLoop \/ StepFile \/ Free \/ EndPlaying \/ Misread
  BY <1>0, <1>3 DEF LeaveLoop, StepFile, Free, EndPlaying, Misread
<1>4. CASE DecodeFile
  BY <1>k, <1>n, <1>4 DEF DecodeFile
<1>5. CASE PlayFile
  <2>1. namelist' = namelist /\ i' \in {i, i + 1} /\ Mode = "play"
    BY <1>5 DEF PlayFile
  <2> QED
    BY <1>k, <1>n, <2>1
<1>6. CASE StepKey
  <2>1. namelist' = namelist /\ i' \in {i, Back(i), Forward(i)}
    BY <1>6 DEF StepKey
  <2>2. i' \in Nat
    BY <1>n, <2>1 DEF Back, Forward
  <2>3. Mode = "step" /\ n > 0 => i' \in 0 .. n - 1
    BY <1>i, <1>n, <2>1 DEF ListInv, Back, Forward
  <2> QED
    BY <1>k, <2>1, <2>2, <2>3
<1>7. CASE DeleteOld
  <2>1. namelist' = namelist /\ i' = i + 1 /\ Mode = "fstream"
    BY <1>i, <1>7 DEF DeleteOld, ModeInv
  <2> QED
    BY <1>k, <1>n, <2>1
<1>8. CASE DecodeLast \/ ShowLast \/ DeletePlayed \/ FreeStream
  BY <1>0, <1>8 DEF DecodeLast, ShowLast, DeletePlayed, FreeStream
<1> QED
  BY <1>1, <1>2, <1>3, <1>4, <1>5, <1>6, <1>7, <1>8 DEF Next, Player

(* One more picture: what a list of pictures is afterwards.                *)
LEMMA OneMore ==
  ASSUME NEW S, NEW s \in Seq(S), NEW p \in S
  PROVE  /\ Append(s, p) \in Seq(S) /\ Len(Append(s, p)) = Len(s) + 1 /\ Len(s) \in Nat
         /\ DOMAIN s = 1 .. Len(s) /\ DOMAIN Append(s, p) = 1 .. Len(s) + 1
         /\ \A k \in 1 .. Len(s) : Append(s, p)[k] = s[k]
         /\ Append(s, p)[Len(s) + 1] = p
OBVIOUS

(* Where the directory is read once, the picture of an entry of the list.  *)
LEMMA NextPicture ==
  ASSUME DirectoryInv, Mode \in {"decode", "play"}, i < n
  PROVE  /\ Decoded(i) \in Pictures /\ Decoded(i).frame = namelist[i + 1]
         /\ i + 1 \in DOMAIN namelist
<1>1. ListInv /\ FilesInv
  BY DEF DirectoryInv
<1>2. i \in Nat /\ n \in Nat /\ DOMAIN namelist = 1 .. n
  BY <1>1, LastOfList DEF ListInv
<1>3. i + 1 \in DOMAIN namelist
  BY <1>2
<1>4. namelist[i + 1] \in Files /\ Files \subseteq 1 .. Frames
  BY <1>1, <1>3 DEF ListInv, FilesInv
<1>5. directory[namelist[i + 1]] \in File
  BY <1>1, <1>4 DEF FilesInv
<1> QED
  BY <1>3, <1>4, <1>5 DEF Decoded, FileAt, File, Pictures

(* decode and play show the list from the front, an entry a turn.          *)
LEMMA OnceNext == DirectoryInv /\ [Next]_vars => OnceInv'
<1> SUFFICES ASSUME DirectoryInv, [Next]_vars PROVE OnceInv'
  OBVIOUS
<1>i. OnceInv /\ ListInv /\ ModeInv /\ command' = command /\ Mode' = Mode
  BY Moves DEF DirectoryInv, Mode
<1>n. /\ n \in Nat /\ i \in Nat /\ DOMAIN namelist = 1 .. n
      /\ shown \in Seq(Pictures) /\ Len(shown) \in Nat
      /\ DOMAIN shown = 1 .. Len(shown)
  BY <1>i, LastOfList DEF ListInv, OnceInv
<1>a. ASSUME NEW p, p = Decoded(i), Mode \in {"decode", "play"}, pc = "loop", i < n,
             shown' = Append(shown, p), namelist' = namelist
      PROVE  /\ shown' \in Seq(Pictures) /\ n' = n /\ Len(shown') = i + 1
             /\ Len(shown') <= n'
             /\ \A k \in DOMAIN shown' : shown'[k].frame = namelist'[k]
  <2>1. Len(shown) = i /\ \A k \in DOMAIN shown : shown[k].frame = namelist[k]
    BY <1>i, <1>a DEF OnceInv
  <2>2. p \in Pictures /\ p.frame = namelist[i + 1]
    BY <1>a, NextPicture
  <2>3. /\ shown' \in Seq(Pictures) /\ Len(shown') = i + 1
        /\ DOMAIN shown' = 1 .. i + 1 /\ \A k \in 1 .. i : shown'[k] = shown[k]
        /\ shown'[i + 1] = p
    BY <1>n, <1>a, <2>1, <2>2, OneMore
  <2>4. \A k \in DOMAIN shown' : shown'[k].frame = namelist'[k]
    BY <1>n, <1>a, <2>1, <2>2, <2>3
  <2>5. n' = n
    BY <1>a DEF n
  <2> QED
    BY <1>n, <1>a, <2>3, <2>4, <2>5
<1>1. CASE Main
  <2>1. /\ UNCHANGED <<shown, namelist, out>> /\ n' = n /\ shown = <<>>
    BY <1>i, <1>1 DEF Main, OnceInv, n
  <2>2. Mode \in {"decode", "play"} => pc' # "loop"
    BY <1>1 DEF Main
  <2>3. Mode = "decode" /\ command.argc = 4 => pc' = "scan"
    BY <1>1 DEF Main, Needs
  <2> QED
    BY <1>i, <2>1, <2>2, <2>3 DEF OnceInv
<1>2. CASE UNCHANGED <<shown, namelist, out, i, pc>> /\ (stop => stop')
  <2>1. n' = n
    BY <1>2 DEF n
  <2> QED
    BY <1>i, <1>2, <2>1 DEF OnceInv
<1>3. CASE Scan
  <2>1. /\ UNCHANGED <<shown, out>> /\ shown = <<>> /\ i' = 0 /\ pc' = "loop"
    BY <1>i, <1>3 DEF Scan, OnceInv
  <2>2. ListInv'
    BY ListNext
  <2>3. n' \in Nat
    BY <2>2 DEF ListInv, n
  <2> QED
    BY <1>i, <2>1, <2>3 DEF OnceInv
<1>4. CASE LeaveLoop
  <2>1. /\ UNCHANGED <<shown, namelist, out, stop>> /\ n' = n /\ pc = "loop" /\ pc' = "free"
        /\ stop \/ (i >= n /\ Mode # "step")
    BY <1>4 DEF LeaveLoop, n
  <2>2. Mode = "decode" /\ ~ stop => Len(shown) = n
    BY <1>i, <1>n, <2>1 DEF OnceInv
  <2> QED
    BY <1>i, <2>1, <2>2 DEF OnceInv
<1>5. CASE DecodeFile
  <2>1. /\ shown' = Append(shown, Decoded(i)) /\ out' = Append(out, Len(out) + 1)
        /\ i' = i + 1 /\ UNCHANGED <<pc, stop, namelist>>
        /\ pc = "loop" /\ Mode = "decode" /\ i < n
    BY <1>5 DEF DecodeFile
  <2>2. /\ shown' \in Seq(Pictures) /\ Len(shown') = i + 1 /\ Len(shown') <= n'
        /\ \A k \in DOMAIN shown' : shown'[k].frame = namelist'[k]
    BY <1>a, <2>1
  <2>3. out = [k \in 1 .. i |-> k] /\ i \in Nat
    BY <1>i, <1>n, <2>1 DEF OnceInv
  <2>4. out' = [k \in 1 .. i + 1 |-> k]
    <3>1. out \in Seq(Nat) /\ Len(out) = i
      BY <2>3
    <3>2. /\ out' \in Seq(Nat) /\ DOMAIN out' = 1 .. i + 1
          /\ \A k \in 1 .. i : out'[k] = out[k]
          /\ out'[i + 1] = i + 1
      BY <2>1, <2>3, <3>1, OneMore
    <3>3. \A k \in 1 .. i + 1 : out'[k] = k
      BY <2>3, <3>2
    <3>4. out' = [k \in DOMAIN out' |-> out'[k]]
      BY <3>2
    <3> QED
      BY <3>2, <3>3, <3>4
  <2> QED
    BY <1>i, <2>1, <2>2, <2>4 DEF OnceInv
<1>6. CASE PlayFile
  <2>1. /\ shown' = Append(shown, Decoded(i)) /\ namelist' = namelist
        /\ pc = "loop" /\ Mode = "play" /\ i < n
        /\ pc' = "free" \/ (pc' = "loop" /\ i' = i + 1)
    BY <1>6 DEF PlayFile
  <2>2. /\ shown' \in Seq(Pictures) /\ Len(shown') = i + 1 /\ Len(shown') <= n'
        /\ \A k \in DOMAIN shown' : shown'[k].frame = namelist'[k]
    BY <1>a, <2>1
  <2> QED
    BY <1>i, <2>1, <2>2 DEF OnceInv
<1>7. CASE StepFile \/ StepKey
  <2>1. Mode = "step" /\ shown' = shown /\ pc' \notin {"main", "scan"}
    BY <1>i, <1>7 DEF StepFile, StepKey, ModeInv
  <2> QED
    BY <1>i, <2>1 DEF OnceInv
<1>8. CASE Free
  <2>1. /\ UNCHANGED <<shown, namelist, out, stop>> /\ n' = n
        /\ pc = "free" /\ pc' = "end"
    BY <1>8 DEF Free, n
  <2> QED
    BY <1>i, <2>1 DEF OnceInv
<1>9. ASSUME Mode = "fstream", pc' \notin {"main", "scan"}, shown' \in Seq(Pictures)
      PROVE  OnceInv'
  BY <1>i, <1>9 DEF OnceInv
<1>10. CASE EndPlaying \/ Look
  BY <1>n, <1>9, <1>10 DEF EndPlaying, Look
<1>11. CASE DeleteOld \/ DecodeLast \/ DeletePlayed \/ FreeStream
  <2>1. Mode = "fstream" /\ pc' \notin {"main", "scan"} /\ shown' = shown
    BY <1>i, <1>11 DEF DeleteOld, DecodeLast, DeletePlayed, FreeStream, ModeInv
  <2> QED
    BY <1>n, <1>9, <2>1
<1>12. CASE ShowLast
  <2>1. /\ Mode = "fstream" /\ pc' = "delete" /\ pc = "show"
        /\ shown' = Append(shown, decode_img[1])
    BY <1>i, <1>12 DEF ShowLast, ModeInv
  <2>2. decode_img[1] \in Pictures
    BY <2>1 DEF DirectoryInv, StreamInv
  <2>3. shown' \in Seq(Pictures)
    BY <1>n, <2>1, <2>2, OneMore
  <2> QED
    BY <1>9, <2>1, <2>3
<1>13. ASSUME SigInt \/ UNCHANGED vars \/ Receiver \/ OpenAgain
       PROVE  UNCHANGED <<shown, namelist, out, i, pc>> /\ (stop => stop')
  <2>1. CASE SigInt
    BY <2>1 DEF SigInt
  <2>2. CASE UNCHANGED vars \/ Receiver \/ OpenAgain
    <3>1. UNCHANGED playerVars
      BY <2>2 DEF Receiver, OpenFile, OpenAgain, CloseFile, vars
    <3> QED
      BY <3>1 DEF playerVars
  <2> QED
    BY <1>13, <2>1, <2>2
<1>14. CASE Misread
  <2>1. /\ UNCHANGED <<shown, namelist, out>> /\ n' = n
        /\ pc \in {"loop", "unlink"} /\ pc' = "undefined"
    BY <1>14 DEF Misread, ReadsUnfinished, n
  <2> QED
    BY <1>i, <2>1 DEF OnceInv
<1> QED
  BY <1>1, <1>2, <1>3, <1>4, <1>5, <1>6, <1>7, <1>8, <1>10, <1>11, <1>12, <1>13, <1>14
     DEF Next, Player

(* play_fstream never finds again what it has shown, but for the one file  *)
(* it leaves and one made again: it shows the last of a list of two or     *)
(* more, after it has deleted all but two, and deletes what it showed.     *)
LEMMA StreamNext == DirectoryInv /\ [Next]_vars => StreamInv'
<1> SUFFICES ASSUME DirectoryInv, [Next]_vars, Mode' = "fstream" PROVE StreamInv'
  BY DEF StreamInv
<1>m. Mode = "fstream" /\ Mode' = "fstream"
  BY Moves DEF Mode
<1>i. StreamInv /\ OnceInv /\ ListInv /\ ModeInv /\ FilesInv
  BY DEF DirectoryInv
<1>t. /\ \A f \in Files : f \in Nat /\ f <= writing /\ directory[f].made \in Nat
      /\ writing \in Nat /\ writing' \in Nat /\ writing <= writing'
      /\ again \in Nat /\ again' \in Nat /\ again <= again'
  BY <1>i, FileTypes, Moves DEF FilesInv
<1>n. /\ n \in Nat /\ i \in Nat /\ DOMAIN namelist = 1 .. n /\ Latest = namelist[n]
      /\ \A k \in 1 .. n : namelist[k] \in Nat /\ namelist[k] <= writing
  <2>1. \A k \in DOMAIN namelist : namelist[k] \in 1 .. Frames
    BY <1>i, SeqOf DEF ListInv
  <2>2. \A f \in 1 .. Frames : f \in Nat
    BY <1>i, FileTypes
  <2> QED
    BY <1>i, <2>1, <2>2, LastOfList DEF ListInv
<1>o. \A j, k \in 1 .. n : j < k => namelist[j] < namelist[k]
  BY <1>i, <1>n DEF ListInv, Sorted
<1>s. /\ shown \in Seq(Pictures) /\ Len(shown) \in Nat /\ DOMAIN shown = 1 .. Len(shown)
      /\ \A k \in DOMAIN shown : /\ shown[k].frame \in Nat /\ shown[k].frame <= writing
                                /\ shown[k].made \in Nat /\ shown[k].made <= again
      /\ \A j, k \in DOMAIN shown : j < k => Later(shown[j], shown[k])
  <2>1. \A k \in DOMAIN shown : shown[k] \in Pictures
    BY <1>i, SeqOf DEF OnceInv
  <2>2. \A k \in DOMAIN shown : shown[k].frame \in Nat /\ shown[k].made \in Nat
    BY <1>i, <2>1, FileTypes DEF Pictures
  <2> QED
    BY <1>i, <1>m, <2>2 DEF OnceInv, StreamInv
(* Where nothing is shown in a step, what was shown stays in order.        *)
<1>k. ASSUME shown' = shown
      PROVE  /\ \A k \in DOMAIN shown' :
                  shown'[k].frame <= writing' /\ shown'[k].made <= again'
             /\ \A j, k \in DOMAIN shown' : j < k => Later(shown'[j], shown'[k])
  BY <1>k, <1>s, <1>t
<1>u. ASSUME UNCHANGED <<shown, namelist, i, decode_img, pc>>,
             \A f \in Files : f \in Files'
      PROVE  StreamInv'
  <2>1. n' = n
    BY <1>u DEF n
  <2>f. \A f \in Files' : f \in Nat
    BY FilesNext DEF FilesInv, DirectoryInv
  <2>c. \A f \in Files' :
          \/ f \in Files /\ directory'[f].made = directory[f].made
          \/ f = writing + 1
          \/ f = writing /\ directory'[f].made = again + 1
    BY Moves
  <2>2. pc' = "loop" => \A k \in DOMAIN shown', f, g \in Files' :
                           f < shown'[k].frame /\ g < shown'[k].frame => f = g
    <3> SUFFICES ASSUME pc = "loop", NEW k \in DOMAIN shown, NEW f \in Files',
                        NEW g \in Files', f < shown[k].frame, g < shown[k].frame
                 PROVE  f = g
      BY <1>u
    <3>1. f \in Files /\ g \in Files
      BY <1>s, <1>t, <2>f, <2>c
    <3> QED
      BY <1>i, <1>m, <3>1 DEF StreamInv
  <2>3. pc' \in {"loop", "unlink", "show", "delete"} =>
          \A k \in DOMAIN shown', f \in Files' :
            f = shown'[k].frame => \/ directory'[f].made > shown'[k].made
                                   \/ pc' = "delete" /\ f = namelist'[n']
    <3> SUFFICES ASSUME pc \in {"loop", "unlink", "show", "delete"},
                        NEW k \in DOMAIN shown, NEW f \in Files', f = shown[k].frame
                 PROVE  \/ directory'[f].made > shown[k].made
                        \/ pc = "delete" /\ f = namelist[n]
      BY <1>u, <2>1
    <3>1. CASE f \in Files /\ directory'[f].made = directory[f].made
      BY <1>i, <1>m, <3>1 DEF StreamInv
    <3>2. f # writing + 1
      BY <1>s, <1>t
    <3>3. CASE directory'[f].made = again + 1
      BY <1>s, <1>t, <3>3
    <3> QED
      BY <2>c, <3>1, <3>2, <3>3
  <2>4. pc' \in {"unlink", "show", "delete"} =>
          /\ n' >= 2 /\ i' \in 0 .. n' - 2
          /\ \A k \in i' + 1 .. n' : namelist'[k] \in Files'
          /\ \A f \in Files' : f > namelist'[n'] \/ \E k \in i' + 1 .. n' : f = namelist'[k]
          /\ \A k \in DOMAIN shown' : shown'[k].frame <= namelist'[n']
    <3> SUFFICES ASSUME pc \in {"unlink", "show", "delete"}
                 PROVE  /\ n >= 2 /\ i \in 0 .. n - 2
                        /\ \A k \in i + 1 .. n : namelist[k] \in Files'
                        /\ \A f \in Files' : \/ f > namelist[n]
                                             \/ \E k \in i + 1 .. n : f = namelist[k]
                        /\ \A k \in DOMAIN shown : shown[k].frame <= namelist[n]
      BY <1>u, <2>1
    <3>1. /\ n >= 2 /\ i \in 0 .. n - 2
          /\ \A k \in i + 1 .. n : namelist[k] \in Files
          /\ \A f \in Files : f > namelist[n] \/ \E k \in i + 1 .. n : f = namelist[k]
          /\ \A k \in DOMAIN shown : shown[k].frame <= namelist[n]
      BY <1>i, <1>m DEF StreamInv
    <3>2. n \in 1 .. n /\ n \in i + 1 .. n
      BY <1>n, <3>1
    <3>3. \A f \in Files' : f \in Files \/ f > namelist[n] \/ f = namelist[n]
      BY <1>n, <1>t, <2>f, <2>c, <3>2
    <3> QED
      BY <1>u, <3>1, <3>2, <3>3
  <2>5. /\ pc' \in {"show", "delete"} => i' = n' - 2
        /\ pc' = "delete" => shown' # <<>> /\ shown'[Len(shown')].frame = namelist'[n']
    BY <1>i, <1>m, <1>u, <2>1 DEF StreamInv
  <2>6. pc' = "show" =>
          /\ decode_img'[1] \in Pictures /\ decode_img'[1].frame = namelist'[n']
          /\ decode_img'[1].made <= again'
          /\ \A k \in DOMAIN shown' : Later(shown'[k], decode_img'[1])
    <3> SUFFICES ASSUME pc = "show"
                 PROVE  /\ decode_img[1] \in Pictures /\ decode_img[1].frame = namelist[n]
                        /\ decode_img[1].made <= again'
                        /\ \A k \in DOMAIN shown : Later(shown[k], decode_img[1])
      BY <1>u, <2>1
    <3>1. /\ decode_img[1] \in Pictures /\ decode_img[1].frame = namelist[n]
          /\ decode_img[1].made <= again
          /\ \A k \in DOMAIN shown : Later(shown[k], decode_img[1])
      BY <1>i, <1>m DEF StreamInv
    <3>2. decode_img[1].made \in Nat
      BY <3>1 DEF Pictures
    <3> QED
      BY <1>t, <3>1, <3>2
  <2> QED
    BY <1>k, <1>u, <2>2, <2>3, <2>4, <2>5, <2>6 DEF StreamInv, Later
<1>e. ASSUME shown' = shown, pc' \in {"free_fstream", "end", "undefined"}
      PROVE  StreamInv'
  BY <1>e, <1>k DEF StreamInv, Later
<1>1. CASE OpenFile \/ OpenAgain \/ CloseFile
  <2>1. UNCHANGED playerVars /\ \A f \in Files : f \in Files'
    BY <1>1 DEF OpenFile, OpenAgain, CloseFile, With, Files
  <2> QED
    BY <1>u, <2>1 DEF playerVars
<1>2. CASE Misread
  BY <1>e, <1>2 DEF Misread
<1>3. CASE SigInt \/ UNCHANGED vars
  BY <1>u, <1>3 DEF SigInt, vars, playerVars, Files
<1>4. CASE Main
  <2>1. shown' = shown /\ shown = <<>> /\ pc' \in {"end", "loop"}
    BY <1>i, <1>m, <1>4 DEF Main, OnceInv
  <2> QED
    BY <1>k, <2>1 DEF StreamInv, Later
<1>5. CASE EndPlaying
  BY <1>e, <1>5 DEF EndPlaying
<1>6. CASE FreeStream
  BY <1>e, <1>6 DEF FreeStream
<1>7. CASE Look
  <2> DEFINE s == Scandir
             m == Len(s)
  <2>1. /\ pc = "loop" /\ namelist' = s /\ i' = 0
        /\ Files' = Files /\ directory' = directory /\ shown' = shown
        /\ \/ pc' \in {"free_fstream", "loop"}
           \/ pc' = "unlink" /\ Enough(m)
    BY <1>7 DEF Look, Files
  <2>2. /\ s \in Seq(Files) /\ Sorted(s)
        /\ \A f \in Files : \E k \in DOMAIN s : f = s[k]
    BY <1>i, Listed
  <2> HIDE DEF s
  <2>3. /\ m \in Nat /\ DOMAIN s = 1 .. m
        /\ \A k \in 1 .. m : s[k] \in Files /\ s[k] \in Nat
    BY <1>t, <2>2, SeqOf
  <2>4. \A k \in DOMAIN shown, f, g \in Files :
          f < shown[k].frame /\ g < shown[k].frame => f = g
    BY <1>i, <1>m, <2>1 DEF StreamInv
  <2>a. \A k \in DOMAIN shown', f \in Files' :
          f = shown'[k].frame => directory'[f].made > shown'[k].made
    BY <1>i, <1>m, <2>1 DEF StreamInv
  <2>5. n' = m
    BY <2>1 DEF n
  <2>6. CASE pc' \in {"free_fstream", "loop"}
    BY <1>k, <2>1, <2>4, <2>6, <2>a DEF StreamInv, Later
  <2>7. CASE pc' = "unlink" /\ Enough(m)
    <3>1. m >= 2
      BY <2>3, <2>7 DEF Enough, A_BUFFER_SIZE
    <3>2. s[m - 1] < s[m] /\ m - 1 \in 1 .. m /\ m \in 1 .. m
      <4>1. m - 1 \in 1 .. m /\ m \in 1 .. m /\ m - 1 < m
        BY <2>3, <3>1
      <4>2. \A j, k \in 1 .. m : j < k => s[j] < s[k]
        BY <2>2, <2>3 DEF Sorted
      <4> QED
        BY <4>1, <4>2
    <3>3. \A k \in DOMAIN shown : shown[k].frame <= s[m]
      <4> SUFFICES ASSUME NEW k \in DOMAIN shown, ~ (shown[k].frame <= s[m]) PROVE FALSE
        OBVIOUS
      <4>3. s[m] \in Nat /\ s[m - 1] \in Nat /\ shown[k].frame \in Nat
        BY <1>s, <2>3, <3>2
      <4>1. s[m] < shown[k].frame /\ s[m - 1] < shown[k].frame
        BY <3>2, <4>3
      <4>2. s[m] = s[m - 1]
        BY <2>3, <2>4, <3>2, <4>1
      <4> QED
        BY <2>3, <3>2, <4>2
    <3>4. \A f \in Files' : \E k \in i' + 1 .. n' : f = namelist'[k]
      BY <2>1, <2>2, <2>3, <2>5
    <3>5. \A k \in i' + 1 .. n' : namelist'[k] \in Files'
      BY <2>1, <2>3, <2>5
    <3>6. n' >= 2 /\ i' \in 0 .. n' - 2
      BY <2>1, <2>3, <2>5, <3>1
    <3> QED
      BY <1>k, <2>1, <2>5, <2>7, <2>a, <3>3, <3>4, <3>5, <3>6 DEF StreamInv, Later
  <2> QED
    BY <2>1, <2>6, <2>7
<1>8. CASE DeleteOld
  <2>1. /\ pc = "unlink" /\ pc' = pc /\ UNCHANGED <<namelist, shown>> /\ i' = i + 1
        /\ i < n - 2 /\ Files' = Files \ {namelist[i + 1]}
        /\ \A f \in Files' : directory'[f] = directory[f]
    BY <1>8 DEF DeleteOld, TooOld, A_BUFFER_SIZE, Without, Files
  <2>2. /\ n >= 2 /\ i \in 0 .. n - 2
        /\ \A k \in i + 1 .. n : namelist[k] \in Files
        /\ \A f \in Files : f > namelist[n] \/ \E k \in i + 1 .. n : f = namelist[k]
        /\ \A k \in DOMAIN shown : shown[k].frame <= namelist[n]
        /\ \A k \in DOMAIN shown, f \in Files :
             f = shown[k].frame => directory[f].made > shown[k].made
    BY <1>i, <1>m, <2>1 DEF StreamInv
  <2>3. n' = n
    BY <2>1 DEF n
  <2>4. n' >= 2 /\ i' \in 0 .. n' - 2
    BY <1>n, <2>1, <2>2, <2>3
  <2>5. \A k \in i' + 1 .. n' : namelist'[k] \in Files'
    <3> SUFFICES ASSUME NEW k \in i + 2 .. n PROVE namelist[k] \in Files'
      BY <1>n, <2>1, <2>3
    <3>1. k \in i + 1 .. n /\ k \in 1 .. n /\ i + 1 \in 1 .. n /\ i + 1 < k
      BY <1>n, <2>1
    <3>2. namelist[i + 1] < namelist[k]
      BY <1>o, <3>1
    <3> QED
      BY <1>n, <2>1, <2>2, <3>1, <3>2
  <2>6. \A f \in Files' : f > namelist'[n'] \/ \E k \in i' + 1 .. n' : f = namelist'[k]
    <3> SUFFICES ASSUME NEW f \in Files', ~ (f > namelist[n])
                 PROVE  \E k \in i + 2 .. n : f = namelist[k]
      BY <1>n, <2>1, <2>3
    <3>1. PICK k \in i + 1 .. n : f = namelist[k]
      BY <2>1, <2>2
    <3>2. k # i + 1
      BY <2>1, <3>1
    <3> QED
      BY <1>n, <3>1, <3>2
  <2>7. \A k \in DOMAIN shown' : shown'[k].frame <= namelist'[n']
    BY <2>1, <2>2, <2>3
  <2>8. \A k \in DOMAIN shown', f \in Files' :
          f = shown'[k].frame => directory'[f].made > shown'[k].made
    BY <2>1, <2>2
  <2> QED
    BY <1>k, <2>1, <2>4, <2>5, <2>6, <2>7, <2>8 DEF StreamInv, Later
<1>9. CASE DecodeLast
  <2>1. /\ pc = "unlink" /\ pc' = "show" /\ UNCHANGED <<namelist, shown, i>>
        /\ ~ (i < n - 2) /\ Files' = Files /\ directory' = directory
        /\ again' = again /\ decode_img' = <<Decoded(n - A_BUFFER_SIZE)>>
    BY <1>9 DEF DecodeLast, TooOld, A_BUFFER_SIZE, Files, receiverVars
  <2>2. /\ n >= 2 /\ i \in 0 .. n - 2
        /\ \A k \in i + 1 .. n : namelist[k] \in Files
        /\ \A f \in Files : f > namelist[n] \/ \E k \in i + 1 .. n : f = namelist[k]
        /\ \A k \in DOMAIN shown : shown[k].frame <= namelist[n]
        /\ \A k \in DOMAIN shown, f \in Files :
             f = shown[k].frame => directory[f].made > shown[k].made
    BY <1>i, <1>m, <2>1 DEF StreamInv
  <2>3. n' = n /\ i = n - 2 /\ n \in i + 1 .. n
    <3>1. n' = n
      BY <2>1 DEF n
    <3>2. n >= 2 /\ i \in 0 .. n - 2 /\ ~ (i < n - 2) /\ n \in Nat
      BY <1>n, <2>1, <2>2
    <3> HIDE DEF n
    <3> QED
      BY <3>1, <3>2
  <2> DEFINE p == decode_img'[1]
             file == directory[namelist[n]]
  <2>4. p = [frame |-> namelist[n], whole |-> file.whole, made |-> file.made]
    BY <1>i, <2>1, LastOfList
  <2>5. /\ namelist[n] \in 1 .. Frames /\ namelist[n] \in Files
        /\ file \in File /\ file.made <= again
    BY <1>i, <2>2, <2>3 DEF FilesInv
  <2>6. p \in Pictures /\ p.frame = namelist'[n'] /\ p.made <= again'
    BY <2>1, <2>3, <2>4, <2>5 DEF Pictures, File
  <2>7. \A k \in DOMAIN shown' : Later(shown'[k], p)
    <3> SUFFICES ASSUME NEW k \in DOMAIN shown PROVE Later(shown[k], p)
      BY <2>1
    <3>1. /\ shown[k].frame <= namelist[n]
          /\ shown[k].frame = namelist[n] => file.made > shown[k].made
      BY <2>2, <2>5
    <3>2. /\ shown[k].frame \in Nat /\ shown[k].made \in Nat
          /\ namelist[n] \in Nat /\ file.made \in Nat
      BY <1>s, <1>t, <2>5
    <3>3. p.frame = namelist[n] /\ p.made = file.made
      BY <2>4
    <3> HIDE DEF p, file
    <3> QED
      BY <3>1, <3>2, <3>3 DEF Later
  <2>8. \A k \in DOMAIN shown', f \in Files' :
          f = shown'[k].frame => directory'[f].made > shown'[k].made
    BY <2>1, <2>2
  <2> QED
    BY <1>k, <2>1, <2>2, <2>3, <2>6, <2>7, <2>8 DEF StreamInv, Later
<1>10. CASE ShowLast
  <2> DEFINE p == decode_img[1]
             l == Len(shown)
  <2>1. /\ pc = "show" /\ pc' = "delete" /\ UNCHANGED <<namelist, i>>
        /\ Files' = Files /\ directory' = directory
        /\ shown' = Append(shown, p) /\ writing' = writing /\ again' = again
    BY <1>10 DEF ShowLast, Files, receiverVars
  <2>2. /\ n >= 2 /\ i \in 0 .. n - 2 /\ i = n - 2
        /\ \A k \in i + 1 .. n : namelist[k] \in Files
        /\ \A f \in Files : f > namelist[n] \/ \E k \in i + 1 .. n : f = namelist[k]
        /\ \A k \in DOMAIN shown : shown[k].frame <= namelist[n]
        /\ \A k \in DOMAIN shown, f \in Files :
             f = shown[k].frame => directory[f].made > shown[k].made
    BY <1>i, <1>m, <2>1 DEF StreamInv
  <2>a. /\ p \in Pictures /\ p.frame = namelist[n] /\ p.made <= again
        /\ \A k \in DOMAIN shown : Later(shown[k], p)
    BY <1>i, <1>m, <2>1 DEF StreamInv
  <2>3. n' = n /\ n \in 1 .. n
    BY <1>n, <2>1, <2>2 DEF n
  <2> HIDE DEF p
  <2>4. /\ Len(shown') = l + 1 /\ l \in Nat /\ DOMAIN shown = 1 .. l
        /\ DOMAIN shown' = 1 .. l + 1 /\ shown' \in Seq(Pictures)
        /\ \A k \in 1 .. l : shown'[k] = shown[k]
        /\ shown'[l + 1] = p
    BY <1>s, <2>1, <2>a, OneMore
  <2>5. \A j, k \in DOMAIN shown' : j < k => Later(shown'[j], shown'[k])
    <3> SUFFICES ASSUME NEW j \in 1 .. l + 1, NEW k \in 1 .. l + 1, j < k
                 PROVE  Later(shown'[j], shown'[k])
      BY <2>4
    <3>1. j \in 1 .. l /\ shown'[j] = shown[j]
      BY <2>4
    <3>2. CASE k = l + 1
      BY <2>4, <2>a, <3>1, <3>2
    <3>3. CASE k \in 1 .. l
      BY <1>s, <2>4, <3>1, <3>3
    <3> QED
      BY <2>4, <3>2, <3>3
  <2>6. \A k \in DOMAIN shown' : /\ shown'[k].frame <= writing' /\ shown'[k].made <= again'
                                /\ shown'[k].frame <= namelist'[n']
    <3> SUFFICES ASSUME NEW k \in 1 .. l + 1
                 PROVE  /\ shown'[k].frame <= writing /\ shown'[k].made <= again
                        /\ shown'[k].frame <= namelist[n]
      BY <2>1, <2>3, <2>4
    <3>1. CASE k = l + 1
      BY <1>n, <2>3, <2>4, <2>a, <3>1
    <3>2. CASE k \in 1 .. l
      BY <1>s, <2>2, <2>4, <3>2
    <3> QED
      BY <2>4, <3>1, <3>2
  <2>7. shown' # <<>> /\ shown'[Len(shown')].frame = namelist'[n']
    BY <2>1, <2>3, <2>4, <2>a
  <2>8. \A k \in DOMAIN shown', f \in Files' :
          f = shown'[k].frame => \/ directory'[f].made > shown'[k].made
                                 \/ f = namelist'[n']
    <3> SUFFICES ASSUME NEW k \in 1 .. l + 1, NEW f \in Files, f = shown'[k].frame
                 PROVE  directory[f].made > shown'[k].made \/ f = namelist[n]
      BY <2>1, <2>3, <2>4
    <3>1. CASE k = l + 1
      BY <2>4, <2>a, <3>1
    <3>2. CASE k \in 1 .. l
      BY <2>2, <2>4, <3>2
    <3> QED
      BY <2>4, <3>1, <3>2
  <2> QED
    BY <2>1, <2>2, <2>3, <2>5, <2>6, <2>7, <2>8 DEF StreamInv, Later
<1>11. CASE DeletePlayed
  <2>1. /\ pc = "delete" /\ pc' = "loop" /\ shown' = shown
        /\ Files' = Files \ {Latest} /\ \A f \in Files' : directory'[f] = directory[f]
    BY <1>11 DEF DeletePlayed, Without, Files
  <2>2. /\ n >= 2 /\ i = n - 2
        /\ \A f \in Files : f > namelist[n] \/ \E k \in i + 1 .. n : f = namelist[k]
        /\ \A k \in DOMAIN shown : shown[k].frame <= namelist[n]
        /\ \A k \in DOMAIN shown, f \in Files :
             f = shown[k].frame => \/ directory[f].made > shown[k].made
                                   \/ f = namelist[n]
    BY <1>i, <1>m, <2>1 DEF StreamInv
  <2>3. n \in 1 .. n
    BY <1>n, <2>2
  <2>4. \A k \in DOMAIN shown', f \in Files' :
          f = shown'[k].frame => directory'[f].made > shown'[k].made
    BY <1>n, <2>1, <2>2
  <2>5. \A f \in Files' : f > namelist[n] \/ f = namelist[n - 1]
    <3> SUFFICES ASSUME NEW f \in Files', ~ (f > namelist[n]) PROVE f = namelist[n - 1]
      OBVIOUS
    <3>1. PICK k \in i + 1 .. n : f = namelist[k]
      BY <2>1, <2>2
    <3>2. k # n
      BY <1>n, <2>1, <3>1
    <3> QED
      BY <1>n, <2>2, <3>1, <3>2
  <2>6. \A k \in DOMAIN shown', f, g \in Files' :
          f < shown'[k].frame /\ g < shown'[k].frame => f = g
    <3> SUFFICES ASSUME NEW k \in DOMAIN shown, NEW f \in Files', NEW g \in Files',
                        f < shown[k].frame, g < shown[k].frame
                 PROVE  f = g
      BY <2>1
    <3>1. f \in Nat /\ g \in Nat
      BY <1>t, <2>1
    <3>2. ~ (f > namelist[n]) /\ ~ (g > namelist[n])
      BY <1>s, <1>n, <2>2, <2>3, <3>1
    <3> QED
      BY <2>5, <3>2
  <2> QED
    BY <1>k, <2>1, <2>4, <2>6 DEF StreamInv, Later
<1>12. ASSUME Scan \/ LeaveLoop \/ DecodeFile \/ PlayFile \/ StepFile \/ StepKey \/ Free
       PROVE  FALSE
  BY <1>i, <1>m, <1>12
     DEF Scan, LeaveLoop, DecodeFile, PlayFile, StepFile, StepKey, Free, ModeInv
<1> QED
  BY <1>1, <1>2, <1>3, <1>4, <1>5, <1>6, <1>7, <1>8, <1>9, <1>10, <1>11, <1>12
     DEF Next, Receiver, Player

(* At the start there is nothing but the files written before.             *)
LEMMA DirectoryInit == Init => DirectoryInv
<1> SUFFICES ASSUME Init PROVE DirectoryInv
  OBVIOUS
<1>1. /\ writing \in InitialFiles /\ again = 0
      /\ directory = [f \in 1 .. writing |-> [whole |-> TRUE, made |-> 0]]
  BY DEF Init
<1>2. writing \in 0 .. Frames /\ Frames \in Nat /\ MaxAgain \in Nat /\ writing \in Nat
  BY <1>1, DirectoryAssumption
<1>3. /\ open = FALSE /\ pc = "main" /\ stop = FALSE /\ namelist = <<>> /\ i = 0
      /\ shown = <<>> /\ out = <<>>
  BY DEF Init
<1>4. Files = 1 .. writing
  BY <1>1 DEF Files
<1>5. FilesInv
  <2>1. \A f \in Files : directory[f] = [whole |-> TRUE, made |-> 0]
    BY <1>1, <1>4
  <2>2. \A f \in Files : directory[f] \in File /\ directory[f].made <= 0 /\ directory[f].whole
    <3>1. [whole |-> TRUE, made |-> 0] \in File
      BY DEF File
    <3> QED
      BY <2>1, <3>1
  <2>3. Files \subseteq 1 .. Frames /\ \A f \in Files : f <= writing
    BY <1>2, <1>4
  <2>4. again \in 0 .. MaxAgain /\ \A f \in Files : directory[f].made <= again
    <3>1. again = 0
      BY <1>1
    <3>2. again \in 0 .. MaxAgain
      BY <1>2, <3>1
    <3>3. \A f \in Files : directory[f].made <= again
      BY <2>2, <3>1
    <3> QED
      BY <3>2, <3>3
  <2>5. open \in BOOLEAN
    BY <1>3
  <2> QED
    BY <1>2, <2>2, <2>3, <2>4, <2>5 DEF FilesInv
<1>6. ModeInv
  BY <1>3 DEF ModeInv, Points
<1>7. ListInv
  BY <1>3 DEF ListInv, Sorted, n
<1>8. OnceInv
  <2>1. n = 0 /\ Len(shown) = 0 /\ shown \in Seq(Pictures) /\ DOMAIN shown = {}
    BY <1>3 DEF n
  <2>2. out = [j \in 1 .. Len(shown) |-> j]
    BY <1>3, <2>1
  <2> QED
    BY <1>3, <2>1, <2>2 DEF OnceInv
<1>9. StreamInv
  BY <1>3 DEF StreamInv
<1> QED
  BY <1>5, <1>6, <1>7, <1>8, <1>9 DEF DirectoryInv

(* DirectoryInv is inductive.                                              *)
LEMMA DirectoryNext == DirectoryInv /\ [Next]_vars => DirectoryInv'
BY FilesNext, ModeNext, ListNext, OnceNext, StreamNext DEF DirectoryInv

(* What the property says follows.                                         *)
LEMMA ShowsFollows == DirectoryInv => ShowsTheDirectory
<1> SUFFICES ASSUME DirectoryInv PROVE ShowsTheDirectory
  OBVIOUS
<1>i. FilesInv /\ ModeInv /\ ListInv /\ OnceInv /\ StreamInv
  BY DEF DirectoryInv
<1>n. /\ n \in Nat /\ DOMAIN namelist = 1 .. n
      /\ shown \in Seq(Pictures) /\ Len(shown) \in Nat /\ DOMAIN shown = 1 .. Len(shown)
  BY <1>i, LastOfList DEF OnceInv
<1>1. TypeOK
  <2>1. \A f \in Files : directory[f] \in [whole : BOOLEAN, made : 0 .. again]
    BY <1>i, FileTypes DEF FilesInv, File
  <2> QED
    BY <1>i, <2>1 DEF TypeOK, FilesInv, ModeInv, Points, ListInv
<1>2. ShownInOrder
  <2>1. CASE Mode \in {"decode", "play"}
    <3>1. /\ \A k \in DOMAIN shown : shown[k].frame = namelist[k]
          /\ Len(shown) <= n
      BY <1>i, <2>1 DEF OnceInv
    <3>2. \A j, k \in 1 .. n : j < k => namelist[j] < namelist[k]
      BY <1>i, <1>n DEF ListInv, Sorted
    <3>3. \A j, k \in DOMAIN shown : j < k => shown[j].frame < shown[k].frame
      BY <1>n, <3>1, <3>2
    <3> QED
      BY <3>3 DEF ShownInOrder, Before
  <2>2. CASE Mode = "fstream"
    BY <1>i, <2>2 DEF StreamInv, ShownInOrder, Before, Later
  <2>3. CASE Mode \notin {"decode", "play", "fstream"}
    BY <1>i, <2>3 DEF OnceInv, ShownInOrder, Before
  <2> QED
    BY <2>1, <2>2, <2>3
<1>3. AllDecoded
  <2> SUFFICES ASSUME Mode = "decode", pc = "end", command.argc = 4, ~ stop
               PROVE  /\ [k \in DOMAIN shown |-> shown[k].frame] = namelist
                      /\ out = [k \in 1 .. n |-> k]
    BY DEF AllDecoded
  <2>1. /\ Len(shown) = n /\ out = [k \in 1 .. Len(shown) |-> k]
        /\ \A k \in DOMAIN shown : shown[k].frame = namelist[k]
    BY <1>i DEF OnceInv
  <2>2. DOMAIN shown = DOMAIN namelist
    BY <1>n, <2>1
  <2>3. namelist = [k \in DOMAIN namelist |-> namelist[k]]
    BY <1>i DEF ListInv
  <2>4. [k \in DOMAIN shown |-> shown[k].frame] = [k \in DOMAIN namelist |-> namelist[k]]
    BY <2>1, <2>2
  <2> QED
    BY <2>1, <2>3, <2>4
<1> QED
  BY <1>1, <1>2, <1>3 DEF ShowsTheDirectory

(* What is left of the frames before the one played: one file or none; of  *)
(* that one: none, unless it was made again.                               *)
LEMMA LeftoverFollows == DirectoryInv => LeftoverBounded
<1> DEFINE last == shown[Len(shown)]
           left == {f \in Files : f < last.frame}
<1> SUFFICES ASSUME DirectoryInv, Mode = "fstream", pc = "loop", shown # <<>>
             PROVE  /\ Cardinality(left) <= A_BUFFER_SIZE
                    /\ last.frame \in Files => directory[last.frame].made > last.made
  BY DEF LeftoverBounded
<1>1. Len(shown) \in DOMAIN shown
  <2>1. shown \in Seq(Pictures)
    BY DEF DirectoryInv, OnceInv
  <2> QED
    BY <2>1
<1>2. \A f, g \in left : f = g
  BY <1>1 DEF DirectoryInv, StreamInv
<1>5. last.frame \in Files => directory[last.frame].made > last.made
  BY <1>1 DEF DirectoryInv, StreamInv
<1> HIDE DEF last
<1>3. ASSUME left = {} PROVE Cardinality(left) <= A_BUFFER_SIZE
  BY <1>3, FS_EmptySet DEF A_BUFFER_SIZE
<1>4. ASSUME left # {} PROVE Cardinality(left) <= A_BUFFER_SIZE
  <2>1. PICK f : left = {f}
    BY <1>2, <1>4
  <2>2. Cardinality({f}) = 1
    BY FS_Singleton
  <2>3. Cardinality(left) = 1
    BY <2>1, <2>2
  <2> QED
    BY <2>3 DEF A_BUFFER_SIZE
<1> QED
  BY <1>3, <1>4, <1>5

(* What play_fstream deletes was shown, or is older than a file that is    *)
(* there to show.                                                          *)
LEMMA DeletesOld == DirectoryInv /\ [Next]_vars => DeletesOldOnly
<1> SUFFICES ASSUME DirectoryInv, [Next]_vars, pc # "free_fstream",
                    NEW f \in Files, f \notin Files'
             PROVE  \/ \E g \in Files' : g > f
                    \/ \E k \in DOMAIN shown : shown[k].frame = f
  BY DEF DeletesOldOnly, Files
<1>i. StreamInv /\ OnceInv /\ ListInv /\ ModeInv /\ FilesInv
  BY DEF DirectoryInv
<1>n. n \in Nat /\ DOMAIN namelist = 1 .. n /\ Latest = namelist[n] /\ i \in Nat
  BY <1>i, LastOfList DEF ListInv
<1>1. CASE DeleteOld /\ f = namelist[i + 1]
  <2>1. /\ pc = "unlink" /\ i < n - 2 /\ Files' = Files \ {namelist[i + 1]}
    BY <1>1 DEF DeleteOld, TooOld, A_BUFFER_SIZE, Without, Files
  <2>2. \A k \in i + 1 .. n : namelist[k] \in Files
    BY <1>i, <2>1 DEF StreamInv, ModeInv
  <2>3. n \in i + 1 .. n /\ i + 1 \in 1 .. n /\ n \in 1 .. n /\ i + 1 < n
    BY <1>n, <2>1
  <2>4. namelist[i + 1] < namelist[n] /\ namelist[n] \in Files /\ namelist[i + 1] \in Files
    BY <1>i, <1>n, <2>2, <2>3 DEF ListInv, Sorted
  <2>5. namelist[i + 1] \in Nat /\ namelist[n] \in Nat
    BY <1>i, <2>4, FileTypes
  <2>6. namelist[n] \in Files' /\ namelist[n] > f
    BY <1>1, <2>1, <2>4, <2>5
  <2> QED
    BY <2>6
<1>2. CASE DeletePlayed /\ f = Latest
  <2>1. pc = "delete"
    BY <1>2 DEF DeletePlayed
  <2>2. shown # <<>> /\ shown[Len(shown)].frame = namelist[n]
    BY <1>i, <2>1 DEF StreamInv, ModeInv
  <2>3. Len(shown) \in DOMAIN shown
    <3>1. shown \in Seq(Pictures)
      BY <1>i DEF OnceInv
    <3> QED
      BY <2>2, <3>1
  <2> QED
    BY <1>n, <1>2, <2>2, <2>3
<1>3. ~ FreeStream
  BY DEF FreeStream
<1> QED
  BY <1>1, <1>2, <1>3, Moves

(* decode and play show the frames of the directory in order, each once;   *)
(* decode that is not stopped converts all it found, numbered without a    *)
(* gap; step stays within the list; play_fstream shows frames in order and *)
(* no file twice, so that a frame comes again only where the receiver made *)
(* its file again: although the receiver writes into the directory all the *)
(* time, its last file more than once, and play_fstream deletes from it.   *)
THEOREM PlayerShowsTheDirectory == Spec => []ShowsTheDirectory
<1>1. Init => DirectoryInv
  BY DirectoryInit
<1>2. DirectoryInv /\ [Next]_vars => DirectoryInv'
  BY DirectoryNext
<1>3. DirectoryInv => ShowsTheDirectory
  BY ShowsFollows
<1> QED
  BY <1>1, <1>2, <1>3, PTL DEF Spec

(* While it plays, play_fstream deletes no frame that was neither shown    *)
(* nor overtaken by a later one; of the frames before the one just played  *)
(* it leaves at most A_BUFFER_SIZE files, and of that one itself none but  *)
(* a file the receiver has made again since.                               *)
THEOREM PlayerClearsThePast == Spec => ClearsThePast
<1>1. Init => DirectoryInv
  BY DirectoryInit
<1>2. DirectoryInv /\ [Next]_vars => DirectoryInv'
  BY DirectoryNext
<1>3. DirectoryInv /\ DirectoryInv' /\ [Next]_vars
        => [DeletesOldOnly /\ LeftoverBounded']_vars
  <2>1. DirectoryInv' => LeftoverBounded'
    BY LeftoverFollows, PTL
  <2> QED
    BY <2>1, DeletesOld
<1> QED
  BY <1>1, <1>2, <1>3, PTL DEF Spec, ClearsThePast
=============================================================================
