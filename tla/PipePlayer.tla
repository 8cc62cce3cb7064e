----------------------------- MODULE PipePlayer -----------------------------
(***************************************************************************)
(* play_pstream (LHE_Player/newmain.cc): reads frames from the named pipe  *)
(* and decodes their blocks in a pool of THREAD_N threads, round robin: a  *)
(* thread is waited for before its slot is used again, and at the end of   *)
(* a frame all slots are waited for before frame_buffer is shown.          *)
(*                                                                         *)
(* ppc: "frame" and "blocks" (the two while conditions), "header",         *)
(* "block", "number", "data" (in the read of that), "slot" (a block is     *)
(* read, its slot is waited for), "join" (waiting for all), "out";         *)
(* "misread" (bytes taken for what they are not: what follows is not       *)
(* modelled), "crashed".                                                   *)
(***************************************************************************)
EXTENDS Fifo

CONSTANT THREAD_N       \* 5 in the code: "min 2"

ASSUME PoolAssumption == THREAD_N \in Nat \ {0, 1}

VARIABLES
  ppc, player_stop,
  header,          (* the frame being read: its header                     *)
  block,           (* the block being read: its header, then its number    *)
  lhe_block_data,  (* its bytes                                            *)
  frame_buffer,    (* row by row; shared by all threads                    *)
  threads,         (* the slots: "none" (nothing to wait for), "running",  *)
                   (* "finished"                                           *)
  args,            (* what a slot's thread decodes, and into which row     *)
  next_thread, pool_startup,
  joined,          (* slots waited for at the end of the frame             *)
  asked,           (* history: rows of this frame given to a thread        *)
  shown            (* history: the frames shown                            *)

poolVars  == <<threads, args, next_thread, pool_startup, joined>>
videoVars == <<header, block, lhe_block_data, frame_buffer, asked, shown>>
playerVars == <<ppc, player_stop, poolVars, videoVars>>

Slots == 0 .. THREAD_N - 1
Nothing == [img |-> Garbage, id |-> 0]
Reads == {"header", "block", "number", "data"}
PlayerLeft == {"out", "misread", "crashed"}

PlayerInit ==
  /\ ppc = "frame" /\ player_stop = FALSE
  /\ header = EndOfFrame /\ block = EndOfFrame /\ lhe_block_data = Nothing
  /\ frame_buffer = <<>>
  /\ threads = [k \in Slots |-> "none"] /\ args = [k \in Slots |-> [row |-> 0, data |-> Nothing]]
  /\ next_thread = 1 /\ pool_startup = TRUE /\ joined = 0
  /\ asked = {} /\ shown = <<>>

(* play_pstream returns, and the program with it.                          *)
PlayerLeave(where) == ppc' = where /\ reader' = FALSE

-----------------------------------------------------------------------------
(* The two loops and SIGINT                                                *)

TestPlayerStop ==
  /\ ppc \in {"frame", "blocks"}
  /\ \/ ~player_stop /\ UNCHANGED fifoVars
        /\ ppc' = IF ppc = "frame" THEN "header" ELSE "block"
     \/ player_stop /\ PlayerLeave("out") /\ UNCHANGED <<fifo, writer>>
  /\ UNCHANGED <<player_stop, poolVars, videoVars>>

(* The handler; a read that waits fails with EINTR and ends both loops,    *)
(* one that is about to be called waits.                                   *)
PlayerSigInt ==
  /\ ppc \notin PlayerLeft
  /\ player_stop' = TRUE
  /\ \/ UNCHANGED <<ppc, fifoVars>>
     \/ /\ ppc \in Reads /\ IsEmpty /\ writer
        /\ PlayerLeave("out") /\ UNCHANGED <<fifo, writer>>
  /\ UNCHANGED <<poolVars, videoVars>>

-----------------------------------------------------------------------------
(* Reading a frame                                                         *)

(* The pipe is empty and closed: only the read of a block number does not  *)
(* notice, but the read of the block after it does.                        *)
Mutant_NoticesEof == FALSE                     \* a result of 0 is retried
NoticesEof == AtEof
ReadEof ==
  /\ ppc \in Reads /\ NoticesEof
  /\ IF ppc = "number" THEN ppc' = "data" /\ UNCHANGED <<player_stop, reader>>
                       ELSE PlayerLeave("out") /\ player_stop' = TRUE
  /\ UNCHANGED <<fifo, writer, poolVars, videoVars>>

(* What is read where a token of another kind is due is not what it seems. *)
Misread == /\ PlayerLeave("misread")
           /\ UNCHANGED <<player_stop, poolVars, videoVars>>

(* The frame buffer keeps the last frame unless the size changes.          *)
ReadHeader ==
  /\ ppc = "header" /\ Take
  /\ IF Head(fifo).kind = "header"
     THEN /\ header' = Head(fifo)
          /\ frame_buffer' = IF header'.id = header.id THEN frame_buffer
                             ELSE [k \in 0 .. header'.id - 1 |-> Nothing]
          /\ asked' = {}
          /\ ppc' = "blocks"
          /\ UNCHANGED <<reader, player_stop, poolVars, block, lhe_block_data,
                         shown>>
     ELSE Misread
  /\ UNCHANGED writer

(* A length of 0 is the end of the frame; the player gives up at a length  *)
(* it has no room for.                                                     *)
IsEnd(t)   == t.kind = "end" \/ BlockOf(t) \in EmptyBlocks
IsLarge(t) == ~IsEnd(t) /\ BlockOf(t) \in LargeBlocks
ReadBlock ==
  /\ ppc = "block" /\ Take
  /\ IF Head(fifo).kind \in {"block", "end"}
     THEN /\ block' = Head(fifo)
          /\ IF IsLarge(block')
             THEN PlayerLeave("out") /\ player_stop' = TRUE
             ELSE /\ ppc' = IF IsEnd(block') THEN "join" ELSE "number"
                  /\ UNCHANGED <<reader, player_stop>>
          /\ joined' = 0
          /\ UNCHANGED <<threads, args, next_thread, pool_startup, header,
                         lhe_block_data, frame_buffer, asked, shown>>
     ELSE Misread
  /\ UNCHANGED writer

ReadNumber ==
  /\ ppc = "number" /\ Take
  /\ IF Head(fifo).kind = "number"
     THEN /\ block' = Head(fifo)
          /\ ppc' = "data"
          /\ UNCHANGED <<reader, player_stop, poolVars, header,
                         lhe_block_data, frame_buffer, asked, shown>>
     ELSE Misread
  /\ UNCHANGED writer

ReadData ==
  /\ ppc = "data" /\ Take
  /\ IF Head(fifo).kind = "data"
     THEN /\ lhe_block_data' = BlockOf(Head(fifo))
          /\ ppc' = "slot"
          /\ UNCHANGED <<reader, player_stop, poolVars, header, block,
                         frame_buffer, asked, shown>>
     ELSE Misread
  /\ UNCHANGED writer

-----------------------------------------------------------------------------
(* The pool                                                                *)

(* pthread_join waits for a thread that runs.  On a slot that holds no     *)
(* thread, or one already waited for, it is undefined: it returns, or the  *)
(* program crashes.                                                        *)
Join(k) == threads[k] # "running"
JoinCrashes(k) == threads[k] = "none"

Mutant_WaitsForSlot == FALSE                   \* relaunches without waiting
WaitsForSlot == ~pool_startup

(* A row outside the frame buffer ends the program: an exception.          *)
LaunchThread ==
  /\ ppc = "slot"
  /\ WaitsForSlot => Join(next_thread)
  /\ IF block.id \in DOMAIN frame_buffer
     THEN /\ threads' = [threads EXCEPT ![next_thread] = "running"]
          /\ args' = [args EXCEPT ![next_thread] =
                        [row |-> block.id, data |-> lhe_block_data]]
          /\ asked' = asked \cup {block.id}
          /\ pool_startup' = (pool_startup /\ next_thread # 0)
          /\ next_thread' = (next_thread + 1) % THREAD_N
          /\ ppc' = "blocks"
          /\ UNCHANGED reader
     ELSE /\ PlayerLeave("crashed")
          /\ UNCHANGED <<threads, args, asked, pool_startup, next_thread>>
  /\ UNCHANGED <<fifo, writer, player_stop, joined, header, block,
                 lhe_block_data, frame_buffer, shown>>

(* decode_block, all of it: the rows of two threads are apart.             *)
DecodeBlock(k) ==
  /\ threads[k] = "running" /\ ppc \notin PlayerLeft
  /\ frame_buffer' = [frame_buffer EXCEPT ![args[k].row] = args[k].data]
  /\ threads' = [threads EXCEPT ![k] = "finished"]
  /\ UNCHANGED <<fifoVars, ppc, player_stop, args, next_thread, pool_startup,
                 joined, header, block, lhe_block_data, asked, shown>>

Mutant_SlotsToJoin == THREAD_N - 1             \* forgets the last slot
SlotsToJoin == THREAD_N
JoinAll ==
  /\ ppc = "join" /\ joined < SlotsToJoin
  /\ Join(joined)
  /\ \/ /\ threads' = [threads EXCEPT ![joined] = "none"]
        /\ joined' = joined + 1
        /\ UNCHANGED <<ppc, reader>>
     \/ JoinCrashes(joined) /\ PlayerLeave("crashed") /\ UNCHANGED <<threads, joined>>
  /\ UNCHANGED <<fifo, writer, player_stop, args, next_thread, pool_startup,
                 videoVars>>

Show ==
  /\ ppc = "join" /\ joined = SlotsToJoin
  /\ shown' = Append(shown, [img |-> header.img, rows |-> frame_buffer, asked |-> asked])
  /\ next_thread' = 1 /\ pool_startup' = TRUE
  /\ ppc' = "frame"
  /\ UNCHANGED <<fifoVars, player_stop, threads, args, joined, header, block,
                 lhe_block_data, frame_buffer, asked>>

PlayerWork == \/ TestPlayerStop \/ ReadEof \/ ReadHeader \/ ReadBlock
              \/ ReadNumber \/ ReadData \/ LaunchThread \/ JoinAll \/ Show
Pool == \E k \in Slots : DecodeBlock(k)

(* Any writer: whatever it puts into the pipe, and it may leave.           *)
Feeding == /\ (\E t \in Tokens : Put(t)) \/ UNCHANGED fifo
           /\ writer' \in {writer, FALSE}
           /\ UNCHANGED <<reader, playerVars>>

PlayerNext == PlayerWork \/ Pool \/ PlayerSigInt \/ Feeding
PlayerSpec == PlayerInit /\ FifoInit /\ [][PlayerNext]_<<playerVars, fifoVars>>

-----------------------------------------------------------------------------
(* Properties                                                              *)

Row == [img : Images \cup {Garbage}, id : Nat]

(* The values the player's variables range over.                           *)
PlayerTypeOK ==
  /\ ppc \in {"frame", "blocks", "slot", "join"} \cup Reads \cup PlayerLeft
  /\ player_stop \in BOOLEAN
  /\ \A k \in DOMAIN frame_buffer : frame_buffer[k] \in Row
  /\ threads \in [Slots -> {"none", "running", "finished"}]
  /\ \A k \in Slots : args[k].row \in Nat /\ args[k].data \in Row
  /\ next_thread \in Slots /\ joined \in 0 .. THREAD_N
  /\ asked \subseteq DOMAIN frame_buffer

(* newmain.cc:729, of waiting for threads: "don't wait for a thread that   *)
(* hasn't ever been launched" (nor for one already waited for).            *)
JoinsLaunchedOnly ==
  [][joined' > joined => threads[joined] # "none"]_playerVars

(* A slot is given a new block when it holds no thread yet or when its     *)
(* thread has ended and is waited for: else that thread would decode       *)
(* another block than its own, or never be waited for.                     *)
SlotsNotOverwritten ==
  [][ppc = "slot" /\ ppc' = "blocks" =>
       threads[next_thread] = IF pool_startup THEN "none" ELSE "finished"]_playerVars

(* Every block of a frame read from the pipe is in the frame shown.        *)
ShownIsDecoded ==
  \A s \in DOMAIN shown : \A k \in shown[s].asked :
    shown[s].rows[k] = [img |-> shown[s].img, id |-> k]
=============================================================================
