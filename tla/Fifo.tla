-------------------------------- MODULE Fifo --------------------------------
(***************************************************************************)
(* The named pipe between LHE_receiver3 and the player, as the kernel      *)
(* implements it: what is written comes out in order, a writer waits while *)
(* the pipe is full, a reader while it is empty and somebody has it open   *)
(* for writing.  What is written at once goes in as a whole as long as it  *)
(* is not longer than PIPE_BUF, 4096 bytes: the player gives up at blocks  *)
(* of more than 1450.  A token stands for the bytes of one write:          *)
(*   header (LHE header), block (block header), number (block number),     *)
(*   data (the bytes of a block), end (a block header of length 0).        *)
(***************************************************************************)
EXTENDS RtpPackets, Sequences

CONSTANTS
  FIFO_SIZE,      (* 1048576 bytes in the code; here a number of writes    *)
  EmptyBlocks,    (* the blocks of length 0                                *)
  LargeBlocks     (* the blocks longer than the player's MAX_BLOCK_LEN     *)

ASSUME FifoAssumption == FIFO_SIZE \in Nat \ {0}

Kinds  == {"header", "block", "number", "data", "end"}
Tokens == [kind : Kinds, ts : 0 .. TS_MOD - 1, img : Images \cup {Garbage}, id : Nat]

VARIABLES
  fifo,           (* what was written and not yet read                     *)
  writer, reader  (* the end of the pipe is open                           *)

fifoVars == <<fifo, writer, reader>>

FifoInit == fifo = <<>> /\ writer = TRUE /\ reader = TRUE

(* What is written of packet p; id is the number of a block, for a header  *)
(* the number of blocks of the image.                                      *)
Token(kind, p, id) == [kind |-> kind, ts |-> p.ts, img |-> p.img, id |-> id]
EndOfFrame == [kind |-> "end", ts |-> 0, img |-> Garbage, id |-> 0]
BlockOf(t) == [img |-> t.img, id |-> t.id]

IsFull  == Len(fifo) = FIFO_SIZE
IsEmpty == fifo = <<>>
AtEof   == IsEmpty /\ ~writer

Put(t) == reader /\ ~IsFull /\ fifo' = Append(fifo, t)
Take   == ~IsEmpty /\ fifo' = Tail(fifo)
=============================================================================
