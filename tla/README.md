# A TLA+ model of Packetization-LHE

Packetization-LHE cuts LHE-coded video into RTP packets, sends them over UDP and
puts the video together again on the other side. This directory holds TLA+
modules that model its transmitters, two of its receivers, the RTSP server and
client, the codec and the player, TLC configurations that check them on small
instances, and theorems about them that the TLA+ proof system (TLAPS) checks for
all values of the parameters.

Paths below are relative to the repository: `src/LHE_sender.c` and so on.

## 1. The system

| Component | State it keeps | Operations |
|---|---|---|
| **Directory and file transmitter** (`src/LHE_sender.c` `LHE_sender`, `src/LHEpack.c` `LHE_send_dir`, `LHE_send_file`) | position in the directory, next file's sequence number and timestamp, two flags named `stop` (one per source file), send buffer with RTP and LHE header, position in file and frame | read file, take block into chunk, refuse a block, send a chunk, step to next chunk / frame / file, SIGINT |
| **Memory transmitter** (`LHE_send_from_memory`, `src/block_mover_lib.c`) | as above, plus a queued block and a ring of descriptors in FPGA memory | poll the block mover, queue a block, send, release a descriptor |
| **Stream receiver** (`src/LHE_receiver.c` `LHE_receiver`) | an output file | append the blocks of each packet |
| **File receiver** (`LHE_receiver2`) | sequence-number bookkeeping, write buffer of one frame, timestamp of that frame, statistics, `stop` | receive, account, drop, copy blocks, write a frame to its file, SIGINT |
| **Pipe receiver** (`LHE_receiver3`) | the same bookkeeping, a FIFO | receive, account, drop, write header / block / end of frame to the FIFO |
| **Buffer** (`src/Buffer.c`) | `data`, `size`, `used`, `off` | read, recvfrom, grow, move |
| **File reader** (`src/LHE_reader.c`) | a Buffer and an offset | call back for every header and block of a file |
| **RTSP server** (`src/RTSP/rtsp_server_lhe.c`) | session state, sender thread, its socket | SETUP, PLAY, PAUSE, TEARDOWN, accept, SIGINT |
| **RTSP client** (`src/RTSP/rtsp_client_lhe.c`) | state, receiver thread, sequence of requests | send request, process reply, TEARDOWN, SIGINT |
| **Players** (`LHE_Player/newmain.cc`) | a pool of decoding threads, a frame being decoded, a list of file names | read the FIFO or a directory, launch and join threads, display, delete files |
| **Codec** (`lhe_codec_core.cc`, `lhe_codec.cc`, in the player and in the generator of mock video) | hop1 and the last hop per channel, words and bits of the Huffman code | quantize, pack, unpack, predict, decimate, convert colours |
| **Headers** (`src/RTP.h`, `src/LHE_headers.h`) | none | bit fields; conversions between versions |
| **Time** (`src/utils.c`) | none | difference, sum and remaining time of `timespec`s |
| Command line, converter, dissector, scripts | none between calls | |

How they interact. `LHE_send_dir` calls `LHE_sender` once per file and works the
next file's first sequence number out of its result. Transmitter and receiver
share nothing but UDP datagrams. The pipe receiver feeds the player through a
FIFO. The RTSP server and client run transmitter and receiver in threads and stop
them by sending themselves SIGINT; all modules install handlers of their own with
a static `stop` each, and the handler installed last is the one that is called. The
memory transmitter polls registers of the codec hardware, which waits for nobody. The
file receiver and the player's directory modes share a directory and nothing else:
one adds files while the other reads and deletes them. Encoder and decoder are two
programs that share the file format only.

What is hard here:

- *Signals between any two steps.* `stop` is tested at a few places only; the
  handlers of the receiver work on the statistics themselves.
- *Loss, reordering, duplication.* The receiver infers losses from gaps in 16-bit
  sequence numbers, and frame boundaries from a marker bit or, when that packet is
  lost, from a change of timestamp.
- *Reused state.* The write buffer is never cleared, the reception buffer is
  changed to serve as a file header, header fields survive from packet to packet.
- *Numeric edges.* 16-bit sequence numbers, 16-bit block ids, 6-bit block counts,
  32-bit timestamps, a byte limit per packet, each hit exactly.
- *Partial failure.* A block may be too big to send, `send` and `recvfrom` may fail.
- *Stale looks.* How many blocks the hardware has, which files a directory holds and
  what time it is are read once and used later.
- *Twins.* Encoder and decoder, client and server keep state that must agree.

What makes each component correct:

- Transmitter: the packets of a frame tile it; the marker is on the last packet
  only; sequence numbers are consecutive across files; timestamps tell frames
  apart; packets are neither empty nor needlessly small; SIGINT stops it.
- File receiver: losses are counted right; every frame of which something came
  gets one file, in order; nothing of a later frame is shown; SIGINT ends it and
  saves the frame in progress.
- Both over a perfect network: the video comes out as it went in.
- Pipe receiver and player: the FIFO always carries a well-formed stream, and
  every thread that is joined was launched.
- Memory transmitter: only blocks the hardware has published are sent, all of them
  of the frame begun; a frame once begun is sent to its end; SIGINT stops it.
- RTSP: one transmitting thread at most; client and server agree on who plays and
  which request a reply belongs to; stopping ends, and nobody hangs.
- Codec: the decoder shows the image the encoder predicted from; no read or write
  behind a buffer.
- Directory player: frames in order, no file shown twice, a last frame that is finished
  shown whole, only what is past deleted.
- Time: no file is sent early, and it is known how late one can be.

`PROJECT.json` lists the hazards line by line under `hazards`.

## 2. The modules

| Module | What it models |
|---|---|
| `LheSender` | `LHE_send_dir`, `LHE_sender` and the two SIGINT handlers of the transmitter |
| `PacketStream` | what the transmitter promises: the abstract specification of the packets on the wire |
| `RtpPackets` | the packets as a receiver's buffer holds them |
| `RtpAccounting` | the sequence-number bookkeeping that `LHE_receiver2` and `LHE_receiver3` share |
| `FileReceiver` | `LHE_receiver2`, its SIGINT handler and `squeeze_into_file` |
| `Network` | PacketStream + UDP: loss, reordering, duplication (external) |
| `FileStream` | Network + FileReceiver |
| `VideoLink` | what a viewer expects of the whole when nothing is lost: an abstract specification |
| `Fifo` | the named pipe between the pipe receiver and the player (external) |
| `PipeReceiver` | `LHE_receiver3` and its SIGINT handler |
| `PipePlayer` | `play_pstream` of `LHE_Player/newmain.cc`, its decoding threads and its SIGINT handler |
| `PipeStream` | Network + PipeReceiver + Fifo + PipePlayer |
| `FramePacing` | the clock of `LHE_send_dir`, and `utils.c` |
| `BlockMover` | the two functions of `block_mover_lib.c` that the memory transmitter polls, and the hardware behind them (external) |
| `MemorySender` | `LHE_send_from_memory` and its SIGINT handler |
| `SenderThread` | what the RTSP server may rely on of that thread: an abstract specification |
| `TcpLink` | the connections between RTSP clients and server (external) |
| `RtspServer` | `rtsp_server_lhe.c`, with `SenderThread` |
| `RtspClient` | `rtsp_client_lhe.c` |
| `RtspSession` | server, clients of this repository, other clients, crashes |
| `LheCodecCore` | `lhe_codec_core.cc`: blocks to bytes and back |
| `LheCodec` | `lhe_encoder` and `lhe_decoder`: images to files and back |
| `DirectoryPlayer` | `newmain.cc`: `main`, `decode`, `play`, `step`, `play_fstream`, beside the receiver that fills the directory |
| `MC...` | the instances for TLC, one for each module that runs |
| `...Proofs` | theorems and proofs about the module of that name and the programs it joins; those on `FramePacing` are in `LheSenderProofs` |
| `ReceptionProofs` | what both receivers rest on: `RtpAccounting`, and the stream that `Network` delivers |

    MCLheSender -> LheSender ------- implements ------> PacketStream
                                                             | INSTANCE (source)
                                                          Network
                                                           |    |
    MCFileStream -> FileStream ----------------------------'    |
          |             `---- FileReceiver -- RtpAccounting -- RtpPackets
          `- implements -> VideoLink               |            |
    MCPipeStream -> PipeStream --- PipeReceiver ---'            |
                        |`-------- PipePlayer ---- Fifo         |
                        `---------------------------------------'

    MCMemorySender -> MemorySender -- BlockMover
                           `- implements -> SenderThread
                                                 | EXTENDS
    MCRtspSession -> RtspSession --- RtspServer -'
                          |`-------- RtspClient
                          `--------- TcpLink (of both)

    MCLheCodec -> LheCodec -- LheCodecCore     MCFramePacing -> FramePacing
    MCDirectoryPlayer -> DirectoryPlayer

### LheSender

A frame is the sequence of the lengths of its blocks; no decision of the
transmitter looks at anything else. `pc` names the point of the code reached, and
one action stands for the straight line from one point to the next; the points are
chosen so that each test of a `stop` flag is a step of its own, since a signal can
change the flag right before or after.

| Action | Code |
|---|---|
| `NextFile`, `EndOfDirectory` | head of the loop of `LHE_send_dir` (`LHEpack.c` 385) and what follows it |
| `CallSender` | `LHE_sender` up to its loop: handler, buffer, first header |
| `StartChunk`, `LeaveLoop` | `while (!stop)` |
| `TakeBlock`, `RefuseBlock` | one turn of the `for` loop that fills a chunk; "block too big" |
| `SendChunk` | header fields, marker and `send`, which succeeds or fails |
| `SendInterrupted`, `SendError` | the tests after `send` |
| `NextChunk`, `NextFrame`, `LastFrame` | what is updated for a packet sent |
| `Return` | the end of `LHE_sender`: its result, `stop` cleared |
| `FileSent` | back in `LHE_send_dir`: next sequence number and timestamp |
| `SigInt` | whichever handler is installed |

The wait that keeps the frame rate is in `FramePacing`: it changes no other state. The contents
of blocks, the socket calls and the log are left out. `LHE_send_file` is the case
of a directory of one file, as far as `LHE_sender` goes. The model has a
process killed by a failing `send` stop in `exited`.

What it models and no run singles out: a SIGINT that comes before the first call of
`LHE_sender` is caught by `LHEpack.c`'s handler and lets the file about to be sent
go out whole; a file whose very first block is refused returns 0 packets, which
`LHE_send_dir` takes for a stop, so the files after it are not sent; with five and
more frames per file the timestamps go back from one file to the next
(818 · 4 > 3000), because the step between files is fixed.

### PacketStream

The stream as a receiver may rely on it: each packet is a run of blocks of one
frame, starting where the last one ended; the one that reaches the end of the frame
has the marker; frames come in order with a timestamp that is a function of
their place; sequence numbers are consecutive modulo 2^16; a file may be given up
between two packets. It has no notion of bytes, buffers or flags. `LheSender`
implements it (`ImplementsPacketStream`: model-checked and proved), and
`FileStream` uses it as its source, so that what is checked there is checked for
every stream the transmitter can produce.

### RtpAccounting and FileReceiver

`RtpAccounting!Account(seq, ssrc)` is what lines 357-385 of `LHE_receiver.c` do with
the numbers of one packet. `FileReceiver` is the loop around it. A packet is its
header fields and `img`, the frame it was made from; block *j* of frame `img`
is `[img |-> img, id |-> j]`, so the write buffer `bf_w` tells for every row which
block of which frame it holds, or `Garbage` (it is never initialised).
A file is what `squeeze_into_file` writes: a name, a header and rows.

| Action | Code |
|---|---|
| `TestStop` | `while (!stop)` and, when it is left, the statistics after the loop |
| `EnterRecv`, `Deliver`, `RecvFailed` | `recvfrom`: entered, answered, failed |
| `DispatchAndStop` | "if stop is called during the transmission of a file" (323-344) |
| `DropLate` | a packet of another frame with a smaller sequence number (387-392) |
| `Accept` | everything else: 394-503, including the frame closed on the way, the copying of blocks and the frame dispatched on the marker |
| `SigInt` | the handler: `stop`, the statistics, EINTR |

Handling a packet is one step although a signal can arrive in it: the handler
writes `stop`, `blocks_lost` and `total_blocks`, and of these only `total_blocks`
is written by the code it interrupts; the tests of `stop` are steps of their own.
The order of a signal relative to the additions to `total_blocks` inside one packet
is thus not distinguished. In the middle of a frame the difference the handler
works out is unsigned and wraps: `U64_MOD`.

What it models and no run singles out: after a marker, nothing is recognised as
late, so a late packet of the finished frame opens that frame again under the same
name (388-390, 424-436), and the file is made anew; a frame closed by the first
packet of the next one gets that packet's header, size included (403-408); `current_session` is set by the first
packet and never again (368), so from a second session on nothing counts as lost;
the timestamp restart is computed with 65535 although timestamps have 32 bits
(432); `stop` is never cleared, so a receiver called again would end at once.

### Network and FileStream

The transmitter's stream, in flight: packets are indices into `stream`. `Transmit`
emits a packet, `Lose` loses one in flight, `Arrive` delivers one, in order or,
within `MaxOvertaken`, before older ones, once or (`MaxCopies`) twice. `FileStream`
connects it to `FileReceiver`: a packet arrives when the receiver is in `recvfrom`.
Signals are bounded by `MaxSignals`.

### Fifo, PipeReceiver and PipePlayer

The receiver writes to the pipe what it receives, without lengths or marks of its
own: an LHE header per frame, for each block its header, its number and its bytes,
and a block header of length 0 at the end of a frame. `Fifo` is the kernel's part:
bytes come out in order, a writer waits while it is full, a reader while it is
empty. A token stands for the bytes of one `write`. That is sound because no write the
player reads is longer than `PIPE_BUF`, so that none is split: the longest is a
block of `MAX_BLOCK_LEN`, 1450 bytes, and the player gives up at a longer one
(`LargeBlocks`). `FIFO_SIZE` counts writes where the code has 1048576 bytes.

`PipeReceiver` shares `RtpAccounting` with `FileReceiver`; `LHE_receiver3` repeats
those lines. Since a write can wait, handling a packet is not one step here:

| Action | Code (`src/LHE_receiver.c`) |
|---|---|
| `TestStop` | `while (!stop)` and, when it is left, the end of the function |
| `EnterRecv`, `Deliver`, `RecvFailed` | `recvfrom`: entered, answered, failed |
| `StopInFrame` | "if stop is called during the transmission of a file" (677-681) |
| `DropLate` | a packet of another frame with a smaller sequence number (724-728) |
| `Accept` | the rest, up to the first write |
| `WriteEnd` | the end of a frame whose marker was lost (734-740) |
| `WriteHeader`, `WriteBlock`, `WriteNumber`, `WriteData` | the writes of a frame's header and of a block (759-802) |
| `EndPacket`, `WriteMarker` | the statistics of a packet, and the end of frame after the marker (805-826) |
| `WriteBroken` | a write when the player has left: SIGPIPE, which nothing catches |
| `SigInt` | the handler; a `recvfrom` or a write that waits fails with EINTR |

A signal that arrives just before a write is called does not interrupt it: the write
then waits for the player. `SigInt` has both outcomes. Here, too, the handler's
effect on `total_blocks` is ordered with the steps, not within one.

`PipePlayer` is the loop that reads the pipe, and its threads:

| Action | Code (`LHE_Player/newmain.cc`) |
|---|---|
| `TestPlayerStop` | the two `while (!stop ...)` |
| `ReadHeader`, `ReadBlock`, `ReadNumber`, `ReadData` | the four `read`s and what is decided after each |
| `ReadEof` | a `read` at the end of file; the one of the block number does not look at its result (709) |
| `LaunchThread` | waiting for the slot, its arguments, `pthread_create` (725-754) |
| `DecodeBlock` | `decode_block`, in its thread |
| `JoinAll`, `Show` | the end of a frame (673-701) |
| `PlayerSigInt` | the handler; a `read` that waits fails with EINTR |

The state `misread` is entered when a token is read where another kind is due, e.g.
a block's header where a frame's is expected: what the code does from there depends on
the bytes, and `NeverMisread` says that it does not come to it. `pthread_join` on a
slot without a thread, or with one already joined, is undefined: `Join` goes on, or
the player is `crashed`. `frame_buffer` is a function from rows to blocks, as
`bf_w` is in `FileReceiver`; each thread writes the rectangle of its own block, so
decoding is one step. Frames of one size have one configuration in the model, so
`frame_buffer` is reallocated when the number of blocks changes (641-656). The model
starts when both programs have opened the pipe, and ends with `play_pstream`;
that threads may still be running then, with arguments on its stack, is not modelled.

Blocks of length 0 (`EmptyBlocks`) and blocks the player gives up at
(`LargeBlocks`) are in the modules, and the theorems hold with them; the runs have
none. A block of length 0 reads as an end of frame (672).

### FramePacing

Before every file but the first `LHE_send_dir` reads the clock and sleeps for what
`timespec_timeleft` says. Times are pairs of seconds and nanoseconds, subtracted
field by field as in `utils.c`; `NSEC` is the number of nanoseconds in a second.

| Action | Code (`src/LHEpack.c`) |
|---|---|
| `FirstFile`, `ReadClock`, `Sleep` | a file read, the first one or a later one: `clock_gettime`, `timespec_timeleft`, `nanosleep` (402-406) |
| `Wake`, `SignalSender` | the sleep is over, or cut short; its result is not looked at |
| `SenderReturns`, `End` | `LHE_sender` has returned, the next due time is worked out with `timespec_add` |
| `Tick` | time passes |

What the module shows of the code: when the second of its times is the earlier one,
`timespec_diff` (`utils.c` 63-81) borrows a second, so that the nanoseconds are not
negative, and then sets the seconds, which are, to 0. So a file that is late by a
fraction of a second is not sent at once but put off to the next whole number of
seconds after its time. `PutOffToWholeSeconds` is that law.

### BlockMover and MemorySender

The hardware writes the blocks of frame after frame into memory and shows in a
register how far it is: 16 bits of frame, 16 of block. `hw` is that position, and it
moves at any time (`Camera`). The library keeps its own 16-bit frame counter and how
many blocks it may hand out before it looks again.

| Action | Code (`src/LHE_sender.c`, `LHE_send_from_memory`) |
|---|---|
| `InstallHandler`, `StartUp` | `sigaction`; `stop = false`, `get_parameters`, `start_video_streaming` |
| `Loop` | `while (!stop)` |
| `DropFrames`, `NewFrame` | polling `get_lhe_global_header`: frames skipped, a header |
| `CopyBlock`, `QueueBlock`, `ChunkFull` | the `for` loop that fills a packet: a block copied, kept for the next packet, no more taken |
| `Ship` | header fields, marker, `send` |
| `Interrupted` | the waits and the `for` loop when they see `stop` |
| `SigInt` | the handler |

A wait is the guard of the action it waits for. `get_parameters` has no return
statement although its result is compared with 0: `Unreturned` is both outcomes, so
the thread may stop itself before any frame. Where memory holds a block is not modelled,
nor that the hardware's ring may come round to a block still being copied: nothing in
the code looks at that.

`SenderThread` is the thread as the RTSP server sees it: created, its handler
installed, `stop = false` done, gone; and the flag. `MemorySender` implements it
(`ImplementsSenderThread`: model-checked; that every step is allowed is proved), and
`RtspServer` EXTENDS it, so that what is checked of the session is checked with
every behaviour of the thread.

### TcpLink, RtspServer, RtspClient and RtspSession

Requests are methods with a CSeq, replies are a status with a CSeq; a connection is
queued, accepted, or closed by one side. A direction holds one message because both
sides of this repository wait for each other.

| Action | Code (`src/RTSP/rtsp_server_lhe.c`) |
|---|---|
| `Accept`, `ClientLeft` | `rtsp_wait_client`; `read` returns 0 (379-383) |
| `Inform`, `Unknown`, `Setup`, `Play`, `Playing`, `Refuse` | the methods, in the states they ask for or not |
| `EndPlaying`, `Joined` | PAUSE and TEARDOWN in PLAYING: `stop_sender`, which signals the thread and joins it, then the answer |
| `EndIdle` | the same in another state |
| `SigIntServer`, `SigIntSender` | the user's SIGINT, with the server's handler or the transmitter's |
| `JoinedAndExit` | `stop_sender` from the handler, and `exit` |
| `Thread` | a step of the transmitting thread |

| Action | Code (`src/RTSP/rtsp_client_lhe.c`) |
|---|---|
| `Connect`, `NoServer` | `connect`, or `error()` |
| `Send`, `BrokenPipe` | a request in the client's state; a write to a connection that was reset |
| `GetReply`, `NoReply` | a reply and the state it leads to; `read` returns 0, which changes no state since line 121 compares instead of assigning |
| `Alarm`, `AlarmEnds` | `error()`: one more TEARDOWN, then `exit` |
| `OpenPlayer`, `UserStops`, `StopReceiver`, `ReceiverEnds`, `Straggler`, `JoinReceiver` | the receiving thread, the user's key, and the end |
| `Crash` | the process is killed |

`RtspSession` puts them together: each client is one of this repository's or another
that sends any method, one after the other, in any state, and need not read replies.

What it models: there is one SIGINT handler for the process. The first transmitting
thread replaces the server's, and it stays when the thread has ended. A SIGINT sent
by `stop_sender` before the thread's `stop = false` is forgotten (or, if the
server's own handler is still there, runs `stop_sender` in the thread itself), and
`pthread_join` then waits for ever: `missed`. `StopSenderEnds` and the liveness of the
clients are stated up to it. The client's `stop_receiver` has the same window: a SIGINT
between `while (!stop)` and `recvfrom` of `LHE_receiver3` (667, 674) is not noticed, and
TEARDOWN has stopped the sender already, so the thread is `deaf`: it ends only if a packet
is still on its way (`Straggler`, which nothing owes), and `pthread_join` waits for it.
A server that is interrupted while it joins or while it creates the thread is not modelled, nor a write to a client that fails.

### LheCodecCore and LheCodec

`LheCodecCore` is the arithmetic: `LHEquantizer` with its predictions and hops,
`Huffman` with codes packed into 32-bit words, `inv_Huffman` with its 16-bit window,
`LHE_dequant`, the colour conversions and decimation. Bytes and words are sequences
of bits. A loop of the code is `Loop`, a recursive function whose step is the loop's
body; the three loops over row, column and channel are one, in their order (`Raster`).
`LheCodec` is the two programs:

| Action | Code (`lhe_codec.cc`) |
|---|---|
| `RefuseImage`, `StartEncoder`, `EncodeBlock` | `lhe_encoder`, in the generator of mock video: the sizes it refuses, the header, a block |
| `StartDecoder`, `DecodeBlock`, `EndDecoder` | `lhe_decoder`, in the player: the header, a block, `interpol_yuv440` and the end |

In front of each block the file has its length (`Stored`), in a field of 13 bits: `size_h` has 5
of its byte. The encoder does not look whether the length fits. When it does not, the decoder
reads fewer bytes than the block has and takes the next header from the middle of the data
(`LoseStep`, instead of `DecodeBlock`); the model stops there, in `undefined`. The
field has room for every block of up to 2730 pixels (`LengthsHold`).

The decoder's block buffer is not cleared: behind a block it holds another block or
memory never written, so what `inv_Huffman` reads there is any bit. `QuantValue` is
the table of quantization values, a parameter of the module. The ranges of the
encoder's table end half way between two values, which makes them a function of it.
`TableAssumption` says what the properties need of the table: bytes, not below the
prediction for a positive hop and not above it for a negative one. All 1792 lines of
`tables/quant_values.txt`, the same file in both programs, are so. Block widths are counted in units of 16 pixels, 2 in the run (`WidthUnit`). `ShownIsQuantized` says
where the chroma of a pixel that was not coded comes from: from the coded pixel above and
to the left in the same block, which with blocks of three lines is not the even row of the
image.

### DirectoryPlayer

A frame is the number of its file; `directory` says which files there are, whether
they are complete, and how often the receiver had made a file again when it made this one (`made`). The
receiver opens, writes and closes the file of a frame (`OpenFile`, `CloseFile`) at any time.
After a frame's marker it may make that frame's file again, empty, under the same name
(`OpenAgain`): that is what `LHE_receiver2` does with a packet that comes late or
twice. No order of packets is assumed. Earlier files it does not touch
(`NamesInOrder`).

| Action | Code (`LHE_Player/newmain.cc`) |
|---|---|
| `Main` | the arguments, and the mode they choose |
| `Scan`, `LeaveLoop`, `DecodeFile`, `PlayFile`, `StepFile`, `Free` | `scandir` and the loops of `decode`, `play` and `step` |
| `StepKey` | the user's key in `step` |
| `Look`, `DeleteOld`, `DecodeLast`, `ShowLast`, `DeletePlayed` | one turn of `play_fstream`: the directory read again, all but the last files deleted, the latest one decoded, shown and deleted |
| `EndPlaying`, `FreeStream` | the end of `play_fstream` |
| `Misread` | `lhe_decoder` on a file that is not finished: it goes by what its memory held where a header is missing |
| `SigInt` | the handler |

What it models and no run singles out: `A_BUFFER_SIZE` is 1, so the file that is decoded
is the newest, which the receiver may still be writing, and which is deleted under it; the
player waits until one more file is there than it keeps; and after the loop a name is read
after it was freed. A frame of which the player took an unfinished file may never be
shown whole: `LastFrameShown` claims that of a last file that is finished and not
made again.

## 3. The runs

| Run | Bounds | What it shows |
|---|---|---|
| `sender_dir` | every frame of 1 to 3 blocks with lengths 0, 1, 6, 7, 22, 23 against 30 bytes per packet, longer frames against 3 blocks per packet, five directories of several files; two first sequence numbers, one next to the rollover; 2 signals | tiling, marker, bounds and packing of chunks, consecutive numbers (`PacketsWellFormed`), stop within one packet, completeness of an undisturbed run, termination, the refinement of PacketStream |
| `pacing` | 5 files, 3 of the 10 units of a second from one to the next; three offsets to the whole second; steps of 1, 2 or 7 units; one SIGINT anywhere | no file early; a late one put off to a whole number of seconds after its time |
| `mem_sender` | three videos of three frames of 1 to 3 blocks, with blocks that are queued, larger than a packet, and not copied; frame counters that wrap at 65536 and that change sign as 16-bit numbers; `number_blocks` left over from before; 1 signal | only published blocks of the frame begun are sent, in packets that tile it; a frame begun ends; what SenderThread promises |
| `rtsp` | two clients, one or both of this repository, the other with up to three requests of any kind; 1 crash, 1 SIGINT to the server | one sender, sides agree, a stop ends, an orphan ends, no client hangs |
| `file_lossy` | videos of 3 frames of 2 blocks in 1, 2 or 3 files, a frame of 1 and then one of 3 blocks, and the other way round; any packet split; up to 4 losses; the number rolls over at every place of the stream, or not; 1 signal anywhere | losses counted exactly; without a rollover nothing in order is dropped, every frame seen has its file, one per frame and in order (`FilesAreFramesSeen`); an intact frame after a marker is complete; nothing from the future; blocks counted lost are the rows missing unless a frame is smaller than the one before; the receiver leaves its loop (`StopLeavesLoop`), and the frame it was receiving is saved (`StopSavesFrame`) |
| `file_lossless` | videos of 2 to 4 frames of unequal sizes | transmitter, network and receiver together implement VideoLink, liveness included |
| `file_reorder` | frames of unequal sizes; 1 loss, 2 overtakings, 1 duplicate, rollover anywhere | names never back, the law of the loss count, losses never underestimated |
| `pipe_stream` | videos of one or two files with frames of 2 blocks, or of 3 and 1; any packet split; 1 loss, 1 signal to either program anywhere, with and without a rollover; a pipe of two writes, two threads | what is in the pipe is well formed and read as what it is; frames are shown in order, every block decoded (`ShownFaithfully`), intact ones whole; a slot is not reused while its thread runs; the player catches up, and ends when the receiver does |
| `codec` | every chroma mode; blocks of 1, 2 and 3 lines, images of up to two rows of blocks, sizes that are refused; images of one colour with up to two pixels of others; lengths of blocks below 14 bytes fit their field | the decoder shows the encoder's own image, unless it loses its step at a length that was cut; nothing is read or written behind a buffer; an image of one colour comes back |
| `player_dir` | every mode with enough arguments and without; 5 frames of which 0, 1 or 3 are there at the start; the last file made again once, anywhere; SIGINT and keys anywhere | frames in order and no file twice, all converted, the index in its list (`ShowsTheDirectory`); only what is past is deleted, and all of it but one file; the last frame is shown; a stop ends |
| `find_*` | the smallest instance | see section 6 |

Several related invariants are one property where one run checks them together; they are
named conjuncts of it (`PacketsWellFormed`, `FilesAreFramesSeen`, `ShownFaithfully`,
`ReadsItsFrame`, `SidesAgree`, `ShowsTheDirectory`, `ClearsThePast`, `WithinBounds`).

Why the bounds are enough. The 30-byte packets leave 8 bytes for blocks: 6 fills
a packet exactly, 7 and 22 exceed it when alone, 23 is refused, 0 and 1 put
several blocks in one. So both sides of every comparison of the `for` loop are met,
and its three limits are each the one that bites. Three blocks make a frame
of one, two or three packets; a receiver's step depends on the packet, on the frame
in the buffer and on the previous packet only, so three frames cover first, middle
and last, and a lost or late packet in each place. The width of sequence
numbers is not reduced: the model counts modulo 65536 and starts close to it.
`TS_MOD` is 2^30 in the runs because TLC's integers have 32 bits; no run comes near
it. `IMAGE_BSIZE_MAX`, 2880 in the code, is 3, the size of the largest frame.
A pipe of two writes is full and empty again and again, while each write in the
model can be the one that waits, fails or meets a closed pipe. Two threads is the
least the code allows; a frame of three blocks uses a slot twice, one of two uses
each once, and when one block arrives a slot stays unused, as with five threads and
fewer blocks than five.

Three frames let the hardware be ahead of the memory transmitter by none, one and two
frames, the three cases the library tells apart; a header read a frame late
announces the blocks of a frame of another size, since sizes differ. Two RTSP clients
are one that is served and one that waits behind it; a third would wait behind the second. Three requests
bring the foreign client to PLAYING and out of it. The codec's images
are small because its state is per row: one block column more repeats what two
show; a plain image exercises the shortest code throughout, a spot of another colour the
longest, and codes straddle 32-bit words at many offsets. The runs' table of
quantization values has the ratio the real one has away from the ends of the
scale; no property depends on its values. Five frames are more than the player ever
keeps, and a file made again meets it at each point of its round; a second one (checked once, it
adds minutes) shows nothing new, since what is kept of the first is only that it is
newer. `LengthMod`, 8192 in the code, is 14, so that some blocks of the run are cut and most
are not. In `pacing` a second has ten units instead of 10^9, which the theorems do not need.

Named bounds: `FIFO_SIZE`, `MaxBlocks`, `MaxSignals`, `MaxLosses`, `MaxOvertaken`,
`MaxCopies`, `MaxSigInts`, `MaxCrashes`, `MaxRequests`, `Frames`, `MaxAgain`, `Files`,
`MaxTime`, `WidthUnit`, `LengthMod`.

`CHECK_DEADLOCK FALSE` is set because all programs end, and because the receiver
waits for ever once the transmitter has nothing left to send: it has no time-out. The
server waits for ever for another client, `step` for a key.

### Fairness

`LheSender!FairSpec` has weak fairness of the transmitter's own steps: it is one
thread that waits for nobody, apart from the frame-rate delay, which ends. Signals are not owed to
anyone. `FileStream!FairSpec` has weak fairness of the receiver (a thread that
takes every step it can; waiting in `recvfrom` is not one), of the transmitter
(`LheSender` shows that it goes on to its end) and of the arrival of packets in
flight: UDP owes nobody an arrival, but a packet is not in flight for ever, it
arrives or is lost. `StopLeavesLoop` is stated for a signal that comes where the
loop tests `stop` next; one that comes between the test and `recvfrom` has to wait
for the next packet, which may never arrive, and the property does not claim
otherwise. `StopSavesFrame` starts where the stop is noticed after `recvfrom` (323); a signal
that comes while a packet is handled is noticed by the test of the loop first, which
loses the frame (section 6), and the property leaves that case out.

`PipeStream!FairSpec` has weak fairness of the receiver, the player and the decoding
threads (each takes the steps it can: waiting in `recvfrom`, in a full or empty pipe
or in `pthread_join` is not one), of the transmitter and of arrivals. `Decode` is
one action for all threads: each decodes one block and ends, so none can be put off
for ever. `PlayerEnds` needs no end of the receiver, it starts from one;
`SeenFramesAreShown` is stated without signals, which may stop a program at any
point, and up to a crash in `find_join`'s `pthread_join`.

`MemorySender!FairSpec` has weak fairness of the thread, which polls in its waits, and
of the camera until the video is over: the hardware does not leave a frame half
written. `RtspSession!FairSpec` has weak fairness of the server and of each client of
this repository, whose steps depend on each other's messages only, and of the
transmitting thread up to `Progress`: it need not fail by itself, but leaves its loop
once it is told, which is `StopEndsIt` of `MemorySender`. Users press no key they need not,
crashes are not owed, other clients owe nothing. `OrphanEnds` and
`ClientProceeds` name what ends the wait otherwise: a missed SIGINT, of the server's thread
or of the client's (`deaf`), the server's end, another client that is being served.
`ReceiverEnds` is fair, for a thread that has noticed; `Straggler`, a packet still
on its way, is not.

`DirectoryPlayer!FairSpec` has weak fairness of the receiver, which writes frames as long as
there are any, and of the player's steps that do not stop it: escape and failed deletions
are not owed, nor that a file is made again. In `step` a key is never owed.

Every property of a passing run has a mutation of the modelled code that violates
it (operators named `Mutant_...`): a wrap left out, a sequence number off by one, a
forgotten reset, a guard dropped.

## 4. What is proved

The theorems hold for all values of the constants that satisfy the named
assumptions (TLC evaluates all of them in the runs): `VideosAssumption` (files and frames are not empty, block ids fit 16
bits), `ConstantsAssumption` (limits of at least 30 bytes and at most 63 blocks,
a timestamp wider than the step), `MemorySenderAssumption` (the same limits, first
sequence numbers of 16 bits), `PacketAssumption` (images have blocks),
`ReceiverAssumption` (garbage is no block), `NetworkAssumption` (frames fit the
receivers' arrays and their numbers fit 16 bits), `FifoAssumption` (the pipe has room for
a write), `PipeAssumption` and `PoolAssumption` (two threads or more), `ClockAssumption` (files
less than a second apart), `DirectoryAssumption` (what was there before are frames of the
receiver), `MoverAssumption` (frames have blocks), `SessionAssumption`
(`None` is no client), `TableAssumption` (see LheCodecCore above), `RequestAssumption` (images are
rows of colours; blocks of one line in yuv420 come with an even number of rows),
`WidthAssumption` (the unit of block widths is even) and `LengthAssumption` (the length
field has values). They have nothing else in common with the runs'
instances: any directory, any block lengths, any number of signals.

**`ReceptionProofs`.** `AccountLosses`: for every sequence of packets,
`AccountTypeOK` and `LossAccounting` hold, the latter saying that the number
expected next is the first number plus arrivals plus losses, modulo 2^16. The
conjunction is inductive. The argument is arithmetic: `SkippedLands` says
that the next expected number plus what `Skipped` returns is the arriving number,
modulo 2^16, on both sides of the rollover, and 0 for a late packet moves the
expected number by one with the count of arrivals; `SkippedExact` that a gap of up to half
a turn is counted as what it is. The rest are the lemmas on the network that the proofs
about whole systems need: the stream keeps the form PacketStream promises (`StreamInv`: packets
fit their frames, each continues the one before, any two are in the order of their
frames), what was sent stays, what arrives is a packet a receiver can read
(`DatagramType`), without copies nothing arrives twice (`OnceInv`), and when nothing can be
overtaken the k-th arrival is packet k or later, the difference being losses (`OrderInv`).

**`FileStreamProofs`**, first part. Of `ReceiverSpec`, the receiver against an arbitrary
sender (any packet of the type, in any order, SIGINT anywhere): `ReceiverTypeCorrect`,
`LossesAlwaysAccounted`, `NamesAlwaysInOrder`. The inductive invariant adds to the last
one that the names written are at most `ts_aux`, which only grows. `StreamFeedsReceiver` says that a
behaviour of `FileStream` is one of `ReceiverSpec`, so that all this holds of transmitter, network
and receiver together.

**`FileStreamProofs`**, second part, of `FileStream`'s `Spec`. `HandlingInv` ties the receiver to
the network: all arrivals but the one in the buffer have been handled, and `current_seqnum`
and `base` are the numbers of the last and the first of them. `StepKinds` sorts the steps into
those that handle a packet, the stop in a frame, and the rest. On this rest

- `LossNeverUnderestimated`, for every network that may lose, delay, reorder: the index of the packet
  the code expects, first arrival + arrivals + losses, is beyond every packet handled
  (`CountInv`), since a packet at or beyond it moves it behind itself. That is a
  statement about numbers; `MissingCounted` turns it into one about sets with a
  bijection between the arrivals and the packets handled.
- `LossAlwaysExact`, for a network that keeps the order (`InOrder`) and loses at most 2^15
  packets, half a turn of the sequence number, also across the rollover.
- `FilesAreAlwaysFramesSeen`, `NeverABlockFromTheFuture`, `IntactAfterMarkerAlwaysWhole`, for a
  network that keeps the order. `FilesInv` says that every packet handled is of the frame in the
  buffer or has a file, that names grow and are timestamps of packets handled, and how
  `ts_current` and `first` tell what the last packet was. `PastInv` adds that the buffer
  holds no block later than `ts_current`. `WholeInv` follows a frame: one that came
  without a gap since its first packet, after a marker, is in the buffer up to the last
  packet, and with its marker in a file. `NoGap` is the heart of it: such a
  packet is never taken for one of the next frame, which is what loses blocks in the run `find_intact_frame`.
- `BlocksLostAreAlwaysMissingRows`, for the same networks, rollovers included. Two loops count:
  `total_blocks` grows with each file by the rows it gets, `blocks_received` with each packet. In
  the middle of a frame they differ from the rows missing in the files by the rows of the frame that are
  in the buffer already (`BlocksInv`); that a packet adds as many as it has blocks needs that they
  come from earlier packets of the frame, whose blocks are others (`OpenRowsCame`), and that
  nothing of it is left over from before (`PastInv`). A packet that closes the frame of another
  adds none and counts none. It also decides how many rows the closed frame's file gets: its own number of
  blocks. With a frame smaller than the one before it, rows received are cut off the
  file, which no counter shows; hence `FramesNeverShrink` in the property.
- `LosslessShowsTheVideo`, the safety part of `ImplementsVideoLink`, for one video, nothing lost,
  overtaken or copied, and no SIGINT (`Lossless`): every step of the whole shows the next frame, whole, or
  shows nothing. The invariant `ShownInv` says that the frames before the one of the last
  packet are written, whole, and this one as far as it came is in the buffer. It needs
  neither the timestamps nor the numbers: between frames `first` is set, within one the
  timestamp does not change.

The theorems of the third and fourth point have the hypothesis `TimestampsGrow`, because the receiver tells
frames apart, and names files, by timestamp only. It is no formality: frames of a file are
818 apart and files 3000, so that in a file of more than four frames the fifth has a later
timestamp than the next file's first. `OneFileGrows` and `ShortFilesGrow` are the two cases in which it
holds: a single file, until the timestamp wraps around, and a directory of files of up to four
frames; the second covers the runs. `FilesAreFramesSeen` and `IntactAfterMarkerIsWhole` are stated up to the first rollover;
`RolledOver` compares the number of the last packet, not reduced to 16 bits, with
2^16.

**`LheSenderProofs`.** The theorem that matters most is
`SenderImplementsPacketStream`: `Spec => ImplementsPacketStream`. With it come
`UndisturbedAlwaysComplete` (a run without a signal, a failed send or a block too
large ends with every block of the directory on the wire: `SenderInv` and the fact that the last
packet out is then the last chunk of the last frame), `PacketsAlwaysWellFormed`, put together from `ChunksAlwaysTile`, `MarkerAlwaysOnLastChunk`,
`ChunksAlwaysBounded`, `SeqAlwaysConsecutive` and the packing of chunks, and
`StopAlwaysWithinOnePacket`, whose invariant says at which points of the code the
flag can be set with a packet still to come. All but the last rest on `SenderInv`, a conjunction of

- `Position`: the file and the frame the code is at exist;
- `ChunkState`: how `blocks_read`, `first_block_id`, `blocks_in_chunk`, `used` and
  the marker hang together at each point of the loop;
- `TsState`: the timestamps of file and frame are the ones `PacketStream` computes;
- `WireOK`: each packet on the wire is right, and follows the one before it;
- `NextPacket`: how the last packet on the wire relates to what the code will send
  next. This is the part that makes it inductive, since the numbers of the next
  file come from a count that was accumulated and returned: at each point, either
  nothing of this file is out and `initial_seq_num` is the successor of the last
  packet, or `initial_seq_num` plus the count is. It also says why the count may be
  lost after a stop: no packet follows.

There is one lemma per action that the action keeps `SenderInv`, and one on each
operator the actions are made from; arithmetic modulo is in `SeqAdd` and `TsAdd`.
In the refinement, `SendChunk` with a successful `send` is `Emit`, all
other steps stutter. `SenderInv` was checked with TLC before it was proved.

**`LheSenderProofs`**, the pace, of `FramePacing`'s `PacingSpec`. `NeverSentEarly` and
`LateFilesPutOff`. Times are pairs, so the
proof is first one of `timespec_diff`: it is exact when the second time is the later
one (`DiffExact`), and when it is not, what it returns is less than a second and the
same modulo a second (`DiffLate`). The invariant `PacingInv` keeps every pair normal
and says that `shouldve` is how long after the start the next file is due, and that a
sleep does not end before that.

**`PipeStreamProofs`**, first part. Of `PipeSpec`, the receiver against any packets and any
reader, which may also leave: `PipeAlwaysWellFormed`, `PipeLossesAccounted`,
`PipeTypeCorrect`. The grammar speaks of neighbouring tokens, so a step has to
know only the last one written. The inductive invariant `GrammarInv` adds what that is at
each point of the code: before `WriteNumber` the header of that very block,
between packets of a frame the end of a block or the header of the frame with
`ts_current`, between frames nothing or an end. `Place` ties `first` and `ts_current` to the
point of the code: that all blocks written in a frame come from packets with its
timestamp is what makes the tokens fit.

**`PipeStreamProofs`**, second part. Of `PlayerSpec`, the player with any writer, who may put
anything into the pipe: `SlotsNeverOverwritten` and `PlayerTypeCorrect`. The flag `startup` and the counter
`next_thread` say in the code which slots hold a thread; `PoolInv` makes this exact:
while a frame is read, a slot holds a thread if and only if it was launched in this
frame (`Launched`), and while slots are joined, if and only if it was launched and
is not joined yet. That the round starts at slot 1 and ends with slot 0 is what the
arithmetic is about. `PipeJoinsThem` says that a behaviour of `PipeStream` is one of
`PipeSpec` and one of `PlayerSpec`, so that all proved of the two programs holds of the whole.

**`PipeStreamProofs`**, third part, of `PipeStream`'s `Spec`. `FifoInv` splits what was written into what
the player has taken (`Taken`) and what is still in the pipe. On this rest

- `PipeNeverMisread`: `ReadInv` says at each point of the player what it took last, and `PipeGrammar`
  what may follow that. It holds on every network, with signals anywhere.
- `ShownAlwaysDecoded`, on every network: `DecodedInv` says that a row given to a thread holds its block or
  the thread still runs, that no thread runs between frames, and that a block
  read is of the frame whose header was read, since it has its timestamp.
- `ShownAlwaysFaithful`, for a network that keeps the order (`InOrder`), across rollovers too: `InTurn` follows the
  frame being written, so that a header is of a later frame than all that was written before; `RowsInv`
  carries that over to what the player has seen and kept in its buffer, which
  may show rows of earlier frames, but of no later one.
- `IntactAlwaysShownWhole`, for such a network, before the number rolls over. Along the frame: the packets
  sent of it tile it (`CoverInv`); each that was handled is written whole, since none is
  dropped (`NothingDropped`), or the receiver left in the middle of it and the frame is not closed
  (`WrittenInv`); the player gives a thread each block it takes (`CollectedInv`), and
  shows a frame when its end was taken (`ClosedInv`), after which nothing of it
  comes (`AfterEnd`).

All but `PipeNeverMisread` have two hypotheses, and `PipeNeverMisread` the first. `EmptyBlocks = {}`: the header of a block
of length 0 is an end of frame to the player. `TimestampsDiffer`: no two
frames have one timestamp, since the receiver tells frames apart by it only. `FilesDiffer` shows that directories of
files of up to 1500 frames have it, as long as the timestamp does not wrap around: the steps
of 3000 and 818 meet first after 1500 frames and 409 files. It is weaker than the
`TimestampsGrow` above: the pipe receiver does not name anything by timestamps. Both hold of the videos of
the run `pipe_stream`.

**`RtspSessionProofs`.** `SidesAlwaysAgree` and `OnlyOneSender`, for any number of
clients, crashes, signals and foreign requests. The invariant `SessionInv` follows a
request on its way: it waits to be read, or the server is busy with it, or its
reply waits to be read, one of the three, under one number, as long as the connection
stands (`Exchange`); a client that plays is the one that is served, since only it could
have brought the server to PLAYING and only its own request could end that. A server that
serves one client at a time makes it inductive: whatever it does changes the exchange of that
one only.

**`MemorySenderProofs`.** `MemorySenderIsAThread`, the safety part of
`ImplementsSenderThread`: every step of the memory transmitter is one SenderThread
allows, whatever the camera does, which is what lets `RtspSession` use the one for the
other. `MemoryStopWithinOnePacket` from the invariant `FlagOK`: once streaming, nothing clears
the flag.

`ReadsOnlyItsFrame` (`ReadsItsFrame`: only published blocks are read, of the frame
begun, each the one counted on) and `MemoryPacketsWellFormed` (the packets tile the
frames) have a hypothesis, `ShortVideos`: a session of at most 65534 frames, 36 minutes
at 30 frames per second. It is a fact about the code: the library subtracts two
16-bit frame numbers, in one function with the register read as signed, in the other
as unsigned. `AheadRight` says what the differences mean: the unsigned one is the distance in
frames as long as that is at most 65534 (65535 is read as one behind); the signed
one may be a whole turn short, which makes it negative and the sender wait, and
is the distance when it is not negative. In longer sessions a counter stands for
more than one frame and the model, which names a frame by its counter, says nothing.
The hypothesis is on the video, not on how late the thread is, so every pace of the two
is covered, and so is every first frame number, the wrap of the counters included.

The invariant `FollowInv` has seven parts. `CameraInv` and `ThreadInv` are ranges;
`PointInv` says which flags hold at which point of the loop (a queued block only within a
frame, nothing of a chunk at the header); `ChunkInv` that the blocks of the chunk being
filled are consecutive from its first and that they fit or there is one. `FrameInv` ties
the two sides: while blocks are left, the library stands at the frame the sender has
begun and its `current_block` is the number of blocks fetched, the queued one
included; when none is left it stands at the next frame; and as long as the
hardware is in that frame, what may be handed out is published. `TakenInv` says
what the last block fetched was. `WireInv` says of the packets that left
that neighbours follow each other, and of the last one (`LastOK`) how it
stands to the frame in progress and to the next sequence number, also when
attempts in between were refused; without it, that the next packet follows would not be inductive.

**`DirectoryPlayerProofs`.** `PlayerShowsTheDirectory` and `PlayerClearsThePast`, for any
number of frames, of files there before, of files made again, and any command line. The
receiver and the player share nothing but the directory, so the invariant
`DirectoryInv` is about which files can be in it. `FilesInv`: only frames the receiver has
begun, up to `writing`, which only grows. `ListInv`: a list that was read is sorted and of
such frames, and in the modes that read it once its files stay. `OnceInv`:
`decode` and `play` have shown the first `i` of the list. `StreamInv` is for `play_fstream`: between two rounds
at most one file is there of a frame before one that was shown, and a file of a frame that
was shown was made after what was shown of it; within a round
exactly the entries of the list from `i` on are there, and what is newer than the list.
A file made again is the receiver's last, so it is never behind anything shown, and its
`made` is larger than that of every picture so far.
So the last file of a list of two was not shown yet, and two are what the code
asks for (`Enough`). `Listed` is the lemma that `scandir` yields a sorted and
complete list: the number of names up to a name is a bijection between the files and
`1 .. Cardinality(Files)`, an injection between sets of one size.

**`LheCodecProofs`.** The codec, for every image, chroma mode and table, and every block size
whose code fits its length field:

- `ShownAsQuantized`: what the player shows is, pixel by pixel, the image the encoder made its
  predictions from, as long as no block outgrows its length field;
- `CodecWithinBounds`: values are bytes, a block fits the buffer `lhe_decoder` has for it,
  and `inv_Huffman`, which looks ahead, does not read behind that buffer; a length is only cut
  where that buffer is as large as what the field cannot say;
- `PlainImagesSurvive`: an image of one colour comes back but for 2 in each channel.

They rest on three theorems about the operators. `HuffmanInverse`: for every sequence of symbols,
`inv_Huffman` reads from what `Huffman` packed those symbols, whatever is behind
them in the buffer, and no more than three bytes a pixel. `BlockIsDecoded`: the
block decoded is the block quantized. `ColourSurvives`: the bound of 2 on the way to YUV and
back, by interval arithmetic on the integer coefficients.

The codec is loops over data, so the proofs are inductions. The library's induction
theorems are not of use here, but well-foundedness of `<` is stated without a parameter that is
an operator: `NatSet` and `UpTo` say from it that a set with 0 and the successors of its members has
all numbers. With `Recursion` a `Loop` whose steps lead from each of a sequence
of sets of states into the next has a run through those sets; so an invariant of a loop
is a set for each of its turns. For `LHEquantizer` it is `Encoded`, for `LHE_dequant`
`Decoded`: after as many values, `hop1` and the flag for small hops are the encoder's, the
next symbol to be read is the next one written, and the image so far is the one
the encoder kept, chroma that was not coded filled in. The prediction, a function of these,
is then the same, and so is the value. For `Huffman` it is `Packed`: words
written and the word being filled are, together, the codes so far (`Stream`). For `inv_Huffman`,
`Window` says that the bits it holds are those of the stream at its place, and `Reached`
that this is where a code ends; since no code is a prefix of another, the first that matches is
the one written.

`CodecInv` is the invariant of `LheCodec`: after n blocks the file has the code of each
(`FileUpTo`), the encoder's image the quantized values of each (`QuantizedUpTo`), and when the
decoder is at work, its image those of the blocks it has done (`DecodedUpTo`). A pixel lies in one
block at one place (`PlacePixel`), so a block leaves those of others alone.

The three theorems on `LheCodec` have a hypothesis, `HeaderFits`: widths of blocks and numbers of
blocks fit the fields of the file's header, of 8 and 16 bits. `lhe_encoder` does not look, and a larger
image would be cut without notice. It holds of the run's requests, and TLC evaluates it there.
The lengths of blocks need no hypothesis: a block whose length is cut takes the model to
`undefined`, so that `ShownAsQuantized` and `PlainImagesSurvive`, which speak of the end
of the decoder, say nothing of that file; `LengthCut` is the lemma that it takes a block of
`LengthMod` bytes or more.

The attempt to prove `ShownIsQuantized` showed that it had been stated wrongly: chroma
that was not coded was said to be that of the even row of the image. With blocks of an odd number of
lines, at least three, and more than one row of blocks the code takes the even row of the block. The
property says so now, and the run has such images.

## 5. What is only model-checked

- Liveness: `Terminates`, `StopLeavesLoop`, `StopSavesFrame`, the liveness part of `ImplementsVideoLink`,
  `SeenFramesAreShown`, `PlayerEnds`, `FrameBegunEnds`, the liveness part of
  `ImplementsSenderThread`, `StopSenderEnds`, `OrphanEnds`, `ClientProceeds`, `LastFrameShown`
  and `StopEnds`. The prover does not treat fairness and ENABLED.
- `ReadsItsFrame` and `PacketsWellFormed` of `MemorySender` are proved for sessions of at
  most 65534 frames; of longer ones the model says nothing (section 4).

## 6. Where the code and its comments disagree

Each is a run that TLC ends with a counterexample; `PROJECT.json` quotes the lines.

- `find_intact_frame`: when a marker is lost, the first packet of the next frame
  loses its blocks: the block count in the reception buffer is set to 0 to write the
  file header, and read again afterwards (`LHE_receiver.c` 405, 444).
- `find_join`: at the end of a frame the player joins every slot of the pool, also
  slots in which no thread was launched in this frame, which is undefined
  (`newmain.cc` 674-676; comment at 729). It takes a frame of which fewer than five
  blocks arrive.

The models have these too, and the properties of the passing runs are stated with them
as the code has them; no run of their own singles them out:

- A packet may exceed `--max-chunk-size`, because a chunk's first block is compared with
  the limit without the 22 bytes of headers (`LHE_sender.c` 156-162; help text at
  `LHEpack.c` 102).
- A packet that comes late stays counted as lost and shifts the number expected next
  (`LHE_receiver.c` 381-385; comment at 382).
- When the packet with the marker before the rollover is lost, packets of the next frame
  are dropped as "a prior frame" (389).
- SIGINT while a packet in the middle of a frame is handled ends the receiver's loop without
  writing the frame (313 before 323).
- A file that is late is put off to the next whole second (`utils.c` 66-76).
- The length in front of a block has 13 bits and is cut without notice when a block's code
  is longer (`lhe_codec.cc` 97-101, `lhe_codec.h` 38-43; the default block of 128 by 8
  pixels stays below it).
- A SIGINT that comes just before `recvfrom` is not noticed before the next packet
  (313, 667): the RTSP client that has sent its TEARDOWN then waits in `pthread_join` for ever.
- `LHE_send_from_memory` clears `stop` after it has installed its handler
  (`LHE_sender.c` 387): a PAUSE or TEARDOWN that comes at once waits for ever.
- A lost connection does not bring the client to its error state
  (`rtsp_client_lhe.c` 121): it sends its request again, and is killed by SIGPIPE or goes on.

## 7. Not modelled

- *Stream receiver* (`LHE_receiver`): appends blocks to a file; no decision depends on an
  earlier packet.
- *Buffer* and *file reader*: every receiver clears its buffer before each packet and
  gives it the size of a datagram; the reader is a tool that no running part calls.
- *Packet headers*: macros for bit fields. The widths that matter are in the modules
  that use them.
- *Setting up the block mover* (`open_device`, `set_parameters`, checks of register
  addresses): once, before streaming, with fixed values.
- *The RTSP client's own SIGINT handler* (57-67): it writes a TEARDOWN while another request
  may be unanswered and closes the socket under the code it interrupts, which then works
  with a descriptor that is no longer its own. What the receiving thread does: the
  thread is only there or told to stop; its loop is `PipeReceiver`.
- *The wait for a frame's time in `play`* (`newmain.cc` 206-220): it changes no
  other state. `main.cc` of the player is an older version of the same program.
- *The mock video generator's `main`*: a loop that calls `lhe_encoder` for each image.
- *Command line, converter, dissector, scripts, tests*: sequential, nothing kept.
- *Undefined behaviour past the point where it begins*: decoding threads that outlive
  `play_pstream`, names read or freed after they were freed, unfinished files taken for
  a frame, a decoder that has lost its step, odd numbers of rows of one-line blocks.
- *Sockets as descriptors*: that `stop_sender` closes the sender's socket a second time.
- *Several RTP sessions* on one port: `RtpAccounting` has the branch, the runs have one
  transmitter.
- *Timing builds*: the logs of `TIMING` and the hardware's timer.
