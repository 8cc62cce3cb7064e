---------------------------- MODULE FramePacing ----------------------------
(***************************************************************************)
(* How LHE_send_dir (LHEpack.c) spaces the files of a directory out in     *)
(* time: before every file but the first it reads the clock and sleeps for *)
(* what timespec_timeleft (utils.c) says is left.  Times are pairs of      *)
(* seconds and nanoseconds, subtracted field by field.                     *)
(*                                                                         *)
(* What LHE_sender sends is left to module LheSender; here it takes any    *)
(* time, and sends nothing when a SIGINT has reached its handler.  The     *)
(* names are not those of LheSender, so that one module can extend both.   *)
(***************************************************************************)
EXTENDS Integers

CONSTANTS
  NSEC,        (* BILLION: nanoseconds in a second                         *)
  UNIT_NS,     (* unit: the time from one file to the next                 *)
  Files,       (* n: the files in the directory                            *)
  StartTimes,  (* what CLOCK_MONOTONIC may show, in ns, at the start       *)
  Ticks,       (* how much time may pass between two steps                 *)
  MaxTime      (* bound on the time                                        *)

ASSUME ClockAssumption ==
  /\ NSEC \in Nat /\ UNIT_NS \in 1 .. NSEC - 1 /\ Files \in Nat
  /\ StartTimes \subseteq Nat /\ Ticks \subseteq Nat /\ MaxTime \in Nat

VARIABLES
  time,        (* CLOCK_MONOTONIC, in ns                                   *)
  start, now, wait, shouldve,  (* struct timespec                          *)
  until,       (* when nanosleep is over                                   *)
  files_sent,  (* LHE_send_dir's frames_sent                               *)
  dir_stop,    (* "stop" of LHEpack.c                                      *)
  interrupted, (* SIGINT has set LHE_sender's flag                         *)
  place        (* the point of the code reached                            *)
pacingVars == <<time, start, now, wait, shouldve, until, files_sent, dir_stop,
                interrupted, place>>

-----------------------------------------------------------------------------
(* utils.c                                                                 *)

Timespec(t) == [s |-> t \div NSEC, ns |-> t % NSEC]
Total(ts) == (ts.s * NSEC) + ts.ns

NotBelow0(x) == IF x < 0 THEN 0 ELSE x

Mutant_timespec_diff(from, to) ==              \* borrowed, but not given to ns
  [s  |-> NotBelow0(IF to.ns < from.ns THEN to.s - from.s - 1 ELSE to.s - from.s),
   ns |-> NotBelow0(to.ns - from.ns)]
timespec_diff(from, to) ==
  LET borrow == to.ns - from.ns < 0
  IN  [s  |-> NotBelow0(IF borrow THEN to.s - from.s - 1 ELSE to.s - from.s),
       ns |-> NotBelow0(IF borrow THEN to.ns - from.ns + NSEC ELSE to.ns - from.ns)]

Mutant_timespec_timeleft(should, from, to) == timespec_diff(timespec_diff(to, from), should)
timespec_timeleft(should, from, to) ==
  timespec_diff(timespec_diff(from, to), should)

timespec_add(t1, t2) ==
  LET ns == t1.ns + t2.ns
  IN  IF ns >= NSEC THEN [s |-> t1.s + t2.s + 1, ns |-> ns - NSEC]
                    ELSE [s |-> t1.s + t2.s, ns |-> ns]

-----------------------------------------------------------------------------
(* LHE_send_dir                                                            *)

Zero == [s |-> 0, ns |-> 0]
unit == [s |-> 0, ns |-> UNIT_NS]

PacingInit ==
  /\ time \in StartTimes
  /\ start = Timespec(time) /\ now = Zero /\ wait = Zero /\ shouldve = Zero
  /\ until = 0 /\ files_sent = 0 /\ dir_stop = FALSE /\ interrupted = FALSE
  /\ place = "file"

(* The first file is sent at once.                                         *)
FirstFile ==
  /\ place = "file" /\ ~dir_stop /\ files_sent = 0 /\ files_sent < Files
  /\ place' = "send"
  /\ UNCHANGED <<time, start, now, wait, shouldve, until, files_sent, dir_stop,
                 interrupted>>

ReadClock ==
  /\ place = "file" /\ ~dir_stop /\ files_sent > 0 /\ files_sent < Files
  /\ now' = Timespec(time)
  /\ wait' = timespec_timeleft(shouldve, start, now')
  /\ place' = "wait"
  /\ UNCHANGED <<time, start, shouldve, until, files_sent, dir_stop, interrupted>>

Sleep ==
  /\ place = "wait"
  /\ until' = time + Total(wait)
  /\ place' = "sleep"
  /\ UNCHANGED <<time, start, now, wait, shouldve, files_sent, dir_stop, interrupted>>

(* nanosleep returns when it is time, or early for a signal; its result is *)
(* not looked at.                                                          *)
Wake ==
  /\ place = "sleep" /\ (time >= until \/ interrupted)
  /\ place' = "send"
  /\ UNCHANGED <<time, start, now, wait, shouldve, until, files_sent, dir_stop,
                 interrupted>>

(* LHE_sender returns; no packet sent means stop.                          *)
SenderReturns ==
  /\ place = "send"
  /\ dir_stop' = interrupted
  /\ shouldve' = timespec_add(shouldve, unit)
  /\ files_sent' = files_sent + 1
  /\ place' = "file"
  /\ UNCHANGED <<time, start, now, wait, until, interrupted>>

End ==
  /\ place = "file" /\ (dir_stop \/ files_sent = Files)
  /\ place' = "done"
  /\ UNCHANGED <<time, start, now, wait, shouldve, until, files_sent, dir_stop,
                 interrupted>>

(* LHE_sender's handler is there from the first call on.                   *)
SignalSender ==
  /\ files_sent > 0 /\ place # "done"
  /\ interrupted' = TRUE
  /\ UNCHANGED <<time, start, now, wait, shouldve, until, files_sent, dir_stop, place>>

Tick ==
  /\ place # "done"
  /\ \E d \in Ticks : time + d <= MaxTime /\ time' = time + d
  /\ UNCHANGED <<start, now, wait, shouldve, until, files_sent, dir_stop,
                 interrupted, place>>

PacingNext == \/ FirstFile \/ ReadClock \/ Sleep \/ Wake \/ SenderReturns \/ End
              \/ SignalSender \/ Tick
PacingSpec == PacingInit /\ [][PacingNext]_pacingVars

-----------------------------------------------------------------------------
(* Properties                                                              *)

(* When the file after the first k is to be sent.                          *)
Due(k) == Total(start) + k * UNIT_NS

(* No file is sent before its time: the receiver's player is not overrun.  *)
(* (A sleep that a SIGINT cuts short is followed by no packet.)            *)
NeverEarly == place = "send" /\ ~interrupted => time >= Due(files_sent)

(* In time, the sleep is exact.  A late file is not sent at once, though   *)
(* nothing is left to wait: of the negative difference only the seconds    *)
(* are set to 0, so that the file is put off to a whole number of seconds  *)
(* after its time, by less than one - and the following ones with it.      *)
PutOffToWholeSeconds ==
  place = "wait" =>
    LET late   == Total(now) - Due(files_sent)
        putOff == late + Total(wait)
    IN  /\ late <= 0 => putOff = 0
        /\ late > 0 => putOff % NSEC = 0 /\ putOff - late \in 0 .. NSEC - 1
=============================================================================
