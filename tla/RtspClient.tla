----------------------------- MODULE RtspClient -----------------------------
(***************************************************************************)
(* rtsp_client_lhe.c: a client asks OPTIONS, DESCRIBE and SETUP, starts    *)
(* its receiving thread, asks PLAY, waits for its user and asks TEARDOWN.  *)
(* Every request waits for its reply, whose CSeq must be the request's.    *)
(* An error sends one more TEARDOWN and ends the program.  A connection    *)
(* that is lost is not noticed: "state == CLIENT_STATE_ERROR" assigns      *)
(* nothing, and the loop sends its request again.                          *)
(*                                                                         *)
(* at: "connect", "send", "reply", "user", "closing", "ended", "killed",   *)
(* and "alarm", "alarm reply" in error().                                  *)
(***************************************************************************)
EXTENDS TcpLink, Naturals

VARIABLES
  cstate,                   (* CLIENT_STATE_...                            *)
  at, ccseq,
  receiver                  (* the receiving thread: "none", "running",    *)
                            (* "told" (SIGINT sent), "deaf", "gone"        *)
clientVars == <<cstate, at, ccseq, receiver>>

ClientInit ==
  /\ cstate = [c \in Clients |-> "INIT"] /\ at = [c \in Clients |-> "connect"]
  /\ ccseq = [c \in Clients |-> 1] /\ receiver = [c \in Clients |-> "none"]

Goes(c, point) == at' = [at EXCEPT ![c] = point]
Ends(c, point) ==
  /\ Goes(c, point)
  /\ conn' = [conn EXCEPT ![c] = IF @ \in {"queued", "open"} THEN "client" ELSE @]
  /\ receiver' = [receiver EXCEPT ![c] = IF @ = "none" THEN @ ELSE "gone"]

Connect(c) ==
  /\ at[c] = "connect" /\ listening
  /\ conn' = [conn EXCEPT ![c] = "queued"]
  /\ Goes(c, "send")
  /\ UNCHANGED <<requests, replies, listening, cstate, ccseq, receiver>>

NoServer(c) ==                                \* error() in state INIT
  /\ at[c] = "connect" /\ ~listening
  /\ Ends(c, "ended")
  /\ UNCHANGED <<requests, replies, listening, cstate, ccseq>>

Methods == [INIT |-> "OPTIONS", NEGOTIATION |-> "DESCRIBE", SETUP |-> "SETUP",
            CLIENT_READY |-> "PLAY", TEARDOWN |-> "TEARDOWN"]

(* write: to an end that is closed it succeeds once, then SIGPIPE kills.   *)
Write(c, method) ==
  /\ conn[c] \in {"queued", "open", "server"}
  /\ conn' = [conn EXCEPT ![c] = IF @ = "server" THEN "reset" ELSE @]
  /\ IF conn[c] = "server" THEN UNCHANGED requests
     ELSE SendRequest(c, [method |-> method, cseq |-> ccseq[c]])

Send(c) ==
  /\ at[c] = "send" /\ cstate[c] \in DOMAIN Methods
  /\ Write(c, Methods[cstate[c]])
  /\ Goes(c, "reply")
  /\ UNCHANGED <<replies, listening, cstate, ccseq, receiver>>

Mutant_Alarm(c) ==                            \* no TEARDOWN
  /\ at[c] = "alarm" /\ Ends(c, "ended")
  /\ UNCHANGED <<requests, replies, listening, cstate, ccseq>>
Alarm(c) ==                                   \* rtsp_request_teardown
  /\ at[c] = "alarm" /\ Write(c, "TEARDOWN")
  /\ Goes(c, "alarm reply")
  /\ UNCHANGED <<replies, listening, cstate, ccseq, receiver>>

BrokenPipe(c) ==
  /\ at[c] \in {"send", "alarm"} /\ conn[c] = "reset"
  /\ cstate[c] \in DOMAIN Methods \cup {"ERROR"}
  /\ Ends(c, "killed")
  /\ UNCHANGED <<requests, replies, listening, cstate, ccseq>>

OpenPlayer(c) ==
  /\ at[c] = "send" /\ cstate[c] = "SERVER_READY"
  /\ receiver' = [receiver EXCEPT ![c] = "running"]
  /\ cstate' = [cstate EXCEPT ![c] = "CLIENT_READY"]
  /\ UNCHANGED <<linkVars, at, ccseq>>

Wins == [INIT |-> "NEGOTIATION", NEGOTIATION |-> "SETUP", SETUP |-> "SERVER_READY",
         CLIENT_READY |-> "PLAYING", TEARDOWN |-> "CLOSING"]
After(c, r) == IF r.cseq = ccseq[c] /\ r.status = 200 /\ cstate[c] \in DOMAIN Wins
               THEN Wins[cstate[c]] ELSE "ERROR"
NextPoint(s) == CASE s = "ERROR" -> "alarm" [] s = "PLAYING" -> "user"
                  [] s = "CLOSING" -> "closing" [] OTHER -> "send"

(* process_reply, then cseq++; the loop of the state reached goes on.      *)
GetReply(c) ==
  /\ at[c] = "reply" /\ replies[c] # <<>>
  /\ LET s == After(c, Head(replies[c])) IN
       cstate' = [cstate EXCEPT ![c] = s] /\ Goes(c, NextPoint(s))
  /\ replies' = [replies EXCEPT ![c] = <<>>]
  /\ ccseq' = [ccseq EXCEPT ![c] = @ + 1]
  /\ UNCHANGED <<conn, requests, listening, receiver>>

(* read returns 0 or fails: the state stays, and so the request is sent    *)
(* again, under the next number.                                           *)
NoReply(c) ==
  /\ at[c] = "reply" /\ replies[c] = <<>> /\ conn[c] \in {"server", "reset"}
  /\ ccseq' = [ccseq EXCEPT ![c] = @ + 1]
  /\ Goes(c, "send")
  /\ UNCHANGED <<linkVars, cstate, receiver>>

AlarmEnds(c) ==                               \* exit(1), whatever came back
  /\ at[c] = "alarm reply"
  /\ replies[c] # <<>> \/ conn[c] \in {"server", "reset"}
  /\ Ends(c, "ended")
  /\ UNCHANGED <<requests, replies, listening, cstate, ccseq>>

UserStops(c) ==
  /\ at[c] = "user" /\ cstate[c] = "PLAYING"
  /\ cstate' = [cstate EXCEPT ![c] = "TEARDOWN"] /\ Goes(c, "send")
  /\ UNCHANGED <<linkVars, ccseq, receiver>>

(* stop_receiver: SIGINT is noticed by the loop of LHE_receiver3, or by    *)
(* the call the thread waits in; between the two it is missed, and the     *)
(* thread waits for a packet of a sender that TEARDOWN has stopped.        *)
StopReceiver(c) ==
  /\ at[c] = "closing" /\ receiver[c] = "running"
  /\ \E heard \in {"told", "deaf"} : receiver' = [receiver EXCEPT ![c] = heard]
  /\ UNCHANGED <<linkVars, cstate, at, ccseq>>
ReceiverEnds(c) ==
  /\ receiver[c] = "told" /\ receiver' = [receiver EXCEPT ![c] = "gone"]
  /\ UNCHANGED <<linkVars, cstate, at, ccseq>>
(* A packet that was still on its way: stop is tested once it is handled.  *)
Straggler(c) ==
  /\ receiver[c] = "deaf" /\ receiver' = [receiver EXCEPT ![c] = "gone"]
  /\ UNCHANGED <<linkVars, cstate, at, ccseq>>
JoinReceiver(c) ==
  /\ at[c] = "closing" /\ receiver[c] = "gone"
  /\ Ends(c, "ended")
  /\ UNCHANGED <<requests, replies, listening, cstate, ccseq>>

ClientStep(c) ==
  \/ Connect(c) \/ NoServer(c) \/ Send(c) \/ Alarm(c) \/ BrokenPipe(c)
  \/ OpenPlayer(c) \/ GetReply(c) \/ NoReply(c) \/ AlarmEnds(c)
  \/ StopReceiver(c) \/ ReceiverEnds(c) \/ JoinReceiver(c)

(* The client is killed, or its machine is lost.                           *)
Crash(c) ==
  /\ at[c] \notin {"connect", "ended", "killed"}
  /\ Ends(c, "killed")
  /\ UNCHANGED <<requests, replies, listening, cstate, ccseq>>
=============================================================================
