----------------------------- MODULE RtspServer -----------------------------
(***************************************************************************)
(* rtsp_server_lhe.c: one main thread that accepts a client, answers its   *)
(* requests, and starts and stops the thread that transmits from memory    *)
(* (SenderThread).  The server's state is global: it outlives the client.  *)
(* SIGINT has one handler for the whole process: the server's own, until   *)
(* the first transmitting thread installs the one of LHE_sender.c.         *)
(*                                                                         *)
(* pc: "accept", "read", "created" (PLAY: thread made, not yet answered),  *)
(* "joining" (stop_sender: signal sent, socket closed), "exited".          *)
(***************************************************************************)
EXTENDS TcpLink, SenderThread

CONSTANTS
  None,
  MaxSigInts          (* bound: SIGINTs the user sends to the server       *)

VARIABLES
  state,              (* SERVER_STATE_...: "INIT", "READY", "PLAYING"      *)
  serving,            (* the client behind newsockfd                       *)
  pc,
  after,              (* what stop_sender returns to                       *)
  cseq,               (* of the last request                               *)
  handler,            (* whose sigint_handler is installed                 *)
  sigints,
  missed              (* history: a SIGINT for the thread came too early   *)
serverVars == <<state, serving, pc, after, cseq, handler, sigints, missed>>

ServerInit ==
  /\ state = "INIT" /\ serving = None /\ pc = "accept" /\ after = "none"
  /\ cseq = 0 /\ handler = "server" /\ sigints = 0 /\ missed = FALSE
  /\ ThreadInit

Reply(status) == [status |-> status, cseq |-> cseq']
(* A method that is answered at once; the server reads on.                 *)
Answer(status) ==
  /\ SendReply(serving, Reply(status))
  /\ UNCHANGED <<conn, listening, serving, pc, after, handler, sigints, missed,
                 threadVars>>

Accept(c) ==
  /\ pc = "accept" /\ conn[c] = "queued"
  /\ conn' = [conn EXCEPT ![c] = "open"]
  /\ serving' = c /\ pc' = "read"
  /\ UNCHANGED <<requests, replies, listening, state, after, cseq, handler,
                 sigints, missed, threadVars>>

(* read returns 0: the next client is waited for, in the same state.       *)
ClientLeft ==
  /\ pc = "read" /\ conn[serving] = "client" /\ requests[serving] = <<>>
  /\ serving' = None /\ pc' = "accept"
  /\ UNCHANGED <<linkVars, state, after, cseq, handler, sigints, missed,
                 threadVars>>

Request == Head(requests[serving])
Read(methods) ==
  /\ pc = "read" /\ requests[serving] # <<>>
  /\ requests' = [requests EXCEPT ![serving] = <<>>]
  /\ cseq' = Request.cseq
  /\ Request.method \in methods

(* OPTIONS, DESCRIBE; anything else, or another version of the protocol.   *)
Inform  == Read({"OPTIONS", "DESCRIBE"}) /\ Answer(200) /\ UNCHANGED state
Unknown == /\ \/ Read({"OTHER"}) /\ Answer(405)
              \/ Read({"VERSION"}) /\ Answer(505)
           /\ UNCHANGED state

MaySetup == state = "INIT"
Setup == /\ Read({"SETUP"}) /\ MaySetup /\ state' = "READY" /\ Answer(200)

MayPlay == state = "READY"
Play ==
  /\ Read({"PLAY"}) /\ MayPlay
  /\ Create /\ pc' = "created"
  /\ UNCHANGED <<conn, replies, listening, state, serving, after, handler,
                 sigints, missed>>
Mutant_Playing ==                             \* state not set
  /\ pc = "created"
  /\ SendReply(serving, [status |-> 200, cseq |-> cseq])
  /\ pc' = "read"
  /\ UNCHANGED <<conn, requests, listening, state, serving, after, cseq, handler,
                 sigints, missed, threadVars>>
Playing ==
  /\ pc = "created"
  /\ SendReply(serving, [status |-> 200, cseq |-> cseq])
  /\ state' = "PLAYING" /\ pc' = "read"
  /\ UNCHANGED <<conn, requests, listening, serving, after, cseq, handler,
                 sigints, missed, threadVars>>

Mutant_Refuse ==                              \* SETUP ignored, not refused
  Read({"PLAY"}) /\ ~MayPlay /\ Answer(501) /\ UNCHANGED state
Refuse == \/ Read({"SETUP"}) /\ ~MaySetup /\ Answer(501) /\ UNCHANGED state
          \/ Read({"PLAY"}) /\ ~MayPlay /\ Answer(501) /\ UNCHANGED state

(* pthread_kill.  Under the server's own handler, which calls stop_sender  *)
(* again, the thread signals itself without end; otherwise stop is set,    *)
(* which a thread that has not come to "stop = false" will forget.         *)
Mutant_Kill == missed' = missed /\ UNCHANGED threadVars
Kill ==
  /\ IF handler = "server" THEN phase' = "stuck" /\ stop' = stop ELSE Signal
  /\ missed' = (missed \/ phase \in {"created", "caught"})

StopSender(purpose) ==
  /\ Kill
  /\ after' = purpose /\ pc' = "joining"

Statuses == [PAUSE |-> 405, TEARDOWN |-> 200]
(* The answer, the client's connection closed, and the next one waited for.*)
LeaveClient(status) ==
  /\ SendReply(serving, Reply(status))
  /\ conn' = [conn EXCEPT ![serving] = IF @ = "open" THEN "server" ELSE @]
  /\ serving' = None /\ pc' = "accept" /\ state' = "INIT" /\ after' = "none"

EndPlaying ==
  /\ Read({"PAUSE", "TEARDOWN"}) /\ state = "PLAYING"
  /\ StopSender(Request.method)
  /\ UNCHANGED <<conn, replies, listening, state, serving, handler, sigints>>

EndIdle ==
  /\ Read({"PAUSE", "TEARDOWN"}) /\ state # "PLAYING"
  /\ LeaveClient(Statuses[Request.method])
  /\ UNCHANGED <<listening, handler, sigints, missed, threadVars>>

Mutant_Joins == TRUE                          \* pthread_join left out
Joins == phase = "gone"
Joined ==
  /\ pc = "joining" /\ Joins /\ after # "exit"
  /\ cseq' = cseq
  /\ LeaveClient(Statuses[after])
  /\ UNCHANGED <<requests, listening, handler, sigints, missed, threadVars>>

JoinedAndExit ==
  /\ pc = "joining" /\ Joins /\ after = "exit"
  /\ pc' = "exited" /\ ServerGone
  /\ UNCHANGED <<requests, replies, state, serving, after, cseq, handler,
                 sigints, missed, threadVars>>

(* The user's SIGINT goes to the main thread and interrupts its call.      *)
Interrupt == sigints' = sigints + 1 /\ sigints < MaxSigInts

(* The server's handler closes every socket, so that accept or the listen  *)
(* after a failed read ends in error() and exit; if it already plays, it   *)
(* calls stop_sender before the thread has a handler of its own.           *)
SigIntServer ==
  /\ Interrupt /\ handler = "server" /\ pc \in {"accept", "read"}
  /\ ServerGone
  /\ IF state = "PLAYING" THEN StopSender("exit")
     ELSE pc' = "exited" /\ UNCHANGED <<after, missed, threadVars>>
  /\ UNCHANGED <<requests, replies, state, serving, cseq, handler>>

(* The sender's handler sets its flag; the interrupted read costs the      *)
(* client its connection, the interrupted accept ends the server.          *)
SigIntSender ==
  /\ Interrupt /\ handler = "sender"
  /\ \/ /\ pc = "read" /\ Signal
        /\ conn' = [conn EXCEPT ![serving] = IF @ = "open" THEN "server" ELSE @]
        /\ serving' = None /\ pc' = "accept"
        /\ UNCHANGED <<listening, after>>
        /\ missed' = (missed \/ phase \in {"created", "caught"})
     \/ /\ pc = "accept" /\ ServerGone /\ serving' = serving
        /\ IF state = "PLAYING" THEN StopSender("exit")
           ELSE pc' = "exited" /\ UNCHANGED <<after, missed, threadVars>>
  /\ UNCHANGED <<requests, replies, state, cseq, handler>>

(* The transmitting thread; its first step replaces the handler.           *)
Thread ==
  /\ pc # "exited" /\ ThreadStep
  /\ handler' = IF phase = "created" THEN "sender" ELSE handler
  /\ UNCHANGED <<linkVars, state, serving, pc, after, cseq, sigints, missed>>

ServerStep == \/ \E c \in Clients : Accept(c)
              \/ ClientLeft \/ Inform \/ Unknown \/ Setup \/ Play \/ Playing
              \/ Refuse \/ EndPlaying \/ EndIdle \/ Joined \/ JoinedAndExit
SigInt == SigIntServer \/ SigIntSender
=============================================================================
