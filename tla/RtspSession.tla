---------------------------- MODULE RtspSession ----------------------------
(***************************************************************************)
(* The RTSP server with its transmitting thread, the clients of this       *)
(* repository, one after the other or waiting in the backlog, and other    *)
(* clients that send any request in any state.  Clients may crash, the     *)
(* user may interrupt the server.                                          *)
(***************************************************************************)
EXTENDS RtspServer, RtspClient

CONSTANTS
  Casts,                     (* which of the clients may be this program   *)
  MaxCrashes, MaxRequests    (* bounds: crashes, another client's requests *)

ASSUME SessionAssumption ==
  None \notin Clients /\ Casts \subseteq SUBSET Clients /\ MaxCrashes \in Nat

VARIABLES LheClients, crashes
castVars == <<LheClients, crashes>>
vars == <<linkVars, threadVars, serverVars, clientVars, castVars>>

Others == Clients \ LheClients
Init == LinkInit /\ ServerInit /\ ClientInit /\ LheClients \in Casts /\ crashes = 0

Lhe(c) == ClientStep(c) /\ UNCHANGED <<threadVars, serverVars, castVars>>
User(c) == UserStops(c) /\ UNCHANGED <<threadVars, serverVars, castVars>>
Wakes(c) == Straggler(c) /\ UNCHANGED <<threadVars, serverVars, castVars>>
Lost(c) ==
  /\ crashes < MaxCrashes /\ crashes' = crashes + 1
  /\ Crash(c) /\ UNCHANGED <<threadVars, serverVars, LheClients>>

(* Another client: its requests, its leaving; it need not read replies.    *)
Other(c) ==
  /\ UNCHANGED <<threadVars, serverVars, cstate, receiver, listening, castVars>>
  /\ \/ Connect(c)
     \/ /\ at[c] = "send" /\ conn[c] \in {"queued", "open"} /\ requests[c] = <<>>
        /\ ccseq[c] <= MaxRequests /\ ccseq' = [ccseq EXCEPT ![c] = @ + 1]
        /\ \E method \in {"SETUP", "PLAY", "PAUSE", "TEARDOWN", "OTHER", "VERSION"} :
             SendRequest(c, [method |-> method, cseq |-> ccseq[c]])
        /\ UNCHANGED <<conn, replies, at>>
     \/ /\ at[c] = "send" /\ Ends(c, "ended")
        /\ UNCHANGED <<requests, replies, ccseq>>

Server == ServerStep /\ UNCHANGED <<clientVars, castVars>>
Sender == Thread /\ UNCHANGED <<clientVars, castVars>>
Interrupted == SigInt /\ UNCHANGED <<clientVars, castVars>>

Next == \/ Server \/ Sender \/ Interrupted
        \/ \E c \in LheClients : Lhe(c) \/ User(c) \/ Wakes(c) \/ Lost(c)
        \/ \E c \in Others : Other(c)
Spec == Init /\ [][Next]_vars
(* Every program takes the steps it can; a thread leaves its loop once     *)
(* told (MemorySender!StopEndsIt), but need not fail by itself.  Users are *)
(* not owed, nor is a packet for a receiving thread that missed its SIGINT.*)
Progress == phase # "streaming" \/ stop
FairSpec ==
  /\ Spec /\ WF_vars(Server) /\ WF_vars(Progress /\ Sender)
  /\ \A c \in Clients : WF_vars(c \in LheClients /\ Lhe(c))

-----------------------------------------------------------------------------
(* Properties                                                              *)

(* The values the variables of the session range over.                     *)
TypeOK ==
  /\ conn \in [Clients -> {"none", "queued", "open", "client", "server", "reset"}]
  /\ \A c \in Clients : Len(requests[c]) <= 1 /\ Len(replies[c]) <= 1
  /\ listening \in BOOLEAN /\ missed \in BOOLEAN
  /\ phase \in {"idle", "created", "caught", "streaming", "gone", "stuck"}
  /\ state \in {"INIT", "READY", "PLAYING"} /\ serving \in Clients \cup {None}
  /\ pc \in {"accept", "read", "created", "joining", "exited"}
  /\ handler \in {"server", "sender"} /\ LheClients \in Casts /\ crashes \in 0 .. MaxCrashes
  /\ cstate \in [Clients -> DOMAIN Methods \cup
                   {"SERVER_READY", "PLAYING", "CLOSING", "ERROR"}]

(* A thread is only made when the one before has been joined: otherwise    *)
(* the two would share "stop", the library's pointers and tid, and one     *)
(* could never be stopped.  It relies on every way out of PLAYING.         *)
OneSender ==
  state # "PLAYING" /\ pc \in {"accept", "read"} => phase \in {"idle", "gone"}

(* While a client believes it is playing and its connection stands, the    *)
(* server plays, for it: no request of another client can have ended it.   *)
AgreedPlaying ==
  \A c \in LheClients :
    (cstate[c] = "PLAYING" /\ at[c] = "user" /\ conn[c] = "open") =>
      state = "PLAYING" /\ serving = c

(* A request is answered under its own number: ERROR never comes from a    *)
(* wrong CSeq, also after requests that were sent again.                   *)
AnswersMatch ==
  \A c \in LheClients : at[c] = "reply" /\ replies[c] # <<>> =>
    Head(replies[c]).cseq = ccseq[c]

(* Together: client and server agree on who plays and what is asked.       *)
SidesAgree == TypeOK /\ AgreedPlaying /\ AnswersMatch

(* PAUSE and TEARDOWN are answered: the join ends, unless the SIGINT came  *)
(* before the thread could remember it.                                    *)
StopSenderEnds == (pc = "joining") ~> (pc # "joining" \/ missed)

(* A transmission whose client is lost ends when another client of this    *)
(* repository comes, although it is refused: its error() sends TEARDOWN.   *)
Orphaned == pc = "accept" /\ state = "PLAYING"
CutOff(c) == at[c] = "killed" \/ conn[c] \in {"server", "reset"}
OrphanEnds ==
  \A c \in Clients : (Orphaned /\ c \in LheClients /\ at[c] = "connect")
    ~> (state # "PLAYING" \/ missed \/ ~listening \/ CutOff(c)
        \/ serving \notin {None, c})

(* A client that has connected and is not kept waiting behind another one  *)
(* ends, comes to play, or is killed, whatever the server does: it hangs   *)
(* only where a SIGINT is missed, the one for the server's sending thread  *)
(* or, when it closes, the one for its own receiving thread.               *)
ClientProceeds ==
  \A c \in Clients : (c \in LheClients /\ conn[c] \in {"open", "server"}) ~>
    (at[c] \in {"user", "ended", "killed"} \/ missed \/ receiver[c] = "deaf")
=============================================================================
