-------------------------- MODULE RtspSessionProofs --------------------------
(***************************************************************************)
(* Theorems about RtspSession, for every set of clients, any number of     *)
(* crashes, of SIGINTs and of requests of other clients: there is never    *)
(* more than one transmitting thread, and a client of this repository and  *)
(* the server never disagree about who plays, nor about which request an   *)
(* answer belongs to.                                                      *)
(*                                                                         *)
(* The invariant follows a request of a client on its way: it waits to be  *)
(* read, or the server is busy with it, or its answer waits to be read -   *)
(* one of the three, under one number - as long as the connection stands.  *)
(***************************************************************************)
EXTENDS RtspSession, TLAPS

OneOrNone(S) == {<<>>} \cup {<<m>> : m \in S}
Requests == [method : {"OPTIONS", "DESCRIBE", "SETUP", "PLAY", "PAUSE",
                       "TEARDOWN", "OTHER", "VERSION"},
             cseq : Nat]
Replies  == [status : {200, 405, 501, 505}, cseq : Nat]
States   == DOMAIN Methods \cup {"SERVER_READY", "PLAYING", "CLOSING", "ERROR"}

(* The types of all variables.                                             *)
LinkType ==
  /\ conn \in [Clients -> {"none", "queued", "open", "client", "server", "reset"}]
  /\ requests \in [Clients -> OneOrNone(Requests)]
  /\ replies \in [Clients -> OneOrNone(Replies)]
  /\ listening \in BOOLEAN
ClientType ==
  /\ cstate \in [Clients -> States]
  /\ at \in [Clients -> {"connect", "send", "reply", "user", "closing", "ended",
                         "killed", "alarm", "alarm reply"}]
  /\ ccseq \in [Clients -> Nat]
  /\ receiver \in [Clients -> {"none", "running", "told", "deaf", "gone"}]
  /\ LheClients \in Casts /\ crashes \in 0 .. MaxCrashes
ServerType ==
  /\ state \in {"INIT", "READY", "PLAYING"} /\ serving \in Clients \cup {None}
  /\ pc \in {"accept", "read", "created", "joining", "exited"} /\ cseq \in Nat
  /\ handler \in {"server", "sender"} /\ missed \in BOOLEAN
  /\ phase \in {"idle", "created", "caught", "streaming", "gone", "stuck"}

(* The server reads from, and answers, a connection it has not closed, and *)
(* only that one is open.                                                  *)
Serving(c) == /\ serving = c
              /\ pc \in {"read", "created"} \/ (pc = "joining" /\ after # "exit")
ServingOK ==
  /\ pc = "accept" => serving = None
  /\ pc = "joining" => after \in {"PAUSE", "TEARDOWN", "exit"}
  /\ pc \in {"read", "created"} => serving \in Clients
  /\ (pc = "joining" /\ after # "exit") => serving \in Clients
  /\ \A c \in Clients : Serving(c) => conn[c] \in {"open", "client"}
  /\ \A c \in Clients : conn[c] = "open" =>
                         serving = c /\ pc \in {"read", "created", "joining"}

(* A request of a client is in one place.                                  *)
Asking(c) == at[c] \in {"reply", "alarm reply"}
Busy(c)   == serving = c /\ (pc = "created" \/ (pc = "joining" /\ after # "exit"))
Alive(c)  == c \in LheClients /\ at[c] \notin {"ended", "killed"}

Connected(c) ==
  /\ conn[c] # "client"
  /\ conn[c] \in {"none", "queued"} => cstate[c] = "INIT" /\ replies[c] = <<>>
Asked(c) ==
  (requests[c] # <<>> /\ conn[c] \in {"none", "queued", "open"}) =>
    /\ Asking(c) /\ ~ Busy(c) /\ replies[c] = <<>>
    /\ requests[c][1].cseq = ccseq[c]
    /\ at[c] = "reply" => /\ cstate[c] \in DOMAIN Methods
                          /\ requests[c][1].method = Methods[cstate[c]]
Worked(c) ==
  Busy(c) => Asking(c) /\ replies[c] = <<>> /\ cseq = ccseq[c]
Answered(c) ==
  replies[c] # <<>> =>
    /\ Asking(c) /\ ~ Busy(c) /\ replies[c][1].cseq = ccseq[c]
    /\ (at[c] = "reply" /\ cstate[c] = "CLIENT_READY" /\ conn[c] = "open"
         /\ replies[c][1].status = 200) => state = "PLAYING"
Plays(c) ==
  (cstate[c] = "PLAYING" /\ at[c] = "user" /\ conn[c] = "open") => state = "PLAYING"

Exchange(c) == Alive(c) =>
  Connected(c) /\ Asked(c) /\ Worked(c) /\ Answered(c) /\ Plays(c)

SessionInv ==
  /\ LinkType /\ ClientType /\ ServerType /\ ServingOK
  /\ \A c \in Clients : Exchange(c)

-----------------------------------------------------------------------------
(* Tables                                                                  *)

(* What a client asks for in each of its states.                           *)
LEMMA MethodsTable ==
  /\ DOMAIN Methods = {"INIT", "NEGOTIATION", "SETUP", "CLIENT_READY", "TEARDOWN"}
  /\ Methods["CLIENT_READY"] = "PLAY"
  /\ \A s \in DOMAIN Methods :
       Methods[s] \in {"OPTIONS", "DESCRIBE", "SETUP", "PLAY", "TEARDOWN"}
BY DEF Methods

(* Where a good reply takes it: to PLAYING from CLIENT_READY only.         *)
LEMMA WinsTable ==
  /\ \A s \in DOMAIN Wins : Wins[s] \in States
  /\ \A s \in DOMAIN Wins : Wins[s] = "PLAYING" => s = "CLIENT_READY"
BY MethodsTable DEF Wins, States

(* The replies of the server to the two requests that stop the sender.     *)
LEMMA StatusesTable == Statuses["PAUSE"] = 405 /\ Statuses["TEARDOWN"] = 200
BY DEF Statuses

-----------------------------------------------------------------------------
(* The server                                                              *)

(* What the server finds when it reads a request.                          *)
LEMMA ReadFacts ==
  ASSUME SessionInv, NEW M, Read(M)
  PROVE  /\ serving \in Clients /\ pc = "read" /\ conn[serving] \in {"open", "client"}
         /\ Request \in Requests /\ Request.method \in M /\ cseq' = Request.cseq
         /\ Request = requests[serving][1] /\ requests[serving] # <<>>
         /\ requests' = [requests EXCEPT ![serving] = <<>>]
         /\ cseq' \in Nat
         /\ Alive(serving) => /\ conn[serving] = "open" /\ Asking(serving)
                              /\ cseq' = ccseq[serving] /\ replies[serving] = <<>>
<1>1. serving \in Clients /\ pc = "read" /\ conn[serving] \in {"open", "client"}
  BY DEF SessionInv, ServingOK, Serving, Read
<1>2. requests[serving] \in OneOrNone(Requests) /\ requests[serving] # <<>>
  BY <1>1 DEF SessionInv, LinkType, Read
<1>3. PICK m \in Requests : requests[serving] = <<m>>
  BY <1>2 DEF OneOrNone
<1>4. Request = m /\ requests[serving][1] = m
  BY <1>3 DEF Request
<1>5. Alive(serving) => conn[serving] = "open" /\ Asked(serving)
  BY <1>1 DEF SessionInv, Exchange, Connected
<1>6. cseq' = m.cseq /\ Request.method \in M
      /\ requests' = [requests EXCEPT ![serving] = <<>>]
  BY <1>4 DEF Read
<1>7. m.cseq \in Nat
  BY <1>3 DEF Requests
<1> QED
  BY <1>1, <1>2, <1>3, <1>4, <1>5, <1>6, <1>7 DEF Asked

(* A reply is one of the link's messages.                                  *)
LEMMA ReplyType ==
  ASSUME LinkType, NEW c \in Clients, NEW st \in {200, 405, 501, 505}, NEW q \in Nat,
         SendReply(c, [status |-> st, cseq |-> q])
  PROVE  /\ replies' \in [Clients -> OneOrNone(Replies)]
         /\ replies'[c] # <<>> /\ replies'[c][1].status = st
         /\ replies'[c][1].cseq = q
         /\ \A e \in Clients : e # c => replies'[e] = replies[e]
<1>1. [status |-> st, cseq |-> q] \in Replies
  BY DEF Replies
<1>2. replies'[c] = <<[status |-> st, cseq |-> q]>>
  BY DEF SendReply, LinkType
<1>3. replies' \in [Clients -> OneOrNone(Replies)]
  BY <1>1 DEF SendReply, LinkType, OneOrNone
<1> QED
  BY <1>2, <1>3 DEF SendReply, LinkType

(* A client whose own state, messages and turn a step leaves alone, and    *)
(* which at most gains or loses its connection by it.                      *)
LEMMA Untouched ==
  ASSUME SessionInv, NEW e \in Clients, Alive(e)',
         LheClients' = LheClients,
         at'[e] = at[e], cstate'[e] = cstate[e], ccseq'[e] = ccseq[e],
         replies'[e] = replies[e], requests'[e] = requests[e],
         ~ Busy(e), ~ Busy(e)',
         \/ conn'[e] = conn[e]
         \/ conn[e] = "queued" /\ conn'[e] = "open"
         \/ conn[e] \in {"queued", "open"} /\ conn'[e] = "server",
         conn'[e] = "open" => state' = state
  PROVE  Exchange(e)'
<1>1. Alive(e)
  BY DEF Alive
<1>2. Connected(e) /\ Asked(e) /\ Answered(e) /\ Plays(e)
  BY <1>1 DEF SessionInv, Exchange
<1>3. Connected(e)'
  BY <1>2 DEF Connected
<1>4. Asked(e)'
  BY <1>2 DEF Asked, Asking
<1>5. Worked(e)'
  BY DEF Worked
<1>6. Answered(e)'
  <2>1. replies[e] # <<>> => conn[e] \notin {"none", "queued"}
    BY <1>2 DEF Connected
  <2>2. replies[e] # <<>> /\ conn'[e] = "open" => conn[e] = "open" /\ state' = state
    BY <2>1
  <2> QED
    BY <1>2, <2>2 DEF Answered, Asking
<1>7. Plays(e)'
  BY <1>2 DEF Plays, Connected
<1> QED
  BY <1>3, <1>4, <1>5, <1>6, <1>7 DEF Exchange

(* A request answered at once, without a change of state or with SETUP's.  *)
LEMMA AnswerKeeps ==
  ASSUME SessionInv, NEW M, Read(M), NEW st \in {200, 405, 501, 505}, Answer(st),
         UNCHANGED <<clientVars, castVars>>, "PLAY" \notin M \/ st # 200,
         state' \in {"INIT", "READY", "PLAYING"},
         state' = state \/ state # "PLAYING"
  PROVE  SessionInv'
<1>r. /\ serving \in Clients /\ pc = "read" /\ conn[serving] \in {"open", "client"}
      /\ Request.method \in M /\ cseq' \in Nat
      /\ Request = requests[serving][1] /\ requests[serving] # <<>>
      /\ requests' = [requests EXCEPT ![serving] = <<>>]
      /\ Alive(serving) => /\ conn[serving] = "open" /\ Asking(serving)
                           /\ cseq' = ccseq[serving] /\ replies[serving] = <<>>
  BY ReadFacts
<1>u. /\ conn' = conn /\ listening' = listening /\ serving' = serving /\ pc' = pc
      /\ after' = after /\ handler' = handler /\ missed' = missed /\ phase' = phase
      /\ cstate' = cstate /\ at' = at /\ ccseq' = ccseq /\ receiver' = receiver
      /\ LheClients' = LheClients /\ crashes' = crashes
  BY DEF Answer, threadVars, clientVars, castVars
<1>t. LinkType /\ ClientType /\ ServerType /\ ServingOK /\ \A c \in Clients : Exchange(c)
  BY DEF SessionInv
<1>p. /\ replies' \in [Clients -> OneOrNone(Replies)]
      /\ replies'[serving] # <<>> /\ replies'[serving][1].status = st
      /\ replies'[serving][1].cseq = cseq'
      /\ \A e \in Clients : e # serving => replies'[e] = replies[e]
  BY <1>r, <1>t, ReplyType DEF Answer, Reply
<1>1. LinkType'
  BY <1>r, <1>u, <1>t, <1>p DEF LinkType, OneOrNone
<1>2. ClientType'
  BY <1>u, <1>t DEF ClientType
<1>6. ServerType'
  BY <1>r, <1>u, <1>t DEF ServerType
<1>5. ServingOK'
  BY <1>u, <1>t DEF ServingOK, Serving
<1>3. ASSUME NEW e \in Clients, Alive(e)' PROVE Exchange(e)'
  <2>1. Alive(e)
    BY <1>3, <1>u DEF Alive
  <2>2. CASE e # serving
    <3>1. replies'[e] = replies[e] /\ requests'[e] = requests[e]
      BY <1>r, <1>p, <1>t, <2>2 DEF LinkType
    <3>2. conn'[e] # "open"
      BY <1>u, <1>t, <2>2 DEF ServingOK
    <3>3. ~ Busy(e) /\ ~ Busy(e)'
      BY <1>u, <2>2 DEF Busy
    <3> QED
      BY <1>3, <1>u, <3>1, <3>2, <3>3, Untouched
  <2>3. CASE e = serving
    <3>1. /\ Connected(e) /\ Asked(e) /\ conn[e] = "open" /\ Asking(e)
          /\ cseq' = ccseq[e]
      BY <1>r, <1>t, <2>1, <2>3 DEF Exchange
    <3>2. requests'[e] = <<>> /\ pc' = "read"
      BY <1>r, <1>t, <1>u, <2>3 DEF LinkType
    <3>3. ~ (at[e] = "reply" /\ cstate[e] = "CLIENT_READY" /\ st = 200)
      BY <1>r, <2>3, <3>1, MethodsTable DEF Asked
    <3>4. Connected(e)' /\ Asked(e)' /\ Worked(e)' /\ Plays(e)'
      <4>1. Connected(e)'
        BY <1>u, <3>1 DEF Connected, Asking
      <4>2. Asked(e)'
        BY <1>u, <3>1, <3>2 DEF Asked, Asking
      <4>3. Worked(e)'
        BY <1>u, <3>1, <3>2 DEF Worked, Busy, Asking
      <4>4. Plays(e)'
        BY <1>u, <3>1, <3>2 DEF Plays, Busy, Asking
      <4> QED
        BY <4>1, <4>2, <4>3, <4>4
    <3>5. replies'[e][1].cseq = ccseq'[e] /\ replies'[e][1].status = st
      BY <1>u, <1>p, <2>3, <3>1
    <3>7. Asking(e)' /\ ~ Busy(e)'
      BY <1>u, <3>1, <3>2 DEF Asking, Busy
    <3>6. Answered(e)'
      BY <1>u, <3>3, <3>5, <3>7 DEF Answered
    <3> QED
      BY <3>4, <3>6 DEF Exchange
  <2> QED
    BY <2>2, <2>3
<1>4. \A e \in Clients : Exchange(e)'
  BY <1>3 DEF Exchange
<1> QED
  BY <1>1, <1>2, <1>4, <1>5, <1>6 DEF SessionInv

(* The answer after which the client is left, at once or after the join.   *)
LEMMA LeaveKeeps ==
  ASSUME SessionInv, serving \in Clients, conn[serving] \in {"open", "client"},
         NEW st \in {200, 405, 501, 505}, LeaveClient(st), cseq' \in Nat,
         requests' \in [Clients -> OneOrNone(Requests)],
         \A e \in Clients : e # serving => requests'[e] = requests[e],
         Alive(serving) => /\ conn[serving] = "open" /\ Asking(serving)
                           /\ cseq' = ccseq[serving],
         listening' = listening, handler' = handler, missed' = missed, phase' = phase,
         UNCHANGED <<clientVars, castVars>>
  PROVE  SessionInv'
<1>u. /\ serving' = None /\ pc' = "accept" /\ state' = "INIT" /\ after' = "none"
      /\ cstate' = cstate /\ at' = at /\ ccseq' = ccseq /\ receiver' = receiver
      /\ LheClients' = LheClients /\ crashes' = crashes
  BY DEF LeaveClient, clientVars, castVars
<1>t. LinkType /\ ClientType /\ ServerType /\ ServingOK /\ \A c \in Clients : Exchange(c)
  BY DEF SessionInv
<1>n. None \notin Clients
  BY SessionAssumption
<1>p. /\ replies' \in [Clients -> OneOrNone(Replies)]
      /\ replies'[serving] # <<>> /\ replies'[serving][1].cseq = cseq'
      /\ \A e \in Clients : e # serving => replies'[e] = replies[e]
  BY <1>t, ReplyType DEF LeaveClient, Reply
<1>c. /\ conn' \in [Clients -> {"none", "queued", "open", "client", "server", "reset"}]
      /\ conn'[serving] = IF conn[serving] = "open" THEN "server" ELSE conn[serving]
      /\ \A e \in Clients : e # serving => conn'[e] = conn[e]
  BY <1>t DEF LinkType, LeaveClient
<1>1. LinkType'
  BY <1>t, <1>p, <1>c DEF LinkType
<1>2. ClientType'
  BY <1>u, <1>t DEF ClientType
<1>3. ServerType'
  BY <1>u, <1>t DEF ServerType
<1>4. \A e \in Clients : conn'[e] # "open"
  BY <1>c, <1>t DEF ServingOK
<1>5. ServingOK'
  BY <1>u, <1>n, <1>4 DEF ServingOK, Serving
<1>6. ASSUME NEW e \in Clients, Alive(e)' PROVE Exchange(e)'
  <2>1. Alive(e) /\ ~ Busy(e)'
    BY <1>6, <1>u, <1>n DEF Alive, Busy
  <2>2. CASE e # serving
    <3>1. ~ Busy(e)
      BY <2>2 DEF Busy
    <3> QED
      BY <1>6, <1>u, <1>p, <1>c, <1>4, <2>1, <2>2, <3>1, Untouched
  <2>3. CASE e = serving
    <3>1. /\ conn'[e] = "server" /\ Asking(e) /\ cseq' = ccseq[e] /\ Connected(e)
      BY <1>c, <1>t, <2>1, <2>3 DEF Exchange
    <3>2. replies'[e][1].cseq = ccseq'[e] /\ Asking(e)'
      <4>1. ccseq' = ccseq /\ at' = at
        BY <1>u
      <4>2. replies'[e][1].cseq = cseq'
        BY <1>p, <2>3
      <4>3. cseq' = ccseq[e] /\ Asking(e)
        BY <3>1
      <4>4. ccseq'[e] = ccseq[e] /\ at'[e] = at[e]
        BY <4>1
      <4>5. replies'[e][1].cseq = ccseq'[e]
        BY <4>2, <4>3, <4>4
      <4>6. Asking(e)'
        BY <4>3, <4>4 DEF Asking
      <4> QED
        BY <4>5, <4>6
    <3>3. Connected(e)'
      BY <1>u, <3>1 DEF Connected, Asking
    <3>4. Asked(e)' /\ Plays(e)'
      BY <3>1 DEF Asked, Plays
    <3>5. Worked(e)'
      BY <2>1 DEF Worked
    <3>6. Answered(e)'
      BY <2>1, <3>1, <3>2 DEF Answered
    <3> QED
      BY <3>3, <3>4, <3>5, <3>6 DEF Exchange
  <2> QED
    BY <2>2, <2>3
<1>7. \A e \in Clients : Exchange(e)'
  BY <1>6 DEF Exchange
<1> QED
  BY <1>1, <1>2, <1>3, <1>5, <1>7 DEF SessionInv

(* The server ends, or will when the thread has: it closes everything.     *)
LEMMA GoneKeeps ==
  ASSUME SessionInv, ServerGone, \A e \in Clients : ~ Busy(e),
         pc' = "exited" \/ (pc' = "joining" /\ after' = "exit"),
         requests' = requests, replies' = replies, state' = state,
         serving' = serving, cseq' = cseq, handler' = handler,
         missed' \in BOOLEAN,
         phase' \in {"idle", "created", "caught", "streaming", "gone", "stuck"},
         UNCHANGED <<clientVars, castVars>>
  PROVE  SessionInv'
<1>u. /\ cstate' = cstate /\ at' = at /\ ccseq' = ccseq /\ receiver' = receiver
      /\ LheClients' = LheClients /\ crashes' = crashes
  BY DEF clientVars, castVars
<1>t. LinkType /\ ClientType /\ ServerType /\ ServingOK /\ \A c \in Clients : Exchange(c)
  BY DEF SessionInv
<1>c. /\ conn' \in [Clients -> {"none", "queued", "open", "client", "server", "reset"}]
      /\ \A e \in Clients :
           conn'[e] = IF conn[e] \in {"queued", "open"} THEN "server" ELSE conn[e]
      /\ listening' = FALSE
  BY <1>t DEF LinkType, ServerGone
<1>1. LinkType'
  BY <1>t, <1>c DEF LinkType
<1>2. ClientType'
  BY <1>u, <1>t DEF ClientType
<1>3. ServerType'
  BY <1>t DEF ServerType
<1>4. \A e \in Clients : conn'[e] # "open"
  BY <1>c
<1>5. ServingOK'
  BY <1>4 DEF ServingOK, Serving
<1>6. ASSUME NEW e \in Clients, Alive(e)' PROVE Exchange(e)'
  <2>1. ~ Busy(e)'
    BY DEF Busy
  <2>2. conn'[e] = conn[e] \/ (conn[e] \in {"queued", "open"} /\ conn'[e] = "server")
    BY <1>c
  <2> QED
    BY <1>6, <1>u, <1>4, <2>1, <2>2, Untouched
<1>7. \A e \in Clients : Exchange(e)'
  BY <1>6 DEF Exchange
<1> QED
  BY <1>1, <1>2, <1>3, <1>5, <1>7 DEF SessionInv

(* pthread_kill leaves the thread in one of its phases.                    *)
LEMMA KillType ==
  ASSUME ServerType, Kill
  PROVE  /\ missed' \in BOOLEAN
         /\ phase' \in {"idle", "created", "caught", "streaming", "gone", "stuck"}
<1>1. missed' \in BOOLEAN
  BY DEF Kill
<1>2. CASE handler = "server"
  BY <1>1, <1>2 DEF Kill
<1>3. CASE handler # "server"
  BY <1>1, <1>3 DEF Kill, Signal, ServerType
<1> QED
  BY <1>2, <1>3

(* Every step of the server's main thread keeps the invariant.             *)
LEMMA ServerKeeps == SessionInv /\ Server => SessionInv'
<1> SUFFICES ASSUME SessionInv, Server PROVE SessionInv'
  OBVIOUS
<1>v. /\ UNCHANGED <<clientVars, castVars>>
      /\ cstate' = cstate /\ at' = at /\ ccseq' = ccseq /\ receiver' = receiver
      /\ LheClients' = LheClients /\ crashes' = crashes
  BY DEF Server, clientVars, castVars
<1>t. LinkType /\ ClientType /\ ServerType /\ ServingOK /\ \A c \in Clients : Exchange(c)
  BY DEF SessionInv
<1>n. None \notin Clients
  BY SessionAssumption
<1>1. CASE \E c \in Clients : Accept(c)
  <2>1. PICK c \in Clients : Accept(c)
    BY <1>1
  <2>2. /\ pc = "accept" /\ conn[c] = "queued" /\ serving' = c /\ pc' = "read"
        /\ conn' = [conn EXCEPT ![c] = "open"]
        /\ requests' = requests /\ replies' = replies /\ listening' = listening
        /\ state' = state /\ after' = after /\ cseq' = cseq /\ handler' = handler
        /\ missed' = missed /\ phase' = phase
    BY <2>1 DEF Accept, threadVars
  <2>3. serving = None /\ \A e \in Clients : conn[e] # "open" /\ ~ Busy(e)
    BY <1>t, <1>n, <2>2 DEF ServingOK, Busy
  <2>4. LinkType'
    BY <1>t, <2>2 DEF LinkType
  <2>5. ClientType' /\ ServerType'
    BY <1>t, <1>v, <2>2 DEF ClientType, ServerType
  <2>6. ServingOK'
    BY <1>t, <2>2, <2>3 DEF ServingOK, Serving, LinkType
  <2>7. ASSUME NEW e \in Clients, Alive(e)' PROVE Exchange(e)'
    <3>1. conn'[e] = conn[e] \/ (conn[e] = "queued" /\ conn'[e] = "open")
      BY <1>t, <2>2 DEF LinkType
    <3>2. ~ Busy(e)'
      BY <2>2 DEF Busy
    <3> QED
      BY <1>v, <2>2, <2>3, <2>7, <3>1, <3>2, Untouched
  <2> QED
    BY <2>4, <2>5, <2>6, <2>7 DEF SessionInv, Exchange
<1>2. CASE ClientLeft
  <2>1. /\ pc = "read" /\ conn[serving] = "client" /\ serving' = None /\ pc' = "accept"
        /\ conn' = conn /\ requests' = requests /\ replies' = replies
        /\ listening' = listening /\ state' = state /\ after' = after /\ cseq' = cseq
        /\ handler' = handler /\ missed' = missed /\ phase' = phase
    BY <1>2 DEF ClientLeft, linkVars, threadVars
  <2>2. LinkType' /\ ClientType' /\ ServerType'
    BY <1>t, <1>v, <2>1 DEF LinkType, ClientType, ServerType
  <2>3. \A e \in Clients : conn[e] # "open" /\ ~ Busy(e) /\ ~ Busy(e)'
    BY <1>t, <1>n, <2>1 DEF ServingOK, Busy
  <2>4. ServingOK'
    BY <1>n, <2>1, <2>3 DEF ServingOK, Serving
  <2>5. \A e \in Clients : Alive(e)' => Exchange(e)'
    BY <1>v, <2>1, <2>3, Untouched
  <2> QED
    BY <2>2, <2>4, <2>5 DEF SessionInv, Exchange
<1>3. CASE Inform
  <2>1. Read({"OPTIONS", "DESCRIBE"}) /\ Answer(200) /\ state' = state
    BY <1>3 DEF Inform
  <2> QED
    BY <1>v, <1>t, <2>1, AnswerKeeps DEF ServerType
<1>4. CASE Unknown
  <2>1. state' = state /\ state' \in {"INIT", "READY", "PLAYING"}
    BY <1>4, <1>t DEF Unknown, ServerType
  <2>2. CASE Read({"OTHER"}) /\ Answer(405)
    BY <1>v, <2>1, <2>2, AnswerKeeps
  <2>3. CASE Read({"VERSION"}) /\ Answer(505)
    BY <1>v, <2>1, <2>3, AnswerKeeps
  <2> QED
    BY <1>4, <2>2, <2>3 DEF Unknown
<1>5. CASE Setup
  <2>1. Read({"SETUP"}) /\ Answer(200) /\ state' = "READY" /\ state = "INIT"
    BY <1>5 DEF Setup, MaySetup
  <2> QED
    BY <1>v, <2>1, AnswerKeeps
<1>6. CASE Refuse
  <2>1. state' = state /\ state' \in {"INIT", "READY", "PLAYING"}
    BY <1>6, <1>t DEF Refuse, ServerType
  <2>2. CASE Read({"SETUP"}) /\ Answer(501)
    BY <1>v, <2>1, <2>2, AnswerKeeps
  <2>3. CASE Read({"PLAY"}) /\ Answer(501)
    BY <1>v, <2>1, <2>3, AnswerKeeps
  <2> QED
    BY <1>6, <2>2, <2>3 DEF Refuse
<1>7. CASE Play \/ EndPlaying
  <2>1. PICK M : Read(M)
    BY <1>7 DEF Play, EndPlaying
  <2>2. /\ serving \in Clients /\ pc = "read" /\ conn[serving] \in {"open", "client"}
        /\ requests' = [requests EXCEPT ![serving] = <<>>] /\ cseq' \in Nat
        /\ Alive(serving) => /\ conn[serving] = "open" /\ Asking(serving)
                             /\ cseq' = ccseq[serving] /\ replies[serving] = <<>>
    BY <2>1, ReadFacts
  <2>3. /\ \/ pc' = "created"
           \/ pc' = "joining" /\ after' \in {"PAUSE", "TEARDOWN"}
        /\ conn' = conn /\ replies' = replies /\ listening' = listening
        /\ state' = state /\ serving' = serving /\ handler' = handler
    <3>1. CASE Play
      BY <3>1 DEF Play
    <3>2. CASE EndPlaying
      <4>1. Request.method \in {"PAUSE", "TEARDOWN"}
        BY <3>2 DEF EndPlaying, Read
      <4> QED
        BY <3>2, <4>1 DEF EndPlaying, StopSender
    <3> QED
      BY <1>7, <3>1, <3>2
  <2>4. /\ missed' \in BOOLEAN
        /\ phase' \in {"idle", "created", "caught", "streaming", "gone", "stuck"}
    <3>1. CASE Play
      BY <1>t, <3>1 DEF Play, Create, ServerType
    <3>2. CASE EndPlaying
      BY <1>t, <3>2, KillType DEF EndPlaying, StopSender
    <3> QED
      BY <1>7, <3>1, <3>2
  <2>5. LinkType'
    BY <1>t, <2>2, <2>3 DEF LinkType, OneOrNone
  <2>6. ClientType'
    BY <1>t, <1>v DEF ClientType
  <2>7. ServerType'
    BY <1>t, <2>2, <2>3, <2>4 DEF ServerType
  <2>8. ServingOK'
    BY <1>t, <2>2, <2>3 DEF ServingOK, Serving
  <2>9. ASSUME NEW e \in Clients, Alive(e)' PROVE Exchange(e)'
    <3>1. Alive(e)
      BY <1>v, <2>9 DEF Alive
    <3>2. CASE e # serving
      <4>1. requests'[e] = requests[e]
        BY <1>t, <2>2, <3>2 DEF LinkType
      <4>2. ~ Busy(e) /\ ~ Busy(e)'
        BY <2>3, <3>2 DEF Busy
      <4> QED
        BY <1>v, <2>3, <2>9, <4>1, <4>2, Untouched
    <3>3. CASE e = serving
      <4>1. /\ Connected(e) /\ conn[e] = "open" /\ Asking(e)
            /\ cseq' = ccseq[e] /\ replies[e] = <<>>
        BY <1>t, <2>2, <3>1, <3>3 DEF Exchange
      <4>2. requests'[e] = <<>>
        BY <1>t, <2>2, <3>3 DEF LinkType
      <4> QED
        BY <1>v, <2>3, <4>1, <4>2
        DEF Exchange, Connected, Asked, Worked, Answered, Plays, Asking
    <3> QED
      BY <3>2, <3>3
  <2> QED
    BY <2>5, <2>6, <2>7, <2>8, <2>9 DEF SessionInv, Exchange
<1>8. CASE Playing
  <2>1. /\ pc = "created" /\ pc' = "read" /\ state' = "PLAYING"
        /\ SendReply(serving, [status |-> 200, cseq |-> cseq])
        /\ conn' = conn /\ requests' = requests /\ listening' = listening
        /\ serving' = serving /\ after' = after /\ cseq' = cseq /\ handler' = handler
        /\ missed' = missed /\ phase' = phase
    BY <1>8 DEF Playing, threadVars
  <2>2. serving \in Clients /\ cseq \in Nat
    BY <1>t, <2>1 DEF ServingOK, ServerType
  <2>3. /\ replies' \in [Clients -> OneOrNone(Replies)]
        /\ replies'[serving] # <<>> /\ replies'[serving][1].cseq = cseq
        /\ \A e \in Clients : e # serving => replies'[e] = replies[e]
    BY <1>t, <2>1, <2>2, ReplyType
  <2>4. LinkType'
    BY <1>t, <2>1, <2>3 DEF LinkType
  <2>5. ClientType'
    BY <1>t, <1>v DEF ClientType
  <2>6. ServerType'
    BY <1>t, <2>1 DEF ServerType
  <2>7. ServingOK'
    BY <1>t, <2>1 DEF ServingOK, Serving
  <2>8. ASSUME NEW e \in Clients, Alive(e)' PROVE Exchange(e)'
    <3>1. Alive(e) /\ ~ Busy(e)'
      BY <1>v, <2>1, <2>8 DEF Alive, Busy
    <3>2. CASE e # serving
      <4>1. ~ Busy(e) /\ conn'[e] # "open"
        BY <1>t, <2>1, <3>2 DEF Busy, ServingOK
      <4> QED
        BY <1>v, <2>1, <2>3, <2>8, <3>1, <3>2, <4>1, Untouched
    <3>3. CASE e = serving
      <4>1. /\ Connected(e) /\ Asked(e) /\ Worked(e) /\ Busy(e)
            /\ conn[e] \in {"open", "client"}
        BY <1>t, <2>1, <3>1, <3>3 DEF Exchange, Busy, ServingOK, Serving
      <4>2. Asking(e) /\ cseq = ccseq[e] /\ conn[e] = "open" /\ requests[e] = <<>>
        BY <4>1 DEF Worked, Connected, Asked
      <4>3. Connected(e)' /\ Asked(e)' /\ Worked(e)' /\ Plays(e)'
        BY <1>v, <2>1, <3>1, <4>1, <4>2 DEF Connected, Asked, Worked, Plays, Asking
      <4>4. replies'[e][1].cseq = ccseq'[e] /\ Asking(e)'
        BY <1>v, <2>3, <3>3, <4>2 DEF Asking
      <4>5. Answered(e)'
        BY <2>1, <3>1, <4>4 DEF Answered
      <4> QED
        BY <4>3, <4>5 DEF Exchange
    <3> QED
      BY <3>2, <3>3
  <2> QED
    BY <2>4, <2>5, <2>6, <2>7, <2>8 DEF SessionInv, Exchange
<1>9. CASE EndIdle
  <2>1. PICK st \in {200, 405, 501, 505} :
          /\ Read({"PAUSE", "TEARDOWN"}) /\ LeaveClient(st)
          /\ listening' = listening /\ handler' = handler /\ missed' = missed
          /\ phase' = phase
    <3>1. Read({"PAUSE", "TEARDOWN"}) /\ LeaveClient(Statuses[Request.method])
      BY <1>9 DEF EndIdle
    <3>2. Request.method \in {"PAUSE", "TEARDOWN"}
      BY <3>1 DEF Read
    <3>3. Statuses[Request.method] \in {200, 405, 501, 505}
      BY <3>2, StatusesTable
    <3> QED
      BY <1>9, <3>1, <3>3 DEF EndIdle, threadVars
  <2>2. /\ serving \in Clients /\ conn[serving] \in {"open", "client"}
        /\ requests' = [requests EXCEPT ![serving] = <<>>] /\ cseq' \in Nat
        /\ Alive(serving) => /\ conn[serving] = "open" /\ Asking(serving)
                             /\ cseq' = ccseq[serving]
    BY <2>1, ReadFacts
  <2>3. /\ requests' \in [Clients -> OneOrNone(Requests)]
        /\ \A e \in Clients : e # serving => requests'[e] = requests[e]
    BY <1>t, <2>2 DEF LinkType, OneOrNone
  <2> QED
    BY <1>v, <2>1, <2>2, <2>3, LeaveKeeps
<1>10. CASE Joined
  <2>1. /\ pc = "joining" /\ after # "exit" /\ LeaveClient(Statuses[after])
        /\ cseq' = cseq /\ requests' = requests /\ listening' = listening
        /\ handler' = handler /\ missed' = missed /\ phase' = phase
    BY <1>10 DEF Joined, threadVars
  <2>2. /\ serving \in Clients /\ conn[serving] \in {"open", "client"}
        /\ after \in {"PAUSE", "TEARDOWN"} /\ cseq' \in Nat
    BY <1>t, <2>1 DEF ServingOK, Serving, ServerType
  <2>3. Statuses[after] \in {200, 405, 501, 505}
    BY <2>2, StatusesTable
  <2>4. Alive(serving) => /\ conn[serving] = "open" /\ Asking(serving)
                          /\ cseq' = ccseq[serving]
    BY <1>t, <2>1, <2>2 DEF Exchange, Connected, Worked, Busy
  <2>5. requests' \in [Clients -> OneOrNone(Requests)]
    BY <1>t, <2>1 DEF LinkType
  <2> QED
    BY <1>v, <2>1, <2>2, <2>3, <2>4, <2>5, LeaveKeeps
<1>11. CASE JoinedAndExit
  <2>1. /\ pc = "joining" /\ after = "exit" /\ pc' = "exited" /\ ServerGone
        /\ requests' = requests /\ replies' = replies /\ state' = state
        /\ serving' = serving /\ cseq' = cseq /\ handler' = handler
        /\ missed' = missed /\ phase' = phase
    BY <1>11 DEF JoinedAndExit, threadVars
  <2>2. /\ missed' \in BOOLEAN
        /\ phase' \in {"idle", "created", "caught", "streaming", "gone", "stuck"}
    BY <1>t, <2>1 DEF ServerType
  <2>3. \A e \in Clients : ~ Busy(e)
    BY <2>1 DEF Busy
  <2> QED
    BY <1>v, <2>1, <2>2, <2>3, GoneKeeps
<1> QED
  BY <1>1, <1>2, <1>3, <1>4, <1>5, <1>6, <1>7, <1>8, <1>9, <1>10, <1>11
  DEF Server, ServerStep

-----------------------------------------------------------------------------
(* The thread and the user                                                 *)

(* The transmitting thread touches nothing the sides exchange.             *)
LEMMA SenderKeeps == SessionInv /\ Sender => SessionInv'
<1> SUFFICES ASSUME SessionInv, Sender PROVE SessionInv'
  OBVIOUS
<1>t. LinkType /\ ClientType /\ ServerType /\ ServingOK /\ \A c \in Clients : Exchange(c)
  BY DEF SessionInv
<1>1. /\ conn' = conn /\ requests' = requests /\ replies' = replies
      /\ listening' = listening /\ state' = state /\ serving' = serving /\ pc' = pc
      /\ after' = after /\ cseq' = cseq /\ missed' = missed
      /\ cstate' = cstate /\ at' = at /\ ccseq' = ccseq /\ receiver' = receiver
      /\ LheClients' = LheClients /\ crashes' = crashes
  BY DEF Sender, Thread, linkVars, clientVars, castVars
<1>2. phase' \in {"caught", "streaming", "gone", phase}
  BY DEF Sender, Thread, ThreadStep, Catch, Begin, Fail, Leave
<1>3. handler' \in {"sender", handler}
  BY DEF Sender, Thread
<1>4. LinkType' /\ ClientType'
  BY <1>t, <1>1 DEF LinkType, ClientType
<1>5. ServerType'
  BY <1>t, <1>1, <1>2, <1>3 DEF ServerType
<1>6. ServingOK'
  BY <1>t, <1>1 DEF ServingOK, Serving
<1>7. ASSUME NEW e \in Clients PROVE Exchange(e)'
  <2>1. Alive(e)' <=> Alive(e)
    BY <1>1 DEF Alive
  <2>2. Connected(e)' <=> Connected(e)
    BY <1>1 DEF Connected
  <2>3. Asked(e)' <=> Asked(e)
    BY <1>1 DEF Asked, Asking, Busy
  <2>4. Worked(e)' <=> Worked(e)
    BY <1>1 DEF Worked, Asking, Busy
  <2>5. Answered(e)' <=> Answered(e)
    BY <1>1 DEF Answered, Asking, Busy
  <2>6. Plays(e)' <=> Plays(e)
    BY <1>1 DEF Plays
  <2> QED
    BY <1>t, <2>1, <2>2, <2>3, <2>4, <2>5, <2>6 DEF Exchange
<1> QED
  BY <1>4, <1>5, <1>6, <1>7 DEF SessionInv

(* A SIGINT to the server ends it, or costs the client its connection.     *)
LEMMA InterruptedKeeps == SessionInv /\ Interrupted => SessionInv'
<1> SUFFICES ASSUME SessionInv, Interrupted PROVE SessionInv'
  OBVIOUS
<1>v. /\ UNCHANGED <<clientVars, castVars>>
      /\ cstate' = cstate /\ at' = at /\ ccseq' = ccseq /\ receiver' = receiver
      /\ LheClients' = LheClients /\ crashes' = crashes
  BY DEF Interrupted, clientVars, castVars
<1>t. LinkType /\ ClientType /\ ServerType /\ ServingOK /\ \A c \in Clients : Exchange(c)
  BY DEF SessionInv
<1>n. None \notin Clients
  BY SessionAssumption
<1>m. UNCHANGED <<after, missed, threadVars>> => missed' = missed /\ phase' = phase
  BY DEF threadVars
<1>k. ASSUME StopSender("exit")
      PROVE  /\ pc' = "joining" /\ after' = "exit" /\ missed' \in BOOLEAN
             /\ phase' \in {"idle", "created", "caught", "streaming", "gone", "stuck"}
  BY <1>k, <1>t, KillType DEF StopSender
<1>1. ASSUME pc \in {"accept", "read"}, ServerGone, requests' = requests,
             replies' = replies, state' = state, serving' = serving, cseq' = cseq,
             handler' = handler,
             \/ StopSender("exit")
             \/ pc' = "exited" /\ UNCHANGED <<after, missed, threadVars>>
      PROVE  SessionInv'
  <2>1. \A e \in Clients : ~ Busy(e)
    BY <1>1 DEF Busy
  <2>2. missed \in BOOLEAN
        /\ phase \in {"idle", "created", "caught", "streaming", "gone", "stuck"}
    BY <1>t DEF ServerType
  <2>3. CASE StopSender("exit")
    BY <1>1, <1>v, <1>k, <2>1, <2>3, GoneKeeps
  <2>4. CASE pc' = "exited" /\ UNCHANGED <<after, missed, threadVars>>
    BY <1>1, <1>v, <1>m, <2>1, <2>2, <2>4, GoneKeeps
  <2> QED
    BY <1>1, <2>3, <2>4
<1>2. CASE SigIntServer
  BY <1>1, <1>2 DEF SigIntServer
<1>3. CASE SigIntSender /\ pc = "accept"
  BY <1>1, <1>3 DEF SigIntSender
<1>4. CASE SigIntSender /\ pc # "accept"
  <2>1. /\ pc = "read" /\ Signal /\ serving' = None /\ pc' = "accept"
        /\ conn' = [conn EXCEPT ![serving] = IF @ = "open" THEN "server" ELSE @]
        /\ listening' = listening /\ after' = after /\ requests' = requests
        /\ replies' = replies /\ state' = state /\ cseq' = cseq /\ handler' = handler
    BY <1>4 DEF SigIntSender
  <2>2. missed' \in BOOLEAN
    BY <1>t, <1>4 DEF SigIntSender, ServerType
  <2>3. phase' = phase
    BY <2>1 DEF Signal
  <2>4. /\ serving \in Clients
        /\ \A e \in Clients : conn[e] = "open" => e = serving
    BY <1>t, <2>1 DEF ServingOK
  <2>5. /\ conn' \in [Clients -> {"none", "queued", "open", "client", "server", "reset"}]
        /\ \A e \in Clients : /\ conn'[e] # "open"
                              /\ \/ conn'[e] = conn[e]
                                 \/ conn[e] = "open" /\ conn'[e] = "server"
    BY <1>t, <2>1, <2>4 DEF LinkType
  <2>6. LinkType'
    BY <1>t, <2>1, <2>5 DEF LinkType
  <2>7. ClientType'
    BY <1>t, <1>v DEF ClientType
  <2>8. ServerType'
    BY <1>t, <2>1, <2>2, <2>3 DEF ServerType
  <2>9. ServingOK'
    BY <1>n, <2>1, <2>5 DEF ServingOK, Serving
  <2>10. \A e \in Clients : ~ Busy(e) /\ ~ Busy(e)'
    BY <2>1 DEF Busy
  <2>11. \A e \in Clients : Alive(e)' => Exchange(e)'
    BY <1>v, <2>1, <2>5, <2>10, Untouched
  <2> QED
    BY <2>6, <2>7, <2>8, <2>9, <2>11 DEF SessionInv, Exchange
<1> QED
  BY <1>2, <1>3, <1>4 DEF Interrupted, SigInt

-----------------------------------------------------------------------------
(* The clients                                                             *)

(* A step of one client is to be judged by that client only.               *)
LEMMA ClientKeeps ==
  ASSUME SessionInv, NEW c \in Clients, LinkType', ClientType', Exchange(c)',
         \A e \in Clients : e # c =>
           /\ conn'[e] = conn[e] /\ requests'[e] = requests[e]
           /\ replies'[e] = replies[e] /\ cstate'[e] = cstate[e]
           /\ at'[e] = at[e] /\ ccseq'[e] = ccseq[e],
         \/ conn'[c] = conn[c]
         \/ conn[c] \in {"queued", "open"} /\ conn'[c] = "client"
         \/ conn[c] \notin {"open", "client"} /\ conn'[c] \notin {"open", "client"},
         LheClients' = LheClients, UNCHANGED <<threadVars, serverVars>>
  PROVE  SessionInv'
<1>t. ServerType /\ ServingOK /\ \A e \in Clients : Exchange(e)
  BY DEF SessionInv
<1>u. /\ state' = state /\ serving' = serving /\ pc' = pc /\ after' = after
      /\ cseq' = cseq /\ handler' = handler /\ missed' = missed /\ phase' = phase
  BY DEF serverVars, threadVars
<1>1. ServerType'
  BY <1>t, <1>u DEF ServerType
<1>2. ServingOK'
  BY <1>t, <1>u DEF ServingOK, Serving
<1>3. ASSUME NEW e \in Clients, e # c, Alive(e)' PROVE Exchange(e)'
  <2>1. /\ conn'[e] = conn[e] /\ requests'[e] = requests[e] /\ replies'[e] = replies[e]
        /\ cstate'[e] = cstate[e] /\ at'[e] = at[e] /\ ccseq'[e] = ccseq[e]
    BY <1>3
  <2>2. Connected(e) /\ Asked(e) /\ Worked(e) /\ Answered(e) /\ Plays(e)
    BY <1>t, <1>3, <2>1 DEF Exchange, Alive
  <2>3. Asking(e)' = Asking(e) /\ Busy(e)' = Busy(e)
    BY <1>u, <2>1 DEF Asking, Busy
  <2>4. Connected(e)' /\ Plays(e)'
    BY <1>u, <2>1, <2>2 DEF Connected, Plays
  <2>5. Asked(e)'
    BY <1>u, <2>1, <2>2, <2>3 DEF Asked
  <2>6. Worked(e)' /\ Answered(e)'
    BY <1>u, <2>1, <2>2, <2>3 DEF Worked, Answered
  <2> QED
    BY <2>4, <2>5, <2>6 DEF Exchange
<1>4. \A e \in Clients : Exchange(e)'
  BY <1>3 DEF Exchange
<1> QED
  BY <1>1, <1>2, <1>4 DEF SessionInv

(* A client's next request number.                                         *)
LEMMA CountsOn ==
  ASSUME NEW f \in [Clients -> Nat], NEW c \in Clients, NEW g,
         g = [f EXCEPT ![c] = @ + 1]
  PROVE  g \in [Clients -> Nat]
<1>1. f[c] + 1 \in Nat
  OBVIOUS
<1> QED
  BY <1>1

(* The clients of this repository are some of the clients.                 *)
LEMMA CastIsClients == ClientType => LheClients \subseteq Clients
BY SessionAssumption DEF ClientType

(* A client that ends asks for nothing any more.                           *)
LEMMA EndsKeeps ==
  ASSUME SessionInv, NEW c \in Clients, NEW point \in {"ended", "killed"},
         Ends(c, point), requests' = requests, replies' = replies,
         listening' = listening, cstate' = cstate, ccseq' = ccseq,
         LheClients' = LheClients, crashes' \in 0 .. MaxCrashes,
         UNCHANGED <<threadVars, serverVars>>
  PROVE  SessionInv'
<1>t. LinkType /\ ClientType
  BY DEF SessionInv
<1>1. /\ at' = [at EXCEPT ![c] = point]
      /\ conn' = [conn EXCEPT ![c] = IF conn[c] \in {"queued", "open"} THEN "client"
                                     ELSE conn[c]]
      /\ receiver' = [receiver EXCEPT ![c] = IF receiver[c] = "none" THEN "none"
                                             ELSE "gone"]
  BY DEF Ends, Goes
<1>2. LinkType'
  BY <1>t, <1>1 DEF LinkType
<1>3. ClientType'
  BY <1>t, <1>1 DEF ClientType
<1>4. at'[c] \in {"ended", "killed"}
  BY <1>t, <1>1 DEF ClientType
<1>5. Exchange(c)'
  BY <1>4 DEF Exchange, Alive
<1>6. conn'[c] = conn[c] \/ (conn[c] \in {"queued", "open"} /\ conn'[c] = "client")
  BY <1>t, <1>1 DEF LinkType
<1>7. \A e \in Clients : e # c => conn'[e] = conn[e] /\ at'[e] = at[e]
  BY <1>t, <1>1 DEF LinkType, ClientType
<1> QED
  BY <1>2, <1>3, <1>5, <1>6, <1>7, ClientKeeps

(* What a client asks, and how it waits for the answer.                    *)
Asks(c, m) ==
  /\ m \in {"OPTIONS", "DESCRIBE", "SETUP", "PLAY", "TEARDOWN"} /\ Write(c, m)
  /\ \/ /\ at[c] = "send" /\ at' = [at EXCEPT ![c] = "reply"]
        /\ cstate[c] \in DOMAIN Methods /\ m = Methods[cstate[c]]
     \/ at[c] = "alarm" /\ at' = [at EXCEPT ![c] = "alarm reply"]
  /\ replies' = replies /\ listening' = listening /\ cstate' = cstate
  /\ ccseq' = ccseq /\ receiver' = receiver

(* A request written to a connection, or lost with it.                     *)
LEMMA WriteKeeps ==
  ASSUME SessionInv, NEW c \in LheClients, NEW m, Asks(c, m),
         UNCHANGED <<threadVars, serverVars, castVars>>
  PROVE  SessionInv'
<1>t. LinkType /\ ClientType /\ \A e \in Clients : Exchange(e)
  BY DEF SessionInv
<1>c. c \in Clients
  BY <1>t, CastIsClients
<1>u. /\ serving' = serving /\ pc' = pc /\ after' = after /\ state' = state
      /\ cseq' = cseq /\ LheClients' = LheClients /\ crashes' = crashes
  BY DEF serverVars, castVars
<1>a. /\ m \in {"OPTIONS", "DESCRIBE", "SETUP", "PLAY", "TEARDOWN"}
      /\ replies' = replies /\ listening' = listening /\ cstate' = cstate
      /\ ccseq' = ccseq /\ receiver' = receiver
  BY DEF Asks
<1>p. /\ at[c] \in {"send", "alarm"} /\ at'[c] \in {"reply", "alarm reply"}
      /\ at' \in [Clients -> {"connect", "send", "reply", "user", "closing",
                              "ended", "killed", "alarm", "alarm reply"}]
      /\ \A e \in Clients : e # c => at'[e] = at[e]
      /\ at'[c] = "reply" => cstate[c] \in DOMAIN Methods /\ m = Methods[cstate[c]]
  BY <1>t, <1>c DEF Asks, ClientType
<1>1. Connected(c) /\ Worked(c) /\ Answered(c)
  BY <1>t, <1>c, <1>p DEF Exchange, Alive
<1>2. ~ Asking(c) /\ Asking(c)' /\ at'[c] # "connect"
  BY <1>p DEF Asking
<1>3. replies[c] = <<>> /\ ~ Busy(c) /\ ~ Busy(c)'
  BY <1>a, <1>u, <1>1, <1>2 DEF Worked, Answered, Busy
<1>4. conn' = [conn EXCEPT ![c] = IF conn[c] = "server" THEN "reset" ELSE conn[c]]
      /\ conn[c] \in {"queued", "open", "server"}
  BY DEF Asks, Write
<1>5. IF conn[c] = "server" THEN requests' = requests
      ELSE requests' = [requests EXCEPT ![c] = <<[method |-> m, cseq |-> ccseq[c]]>>]
  BY DEF Asks, Write, SendRequest
<1>6. [method |-> m, cseq |-> ccseq[c]] \in Requests
  BY <1>a, <1>t, <1>c DEF Requests, ClientType
<1>7. requests' \in [Clients -> OneOrNone(Requests)]
  BY <1>t, <1>5, <1>6 DEF LinkType, OneOrNone
<1>8. LinkType'
  BY <1>a, <1>t, <1>4, <1>7 DEF LinkType
<1>9. ClientType'
  BY <1>a, <1>p, <1>t, <1>u DEF ClientType
<1>10. conn'[c] = IF conn[c] = "server" THEN "reset" ELSE conn[c]
  BY <1>t, <1>c, <1>4 DEF LinkType
<1>11. Connected(c)' /\ Worked(c)' /\ Answered(c)'
  <2>1. Connected(c)'
    BY <1>a, <1>1, <1>4, <1>10 DEF Connected
  <2>2. Worked(c)' /\ Answered(c)'
    BY <1>a, <1>3 DEF Worked, Answered
  <2> QED
    BY <2>1, <2>2
<1>12. Asked(c)'
  <2>1. CASE conn[c] = "server"
    BY <1>10, <2>1 DEF Asked
  <2>2. CASE conn[c] # "server"
    <3>1. requests'[c] = <<[method |-> m, cseq |-> ccseq[c]]>>
      BY <1>t, <1>c, <1>5, <2>2 DEF LinkType
    <3>4. requests'[c][1] = [method |-> m, cseq |-> ccseq[c]]
      BY <3>1
    <3>2. requests'[c][1].method = m /\ requests'[c][1].cseq = ccseq[c]
      BY <3>4
    <3> QED
      BY <1>a, <1>2, <1>3, <1>p, <3>2 DEF Asked
  <2> QED
    BY <2>1, <2>2
<1>13. Plays(c)'
  BY <1>2 DEF Plays, Asking
<1>14. Exchange(c)'
  BY <1>11, <1>12, <1>13 DEF Exchange
<1>15. /\ \A e \in Clients : e # c =>
            conn'[e] = conn[e] /\ requests'[e] = requests[e] /\ at'[e] = at[e]
       /\ \/ conn'[c] = conn[c]
          \/ conn[c] \notin {"open", "client"} /\ conn'[c] \notin {"open", "client"}
  BY <1>t, <1>c, <1>p, <1>4, <1>5, <1>10 DEF LinkType
<1> QED
  BY <1>a, <1>c, <1>u, <1>8, <1>9, <1>14, <1>15, ClientKeeps

(* A connection made: nothing has been asked or answered on it.            *)
LEMMA ConnectKeeps ==
  ASSUME SessionInv, NEW c \in Clients, Connect(c), LheClients' = LheClients,
         crashes' = crashes, UNCHANGED <<threadVars, serverVars>>,
         conn[c] = "none"
  PROVE  SessionInv'
<1>t. LinkType /\ ClientType /\ \A e \in Clients : Exchange(e)
  BY DEF SessionInv
<1>u. serving' = serving /\ pc' = pc /\ after' = after /\ state' = state /\ cseq' = cseq
  BY DEF serverVars
<1>1. /\ at[c] = "connect" /\ at' = [at EXCEPT ![c] = "send"]
      /\ conn' = [conn EXCEPT ![c] = "queued"]
      /\ requests' = requests /\ replies' = replies /\ listening' = listening
      /\ cstate' = cstate /\ ccseq' = ccseq /\ receiver' = receiver
  BY DEF Connect, Goes
<1>2. LinkType'
  BY <1>t, <1>1 DEF LinkType
<1>3. ClientType'
  BY <1>t, <1>1 DEF ClientType
<1>4. at'[c] = "send" /\ conn'[c] = "queued"
  BY <1>t, <1>1 DEF LinkType, ClientType
<1>6. ASSUME Alive(c)' PROVE Exchange(c)'
  <2>1. Connected(c) /\ Asked(c) /\ Worked(c)
    BY <1>t, <1>1, <1>6 DEF Exchange, Alive
  <2>2. requests[c] = <<>> /\ replies[c] = <<>> /\ cstate[c] = "INIT" /\ ~ Busy(c)
    BY <1>1, <2>1 DEF Connected, Asked, Worked, Asking
  <2>3. ~ Busy(c)'
    BY <1>u, <2>2 DEF Busy
  <2> QED
    BY <1>1, <1>4, <2>2, <2>3
    DEF Exchange, Connected, Asked, Worked, Answered, Plays
<1>7. \A e \in Clients : e # c => conn'[e] = conn[e] /\ at'[e] = at[e]
  BY <1>t, <1>1 DEF LinkType, ClientType
<1>8. conn[c] \notin {"open", "client"} /\ conn'[c] \notin {"open", "client"}
  BY <1>4
<1>9. Exchange(c)'
  BY <1>6 DEF Exchange
<1> QED
  BY <1>1, <1>2, <1>3, <1>7, <1>8, <1>9, ClientKeeps

(* A step a client takes by itself, asking nothing: it keeps to its place  *)
(* in the exchange if what it has been answered is gone when it goes on.   *)
LEMMA OwnKeeps ==
  ASSUME SessionInv, NEW c \in LheClients,
         conn' = conn, requests' = requests, listening' = listening,
         replies' \in [Clients -> OneOrNone(Replies)], ClientType',
         \A e \in Clients : e # c => /\ replies'[e] = replies[e] /\ at'[e] = at[e]
                                     /\ cstate'[e] = cstate[e] /\ ccseq'[e] = ccseq[e],
         at[c] \notin {"ended", "killed"}, LheClients' = LheClients,
         ~ Asking(c)', replies'[c] = <<>>, ~ Busy(c),
         requests[c] = <<>> \/ conn[c] \notin {"none", "queued", "open"},
         conn[c] \in {"none", "queued"} => cstate'[c] = "INIT",
         Plays(c)', UNCHANGED <<threadVars, serverVars>>
  PROVE  SessionInv'
<1>t. LinkType /\ ClientType /\ \A e \in Clients : Exchange(e)
  BY DEF SessionInv
<1>c. c \in Clients
  BY <1>t, CastIsClients
<1>u. serving' = serving /\ pc' = pc /\ after' = after
  BY DEF serverVars
<1>1. LinkType'
  BY <1>t DEF LinkType
<1>2. Connected(c)
  BY <1>t, <1>c DEF Exchange, Alive
<1>3. ~ Busy(c)'
  BY <1>u DEF Busy
<1>4. Connected(c)'
  BY <1>2 DEF Connected
<1>5. Asked(c)'
  BY DEF Asked
<1>6. Worked(c)' /\ Answered(c)'
  BY <1>3 DEF Worked, Answered
<1>7. Exchange(c)'
  BY <1>4, <1>5, <1>6 DEF Exchange
<1> QED
  BY <1>c, <1>1, <1>7, ClientKeeps

(* Every step of a client of this repository keeps the invariant.          *)
LEMMA LheKeeps ==
  ASSUME SessionInv, NEW c \in LheClients, Lhe(c) \/ User(c) \/ Wakes(c) \/ Lost(c),
         at[c] = "connect" => conn[c] = "none"
  PROVE  SessionInv'
<1>t. LinkType /\ ClientType /\ \A e \in Clients : Exchange(e)
  BY DEF SessionInv
<1>c. c \in Clients
  BY <1>t, CastIsClients
<1>u. /\ UNCHANGED <<threadVars, serverVars>> /\ LheClients' = LheClients
      /\ state' = state
  BY DEF Lhe, User, Wakes, Lost, castVars, serverVars
<1>k. crashes \in 0 .. MaxCrashes
  BY <1>t DEF ClientType
<1>q. at[c] \in {"send", "user", "closing", "alarm"} =>
        /\ replies[c] = <<>> /\ ~ Busy(c)
        /\ requests[c] = <<>> \/ conn[c] \notin {"none", "queued", "open"}
        /\ conn[c] \in {"none", "queued"} => cstate[c] = "INIT"
  BY <1>t, <1>c DEF Exchange, Alive, Asked, Worked, Answered, Connected, Asking
<1>1. CASE Lost(c)
  <2>1. Ends(c, "killed") /\ crashes' \in 0 .. MaxCrashes
    BY <1>1, <1>k, SessionAssumption DEF Lost, Crash
  <2> QED
    BY <1>1, <1>c, <1>u, <2>1, EndsKeeps DEF Lost, Crash
<1>2. CASE User(c)
  <2>1. /\ at[c] = "user" /\ cstate' = [cstate EXCEPT ![c] = "TEARDOWN"]
        /\ at' = [at EXCEPT ![c] = "send"] /\ cstate[c] = "PLAYING"
        /\ conn' = conn /\ requests' = requests /\ replies' = replies
        /\ listening' = listening /\ ccseq' = ccseq /\ receiver' = receiver
        /\ crashes' = crashes
    BY <1>2 DEF User, UserStops, Goes, linkVars, castVars
  <2>2. ClientType'
    BY <1>t, <1>u, <2>1, MethodsTable DEF ClientType, States
  <2>3. at'[c] = "send"
    BY <1>t, <1>c, <2>1 DEF ClientType
  <2>4. replies' \in [Clients -> OneOrNone(Replies)]
    BY <1>t, <2>1 DEF LinkType
  <2>5. \A e \in Clients : e # c => at'[e] = at[e] /\ cstate'[e] = cstate[e]
    BY <1>t, <2>1 DEF ClientType
  <2>6. Plays(c)' /\ ~ Asking(c)'
    BY <2>3 DEF Plays, Asking
  <2> QED
    BY <1>q, <1>u, <2>1, <2>2, <2>3, <2>4, <2>5, <2>6, OwnKeeps
<1>l. ASSUME Lhe(c) PROVE ClientStep(c) /\ crashes' = crashes /\ UNCHANGED castVars
  BY <1>l DEF Lhe, castVars
<1>3. CASE Lhe(c) /\ Connect(c)
  BY <1>3, <1>c, <1>l, <1>u, ConnectKeeps DEF Connect
<1>4. CASE Lhe(c) /\ (NoServer(c) \/ BrokenPipe(c) \/ AlarmEnds(c) \/ JoinReceiver(c))
  <2>1. PICK point \in {"ended", "killed"} : Ends(c, point)
    BY <1>4 DEF NoServer, BrokenPipe, AlarmEnds, JoinReceiver
  <2>2. /\ requests' = requests /\ replies' = replies /\ listening' = listening
        /\ cstate' = cstate /\ ccseq' = ccseq
    BY <1>4 DEF NoServer, BrokenPipe, AlarmEnds, JoinReceiver
  <2> QED
    BY <1>4, <1>c, <1>k, <1>l, <1>u, <2>1, <2>2, EndsKeeps
<1>5. CASE Lhe(c) /\ Send(c)
  <2>1. /\ at[c] = "send" /\ at' = [at EXCEPT ![c] = "reply"]
        /\ cstate[c] \in DOMAIN Methods /\ Write(c, Methods[cstate[c]])
        /\ replies' = replies /\ listening' = listening /\ cstate' = cstate
        /\ ccseq' = ccseq /\ receiver' = receiver
    BY <1>5 DEF Send, Goes
  <2>2. Asks(c, Methods[cstate[c]])
    BY <2>1, MethodsTable DEF Asks
  <2> QED
    BY <1>5, <1>l, <1>u, <2>2, WriteKeeps
<1>6. CASE Lhe(c) /\ Alarm(c)
  <2>1. Asks(c, "TEARDOWN")
    BY <1>6 DEF Alarm, Goes, Asks
  <2> QED
    BY <1>6, <1>l, <1>u, <2>1, WriteKeeps
<1>7. CASE Lhe(c) /\ (OpenPlayer(c) \/ StopReceiver(c))
  <2>1. /\ at[c] \in {"send", "closing"} /\ at' = at /\ ccseq' = ccseq
        /\ conn' = conn /\ requests' = requests /\ replies' = replies
        /\ listening' = listening
        /\ receiver' \in [Clients -> {"none", "running", "told", "deaf", "gone"}]
        /\ \/ cstate' = cstate
           \/ cstate[c] = "SERVER_READY" /\ cstate' = [cstate EXCEPT ![c] = "CLIENT_READY"]
    BY <1>7, <1>t DEF OpenPlayer, StopReceiver, linkVars, ClientType
  <2>2. ClientType'
    BY <1>7, <1>l, <1>t, <1>u, <2>1, MethodsTable DEF ClientType, States
  <2>3. /\ \A e \in Clients : e # c => cstate'[e] = cstate[e]
        /\ cstate'[c] = cstate[c] \/ cstate[c] = "SERVER_READY"
    BY <1>t, <2>1 DEF ClientType
  <2>4. replies' \in [Clients -> OneOrNone(Replies)]
    BY <1>t, <2>1 DEF LinkType
  <2>5. Plays(c)' /\ ~ Asking(c)'
    BY <2>1 DEF Plays, Asking
  <2> QED
    BY <1>q, <1>u, <2>1, <2>2, <2>3, <2>4, <2>5, OwnKeeps
<1>8. CASE (Lhe(c) /\ ReceiverEnds(c)) \/ Wakes(c)
  <2>1. /\ cstate' = cstate /\ at' = at /\ ccseq' = ccseq /\ conn' = conn
        /\ requests' = requests /\ replies' = replies /\ listening' = listening
        /\ receiver' = [receiver EXCEPT ![c] = "gone"]
    BY <1>8 DEF Wakes, ReceiverEnds, Straggler, linkVars
  <2>2. LinkType'
    BY <1>t, <2>1 DEF LinkType
  <2>3. ClientType'
    BY <1>8, <1>l, <1>t, <1>u, <2>1 DEF Wakes, castVars, ClientType
  <2>4. serving' = serving /\ pc' = pc /\ after' = after /\ cseq' = cseq
    BY <1>u DEF serverVars
  <2>5. Exchange(c)'
    BY <1>t, <1>c, <1>u, <2>1, <2>4
    DEF Exchange, Alive, Connected, Asked, Worked, Answered, Plays, Asking, Busy
  <2> QED
    BY <1>c, <1>u, <2>1, <2>2, <2>3, <2>5, ClientKeeps
<1>9. CASE Lhe(c) /\ NoReply(c)
  <2>1. /\ at[c] = "reply" /\ replies[c] = <<>> /\ conn[c] \in {"server", "reset"}
        /\ ccseq' = [ccseq EXCEPT ![c] = @ + 1] /\ at' = [at EXCEPT ![c] = "send"]
        /\ conn' = conn /\ requests' = requests /\ replies' = replies
        /\ listening' = listening /\ cstate' = cstate /\ receiver' = receiver
    BY <1>9 DEF NoReply, Goes, linkVars
  <2>7. ccseq' \in [Clients -> Nat]
    BY <1>t, <1>c, <2>1, CountsOn DEF ClientType
  <2>2. ClientType'
    BY <1>9, <1>l, <1>t, <1>u, <2>1, <2>7 DEF ClientType
  <2>3. at'[c] = "send"
        /\ \A e \in Clients : e # c => at'[e] = at[e] /\ ccseq'[e] = ccseq[e]
    BY <1>t, <1>c, <2>1 DEF ClientType
  <2>4. ~ Busy(c)
    BY <1>c, <2>1 DEF SessionInv, ServingOK, Serving, Busy
  <2>5. replies' \in [Clients -> OneOrNone(Replies)]
    BY <1>t, <2>1 DEF LinkType
  <2>6. Plays(c)' /\ ~ Asking(c)'
    BY <2>3 DEF Plays, Asking
  <2> QED
    BY <1>u, <2>1, <2>2, <2>3, <2>4, <2>5, <2>6, OwnKeeps
<1>10. CASE Lhe(c) /\ GetReply(c)
  <2> DEFINE s == After(c, Head(replies[c]))
  <2>1. /\ at[c] = "reply" /\ replies[c] # <<>>
        /\ cstate' = [cstate EXCEPT ![c] = s] /\ at' = [at EXCEPT ![c] = NextPoint(s)]
        /\ replies' = [replies EXCEPT ![c] = <<>>]
        /\ ccseq' = [ccseq EXCEPT ![c] = @ + 1]
        /\ conn' = conn /\ requests' = requests /\ listening' = listening
        /\ receiver' = receiver
    BY <1>10 DEF GetReply, Goes
  <2>2. PICK r \in Replies : replies[c] = <<r>>
    BY <1>t, <1>c, <2>1 DEF LinkType, OneOrNone
  <2>3. Head(replies[c]) = r /\ replies[c][1] = r
    BY <2>2
  <2>4. s \in States /\ (s = "PLAYING" => r.status = 200 /\ cstate[c] = "CLIENT_READY")
    <3>1. s = IF r.cseq = ccseq[c] /\ r.status = 200 /\ cstate[c] \in DOMAIN Wins
              THEN Wins[cstate[c]] ELSE "ERROR"
      BY <2>3 DEF After
    <3>2. "ERROR" \in States
      BY DEF States
    <3> QED
      BY <3>1, <3>2, WinsTable
  <2> HIDE DEF s
  <2>5. NextPoint(s) \in {"alarm", "user", "closing", "send"}
    BY DEF NextPoint
  <2>6. NextPoint(s) = "user" => s = "PLAYING"
    BY DEF NextPoint
  <2>14. ccseq' \in [Clients -> Nat]
    BY <1>t, <1>c, <2>1, CountsOn DEF ClientType
  <2>15. /\ cstate' \in [Clients -> States]
         /\ at' \in [Clients -> {"connect", "send", "reply", "user", "closing",
                                "ended", "killed", "alarm", "alarm reply"}]
    BY <1>t, <2>1, <2>4, <2>5 DEF ClientType
  <2>7. ClientType'
    BY <1>10, <1>l, <1>t, <1>u, <2>1, <2>14, <2>15 DEF ClientType
  <2>8. /\ at'[c] = NextPoint(s) /\ cstate'[c] = s
        /\ \A e \in Clients : e # c => /\ at'[e] = at[e] /\ ccseq'[e] = ccseq[e]
                                       /\ cstate'[e] = cstate[e]
    BY <1>t, <1>c, <2>1 DEF ClientType
  <2>9. /\ replies' \in [Clients -> OneOrNone(Replies)] /\ replies'[c] = <<>>
        /\ \A e \in Clients : e # c => replies'[e] = replies[e]
    BY <1>t, <1>c, <2>1 DEF LinkType, OneOrNone
  <2>10. Connected(c) /\ Asked(c) /\ Answered(c)
    BY <1>t, <1>c, <2>1 DEF Exchange, Alive
  <2>11. /\ ~ Busy(c) /\ conn[c] \notin {"none", "queued"}
         /\ requests[c] = <<>> \/ conn[c] \notin {"none", "queued", "open"}
    BY <2>1, <2>10 DEF Answered, Asked, Connected
  <2>12. (s = "PLAYING" /\ conn[c] = "open") => state = "PLAYING"
    BY <2>1, <2>3, <2>4, <2>10 DEF Answered
  <2>13. Plays(c)' /\ ~ Asking(c)'
    BY <1>u, <2>1, <2>5, <2>8, <2>12 DEF Plays, Asking
  <2> QED
    BY <1>u, <2>1, <2>7, <2>8, <2>9, <2>11, <2>13, OwnKeeps
<1> QED
  BY <1>1, <1>2, <1>3, <1>4, <1>5, <1>6, <1>7, <1>8, <1>9, <1>10, <1>l DEF ClientStep

(* Another client is nobody's business but its own.                        *)
LEMMA OtherKeeps ==
  ASSUME SessionInv, NEW c \in Others, Other(c),
         at[c] = "connect" => conn[c] = "none"
  PROVE  SessionInv'
<1>t. LinkType /\ ClientType
  BY DEF SessionInv
<1>u. /\ UNCHANGED <<threadVars, serverVars>> /\ LheClients' = LheClients
      /\ crashes' = crashes /\ cstate' = cstate /\ receiver' = receiver
      /\ listening' = listening
  BY DEF Other, castVars
<1>c. c \in Clients /\ c \notin LheClients
  BY DEF Others
<1>k. crashes \in 0 .. MaxCrashes
  BY <1>t DEF ClientType
<1>1. CASE Connect(c)
  BY <1>1, <1>c, <1>u, ConnectKeeps DEF Connect
<1>2. ASSUME NEW method \in {"SETUP", "PLAY", "PAUSE", "TEARDOWN", "OTHER", "VERSION"},
             SendRequest(c, [method |-> method, cseq |-> ccseq[c]]),
             ccseq' = [ccseq EXCEPT ![c] = @ + 1],
             UNCHANGED <<conn, replies, at>>
      PROVE  SessionInv'
  <2>1. [method |-> method, cseq |-> ccseq[c]] \in Requests
    BY <1>t, <1>c DEF Requests, ClientType
  <2>2. requests' \in [Clients -> OneOrNone(Requests)]
    BY <1>t, <1>2, <2>1 DEF SendRequest, LinkType, OneOrNone
  <2>3. LinkType'
    BY <1>t, <1>u, <1>2, <2>2 DEF LinkType
  <2>4. ccseq' \in [Clients -> Nat]
    BY <1>t, <1>c, <1>2, CountsOn DEF ClientType
  <2>5. ClientType'
    BY <1>t, <1>u, <1>2, <2>4 DEF ClientType
  <2>6. \A e \in Clients : e # c => requests'[e] = requests[e] /\ ccseq'[e] = ccseq[e]
    BY <1>t, <1>2 DEF SendRequest, LinkType, ClientType
  <2>7. Exchange(c)'
    BY <1>c, <1>u DEF Exchange, Alive
  <2> QED
    BY <1>c, <1>u, <1>2, <2>3, <2>5, <2>6, <2>7, ClientKeeps
<1>3. CASE Ends(c, "ended") /\ UNCHANGED <<requests, replies, ccseq>>
  BY <1>3, <1>c, <1>k, <1>u, EndsKeeps
<1> QED
  BY <1>1, <1>2, <1>3 DEF Other

-----------------------------------------------------------------------------
(* Clients that have not connected                                         *)

Unconnected == \A c \in Clients : at[c] = "connect" => conn[c] = "none"

(* A client leaves "connect" when its connection is asked for.             *)
LEMMA UnconnectedKeeps == SessionInv /\ Unconnected /\ [Next]_vars => Unconnected'
<1> SUFFICES ASSUME SessionInv, Unconnected, [Next]_vars,
                    NEW e \in Clients, at'[e] = "connect"
             PROVE  conn'[e] = "none"
  BY DEF Unconnected
<1>t. LinkType /\ ClientType
  BY DEF SessionInv
<1>u. at[e] = "connect" => conn[e] = "none"
  BY DEF Unconnected
<1>g. ServerGone /\ conn[e] = "none" => conn'[e] = "none"
  BY <1>t DEF ServerGone, LinkType
<1>l. ASSUME NEW st, LeaveClient(st), conn[e] = "none" PROVE conn'[e] = "none"
  BY <1>l, <1>t DEF LeaveClient, LinkType
<1>e. ASSUME NEW c \in Clients, NEW p \in {"ended", "killed"}, Ends(c, p)
      PROVE  conn'[e] = "none"
  BY <1>e, <1>t, <1>u DEF Ends, Goes, LinkType, ClientType
<1>c. ASSUME NEW c \in Clients, Connect(c) PROVE conn'[e] = "none"
  BY <1>c, <1>t, <1>u DEF Connect, Goes, LinkType, ClientType
<1>1. CASE Server
  <2>1. at[e] = "connect" /\ conn[e] = "none"
    BY <1>1, <1>u DEF Server, clientVars
  <2>2. CASE \E c \in Clients : Accept(c)
    BY <2>1, <2>2, <1>t DEF Accept, LinkType
  <2>3. CASE EndIdle
    BY <2>1, <2>3, <1>l DEF EndIdle
  <2>4. CASE Joined
    BY <2>1, <2>4, <1>l DEF Joined
  <2>5. CASE JoinedAndExit
    BY <2>1, <2>5, <1>g DEF JoinedAndExit
  <2>6. CASE \/ ClientLeft \/ Inform \/ Unknown \/ Setup \/ Play \/ Playing
             \/ Refuse \/ EndPlaying
    BY <2>1, <2>6
    DEF ClientLeft, Inform, Unknown, Setup, Play, Playing, Refuse, EndPlaying,
        Answer, linkVars
  <2> QED
    BY <1>1, <2>2, <2>3, <2>4, <2>5, <2>6 DEF Server, ServerStep
<1>2. CASE Sender
  BY <1>2, <1>u DEF Sender, Thread, linkVars, clientVars
<1>3. CASE Interrupted
  <2>1. at[e] = "connect" /\ conn[e] = "none"
    BY <1>3, <1>u DEF Interrupted, clientVars
  <2>2. \/ ServerGone
        \/ conn' = [conn EXCEPT ![serving] = IF @ = "open" THEN "server" ELSE @]
    BY <1>3 DEF Interrupted, SigInt, SigIntServer, SigIntSender
  <2> QED
    BY <2>1, <2>2, <1>g, <1>t DEF LinkType
<1>4. ASSUME NEW c \in LheClients, Lhe(c) \/ User(c) \/ Wakes(c) \/ Lost(c) PROVE conn'[e] = "none"
  <2>1. c \in Clients
    BY <1>t, CastIsClients
  <2>2. CASE Connect(c)
    BY <2>1, <2>2, <1>c
  <2>3. CASE \/ NoServer(c) \/ BrokenPipe(c) \/ AlarmEnds(c) \/ JoinReceiver(c)
             \/ Crash(c)
    BY <2>1, <2>3, <1>e DEF NoServer, BrokenPipe, AlarmEnds, JoinReceiver, Crash
  <2>4. CASE Send(c) \/ Alarm(c)
    <3>1. /\ conn' = [conn EXCEPT ![c] = IF @ = "server" THEN "reset" ELSE @]
          /\ \E p \in {"reply", "alarm reply"} : at' = [at EXCEPT ![c] = p]
      BY <2>4 DEF Send, Alarm, Write, Goes
    <3> QED
      BY <2>1, <3>1, <1>t, <1>u DEF LinkType, ClientType
  <2>5. CASE \/ OpenPlayer(c) \/ StopReceiver(c) \/ ReceiverEnds(c) \/ NoReply(c)
             \/ UserStops(c) \/ Straggler(c)
    BY <2>1, <2>5, <1>t, <1>u
    DEF OpenPlayer, StopReceiver, ReceiverEnds, NoReply, UserStops, Straggler, Goes,
        linkVars, ClientType
  <2>6. CASE GetReply(c)
    <3>1. conn' = conn /\ \E p \in {"alarm", "user", "closing", "send"} :
                            at' = [at EXCEPT ![c] = p]
      BY <2>6 DEF GetReply, Goes, NextPoint
    <3> QED
      BY <2>1, <3>1, <1>t, <1>u DEF ClientType
  <2> QED
    BY <1>4, <2>2, <2>3, <2>4, <2>5, <2>6 DEF Lhe, User, Wakes, Lost, ClientStep
<1>5. ASSUME NEW c \in Others, Other(c) PROVE conn'[e] = "none"
  <2>1. c \in Clients
    BY DEF Others
  <2>2. CASE Connect(c) \/ Ends(c, "ended")
    BY <2>1, <2>2, <1>c, <1>e
  <2>3. CASE UNCHANGED <<conn, replies, at>>
    BY <2>3, <1>u
  <2> QED
    BY <1>5, <2>2, <2>3 DEF Other
<1>6. CASE UNCHANGED vars
  BY <1>6, <1>u DEF vars, linkVars, clientVars
<1> QED
  BY <1>1, <1>2, <1>3, <1>4, <1>5, <1>6 DEF Next

-----------------------------------------------------------------------------
(* Theorems                                                                *)

(* A direction of the link holds one message.                              *)
LEMMA OneAtMost ==
  ASSUME NEW S, NEW x \in OneOrNone(S)
  PROVE  Len(x) <= 1
<1>1. CASE x = <<>>
  BY <1>1
<1>2. CASE \E m \in S : x = <<m>>
  <2>1. PICK m \in S : x = <<m>>
    BY <1>2
  <2>2. Len(<<m>>) = 1
    OBVIOUS
  <2> QED
    BY <2>1, <2>2
<1> QED
  BY <1>1, <1>2 DEF OneOrNone

(* At the start nobody is connected and the server waits.                  *)
LEMMA SessionInit == Init => SessionInv /\ Unconnected
<1> SUFFICES ASSUME Init PROVE SessionInv /\ Unconnected
  OBVIOUS
<1>1. LinkType /\ \A e \in Clients : conn[e] = "none" /\ requests[e] = <<>> /\ replies[e] = <<>>
  BY DEF Init, LinkInit, LinkType, OneOrNone
<1>2. ClientType /\ \A e \in Clients : at[e] = "connect" /\ cstate[e] = "INIT"
  BY SessionAssumption, MethodsTable DEF Init, ClientInit, ClientType, States
<1>3. ServerType
  BY DEF Init, ServerInit, ThreadInit, ServerType
<1>4. ServingOK /\ \A e \in Clients : ~ Busy(e)
  BY <1>1 DEF Init, ServerInit, ServingOK, Serving, Busy
<1>5. \A e \in Clients : Exchange(e)
  BY <1>1, <1>2, <1>4 DEF Exchange, Connected, Asked, Worked, Answered, Plays
<1> QED
  BY <1>1, <1>2, <1>3, <1>4, <1>5 DEF SessionInv, Unconnected

(* Every step of the server, of a client, of a user and of a crash keeps   *)
(* the one exchange that is going on in order.                             *)
LEMMA SessionNext == SessionInv /\ Unconnected /\ [Next]_vars => SessionInv'
<1> SUFFICES ASSUME SessionInv, Unconnected, [Next]_vars PROVE SessionInv'
  OBVIOUS
<1>1. LheClients \subseteq Clients
  BY CastIsClients DEF SessionInv
<1>2. CASE Server
  BY <1>2, ServerKeeps
<1>3. CASE Sender
  BY <1>3, SenderKeeps
<1>4. CASE Interrupted
  BY <1>4, InterruptedKeeps
<1>5. ASSUME NEW c \in LheClients, Lhe(c) \/ User(c) \/ Wakes(c) \/ Lost(c) PROVE SessionInv'
  BY <1>1, <1>5, LheKeeps DEF Unconnected
<1>6. ASSUME NEW c \in Others, Other(c) PROVE SessionInv'
  BY <1>6, OtherKeeps DEF Unconnected, Others
<1>7. CASE UNCHANGED vars
  <2>1. /\ LinkType' = LinkType /\ ClientType' = ClientType /\ ServerType' = ServerType
        /\ ServingOK' = ServingOK
    BY <1>7 DEF vars, linkVars, threadVars, serverVars, clientVars, castVars,
                LinkType, ClientType, ServerType, ServingOK, Serving
  <2>2. \A e \in Clients : Exchange(e)' = Exchange(e)
    BY <1>7 DEF vars, linkVars, threadVars, serverVars, clientVars, castVars,
                Exchange, Alive, Connected, Asked, Worked, Answered, Plays, Asking, Busy
  <2> QED
    BY <2>1, <2>2 DEF SessionInv
<1> QED
  BY <1>2, <1>3, <1>4, <1>5, <1>6, <1>7 DEF Next

(* A client that believes it is playing, and whose connection stands, is   *)
(* the one the server plays for; and every answer a client reads is to its *)
(* last request - with other clients asking anything, waiting, leaving and *)
(* crashing, and SIGINT at any moment.                                     *)
THEOREM SidesAlwaysAgree == Spec => []SidesAgree
<1>1. SessionInv => SidesAgree
  <2> SUFFICES ASSUME SessionInv PROVE SidesAgree
    OBVIOUS
  <2>t. LinkType /\ ClientType /\ ServerType /\ ServingOK
        /\ \A e \in Clients : Exchange(e)
    BY DEF SessionInv
  <2>c. LheClients \subseteq Clients
    BY <2>t, CastIsClients
  <2>1. TypeOK
    <3>1. \A c \in Clients : Len(requests[c]) <= 1 /\ Len(replies[c]) <= 1
      BY <2>t, OneAtMost DEF LinkType
    <3>2. States = DOMAIN Methods \cup {"SERVER_READY", "PLAYING", "CLOSING", "ERROR"}
      BY DEF States
    <3>3. /\ conn \in [Clients -> {"none", "queued", "open", "client", "server", "reset"}]
          /\ listening \in BOOLEAN
      BY <2>t DEF LinkType
    <3>4. /\ LheClients \in Casts /\ crashes \in 0 .. MaxCrashes
          /\ cstate \in [Clients -> States]
      BY <2>t DEF ClientType
    <3>5. missed \in BOOLEAN
      BY <2>t DEF ServerType
    <3>6. /\ phase \in {"idle", "created", "caught", "streaming", "gone", "stuck"}
          /\ state \in {"INIT", "READY", "PLAYING"} /\ serving \in Clients \cup {None}
          /\ pc \in {"accept", "read", "created", "joining", "exited"}
          /\ handler \in {"server", "sender"}
      BY <2>t DEF ServerType
    <3> QED
      BY <3>1, <3>2, <3>3, <3>4, <3>5, <3>6 DEF TypeOK
  <2>2. AgreedPlaying
    BY <2>t, <2>c DEF AgreedPlaying, Exchange, Alive, Plays, ServingOK
  <2>3. AnswersMatch
    <3> SUFFICES ASSUME NEW c \in LheClients, at[c] = "reply", replies[c] # <<>>
                 PROVE  Head(replies[c]).cseq = ccseq[c]
      BY DEF AnswersMatch
    <3>1. Head(replies[c]) = replies[c][1]
      BY <2>t, <2>c DEF LinkType, OneOrNone
    <3>2. replies[c][1].cseq = ccseq[c]
      BY <2>t, <2>c DEF Exchange, Alive, Answered
    <3> QED
      BY <3>1, <3>2
  <2> QED
    BY <2>1, <2>2, <2>3 DEF SidesAgree
<1> QED
  BY <1>1, SessionInit, SessionNext, UnconnectedKeeps, PTL DEF Spec

(* The server never makes a transmitting thread while another one lives,   *)
(* though its state outlives the clients and the thread ends by itself:    *)
(* whatever takes it out of PLAYING has waited in pthread_join.            *)
THEOREM OnlyOneSender == Spec => []OneSender
<1>1. Init => OneSender
  BY DEF Init, ServerInit, ThreadInit, OneSender
<1>2. OneSender /\ [Next]_vars => OneSender'
  <2> SUFFICES ASSUME OneSender, [Next]_vars PROVE OneSender'
    OBVIOUS
  <2>1. CASE Server
    <3>1. CASE \E c \in Clients : Accept(c)
      BY <3>1 DEF Accept, threadVars, OneSender
    <3>2. CASE ClientLeft \/ Inform \/ Unknown \/ Setup \/ Refuse
      BY <3>2
      DEF ClientLeft, Inform, Unknown, Setup, MaySetup, Refuse, Answer, Read,
          threadVars, OneSender
    <3>3. CASE Play \/ Playing \/ EndPlaying \/ JoinedAndExit
      BY <3>3 DEF Play, Playing, EndPlaying, JoinedAndExit, StopSender, OneSender
    <3>4. CASE EndIdle
      BY <3>4 DEF EndIdle, Read, LeaveClient, threadVars, OneSender
    <3>5. CASE Joined
      BY <3>5 DEF Joined, Joins, LeaveClient, threadVars, OneSender
    <3> QED
      BY <2>1, <3>1, <3>2, <3>3, <3>4, <3>5 DEF Server, ServerStep
  <2>2. CASE Sender
    BY <2>2
    DEF Sender, Thread, ThreadStep, Catch, Begin, Fail, Leave, OneSender
  <2>3. CASE Interrupted
    <3>1. CASE pc' \in {"exited", "joining"}
      BY <3>1 DEF OneSender
    <3>2. CASE pc' \notin {"exited", "joining"}
      BY <2>3, <3>2
      DEF Interrupted, SigInt, SigIntServer, SigIntSender, StopSender, Signal, OneSender
    <3> QED
      BY <3>1, <3>2
  <2>4. CASE \/ \E c \in LheClients : Lhe(c) \/ User(c) \/ Wakes(c) \/ Lost(c)
             \/ \E c \in Others : Other(c)
    BY <2>4 DEF Lhe, User, Wakes, Lost, Other, threadVars, serverVars, OneSender
  <2>5. CASE UNCHANGED vars
    BY <2>5 DEF vars, threadVars, serverVars, OneSender
  <2> QED
    BY <2>1, <2>2, <2>3, <2>4, <2>5 DEF Next
<1> QED
  BY <1>1, <1>2, PTL DEF Spec
=============================================================================
