------------------------------ MODULE TcpLink ------------------------------
(***************************************************************************)
(* External: the TCP connections between RTSP clients and the server, as   *)
(* the code uses them.  A client's connection waits in the backlog until   *)
(* it is accepted; what was written before an end closed is still read.    *)
(* Each side waits for the other's message, so a direction holds one.      *)
(***************************************************************************)
EXTENDS Sequences

CONSTANTS Clients

VARIABLES
  conn,       (* per client: "none", "queued", "open", or the end that has *)
              (* closed it, "client" or "server"; "reset" when something   *)
              (* was written to an end closed by the server                *)
  requests, replies,       (* per client: messages on their way            *)
  listening                (* the server's listening socket is open        *)
linkVars == <<conn, requests, replies, listening>>

LinkInit ==
  /\ conn = [c \in Clients |-> "none"]
  /\ requests = [c \in Clients |-> <<>>] /\ replies = [c \in Clients |-> <<>>]
  /\ listening = TRUE

SendRequest(c, m) == requests' = [requests EXCEPT ![c] = <<m>>]
SendReply(c, r)   == replies' = [replies EXCEPT ![c] = <<r>>]
(* The kernel closes whatever a process leaves open when it ends.          *)
ServerGone ==
  /\ listening' = FALSE
  /\ conn' = [c \in Clients |-> IF conn[c] \in {"queued", "open"} THEN "server"
                                ELSE conn[c]]
=============================================================================
