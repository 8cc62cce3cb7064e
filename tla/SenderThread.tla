---------------------------- MODULE SenderThread ----------------------------
(***************************************************************************)
(* What the RTSP server may rely on of the thread that transmits from      *)
(* memory: the points of its life at which SIGINT means something else,    *)
(* and its flag "stop".  MemorySender implements this specification;       *)
(* RtspSession uses it in the place of MemorySender.                       *)
(***************************************************************************)
EXTENDS Naturals

VARIABLES
  phase,   (* "idle", "created" (handler not yet installed), "caught"      *)
           (* (installed, "stop = false" still to come), "streaming",      *)
           (* "gone" (LHE_send_from_memory has returned)                   *)
  stop     (* "stop" of LHE_sender.c                                       *)
threadVars == <<phase, stop>>

ThreadInit == phase = "idle" /\ stop = FALSE

Create == phase \in {"idle", "gone"} /\ phase' = "created" /\ stop' = stop
Catch  == phase = "created" /\ phase' = "caught" /\ stop' = stop

(* "stop = false", then a test of what get_parameters returns, which       *)
(* returns nothing: either outcome.                                        *)
Begin  == phase = "caught" /\ phase' = "streaming" /\ stop' \in BOOLEAN

(* The same test before every frame, or a block that was not expected.     *)
Fail   == phase = "streaming" /\ stop' = TRUE /\ phase' = phase

Leave  == phase = "streaming" /\ stop /\ phase' = "gone" /\ stop' = stop

(* LHE_sender.c's sigint_handler: it stays installed when a thread ends,   *)
(* and so is there before the next one installs it again.                  *)
Signal == phase # "idle" /\ stop' = TRUE /\ phase' = phase

ThreadStep == Catch \/ Begin \/ Fail \/ Leave
ThreadNext == Create \/ ThreadStep \/ Signal
ThreadSpec == ThreadInit /\ [][ThreadNext]_threadVars
                         /\ WF_threadVars(Catch) /\ WF_threadVars(Begin)
                         /\ WF_threadVars(Leave)
=============================================================================
