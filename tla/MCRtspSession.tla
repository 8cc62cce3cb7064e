--------------------------- MODULE MCRtspSession ---------------------------
(***************************************************************************)
(* Instances of RtspSession: two clients of this repository, or one and    *)
(* another that sends up to three requests of any kind; one crash, one     *)
(* SIGINT of the user to the server.                                       *)
(***************************************************************************)
EXTENDS RtspSession

CONSTANTS a, b
MCCasts == {{a, b}, {a}}
=============================================================================
