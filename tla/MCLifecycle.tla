---------------------------- MODULE MCLifecycle -----------------------------
(***************************************************************************)
(* A process with a metrics server, a job consumer and a frontier.           *)
(***************************************************************************)
EXTENDS Lifecycle

CONSTANTS server, consumer, frontier

MCStartupPhases == <<server, consumer>>
===========================================================================
