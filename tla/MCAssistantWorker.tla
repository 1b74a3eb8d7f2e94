--------------------------- MODULE MCAssistantWorker ---------------------------
(***************************************************************************)
(* Instances of AssistantWorker for TLC.                                   *)
(***************************************************************************)
EXTENDS AssistantWorker
=============================================================================
