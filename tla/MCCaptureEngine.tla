---------------------------- MODULE MCCaptureEngine ----------------------------
(***************************************************************************)
(* Instances of CaptureEngine for TLC.                                     *)
(***************************************************************************)
EXTENDS CaptureEngine

CONSTANTS s1, s2, mic, system

OneSession == {s1}
TwoSessions == {s1, s2}
OneKind == {mic}
TwoKinds == {mic, system}
=============================================================================
