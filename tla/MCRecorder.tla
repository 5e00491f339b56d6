----------------------------- MODULE MCRecorder -----------------------------
(* Recorder on a small instance.                                           *)
EXTENDS Recorder
=============================================================================
