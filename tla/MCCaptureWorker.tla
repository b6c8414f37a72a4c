-------------------------- MODULE MCCaptureWorker --------------------------
(* Instances of CaptureWorker for TLC. *)
EXTENDS CaptureWorker
============================================================================
