-------------------------- MODULE MCCaptureSession --------------------------
(* CaptureSession for TLC: requests as model values.                       *)
EXTENDS CaptureSession
=============================================================================
