--------------------------- MODULE MCCameraReceiver ---------------------------
(* Small instances of CameraReceiver for TLC.                               *)
EXTENDS CameraReceiver
=============================================================================
