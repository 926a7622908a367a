---------------------------- MODULE MCGitCapture ----------------------------
(* An instance of GitCapture: the pipe is a string. *)
EXTENDS GitCapture

MCStream == {"out"}
=============================================================================
