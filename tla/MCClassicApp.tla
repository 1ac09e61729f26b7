---------------------------- MODULE MCClassicApp ----------------------------
(* A classic application with secrets, for TLC.                            *)
EXTENDS ClassicApp
=============================================================================
