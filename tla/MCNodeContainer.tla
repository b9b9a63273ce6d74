---------------------------- MODULE MCNodeContainer ----------------------------
(* A small instance of NodeContainer for TLC.                              *)
EXTENDS NodeContainer
=============================================================================
