---------------------------- MODULE MCTcpServer ----------------------------
(***************************************************************************)
(* The connection of the TLC runs of TcpServer.                            *)
(***************************************************************************)
EXTENDS TcpServer

CONSTANT c1
=============================================================================
