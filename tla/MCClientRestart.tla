--------------------------- MODULE MCClientRestart ---------------------------
(* Instantiates ClientRestart for TLC: the bounds of MCClientCreate and one *)
(* restart.                                                                 *)
EXTENDS ClientRestart

MCMaxRequests == 3
MCMaxHeight == 2

=============================================================================
