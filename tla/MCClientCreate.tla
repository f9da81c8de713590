--------------------------- MODULE MCClientCreate ---------------------------
(* Instantiates ClientCreate for TLC: two concurrent create_client tasks,  *)
(* two client types, three requests, host heights 0..2.                    *)
EXTENDS ClientCreate

MCMaxRequests == 3
MCMaxHeight == 2

=============================================================================
