-------------------------- MODULE MCConnectionStore --------------------------
(* Instantiates ConnectionStore for TLC: two clients, three connection ids. *)
EXTENDS ConnectionStore

MCMaxConns == 3

=============================================================================
