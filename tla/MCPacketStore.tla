---------------------------- MODULE MCPacketStore ----------------------------
(* Instantiates PacketStore for TLC: two channels on one port, two packet  *)
(* sequences per channel and direction, one query task at a time.         *)
EXTENDS PacketStore

MCMaxSeq == 2

=============================================================================
