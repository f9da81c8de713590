-------------------------- MODULE MCUnreceivedQuery --------------------------
EXTENDS UnreceivedQuery

MCMaxSeq == 2

=============================================================================
