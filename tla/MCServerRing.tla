---------------------------- MODULE MCServerRing ----------------------------
(* Model-checking instance of ServerRing: the producer and three         *)
(* consumers (the server creates NUM_TC = 5) around a ring of three slots  *)
(* (server.c has 10), fed seven datagrams, one of them empty, so that the  *)
(* ring fills and wraps, the producer waits on it and consumers wait on an *)
(* empty ring.                                                             *)
EXTENDS ServerRing

CONSTANTS p, c1, c2, c3

MCConsumers == {c1, c2, c3}
MCThreads == {p} \cup MCConsumers
MCMons == {"mon"}
=============================================================================
