---------------------------- MODULE MCSnfsClient ----------------------------
(* Instance of SnfsClient for TLC: two client processes, two file names   *)
(* and the subdirectory d, three inodes.                                  *)
EXTENDS SnfsClient

CONSTANTS c1, c2, f, g, d

MCClients == {c1, c2}
MCNames == {f, g}
MCInodes == {2, 3, 4}
=============================================================================
