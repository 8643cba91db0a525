---------------------------- MODULE DirectorySpec ----------------------------
(***************************************************************************)
(* What a directory of the SNFS file system promises its clients (spec.md *)
(* sections 4.3 and 7): it is a set of names, each bound to one file.     *)
(* fs_create adds a name that is not there, binding it to a file not      *)
(* named elsewhere; fs_remove takes out exactly the name it is given.     *)
(* Nothing else changes the bindings.                                     *)
(***************************************************************************)
CONSTANTS Names, Files

VARIABLE binding   \* binding[n]: the file name n denotes, for bound names

Bound == DOMAIN binding

Init == binding = [n \in {} |-> CHOOSE f \in Files : TRUE]

Add(n, f) ==
    /\ n \notin Bound
    /\ f \notin {binding[m] : m \in Bound}
    /\ binding' = [m \in Bound \cup {n} |-> IF m = n THEN f ELSE binding[m]]

Del(n) ==
    /\ n \in Bound
    /\ binding' = [m \in Bound \ {n} |-> binding[m]]

Next == \E n \in Names : Del(n) \/ \E f \in Files : Add(n, f)

Spec == Init /\ [][Next]_binding

=============================================================================
