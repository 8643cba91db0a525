---------------------------- MODULE MCNamespace ----------------------------
(* Instances of Namespace for TLC, with names as model values.            *)
(* Namespace_DirectoryRefinement: one-byte blocks, two pointers and two   *)
(* entries to a page, two names; the shortest instance in which the      *)
(* removal bug shows.                                                     *)
EXTENDS Namespace, TLC

CONSTANTS n1, n2

MCTwoNames == {n1, n2}

\* Three blocks: a directory page and the rest for file data.
MCSmall == 10..12

\* One file inode per name.
MCInodes2 == {2, 3}

\* No action reads op, and the entries of the root are read only within
\* its size (fsi_dir_search, fs_create and fs_remove look at entries
\* 0 .. size-1 and overwrite the one at size before counting it): the
\* state modulo op and the entries past the size behaves the same.
MCView == <<bmap, ref, inodes, ino, mem, root.size, root.blocks,
            [p \in Listed |-> EntryAt(NsState, p)], pend>>
=============================================================================
