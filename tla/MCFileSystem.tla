---------------------------- MODULE MCFileSystem ----------------------------
(* Instance of FileSystem for TLC: blocks of 2 bytes, 2 pointers per     *)
(* inode, two file inodes, bytes 0 and 1.                                *)
EXTENDS FileSystem, TLC

\* Four data blocks: as many as the two files can point to, so no
\* allocation fails while reference counts are exact.
MCDataBlocks == 10..13

\* Three data blocks: the disk can fill up.
MCSmallDisk == 10..12

MCTinyDisk == 10..11

MCInodes == {2, 3}

\* States that differ only in the history variable op have the same
\* successors (no action reads op), and every property reads op only in
\* its primed form, so op can be left out of the state fingerprint.
MCView == <<bmap, ref, inodes, ino, mem>>
============================================================================
