------------------------------ MODULE MCDefrag ------------------------------
(* Instance of Defrag for TLC: blocks of 2 bytes, 2 pointers per inode,  *)
(* two file inodes, bytes 0 and 1.                                       *)
EXTENDS Defrag, TLC

\* Two data blocks: one file's two blocks can fill the disk.
MCDefragDisk == 10..11

MCDefragInodes == {2, 3}

\* op is read only in primed form, so it is left out of the fingerprint.
MCDefragView == <<bmap, ref, inodes, ino, mem, defrag_state>>
============================================================================
