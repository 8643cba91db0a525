---------------------------- MODULE MCDiskUsage ----------------------------
(* Instance of DiskUsage for TLC: three names as model values, three     *)
(* file inodes, two data blocks, two pointers and two entries to a page.  *)
EXTENDS DiskUsage, TLC

CONSTANTS n1, n2, n3

MCDUNames == {n1, n2, n3}

MCDUDisk == 10..11

MCDUInodes == {2, 3, 4}

\* op is read by no action and by no property.
MCDUView == <<bmap, ref, inodes, ino, mem, root, pages, pend>>
=============================================================================
