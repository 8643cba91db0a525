----------------------------- MODULE Namespace -----------------------------
(***************************************************************************)
(* The root directory of fs.c composed with the file layer of module      *)
(* FileSystem: the name-addressed handlers fs_create, fs_remove, fs_copy  *)
(* and fs_append, whole, and fs_write (which takes an inode number).      *)
(*                                                                         *)
(* The root (inode 1) holds root.size entries, DIR_PAGE_ENTRIES to a      *)
(* page; entry p lives at index p % DIR_PAGE_ENTRIES of the page whose    *)
(* block is root.blocks[p \div DIR_PAGE_ENTRIES].  Directory pages are    *)
(* read and written on the block store directly (block_read/block_write), *)
(* so pages[b] is the directory view of block b next to FileSystem's mem. *)
(* A block changes role only after apagarBloco has zeroed it, which makes *)
(* both views zero.                                                       *)
(*                                                                         *)
(* fs_copy to a missing destination leaves the gate, calls fs_create and  *)
(* re-enters; it is three steps, CopyStart, CopyCreate and CopyResume,    *)
(* with the request in pend between them.                                 *)
(***************************************************************************)
EXTENDS FileSystem

CONSTANTS DIR_PAGE_ENTRIES,  \* entries per directory page (32 in fs.c)
          Names,             \* file names used by the requests
          NoName,            \* the empty name of a blank or zero entry
          NUM_TC             \* request handler threads (server.c, 5)

\* The root is one inode: its entries cannot outgrow its pointers, and
\* fs_remove's index of the last entry stays inside the page array.
ASSUME Cardinality(Names) <= DIR_PAGE_ENTRIES * INODE_NUM_BLKS
ASSUME Cardinality(Names) < 2 * DIR_PAGE_ENTRIES

VARIABLES root,   \* [size: entries, blocks: page pointers] of inode 1
          pages,  \* pages[b]: block b read as a directory page
          pend    \* fs_copy requests between leaving and re-entering the gate

nsVars == <<fsVars, root, pages, pend>>

\* inodeid_t is an unsigned short: fs_remove's `inodeid = -1` stores 65535.
BlankInode == 65535

PageIdx == 0..(DIR_PAGE_ENTRIES - 1)
Entry == [name : Names \cup {NoName}, inode : Inodes \cup {0, BlankInode}]
ZeroPage == [k \in PageIdx |-> [name |-> NoName, inode |-> 0]]

NsInit ==
    /\ Init
    /\ root = [size |-> 0, blocks |-> [k \in Idx |-> NoBlock]]
    /\ pages = [b \in DataBlocks |-> ZeroPage]
    /\ pend = {}

NsState == [bmap |-> bmap, ref |-> ref, inodes |-> inodes, ino |-> ino, mem |-> mem,
            root |-> root, pages |-> pages]

NsCommit(s) == Commit(s) /\ root' = s.root /\ pages' = s.pages

\* A page pointer outside the data blocks is 0: it reads the block
\* bitmap, which holds no name.
PageAt(s, b) == IF b \in DataBlocks THEN s.pages[b] ELSE ZeroPage
EntryAt(s, p) == PageAt(s, s.root.blocks[p \div DIR_PAGE_ENTRIES])[p % DIR_PAGE_ENTRIES]

\* fsi_dir_search: the first entry, in order, with name n.
Hits(s, n) == {p \in 0..(s.root.size - 1) : EntryAt(s, p).name = n}
Found(s, n) == Hits(s, n) # {}
Lookup(s, n) == EntryAt(s, CHOOSE p \in Hits(s, n) : \A q \in Hits(s, n) : p <= q).inode

\* apagarBloco for a directory block: block_write of a zero block.
ApagarBlocoDir(s, b) ==
    IF s.ref[b] > 1 THEN ApagarBloco(s, b)
    ELSE [ApagarBloco(s, b) EXCEPT !.pages[b] = ZeroPage]

Fail(kind) ==
    /\ op' = [kind |-> kind, ok |-> FALSE]
    /\ UNCHANGED <<bmap, ref, inodes, ino, mem, root, pages>>

\* fs_create(root, n), from the name check on: a new page when the last
\* one is full (its bit set, no reference counted), the entry written at
\* the end, then the lowest free inode taken as an empty file.
CreateEntry(s, n) ==
    LET num == s.root.size
        k == num \div DIR_PAGE_ENTRIES
        s1 == IF num % DIR_PAGE_ENTRIES = 0
                THEN [s EXCEPT !.bmap = @ \cup {FindFree(s)}, !.root.blocks[k] = FindFree(s)]
                ELSE s
        blk == s1.root.blocks[k]
        i == FreeInode(s)
    IN UseInode([s1 EXCEPT !.pages[blk][num % DIR_PAGE_ENTRIES] = [name |-> n, inode |-> i],
                           !.root.size = @ + 1], i)

CreateFails(s, n) ==
    \/ Found(s, n)
    \/ ~HasFreeInode(s)
    \/ s.root.size % DIR_PAGE_ENTRIES = 0 /\ ~HasFree(s)

CreateByName(n) ==
    IF CreateFails(NsState, n) THEN Fail("create")
    ELSE /\ NsCommit(CreateEntry(NsState, n))
         /\ op' = [kind |-> "create", f |-> FreeInode(NsState), ok |-> TRUE]

\* fs_remove, directory part, for a root of num >= 1 entries.  The entry
\* of the removed name is overwritten with the last entry only in a copy
\* of its page (ficheirosContidos) that is never written back.  What
\* reaches the disk is the last entry's removal: its page freed when it
\* was alone there, otherwise the entry blanked.  The last entry is looked
\* for at page num \div DIR_PAGE_ENTRIES, one past the last page when num
\* is a multiple of DIR_PAGE_ENTRIES; that pointer is 0 (past the root's
\* pointers, reserved[0], also 0), so the blank is written to block 0 and
\* overwritten by fsi_store_fsdata before the handler returns.
RemoveEntry(s) ==
    LET num == s.root.size
        u == num \div DIR_PAGE_ENTRIES
        last == IF u = 0 THEN num - 1 ELSE (num - 1) % (u * DIR_PAGE_ENTRIES)
        lb == IF u < INODE_NUM_BLKS THEN s.root.blocks[u] ELSE NoBlock
        s1 == IF num = 1
                THEN [ApagarBlocoDir(s, s.root.blocks[0]) EXCEPT !.root.blocks[0] = NoBlock]
              ELSE IF lb \notin DataBlocks THEN s
              ELSE IF last = 0
                THEN [ApagarBlocoDir(s, lb) EXCEPT !.root.blocks[u] = NoBlock]
              ELSE [s EXCEPT !.pages[lb][last] = [name |-> NoName, inode |-> BlankInode]]
    IN [s1 EXCEPT !.root.size = @ - 1]

\* fs_remove(root, n): look n up, release the file's blocks, remove the
\* entry, then reset and free the inode.  The inode is the entry's, in use
\* or not.
RemoveByName(n) ==
    LET s0 == NsState
        f == Lookup(s0, n)
        r == ReleaseBlocks(s0, f, 0, OFFSET_TO_BLOCKS(s0.ino[f].size))
    IN IF ~Found(s0, n) THEN Fail("remove")
       ELSE /\ NsCommit(IF r.ok THEN DropInode(RemoveEntry(r.s), f) ELSE r.s)
            /\ op' = [kind |-> "remove", f |-> f, ok |-> r.ok]

\* Requests naming one file twice are made only when SelfOps holds.
\* fs_copy(src, dst) with both names present: the source must be a file
\* in use, and so must the destination.
CopyByName(sn, dn) ==
    LET s0 == NsState
        src == Lookup(s0, sn)
        dst == Lookup(s0, dn)
    IN /\ SelfOps \/ sn # dn
       /\ Found(s0, sn) /\ Found(s0, dn)
       /\ IF src \in inodes /\ dst \in inodes
            THEN /\ NsCommit(CopyBlocks(s0, src, dst))
                 /\ op' = [kind |-> "copy", f |-> dst, src |-> src, ok |-> TRUE]
            ELSE Fail("copy")
       /\ UNCHANGED pend

\* fs_copy(src, dst) with dst missing: with the source checked, the
\* handler calls terminaEscrita and then fs_create.
CopyStart(sn, dn) ==
    LET src == Lookup(NsState, sn)
    IN /\ Found(NsState, sn) /\ ~Found(NsState, dn)
       /\ src \in inodes
       /\ [src |-> src, dst |-> dn, at |-> "create"] \notin pend
       /\ Cardinality(pend) < NUM_TC
       /\ pend' = pend \cup {[src |-> src, dst |-> dn, at |-> "create"]}
       /\ UNCHANGED <<fsVars, root, pages>>

\* fs_create run from fs_copy; on failure fs_copy returns.
CopyCreate(p) ==
    /\ p \in pend /\ p.at = "create"
    /\ IF CreateFails(NsState, p.dst)
         THEN /\ Fail("create")
              /\ pend' = pend \ {p}
         ELSE /\ NsCommit(CreateEntry(NsState, p.dst))
              /\ op' = [kind |-> "create", f |-> FreeInode(NsState), ok |-> TRUE]
              /\ pend' = (pend \ {p}) \cup {[p EXCEPT !.at = "copy"]}

\* fs_copy after iniciaEscrita again: dst is looked up anew; the source
\* inode is the one found before leaving the gate, not checked again.
CopyResume(p) ==
    LET s0 == NsState
        dst == Lookup(s0, p.dst)
    IN /\ p \in pend /\ p.at = "copy"
       /\ pend' = pend \ {p}
       /\ IF Found(s0, p.dst) /\ dst \in inodes
            THEN /\ NsCommit(CopyBlocks(s0, p.src, dst))
                 /\ op' = [kind |-> "copy", f |-> dst, src |-> p.src, ok |-> TRUE]
            ELSE Fail("copy")

\* fs_append(n1, n2): both names must be present and n1 a file in use;
\* n2's inode is not checked (the second check tests n1 again).
AppendByName(n1, n2) ==
    LET s0 == NsState
        f1 == Lookup(s0, n1)
        f2 == Lookup(s0, n2)
    IN /\ SelfOps \/ n1 # n2
       /\ IF Found(s0, n1) /\ Found(s0, n2) /\ f1 \in inodes /\ AppendFits(s0, f1, f2)
            THEN /\ NsCommit(AppendBlocks(s0, f1, f2))
                 /\ op' = [kind |-> "append", f |-> f1, src |-> f2, ok |-> TRUE]
            ELSE Fail("append")

NsNext ==
  /\ \/ \E n \in Names : CreateByName(n) /\ UNCHANGED pend
     \/ \E n \in Names : RemoveByName(n) /\ UNCHANGED pend
     \/ \E m, n \in Names : CopyByName(m, n) \/ CopyStart(m, n)
     \/ \E p \in pend : CopyCreate(p) \/ CopyResume(p)
     \/ \E m, n \in Names : AppendByName(m, n) /\ UNCHANGED pend
     \/ \E f \in Inodes : \E o \in Offsets(f), c \in Counts, v \in Bytes :
           FsWrite(f, o, c, v) /\ UNCHANGED <<root, pages, pend>>
  /\ RefBound

NsSpec == NsInit /\ [][NsNext]_nsVars

----------------------------------------------------------------------------

\* The entries within the root's size.
Listed == 0..(root.size - 1)

\* The bindings of names to inodes the root lists.
RootBinding == [n \in {EntryAt(NsState, p).name : p \in Listed} |-> Lookup(NsState, n)]

Dir == INSTANCE DirectorySpec WITH Files <- Inodes, binding <- RootBinding

\* The root behaves as a directory (spec.md 4.3): fs_create adds the name
\* it is given bound to a fresh file, fs_remove takes out exactly the name
\* it is given, and nothing else changes the bindings.
DirectoryRefinement == Dir!Spec

=============================================================================
