------------------------------- MODULE Defrag -------------------------------
(***************************************************************************)
(* fs_defrag and mexeBlocoPara of fs.c over the file data layer of        *)
(* FileSystem, with the status that reaches the caller of my_defrag        *)
(* through the handler snfs_defrag (snfs.c), the stub snfs_defrag          *)
(* (snfs_api.c) and my_defrag (myfs.c).                                    *)
(*                                                                         *)
(* fs_defrag reads defrag_state before it takes the writer side of the     *)
(* gate and sets it once inside, so the work is two steps: DefragStart     *)
(* (gate taken, defrag_state = 1) and DefragRun (the compaction and the    *)
(* release).  In between, every other request waits at the gate, and      *)
(* another fs_defrag sees defrag_state = 1 and returns at once.            *)
(*                                                                         *)
(* Data blocks move with their content as the file system sees it (mem):  *)
(* the model does not separate the disk copy that block_read returns from  *)
(* the cached one.  Block 9, the last block of the inode table, holds      *)
(* inodes beyond the model's; a move into it only loses the data.          *)
(***************************************************************************)
EXTENDS FileSystem

VARIABLE defrag_state   \* the static defrag_state of fs.c

vars == <<bmap, ref, inodes, ino, mem, op, defrag_state>>

\* The block mexeBlocoPara falls back to when its search finds no free
\* block: the loop `for (k = NUM_BLOCOS_MAX; k > 9; --k)` ends at 9.
InodeTableEnd == 9

\* The data blocks fs_defrag and mexeBlocoPara scan (10 up to
\* NUM_BLOCOS_MAX) are all of DataBlocks.  defrag_state starts at 0.
DefragInit == Init /\ defrag_state = 0

\* The inodes of I whose pointers include b (refinodes, tempRef).
Referrers(s, I, b) == {i \in I : \E w \in Idx : s.ino[i].blocks[w] = b}

\* For each inode of I, its first pointer equal to from becomes to (the
\* inner loop of the reference updates stops at the first match).
Redirect(s, I, from, to) ==
    LET At(i) == {w \in Idx : s.ino[i].blocks[w] = from}
        First(i) == CHOOSE w \in At(i) : \A v \in At(i) : w <= v
    IN [s EXCEPT !.ino = [i \in Inodes |->
          IF i \in I /\ At(i) # {} THEN [s.ino[i] EXCEPT !.blocks[First(i)] = to]
          ELSE s.ino[i]]]

\* block_read(from) then block_write(to) and BMAP_SET(to).  A write to
\* block 9 lands in the inode table, outside the data blocks.
MoveContent(s, from, to) ==
    IF to \in DataBlocks
      THEN [s EXCEPT !.mem[to] = s.mem[from], !.bmap = @ \cup {to}]
      ELSE s

\* The free block mexeBlocoPara searches for from the top, or block 9.
TopFree(s) ==
    IF DataBlocks \subseteq s.bmap THEN InodeTableEnd
    ELSE CHOOSE k \in DataBlocks \ s.bmap : \A j \in DataBlocks \ s.bmap : j <= k

\* mexeBlocoPara(bl, dest).  If dest is taken, its content and its
\* pointers go to the top free block first, and dest's cache entry is
\* invalidated.  Then bl's content goes to dest, the pointers to bl found
\* at the start are redirected, bl's entry invalidated and its bit
\* cleared.  The reference counts stay where they were.
MexeBlocoPara(s, bl, dest) ==
    LET refinodes == Referrers(s, Inodes, bl)
        k == TopFree(s)
        s1 == IF dest \notin s.bmap THEN s
              ELSE Redirect(MoveContent(s, dest, k), Referrers(s, Inodes, dest), dest, k)
        s2 == Redirect(MoveContent(s1, bl, dest), refinodes, bl, dest)
    IN [s2 EXCEPT !.bmap = @ \ {bl}]

\* The nested loop of fs_defrag from inode z, slot q, with the next
\* target block pos: a pointer equal to pos keeps it, a pointer above pos
\* is moved to it, a smaller one (0 included) is passed over.  Every
\* inode is visited, in use or not, and every slot, past the size too.
RECURSIVE Compact(_, _, _, _)
Compact(s, z, q, pos) ==
    IF \A i \in Inodes : z > i THEN s
    ELSE IF z \notin Inodes \/ q >= INODE_NUM_BLKS THEN Compact(s, z + 1, 0, pos)
    ELSE LET b == s.ino[z].blocks[q]
         IN IF b = pos THEN Compact(s, z, q + 1, pos + 1)
            ELSE IF b > pos THEN Compact(MexeBlocoPara(s, b, pos), z, q + 1, pos + 1)
            ELSE Compact(s, z, q + 1, pos)

\* The first loop of fs_defrag: it stops at the first data block whose
\* bit is SET, so it reports "no space" only when no data block is used.
HasUsedBlock(s) == s.bmap \cap DataBlocks # {}

\* Status codes of the reply (snfs_msg.h) and of the stub (snfs_api.h).
RES_OK == 0
RES_ERROR == -1
RES_UNKNOWN == -2
STAT_OK == 0
STAT_BUSY == 1
STAT_ERROR == -1

\* The handler snfs_defrag: stat = -1 sets RES_ERROR, but the if/else
\* that follows overwrites it, so only 0 is told apart.
SnfsDefragStatus(stat) == IF stat = 0 THEN RES_UNKNOWN ELSE RES_OK

\* The stub snfs_defrag: RES_ERROR is STAT_ERROR, RES_UNKNOWN is BUSY.
SnfsDefragCall(res) ==
    IF res = RES_ERROR THEN STAT_ERROR
    ELSE IF res = RES_UNKNOWN THEN STAT_BUSY ELSE STAT_OK

\* my_defrag: 1 done, 0 busy, -1 otherwise.
MyDefrag(stat) ==
    IF stat = STAT_OK THEN 1 ELSE IF stat = STAT_BUSY THEN 0 ELSE -1

\* What the caller of my_defrag gets for the value fs_defrag returned.
Returned(stat) == MyDefrag(SnfsDefragCall(SnfsDefragStatus(stat)))

\* fs_defrag finds defrag_state = 1 (another defrag holds the gate) and
\* returns 0 without waiting.
DefragBusy ==
    /\ defrag_state = 1
    /\ op' = [kind |-> "defrag", stat |-> 0, ret |-> Returned(0)]
    /\ UNCHANGED <<bmap, ref, inodes, ino, mem, defrag_state>>

\* fs_defrag finds defrag_state = 0, takes the writer side of the gate
\* (iniciaEscrita) and sets defrag_state.
DefragStart ==
    /\ defrag_state = 0
    /\ defrag_state' = 1
    /\ UNCHANGED <<bmap, ref, inodes, ino, mem, op>>

\* The rest of fs_defrag, up to terminaEscrita: -1 when no data block is
\* in use, otherwise compact from block 10 and return 1.
DefragRun ==
    /\ defrag_state = 1
    /\ defrag_state' = 0
    /\ IF ~HasUsedBlock(State)
         THEN /\ op' = [kind |-> "defrag", stat |-> -1, ret |-> Returned(-1)]
              /\ UNCHANGED <<bmap, ref, inodes, ino, mem>>
         ELSE /\ Commit(Compact(State, 1, 0, 10))
              /\ op' = [kind |-> "defrag", stat |-> 1, ret |-> Returned(1)]

\* A pointer into the inode table (left by a move to block 9) is outside
\* what the other operations of the model can follow; they are explored
\* only from states without one.
PointersInData == \A i \in Inodes, w \in Idx : ino[i].blocks[w] \in DataBlocks \cup {NoBlock}

\* While a defrag holds the gate no other request gets in.
DefragNext ==
    \/ /\ defrag_state = 0 /\ PointersInData
       /\ Next
       /\ UNCHANGED defrag_state
    \/ DefragStart
    \/ DefragRun
    \/ DefragBusy

DefragSpec == DefragInit /\ [][DefragNext]_vars

----------------------------------------------------------------------------

\* fs_defrag keeps every file's bytes (spec, section 8: "defrag preserves
\* every file's byte content across compaction"): a defrag step leaves
\* what fs_read returns for every file as it was.
DefragPreservesContent ==
    [][op'.kind = "defrag" => \A f \in Inodes : Content2(f) = Content(f)]_vars

============================================================================
