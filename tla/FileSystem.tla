----------------------------- MODULE FileSystem -----------------------------
(***************************************************************************)
(* The file data layer of fs.c: the block bitmap, the reference counts     *)
(* (fs->referencias), the file inodes with their direct block pointers,    *)
(* and the content of the data blocks.                                     *)
(*                                                                         *)
(* The operations are addressed by inode, as each fs_* handler is once    *)
(* fsi_dir_search has resolved its names: the inode half of fs_create and *)
(* fs_remove, fs_write with escreverBloco and copy_on_write, fs_copy to an *)
(* existing file, and fs_append.  Each runs under the writer side of the  *)
(* gate, so each is one atomic step.  Module Namespace adds the root      *)
(* directory and the name-addressed handlers built from the same helpers. *)
(*                                                                         *)
(* Data blocks are read and written through the block cache.  Module      *)
(* BlockCache checks (CacheCoherent) that each block reads through the     *)
(* cache as what was last written to it, so here mem[b] is that content.  *)
(*                                                                         *)
(* Sizes are in bytes with a small BLOCK_SIZE; a byte is a member of      *)
(* Bytes.  Operators on a state record s = [bmap, ref, ino, mem] let an   *)
(* operation be the composition of the helpers it calls.                  *)
(***************************************************************************)
EXTENDS Integers, FiniteSets, Sequences

CONSTANTS BLOCK_SIZE,      \* bytes per block (512 in fs.c)
          INODE_NUM_BLKS,  \* direct block pointers per inode (10)
          DataBlocks,      \* block numbers available to file data (>= 10)
          Inodes,          \* inode numbers available to files (>= 2)
          Bytes,           \* byte values; 0 is the zero byte
          MAX_REF,         \* bound on a reference count, for TLC
          SelfOps          \* whether copy/append of a file onto itself
                           \* are among the requests

ASSUME 0 \in Bytes /\ DataBlocks \subseteq Nat \ 0..9 /\ Inodes \subseteq Nat \ 0..1

NoBlock == 0   \* an unused block pointer

Idx == 0..(INODE_NUM_BLKS - 1)
MaxSize == INODE_NUM_BLKS * BLOCK_SIZE
BlockContent == [0..(BLOCK_SIZE - 1) -> Bytes]
ZeroBlock == [i \in 0..(BLOCK_SIZE - 1) |-> 0]

MIN(a, b) == IF a <= b THEN a ELSE b
MAX(a, b) == IF a >= b THEN a ELSE b

\* OFFSET_TO_BLOCKS: blocks needed to hold pos bytes.
OFFSET_TO_BLOCKS(pos) == pos \div BLOCK_SIZE + (IF pos % BLOCK_SIZE > 0 THEN 1 ELSE 0)

VARIABLES bmap,   \* data blocks whose bit is set in fs->blk_bmap
          ref,    \* ref[b]: fs->referencias[b]
          inodes, \* inode numbers whose bit is set in fs->inode_bmap
          ino,    \* ino[i]: [size, blocks] of inode i
          mem,    \* mem[b]: the content of data block b
          op      \* history: the last request and its outcome

fsVars == <<bmap, ref, inodes, ino, mem, op>>

EmptyInode == [size |-> 0, blocks |-> [k \in Idx |-> NoBlock]]

\* fs_format: all data blocks free and zero, no file inodes in use.
Init ==
    /\ bmap = {}
    /\ ref = [b \in DataBlocks |-> 0]
    /\ inodes = {}
    /\ ino = [i \in Inodes |-> EmptyInode]
    /\ mem = [b \in DataBlocks |-> ZeroBlock]
    /\ op = [kind |-> "none"]

State == [bmap |-> bmap, ref |-> ref, inodes |-> inodes, ino |-> ino, mem |-> mem]

Commit(s) ==
    /\ bmap' = s.bmap
    /\ ref' = s.ref
    /\ inodes' = s.inodes
    /\ ino' = s.ino
    /\ mem' = s.mem

\* fsi_bmap_find_free: the lowest clear bit, if any.
HasFree(s) == DataBlocks \ s.bmap # {}
FindFree(s) == CHOOSE b \in DataBlocks \ s.bmap : \A c \in DataBlocks \ s.bmap : b <= c

\* apagarBloco for a file block: drop one reference, or free the block
\* (eliminarBlocoCache zeroes it) when this was the only one.
ApagarBloco(s, b) ==
    IF s.ref[b] > 1
      THEN [s EXCEPT !.ref[b] = @ - 1]
      ELSE [s EXCEPT !.ref[b] = 0, !.mem[b] = ZeroBlock, !.bmap = @ \ {b}]

\* copy_on_write(b, f): if b is shared, give f a private copy of it.
\* Returns the new state and the new block, or -2 (no references) or -1
\* (only reference, no free block, or b not found in f's pointers).
CopyOnWrite(s, b, f) ==
    LET nRef == s.ref[b]
        bks == FindFree(s)
        at == {k \in Idx : s.ino[f].blocks[k] = b}
        k == CHOOSE x \in at : \A y \in at : x <= y
    IN CASE nRef = 0 -> [s |-> s, novo |-> -2]
         [] nRef = 1 -> [s |-> s, novo |-> -1]
         [] ~HasFree(s) -> [s |-> s, novo |-> -1]
         [] at = {} -> [s |-> [s EXCEPT !.bmap = @ \cup {bks}], novo |-> -1]
         [] OTHER ->
              [s |-> [s EXCEPT !.bmap = @ \cup {bks},
                               !.ino[f].blocks[k] = bks,
                               !.ref[bks] = @ + 1,
                               !.ref[b] = @ - 1,
                               !.mem[bks] = s.mem[b]],
               novo |-> bks]

\* escreverBloco: copy-on-write, then write the data to the block the
\* file now owns; when copy_on_write failed, to the original block.
EscreverBloco(s, b, f, dados) ==
    LET r == CopyOnWrite(s, b, f)
    IN IF r.novo >= 0 THEN [r.s EXCEPT !.mem[r.novo] = dados]
                      ELSE [r.s EXCEPT !.mem[b] = dados]

\* The pointer fs_write's loops use for block index i: blocks[i], or,
\* past the last pointer, the one set by the previous iteration
\* (`if (i < INODE_NUM_BLKS) blk = &ifile->blocks[i]`).
Slot(i) == MIN(i, INODE_NUM_BLKS - 1)

\* fs_write, loop over the blocks the file already has (fs.c:887-910):
\* read the block, overwrite the bytes of the range, write it back.
RECURSIVE WriteWithin(_, _, _, _, _, _, _, _)
WriteWithin(s, f, iblock, num, buf, start0, count, v) ==
    LET used == OFFSET_TO_BLOCKS(s.ino[f].size) IN
    IF num < count /\ iblock < used
      THEN LET blk == s.ino[f].blocks[Slot(iblock)]
               start == IF num = 0 THEN start0 ELSE 0
               n == MIN(BLOCK_SIZE - start, count - num)
               block == [i \in 0..(BLOCK_SIZE - 1) |->
                           IF start <= i /\ i < start + n THEN v ELSE s.mem[blk][i]]
           IN WriteWithin(EscreverBloco(s, blk, f, block), f, iblock + 1,
                          num + n, block, start0, count, v)
      ELSE [s |-> s, iblock |-> iblock, num |-> num, buf |-> buf]

\* fs_write, loop over the newly allocated blocks (fs.c:915-927): the
\* buffer is filled from its start; the bytes past count keep what the
\* buffer held before.
RECURSIVE WriteAllocated(_, _, _, _, _, _, _, _)
WriteAllocated(s, f, iblock, num, buf, last, count, v) ==
    IF num < count /\ iblock < last
      THEN LET n == MIN(BLOCK_SIZE, count - num)
               block == [i \in 0..(BLOCK_SIZE - 1) |-> IF i < n THEN v ELSE buf[i]]
           IN WriteAllocated(EscreverBloco(s, s.ino[f].blocks[Slot(iblock)], f, block),
                             f, iblock + 1, num + n, block, last, count, v)
      ELSE s

\* fs_write's reservation loop (fs.c:859-880): for each missing block,
\* take the lowest free one, set its bit, count a reference and store the
\* pointer.  When no block is free it stops: ok is FALSE and the blocks
\* reserved so far stay reserved.
RECURSIVE Reserve(_, _, _, _)
Reserve(s, f, i, last) ==
    IF i >= last THEN [s |-> s, ok |-> TRUE]
    ELSE IF ~HasFree(s) THEN [s |-> s, ok |-> FALSE]
    ELSE LET b == FindFree(s)
         IN Reserve([s EXCEPT !.bmap = @ \cup {b}, !.ref[b] = @ + 1,
                              !.ino[f].blocks[Slot(i)] = b], f, i + 1, last)

\* The contents the stack buffer can show to the allocated-blocks loop:
\* any, unless the loop over existing blocks ran first and filled it.
Garbages(f, off) ==
    IF off \div BLOCK_SIZE < OFFSET_TO_BLOCKS(ino[f].size) THEN {ZeroBlock}
    ELSE BlockContent

\* Mutant of FsWrite: no check that the new blocks fit in the inode.
FsWriteNoLimit(f, offset, count, v) ==
    \E garbage \in Garbages(f, MIN(offset, ino[f].size)) :
    LET off == MIN(offset, ino[f].size)
        used == OFFSET_TO_BLOCKS(ino[f].size)
        req == MAX(OFFSET_TO_BLOCKS(off + count), used) - used
        r == Reserve(State, f, used, used + req)
        w == WriteWithin(r.s, f, off \div BLOCK_SIZE, 0, garbage,
                         off % BLOCK_SIZE, count, v)
        s1 == WriteAllocated(w.s, f, w.iblock, w.num, w.buf, used + req, count, v)
    IN /\ f \in inodes
       /\ Commit(IF r.ok THEN [s1 EXCEPT !.ino[f].size = MAX(off + count, @)] ELSE r.s)
       /\ op' = [kind |-> "write", f |-> f, ok |-> r.ok,
                 offset |-> off, count |-> count, v |-> v]

\* fs_write(f, offset, count, v): write count bytes of value v.
\* garbage is the initial content of the stack buffer `block`, which the
\* allocated-blocks loop copies past count when no earlier block filled it.
FsWrite(f, offset, count, v) ==
    \E garbage \in Garbages(f, MIN(offset, ino[f].size)) :
    LET s0 == State
        off == MIN(offset, s0.ino[f].size)
        used == OFFSET_TO_BLOCKS(s0.ino[f].size)
        req == MAX(OFFSET_TO_BLOCKS(off + count), used) - used
        r == Reserve(s0, f, used, used + req)
        w == WriteWithin(r.s, f, off \div BLOCK_SIZE, 0, garbage,
                         off % BLOCK_SIZE, count, v)
        s1 == WriteAllocated(w.s, f, w.iblock, w.num, w.buf, used + req, count, v)
        done == [s1 EXCEPT !.ino[f].size = MAX(off + count, @)]
    IN /\ f \in inodes
       /\ IF req > 0 /\ req > INODE_NUM_BLKS - used
            THEN /\ op' = [kind |-> "write", f |-> f, ok |-> FALSE]
                 /\ UNCHANGED <<bmap, ref, inodes, ino, mem>>
          ELSE IF ~r.ok
            THEN /\ Commit(r.s)
                 /\ op' = [kind |-> "write", f |-> f, ok |-> FALSE]
          ELSE /\ Commit(done)
               /\ op' = [kind |-> "write", f |-> f, ok |-> TRUE,
                         offset |-> off, count |-> count, v |-> v]

\* fsi_bmap_find_free on the inode bitmap: the lowest free inode.
HasFreeInode(s) == Inodes \ s.inodes # {}
FreeInode(s) == CHOOSE x \in Inodes \ s.inodes : \A y \in Inodes \ s.inodes : x <= y

\* fs_create's last step: mark the inode used and initialise it.
UseInode(s, i) == [s EXCEPT !.inodes = @ \cup {i}, !.ino[i] = EmptyInode]

\* fs_create, inode part: take the lowest free inode as an empty file.
FsCreate ==
    /\ HasFreeInode(State)
    /\ Commit(UseInode(State, FreeInode(State)))
    /\ op' = [kind |-> "create", f |-> FreeInode(State), ok |-> TRUE]

\* fs_remove, loop over the file's blocks: release each (apagarBloco) and
\* clear its pointer; a pointer into the metadata blocks (< 10) stops the
\* loop with an error, after the blocks before it were released.
RECURSIVE ReleaseBlocks(_, _, _, _)
ReleaseBlocks(s, f, i, n) ==
    IF i >= n THEN [s |-> s, ok |-> TRUE]
    ELSE LET b == s.ino[f].blocks[i]
         IN IF b < 10 THEN [s |-> s, ok |-> FALSE]
            ELSE ReleaseBlocks([ApagarBloco(s, b) EXCEPT !.ino[f].blocks[i] = NoBlock],
                               f, i + 1, n)

\* fs_remove's last step: reset the inode and clear its bit.
DropInode(s, f) == [s EXCEPT !.ino[f] = EmptyInode, !.inodes = @ \ {f}]

\* fs_remove, file part.
FsRemove(f) ==
    LET r == ReleaseBlocks(State, f, 0, OFFSET_TO_BLOCKS(ino[f].size))
    IN /\ f \in inodes
       /\ Commit(IF r.ok THEN DropInode(r.s, f) ELSE r.s)
       /\ op' = [kind |-> "remove", f |-> f, ok |-> r.ok]

\* The loop of fs_copy releasing the destination's blocks (apagarBloco
\* each), leaving its pointers as they are.
ReleaseForCopy(s, dst) ==
    LET R[k \in 0..OFFSET_TO_BLOCKS(s.ino[dst].size)] ==
            IF k = 0 THEN s ELSE ApagarBloco(R[k - 1], s.ino[dst].blocks[k - 1])
    IN R[OFFSET_TO_BLOCKS(s.ino[dst].size)]

\* fs_copy once both inodes are known: release the destination's blocks,
\* then share the source's pointers, counting a reference for each, and
\* take the source's size.  Pointers are read after the release, so a
\* copy of a file onto itself re-references the blocks it just freed.
CopyBlocks(s, src, dst) ==
    LET num == OFFSET_TO_BLOCKS(s.ino[src].size)
        R[k \in 0..num] ==
            IF k = 0 THEN ReleaseForCopy(s, dst)
            ELSE LET b == R[k - 1].ino[src].blocks[k - 1]
                 IN [R[k - 1] EXCEPT !.ino[dst].blocks[k - 1] = b, !.ref[b] = @ + 1]
    IN [R[num] EXCEPT !.ino[dst].size = s.ino[src].size]

\* fs_copy onto an existing file.
FsCopy(src, dst) ==
    /\ src \in inodes /\ dst \in inodes
    /\ SelfOps \/ src # dst
    /\ Commit(CopyBlocks(State, src, dst))
    /\ op' = [kind |-> "copy", f |-> dst, src |-> src, ok |-> TRUE]

\* fs_append's fit check: f2's blocks must fit after f1's.
AppendFits(s, f1, f2) ==
    INODE_NUM_BLKS - OFFSET_TO_BLOCKS(s.ino[f1].size) >= OFFSET_TO_BLOCKS(s.ino[f2].size)

\* Mutant of AppendBlocks: the shared pointers are not counted.
AppendBlocksNoRef(s, f1, f2) ==
    LET num == OFFSET_TO_BLOCKS(s.ino[f1].size)
        num2 == OFFSET_TO_BLOCKS(s.ino[f2].size)
        R[a \in 0..num2] ==
            IF a = 0 THEN s
            ELSE [R[a - 1] EXCEPT !.ino[f1].blocks[num + a - 1] = s.ino[f2].blocks[a - 1]]
    IN [R[num2] EXCEPT !.ino[f1].size = @ + s.ino[f2].size]

\* fs_append once both inodes are known: f2's pointers go after
\* OFFSET_TO_BLOCKS(size1) of f1, each counted, and f1's size becomes
\* size1 + size2.
AppendBlocks(s, f1, f2) ==
    LET num == OFFSET_TO_BLOCKS(s.ino[f1].size)
        num2 == OFFSET_TO_BLOCKS(s.ino[f2].size)
        R[a \in 0..num2] ==
            IF a = 0 THEN s
            ELSE LET b == s.ino[f2].blocks[a - 1]
                 IN [R[a - 1] EXCEPT !.ino[f1].blocks[num + a - 1] = b, !.ref[b] = @ + 1]
    IN [R[num2] EXCEPT !.ino[f1].size = @ + s.ino[f2].size]

\* fs_append(f1, f2).  The second type check of fs_append tests f1 again,
\* so f2 is any inode a name resolves to, in use or not.
FsAppend(f1, f2) ==
    /\ f1 \in inodes
    /\ SelfOps \/ f1 # f2
    /\ IF AppendFits(State, f1, f2)
         THEN /\ Commit(AppendBlocks(State, f1, f2))
              /\ op' = [kind |-> "append", f |-> f1, src |-> f2, ok |-> TRUE]
         ELSE /\ op' = [kind |-> "append", f |-> f1, ok |-> FALSE]
              /\ UNCHANGED <<bmap, ref, inodes, ino, mem>>

\* Offsets past the end are clamped to the size by fs_write, so one
\* offset past it stands for all of them.
Offsets(f) == 0..MIN(ino[f].size + 1, MaxSize)
Counts == 1..MaxSize

\* fs_append overwrites pointers past the size without releasing them,
\* so repeated appends raise a reference count without bound (until the
\* signed char wraps).  Steps that would pass MAX_REF are not explored.
RefBound == \A b \in DataBlocks : ref'[b] <= MAX_REF

Next ==
  /\ \/ FsCreate
     \/ \E f \in Inodes : \E o \in Offsets(f), c \in Counts, v \in Bytes :
           FsWrite(f, o, c, v)
     \/ \E f \in Inodes : FsRemove(f)
     \/ \E f, g \in Inodes : FsCopy(f, g)
     \/ \E f, g \in Inodes : FsAppend(f, g)
  /\ RefBound

Spec == Init /\ [][Next]_fsVars

----------------------------------------------------------------------------

TypeOK ==
    /\ bmap \subseteq DataBlocks
    /\ ref \in [DataBlocks -> Nat]
    /\ inodes \subseteq Inodes
    /\ ino \in [Inodes -> [size : 0..MaxSize, blocks : [Idx -> DataBlocks \cup {NoBlock}]]]
    /\ mem \in [DataBlocks -> BlockContent]

\* The bytes of file f as fs_read returns them (Content2: after the step).
\* A pointer outside the data blocks (0, left by a short copy or append)
\* reads metadata, shown as MetaByte.
MetaByte == -1

\* fs_read(f, offset, count): nothing when offset is at or past the size,
\* else max = MIN(count, size - offset) bytes, the first from byte
\* offset % BLOCK_SIZE of block offset \div BLOCK_SIZE, block by block.
FsReadBytes(s, f, offset, count) ==
    IF offset >= s.ino[f].size THEN <<>>
    ELSE [j \in 1..MIN(count, s.ino[f].size - offset) |->
            LET pos == offset + j - 1
                b == s.ino[f].blocks[pos \div BLOCK_SIZE]
            IN IF b \in DataBlocks THEN s.mem[b][pos % BLOCK_SIZE] ELSE MetaByte]

\* A file's content is what fs_read of its whole size returns; an inode
\* not in use reads as nothing.
ContentOf(s, f) ==
    IF f \notin s.inodes THEN <<>> ELSE FsReadBytes(s, f, 0, s.ino[f].size)

Content(f) == ContentOf(State, f)
Content2(f) == ContentOf([inodes |-> inodes', ino |-> ino', mem |-> mem'], f)

\* The pointers of live files that are within their size, as pairs.
Pointers(b) ==
    {p \in inodes \X Idx : p[2] < OFFSET_TO_BLOCKS(ino[p[1]].size)
                          /\ ino[p[1]].blocks[p[2]] = b}

\* Reference counts never undercount: referencias[b] is at least the
\* number of pointers of live files to b, so apagarBloco never frees, and
\* copy_on_write never writes in place, a block another file still uses.
RefcountsCover == \A b \in DataBlocks : ref[b] >= Cardinality(Pointers(b))

============================================================================
