---------------------------- MODULE DiskUsage ----------------------------
(***************************************************************************)
(* fs_diskUsage of fs.c over the root directory and files of Namespace:   *)
(* gerar_lista_referencias walks the root, inserting one reference        *)
(* [blockId, pathname] per directory page and per file block into a list  *)
(* of list.c ordered by block (inserirOrdenado); fs_diskUsage then takes   *)
(* the references out from the front (listRemoveFst) and prints them.     *)
(*                                                                         *)
(* fs_diskUsage runs under the reader side of the gate and changes no     *)
(* state: it is an operator on the state, and the property says what it  *)
(* does from every reachable state.  A path is the entry's name; the      *)
(* root's own pages carry the path "/" (RootPath).                        *)
(***************************************************************************)
EXTENDS Namespace, LinkedList

CONSTANT RootPath   \* the path "/" of the root's own pages

\* gerar_lista_referencias_aux for an entry's inode i: a file in use
\* inserts one reference per block within its size; an inode not in use
\* has type 0 after fsi_inode_init(ifile, 0), is taken for a directory,
\* and its size 0 gives no pages.
FileRefs(s, l, i, path) ==
    IF i \notin s.inodes THEN l
    ELSE LET n == OFFSET_TO_BLOCKS(s.ino[i].size)
             F[k \in 0..n] ==
                 IF k = 0 THEN l
                 ELSE InserirOrdenado(F[k - 1], [blk |-> s.ino[i].blocks[k - 1], path |-> path],
                                      s.ino[i].blocks[k - 1])
         IN F[n]

\* The root's walk: page by page while entries remain, the page's own
\* block first (path "/"), then each entry of the page in order.
RECURSIVE RootRefs(_, _, _, _)
RootRefs(s, l, iblock, num) ==
    IF num <= 0 THEN l
    ELSE LET b == s.root.blocks[iblock]
             l1 == InserirOrdenado(l, [blk |-> b, path |-> RootPath], b)
             cnt == IF num < DIR_PAGE_ENTRIES THEN num ELSE DIR_PAGE_ENTRIES
             E[k \in 0..cnt] ==
                 IF k = 0 THEN l1
                 ELSE LET e == PageAt(s, b)[k - 1]
                      IN FileRefs(s, E[k - 1], e.inode, e.name)
         IN RootRefs(s, E[cnt], iblock + 1, num - cnt)

\* gerar_lista_referencias: a new list filled from the root (inode 1).
GerarListaReferencias(s) == RootRefs(s, NewList, 0, s.root.size)

\* fs_diskUsage's loop: listRemoveFst while listSize is not 0.  The
\* result is the sequence printed, or crashed when a removal follows NULL.
RECURSIVE Drain(_, _)
Drain(l, out) ==
    IF ListSize(l) = 0 THEN [crashed |-> FALSE, out |-> out]
    ELSE LET r == ListRemoveFst(l)
         IN IF ~r.ok THEN [crashed |-> TRUE, out |-> out]
            ELSE Drain(r.rest, Append(out, r.inf))

FsDiskUsage(s) == Drain(GerarListaReferencias(s), <<>>)

----------------------------------------------------------------------------

\* fs_diskUsage returns from every state the file system can reach: the
\* list gerar_lista_referencias builds holds as many nodes as its size
\* says, so the removal loop never follows a NULL first or next pointer.
\* inserirOrdenado loses a node (and keeps its count) when the new block
\* equals the list's first one, so this needs the walk never to insert a
\* block twice while it is the lowest so far.
DiskUsageCompletes == ~FsDiskUsage(NsState).crashed

=============================================================================
