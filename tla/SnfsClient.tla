----------------------------- MODULE SnfsClient -----------------------------
(***************************************************************************)
(* The client library of snfs_lib (myfs.c, queue.c, snfs_api.c): several *)
(* client processes, each with its own open-file list, calling one SNFS   *)
(* server.                                                                 *)
(*                                                                         *)
(* Each client process keeps Open_files_list, a queue of file descriptors *)
(* [fileId, size, write_offset, read_offset], and the counter Open_files. *)
(* my_read and my_write are loops of snfs_read and snfs_write calls; one  *)
(* call is one step, so the other clients' calls interleave with them.    *)
(* The name-addressed calls (my_open, my_close, my_mkdir, my_remove,      *)
(* my_copy, my_append) are one step each: their lookups, creation and     *)
(* final call touch no client state in between.                          *)
(*                                                                         *)
(* The server is srv: the inodes in use, their type and size and the      *)
(* entries of each directory.  It answers one request at a time, as the  *)
(* handlers of snfs.c do under the file-system gate, and it keeps every   *)
(* name bound to its inode; how fs.c itself keeps (or fails to keep) its  *)
(* directories and blocks is the subject of modules Namespace and         *)
(* FileSystem.  Sizes count bytes in units of BLOCK_SIZE-sized blocks of *)
(* BLOCK bytes; directory sizes grow by DENTRY per entry, as fs.c's do by *)
(* sizeof(fs_dentry_t).                                                   *)
(***************************************************************************)
EXTENDS Integers, Sequences, FiniteSets, SequencesExt

CONSTANTS Clients,          \* client processes, each linked with myfs.c
          Inodes,           \* inode numbers above the root (ITAB_SIZE)
          Names,            \* file names
          DName,            \* the name of the one subdirectory of the root
          BLOCK,            \* bytes to a block (BLOCK_SIZE)
          INODE_NUM_BLKS,   \* direct blocks of an inode
          DENTRY,           \* bytes of a directory entry (sizeof(fs_dentry_t))
          MAX_DATA,         \* MAX_READ_DATA = MAX_WRITE_DATA
          MAX_OPEN_FILES,   \* myfs.c's bound on Open_files
          UINT,             \* 2^width of unsigned (2^32 in the build)
          MaxCount,         \* bound: numBytes of a my_read or my_write call
          MaxOffset         \* bound: a write_offset my_write may start from

ROOT == 1                   \* the root directory's inode
NoIno == 0                  \* the file handle of a failed lookup (res is zeroed)
DIR == "dir"
FILE == "file"

EntNames == Names \cup {DName}
AllInodes == {ROOT} \cup Inodes

\* The paths the clients use: /x for a name x of the root, and /d/n.
FilePaths == {<<n>> : n \in Names} \cup {<<DName, n>> : n \in Names}
Paths == FilePaths \cup {<<DName>>}

VARIABLES srv,     \* the server's inodes and directories
          fds,     \* fds[c]: Open_files_list of client c, first element first
          nopen,   \* nopen[c]: Open_files of client c
          call     \* call[c]: the my_read or my_write loop client c is in

vars == <<srv, fds, nopen, call>>

Fd == [fileId : Inodes \cup {ROOT, NoIno}, size : 0..UINT-1,
       write_offset : Nat, read_offset : Nat]
Idle == [op |-> "none", id |-> NoIno, num |-> 0, chunk |-> 0]

OFFSET_TO_BLOCKS(s) == (s + BLOCK - 1) \div BLOCK
MinOf(a, b) == IF a < b THEN a ELSE b
MaxOf(a, b) == IF a > b THEN a ELSE b

TypeOK ==
    /\ srv.used \subseteq Inodes
    /\ srv.kind \in [AllInodes -> {DIR, FILE}]
    /\ srv.sz \in [AllInodes -> Nat]
    /\ srv.ent \in [AllInodes -> [EntNames -> Inodes \cup {NoIno}]]
    /\ fds \in [Clients -> Seq(Fd)]
    /\ nopen \in [Clients -> 0..MAX_OPEN_FILES]
    /\ call \in [Clients -> [op : {"none", "read", "write"}, id : Inodes \cup {ROOT, NoIno},
                             num : 0..UINT-1, chunk : 0..MAX_DATA]]

EmptyDir == [e \in EntNames |-> NoIno]

\* fs_new: the root is an empty directory, no other inode is in use.
Init ==
    /\ srv = [used |-> {}, kind |-> [i \in AllInodes |-> DIR],
              sz |-> [i \in AllInodes |-> 0], ent |-> [i \in AllInodes |-> EmptyDir]]
    /\ fds = [c \in Clients |-> <<>>]
    /\ nopen = [c \in Clients |-> 0]
    /\ call = [c \in Clients |-> Idle]

-----------------------------------------------------------------------------
(* The server, one request at a time.                                      *)

IsDir(s, i) == i \in {ROOT} \cup s.used /\ s.kind[i] = DIR
IsFile(s, i) == i \in s.used /\ s.kind[i] = FILE

\* fs_lookup then fs_get_attrs: walk the path from the root; every
\* component but the last must be a directory.  NoIno when a step fails.
Resolve(s, p) ==
    IF Len(p) = 1 THEN s.ent[ROOT][p[1]]
    ELSE IF IsDir(s, s.ent[ROOT][p[1]]) THEN s.ent[s.ent[ROOT][p[1]]][p[2]]
    ELSE NoIno

\* snfs.c's snfs_lookup handler: RES_OK with the inode and its size when
\* fs_lookup finds the path; otherwise RES_ERROR in a zeroed reply.
LookupReply(s, p) ==
    IF Resolve(s, p) # NoIno
    THEN [ok |-> TRUE, file |-> Resolve(s, p), fsize |-> s.sz[Resolve(s, p)]]
    ELSE [ok |-> FALSE, file |-> NoIno, fsize |-> 0]

\* The handle a client passes for the directory of path p: the root for
\* /x, and for /d/n what snfs_lookup("/d") stores in dir, which it does
\* on failure too (the zeroed reply's file, 0).
DirOf(s, p) == IF Len(p) = 1 THEN ROOT ELSE LookupReply(s, <<p[1]>>).file

\* fs_create and fs_mkdir: the directory must be one, the name new and an
\* inode free; the lowest free inode (fsi_bmap_find_free) gets the name.
CanCreate(s, d, n) == IsDir(s, d) /\ s.ent[d][n] = NoIno /\ Inodes \ s.used # {}
NewIno(s) == CHOOSE i \in Inodes \ s.used : \A j \in Inodes \ s.used : i <= j
FsCreate(s, d, n, k) ==
    LET i == NewIno(s)
    IN [s EXCEPT !.used = @ \cup {i}, !.kind[i] = k, !.sz[i] = 0, !.ent[i] = EmptyDir,
                 !.sz[d] = @ + DENTRY, !.ent[d][n] = i]

\* fs_remove: a directory goes only when empty; its entry is erased and
\* its inode freed.
CanRemove(s, d, n) ==
    /\ IsDir(s, d) /\ s.ent[d][n] # NoIno
    /\ s.kind[s.ent[d][n]] = DIR => s.sz[s.ent[d][n]] = 0
FsRemove(s, d, n) ==
    [s EXCEPT !.used = @ \ {s.ent[d][n]}, !.sz[d] = @ - DENTRY, !.ent[d][n] = NoIno]

\* fs_read: the bytes from offset up to count or the end of the file.
ReadCount(s, i, off, cnt) == IF off >= s.sz[i] THEN 0 ELSE MinOf(cnt, s.sz[i] - off)

\* snfs.c's snfs_read handler: -1 for RES_ERROR (a count above
\* MAX_READ_DATA, an inode not in use or not a file), else nread.
SrvRead(s, i, off, cnt) ==
    IF cnt <= MAX_DATA /\ IsFile(s, i) THEN ReadCount(s, i, off, cnt) ELSE -1

\* fs_write: an offset past the end is moved to the end; the write fails
\* when the file would need more than INODE_NUM_BLKS blocks.
WriteOffset(s, i, off) == MinOf(off, s.sz[i])
CanWrite(s, i, off, cnt) ==
    IsFile(s, i) /\ OFFSET_TO_BLOCKS(WriteOffset(s, i, off) + cnt) <= INODE_NUM_BLKS
FsWrite(s, i, off, cnt) == [s EXCEPT !.sz[i] = MaxOf(WriteOffset(s, i, off) + cnt, @)]

\* fs_copy from file f to an existing file g: g's blocks are replaced by
\* f's, so g takes f's size.
FsCopy(s, f, g) == [s EXCEPT !.sz[g] = s.sz[f]]

\* fs_append(file1, file2): file1 must be a file, and file2's blocks fit
\* after file1's; the type test is made of file1 twice, so file2 may be a
\* directory.
CanAppend(s, f, g) ==
    IsFile(s, f)
    /\ OFFSET_TO_BLOCKS(s.sz[g]) <= INODE_NUM_BLKS - OFFSET_TO_BLOCKS(s.sz[f])
FsAppend(s, f, g) == [s EXCEPT !.sz[f] = @ + s.sz[g]]

-----------------------------------------------------------------------------
(* A client process.  A call that returns an error before changing        *)
(* anything (the library not initialised, a full table, an fd not found,  *)
(* a failed lookup) is a step that changes no variable, and is left out.  *)

Ready(c) == call[c].op = "none"

\* queue_node_get: the position of the first fd with this fileId, 0 when
\* there is none.
queue_node_get(c, id) == SelectInSeq(fds[c], LAMBDA x : x.fileId = id)

\* queue_enqueue: the fd goes last.
queue_enqueue(c, fd) == Append(fds[c], fd)

\* queue_node_remove: the first fd with this fileId leaves the list.
queue_node_remove(c, id) == RemoveAt(fds[c], queue_node_get(c, id))

NewFd(id, size) == [fileId |-> id, size |-> size, write_offset |-> 0, read_offset |-> 0]

\* my_open of an existing file (or directory): the size snfs_lookup
\* reports is cached in the new fd, which queue_enqueue puts last.
OpenExisting(c, p) ==
    LET f == LookupReply(srv, p).file
    IN /\ Ready(c) /\ nopen[c] < MAX_OPEN_FILES
       /\ LookupReply(srv, p).ok
       /\ fds' = [fds EXCEPT ![c] = queue_enqueue(c, NewFd(f, LookupReply(srv, p).fsize))]
       /\ nopen' = [nopen EXCEPT ![c] = @ + 1]
       /\ UNCHANGED <<srv, call>>

\* my_open(name, O_CREATE) of a missing file: snfs_lookup of the directory
\* part sets dir and fsize (for /x the directory part is /x itself, whose
\* lookup fails again and leaves fsize at 0); snfs_create makes the file in
\* dir, and the new fd caches fsize as the file's size.
OpenCreate(c, p) ==
    LET d == DirOf(srv, p)
        fsize == IF Len(p) = 2 /\ LookupReply(srv, <<p[1]>>).ok
                 THEN LookupReply(srv, <<p[1]>>).fsize ELSE 0
    IN /\ Ready(c) /\ nopen[c] < MAX_OPEN_FILES
       /\ ~LookupReply(srv, p).ok
       /\ CanCreate(srv, d, Last(p))
       /\ srv' = FsCreate(srv, d, Last(p), FILE)
       /\ fds' = [fds EXCEPT ![c] = queue_enqueue(c, NewFd(NewIno(srv), fsize))]
       /\ nopen' = [nopen EXCEPT ![c] = @ + 1]
       /\ UNCHANGED call

\* my_close: queue_node_remove takes out the first fd with the id.
Close(c, id) ==
    /\ Ready(c) /\ queue_node_get(c, id) > 0
    /\ fds' = [fds EXCEPT ![c] = queue_node_remove(c, id)]
    /\ nopen' = [nopen EXCEPT ![c] = @ - 1]
    /\ UNCHANGED <<srv, call>>

\* my_read, before the loop: at the cached end of file it returns 0;
\* otherwise numBytes is cut to size - read_offset, in unsigned arithmetic,
\* when the cached size is below read_offset + numBytes.
ReadStart(c, id, n) ==
    LET fd == fds[c][queue_node_get(c, id)]
        num == IF fd.size < (fd.read_offset + n) % UINT
               THEN (fd.size - fd.read_offset) % UINT ELSE n
    IN /\ Ready(c) /\ queue_node_get(c, id) > 0
       /\ fd.read_offset # fd.size
       /\ call' = [call EXCEPT ![c] = [op |-> "read", id |-> id, num |-> num,
                                       chunk |-> MinOf(num, MAX_DATA)]]
       /\ UNCHANGED <<srv, fds, nopen>>

\* One turn of my_read's `while(numBytes)`: snfs_read at read_offset of
\* at most rBytes; an error returns -1, otherwise read_offset and
\* numBytes move by nread.
ReadStep(c) ==
    LET k == queue_node_get(c, call[c].id)
        rb == MinOf(call[c].chunk, call[c].num)
        nread == SrvRead(srv, call[c].id, fds[c][k].read_offset, rb)
    IN /\ call[c].op = "read" /\ call[c].num # 0
       /\ IF nread # -1
          THEN /\ fds' = [fds EXCEPT ![c][k].read_offset = @ + nread]
               /\ call' = [call EXCEPT ![c].num = @ - nread, ![c].chunk = rb]
          ELSE /\ call' = [call EXCEPT ![c] = Idle]
               /\ UNCHANGED fds
       /\ UNCHANGED <<srv, nopen>>

\* my_write, before the loop: wBytes is numBytes cut to MAX_WRITE_DATA.
\* Calls start only below the bound MaxOffset.
WriteStart(c, id, n) ==
    /\ Ready(c) /\ queue_node_get(c, id) > 0
    /\ fds[c][queue_node_get(c, id)].write_offset + n <= MaxOffset
    /\ call' = [call EXCEPT ![c] = [op |-> "write", id |-> id, num |-> n,
                                    chunk |-> MinOf(n, MAX_DATA)]]
    /\ UNCHANGED <<srv, fds, nopen>>

\* One turn of my_write's loop: snfs_write at write_offset; on success
\* the fd takes the size the server reports and write_offset moves by
\* wBytes, whatever offset the server wrote at.
WriteStep(c) ==
    LET k == queue_node_get(c, call[c].id)
        wb == MinOf(call[c].chunk, call[c].num)
        off == fds[c][k].write_offset
        s1 == FsWrite(srv, call[c].id, off, wb)
    IN /\ call[c].op = "write" /\ call[c].num # 0
       /\ IF CanWrite(srv, call[c].id, off, wb)
          THEN /\ srv' = s1
               /\ fds' = [fds EXCEPT ![c][k].size = s1.sz[call[c].id],
                                     ![c][k].write_offset = @ + wb]
               /\ call' = [call EXCEPT ![c].num = @ - wb, ![c].chunk = wb]
          ELSE /\ call' = [call EXCEPT ![c] = Idle]
               /\ UNCHANGED <<srv, fds>>
       /\ UNCHANGED nopen

\* The loop of my_read or my_write ends when numBytes is 0.
CallEnd(c) ==
    /\ call[c].op # "none" /\ call[c].num = 0
    /\ call' = [call EXCEPT ![c] = Idle]
    /\ UNCHANGED <<srv, fds, nopen>>

\* my_mkdir("/d"): the name must not resolve; snfs_mkdir makes it in the
\* root.
Mkdir(c) ==
    /\ Ready(c)
    /\ ~LookupReply(srv, <<DName>>).ok
    /\ CanCreate(srv, ROOT, DName)
    /\ srv' = FsCreate(srv, ROOT, DName, DIR)
    /\ UNCHANGED <<fds, nopen, call>>

\* my_remove: the path must resolve, and so its directory; snfs_remove
\* erases the name.  Fds of other clients (or of this one) that name the
\* freed inode stay in their lists.
RemovePath(c, p) ==
    /\ Ready(c)
    /\ LookupReply(srv, p).ok
    /\ CanRemove(srv, DirOf(srv, p), Last(p))
    /\ srv' = FsRemove(srv, DirOf(srv, p), Last(p))
    /\ UNCHANGED <<fds, nopen, call>>

\* my_copy(src, dst): src and the directories must resolve; a missing dst
\* is made by snfs_create first (my_copy returns 0 when that fails), then
\* snfs_copy replaces dst's contents by src's.  When snfs_copy fails (dst
\* is a directory, src is not a file) the file snfs_create made stays.
CopyThen(s1, f, g) ==
    srv' = IF IsFile(s1, f) /\ IsFile(s1, g) THEN FsCopy(s1, f, g) ELSE s1
CopyPath(c, src, dst) ==
    LET f == LookupReply(srv, src).file
        dd == DirOf(srv, dst)
    IN /\ Ready(c)
       /\ f # NoIno /\ dd # NoIno
       /\ IF LookupReply(srv, dst).ok
          THEN CopyThen(srv, f, LookupReply(srv, dst).file)
          ELSE /\ CanCreate(srv, dd, Last(dst))
               /\ CopyThen(FsCreate(srv, dd, Last(dst), FILE), f, NewIno(srv))
       /\ UNCHANGED <<fds, nopen, call>>

\* my_append(name1, name2): both must resolve; snfs_append adds name2's
\* blocks to name1.
AppendPath(c, p1, p2) ==
    LET f == LookupReply(srv, p1).file
        g == LookupReply(srv, p2).file
    IN /\ Ready(c)
       /\ f # NoIno /\ g # NoIno
       /\ CanAppend(srv, f, g)
       /\ srv' = FsAppend(srv, f, g)
       /\ UNCHANGED <<fds, nopen, call>>

Next ==
    \E c \in Clients :
        \/ \E p \in Paths : OpenExisting(c, p)
        \/ \E p \in FilePaths : OpenCreate(c, p)
        \/ \E id \in Inodes \cup {ROOT} : Close(c, id)
        \/ \E id \in Inodes \cup {ROOT}, n \in 1..MaxCount : ReadStart(c, id, n)
        \/ ReadStep(c)
        \/ \E id \in Inodes \cup {ROOT}, n \in 1..MaxCount : WriteStart(c, id, n)
        \/ WriteStep(c)
        \/ CallEnd(c)
        \/ Mkdir(c)
        \/ \E p \in Paths : RemovePath(c, p)
        \/ \E src, dst \in FilePaths : CopyPath(c, src, dst)
        \/ \E p1, p2 \in Paths : AppendPath(c, p1, p2)

\* A client process keeps running its loop: each turn of my_read's and
\* my_write's loop, and their return, is taken once it is enabled.
Fairness ==
    \A c \in Clients : WF_vars(ReadStep(c)) /\ WF_vars(WriteStep(c)) /\ WF_vars(CallEnd(c))

Spec == Init /\ [][Next]_vars /\ Fairness

-----------------------------------------------------------------------------
(* Properties.                                                             *)

\* myfs.h: my_read returns the number of bytes read, 0 at end of file or
\* -1 on error; every call of my_read returns.
ReadReturns == \A c \in Clients : call[c].op = "read" ~> call[c].op = "none"
=============================================================================
