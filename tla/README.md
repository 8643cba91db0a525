# TLA+ models of the SNFS server and the sthread library

This directory holds TLA+ models of the SNFS file server. The server is in
`src/snfs_server`, the user-level thread library in `src/sthread_lib`, and the
client library in `src/snfs_lib`. Each module is translated from the C source
and model-checked with TLC. `PROJECT.json` records four things:

- the components;
- every run with the properties it checks;
- a mutant for each passing property;
- the source lines each definition models.

It also lists the findings and the hazards of the code.

## The system and how its parts interact

- **sthread library** (`sthread_user.c`). User-level threads on one OS thread.
  - A SIGALRM time slicer preempts the running thread between any two
    statements.
  - A red-black tree of runnable threads is ordered by vruntime
    (`redblack.c`). Sleeping threads are kept in a second tree of the same kind,
    keyed by wake time. Blocked joiners, zombies and dead threads are kept in
    lists. A new thread starts with the least
    vruntime of the runnable tree (`RBMenorChave`).
  - Mutexes have a FIFO queue, and unlock hands ownership to the first waiter.
  - Monitors are a mutex plus a FIFO wait queue, with Mesa semantics.
  - Unlock, wait, signal and signalall called by a thread that does not own
    the mutex return without doing anything.
- **Server** (`server.c`, `snfs.c`).
  - A producer thread receives datagrams (`AF_UNIX`) into a ring of
    `RING_SIZE` = 10 slots. The ring, the static positions of `get_req` and
    `put_req`, and `available_reqs` are shared under one sthread monitor
    `mon`. The producer waits while the ring is full and signals all
    waiters after each put.
  - `NUM_TC` = 5 consumer threads wait while the ring is empty, take a
    request, signal one waiter, and call the handler outside the monitor.
  - The handler calls one `fs_*` function.
- **Reader/writer gate** (`fs.c`: `iniciaLeitura`, `terminaLeitura`,
  `iniciaEscrita`, `terminaEscrita`). Every `fs_*` operation passes through
  it: reads as a reader, modifications as a writer.
  - It uses the counters `leitores`, `escritores`, `wanna_leitor`,
    `wanna_escritor` and `turno`.
  - It uses two monitors, `monLeitores` and `monEscritores`.
- **File system** (`fs.c`).
  - Data structures: a block bitmap, an inode table of 64 inodes with 10 block
    pointers each, and directory pages of 32 entries.
  - `referencias[b]` counts the inodes sharing block `b`.
  - `fs_copy` and `fs_append` share blocks; `copy_on_write` gives a writer a
    private copy.
  - `fs_defrag` moves blocks to the front of the disk, under the writer side
    of the gate.
  - `fs_diskUsage` walks the root under the reader side of the gate,
    puts one `[block, path]` reference per directory page and per file
    block into a list ordered by block (`list.c`, `inserirOrdenado`), and
    prints the list by taking from its front.
  - Only file data blocks go through the cache; directory pages and metadata
    are read and written on the block store directly.
- **Block cache** (`cache.c`, `hash.c`).
  - A hash table from block number to an entry with bits V, R and M, an age
    and a copy of the block. The table has `DIM_CACHE` = 8 entries.
  - Writes are delayed: a dirty entry reaches the disk only when it leaves the
    cache.
  - An entry leaves the cache in two ways:
    - when the cache is full, `libertarEspaco` evicts by NRU group;
    - every 2 s, a cache thread started by `fs_new` runs `actualizarCache`,
      which evicts entries 10 s old.
  - Every cache operation runs under the cache mutex.
- **Block store** (`block.c`). An array of 512-byte blocks in memory.
- **Client library** (`snfs_lib`). Each client process links `myfs.c`,
  which keeps `Open_files_list`, a queue (`queue.c`) of file descriptors
  `[fileId, size, write_offset, read_offset]`, and calls the server through
  the RPC stubs of `snfs_api.c`, one request and one reply per call.
  - `my_open` looks the path up; for a new file it looks up the directory
    part and calls `snfs_create`. The fd caches the size the lookup gave.
  - `my_read` and `my_write` loop over chunks of `MAX_READ_DATA` and
    `MAX_WRITE_DATA` bytes, one RPC per chunk, and trust the cached size.
  - The name-addressed calls (`my_mkdir`, `my_remove`, `my_copy`,
    `my_append`) look up the directory part and forward one request.

## Modules

| Module | Models | State | Actions |
|---|---|---|---|
| `SThreadSync` | `sthread_user.c`: mutex and monitor | `owner`, `mq` (mutex queues) and `wq` (wait queues) per monitor | each primitive, as the primed effect on that state, used by the modules that call it |
| `RWGate` | `fs.c:293-333`, the gate, run by request threads | a program counter per thread; the gate counters; the monitor state | one action per statement of the four gate functions: `ReaderLoad`/`ReaderStore` (the split `wanna_leitor++`), `ReaderEnter`, `ReaderCheck` (the `while` test and the wait), `ReaderAdmit`, `ReaderDec`, `ReaderSignal`, `ReaderExit`, and the same for writers |
| `MCRWGate` | TLC instance of `RWGate` | 3 threads as model values, symmetric | |
| `BlockCache` | `cache.c` with `hash.c` and `block.c` | `disk`; `cache[b]` (entry or `NoEntry`); `nos` (`numeroNosUtilizados`); `evicted` (victims of the last `libertarEspaco`); `latest`, `since` (history variables) | `LerCache`, `EscreverCache`, `InvalidarBloco`, `EliminarBlocoCache`, `ActualizarCache` |
| `MCBlockCache` | TLC instance of `BlockCache` | 3 blocks, 2 contents | |
| `FileSystem` | `fs.c`: the file data layer | `bmap` (`blk_bmap`), `ref` (`referencias`), `inodes` (`inode_bmap`), `ino` (size and block pointers per inode), `mem` (block contents), `op` (history: the last request) | `FsCreate`, `FsWrite`, `FsRemove`, `FsCopy`, `FsAppend` |
| `MCFileSystem` | TLC instance of `FileSystem` | 2 files, blocks of 2 bytes, 2 pointers per inode, 2 or 3 data blocks | |
| `Defrag` | `fs.c:1675-1814`: `fs_defrag` and `mexeBlocoPara` over `FileSystem`; the status chain of `snfs_defrag` (`snfs.c`), the stub (`snfs_api.c`) and `my_defrag` (`myfs.c`) | `FileSystem`'s variables; `defrag_state` | `DefragBusy` (the test outside the gate), `DefragStart` (gate taken, flag set), `DefragRun` (the free-space test, the compaction loop `Compact` calling `MexeBlocoPara`, the release); every `FileSystem` operation while no defrag holds the gate |
| `MCDefrag` | TLC instance of `Defrag` | 2 files, 2 data blocks | |
| `DirectorySpec` | what a directory promises (spec.md 4.3): names bound to files | `binding`, a function from the bound names to files | `Add(n, f)`, `Del(n)` |
| `Namespace` | `fs.c`: the root directory (`fsi_dir_search`, the directory parts of `fs_create` and `fs_remove`) composed with `FileSystem`, and `fs_copy`/`fs_append` by name | `FileSystem`'s variables; `root` (size in entries, page pointers of inode 1); `pages[b]` (block `b` read as a page of entries); `pend` (copies between leaving and re-entering the gate) | `CreateByName`, `RemoveByName`, `CopyByName`, `CopyStart`, `CopyCreate`, `CopyResume`, `AppendByName`, and `FsWrite` |
| `MCNamespace` | TLC instance of `Namespace` | 2 names as model values | |
| `LinkedList` | `list.c`: `newList`, `listSize`, `inserirOrdenado`, `listRemoveFst` | a list is `[nodes, size]`: the nodes reached from `first`, and the hand-kept counter `size` | operators, no variables |
| `DiskUsage` | `fs.c:358-421, 1872-1910`: `gerar_lista_referencias(_aux)` and `fs_diskUsage` over `Namespace` | `Namespace`'s | operators on the state: `FileRefs`, `RootRefs`, `GerarListaReferencias`, `Drain`, `FsDiskUsage` |
| `MCDiskUsage` | TLC instance of `DiskUsage` | 3 names as model values, 3 file inodes, 2 data blocks | |
| `OrderedQueue` | what `redblack.h` promises the scheduler: a queue ordered by key, equal keys in arrival order | `q`, a sequence of `[id, key]` | `Insert(e, k)`, `ExtractMin`, `Delete(e)` |
| `RedBlack` | `redblack.c`: the tree with its sentinels `nil` and `raiz` and the cached `minimo` | `node[x]` (`cor`, `chave`, `esq`, `dir`, `pai` of every node, sentinels included); `minimo`; `used` (the allocated nodes) | `Inserir(k)` (`RBInserirNo`), `ExtraiMinimo` (`RBExtraiMininimo`), `Remover(z)` (`RBRemoverNo`) |
| `MCRedBlack` | TLC instance of `RedBlack` | 7 nodes as model values besides the sentinels, symmetric | |
| `SThreadSched` | `sthread_user.c`: the scheduler, with the run tree as a named instance `Exe` of `RedBlack` | `active` (`active_thr`); `exeNode`, `exeMin`, `exeUsed` (`exe_thr_arvore_rb`, one node per thread); `vruntime`, `priority`, `nice`, `times_runned`, `wake_time`, `join_tid` per thread; `sleepq` (the sleep tree, in key order); `joinq`, `zombie`, `dead` (the three lists); `inDisp` (threads switched out inside the dispatcher); `creating` (a create between its read and its insertion); `tid_gen`, `Clock`; `proc` (running, exited or crashed) | `CreateRead`, `CreateInsert` (`sthread_user_create`), `Exit`, `Tick` (the dispatcher with `acordarProcessos`), `Yield`, `JoinZombie`, `JoinBlock` (`sthread_user_join`), `Sleep`, `Nice` |
| `MCSThreadSched` | TLC instance of `SThreadSched` | tids 1 to `MaxThreads` | |
| `ServerRing` | `server.c`: `thread_producer`, `thread_consumer`, `get_req`, `put_req`, `main`'s start-up, over `SThreadSync` | `pc` and `req_d` per thread; `ring`, `getPos`, `putPos`, `available_reqs`; `recvd` (datagrams taken from the socket); the history variables `accepted`, `taken` and `answered` | `ConsumerEnter`, `ConsumerCheck` (the `while` and its wait), `ConsumerGet` (`get_req`, the decrement, the signal), `ConsumerExit`, `ConsumerServe`; `ProducerEnter`, `ProducerCheck`, `ProducerExit`, `ProducerRecv`, `ProducerEnterPut`, `ProducerPut` (`put_req`, the increment, the signalall), `ProducerExitPut`; `Polling` |
| `MCServerRing` | TLC instance of `ServerRing` | the producer and 3 consumers as model values | |
| `SnfsClient` | `myfs.c`, `queue.c` and the lookup stub of `snfs_api.c`, over a server that answers one request at a time (`snfs.c` handlers, the size rules of `fs.c`) | `fds[c]` (`Open_files_list`), `nopen[c]` (`Open_files`), `call[c]` (the `my_read` or `my_write` loop in progress: fileId, `numBytes`, chunk); `srv` (inodes in use, type, size, directory entries) | `OpenExisting`, `OpenCreate` (`my_open`), `Close`, `ReadStart`/`ReadStep`, `WriteStart`/`WriteStep`, `CallEnd`, `Mkdir`, `RemovePath`, `CopyPath`, `AppendPath` |
| `MCSnfsClient` | TLC instance of `SnfsClient` | 2 clients, names `f` and `g`, subdirectory `d`, 3 inodes | |

Details of `RWGate`:
- `StartRequest` is a consumer thread taking a request that enters as a reader
  or as a writer.
- `ReaderRead` and `WriterWrite` stand for the body of the operation.
- Because a time slice can fall anywhere, every statement is its own step.
- `turno` is not initialised by `fs_new`, so `Init` lets it take either value.

Details of `BlockCache`:
- `Step`-level helpers are functions on a state record. `RetirarDaCache`,
  `NovaEntradaCache`, `CarregarBlocoParaCache` and `LibertarEspaco` compose
  exactly as the C functions call each other inside one critical section.
- `latest[b]` is a history variable: the content the file system last gave
  block `b`.
- `since[b]` is a history variable: the aging passes `b`'s entry has stayed
  cached since it was inserted. Comparing it with the bound
  `TEMPO_MAX / INTERVALO_TEMPO_CACHE` states the write-back deadline as an
  invariant. An earlier liveness run (`<>` written back) said less: it could
  not tell a late write-back from a timely one.
- `entradas_removidas` in `libertarEspaco` is read uninitialised
  (`cache.c:266`). Its initial value is chosen from `Garbage` = {0, 1}, which
  gives both outcomes the build can produce: return after the invalid entries,
  or go on to the NRU groups.

Details of `FileSystem`:
- Each call runs between `iniciaEscrita` and `terminaEscrita`, so writers are
  serialised and each call is one atomic step.
- The helpers work on a state record `[bmap, ref, inodes, ino, mem]`.
  `FsWrite` is their composition in the code's order:
  1. the reservation loop `Reserve`;
  2. the loop over existing blocks `WriteWithin`;
  3. the loop over new blocks `WriteAllocated`.

  Each block write goes through `EscreverBloco` and `CopyOnWrite`.
- `fs_copy` to a missing destination calls `fs_create` outside the gate.
  That is an `FsCreate` step followed by an `FsCopy` step.
- The stack buffer `block` of `fs_write` is uninitialised. When the loop over
  new blocks runs first, the bytes past `count` are any content (`Garbages`).
- Past the last pointer, the loops keep the previous pointer (`Slot`), as the
  code's `if (i < INODE_NUM_BLKS)` does.
- Data blocks go through the block cache, and `cache_safety` shows every block
  reads as what was last written to it. `mem[b]` is therefore that content.
- `RefBound` stops steps that would take a count past `MAX_REF` (3).
  `fs_append`'s leak lets counts grow without limit, and this keeps the state
  space finite.
- `Content(f)`, which the content properties compare, is `FsReadBytes`, the
  translation of `fs_read`, applied to the whole file.
- The pass run uses a `VIEW` without `op`. No action reads `op`, and the
  properties read only `op'`, so merging states that differ only in `op`
  loses no behaviour.

Details of `Defrag`:
- `fs_defrag` reads `defrag_state` before `iniciaEscrita` and sets it after,
  so a defrag is two steps. While one holds the gate, no other operation
  runs (`DefragNext`), and another `fs_defrag` returns 0 (`DefragBusy`).
- `Compact` is the nested loop: every inode from 1 up, in use or not, and
  every slot, past the size too. `MexeBlocoPara` is the composition of
  `Referrers` (the `refinodes` and `tempRef` loops), `TopFree` (the search
  from the top, ending at block 9 on a full range), `MoveContent`
  (`block_read`, `block_write`, `BMAP_SET`) and `Redirect` (the first
  pointer of each inode found, then `break`). The reference counts are not
  touched, as in the code.
- A move carries `mem`, the content as the file system sees it. The disk
  copy that `block_read` really returns can be older than a dirty cache
  entry; that needs `Defrag` composed with `BlockCache`.
- Block 9 holds inodes 56 to 63, outside the model. A pointer to it reads
  as `MetaByte`. Other operations are explored only from states without
  such a pointer (`PointersInData`), since the code then reads the inode
  table as data.
- `Returned(stat)` is what `my_defrag` returns for `fs_defrag`'s `stat`. The
  handler's `if (stat==0) ... else RES_OK` overwrites the `RES_ERROR` of
  `stat == -1`, so `Returned(-1) = 1`. `my_defrag`'s comment promises -1.

Details of `Namespace`:
- Directory pages are read and written on the block store directly, so
  `pages` is a second view of the blocks beside `mem`. A block changes role
  only after `apagarBloco` has zeroed it, which zeroes both views.
- `Lookup` is `fsi_dir_search`: the first entry, in order, with the name,
  among the first `root.size` entries.
- `RemoveEntry` follows `fs_remove` (`fs.c:1290-1370`). The removed entry is
  overwritten with the last one only in the local buffer
  `ficheirosContidos`, which is never written back. What reaches the disk is
  the removal of the last entry: its page is freed when it was alone on it,
  otherwise it is blanked (`inodeid = -1`, stored as 65535 in the unsigned
  `inodeid_t`). When the entry count is a multiple of `DIR_PAGE_ENTRIES` the
  last page index is one too far; the pointer there is 0, and the blank goes
  to block 0, which `fsi_store_fsdata` overwrites before returning.
- `fs_copy` to a missing destination calls `terminaEscrita`, `fs_create` and
  `iniciaEscrita` (`fs.c:1487-1493`). This is three steps: `CopyStart` records
  the request in `pend`, `CopyCreate` is the `fs_create`, and `CopyResume`
  looks the destination up again and copies from the source inode found
  before leaving the gate. Any other request may run in between. At most
  `NUM_TC` copies are pending, one per request thread.
- `fs_append`'s second type test checks the first file again (`fs.c:1633`),
  so the second name's inode is used whether or not it is in use.
- `SelfOps = FALSE` keeps out requests that name one file twice; the
  self-copy is explored in `fs_safety` on `FileSystem`. Distinct names can
  still reach one inode through the `fs_remove` bug.
- The `VIEW` leaves out `op` and the entries past the root's size. No action
  reads them: entries are read only below the size, and the entry at the size
  is written before it is counted.

Details of `RedBlack`:
- Pointers are node identifiers; `NIL` and `RAIZ` are the two sentinels,
  with key -1 as `RBNovaArvore` gives them, and the real root is
  `node[RAIZ].esq`. `NULL` is the `minimo` of a new tree.
- `RBInserirNo` and `RBRemoverNo` are operators from the node function and
  `minimo` to their new values, and each action applies one of them whole:
  the descent (`InserirNoAux`), the fixup loop (`ArranjoInsercao`, RECURSIVE
  over the path to the root), the rotations, the successor search and the
  removal repair (`Reparar`), and the update of the cached `minimo`. The
  scheduler runs every tree call with the time slicer off, so each call is
  one step.
- Within an operator, a run of C statements is one sequential `EXCEPT`,
  with each read taken from the tree as the code sees it at that statement.
  Where the code calls a rotation or continues a loop, the tree so far is
  passed to the next operator (`ArranjoRodar`, `InserirFim`, `RepararIrmao`,
  `RepararRodar`, `RemoverSplice`, `RemoverFim`). Each of these is a tail of
  the C function named in the map. The left and right cases of the two
  fixup loops share an operator, with a flag for the side.
- `RBRemoverNo` runs `RepararEliminado` before it splices the successor into
  the removed node's place, as the code does (`redblack.c:397`); the repair
  reads the root at its start, as the code's local `raiz` does.
- The tree sets `nil->pai` during the repair and never restores it. No
  operation reads it afterwards, so the `VIEW` of `MCRedBlack` leaves it out.
- `Fila` reads the tree in order (`EmOrdem`, the walk of
  `sthread_dump`/`dumpArvore`), and `OrderedQueueRefinement` checks the tree
  as an implementation of `OrderedQueue` under that mapping.

Details of `SThreadSched`:
- Every call runs between `splx(HIGH)` and `splx(LOW)` and is one step. The
  exception is `sthread_user_create`: it reads `RBMenorChave` before its
  `splx(HIGH)`, so the read (`CreateRead`) and the insertion
  (`CreateInsert`) are two steps, with ticks allowed between them.
- A switch is `SwitchTo`: `RBExtraiMininimo` on the tree, then the thread
  switched in carries on where it stopped. A thread switched out by the
  dispatcher's yield finishes that dispatcher call when it runs again
  (`++Clock` and the vruntime update, `DispatcherTail`). A new thread, or
  one switched out in yield, join or sleep, has nothing left that changes
  state.
- When the tree hands out no thread (`minimo` is `NULL`, or `raiz` after
  the tree was emptied), the switch goes to the NULL thread and the process
  crashes (`proc = "crashed"`). `exit` and `sleep` test for an empty tree
  first and end the process instead (`proc = "exited"`).
- `JoinBlock` keeps the stray `;` of `sthread_user.c:354`: the caller
  always blocks when the target is not a zombie.
- The sleep tree is modelled as the queue it implements: the order of
  `OrderedQueue`, which `rb_safety` checks `RedBlack` against for the
  non-negative keys `wake_time` takes.
- Exit values, `exectime`, `waittime` and `sleeptime` steer no decision and
  are left out.
- The dispatcher is one step, although `clock_tick` unblocks SIGALRM before
  calling it (see the hazards).

Details of `ServerRing`:
- Every access to the ring and its counter is inside `mon`. Statements that
  touch only that state are grouped with the monitor call that follows
  them. For example, `get_req`, `available_reqs--` and the signal form
  `ConsumerGet`. Each monitor call is its own step.
- A request is the number of its datagram. Serving it (the handler of
  `snfs.c`, which goes through the gate of `RWGate`, the reply and `free`)
  is one step, `ConsumerServe`.
- The datagrams in `Empty` arrive with no payload: `srv_recv_request`
  returns 0 and the producer's `continue` drops the request and leaks its
  descriptor.
- After the last datagram, `my_recvfrom` polls for ever with `EAGAIN`.
  That is the stuttering step `Polling`, so a server that waits for clients
  is not a deadlock.
- `accepted` and `taken` record what the producer received and what the
  consumers took. No action reads them.
- Only safety is checked. `ConsumerServe` always completes, while the real
  handler can block in the gate for good (`gate_liveness`), so the model
  assumes no fairness and states no progress property.

Details of `SnfsClient`:
- Each client process is single-threaded, so a client makes a new call
  only when its previous one returned (`Ready`). One turn of the loop of
  `my_read` or `my_write` is one step: other clients' calls run between
  the chunks of a read or write.
- The other calls are one step each. Their RPCs go one after the other
  with no client state in between; another client's call between two of
  them changes only which error code comes back.
- A call that fails before it changes anything (library not initialised,
  table full, fd not found, failed lookup) changes no variable, and is
  left out. So is `my_listdir`, which changes nothing.
- `snfs_lookup` stores the reply's `file` even on failure, and the server
  zeroes its reply, so a failed lookup of the directory part gives the
  handle 0 (`DirOf`). `fsize` is written only on success: `my_open` keeps
  whatever the last successful lookup left in it, 0 at the start.
- `numBytes = size - read_offset` is unsigned; `UINT` stands for 2^32.
- The server keeps every name bound to its inode. The ways in which `fs.c`
  does not are the subject of `Namespace` and `FileSystem`; here the
  question is what the client does with correct answers.
- `fs_append`'s second type test checks the first file again, so
  `AppendPath` may add a directory's size to a file, as the code does.

Details of `LinkedList` and `DiskUsage`:
- `fs_diskUsage` changes no state, so it is an operator applied to every
  reachable `Namespace` state rather than an action.
- The list keeps `size` apart from its nodes, because `inserirOrdenado`
  increments `size` before it knows where the node goes. A node equal to
  the first one, and not below the last, stops the scan at the head, whose
  `prev` is NULL, and is dropped while `size` stays incremented.
  `listRemoveFst` then follows a NULL pointer. `Drain` returns `crashed`
  when that happens.
- Paths are the entry's name, and `RootPath` stands for `"/"`. The walk
  reads an entry's inode as the code does: a freed inode has type 0, is
  taken for a directory, and its size 0 gives no pages.

## Runs

| Run | Result | What it shows |
|---|---|---|
| `gate_safety` | pass | `WritersExclusive`: two writers are never both in the write section. `LockCoherent`: owners, mutex queues and wait queues agree with the program counters. |
| `gate_read_write_exclusive` | violation | A reader and a writer are in the gate together. |
| `gate_liveness` | violation | Signals sent by non-owners are dropped, so threads wait forever. |
| `cache_safety` | pass | `CacheCoherent`: every block reads as the content last written, through any mix of reads, writes, evictions, invalidations, deletes and aging. `DirtyWrittenWithinDeadline`: a dirty, valid entry has stayed fewer than `TEMPO_MAX / INTERVALO_TEMPO_CACHE` aging passes, so with the aging thread weakly fair it is always written back. `NRUOrder`: `libertarEspaco` evicts only from the lowest NRU group present. |
| `fs_safety` | pass | Over any sequence of the five operations, copies and appends of a file onto itself included: `RefcountsCover`, no block has fewer references than live pointers. A self-copy frees and zeroes the file's blocks and then re-shares them with a count of 1 and the bit clear (hazard `fs.c:1513`); the next allocation counts the block again, so counts still cover the pointers, but the content is lost. That loss, and the bit cleared under a live reference, are not checked by a run. |
| `ns_directory_refinement` | violation | `DirectoryRefinement`, the root as an implementation of `DirectorySpec` under the mapping from each listed name to the inode `fsi_dir_search` returns, fails. Create `n1`, create `n2`, remove `n1`: `n1` stays bound to the freed inode 2 and `n2` disappears. A new `n2` then gets inode 2, now bound to two names. |
| `rb_safety` | pass | Through any sequence of inserts (equal keys included), minimum extractions and removals of any node: `IsRedBlackTree`, pointers agree, the root is black, no red node has a red child and every path has the same black height; `OrderedQueueRefinement`, each step is the matching step of `OrderedQueue` on the in-order sequence: an insertion of node z with key k is `Insert(z, k)` (behind the equal keys), `RBExtraiMininimo` takes the node `minimo` names, which is the first, and is `ExtractMin`, and `RBRemoverNo(z)` is `Delete(z)`. |
| `client_read_returns` | violation | `ReadReturns`, every `my_read` call returns, fails. `mkdir /d`, `my_open("/d/g", O_CREATE)`, `my_open("/d/f", O_CREATE)`: the second fd caches size 1, the size of `/d`, for an empty file. `my_read` then asks for 1 byte, `snfs_read` answers 0 bytes, and the loop `while(numBytes)` never ends. With two clients, `my_copy` of an empty file onto an open one, or `my_remove` and a re-create, does the same. |
| `server_ring` | pass | `RingFIFO`: the consumers have taken exactly the first requests received, and the ring holds the next `available_reqs` of them in `get_req`'s order. |
| `defrag_preserves_content` | violation | `DefragPreservesContent`, a defrag leaves every file reading as before (spec section 8), fails after 7 states. Create both files, write one byte to file 3 (block 10) and one to file 2 (block 11). Defrag then moves file 2's block 11 to position 10. Block 10 is taken and no block is free, so `mexeBlocoPara`'s search ends at block 9, and file 3's block and pointer go into the inode table. `my_defrag` reports 1. With 3 data blocks and a free block at the start, it still fails: an inode with two pointers to one block (copy, then append) gets only the first redirected, and the second reads another file's data. |
| `disk_usage_completes` | violation | `DiskUsageCompletes`, `fs_diskUsage` returns, fails after 11 requests. (1) Create `n1` and `n2` (inodes 2 and 3, root page 10). (2) A copy of `n2` onto `n3` reads source inode 3 and leaves the gate. (3) Remove `n1` twice: the remove bug keeps `n1` bound to the freed inode 2, drops `n2` and orphans inode 3, and the second removal frees page 10. (4) A one-byte write to inode 3 takes block 10. (5) Creates and a remove move the root's page to 11 and free inode 2 again, and the copy's `fs_create` gives `n3` inode 2. (6) The copy resumes and shares block 10 into inode 2. The root now lists `n1` and `n3`, both on inode 2 with block 10, below the page 11. The walk inserts 11, then 10 (the new head), then 10 again: `inserirOrdenado` drops it after `size++`, and the second `listRemoveFst` follows NULL. |
| `sched_next_is_least` | violation | `NextIsLeast`, the thread the run tree hands out next has the least vruntime of the runnable threads, fails after 8 steps. (1) main creates T2, and a tick yields to it. (2) T2 sleeps one tick, which empties the tree and leaves `minimo` at `raiz`. (3) main creates T3, which gets `raiz`'s key -1. (4) The next tick wakes T2 and main yields. `comparar` treats -1 as greater than every key, so each insertion moves `minimo` past T3, although the node lands to T3's left. `minimo` now names main, with vruntime 0, while T3, with -1, is runnable. |

## Bounds and fairness

- **Gate.** 3 threads, 2 requests each.
  - That is enough for two writers and a reader to contend, a waiter to be
    woken, and an increment to be lost.
  - The liveness run uses 1 request each and no symmetry.
- **Cache.** 3 blocks, a capacity of 2, 2 contents and the real ages (0 to
  10 in steps of 2).
  - A third block forces `libertarEspaco`.
  - Two contents tell a stale copy from a fresh one.
- **File system.** 2 files; blocks of 2 bytes, so sizes can be unaligned;
  2 pointers per inode; bytes 0 and 1.
  - The pass run has 2 data blocks: the disk fills up, copy-on-write runs out
    of space, and sharing through copy and append happens. It allows
    requests naming one file twice (`SelfOps`) and writes only the byte 0:
    its property is about counts, not contents.
  - Content isolation was checked with 3 data blocks: with the disk
    full, `copy_on_write` finds no block and writes the shared block in
    place (hazard `fs.c:505`). Its run slot went to `fs_diskUsage`.
  - Write offsets go one past the size, because larger ones are clamped to
    it.
- **Defrag.** The file-system instance with 2 data blocks. That is the
  smallest disk that can be full with blocks out of order.
- **Namespace.** 2 names, 2 file inodes, 2 entries to a page, two pointers
  per inode, blocks of 1 byte, 3 data blocks: the smallest instance where the
  removal bug shows in `ns_directory_refinement`.
  - With three names and two pages, TLC also reaches a state in which the
    stale binding makes `fs_copy` copy a file onto itself, frees one of its
    blocks, and `fs_create` hands that block to the directory. No run is
    spent on this, because it follows from the refinement violation.
  - The well-formedness of the directory entries was checked by an earlier
    pass run; its slot now holds `rb_safety`.
- **Disk usage.** The `Namespace` instance with 3 names, 3 file inodes
  and 2 data blocks, blocks of 1 byte, 2 entries to a page and 2 pointers
  per inode. The crash needs an inode listed under two names and a file
  block below the root's page. That takes two removals (one to orphan an
  inode, one to free the root's page) and a reused inode, which 2 names
  and 2 inodes cannot give: with them the root's first page is always
  the lowest block the walk meets.
- **Red-black tree.** 7 nodes besides the sentinels `nil` and `raiz`, keys
  0 to 2 for `rb_safety`.
  - Seven nodes give trees of height 3 and more, in which insertion and removal reach
    their rotations on both sides. Replacing any one rotation of
    `RepararEliminado` or `ArranjoInsercao` by the identity is caught by
    `rb_safety`.
  - Three keys give equal keys and both orders of distinct ones.
  - Nodes are symmetric: no operation depends on which free node
    `malloc` returns.
- **Scheduler.** `MaxThreads` = 4 (main and 3 created), priorities 0 and 2
  passed in (kept as 1 and 2), nice 1, sleeps of half a tick (no change)
  and of one tick, the timer stopping at `Clock` 4.
  - Three created threads let the tree be emptied and refilled with the
    -1 key and a non-negative one.
  - `CHECK_DEADLOCK FALSE`: the process really ends, by `exit` or a crash.
  - The whole state space of this instance with `MaxThreads` = 3 is about
    3.2 million states, and every action fires.
- **Server ring.** The producer and 3 consumers, a ring of 3 slots, 7
  datagrams of which the second is empty.
  - Seven datagrams and three slots let the ring fill and wrap around, and
    let the producer wait on a full ring, with consumers waiting on the same
    monitor. Consumers also wait on an empty ring, and a `signalall` wakes
    more consumers than there are requests.
  - Each of the ring's mutants is caught in this instance: the full test
    off by one, a missed decrement, `put_req` not advancing.
  - The code's 10 slots and 5 consumers add more of the same interleavings;
    nothing in the code depends on the numbers beyond the modulo.
- **Client library.** 2 clients, file names `f` and `g`, the directory
  `d`, 3 inodes, blocks of 1 byte, 3 blocks to a file, directory entries of
  1 byte, chunks of 1 byte, calls of 1 or 2 bytes, at most 2 open files
  per client, write offsets up to 3.
  - Chunks of 1 byte make a 2-byte call a loop of two RPCs.
  - Two clients let one shrink a file the other has open.
  - Three inodes let a file and the directory coexist with a reused inode.
  - `fs_append`'s misplaced blocks (`fs.c:1656`) were shown by an earlier
    run; a unit test of unaligned appends shows them too, and the slot went
    to the client library.
- **File system write semantics.** The copy-on-write bug with two pointers
  to one block (`fs.c:489`) is kept as a hazard; its run slot went to the
  tree.
- **Fairness.**
  - Every request thread of `RWGate` is weakly fair. The sthread dispatcher runs every runnable thread again
    (time slicing, lowest vruntime first). A thread blocked in a mutex or
    wait queue is not runnable, so fairness never forces a wake-up the code
    does not perform.
  - The cache aging pass is weakly fair. Its thread loops forever, sleeping
    2 s between passes. Together with `DirtyWrittenWithinDeadline` this is
    what makes every dirty entry reach the disk.
  - No fairness is assumed for the file-system calls into the cache.
  - Each client's loop step and return is weakly fair: a process in
    `my_read` keeps running. A turn of the loop that reads 0 bytes changes
    nothing, so TLC shows the spin as stuttering forever with the step
    enabled.

## Not modelled (yet)

- Subdirectories (`fs_mkdir`), path lookup (`fs_lookup`) and `fs_readdir`;
  the metadata writes `fsi_store_fsdata`. `fs_read` changes no state of the
  file layer and is the operator behind `Content`.
- The wrap of the signed `referencias` at 127, which needs more references
  than TLC can reach.
- The defragmenter composed with the cache (`block_read` of a block whose
  newer content is in a dirty cache entry), and a pass run of `Defrag` that
  would show the counts left behind after a move.
- The server's fatal paths (`exit(-1)` on a `recvfrom` error, at start-up)
  and the request dispatch of `snfs.c` (`Service` table, marshalling).
  `ServerRing` serves a request in one step.
- The cache overflow caused by the uninitialised `entradas_removidas`
  (`cache.c:266`). `BlockCache` still lets it take either value, and TLC
  showed the overflow in an earlier run. Its slot went to `server_ring`.
- The crash of `hashRemove` on an uninitialised pointer.
- `fs_dump`, `fs_dumpcache` and `imprimirInodeTab`, which only print. The
  other functions of `list.c` (`listInsertFst`, `listInsertAt`,
  `listRemoveAt`, ...), which no modelled code calls: the NRU lists that
  `cache_new` creates are never filled.
- The client library's socket layer (`remote_call`, `snfs_init`), taken as
  reliable; path parsing (`myparse`, `strtok`), abstracted to the paths
  `/f`, `/g`, `/d`, `/d/f`, `/d/g`; and the calls that only forward
  (`my_diskusage`, `my_dumpcache`). `my_defrag`'s status mapping is in
  `Defrag`.
- The scheduler composed with the mutex and monitor calls of `SThreadSync`
  (which also switch threads), and with the server's threads. `RWGate`
  keeps an abstract scheduler. A dispatcher interrupted by a second tick.

The components in `PROJECT.json` give the reason for each.

## Plan

1. `FileSystem` (done in part): see the runs above. Remaining: a
   `BlockMemory` abstract specification with `BlockCache` shown to refine it,
   which would state the justification of `mem` as a refinement.
2. `Namespace` (done for the root): remaining are `fs_mkdir`, `fs_lookup`
   and `fs_readdir`.
3. `Defrag` (done: `defrag_preserves_content`). Remaining: composition with
   `BlockCache`, and a pass run over later steps for the counts that stay
   behind.
4. The sthread scheduler (done: `SThreadSched`). Remaining: a liveness run
   (a join of a finished thread never returns, because of the stray `;` at
   `sthread_user.c:354`). The server's producer and consumer threads and the
   request ring are done (`ServerRing`, over `SThreadSync`'s monitor rather
   than the scheduler).
5. The gate with the error paths of the write operations (`fs_mkdir`,
   `fs_copy`), which leave `escritores` wrong.
6. `fs_diskUsage` (done: `disk_usage_completes`). Remaining: the walk into
   subdirectories, which waits for `fs_mkdir`.

Every run slot the project allows is in use. The scheduler took the slot
of the tree-level sentinel run, which showed the same bug from the tree's
side. The server ring took the slot of the cache-overflow run. The cache
liveness run became the invariant `DirtyWrittenWithinDeadline` of
`cache_safety`, and its slot went to the defragmenter. The content
isolation run took its slot for `fs_diskUsage`; its finding is the note of
hazard `fs.c:505`.
