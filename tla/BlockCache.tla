----------------------------- MODULE BlockCache -----------------------------
(***************************************************************************)
(* The block cache of the SNFS server (cache.c) over the in-memory block   *)
(* store (block.c).                                                        *)
(*                                                                         *)
(* The cache maps block numbers to entries with a valid bit (V), the NRU   *)
(* bits referenced (R) and modified (M), an age and a copy of the block.   *)
(* A dirty entry reaches the disk only when it leaves the cache            *)
(* (retirarDaCache).  Entries leave the cache when the cache is full and   *)
(* a new entry is inserted (libertarEspaco, NRU order) and when the aging  *)
(* thread of fs.c finds them 10 seconds old (actualizarCache).             *)
(*                                                                         *)
(* Every public operation runs under cache->mutex, so each is one atomic  *)
(* step here.  The internal helpers are written as functions from a state *)
(* record s = [disk, cache, nos, evicted] to the state after the helper,  *)
(* so that an operation is the composition of the helpers it calls.       *)
(*                                                                         *)
(* latest[b] is a history variable: the content the file system last gave *)
(* block b (escreverCache, eliminarBlocoCache), or the disk copy when the *)
(* caller declared it current (invalidarBloco, which defrag calls on a     *)
(* block it has rewritten or released on disk).                           *)
(*                                                                         *)
(* since[b] is a history variable too: the aging passes that b's entry    *)
(* has stayed in the cache since it was inserted (0 when b is not cached). *)
(***************************************************************************)
EXTENDS Integers, FiniteSets

CONSTANTS Blocks,                 \* block numbers that go through the cache
          Values,                 \* block contents
          Zero,                   \* the all-zero block
          NoEntry,                \* no entry for this block in the cache
          DIM_CACHE,              \* numeroMaxNos (fs.c: DIM_CACHE = 8)
          INTERVALO_TEMPO_CACHE,  \* seconds added per aging pass (fs.c: 2)
          TEMPO_MAX,              \* age at which an entry is evicted (10)
          Garbage                 \* possible initial values of an
                                  \* uninitialised int (cache.c:266)

ASSUME Zero \in Values
ASSUME DIM_CACHE \in Nat \ {0}
ASSUME Garbage \subseteq Int

Ages == {k * INTERVALO_TEMPO_CACHE : k \in 0..(TEMPO_MAX \div INTERVALO_TEMPO_CACHE)}

Entry == [valido : BOOLEAN, referenciado : BOOLEAN, modificado : BOOLEAN,
          tempo : Ages, conteudo : Values]

VARIABLES disk,     \* the block store: disk[b] is the content of block b
          cache,    \* cache[b]: the entry of b, or NoEntry
          nos,      \* cache->numeroNosUtilizados
          evicted,  \* blocks evicted by the libertarEspaco of the last step
          latest,   \* history: the content block b should have
          since     \* history: aging passes b's entry has stayed cached

vars == <<disk, cache, nos, evicted, latest, since>>

\* block_new zeroes the store; criarCache starts with no entries.
Init ==
    /\ disk = [b \in Blocks |-> Zero]
    /\ cache = [b \in Blocks |-> NoEntry]
    /\ nos = 0
    /\ evicted = {}
    /\ latest = [b \in Blocks |-> Zero]
    /\ since = [b \in Blocks |-> 0]

Cached(s) == {b \in Blocks : s.cache[b] # NoEntry}

\* The state record the helpers transform, taken at the start of a step.
Now == [disk |-> disk, cache |-> cache, nos |-> nos, evicted |-> {}]

\* Mutant of RemoveAll: an invalid dirty entry is written back too.
RemoveAllFlushInvalid(s, B) ==
    LET Flush(b) == b \in B /\ s.cache[b].modificado
    IN [s EXCEPT
          !.disk  = [b \in Blocks |-> IF Flush(b) THEN s.cache[b].conteudo
                                                  ELSE s.disk[b]],
          !.cache = [b \in Blocks |-> IF b \in B THEN NoEntry ELSE s.cache[b]],
          !.nos   = @ - Cardinality(B)]

\* retirarDaCache for every block of B: unlink the entry, write it to disk
\* if it is modified and valid, and count it out.
RemoveAll(s, B) ==
    LET Flush(b) == b \in B /\ s.cache[b].modificado /\ s.cache[b].valido
    IN [s EXCEPT
          !.disk  = [b \in Blocks |-> IF Flush(b) THEN s.cache[b].conteudo
                                                  ELSE s.disk[b]],
          !.cache = [b \in Blocks |-> IF b \in B THEN NoEntry ELSE s.cache[b]],
          !.nos   = @ - Cardinality(B)]

RetirarDaCache(s, b) ==
    IF s.cache[b] = NoEntry THEN s ELSE RemoveAll(s, {b})

\* The four NRU groups of libertarEspaco, in the order it searches them:
\* not referenced and not modified first, referenced and modified last.
Group(e) == 1 + (IF e.referenciado THEN 2 ELSE 0) + (IF e.modificado THEN 1 ELSE 0)

InGroup(s, k) == {b \in Cached(s) : Group(s.cache[b]) = k}

\* Mutant of LibertarEspaco: groups 2 and 3 searched in the wrong order.
LibertarEspacoSwapped(s, g) ==
    LET Order == <<1, 3, 2, 4>>
        inval == {b \in Cached(s) : ~s.cache[b].valido}
        s0 == [RemoveAll(s, inval) EXCEPT !.evicted = inval]
        found == {i \in 1..4 : InGroup(s0, Order[i]) # {}}
        victims == IF found = {} THEN {}
                   ELSE InGroup(s0, Order[CHOOSE i \in found : \A j \in found : i <= j])
    IN IF g + Cardinality(inval) # 0 THEN s0
       ELSE [RemoveAll(s0, victims) EXCEPT !.evicted = @ \cup victims]

\* libertarEspaco.  All invalid entries go first; then, unless the count
\* of removed entries is non-zero, every entry of the first non-empty NRU
\* group.  The count starts uninitialised: g is its initial value.
LibertarEspaco(s, g) ==
    LET inval == {b \in Cached(s) : ~s.cache[b].valido}
        s0 == [RemoveAll(s, inval) EXCEPT !.evicted = inval]
        found == {k \in 1..4 : InGroup(s0, k) # {}}
        victims == IF found = {} THEN {}
                   ELSE InGroup(s0, CHOOSE k \in found : \A j \in found : k <= j)
    IN IF g + Cardinality(inval) # 0 THEN s0
       ELSE [RemoveAll(s0, victims) EXCEPT !.evicted = @ \cup victims]

\* novaEntradaCache: make room when the count equals the capacity, then
\* insert a valid, referenced entry of age 0 (b is never in the cache here).
NovaEntradaCache(s, b, modificado, dados, g) ==
    LET s1 == IF s.nos = DIM_CACHE THEN LibertarEspaco(s, g) ELSE s
    IN [s1 EXCEPT
          !.cache[b] = [valido |-> TRUE, referenciado |-> TRUE,
                        modificado |-> modificado, tempo |-> 0,
                        conteudo |-> dados],
          !.nos = @ + 1]

\* carregarBlocoParaCache: read the block from disk into a clean entry.
CarregarBlocoParaCache(s, b, g) == NovaEntradaCache(s, b, FALSE, s.disk[b], g)

\* Commit a state record.
Apply(s) ==
    /\ disk' = s.disk
    /\ cache' = s.cache
    /\ nos' = s.nos
    /\ evicted' = s.evicted

\* The history since after a step that leaves the cache as in s and
\* inserts a fresh entry for the blocks of fresh.
Restart(s, fresh) ==
    [x \in Blocks |-> IF s.cache[x] = NoEntry \/ x \in fresh THEN 0 ELSE since[x]]

\* lerCache: a miss loads the block; an invalid entry is dropped (not
\* written back) and the block reloaded; the entry is then referenced.
LerCache(b) ==
    \E g \in Garbage :
        LET e == cache[b]
            s1 == IF e = NoEntry THEN CarregarBlocoParaCache(Now, b, g)
                  ELSE IF ~e.valido
                       THEN CarregarBlocoParaCache(RetirarDaCache(Now, b), b, g)
                       ELSE Now
        IN /\ Apply([s1 EXCEPT !.cache[b].referenciado = TRUE])
           /\ since' = Restart(s1, IF e = NoEntry \/ ~e.valido THEN {b} ELSE {})
           /\ UNCHANGED latest

\* Mutant of EscreverCache: overwriting an entry also restarts its age.
EscreverCacheResetsAge(b, v) ==
    \E g \in Garbage :
        LET e == cache[b]
            s1 == IF e # NoEntry /\ ~e.valido
                  THEN CarregarBlocoParaCache(RetirarDaCache(Now, b), b, g)
                  ELSE Now
            s2 == IF e = NoEntry
                  THEN NovaEntradaCache(Now, b, TRUE, v, g)
                  ELSE [s1 EXCEPT !.cache[b] = [@ EXCEPT !.conteudo = v,
                                                 !.referenciado = TRUE,
                                                 !.modificado = TRUE,
                                                 !.valido = TRUE,
                                                 !.tempo = 0]]
        IN /\ Apply(s2)
           /\ since' = Restart(s2, IF e = NoEntry \/ ~e.valido THEN {b} ELSE {})
           /\ latest' = [latest EXCEPT ![b] = v]

\* escreverCache: an invalid entry is dropped and reloaded first; a miss
\* inserts a modified entry with the new content; otherwise the content
\* is replaced and the entry marked referenced, modified and valid.
EscreverCache(b, v) ==
    \E g \in Garbage :
        LET e == cache[b]
            s1 == IF e # NoEntry /\ ~e.valido
                  THEN CarregarBlocoParaCache(RetirarDaCache(Now, b), b, g)
                  ELSE Now
            s2 == IF e = NoEntry
                  THEN NovaEntradaCache(Now, b, TRUE, v, g)
                  ELSE [s1 EXCEPT !.cache[b] = [@ EXCEPT !.conteudo = v,
                                                 !.referenciado = TRUE,
                                                 !.modificado = TRUE,
                                                 !.valido = TRUE]]
        IN /\ Apply(s2)
           /\ since' = Restart(s2, IF e = NoEntry \/ ~e.valido THEN {b} ELSE {})
           /\ latest' = [latest EXCEPT ![b] = v]

\* invalidarBloco: mark the entry invalid (nothing if b is not cached).
\* The caller has made the disk copy the current content of b.
InvalidarBloco(b) ==
    /\ cache' = IF cache[b] = NoEntry THEN cache
                ELSE [cache EXCEPT ![b].valido = FALSE]
    /\ latest' = [latest EXCEPT ![b] = disk[b]]
    /\ evicted' = {}
    /\ UNCHANGED <<disk, nos, since>>

\* Mutant of EliminarBlocoCache: the entry is unlinked from the table
\* without numeroNosUtilizados being decremented.
EliminarBlocoCacheUnlinks(b) ==
    /\ cache' = [cache EXCEPT ![b] = NoEntry]
    /\ disk' = [disk EXCEPT ![b] = Zero]
    /\ latest' = [latest EXCEPT ![b] = Zero]
    /\ evicted' = {}
    /\ UNCHANGED <<nos, since>>

\* eliminarBlocoCache: mark the entry invalid and zero the block on disk.
EliminarBlocoCache(b) ==
    /\ cache' = IF cache[b] = NoEntry THEN cache
                ELSE [cache EXCEPT ![b].valido = FALSE]
    /\ disk' = [disk EXCEPT ![b] = Zero]
    /\ latest' = [latest EXCEPT ![b] = Zero]
    /\ evicted' = {}
    /\ UNCHANGED <<nos, since>>

\* actualizarCache, run every INTERVALO_TEMPO_CACHE seconds by
\* thread_actualiza_Cache: age every entry, clear its R bit, and remove
\* (writing back if dirty) those that have been cached TEMPO_MAX seconds.
ActualizarCache ==
    LET aged == [b \in Blocks |->
                   IF cache[b] = NoEntry THEN NoEntry
                   ELSE [cache[b] EXCEPT !.tempo = @ + INTERVALO_TEMPO_CACHE,
                                         !.referenciado = FALSE]]
        old == {b \in Blocks : aged[b] # NoEntry /\ aged[b].tempo >= TEMPO_MAX}
        s == RemoveAll([Now EXCEPT !.cache = aged], old)
    IN /\ Apply(s)
       /\ since' = [x \in Blocks |-> IF s.cache[x] = NoEntry THEN 0 ELSE since[x] + 1]
       /\ UNCHANGED latest

\* The file system calls the cache only with blocks it owns, under its
\* writer lock or reader lock; any block and any content may be used.
Next ==
    \/ \E b \in Blocks : LerCache(b)
    \/ \E b \in Blocks, v \in Values : EscreverCache(b, v)
    \/ \E b \in Blocks : InvalidarBloco(b)
    \/ \E b \in Blocks : EliminarBlocoCache(b)
    \/ ActualizarCache

\* The aging thread loops forever (sleep, actualizarCache) and the sthread
\* scheduler runs every runnable thread, so the aging pass keeps happening.
Spec == Init /\ [][Next]_vars /\ WF_vars(ActualizarCache)

----------------------------------------------------------------------------

TypeOK ==
    /\ disk \in [Blocks -> Values]
    /\ cache \in [Blocks -> Entry \cup {NoEntry}]
    /\ nos \in 0..Cardinality(Blocks)
    /\ evicted \subseteq Blocks
    /\ latest \in [Blocks -> Values]
    /\ since \in [Blocks -> Nat]

\* What a read of block b returns: the cached copy if valid, else disk.
View(b) == IF cache[b] # NoEntry /\ cache[b].valido THEN cache[b].conteudo
           ELSE disk[b]

\* No lost or resurrected write: after any sequence of reads, writes,
\* evictions (libertarEspaco, the aging thread), invalidations and deletes,
\* what lerCache would return for every block is the content the file
\* system last gave it.  Breaks if retirarDaCache writes back an invalid
\* or skips a dirty entry, or lerCache trusts an invalid one.
CacheCoherent == \A b \in Blocks : View(b) = latest[b]

\* NRU order: every valid entry libertarEspaco evicts belongs to the
\* lowest NRU group present among the valid entries when it started.
ValidGroups(c) == {Group(c[b]) : b \in {x \in Blocks : c[x] # NoEntry /\ c[x].valido}}

NRUOrder ==
    [][\A b \in evicted' :
          cache[b].valido =>
             \A k \in ValidGroups(cache) : Group(cache[b]) <= k]_vars

\* Dirty entries reach the disk on time: a modified, valid entry has
\* been cached for fewer than TEMPO_MAX / INTERVALO_TEMPO_CACHE aging
\* passes, however often the file system kept writing it, because only
\* insertion sets tempo to 0 and actualizarCache removes (writing back)
\* every entry whose tempo reaches TEMPO_MAX.  With the aging thread
\* weakly fair, every dirty entry is therefore written back.
DirtyWrittenWithinDeadline ==
    \A b \in Blocks :
        cache[b] # NoEntry /\ cache[b].modificado /\ cache[b].valido
            => since[b] < TEMPO_MAX \div INTERVALO_TEMPO_CACHE

============================================================================
