------------------------------- MODULE RWGate -------------------------------
(***************************************************************************)
(* The reader/writer gate every file-system operation of fs.c passes       *)
(* through: iniciaLeitura / terminaLeitura around lookup, read, readdir,   *)
(* diskUsage and dump, iniciaEscrita / terminaEscrita around format,       *)
(* write, create, mkdir, remove, copy, append, defrag and dumpcache.       *)
(*                                                                         *)
(* Each thread is one of the server's request threads (server.c,           *)
(* thread_consumer): it repeatedly serves a request, which enters the gate *)
(* as a reader or as a writer, does its work and leaves.  Threads are      *)
(* preempted by the sthread time slicer between any two statements, so    *)
(* every statement of the gate code is a step of its own.  The counters    *)
(* wanna_leitor and wanna_escritor are incremented outside any monitor     *)
(* (fs.c:294, 317); the increment is a load and a store, which a time      *)
(* slice can separate.                                                     *)
(***************************************************************************)
EXTENDS Integers, FiniteSets, SThreadSync

CONSTANTS MaxRequests  \* requests a thread serves before it stops (bound)

ASSUME Mons = {"monLeitores", "monEscritores"}
ASSUME MaxRequests \in Nat \ {0}

LEITURA == 0
ESCRITA == 1

VARIABLES pc,             \* pc[t]: the next statement of thread t
          tmp,            \* tmp[t]: the value loaded by a split increment
          served,         \* served[t]: requests thread t has started
          leitores,       \* fs->leitores
          escritores,     \* fs->escritores
          wanna_leitor,   \* fs->wanna_leitor
          wanna_escritor, \* fs->wanna_escritor
          turno           \* fs->turno

gateVars == <<leitores, escritores, wanna_leitor, wanna_escritor, turno>>
vars == <<pc, tmp, served, gateVars, syncVars>>

ReaderPCs == {"r_load", "r_store", "r_enter", "r_check", "r_admit",
              "r_read", "r_dec", "r_signal", "r_exit"}
WriterPCs == {"w_load", "w_store", "w_enter", "w_check", "w_admit",
              "w_write", "w_dec", "w_signal", "w_exit"}

\* fs_new: the counters start at 0; turno is left uninitialised by malloc,
\* so a first reader may find it either way.
Init ==
    /\ SyncInit
    /\ pc = [t \in Threads |-> "idle"]
    /\ tmp = [t \in Threads |-> 0]
    /\ served = [t \in Threads |-> 0]
    /\ leitores = 0
    /\ escritores = 0
    /\ wanna_leitor = 0
    /\ wanna_escritor = 0
    /\ turno \in {LEITURA, ESCRITA}

Goto(t, l) == pc' = [pc EXCEPT ![t] = l]

\* thread_consumer takes the next request; snfs.c dispatches it to an
\* fs_* function that opens the gate as a reader or as a writer.
StartRequest(t) ==
    /\ pc[t] = "idle"
    /\ served[t] < MaxRequests
    /\ served' = [served EXCEPT ![t] = @ + 1]
    /\ \E l \in {"r_load", "w_load"} : Goto(t, l)
    /\ UNCHANGED <<tmp, gateVars, syncVars>>

(***************************************************************************)
(* iniciaLeitura (fs.c:293-304)                                            *)
(***************************************************************************)
ReaderLoad(t) ==
    /\ pc[t] = "r_load"
    /\ tmp' = [tmp EXCEPT ![t] = wanna_leitor]
    /\ Goto(t, "r_store")
    /\ UNCHANGED <<served, gateVars, syncVars>>

ReaderStore(t) ==
    /\ pc[t] = "r_store"
    /\ wanna_leitor' = tmp[t] + 1
    /\ Goto(t, "r_enter")
    /\ UNCHANGED <<tmp, served, leitores, escritores, wanna_escritor, turno,
                   syncVars>>

ReaderEnter(t) ==
    /\ pc[t] = "r_enter"
    /\ MutexLock("monLeitores", t)
    /\ Goto(t, "r_check")
    /\ UNCHANGED <<tmp, served, gateVars>>

\* The while condition; a waiter resumes here once it owns the mutex again.
ReaderCheck(t) ==
    /\ pc[t] = "r_check"
    /\ IF escritores # 0 \/ (turno # LEITURA /\ wanna_escritor > 0)
         THEN /\ MonitorWait("monLeitores", t)
              /\ UNCHANGED pc
         ELSE /\ Goto(t, "r_admit")
              /\ UNCHANGED syncVars
    /\ UNCHANGED <<tmp, served, gateVars>>

ReaderAdmit(t) ==
    /\ pc[t] = "r_admit"
    /\ wanna_leitor' = wanna_leitor - 1
    /\ leitores' = leitores + 1
    /\ IF wanna_leitor' # 0
         THEN /\ MonitorSignalAll("monLeitores", t)
              /\ UNCHANGED turno
         ELSE /\ turno' = ESCRITA
              /\ UNCHANGED syncVars
    /\ Goto(t, "r_read")
    /\ UNCHANGED <<tmp, served, escritores, wanna_escritor>>

\* The body of the read-only operation; it touches no gate state.
ReaderRead(t) ==
    /\ pc[t] = "r_read"
    /\ Goto(t, "r_dec")
    /\ UNCHANGED <<tmp, served, gateVars, syncVars>>

(***************************************************************************)
(* terminaLeitura (fs.c:308-313)                                           *)
(***************************************************************************)
\* Mutant of ReaderDec: the reader leaves without decrementing leitores.
ReaderDecForgotten(t) ==
    /\ pc[t] = "r_dec"
    /\ Goto(t, "r_exit")
    /\ UNCHANGED <<tmp, served, gateVars, syncVars>>

ReaderDec(t) ==
    /\ pc[t] = "r_dec"
    /\ leitores' = leitores - 1
    /\ Goto(t, IF leitores' = 0 THEN "r_signal" ELSE "r_exit")
    /\ UNCHANGED <<tmp, served, escritores, wanna_leitor, wanna_escritor,
                   turno, syncVars>>

\* The reader signals monEscritores, whose mutex it does not hold.
ReaderSignal(t) ==
    /\ pc[t] = "r_signal"
    /\ MonitorSignal("monEscritores", t)
    /\ Goto(t, "r_exit")
    /\ UNCHANGED <<tmp, served, gateVars>>

ReaderExit(t) ==
    /\ pc[t] = "r_exit"
    /\ MutexUnlock("monLeitores", t)
    /\ Goto(t, "idle")
    /\ UNCHANGED <<tmp, served, gateVars>>

(***************************************************************************)
(* iniciaEscrita (fs.c:316-323)                                            *)
(***************************************************************************)
WriterLoad(t) ==
    /\ pc[t] = "w_load"
    /\ tmp' = [tmp EXCEPT ![t] = wanna_escritor]
    /\ Goto(t, "w_store")
    /\ UNCHANGED <<served, gateVars, syncVars>>

WriterStore(t) ==
    /\ pc[t] = "w_store"
    /\ wanna_escritor' = tmp[t] + 1
    /\ Goto(t, "w_enter")
    /\ UNCHANGED <<tmp, served, leitores, escritores, wanna_leitor, turno,
                   syncVars>>

WriterEnter(t) ==
    /\ pc[t] = "w_enter"
    /\ MutexLock("monEscritores", t)
    /\ Goto(t, "w_check")
    /\ UNCHANGED <<tmp, served, gateVars>>

WriterCheck(t) ==
    /\ pc[t] = "w_check"
    /\ IF escritores # 0 \/ leitores # 0
         THEN /\ MonitorWait("monEscritores", t)
              /\ UNCHANGED pc
         ELSE /\ Goto(t, "w_admit")
              /\ UNCHANGED syncVars
    /\ UNCHANGED <<tmp, served, gateVars>>

WriterAdmit(t) ==
    /\ pc[t] = "w_admit"
    /\ wanna_escritor' = wanna_escritor - 1
    /\ escritores' = escritores + 1
    /\ Goto(t, "w_write")
    /\ UNCHANGED <<tmp, served, leitores, wanna_leitor, turno, syncVars>>

WriterWrite(t) ==
    /\ pc[t] = "w_write"
    /\ Goto(t, "w_dec")
    /\ UNCHANGED <<tmp, served, gateVars, syncVars>>

(***************************************************************************)
(* terminaEscrita (fs.c:325-333)                                           *)
(***************************************************************************)
WriterDec(t) ==
    /\ pc[t] = "w_dec"
    /\ escritores' = escritores - 1
    /\ turno' = LEITURA
    /\ Goto(t, "w_signal")
    /\ UNCHANGED <<tmp, served, leitores, wanna_leitor, wanna_escritor,
                   syncVars>>

\* Wake the readers (through a monitor the writer does not hold) when some
\* reader is waiting, else the next writer.
WriterSignal(t) ==
    /\ pc[t] = "w_signal"
    /\ IF wanna_leitor # 0
         THEN MonitorSignalAll("monLeitores", t)
         ELSE MonitorSignal("monEscritores", t)
    /\ Goto(t, "w_exit")
    /\ UNCHANGED <<tmp, served, gateVars>>

WriterExit(t) ==
    /\ pc[t] = "w_exit"
    /\ MutexUnlock("monEscritores", t)
    /\ Goto(t, "idle")
    /\ UNCHANGED <<tmp, served, gateVars>>

-----------------------------------------------------------------------------

Step(t) ==
    /\ ~Blocked(t)
    /\ \/ StartRequest(t)
       \/ ReaderLoad(t) \/ ReaderStore(t) \/ ReaderEnter(t) \/ ReaderCheck(t)
       \/ ReaderAdmit(t) \/ ReaderRead(t) \/ ReaderDec(t) \/ ReaderSignal(t)
       \/ ReaderExit(t)
       \/ WriterLoad(t) \/ WriterStore(t) \/ WriterEnter(t) \/ WriterCheck(t)
       \/ WriterAdmit(t) \/ WriterWrite(t) \/ WriterDec(t) \/ WriterSignal(t)
       \/ WriterExit(t)

\* Every thread has served its requests: the run is over.
Finished ==
    /\ \A t \in Threads : pc[t] = "idle" /\ served[t] = MaxRequests
    /\ UNCHANGED vars

Next == (\E t \in Threads : Step(t)) \/ Finished

\* The sthread dispatcher runs every runnable thread again within bounded
\* time (time-sliced, lowest vruntime first), so each thread is weakly fair.
Spec == Init /\ [][Next]_vars /\ \A t \in Threads : WF_vars(Step(t))

-----------------------------------------------------------------------------

\* A wanna counter: each request's lost update moves it by at most one.
Counts == LET R == MaxRequests * Cardinality(Threads) IN -R..R

TypeOK ==
    /\ SyncTypeOK
    /\ pc \in [Threads -> {"idle"} \cup ReaderPCs \cup WriterPCs]
    /\ tmp \in [Threads -> Counts]
    /\ served \in [Threads -> 0..MaxRequests]
    /\ {leitores, escritores} \subseteq 0..Cardinality(Threads)
    /\ {wanna_leitor, wanna_escritor} \subseteq Counts
    /\ turno \in {LEITURA, ESCRITA}

Reading(t) == pc[t] = "r_read"
Writing(t) == pc[t] = "w_write"

\* A writer excludes every other writer: two write operations never run at
\* once.  This rests on the monEscritores mutex being held from
\* iniciaEscrita to terminaEscrita and being handed over on unlock.
WritersExclusive ==
    \A t, u \in Threads : Writing(t) /\ Writing(u) => t = u

\* The gate's bookkeeping agrees with the threads: the mutex of each monitor
\* is owned exactly by the thread running inside it, never by a thread that
\* is queued, and no thread is queued twice.
LockCoherent ==
    /\ \A m \in Mons : owner[m] # NoThread => ~Blocked(owner[m])
    /\ \A t \in Threads :
         /\ (pc[t] \in {"r_admit", "r_read", "r_dec", "r_signal", "r_exit"}
               => owner["monLeitores"] = t)
         /\ (pc[t] \in {"w_admit", "w_write", "w_dec", "w_signal", "w_exit"}
               => owner["monEscritores"] = t)
    /\ \A m, n \in Mons :
         \A i \in DOMAIN mq[m], j \in DOMAIN wq[n] : mq[m][i] # wq[n][j]
    /\ \A m \in Mons : IsInjective(mq[m]) /\ IsInjective(wq[m])

\* The gate's promise (spec.md section 5): a writer runs exclusively
\* against every reader.  The reader tests escritores under monLeitores and
\* the writer tests leitores under monEscritores, so nothing orders the two
\* tests against the two increments.
ReadWriteExclusive ==
    \A t, u \in Threads : ~(Reading(t) /\ Writing(u))

\* Every request that enters the gate is eventually let through.
RequestsServed ==
    \A t \in Threads :
        /\ pc[t] = "r_enter" ~> pc[t] = "r_read"
        /\ pc[t] = "w_enter" ~> pc[t] = "w_write"

=============================================================================
