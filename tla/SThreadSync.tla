----------------------------- MODULE SThreadSync -----------------------------
(***************************************************************************)
(* The user-level mutex and monitor of sthread_lib (sthread_user.c), the   *)
(* primitives the file-system gate of fs.c is built from.                  *)
(*                                                                         *)
(* A mutex has an owner and a FIFO queue of blocked threads.  Unlock hands *)
(* the mutex directly to the head of the queue, which resumes from its     *)
(* blocked lock() already owning it.  A monitor is a mutex plus a FIFO     *)
(* wait queue; wait() queues the caller and unlocks, signal() moves one    *)
(* waiter to the mutex queue, signalall() moves all of them.  Unlock, wait,*)
(* signal and signalall called by a thread that does not own the mutex     *)
(* return without doing anything (sthread_user.c:509, 608, 634, 653).      *)
(*                                                                         *)
(* The operators below are the primed effect of one primitive on the      *)
(* shared state <<owner, mq, wq>>; the modules that use them add the      *)
(* caller's program counter.                                               *)
(***************************************************************************)
EXTENDS Sequences, SequencesExt

CONSTANTS Threads,   \* the sthreads
          Mons,      \* the monitors (each with its own mutex)
          NoThread   \* owner of a free mutex

VARIABLES owner,  \* owner[m]: thread holding the mutex of monitor m
          mq,     \* mq[m]: threads blocked in lock() of m, FIFO
          wq      \* wq[m]: threads blocked in wait() of m, FIFO

syncVars == <<owner, mq, wq>>

SyncInit ==
    /\ owner = [m \in Mons |-> NoThread]
    /\ mq = [m \in Mons |-> <<>>]
    /\ wq = [m \in Mons |-> <<>>]

\* A thread is blocked while it sits in a mutex queue or a wait queue.
Blocked(t) == \E m \in Mons : Contains(mq[m], t) \/ Contains(wq[m], t)

\* sthread_user_mutex_lock: take a free mutex, or queue behind its owner.
MutexLock(m, t) ==
    /\ IF owner[m] = NoThread
         THEN /\ owner' = [owner EXCEPT ![m] = t]
              /\ UNCHANGED mq
         ELSE /\ mq' = [mq EXCEPT ![m] = Append(@, t)]
              /\ UNCHANGED owner
    /\ UNCHANGED wq

\* The owner and mutex queue of m after its owner unlocks it: ownership
\* passes to the first blocked thread, if any.
HandOff(m) ==
    IF mq[m] = <<>>
      THEN <<NoThread, <<>>>>
      ELSE <<Head(mq[m]), Tail(mq[m])>>

\* Mutant of MutexUnlock: the mutex is freed and the first blocked thread
\* released, without making it the owner.
MutexUnlockNoHandOff(m, t) ==
    /\ IF owner[m] = t
         THEN /\ owner' = [owner EXCEPT ![m] = NoThread]
              /\ mq' = [mq EXCEPT ![m] = HandOff(m)[2]]
         ELSE UNCHANGED <<owner, mq>>
    /\ UNCHANGED wq

\* sthread_user_mutex_unlock: a non-owner's unlock is ignored.
MutexUnlock(m, t) ==
    /\ IF owner[m] = t
         THEN /\ owner' = [owner EXCEPT ![m] = HandOff(m)[1]]
              /\ mq' = [mq EXCEPT ![m] = HandOff(m)[2]]
         ELSE UNCHANGED <<owner, mq>>
    /\ UNCHANGED wq

\* sthread_user_monitor_wait: join the wait queue and release the mutex.
MonitorWait(m, t) ==
    IF owner[m] = t
      THEN /\ wq' = [wq EXCEPT ![m] = Append(@, t)]
           /\ owner' = [owner EXCEPT ![m] = HandOff(m)[1]]
           /\ mq' = [mq EXCEPT ![m] = HandOff(m)[2]]
      ELSE UNCHANGED syncVars

\* Mutant of MonitorSignal: the waiter is queued on the mutex but not
\* taken off the wait queue.
MonitorSignalKeepsWaiter(m, t) ==
    /\ IF owner[m] = t /\ wq[m] # <<>>
         THEN /\ mq' = [mq EXCEPT ![m] = Append(@, Head(wq[m]))]
              /\ UNCHANGED wq
         ELSE UNCHANGED <<mq, wq>>
    /\ UNCHANGED owner

\* sthread_user_monitor_signal: move the first waiter to the mutex queue.
MonitorSignal(m, t) ==
    /\ IF owner[m] = t /\ wq[m] # <<>>
         THEN /\ mq' = [mq EXCEPT ![m] = Append(@, Head(wq[m]))]
              /\ wq' = [wq EXCEPT ![m] = Tail(@)]
         ELSE UNCHANGED <<mq, wq>>
    /\ UNCHANGED owner

\* sthread_user_monitor_signalall: move every waiter to the mutex queue.
MonitorSignalAll(m, t) ==
    /\ IF owner[m] = t
         THEN /\ mq' = [mq EXCEPT ![m] = @ \o wq[m]]
              /\ wq' = [wq EXCEPT ![m] = <<>>]
         ELSE UNCHANGED <<mq, wq>>
    /\ UNCHANGED owner

SyncTypeOK ==
    /\ owner \in [Mons -> Threads \cup {NoThread}]
    /\ mq \in [Mons -> Seq(Threads)]
    /\ wq \in [Mons -> Seq(Threads)]

=============================================================================
