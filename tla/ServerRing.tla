----------------------------- MODULE ServerRing -----------------------------
(***************************************************************************)
(* The request ring of the SNFS server (server.c): one producer thread     *)
(* (thread_producer) receives datagrams and puts them in a ring of         *)
(* RING_SIZE slots, NUM_TC consumer threads (thread_consumer) take them    *)
(* out, serve them and answer.  The ring, its two static positions         *)
(* (get_req, put_req) and available_reqs are shared, and every access to   *)
(* them is made inside the one monitor mon, built on the sthread monitor   *)
(* of SThreadSync.                                                         *)
(*                                                                         *)
(* Threads are preempted by the time slicer between any two statements;    *)
(* statements that touch only shared state the monitor protects are       *)
(* grouped into one step, each monitor call is a step of its own.  A       *)
(* request is the number of its datagram; serving it (the snfs.c handler   *)
(* and the file-system gate, modelled in RWGate) is one step.              *)
(***************************************************************************)
EXTENDS Integers, FiniteSets, Sequences, SequencesExt, SThreadSync

CONSTANTS Producer,    \* the thread running thread_producer
          Consumers,   \* the NUM_TC threads running thread_consumer
          RING_SIZE,   \* slots of the ring (server.c: 10)
          MaxDatagrams,\* datagrams the clients send (bound)
          Empty,       \* datagrams that arrive with no payload
          NoReq        \* the NULL of a ring slot never written

ASSUME Threads = {Producer} \cup Consumers /\ Producer \notin Consumers
ASSUME Mons = {"mon"}
ASSUME RING_SIZE \in Nat \ {0}
ASSUME Empty \subseteq 1..MaxDatagrams

Reqs == 1..MaxDatagrams
Slots == 0..(RING_SIZE - 1)

VARIABLES pc,        \* pc[t]: the next statement of thread t
          req_d,     \* req_d[t]: the request descriptor thread t holds
          ring,      \* ring[i]: the request in slot i
          getPos,    \* the static pos of get_req
          putPos,    \* the static pos of put_req
          available_reqs,
          recvd,     \* datagrams taken from the socket so far
          accepted,  \* history: non-empty requests the producer received, in order
          taken      \* history: requests consumers have taken from the ring

ringVars == <<ring, getPos, putPos, available_reqs>>
histVars == <<recvd, accepted, taken>>
vars == <<pc, req_d, ringVars, histVars, syncVars>>

\* main: available_reqs = 0, the monitor is initialised, and the consumers
\* and the producer are created and start at the top of their loops.
Init ==
    /\ SyncInit
    /\ pc = [t \in Threads |-> IF t = Producer THEN "p_enter" ELSE "c_enter"]
    /\ req_d = [t \in Threads |-> NoReq]
    /\ ring = [i \in Slots |-> NoReq]
    /\ getPos = 0
    /\ putPos = 0
    /\ available_reqs = 0
    /\ recvd = 0
    /\ accepted = <<>>
    /\ taken = {}

Goto(t, l) == pc' = [pc EXCEPT ![t] = l]

\* The static pos of get_req and of put_req moves to the next slot.
NextPos(pos) == (pos + 1) % RING_SIZE

(***************************************************************************)
(* thread_consumer (server.c:187-233)                                      *)
(***************************************************************************)
ConsumerEnter(t) ==
    /\ pc[t] = "c_enter"
    /\ MutexLock("mon", t)
    /\ Goto(t, "c_check")
    /\ UNCHANGED <<req_d, ringVars, histVars>>

\* while (!available_reqs) sthread_monitor_wait(mon); a woken waiter
\* resumes here owning the mutex.
ConsumerCheck(t) ==
    /\ pc[t] = "c_check"
    /\ IF available_reqs = 0
         THEN MonitorWait("mon", t) /\ UNCHANGED pc
         ELSE Goto(t, "c_get") /\ UNCHANGED syncVars
    /\ UNCHANGED <<req_d, ringVars, histVars>>

\* Mutant of ConsumerGet: available_reqs is not decremented.
ConsumerGetNoDecrement(t) ==
    /\ pc[t] = "c_get"
    /\ req_d' = [req_d EXCEPT ![t] = ring[getPos]]
    /\ getPos' = NextPos(getPos)
    /\ taken' = taken \cup {ring[getPos]}
    /\ MonitorSignal("mon", t)
    /\ Goto(t, "c_exit")
    /\ UNCHANGED <<ring, putPos, available_reqs, recvd, accepted>>

\* get_req, available_reqs-- and sthread_monitor_signal(mon).
ConsumerGet(t) ==
    /\ pc[t] = "c_get"
    /\ req_d' = [req_d EXCEPT ![t] = ring[getPos]]
    /\ getPos' = NextPos(getPos)
    /\ available_reqs' = available_reqs - 1
    /\ taken' = taken \cup {ring[getPos]}
    /\ MonitorSignal("mon", t)
    /\ Goto(t, "c_exit")
    /\ UNCHANGED <<ring, putPos, recvd, accepted>>

ConsumerExit(t) ==
    /\ pc[t] = "c_exit"
    /\ MutexUnlock("mon", t)
    /\ Goto(t, "c_serve")
    /\ UNCHANGED <<req_d, ringVars, histVars>>

\* Find the handler, run it, srv_send_response, free and yield.
ConsumerServe(t) ==
    /\ pc[t] = "c_serve"
    /\ req_d' = [req_d EXCEPT ![t] = NoReq]
    /\ Goto(t, "c_enter")
    /\ UNCHANGED <<ringVars, recvd, accepted, taken, syncVars>>

(***************************************************************************)
(* thread_producer (server.c:240-266)                                      *)
(***************************************************************************)
ProducerEnter(t) ==
    /\ pc[t] = "p_enter"
    /\ MutexLock("mon", t)
    /\ Goto(t, "p_check")
    /\ UNCHANGED <<req_d, ringVars, histVars>>

\* Mutant of ProducerCheck: the full test is off by one (>), so the
\* producer goes on with every slot taken.
ProducerCheckPastFull(t) ==
    /\ pc[t] = "p_check"
    /\ IF available_reqs > RING_SIZE
         THEN MonitorWait("mon", t) /\ UNCHANGED pc
         ELSE Goto(t, "p_exit") /\ UNCHANGED syncVars
    /\ UNCHANGED <<req_d, ringVars, histVars>>

\* while (available_reqs == RING_SIZE) sthread_monitor_wait(mon);
ProducerCheck(t) ==
    /\ pc[t] = "p_check"
    /\ IF available_reqs = RING_SIZE
         THEN MonitorWait("mon", t) /\ UNCHANGED pc
         ELSE Goto(t, "p_exit") /\ UNCHANGED syncVars
    /\ UNCHANGED <<req_d, ringVars, histVars>>

ProducerExit(t) ==
    /\ pc[t] = "p_exit"
    /\ MutexUnlock("mon", t)
    /\ Goto(t, "p_recv")
    /\ UNCHANGED <<req_d, ringVars, histVars>>

\* malloc, srv_recv_request (my_recvfrom polls with yield until a
\* datagram is there); a datagram of size 0 makes the loop continue,
\* leaking the descriptor.
ProducerRecv(t) ==
    /\ pc[t] = "p_recv"
    /\ recvd < MaxDatagrams
    /\ recvd' = recvd + 1
    /\ IF recvd' \in Empty
         THEN /\ Goto(t, "p_enter")
              /\ UNCHANGED <<req_d, accepted>>
         ELSE /\ req_d' = [req_d EXCEPT ![t] = recvd']
              /\ accepted' = Append(accepted, recvd')
              /\ Goto(t, "p_enter2")
    /\ UNCHANGED <<ringVars, taken, syncVars>>

\* The monitor is entered again to hand the request over.
ProducerEnterPut(t) ==
    /\ pc[t] = "p_enter2"
    /\ MutexLock("mon", t)
    /\ Goto(t, "p_put")
    /\ UNCHANGED <<req_d, ringVars, histVars>>

\* Mutant of ProducerPut: put_req does not advance its position, so the
\* next request overwrites this one.
ProducerPutSamePos(t) ==
    /\ pc[t] = "p_put"
    /\ ring' = [ring EXCEPT ![putPos] = req_d[t]]
    /\ available_reqs' = available_reqs + 1
    /\ MonitorSignalAll("mon", t)
    /\ Goto(t, "p_exit2")
    /\ UNCHANGED <<req_d, getPos, putPos, histVars>>

\* put_req, available_reqs++ and sthread_monitor_signalall(mon).
ProducerPut(t) ==
    /\ pc[t] = "p_put"
    /\ ring' = [ring EXCEPT ![putPos] = req_d[t]]
    /\ putPos' = NextPos(putPos)
    /\ available_reqs' = available_reqs + 1
    /\ MonitorSignalAll("mon", t)
    /\ Goto(t, "p_exit2")
    /\ UNCHANGED <<req_d, getPos, histVars>>

\* sthread_monitor_exit(mon) and sthread_yield, back to the top.
ProducerExitPut(t) ==
    /\ pc[t] = "p_exit2"
    /\ MutexUnlock("mon", t)
    /\ Goto(t, "p_enter")
    /\ UNCHANGED <<req_d, ringVars, histVars>>

-----------------------------------------------------------------------------

ConsumerStep(t) ==
    \/ ConsumerEnter(t) \/ ConsumerCheck(t) \/ ConsumerGet(t)
    \/ ConsumerExit(t) \/ ConsumerServe(t)

ProducerStep(t) ==
    \/ ProducerEnter(t) \/ ProducerCheck(t) \/ ProducerExit(t)
    \/ ProducerRecv(t) \/ ProducerEnterPut(t) \/ ProducerPut(t)
    \/ ProducerExitPut(t)

Step(t) ==
    /\ ~Blocked(t)
    /\ \/ t = Producer /\ ProducerStep(t)
       \/ t \in Consumers /\ ConsumerStep(t)

\* The clients have sent every datagram: my_recvfrom polls for ever,
\* which changes nothing.
Polling ==
    /\ pc[Producer] = "p_recv"
    /\ recvd = MaxDatagrams
    /\ UNCHANGED vars

Next == (\E t \in Threads : Step(t)) \/ Polling

\* Only safety is checked: ConsumerServe stands for a handler that can
\* block in the gate for good (RWGate), so no fairness is assumed.
Spec == Init /\ [][Next]_vars

-----------------------------------------------------------------------------

TypeOK ==
    /\ SyncTypeOK
    /\ pc \in [Threads -> {"c_enter", "c_check", "c_get", "c_exit", "c_serve",
                           "p_enter", "p_check", "p_exit", "p_recv",
                           "p_enter2", "p_put", "p_exit2"}]
    /\ req_d \in [Threads -> Reqs \cup {NoReq}]
    /\ ring \in [Slots -> Reqs \cup {NoReq}]
    /\ {getPos, putPos} \subseteq Slots
    /\ available_reqs \in 0..RING_SIZE
    /\ recvd \in 0..MaxDatagrams
    /\ accepted \in Seq(Reqs)
    /\ taken \subseteq Reqs \cup {NoReq}

\* The requests waiting in the ring, read from get_req's position on.
Pending == [i \in 1..available_reqs |-> ring[(getPos + i - 1) % RING_SIZE]]

\* The ring is a FIFO queue that loses, repeats and reorders nothing: the
\* consumers have taken exactly the first requests the producer received,
\* the ring holds the next available_reqs of them in get_req's order, and
\* the one the producer holds between srv_recv_request and put_req is the
\* last.  This ties the two static positions of get_req and put_req, the
\* counter and the waits of both loops together: a wrong bound in a while,
\* an if for a while, or a lost update of the counter breaks it.
RingFIFO ==
    LET n == Cardinality(taken)
        held == IF pc[Producer] \in {"p_enter2", "p_put"} THEN 1 ELSE 0
    IN /\ taken = ToSet(SubSeq(accepted, 1, n))
       /\ Pending = SubSeq(accepted, n + 1, n + available_reqs)
       /\ Len(accepted) = n + available_reqs + held

=============================================================================
