----------------------------- MODULE SThreadSched -----------------------------
(* The user-level scheduler of sthread_user.c: thread creation, exit, the  *)
(* timer dispatcher, yield, join, sleep and nice, on one processor.  The   *)
(* run tree exe_thr_arvore_rb is the pointer structure of RedBlack (one    *)
(* node per thread, the thread's tid as its node); the sleep tree is the   *)
(* queue it implements (OrderedQueue, which rb_safety shows RedBlack       *)
(* refines for the non-negative keys wake_time takes).  Every call runs    *)
(* between splx(HIGH) and splx(LOW) and is one step, except                *)
(* sthread_user_create, whose read of RBMenorChave comes before its        *)
(* splx(HIGH).  A thread switched out inside the dispatcher finishes that  *)
(* dispatcher call (++Clock and the vruntime update) when it is switched   *)
(* back in.  The exit value of a thread and the statistics (exectime,      *)
(* waittime, sleeptime) are data no decision reads and are left out.       *)
EXTENDS Integers, Sequences, FiniteSets, SequencesExt

CONSTANTS Threads,      \* the tids tid_gen hands out, main's 1 first
          MaxThreads,   \* the last tid a thread may be created with
          NIL, RAIZ,    \* the sentinels of the run tree
          NULL,         \* its minimo before the first insertion
          PrioInputs,   \* priorities passed to sthread_create
          NiceInputs,   \* values passed to sthread_nice
          SleepInputs,  \* times passed to sthread_sleep, in microseconds
          MaxClock      \* the timer stops firing at this Clock

VARIABLES proc,          \* "running", or how the process ended
          active,        \* active_thr
          exeNode, exeMin, exeUsed,   \* exe_thr_arvore_rb
          vruntime, priority, nice, times_runned, wake_time, join_tid,
          sleepq,        \* sleep_thr_arvore_rb, in key order
          joinq,         \* join_thr_list
          zombie, dead,  \* zombie_thr_list, dead_thr_list
          inDisp,        \* threads switched out inside the dispatcher
          creating,      \* per thread, the create it is in the middle of
          tid_gen, Clock

vars == <<proc, active, exeNode, exeMin, exeUsed, vruntime, priority, nice,
          times_runned, wake_time, join_tid, sleepq, joinq, zombie, dead,
          inDisp, creating, tid_gen, Clock>>

Exe == INSTANCE RedBlack WITH NodeIds <- Threads, Keys <- Int,
           node <- exeNode, minimo <- exeMin, used <- exeUsed

min_delay == 5
CLOCK_TICK == 10000

Created == 1 .. (tid_gen - 1)

\* The priority sthread_user_create keeps: limited to 1 .. 10.
ClampPriority(p) == IF p > 10 THEN 10 ELSE IF p < 1 THEN 1 ELSE p

\* The nice sthread_nice keeps: limited to 1 .. 10.
ClampNice(v) == IF v > 10 THEN 10 ELSE IF v < 1 THEN 1 ELSE v

\* RBInserir of each thread of s in turn, keyed by its vruntime.
RECURSIVE InserirTodos(_, _)
InserirTodos(r, s) ==
    IF s = <<>> THEN r
    ELSE InserirTodos(Exe!RBInserirNo(r.n, r.m, Head(s), vruntime[Head(s)]), Tail(s))

\* The insertion of thread t with key k into the sleep tree: behind every
\* thread whose wake_time comparar does not put above k.
SleepInsert(q, t, k) ==
    LET i == SelectInSeq(q, LAMBDA x : Exe!comparar(wake_time[x], k) = 1)
    IN IF i = 0 THEN Append(q, t) ELSE InsertAt(q, i, t)

Init ==
    /\ proc = "running"
    /\ active = 1
    /\ Exe!RBNovaArvore
    /\ vruntime = [t \in Threads |-> 0]
    /\ priority = [t \in Threads |-> 1]
    /\ nice = [t \in Threads |-> 0]
    /\ times_runned = [t \in Threads |-> 0]
    /\ wake_time = [t \in Threads |-> 0]
    /\ join_tid = [t \in Threads |-> 0]
    /\ sleepq = <<>>
    /\ joinq = <<>>
    /\ zombie = {}
    /\ dead = {}
    /\ inDisp = {}
    /\ creating = [t \in Threads |-> {}]
    /\ tid_gen = 2
    /\ Clock = 1

\* The rest of sthread_user_dispatcher, run by thread t when it goes on
\* after the yield (or at once when it did not yield): ++Clock, and once t
\* has run min_delay ticks its vruntime grows by (nice + priority) times
\* them and the count restarts.  tr is times_runned as the step left it.
DispatcherTail(t, tr) ==
    /\ Clock' = Clock + 1
    /\ IF tr[t] >= min_delay
       THEN /\ vruntime' = [vruntime EXCEPT ![t] = @ + (nice[t] + priority[t]) * tr[t]]
            /\ times_runned' = [tr EXCEPT ![t] = 0]
       ELSE /\ vruntime' = vruntime
            /\ times_runned' = tr

\* Thread t is switched in: it finishes the dispatcher call it was switched
\* out of, if any; disp is inDisp as the step left it.
Resume(t, tr, disp) ==
    IF t \in disp
    THEN DispatcherTail(t, tr) /\ inDisp' = disp \ {t}
    ELSE /\ vruntime' = vruntime /\ times_runned' = tr
         /\ Clock' = Clock /\ inDisp' = disp

\* active_thr = RBExtraiMininimo(exe) and sthread_switch, on the tree r
\* holding the threads u.  When minimo is NULL, or raiz once the tree has
\* been emptied, the extracted thread is NULL (raiz holds no thread) and
\* the switch dereferences it: the process crashes.
SwitchTo(r, u, tr, disp) ==
    IF r.m \in u
    THEN LET x == Exe!RBRemoverNo(r.n, r.m, r.m)
         IN /\ exeNode' = x.n /\ exeMin' = x.m /\ exeUsed' = u \ {r.m}
            /\ active' = r.m
            /\ proc' = proc
            /\ Resume(r.m, tr, disp)
    ELSE /\ proc' = "crashed"
         /\ exeNode' = r.n /\ exeMin' = r.m /\ exeUsed' = u
         /\ UNCHANGED <<active, vruntime, Clock>>
         /\ times_runned' = tr /\ inDisp' = disp

\* The process ends with exit(): the tree r with the threads u is left.
Halt(r, u) ==
    /\ proc' = "exited"
    /\ exeNode' = r.n /\ exeMin' = r.m /\ exeUsed' = u
    /\ UNCHANGED <<active, vruntime, times_runned, Clock, inDisp>>

\* The active thread runs its own code: it is not inside a create.
UserCall == proc = "running" /\ creating[active] = {}

Tree == [n |-> exeNode, m |-> exeMin]

NumCreating == Cardinality({t \in Threads : creating[t] # {}})

\* acordarProcessos: the sleepers whose wake_time has come, in the sleep
\* tree's order (the order the in-order walk puts them back in the run
\* tree), and those that stay.
Due == SelectSeq(sleepq, LAMBDA t : wake_time[t] <= Clock)
StillAsleep == SelectSeq(sleepq, LAMBDA t : wake_time[t] > Clock)

-----------------------------------------------------------------------------
(* The calls.                                                              *)

\* sthread_user_create, up to its splx(HIGH): the new thread's vruntime is
\* read from RBMenorChave and its priority limited, with the timer on.
CreateRead(p) ==
    /\ UserCall
    /\ tid_gen + NumCreating <= MaxThreads
    /\ creating' = [creating EXCEPT ![active] =
                      {[vr |-> Exe!RBMenorChave(exeNode, exeMin), prio |-> ClampPriority(p)]}]
    /\ UNCHANGED <<proc, active, exeNode, exeMin, exeUsed, vruntime, priority,
                   nice, times_runned, wake_time, join_tid, sleepq, joinq,
                   zombie, dead, inDisp, tid_gen, Clock>>

\* The rest of sthread_user_create, under splx(HIGH): tid_gen++ and
\* RBInserir with the vruntime read before.
CreateInsert ==
    /\ proc = "running"
    /\ creating[active] # {}
    /\ LET c == CHOOSE x \in creating[active] : TRUE
           t == tid_gen
           r == Exe!RBInserirNo(exeNode, exeMin, t, c.vr)
       IN /\ exeNode' = r.n /\ exeMin' = r.m /\ exeUsed' = exeUsed \cup {t}
          /\ vruntime' = [vruntime EXCEPT ![t] = c.vr]
          /\ priority' = [priority EXCEPT ![t] = c.prio]
    /\ tid_gen' = tid_gen + 1
    /\ creating' = [creating EXCEPT ![active] = {}]
    /\ UNCHANGED <<proc, active, nice, times_runned, wake_time, join_tid,
                   sleepq, joinq, zombie, dead, inDisp, Clock>>

\* sthread_user_exit: every thread of join_thr_list joined on the active
\* one goes back into the run tree (in list order); the thread goes to the
\* dead list if one did, to the zombies if none; then the process exits
\* when the run tree is empty, or the least thread is switched in.
Exit ==
    /\ UserCall
    /\ LET me == active
           joiners == SelectSeq(joinq, LAMBDA t : join_tid[t] = me)
           r == InserirTodos(Tree, joiners)
           u == exeUsed \cup ToSet(joiners)
       IN /\ joinq' = SelectSeq(joinq, LAMBDA t : join_tid[t] # me)
          /\ zombie' = IF joiners = <<>> THEN zombie \cup {me} ELSE zombie
          /\ dead' = IF joiners = <<>> THEN dead ELSE dead \cup {me}
          /\ IF Exe!RBArvoreVazia(r.n) THEN Halt(r, u) ELSE SwitchTo(r, u, times_runned, inDisp)
    /\ UNCHANGED <<priority, nice, wake_time, join_tid, sleepq, creating, tid_gen>>

\* A timer tick, sthread_user_dispatcher up to the yield: times_runned++,
\* acordarProcessos moves every sleeper whose wake_time has come into the
\* run tree (in the sleep tree's order, wake_time reset), and the thread
\* yields when vruntime + (nice + priority) * times_runned is not below
\* RBMenorChave; it finishes the call when it runs again.
Tick ==
    /\ proc = "running"
    /\ Clock < MaxClock
    /\ LET me == active
           tr == [times_runned EXCEPT ![me] = @ + 1]
           r == InserirTodos(Tree, Due)
           u == exeUsed \cup ToSet(Due)
           tempV == vruntime[me] + (nice[me] + priority[me]) * tr[me]
       IN /\ sleepq' = StillAsleep
          /\ wake_time' = [t \in Threads |-> IF t \in ToSet(Due) THEN 0 ELSE wake_time[t]]
          /\ IF tempV >= Exe!RBMenorChave(r.n, r.m)
             THEN SwitchTo(Exe!RBInserirNo(r.n, r.m, me, vruntime[me]),
                           u \cup {me}, tr, inDisp \cup {me})
             ELSE /\ exeNode' = r.n /\ exeMin' = r.m /\ exeUsed' = u
                  /\ UNCHANGED <<proc, active, inDisp>>
                  /\ DispatcherTail(me, tr)
    /\ UNCHANGED <<priority, nice, join_tid, joinq, zombie, dead, creating, tid_gen>>

\* sthread_user_yield called by the thread: it goes into the run tree and
\* the least thread (perhaps itself) is switched in.
Yield ==
    /\ UserCall
    /\ SwitchTo(Exe!RBInserirNo(exeNode, exeMin, active, vruntime[active]),
                exeUsed \cup {active}, times_runned, inDisp)
    /\ UNCHANGED <<priority, nice, wake_time, join_tid, sleepq, joinq, zombie,
                   dead, creating, tid_gen>>

\* sthread_user_join of a zombie x: x moves to the dead list and the call
\* returns at once.
JoinZombie(x) ==
    /\ UserCall
    /\ x \in zombie
    /\ zombie' = zombie \ {x}
    /\ dead' = dead \cup {x}
    /\ UNCHANGED <<proc, active, exeNode, exeMin, exeUsed, vruntime, priority,
                   nice, times_runned, wake_time, join_tid, sleepq, joinq,
                   inDisp, creating, tid_gen, Clock>>

\* sthread_user_join of any other thread x: the search sets found, and the
\* stray `;` after the sleep-tree test sets it whatever the searches say,
\* so the caller always records join_tid, joins join_thr_list and switches
\* to the least thread, even for a thread that is dead or is itself.
JoinBlock(x) ==
    /\ UserCall
    /\ x \notin zombie
    /\ join_tid' = [join_tid EXCEPT ![active] = x]
    /\ joinq' = Append(joinq, active)
    /\ SwitchTo(Tree, exeUsed, times_runned, inDisp)
    /\ UNCHANGED <<priority, nice, wake_time, sleepq, zombie, dead, creating, tid_gen>>

\* sthread_user_sleep(time) for at least one tick: wake_time is set, the
\* thread enters the sleep tree, and the process exits with -1 when no
\* thread is runnable, else the least one is switched in.  Below one tick
\* the call returns without a change.
Sleep(time) ==
    /\ UserCall
    /\ time \div CLOCK_TICK > 0
    /\ LET w == Clock + time \div CLOCK_TICK
       IN /\ wake_time' = [wake_time EXCEPT ![active] = w]
          /\ sleepq' = SleepInsert(sleepq, active, w)
    /\ IF Exe!RBArvoreVazia(exeNode) THEN Halt(Tree, exeUsed)
       ELSE SwitchTo(Tree, exeUsed, times_runned, inDisp)
    /\ UNCHANGED <<priority, nice, join_tid, joinq, zombie, dead, creating, tid_gen>>

\* sthread_nice(v): the active thread's nice, limited to 1 .. 10.
Nice(v) ==
    /\ UserCall
    /\ nice' = [nice EXCEPT ![active] = ClampNice(v)]
    /\ UNCHANGED <<proc, active, exeNode, exeMin, exeUsed, vruntime, priority,
                   times_runned, wake_time, join_tid, sleepq, joinq, zombie,
                   dead, inDisp, creating, tid_gen, Clock>>

Next ==
    \/ \E p \in PrioInputs : CreateRead(p)
    \/ CreateInsert
    \/ Exit
    \/ Tick
    \/ Yield
    \/ \E x \in Created : JoinZombie(x) \/ JoinBlock(x)
    \/ \E s \in SleepInputs : Sleep(s)
    \/ \E v \in NiceInputs : Nice(v)

Spec == Init /\ [][Next]_vars

-----------------------------------------------------------------------------
(* Properties.                                                             *)

SchedTypeOK ==
    /\ proc \in {"running", "exited", "crashed"}
    /\ active \in Threads
    /\ exeUsed \subseteq Created
    /\ vruntime \in [Threads -> Int]
    /\ sleepq \in Seq(Created)
    /\ joinq \in Seq(Created)
    /\ zombie \cup dead \subseteq Created
    /\ inDisp \subseteq Created

\* The thread RBExtraiMininimo hands the processor to next holds the least
\* vruntime of the runnable threads: sthread_user_create gives a new thread
\* RBMenorChave, "the time of the thread of highest priority" (comment at
\* sthread_user.c:154), and the dispatcher, yield, exit, join and sleep
\* all switch to the tree's minimum.
NextIsLeast ==
    (proc = "running" /\ exeUsed # {}) =>
        /\ exeMin \in exeUsed
        /\ \A t \in exeUsed : vruntime[exeMin] <= vruntime[t]
======================================================================================================================================================
