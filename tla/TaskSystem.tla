----------------------------- MODULE TaskSystem -----------------------------
(***************************************************************************)
(* The cooperative task system under the native tunnel (hev-task-system):  *)
(* the run queue ordered by scheduling keys, waking and waiting, the timer *)
(* behind hev_task_sleep, the mutex, and joining a task.                   *)
(*                                                                         *)
(* A step is what the kernel or the current task does up to its next call  *)
(* of the task system; nothing preempts it.  Tasks are free programs: the  *)
(* current one may make any call that its state allows.                    *)
(*                                                                         *)
(* Two abstractions.  Only differences of scheduling keys matter, so they  *)
(* are kept relative to the smallest one on the queue.  A red-black tree   *)
(* is the sorted sequence of its nodes.                                    *)
(***************************************************************************)
EXTENDS Integers, Sequences, FiniteSets, SequencesExt, Functions

CONSTANTS
    N,                 \* the tasks are 1 .. N, in the order of their addresses
    Priority,          \* Priority[t]: next_priority of task t
    First,             \* the tasks that hev_task_system_run starts with
    MaxRuntime,        \* bound: what a run adds to the key, per priority
    MaxSleep           \* bound: milliseconds of a sleep

Task == 1 .. N

ASSUME TasksAssumption ==
    /\ N \in Nat
    /\ Priority \in [Task -> Nat \ {0}]
    /\ First \subseteq Task /\ First # {}
    /\ {MaxRuntime, MaxSleep} \subseteq Nat \ {0}

VARIABLES
    sched,             \* [queue, key, state]: running_tasks and the tasks' fields
    total,             \* total_task_count
    current,           \* current_task, 0 in the kernel
    op,                \* op[t]: the call that task t is in
    ready,             \* tasks with an event of theirs in the epoll set
    timers,            \* the timer's sort_tree: [task, rem], by expiry
    leftmost,          \* the sleeping tasks that were first when they went to sleep
    locker, waiters,   \* the mutex: its flag and its stack of waiters
    holders,           \* tasks between lock and unlock
    joiner             \* joiner[t]: who joins task t, 0 nobody

kernVars == <<sched, total, current, op>>
timeVars == <<ready, timers, leftmost>>
syncVars == <<locker, waiters, holders, joiner>>
vars == <<kernVars, timeVars, syncVars>>

States == {"STOPPED", "RUNNING", "WAITING"}

Ops == {"none", "io", "sleep", "lock", "join"}

-----------------------------------------------------------------------------
(***************************************************************************)
(* The run queue.                                                          *)
(***************************************************************************)

\* hev_task_system_get_min_sched_key.
MinKey(s) == IF s.queue = <<>> THEN 0 ELSE s.key[Head(s.queue)]

\* hev_rbtree_cached_erase of the node of t.
Erased(q, t) == RemoveAt(q, CHOOSE i \in DOMAIN q : q[i] = t)

\* _hev_task_system_insert_task: behind the tasks with the same key.
Queued(s, t) ==
    LET n == Cardinality({i \in DOMAIN s.queue : s.key[s.queue[i]] <= s.key[t]})
    IN  [s EXCEPT !.queue = InsertAt(@, n + 1, t)]

WakeMutant(s, t) ==                              \* the key is not advanced
    CASE s.state[t] = "RUNNING" -> s
      [] s.state[t] = "STOPPED" -> [s EXCEPT !.state[t] = "ABORTED"]
      [] OTHER -> Queued([s EXCEPT !.state[t] = "RUNNING", !.key[t] = MinKey(s)], t)

\* hev_task_system_wakeup_task_with_context; waking a stopped task aborts.
Wake(s, t) ==
    CASE s.state[t] = "RUNNING" -> s
      [] s.state[t] = "STOPPED" -> [s EXCEPT !.state[t] = "ABORTED"]
      [] OTHER -> Queued([s EXCEPT !.state[t] = "RUNNING",
                                   !.key[t] = @ + MinKey(s)], t)

SwitchedMutant(s, t, n) ==                       \* not queued again
    [s EXCEPT !.key[t] = @ + n * Priority[t]]

\* HEV_TASK_SCHED_SWITCH after a run of n: a new key, and into the queue again.
Switched(s, t, n) ==
    Queued([s EXCEPT !.key[t] = @ + n * Priority[t],
                     !.queue = Erased(@, t)], t)

\* HEV_TASK_SCHED_WAITIO.
Parked(s, t) ==
    [s EXCEPT !.state[t] = "WAITING", !.key[t] = Priority[t],
              !.queue = Erased(@, t)]

\* HEV_TASK_SCHED_REMOVE.
Stopped(s, t) ==
    [s EXCEPT !.state[t] = "STOPPED", !.key[t] = Priority[t],
              !.queue = Erased(@, t)]

\* hev_task_run and hev_task_system_run_new_task, by the current task.
Started(s, t) ==
    Queued([s EXCEPT !.state[t] = "RUNNING", !.key[t] = Priority[t] + MinKey(s)], t)

Relative(s) ==
    [s EXCEPT !.key = [t \in Task |-> IF s.state[t] = "RUNNING"
                                        THEN @[t] - MinKey(s) ELSE @[t]]]

-----------------------------------------------------------------------------
(***************************************************************************)
(* The timer.                                                              *)
(***************************************************************************)

\* Where hev_task_timer_wait puts a new node: by expiry, then by address.
TimerPos(t, ms) ==
    1 + Cardinality({i \in DOMAIN timers :
          \/ timers[i].rem < ms
          \/ timers[i].rem = ms /\ timers[i].task < t})

\* hev_task_timer_wakeup: the first node's task, if it has expired.
TimerWake(s, tree) ==
    IF tree # <<>> /\ Head(tree).rem = 0 THEN Wake(s, Head(tree).task) ELSE s

-----------------------------------------------------------------------------
Init ==
    /\ \E q \in SetToSeqs(First) :
         /\ \A i, j \in DOMAIN q : i < j => Priority[q[i]] <= Priority[q[j]]
         /\ sched = [queue |-> q,
                     key |-> Priority,
                     state |-> [t \in Task |-> IF t \in First THEN "RUNNING"
                                                              ELSE "STOPPED"]]
    /\ total = Cardinality(First)
    /\ current = 0
    /\ op = [t \in Task |-> "none"]
    /\ ready = {} /\ timers = <<>> /\ leftmost = {}
    /\ locker = FALSE /\ waiters = <<>> /\ holders = {}
    /\ joiner = [t \in Task |-> 0]

-----------------------------------------------------------------------------
(***************************************************************************)
(* The kernel.                                                             *)
(***************************************************************************)

\* The tasks of order are woken one after the other.
AllWoken(s, order) ==
    LET after[i \in 0 .. Len(order)] == IF i = 0 THEN s ELSE Wake(after[i - 1], order[i])
    IN  after[Len(order)]

Polled(order) == TimerWake(AllWoken(sched, order), timers)

\* hev_task_system_pick_current_task, with hev_task_system_io_poll if a task
\* waits.  With an empty queue it polls until the queue is not empty.
Pick ==
    /\ current = 0 /\ total > 0
    /\ IF Len(sched.queue) < total
         THEN \E order \in SetToSeqs(ready) :
                /\ sched' = Relative(Polled(order))
                /\ ready' = {}
         ELSE sched' = Relative(sched) /\ UNCHANGED ready
    /\ sched'.queue # <<>>
    /\ current' = Head(sched'.queue)
    /\ UNCHANGED <<total, op, timers, leftmost, syncVars>>

\* The current task gives the processor back, parked in a call or not.
Leaves(t, call, s) ==
    /\ current' = 0
    /\ op' = [op EXCEPT ![t] = call]
    /\ sched' = s

User(t) == current = t /\ op[t] = "none"

-----------------------------------------------------------------------------
(***************************************************************************)
(* Calls of the current task.                                              *)
(***************************************************************************)

Yield(t, n) ==
    /\ User(t)
    /\ Leaves(t, "none", Switched(sched, t, n))
    /\ UNCHANGED <<total, timeVars, syncVars>>

\* An I/O call that found nothing waits for the descriptor's next edge.
WaitIO(t) ==
    /\ User(t)
    /\ Leaves(t, "io", Parked(sched, t))
    /\ UNCHANGED <<total, timeVars, syncVars>>

WaitIOReturns(t) ==
    /\ current = t /\ op[t] = "io"
    /\ op' = [op EXCEPT ![t] = "none"]
    /\ UNCHANGED <<sched, total, current, timeVars, syncVars>>

\* hev_task_sleep and hev_task_timer_wait up to its yield.
Sleep(t, ms) ==
    /\ User(t)
    /\ LET pos == TimerPos(t, ms)
       IN  /\ timers' = InsertAt(timers, pos, [task |-> t, rem |-> ms])
           /\ leftmost' = IF pos = 1 THEN leftmost \cup {t} ELSE leftmost
    /\ Leaves(t, "sleep", Parked(sched, t))
    /\ UNCHANGED <<total, ready, syncVars>>

\* Whether a task that leaves the timer wakes the next expired one.
WakesNext(t) == t \in leftmost \/ Head(timers).task = t

\* The rest of hev_task_timer_wait, woken by the timer or by anyone else.
SleepReturns(t) ==
    /\ current = t /\ op[t] = "sleep"
    /\ LET rest == RemoveAt(timers, CHOOSE i \in DOMAIN timers : timers[i].task = t)
       IN  /\ timers' = rest
           /\ sched' = IF WakesNext(t) THEN TimerWake(sched, rest) ELSE sched
    /\ leftmost' = leftmost \ {t}
    /\ op' = [op EXCEPT ![t] = "none"]
    /\ UNCHANGED <<total, current, ready, syncVars>>

\* hev_task_mutex_lock up to its first yield.
Lock(t) ==
    /\ User(t) /\ t \notin holders
    /\ IF locker
         THEN /\ waiters' = <<t>> \o waiters
              /\ Leaves(t, "lock", Parked(sched, t))
              /\ UNCHANGED <<locker, holders>>
         ELSE /\ locker' = TRUE
              /\ holders' = holders \cup {t}
              /\ UNCHANGED <<waiters, current, op, sched>>
    /\ UNCHANGED <<total, timeVars, joiner>>

\* The condition its loop waits for.
MayLock(t) == ~locker /\ Head(waiters) = t

\* The rest of hev_task_mutex_lock.
LockResumes(t) ==
    /\ current = t /\ op[t] = "lock"
    /\ IF MayLock(t)
         THEN /\ waiters' = Tail(waiters)
              /\ locker' = TRUE
              /\ holders' = holders \cup {t}
              /\ op' = [op EXCEPT ![t] = "none"]
              /\ UNCHANGED <<current, sched>>
         ELSE /\ Leaves(t, "lock", Parked(sched, t))
              /\ UNCHANGED <<locker, waiters, holders>>
    /\ UNCHANGED <<total, timeVars, joiner>>

UnlockMutant(t) ==                               \* wakes the oldest waiter
    /\ User(t) /\ t \in holders
    /\ locker' = FALSE
    /\ holders' = holders \ {t}
    /\ sched' = IF waiters = <<>> THEN sched ELSE Wake(sched, Last(waiters))
    /\ UNCHANGED <<total, current, op, timeVars, waiters, joiner>>

\* hev_task_mutex_unlock.
Unlock(t) ==
    /\ User(t) /\ t \in holders
    /\ locker' = FALSE
    /\ holders' = holders \ {t}
    /\ sched' = IF waiters = <<>> THEN sched ELSE Wake(sched, Head(waiters))
    /\ UNCHANGED <<total, current, op, timeVars, waiters, joiner>>

\* hev_task_wakeup of a task that is known to live; it does nothing to a
\* running one.
Wakeup(t, u) ==
    /\ User(t) /\ sched.state[u] = "WAITING"
    /\ sched' = Wake(sched, u)
    /\ UNCHANGED <<total, current, op, timeVars, syncVars>>

\* hev_task_run of a new task.
Run(t, u) ==
    /\ User(t) /\ sched.state[u] = "STOPPED" /\ joiner[u] = 0
    /\ sched' = Started(sched, u)
    /\ total' = total + 1
    /\ UNCHANGED <<current, op, timeVars, syncVars>>

\* hev_task_join of task u: woken, so that it looks at its condition again, and
\* waited for.
Join(t, u) ==
    /\ User(t) /\ u # t /\ joiner[u] = 0
    /\ IF sched.state[u] = "STOPPED"
         THEN UNCHANGED <<sched, current, op, joiner>>
         ELSE /\ joiner' = [joiner EXCEPT ![u] = t]
              /\ Leaves(t, "join", Parked(Wake(sched, u), t))
    /\ UNCHANGED <<total, timeVars, locker, waiters, holders>>

JoinResumes(t) ==
    /\ current = t /\ op[t] = "join"
    /\ \E u \in Task :
         /\ joiner[u] = t
         /\ IF sched.state[u] = "STOPPED"
              THEN /\ joiner' = [joiner EXCEPT ![u] = 0]
                   /\ op' = [op EXCEPT ![t] = "none"]
                   /\ UNCHANGED <<current, sched>>
              ELSE /\ Leaves(t, "join", Parked(Wake(sched, u), t))
                   /\ UNCHANGED joiner
    /\ UNCHANGED <<total, timeVars, locker, waiters, holders>>

ExitMutant(t) ==                                 \* the joiner is not woken
    /\ User(t) /\ t \notin holders
    /\ Leaves(t, "none", Stopped(sched, t))
    /\ total' = total - 1
    /\ ready' = ready \ {t}
    /\ UNCHANGED <<timers, leftmost, syncVars>>

\* The end of hev_task_executer: the joiner is woken, the task removed.  Its
\* descriptors are closed.
Exit(t) ==
    /\ User(t) /\ t \notin holders
    /\ Leaves(t, "none",
         Stopped(IF joiner[t] = 0 THEN sched ELSE Wake(sched, joiner[t]), t))
    /\ total' = total - 1
    /\ ready' = ready \ {t}
    /\ UNCHANGED <<timers, leftmost, syncVars>>

-----------------------------------------------------------------------------
(***************************************************************************)
(* Outside: an edge on a descriptor of a task, and time.                   *)
(***************************************************************************)

\* An edge that comes while the task runs is not seen before the next poll: it
\* is as if it came when the task has parked.
Edge(t) ==
    /\ sched.state[t] = "WAITING" /\ t \notin ready
    /\ ready' = ready \cup {t}
    /\ UNCHANGED <<kernVars, timers, leftmost, syncVars>>

Tick ==
    /\ \E i \in DOMAIN timers : timers[i].rem > 0
    /\ timers' = [i \in DOMAIN timers |->
                    [timers[i] EXCEPT !.rem = IF @ > 0 THEN @ - 1 ELSE 0]]
    /\ UNCHANGED <<kernVars, ready, leftmost, syncVars>>

-----------------------------------------------------------------------------
Resumes(t) == WaitIOReturns(t) \/ SleepReturns(t) \/ LockResumes(t) \/ JoinResumes(t)

Next ==
    \/ Pick
    \/ \E t \in Task :
         \/ Resumes(t) \/ WaitIO(t) \/ Lock(t) \/ Unlock(t) \/ Exit(t)
         \/ \E n \in 1 .. MaxRuntime : Yield(t, n)
         \/ \E ms \in 1 .. MaxSleep : Sleep(t, ms)
         \/ \E u \in Task : Wakeup(t, u) \/ Run(t, u) \/ Join(t, u)
    \/ \E t \in Task : Edge(t)
    \/ Tick

\* Something is runnable, or the poll finds something.
CanPick ==
    /\ current = 0 /\ total > 0
    /\ \/ sched.queue # <<>>
       \/ ready # {}
       \/ timers # <<>> /\ Head(timers).rem = 0

\* The kernel does not stop before it can pick, the current task yields in the
\* end, as every loop of the tunnel does, and time passes.  The first two are
\* weak fairness of Pick and of the current task's way to its next yield,
\* spelled out.  No event has to come.
Fairness ==
    /\ []<>(~CanPick)
    /\ []<>(current = 0)
    /\ WF_vars(Tick)

Spec == Init /\ [][Next]_vars /\ Fairness

-----------------------------------------------------------------------------
TypeOK ==
    /\ sched.state \in [Task -> States]
    /\ sched.queue \in Seq(Task)
    /\ DOMAIN sched.key = Task /\ \A t \in Task : sched.key[t] \in Nat
    /\ total \in 0 .. N
    /\ current \in 0 .. N
    /\ op \in [Task -> Ops]
    /\ ready \subseteq Task /\ leftmost \subseteq Task /\ holders \subseteq Task
    /\ timers \in Seq([task : Task, rem : 0 .. MaxSleep])
    /\ locker \in BOOLEAN /\ waiters \in Seq(Task)
    /\ joiner \in [Task -> 0 .. N]

\* The scheduler's two books agree: the queue holds every running task once, in
\* the order of the keys, with the current one first; the count of tasks, which
\* decides whether to poll and when to return, is the number that have not
\* stopped; and no stopped task was ever woken (the abort in wakeup).
QueueSound ==
    /\ TypeOK
    /\ IsInjective(sched.queue)
    /\ ToSet(sched.queue) = {t \in Task : sched.state[t] = "RUNNING"}
    /\ \A i, j \in DOMAIN sched.queue :
         i < j => sched.key[sched.queue[i]] <= sched.key[sched.queue[j]]
    /\ total = Cardinality({t \in Task : sched.state[t] # "STOPPED"})
    /\ current # 0 => sched.queue # <<>> /\ Head(sched.queue) = current

\* The mutex excludes, and an unlocked mutex that somebody waits for has woken
\* the one task that may take it: no waiter is forgotten, whoever barges in
\* between, and whatever else wakes the waiters.
MutexSound ==
    /\ Cardinality(holders) <= 1 /\ (locker <=> holders # {})
    /\ ~locker /\ waiters # <<>> => sched.state[Head(waiters)] = "RUNNING"

\* Every runnable task runs: keys of tasks that yield, sleep and are woken again
\* and again do not stay below the key of one that waits for its turn.
NoStarvation == \A t \in Task : sched.state[t] = "RUNNING" ~> current = t

\* Nobody waits for what has happened: the joiner of a stopped task has been
\* woken, and the sleepers are in the tree, each once, in the order in which they
\* expire, so that looking at the first of them is enough.
WaitersWoken ==
    /\ \A t \in Task : joiner[t] # 0 /\ sched.state[t] = "STOPPED"
                       => sched.state[joiner[t]] = "RUNNING"
    /\ \A t \in Task : Cardinality({i \in DOMAIN timers : timers[i].task = t})
                       = IF op[t] = "sleep" THEN 1 ELSE 0
    /\ \A i, j \in DOMAIN timers : i < j => timers[i].rem <= timers[j].rem
=============================================================================
