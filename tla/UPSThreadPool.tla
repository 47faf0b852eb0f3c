---------------------------- MODULE UPSThreadPool ----------------------------
(***************************************************************************)
(* The thread pool of Mini_UPS/server: a mutex, a condition variable and    *)
(* workers that look at the queue once without the mutex.  The owner (the   *)
(* main thread of the server) assigns tasks and in the end destroys the     *)
(* pool.  A task that cannot be queued may be offered again.                *)
(***************************************************************************)
EXTENDS Naturals, Sequences, FiniteSets

CONSTANTS
  Tasks,      \* the tasks that are offered
  NoTask,     \* a worker that runs none
  Workers,    \* max_threads of them
  MaxTasks,   \* max_tasks
  NoThread    \* the mutex is free

ASSUME PoolAssumption ==
  /\ IsFiniteSet(Workers) /\ Workers # {} /\ MaxTasks \in Nat
  /\ NoTask \notin Tasks /\ NoThread \notin Workers

VARIABLES
  m_tasks,    \* the queue
  run_flag,
  m_lock,     \* the worker that holds the mutex
  stage,      \* where each worker is in run_task
  task,       \* the task each worker runs
  owner,      \* where the owner is
  accepted,   \* history: the tasks assign_task took
  done        \* history: the tasks that ran to their end

vars == <<m_tasks, run_flag, m_lock, stage, task, owner, accepted, done>>

Stages == {"loop", "flag down", "lock", "locked", "dozing", "waiting", "running", "exited"}

Waiting == {w \in Workers : stage[w] = "waiting"}

\* Workers that will look at the queue before they sleep or run anything.
Awake == {w \in Workers : stage[w] \notin {"waiting", "running", "exited"}}

GoTo(w, s) == stage' = [stage EXCEPT ![w] = s]

-----------------------------------------------------------------------------
(* The owner.  It holds the mutex for one step at a time.                     *)

\* Faulty forms: nobody is woken; a full queue takes one more task; the destructor
\* lowers the flag without the mutex.
WakeNone == UNCHANGED stage
notify_one ==
  IF Waiting = {} THEN UNCHANGED stage
  ELSE \E w \in Waiting : GoTo(w, "lock")

RoomAtLimit == Len(m_tasks) <= MaxTasks
HasRoom == Len(m_tasks) < MaxTasks

NoMutex == TRUE
MutexFree == m_lock = NoThread

assign_task(t) ==
  /\ owner = "assigning" /\ t \notin accepted
  /\ m_lock = NoThread
  /\ HasRoom
  /\ m_tasks' = Append(m_tasks, t)
  /\ accepted' = accepted \cup {t}
  /\ notify_one
  /\ UNCHANGED <<run_flag, m_lock, task, owner, done>>

\* The destructor: the flag, the notification, the joins.
LowerFlag ==
  /\ owner = "assigning"
  /\ MutexFree
  /\ run_flag' = FALSE
  /\ owner' = "notifying"
  /\ UNCHANGED <<m_tasks, m_lock, stage, task, accepted, done>>

notify_all ==
  /\ owner = "notifying"
  /\ stage' = [w \in Workers |-> IF w \in Waiting THEN "lock" ELSE stage[w]]
  /\ owner' = "joining"
  /\ UNCHANGED <<m_tasks, run_flag, m_lock, task, accepted, done>>

Joined ==
  /\ owner = "joining"
  /\ \A w \in Workers : stage[w] = "exited"
  /\ owner' = "destroyed"
  /\ UNCHANGED <<m_tasks, run_flag, m_lock, stage, task, accepted, done>>

-----------------------------------------------------------------------------
(* run_task.  The loop reads the flag and then, if it is down, the queue, both   *)
(* without the mutex.                                                            *)

TestFlag(w) ==
  /\ stage[w] = "loop"
  /\ GoTo(w, IF run_flag THEN "lock" ELSE "flag down")
  /\ UNCHANGED <<m_tasks, run_flag, m_lock, task, owner, accepted, done>>

TestQueue(w) ==
  /\ stage[w] = "flag down"
  /\ GoTo(w, IF m_tasks = <<>> THEN "exited" ELSE "lock")
  /\ UNCHANGED <<m_tasks, run_flag, m_lock, task, owner, accepted, done>>

\* At the start of a turn, or at the end of a wait
Lock(w) ==
  /\ stage[w] = "lock"
  /\ m_lock = NoThread
  /\ m_lock' = w
  /\ GoTo(w, "locked")
  /\ UNCHANGED <<m_tasks, run_flag, task, owner, accepted, done>>

\* Faulty form: the worker leaves although tasks are queued.
FlagDown == ~run_flag
NothingToDo == ~run_flag /\ m_tasks = <<>>

Leave(w) ==
  /\ stage[w] = "locked" /\ NothingToDo
  /\ GoTo(w, "exited")
  /\ m_lock' = NoThread
  /\ UNCHANGED <<m_tasks, run_flag, task, owner, accepted, done>>

\* The condition of the wait is evaluated, and then the worker sleeps: releasing
\* the mutex and joining the sleepers is one step.
Doze(w) ==
  /\ stage[w] = "locked" /\ m_tasks = <<>> /\ run_flag
  /\ GoTo(w, "dozing")
  /\ UNCHANGED <<m_tasks, run_flag, m_lock, task, owner, accepted, done>>

Wait(w) ==
  /\ stage[w] = "dozing"
  /\ GoTo(w, "waiting")
  /\ m_lock' = NoThread
  /\ UNCHANGED <<m_tasks, run_flag, task, owner, accepted, done>>

\* A condition variable may wake a sleeper for no reason.
WakeSpuriously(w) ==
  /\ stage[w] = "waiting"
  /\ GoTo(w, "lock")
  /\ UNCHANGED <<m_tasks, run_flag, m_lock, task, owner, accepted, done>>

Pop(w) ==
  /\ stage[w] = "locked" /\ m_tasks # <<>>
  /\ m_tasks' = Tail(m_tasks)
  /\ task' = [task EXCEPT ![w] = Head(m_tasks)]
  /\ GoTo(w, "running")
  /\ m_lock' = NoThread
  /\ UNCHANGED <<run_flag, owner, accepted, done>>

Finish(w) ==
  /\ stage[w] = "running"
  /\ done' = done \cup {task[w]}
  /\ task' = [task EXCEPT ![w] = NoTask]
  /\ GoTo(w, "loop")
  /\ UNCHANGED <<m_tasks, run_flag, m_lock, owner, accepted>>

-----------------------------------------------------------------------------

Init ==
  /\ m_tasks = <<>> /\ run_flag = TRUE /\ m_lock = NoThread
  /\ stage = [w \in Workers |-> "loop"] /\ task = [w \in Workers |-> NoTask]
  /\ owner = "assigning" /\ accepted = {} /\ done = {}

run_task(w) == TestFlag(w) \/ TestQueue(w) \/ Lock(w) \/ Leave(w) \/ Doze(w)
               \/ Wait(w) \/ Pop(w) \/ Finish(w)

Destructor == notify_all \/ Joined

Next ==
  \/ \E t \in Tasks : assign_task(t)
  \/ LowerFlag \/ Destructor
  \/ \E w \in Workers : run_task(w) \/ WakeSpuriously(w)

Spec == Init /\ [][Next]_vars

\* Every thread that can go on does, and a task that runs comes to its end.  The
\* owner need not assign tasks nor start to destroy the pool.
FairSpec == Spec /\ WF_vars(Destructor) /\ \A w \in Workers : WF_vars(run_task(w))

-----------------------------------------------------------------------------
(* Properties *)

\* Types of the variables; the queue keeps its limit.
TypeOK ==
  /\ m_tasks \in Seq(Tasks) /\ Len(m_tasks) <= MaxTasks
  /\ run_flag \in BOOLEAN
  /\ m_lock \in Workers \cup {NoThread}
  /\ stage \in [Workers -> Stages]
  /\ task \in [Workers -> Tasks \cup {NoTask}]
  /\ owner \in {"assigning", "notifying", "joining", "destroyed"}
  /\ accepted \subseteq Tasks /\ done \subseteq accepted

\* No wake-up is lost: while a worker sleeps, every queued task has a worker of its
\* own that is on its way to the queue (notify_one, run_task).
NoIdleSleeper == Waiting # {} => Len(m_tasks) <= Cardinality(Awake)

Queue == INSTANCE UPSTaskQueue WITH
  queue <- m_tasks, running <- task,
  phase <- CASE owner = "assigning" -> "open"
             [] owner = "destroyed" -> "gone"
             [] OTHER -> "closed"

\* The pool implements the bounded queue: tasks start in order and once, and the
\* destructor returns only after all of them ran, although workers also leave after
\* a look at the queue without the mutex.
ImplementsQueue == Queue!Spec

\* Every accepted task is run to its end.
EveryTaskRuns == \A t \in Tasks : t \in accepted ~> t \in done

\* The destructor returns: no worker sleeps through the fall of the flag.
DestructorReturns == owner = "notifying" ~> owner = "destroyed"

=============================================================================
