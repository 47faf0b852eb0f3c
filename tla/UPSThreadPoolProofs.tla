------------------------- MODULE UPSThreadPoolProofs -------------------------
(***************************************************************************)
(* The thread pool for every number of workers, of tasks and every limit:   *)
(* its types, that no wake-up is lost, and that it implements UPSTaskQueue. *)
(***************************************************************************)
EXTENDS UPSThreadPool, FiniteSetTheorems, TLAPS

\* The mutex belongs to the worker that is behind its acquisition.
MutexInv == \A w \in Workers : stage[w] \in {"locked", "dozing"} <=> m_lock = w

\* What a worker has read stays true: while it dozes nobody may push or lower the
\* flag, and after the flag fell nobody pushes any more.
ReadInv ==
  /\ run_flag <=> owner = "assigning"
  /\ \A w \in Workers :
       /\ stage[w] = "dozing" => run_flag /\ m_tasks = <<>>
       /\ stage[w] = "flag down" => ~run_flag
       /\ stage[w] = "exited" => ~run_flag /\ m_tasks = <<>>

\* A worker has a task exactly while it runs, and it was accepted.
TaskInv ==
  /\ m_tasks \in Seq(accepted)
  /\ \A w \in Workers :
       /\ stage[w] = "running" <=> task[w] # NoTask
       /\ task[w] # NoTask => task[w] \in accepted

Inv == TypeOK /\ MutexInv /\ ReadInv /\ TaskInv

LEMMA HeadAndTail ==
  ASSUME NEW S, NEW s \in Seq(S), s # <<>>
  PROVE  /\ Head(s) \in S /\ Tail(s) \in Seq(S)
         /\ Len(s) \in Nat \ {0} /\ Len(Tail(s)) = Len(s) - 1
  OBVIOUS

LEMMA AppendOne ==
  ASSUME NEW S, NEW s \in Seq(S), NEW x \in S
  PROVE  Append(s, x) \in Seq(S) /\ Len(Append(s, x)) = Len(s) + 1 /\ Len(s) \in Nat
  OBVIOUS

LEMMA SeqInMore ==
  ASSUME NEW S, NEW T, S \subseteq T, NEW s \in Seq(S)
  PROVE  s \in Seq(T)
  OBVIOUS

LEMMA InitInv == Init => Inv
  BY PoolAssumption DEF Init, Inv, TypeOK, MutexInv, ReadInv, TaskInv, Stages

\* notify_one wakes at most one sleeper.
LEMMA NotifyWakes ==
  ASSUME TypeOK, notify_one
  PROVE  \/ Waiting = {} /\ stage' = stage
         \/ \E w \in Waiting : stage' = [stage EXCEPT ![w] = "lock"]
  BY DEF notify_one, GoTo

\* assign_task appends below the limit.
LEMMA PushTypes ==
  ASSUME TypeOK, m_tasks \in Seq(accepted), NEW t \in Tasks, assign_task(t)
  PROVE  m_tasks' \in Seq(Tasks) /\ Len(m_tasks') <= MaxTasks /\ m_tasks' \in Seq(accepted')
  <1>1. accepted' = accepted \cup {t} /\ m_tasks' = Append(m_tasks, t) /\ Len(m_tasks) < MaxTasks
    BY DEF assign_task, HasRoom
  <1>2. m_tasks \in Seq(Tasks)  BY DEF TypeOK
  <1>3. m_tasks' \in Seq(Tasks) /\ Len(m_tasks') = Len(m_tasks) + 1 /\ Len(m_tasks) \in Nat
    BY <1>1, <1>2, AppendOne
  <1>4. Len(m_tasks') <= MaxTasks  BY <1>1, <1>3, PoolAssumption
  <1>5. m_tasks \in Seq(accepted')  BY <1>1, SeqInMore
  <1>6. t \in accepted'  BY <1>1
  <1>7. m_tasks' \in Seq(accepted')  BY <1>1, <1>5, <1>6, AppendOne
  <1> QED BY <1>3, <1>4, <1>7

\* A worker takes the oldest task.
LEMMA PopTypes ==
  ASSUME TypeOK, m_tasks \in Seq(accepted), NEW w \in Workers, Pop(w)
  PROVE  /\ m_tasks' \in Seq(Tasks) /\ Len(m_tasks') <= MaxTasks /\ m_tasks' \in Seq(accepted)
         /\ Head(m_tasks) \in Tasks /\ Head(m_tasks) \in accepted
  <1>1. m_tasks # <<>> /\ m_tasks' = Tail(m_tasks)  BY DEF Pop
  <1>2. m_tasks \in Seq(Tasks) /\ Len(m_tasks) <= MaxTasks  BY DEF TypeOK
  <1>3. /\ m_tasks' \in Seq(Tasks) /\ Head(m_tasks) \in Tasks
        /\ Len(m_tasks) \in Nat /\ Len(m_tasks') = Len(m_tasks) - 1
    BY <1>1, <1>2, HeadAndTail
  <1>4. Len(m_tasks') <= MaxTasks  BY <1>2, <1>3, PoolAssumption
  <1>5. m_tasks' \in Seq(accepted) /\ Head(m_tasks) \in accepted  BY <1>1, HeadAndTail
  <1> QED BY <1>3, <1>4, <1>5

LEMMA InvStep == Inv /\ [Next]_vars => Inv'
  <1> SUFFICES ASSUME Inv, [Next]_vars PROVE Inv'
    OBVIOUS
  <1> USE PoolAssumption DEF Inv, TypeOK, MutexInv, ReadInv, TaskInv, Stages
  <1>1. ASSUME NEW t \in Tasks, assign_task(t) PROVE Inv'
    <2>1. /\ m_tasks' \in Seq(Tasks) /\ Len(m_tasks') <= MaxTasks
          /\ m_tasks' \in Seq(accepted')
      BY <1>1, PushTypes
    <2>2. CASE stage' = stage  BY <1>1, <2>1, <2>2 DEF assign_task
    <2>3. CASE \E w \in Waiting : stage' = [stage EXCEPT ![w] = "lock"]
      BY <1>1, <2>1, <2>3 DEF assign_task, Waiting
    <2> QED BY <1>1, <2>2, <2>3, NotifyWakes DEF assign_task
  <1>2. CASE LowerFlag  BY <1>2 DEF LowerFlag, MutexFree
  <1>3. CASE notify_all  BY <1>3 DEF notify_all, Waiting
  <1>4. CASE Joined  BY <1>4 DEF Joined
  <1>5. ASSUME NEW w \in Workers, TestFlag(w) PROVE Inv'
    BY <1>5 DEF TestFlag, GoTo
  <1>6. ASSUME NEW w \in Workers, TestQueue(w) PROVE Inv'
    BY <1>6 DEF TestQueue, GoTo
  <1>7. ASSUME NEW w \in Workers, Lock(w) PROVE Inv'
    BY <1>7 DEF Lock, GoTo
  <1>8. ASSUME NEW w \in Workers, Leave(w) PROVE Inv'
    BY <1>8 DEF Leave, NothingToDo, GoTo
  <1>9. ASSUME NEW w \in Workers, Doze(w) PROVE Inv'
    BY <1>9 DEF Doze, GoTo
  <1>10. ASSUME NEW w \in Workers, Wait(w) PROVE Inv'
    BY <1>10 DEF Wait, GoTo
  <1>11. ASSUME NEW w \in Workers, Pop(w) PROVE Inv'
    <2>1. /\ m_tasks' \in Seq(Tasks) /\ Len(m_tasks') <= MaxTasks
          /\ m_tasks' \in Seq(accepted)
          /\ Head(m_tasks) \in Tasks /\ Head(m_tasks) \in accepted
      BY <1>11, PopTypes
    <2> QED BY <1>11, <2>1 DEF Pop, GoTo
  <1>12. ASSUME NEW w \in Workers, Finish(w) PROVE Inv'
    BY <1>12 DEF Finish, GoTo
  <1>13. ASSUME NEW w \in Workers, WakeSpuriously(w) PROVE Inv'
    BY <1>13 DEF WakeSpuriously, GoTo
  <1>14. CASE UNCHANGED vars  BY <1>14 DEF vars
  <1> QED
    BY <1>1, <1>2, <1>3, <1>4, <1>5, <1>6, <1>7, <1>8, <1>9, <1>10, <1>11, <1>12,
       <1>13, <1>14 DEF Next, Destructor, run_task

LEMMA InvAlways == Spec => []Inv
  BY InitInv, InvStep, PTL DEF Spec

\* Every variable has its type, and the queue keeps its limit (assign_task).
THEOREM PoolTypes == Spec => []TypeOK
  <1>1. Inv => TypeOK  BY DEF Inv
  <1> QED BY InvAlways, <1>1, PTL

-----------------------------------------------------------------------------
(* No wake-up is lost                                                          *)

LEMMA AwakeCount == Cardinality(Awake) \in Nat /\ IsFiniteSet(Awake)
  <1>1. IsFiniteSet(Awake)  BY PoolAssumption, FS_Subset DEF Awake
  <1> QED BY <1>1, FS_CardinalityType

\* One worker more, or one fewer, is on its way to the queue.
LEMMA OneAwakens ==
  ASSUME NEW w, w \notin Awake, Awake' = Awake \cup {w}
  PROVE  Cardinality(Awake') = Cardinality(Awake) + 1
  BY AwakeCount, FS_AddElement

LEMMA OneLeaves ==
  ASSUME NEW w, w \in Awake, Awake' = Awake \ {w}
  PROVE  Cardinality(Awake') = Cardinality(Awake) - 1
  BY AwakeCount, FS_RemoveElement

AwakeStages == Stages \ {"waiting", "running", "exited"}
OnTheirWay == Cardinality(Awake)
Queued == Len(m_tasks)

LEMMA IdleStep == Inv /\ NoIdleSleeper /\ [Next]_vars => NoIdleSleeper'
  <1> SUFFICES ASSUME Inv, NoIdleSleeper, [Next]_vars PROVE NoIdleSleeper'
    OBVIOUS
  <1>0. OnTheirWay \in Nat /\ Queued \in Nat /\ (Waiting # {} => Queued <= OnTheirWay)
    <2>1. m_tasks \in Seq(Tasks)  BY DEF Inv, TypeOK
    <2>2. Len(m_tasks) \in Nat  BY <2>1
    <2> QED BY <2>2, AwakeCount DEF NoIdleSleeper, OnTheirWay, Queued
  <1>g. stage \in [Workers -> Stages]  BY DEF Inv, TypeOK
  \* The steps are told apart by what they do to the queue and to the sets.
  <1> DEFINE Less    == /\ Queued' = Queued /\ Waiting' \subseteq Waiting
                        /\ OnTheirWay' \in Nat /\ OnTheirWay' >= OnTheirWay
             Emptied == m_tasks' = <<>>
             Alone   == Waiting' = {}
             Both    == Queued' = Queued + 1 /\ OnTheirWay' = OnTheirWay + 1 /\ Waiting # {}
             Taken   == Queued' = Queued - 1 /\ OnTheirWay' = OnTheirWay - 1 /\ Waiting' = Waiting
  <1>f. NoIdleSleeper' <=> (Waiting' # {} => Queued' <= OnTheirWay')
    BY DEF NoIdleSleeper, OnTheirWay, Queued
  <1>a. CASE Less
    <2>1. OnTheirWay' \in Nat /\ Queued' \in Nat  BY <1>0, <1>a
    <2>2. SUFFICES ASSUME Waiting' # {} PROVE Queued' <= OnTheirWay'  BY <1>f
    <2>3. Waiting # {}  BY <1>a, <2>2
    <2> QED BY <1>0, <1>a, <2>1, <2>3
  <1>b. CASE Emptied
    <2>1. Queued' = 0  BY <1>b DEF Queued
    <2>2. IsFiniteSet(Awake')  BY PoolAssumption, FS_Subset DEF Awake
    <2>3. OnTheirWay' \in Nat  BY <2>2, FS_CardinalityType DEF OnTheirWay
    <2> QED BY <1>f, <2>1, <2>3
  <1>c. CASE Alone  BY <1>c, <1>f
  <1>d. CASE Both  BY <1>0, <1>d, <1>f
  <1>e. CASE Taken  BY <1>0, <1>e, <1>f
  <1>1. ASSUME NEW t \in Tasks, assign_task(t) PROVE Both \/ Alone
    <2>1. Queued' = Queued + 1
      <3>1. m_tasks' = Append(m_tasks, t) /\ m_tasks \in Seq(Tasks)
        BY <1>1 DEF assign_task, Inv, TypeOK
      <3> QED BY <3>1, AppendOne DEF Queued
    <2>2. CASE Waiting = {} /\ stage' = stage  BY <2>2 DEF Waiting
    <2>3. CASE \E w \in Waiting : stage' = [stage EXCEPT ![w] = "lock"]
      <3>1. PICK w \in Waiting : stage' = [stage EXCEPT ![w] = "lock"]  BY <2>3
      <3>2. w \notin Awake /\ Awake' = Awake \cup {w}
        BY <1>g, <3>1 DEF Waiting, Awake
      <3>3. OnTheirWay' = OnTheirWay + 1  BY <3>2, OneAwakens DEF OnTheirWay
      <3> QED BY <2>1, <3>1, <3>3
    <2>4. TypeOK /\ notify_one  BY <1>1 DEF assign_task, Inv
    <2> QED BY <2>2, <2>3, <2>4, NotifyWakes
  <1>2. ASSUME LowerFlag \/ Joined PROVE Less
    <2>1. stage' = stage /\ m_tasks' = m_tasks  BY <1>2 DEF LowerFlag, Joined
    <2>2. Waiting' = Waiting /\ OnTheirWay' = OnTheirWay /\ Queued' = Queued
      BY <2>1 DEF Waiting, Awake, OnTheirWay, Queued
    <2> QED BY <1>0, <2>2
  <1>3. ASSUME notify_all PROVE Alone  BY <1>g, <1>3 DEF notify_all, Waiting
  \* A worker that stays on its way, or one that joins those that are
  <1>4. ASSUME NEW w \in Workers, NEW s \in AwakeStages,
               stage' = [stage EXCEPT ![w] = s], m_tasks' = m_tasks
        PROVE  Less
    <2>1. Queued' = Queued /\ Waiting' \subseteq Waiting
      BY <1>g, <1>4 DEF Queued, Waiting, AwakeStages
    <2>2. OnTheirWay' = OnTheirWay \/ OnTheirWay' = OnTheirWay + 1
      <3>1. CASE w \in Awake
        <4>1. Awake' = Awake  BY <1>g, <1>4, <3>1 DEF Awake, AwakeStages
        <4> QED BY <4>1 DEF OnTheirWay
      <3>2. CASE w \notin Awake
        <4>1. Awake' = Awake \cup {w}  BY <1>g, <1>4, <3>2 DEF Awake, AwakeStages
        <4> QED BY <3>2, <4>1, OneAwakens DEF OnTheirWay
      <3> QED BY <3>1, <3>2
    <2>3. OnTheirWay' \in Nat /\ OnTheirWay' >= OnTheirWay  BY <1>0, <2>2
    <2> QED BY <2>1, <2>3
  <1>5. ASSUME NEW w \in Workers,
               TestFlag(w) \/ Lock(w) \/ Doze(w) \/ Finish(w) \/ WakeSpuriously(w)
        PROVE  Less
    <2>1. m_tasks' = m_tasks /\ \E s \in AwakeStages : stage' = [stage EXCEPT ![w] = s]
      BY <1>5 DEF TestFlag, Lock, Doze, Finish, WakeSpuriously, GoTo, AwakeStages, Stages
    <2> QED BY <2>1, <1>4
  <1>6. ASSUME NEW w \in Workers, TestQueue(w) PROVE Less \/ Emptied
    <2>1. CASE m_tasks = <<>>  BY <1>6, <2>1 DEF TestQueue
    <2>2. CASE m_tasks # <<>>
      <3>1. m_tasks' = m_tasks /\ stage' = [stage EXCEPT ![w] = "lock"]
        BY <1>6, <2>2 DEF TestQueue, GoTo
      <3>2. "lock" \in AwakeStages  BY DEF AwakeStages, Stages
      <3> QED BY <3>1, <3>2, <1>4
    <2> QED BY <2>1, <2>2
  \* Who leaves, or sleeps, has seen an empty queue that is still empty.
  <1>7. ASSUME NEW w \in Workers, Leave(w) \/ Wait(w) PROVE Emptied
    BY <1>7 DEF Leave, NothingToDo, Wait, Inv, ReadInv
  <1>8. ASSUME NEW w \in Workers, Pop(w) PROVE Taken
    <2>1. m_tasks # <<>> /\ m_tasks' = Tail(m_tasks) /\ m_tasks \in Seq(Tasks)
      BY <1>8 DEF Pop, Inv, TypeOK
    <2>2. Queued' = Queued - 1  BY <2>1, HeadAndTail DEF Queued
    <2>3. stage[w] = "locked" /\ stage' = [stage EXCEPT ![w] = "running"]
      BY <1>8 DEF Pop, GoTo
    <2>4. Waiting' = Waiting /\ w \in Awake /\ Awake' = Awake \ {w}
      BY <1>g, <2>3 DEF Waiting, Awake
    <2>5. OnTheirWay' = OnTheirWay - 1  BY <2>4, OneLeaves DEF OnTheirWay
    <2> QED BY <2>2, <2>4, <2>5
  <1>9. ASSUME UNCHANGED vars PROVE Less
    <2>1. stage' = stage /\ m_tasks' = m_tasks  BY <1>9 DEF vars
    <2>2. Waiting' = Waiting /\ OnTheirWay' = OnTheirWay /\ Queued' = Queued
      BY <2>1 DEF Waiting, Awake, OnTheirWay, Queued
    <2> QED BY <1>0, <2>2
  <1> HIDE DEF Less, Emptied, Alone, Both, Taken
  <1> QED
    BY <1>a, <1>b, <1>c, <1>d, <1>e, <1>1, <1>2, <1>3, <1>5, <1>6, <1>7, <1>8, <1>9
       DEF Next, Destructor, run_task

\* No wake-up is lost: while a worker sleeps, every queued task has a worker of its
\* own on its way to the queue (notify_one in assign_task; the wait in run_task).
THEOREM NoWakeUpLost == Spec => []NoIdleSleeper
  <1>1. Init => NoIdleSleeper  BY DEF Init, NoIdleSleeper, Waiting
  <1> QED BY <1>1, IdleStep, InvAlways, PTL DEF Spec

-----------------------------------------------------------------------------
(* The refinement                                                              *)

\* Every step of the pool is a step of the abstract queue, or changes nothing there.
LEMMA QueueStep == Inv /\ [Next]_vars => [Queue!Next]_(Queue!vars)
  <1> SUFFICES ASSUME Inv, [Next]_vars PROVE Queue!Next \/ UNCHANGED Queue!vars
    OBVIOUS
  <1> USE DEF Queue!vars
  <1>1. ASSUME NEW t \in Tasks, assign_task(t) PROVE Queue!Next
    BY <1>1 DEF assign_task, HasRoom, Queue!Accept, Queue!Next
  <1>2. CASE LowerFlag  BY <1>2 DEF LowerFlag, Queue!Close, Queue!Next
  <1>3. CASE notify_all  BY <1>3 DEF notify_all
  <1>4. CASE Joined
    <2>1. m_tasks = <<>> /\ \A w \in Workers : task[w] = NoTask
      BY <1>4, PoolAssumption DEF Joined, Inv, ReadInv, TaskInv
    <2> QED BY <1>4, <2>1 DEF Joined, Queue!Vanish, Queue!Next
  <1>5. ASSUME NEW w \in Workers, Pop(w) PROVE Queue!Next
    <2>1. task[w] = NoTask  BY <1>5 DEF Pop, Inv, TaskInv
    <2> QED BY <1>5, <2>1 DEF Pop, Queue!Start, Queue!Next
  <1>6. ASSUME NEW w \in Workers, Finish(w) PROVE Queue!Next
    <2>1. task[w] # NoTask  BY <1>6 DEF Finish, Inv, TaskInv
    <2> QED BY <1>6, <2>1 DEF Finish, Queue!Finish, Queue!Next
  <1>7. ASSUME NEW w \in Workers,
               \/ TestFlag(w) \/ TestQueue(w) \/ Lock(w) \/ Leave(w)
               \/ Doze(w) \/ Wait(w) \/ WakeSpuriously(w)
        PROVE  UNCHANGED Queue!vars
    BY <1>7 DEF TestFlag, TestQueue, Lock, Leave, Doze, Wait, WakeSpuriously
  <1>8. CASE UNCHANGED vars  BY <1>8 DEF vars
  <1> QED BY <1>1, <1>2, <1>3, <1>4, <1>5, <1>6, <1>7, <1>8
          DEF Next, Destructor, run_task

\* run_task and the destructor implement the bounded queue: tasks start in order and
\* once, and the destructor returns only after every accepted task ran.
THEOREM PoolImplementsQueue == Spec => ImplementsQueue
  <1>1. Init => Queue!Init  BY DEF Init, Queue!Init
  <1> QED BY <1>1, QueueStep, InvAlways, PTL DEF Spec, ImplementsQueue, Queue!Spec

=============================================================================
