----------------------------- MODULE UPSTaskQueue -----------------------------
(***************************************************************************)
(* What the thread pool of Mini_UPS/server promises: a bounded queue whose  *)
(* tasks are run in the order of their acceptance, each once, by at most as *)
(* many workers as there are; a pool that was told to stop is gone only     *)
(* after it ran all of them.                                                *)
(***************************************************************************)
EXTENDS Naturals, Sequences

CONSTANTS Tasks, NoTask, Workers, MaxTasks

VARIABLES queue,     \* accepted tasks nobody has taken
          running,   \* per worker its task, or NoTask
          accepted,  \* the tasks that were ever accepted
          done,      \* the tasks that ran to their end
          phase      \* the pool is open, closed or gone

vars == <<queue, running, accepted, done, phase>>

Init ==
  /\ queue = <<>> /\ running = [w \in Workers |-> NoTask]
  /\ accepted = {} /\ done = {}
  /\ phase = "open"

Accept(t) ==
  /\ phase = "open" /\ t \notin accepted
  /\ Len(queue) < MaxTasks
  /\ queue' = Append(queue, t)
  /\ accepted' = accepted \cup {t}
  /\ UNCHANGED <<running, done, phase>>

Start(w) ==
  /\ queue # <<>> /\ running[w] = NoTask
  /\ queue' = Tail(queue)
  /\ running' = [running EXCEPT ![w] = Head(queue)]
  /\ UNCHANGED <<accepted, done, phase>>

Finish(w) ==
  /\ running[w] # NoTask
  /\ running' = [running EXCEPT ![w] = NoTask]
  /\ done' = done \cup {running[w]}
  /\ UNCHANGED <<queue, accepted, phase>>

Close == phase = "open" /\ phase' = "closed" /\ UNCHANGED <<queue, running, accepted, done>>

Vanish ==
  /\ phase = "closed"
  /\ queue = <<>> /\ \A w \in Workers : running[w] = NoTask
  /\ phase' = "gone"
  /\ UNCHANGED <<queue, running, accepted, done>>

Next ==
  \/ \E t \in Tasks : Accept(t)
  \/ \E w \in Workers : Start(w) \/ Finish(w)
  \/ Close \/ Vanish

Spec == Init /\ [][Next]_vars

=============================================================================
