------------------------------ MODULE UPSServer ------------------------------
(***************************************************************************)
(* The UPS back end of Mini_UPS/server.                                    *)
(*                                                                         *)
(* The main thread reads the two sockets and queues one task per message.  *)
(* A worker of the thread pool acknowledges the message, looks up its      *)
(* number among those handled, and runs the handler of its kind to the     *)
(* end; most handlers issue a command and repeat it until it is            *)
(* acknowledged.  A handler uses the database in several transactions,     *)
(* and workers interleave between them.  An exception that leaves a        *)
(* handler ends the whole program.                                         *)
(*                                                                         *)
(* A message carries one item, although the protocol buffers allow         *)
(* several; the threads that handle the items of one message and the       *)
(* worker that joins them are one worker here.  Product rows, e-mails and  *)
(* the positions of trucks are left out.  The pool itself is an ordered    *)
(* queue with a limit.  The world and Amazon are in UPSSystem.             *)
(***************************************************************************)
EXTENDS Integers, FiniteSets, SequencesExt

CONSTANTS
  Packages,        \* the ship ids of Amazon
  Accounts,        \* the user names packages are for
  AccountOf,       \* AccountOf[p]: the account of package p
  AddressOf,       \* AddressOf[p]: the pair <<x, y>> package p is for
  NoPackage,       \* no row in user_packages
  Trucks,
  NoTruck,         \* in a message that names no truck
  Registered,      \* the accounts user_users has at the start
  PoolSize,        \* the number of workers (max_threads)
  MaxTasks,        \* the limit of the queue (max_tasks)
  MaxSeq,          \* bounds the sequence numbers
  SocketBuffer,    \* bounds the messages that wait in one direction of a socket
  MaxLoss          \* bounds the messages and set entries that are lost

ASSUME PackageAssumption == /\ AccountOf \in [Packages -> Accounts]
                            /\ AddressOf \in [Packages -> Int \X Int]
                            /\ Registered \subseteq Accounts
ASSUME BoundAssumption == /\ PoolSize \in Nat /\ MaxTasks \in Nat /\ MaxSeq \in Nat
                          /\ SocketBuffer \in Nat /\ MaxLoss \in Nat

Workers == 1 .. PoolSize

VARIABLES
  seqNum,          \* the last sequence number given out
  issued,          \* history: every command that was given a number
  answered,        \* history: the same, each with the message that led to it
  store,           \* own numbers that were acknowledged, by either peer
  recvs,           \* numbers of the world's messages that were handled
  recvs_amazon,    \* numbers of Amazon's messages that were handled
  m_tasks,         \* the queue of the pool
  workers,         \* what each worker is doing
  user_users,      \* table: the accounts
  user_packages,   \* table: per package a row, or NoPackage
  user_trucks,     \* table: per truck its status
  crashed,         \* std::terminate was called
  to_world, from_world,   \* the two directions of the two sockets
  to_amazon, from_amazon,
  losses           \* messages and set entries lost so far, everywhere

tables == <<user_users, user_packages, user_trucks>>
numbers == <<seqNum, issued, answered>>
handled == <<recvs, recvs_amazon>>
sockets == <<to_world, from_world, to_amazon, from_amazon>>
serverVars == <<numbers, store, handled, m_tasks, workers, tables, crashed, losses>>

-----------------------------------------------------------------------------
(* Messages, rows and workers *)

AmazonRequests == {"pickupreq", "loaded"}
WorldResponses == {"arrived", "idle", "delivered"}  \* two completions, UDeliveryMade
ToWorldKinds == {"pickup", "deliver"}
ToAmazonKinds == {"truckarrived", "delivered"}

\* The item of a pickup or an arrival stands for the warehouse the package is at.
Message(kinds) ==
  [kind : kinds, item : Packages, truck : Trucks \cup {NoTruck}, seq : Nat]
Delivery ==
  [kind : {"deliver"}, item : Packages, truck : Trucks, seq : Nat, to : Int \X Int]
Acks == [kind : {"ack"}, seq : Nat]
AckFor(n) == [kind |-> "ack", seq |-> n]

PackageStatuses == {"created", "picked up", "out for delivery", "delivered"}
TruckStatuses == {"idle", "traveling", "arrive warehouse", "delivering"}
Row == [truck : Trucks, status : PackageStatuses, user : Accounts, to : Int \X Int]

ASSUME NullAssumption == NoTruck \notin Trucks /\ NoPackage \notin Row

Idle == [stage |-> "idle"]
Handling(stage, m) == [stage |-> stage, msg |-> m]
Sending(c) == [stage |-> "sending", cmd |-> c]

Become(w, state) == workers' = [workers EXCEPT ![w] = state]

\* Faulty form: every handler takes every kind of message.
InStage(w, kind, stage) == ~crashed /\ workers[w].stage = stage

\* Worker w is in a stage of the handler of a kind of message.
In(w, kind, stage) ==
  /\ ~crashed
  /\ workers[w].stage = stage
  /\ workers[w].msg.kind = kind

Write(chan, m) ==
  /\ Len(chan) < SocketBuffer
  /\ chan' = Append(chan, m)

-----------------------------------------------------------------------------
(* The main thread *)

\* Faulty form: a task still gets into a full queue.
QueueTask(m) ==
  m_tasks' = IF Len(m_tasks) <= MaxTasks THEN Append(m_tasks, m) ELSE m_tasks

\* Faulty form: the latest task is taken first.
PushTask(m) ==
  m_tasks' = IF Len(m_tasks) < MaxTasks THEN <<m>> \o m_tasks ELSE m_tasks

\* The task is dropped without a word when the queue is full.
assign_task(m) ==
  m_tasks' = IF Len(m_tasks) < MaxTasks THEN Append(m_tasks, m) ELSE m_tasks

\* The reader makes a new buffered stream for every message: what the buffer
\* already holds of the messages behind the first one is dropped with it.
recvMesgFrom(chan) ==
  /\ chan # <<>>
  /\ \E dropped \in 0 .. Len(chan) - 1 :
       /\ losses + dropped <= MaxLoss
       /\ chan' = SubSeq(chan, dropped + 2, Len(chan))
       /\ losses' = losses + dropped

ReceiveFromWorld ==
  /\ ~crashed
  /\ recvMesgFrom(from_world)
  /\ assign_task(Head(from_world))
  /\ UNCHANGED <<numbers, store, handled, workers, tables, crashed,
                 to_world, to_amazon, from_amazon>>

ReceiveFromAmazon ==
  /\ ~crashed
  /\ recvMesgFrom(from_amazon)
  /\ assign_task(Head(from_amazon))
  /\ UNCHANGED <<numbers, store, handled, workers, tables, crashed,
                 to_world, from_world, to_amazon>>

-----------------------------------------------------------------------------
(* handleworld and handleamazon *)

\* The sets have no lock: two threads that insert together may lose an entry.
Insert(set, n) ==
  \/ set' = set \cup {n} /\ UNCHANGED losses
  \/ losses < MaxLoss /\ losses' = losses + 1 /\ UNCHANGED set

\* Idle workers are alike: the first stands for the one that the pool wakes.
Free(w) ==
  /\ ~crashed
  /\ workers[w] = Idle
  /\ \A v \in 1 .. w - 1 : workers[v] # Idle

\* The message without content that is written back even now is left out.
TakeAck(w) ==
  /\ Free(w)
  /\ m_tasks # <<>> /\ Head(m_tasks).kind = "ack"
  /\ m_tasks' = Tail(m_tasks)
  /\ Insert(store, Head(m_tasks).seq)
  /\ UNCHANGED <<numbers, handled, workers, tables, crashed, sockets>>

\* The worker acknowledges whatever the number.
TakeRequest(w) ==
  LET m == Head(m_tasks)
  IN  /\ Free(w)
      /\ m_tasks # <<>> /\ m.kind # "ack"
      /\ m_tasks' = Tail(m_tasks)
      /\ Become(w, Handling("acknowledged", m))
      /\ IF m.kind \in AmazonRequests
           THEN Write(to_amazon, AckFor(m.seq)) /\ UNCHANGED to_world
           ELSE Write(to_world, AckFor(m.seq)) /\ UNCHANGED to_amazon
      /\ UNCHANGED <<numbers, store, handled, tables, crashed, losses,
                     from_world, from_amazon>>

\* Faulty form: a number is never found.
NeverSeen(m) == FALSE
AlreadySeen(m) ==
  m.seq \in IF m.kind \in AmazonRequests THEN recvs_amazon ELSE recvs

FindNumber(w) ==
  /\ ~crashed /\ workers[w].stage = "acknowledged"
  /\ Become(w, IF AlreadySeen(workers[w].msg) THEN Idle
               ELSE Handling("new", workers[w].msg))
  /\ UNCHANGED <<numbers, store, handled, m_tasks, tables, crashed, sockets, losses>>

\* The test and the insertion are two steps.
InsertNumber(w) ==
  LET m == workers[w].msg
  IN  /\ ~crashed /\ workers[w].stage = "new"
      /\ IF m.kind \in AmazonRequests
           THEN Insert(recvs_amazon, m.seq) /\ UNCHANGED recvs
           ELSE Insert(recvs, m.seq) /\ UNCHANGED recvs_amazon
      /\ Become(w, Handling("started", m))
      /\ UNCHANGED <<numbers, store, m_tasks, tables, crashed, sockets>>

-----------------------------------------------------------------------------
(* Commands *)

\* Faulty form of getSeqNum: the number is not advanced.
SameNum(n) == n
NextNum(n) == n + 1

\* getSeqNum under its lock; the worker goes on with the command.
Issue(w, c) ==
  /\ seqNum < MaxSeq
  /\ seqNum' = NextNum(seqNum)
  /\ issued' = issued \cup {c}
  /\ answered' = answered \cup {<<workers[w].msg, c>>}
  /\ Become(w, Sending(c))

Command(kind, p, t) == [kind |-> kind, item |-> p, truck |-> t, seq |-> NextNum(seqNum)]

\* The first write and the repetitions; the loop looks into store before it repeats.
SendCommand(w) ==
  LET c == workers[w].cmd
  IN  /\ ~crashed /\ workers[w].stage = "sending"
      /\ c.seq \notin store
      /\ IF c.kind \in ToWorldKinds
           THEN Write(to_world, c) /\ UNCHANGED to_amazon
           ELSE Write(to_amazon, c) /\ UNCHANGED to_world
      /\ UNCHANGED <<serverVars, from_world, from_amazon>>

CommandAcked(w) ==
  /\ ~crashed /\ workers[w].stage = "sending"
  /\ workers[w].cmd.seq \in store
  /\ Become(w, Idle)
  /\ UNCHANGED <<numbers, store, handled, m_tasks, tables, crashed, sockets, losses>>

Crash ==
  /\ crashed' = TRUE
  /\ UNCHANGED <<numbers, store, handled, m_tasks, workers, tables, sockets, losses>>

-----------------------------------------------------------------------------
(* pickup *)

\* The truck is selected in one transaction and given to the row of the package,
\* if there is one, in the next; it stays "idle" for the others meanwhile.
pick_truck(w) ==
  LET p == workers[w].msg.item
  IN  /\ In(w, "pickupreq", "started")
      /\ \E t \in Trucks :
           /\ user_trucks[t] = "idle"
           /\ Become(w, [stage |-> "picked", msg |-> workers[w].msg, truck |-> t])
           /\ user_packages' = IF user_packages[p] = NoPackage THEN user_packages
                               ELSE [user_packages EXCEPT ![p].truck = t]
      /\ UNCHANGED <<numbers, store, handled, m_tasks, user_users, user_trucks,
                     crashed, sockets, losses>>

\* No row has the account.
CountUser(w) ==
  /\ In(w, "pickupreq", "picked")
  /\ AccountOf[workers[w].msg.item] \notin user_users
  /\ Become(w, [workers[w] EXCEPT !.stage = "no user"])
  /\ UNCHANGED <<numbers, store, handled, m_tasks, tables, crashed, sockets, losses>>

\* The insertion fails if another worker has inserted the account by now.
InsertUser(w) ==
  LET a == AccountOf[workers[w].msg.item]
  IN  /\ In(w, "pickupreq", "no user")
      /\ IF a \in user_users THEN Crash
         ELSE /\ user_users' = user_users \cup {a}
              /\ Become(w, [workers[w] EXCEPT !.stage = "picked"])
              /\ UNCHANGED <<numbers, store, handled, m_tasks, user_packages,
                             user_trucks, crashed, sockets, losses>>

\* The account is found: the row of the package is inserted.
InsertPackage(w) ==
  LET p == workers[w].msg.item
      row == [truck |-> workers[w].truck, status |-> "created",
              user |-> AccountOf[p], to |-> AddressOf[p]]
  IN  /\ In(w, "pickupreq", "picked")
      /\ AccountOf[p] \in user_users
      /\ IF user_packages[p] # NoPackage THEN Crash
         ELSE /\ user_packages' = [user_packages EXCEPT ![p] = row]
              /\ Become(w, [workers[w] EXCEPT !.stage = "created"])
              /\ UNCHANGED <<numbers, store, handled, m_tasks, user_users,
                             user_trucks, crashed, sockets, losses>>

SendTruck(w) ==
  LET t == workers[w].truck
  IN  /\ In(w, "pickupreq", "created")
      /\ user_trucks' = [user_trucks EXCEPT ![t] = "traveling"]
      /\ Issue(w, Command("pickup", workers[w].msg.item, t))
      /\ UNCHANGED <<store, handled, m_tasks, user_users, user_packages, crashed,
                     sockets, losses>>

-----------------------------------------------------------------------------
(* parseloaded *)

\* The truck and the address are read and the number is taken.  Both coordinates
\* are taken from the first column.
parseloaded(w) ==
  LET p == workers[w].msg.item
      row == user_packages[p]
      c == [kind |-> "deliver", item |-> p, truck |-> row.truck,
            seq |-> NextNum(seqNum), to |-> <<row.to[1], row.to[1]>>]
  IN  /\ In(w, "loaded", "started")
      /\ IF row = NoPackage THEN Crash
         ELSE /\ seqNum < MaxSeq
              /\ seqNum' = NextNum(seqNum)
              /\ issued' = issued \cup {c}
              /\ answered' = answered \cup {<<workers[w].msg, c>>}
              /\ Become(w, [stage |-> "read", msg |-> workers[w].msg, cmd |-> c])
              /\ UNCHANGED <<store, handled, m_tasks, tables, crashed, sockets, losses>>

OutForDelivery(w) ==
  /\ In(w, "loaded", "read")
  /\ user_packages' =
       [user_packages EXCEPT ![workers[w].msg.item].status = "out for delivery"]
  /\ Become(w, [workers[w] EXCEPT !.stage = "out"])
  /\ UNCHANGED <<numbers, store, handled, m_tasks, user_users, user_trucks,
                 crashed, sockets, losses>>

TruckDelivering(w) ==
  /\ In(w, "loaded", "out")
  /\ user_trucks' = [user_trucks EXCEPT ![workers[w].cmd.truck] = "delivering"]
  /\ Become(w, Sending(workers[w].cmd))
  /\ UNCHANGED <<numbers, store, handled, m_tasks, user_users, user_packages,
                 crashed, sockets, losses>>

-----------------------------------------------------------------------------
(* The responses of the world *)

handleDelivery(w) ==
  LET m == workers[w].msg
  IN  /\ In(w, "delivered", "started")
      /\ IF user_packages[m.item] = NoPackage THEN Crash
         ELSE /\ user_packages' =
                   [user_packages EXCEPT ![m.item].status = "delivered"]
              /\ Issue(w, Command("delivered", m.item, m.truck))
              /\ UNCHANGED <<store, handled, m_tasks, user_users, user_trucks,
                             crashed, sockets, losses>>

\* Faulty forms: the query takes the packages of all trucks, or still asks for the
\* status that they had before the update.
OnAnyTruck(t, status) ==
  {p \in Packages : /\ user_packages[p] # NoPackage
                    /\ user_packages[p].status = status}
CreatedOnTruck(t, status) ==
  {p \in Packages : /\ user_packages[p] # NoPackage
                    /\ user_packages[p].truck = t
                    /\ user_packages[p].status = "created"}
OnTruck(t, status) ==
  {p \in Packages : /\ user_packages[p] # NoPackage
                    /\ user_packages[p].truck = t
                    /\ user_packages[p].status = status}

\* The truck arrived: every package created for it counts as picked up.  The two
\* updates are of one table each, and no other step changes both: they are one step.
dealUFinished(w) ==
  LET m == workers[w].msg
  IN  /\ In(w, "arrived", "started")
      /\ user_trucks' = [user_trucks EXCEPT ![m.truck] = "arrive warehouse"]
      /\ user_packages' =
           [p \in Packages |-> IF p \in OnTruck(m.truck, "created")
              THEN [user_packages[p] EXCEPT !.status = "picked up"]
              ELSE user_packages[p]]
      /\ Become(w, Handling("arrived", m))
      /\ UNCHANGED <<numbers, store, handled, m_tasks, user_users, crashed,
                     sockets, losses>>

\* Amazon hears of one of the packages that the truck picked up.
ReportArrival(w) ==
  LET m == workers[w].msg
      found == OnTruck(m.truck, "picked up")
  IN  /\ In(w, "arrived", "arrived")
      /\ IF found = {} THEN Crash
         ELSE /\ \E p \in found : Issue(w, Command("truckarrived", p, m.truck))
              /\ UNCHANGED <<store, handled, m_tasks, tables, crashed, sockets, losses>>

handleIdle(w) ==
  /\ In(w, "idle", "started")
  /\ user_trucks' = [user_trucks EXCEPT ![workers[w].msg.truck] = "idle"]
  /\ Become(w, Idle)
  /\ UNCHANGED <<numbers, store, handled, m_tasks, user_users, user_packages,
                 crashed, sockets, losses>>

-----------------------------------------------------------------------------

InitServer ==
  /\ seqNum = 0 /\ issued = {} /\ answered = {}
  /\ store = {} /\ recvs = {} /\ recvs_amazon = {}
  /\ m_tasks = <<>>
  /\ workers = [w \in Workers |-> Idle]
  /\ user_users = Registered
  /\ user_packages = [p \in Packages |-> NoPackage]
  /\ user_trucks = [t \in Trucks |-> "idle"]
  /\ crashed = FALSE
  /\ to_world = <<>> /\ from_world = <<>>
  /\ to_amazon = <<>> /\ from_amazon = <<>>
  /\ losses = 0

MainThread == ReceiveFromWorld \/ ReceiveFromAmazon

TakeTask(w) == TakeAck(w) \/ TakeRequest(w)

Worker(w) ==
  \/ FindNumber(w) \/ InsertNumber(w) \/ CommandAcked(w)
  \/ pick_truck(w) \/ CountUser(w) \/ InsertUser(w) \/ InsertPackage(w) \/ SendTruck(w)
  \/ parseloaded(w) \/ OutForDelivery(w) \/ TruckDelivering(w)
  \/ handleDelivery(w) \/ dealUFinished(w) \/ ReportArrival(w) \/ handleIdle(w)

=============================================================================
