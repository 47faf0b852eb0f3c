------------------------------ MODULE UPSSystem ------------------------------
(***************************************************************************)
(* The UPS server between its two peers.  The world simulator and Amazon   *)
(* acknowledge every command when they read it, act on it the first time   *)
(* they read its number, and repeat their own messages until these are     *)
(* acknowledged.  Amazon is the server of Mini_Amazon seen from this side; *)
(* its inside is the subject of AmazonServer.                              *)
(***************************************************************************)
EXTENDS UPSServer

CONSTANT MaxRepeat   \* bounds the messages repeated without need

ASSUME RepeatAssumption == MaxRepeat \in Nat

VARIABLES
  world_seq, amazon_seq,       \* the next numbers of the peers
  world_seen, amazon_seen,     \* history: the commands they have read
  world_issued, amazon_issued, \* history: the messages they gave a number
  world_out, amazon_out,       \* messages not acknowledged yet
  repeats                      \* needless repetitions so far

worldVars == <<world_seq, world_seen, world_issued, world_out>>
amazonVars == <<amazon_seq, amazon_seen, amazon_issued, amazon_out>>
vars == <<serverVars, sockets, worldVars, amazonVars, repeats>>

\* Bounds the repetition of what is still underway.
Repeating(underway) ==
  IF underway THEN repeats < MaxRepeat /\ repeats' = repeats + 1
              ELSE UNCHANGED repeats

\* A message to the server has not reached the end of the test for its number, or
\* its acknowledgement is on the way back.
MessageUnderway(r, in, out) ==
  \/ r \in ToSet(in) \/ r \in ToSet(m_tasks) \/ AckFor(r.seq) \in ToSet(out)
  \/ \E w \in Workers : workers[w] \in {Handling("acknowledged", r), Handling("new", r)}

-----------------------------------------------------------------------------
(* The world *)

Reported(log, kind, p) == \E r \in log : r.kind = kind /\ r.item = p

\* A truck that delivered its packages is idle again.
WorldAnswers(c) ==
  LET answer(kind, n) == [kind |-> kind, item |-> c.item, truck |-> c.truck, seq |-> n]
  IN  IF c.kind = "pickup" THEN {answer("arrived", world_seq)}
      ELSE {answer("delivered", world_seq), answer("idle", world_seq + 1)}

\* The world may refuse to deliver a package again: UPS only prints the error.
MayRefuse(c) == c.kind = "deliver" /\ Reported(world_issued, "delivered", c.item)

WorldReadCommand ==
  LET c == Head(to_world)
  IN  /\ to_world # <<>> /\ c.kind # "ack"
      /\ to_world' = Tail(to_world)
      /\ Write(from_world, AckFor(c.seq))
      /\ world_seen' = world_seen \cup {c}
      /\ \/ /\ \A d \in world_seen : d.seq # c.seq
            /\ world_seq' = world_seq + Cardinality(WorldAnswers(c))
            /\ world_issued' = world_issued \cup WorldAnswers(c)
            /\ world_out' = world_out \cup WorldAnswers(c)
         \/ /\ MayRefuse(c) \/ \E d \in world_seen : d.seq = c.seq
            /\ UNCHANGED <<world_seq, world_issued, world_out>>
      /\ UNCHANGED <<serverVars, to_amazon, from_amazon, amazonVars, repeats>>

WorldReadAck ==
  /\ to_world # <<>> /\ Head(to_world).kind = "ack"
  /\ to_world' = Tail(to_world)
  /\ world_out' = {r \in world_out : r.seq # Head(to_world).seq}
  /\ UNCHANGED <<serverVars, from_world, to_amazon, from_amazon, world_seq,
                 world_seen, world_issued, amazonVars, repeats>>

WorldSend(r) ==
  /\ r \in world_out
  /\ Repeating(MessageUnderway(r, from_world, to_world))
  /\ Write(from_world, r)
  /\ UNCHANGED <<serverVars, to_world, to_amazon, from_amazon, worldVars, amazonVars>>

-----------------------------------------------------------------------------
(* Amazon *)

AmazonCommand(kind, p) ==
  [kind |-> kind, item |-> p, truck |-> NoTruck, seq |-> amazon_seq]

AmazonIssues(kind, p) ==
  /\ amazon_seq' = amazon_seq + 1
  /\ amazon_issued' = amazon_issued \cup {AmazonCommand(kind, p)}
  /\ amazon_out' = amazon_out \cup {AmazonCommand(kind, p)}

Requested(kind, p) == \E c \in amazon_issued : c.kind = kind /\ c.item = p

\* An order is packed: Amazon asks for a truck.
AmazonRequest(p) ==
  /\ ~Requested("pickupreq", p)
  /\ AmazonIssues("pickupreq", p)
  /\ UNCHANGED <<serverVars, sockets, worldVars, amazon_seen, repeats>>

\* Amazon notes the truck of a package, or its delivery.
AmazonReadCommand ==
  LET c == Head(to_amazon)
  IN  /\ to_amazon # <<>> /\ c.kind # "ack"
      /\ to_amazon' = Tail(to_amazon)
      /\ Write(from_amazon, AckFor(c.seq))
      /\ amazon_seen' = amazon_seen \cup {c}
      /\ UNCHANGED <<serverVars, to_world, from_world, worldVars, amazon_seq,
                     amazon_issued, amazon_out, repeats>>

\* The world reports a package as loaded when its truck is known.
AmazonLoaded(p) ==
  /\ Reported(amazon_seen, "truckarrived", p) /\ ~Requested("loaded", p)
  /\ AmazonIssues("loaded", p)
  /\ UNCHANGED <<serverVars, sockets, worldVars, amazon_seen, repeats>>

\* The acknowledgement of that report was lost and the world repeats it.  Amazon does
\* not look up its number: it says "loaded" again, under a new number.
AmazonLoadedAgain(p) ==
  /\ Requested("loaded", p)
  /\ losses < MaxLoss /\ losses' = losses + 1
  /\ AmazonIssues("loaded", p)
  /\ UNCHANGED <<numbers, store, handled, m_tasks, workers, tables, crashed,
                 sockets, worldVars, amazon_seen, repeats>>

AmazonReadAck ==
  /\ to_amazon # <<>> /\ Head(to_amazon).kind = "ack"
  /\ to_amazon' = Tail(to_amazon)
  /\ amazon_out' = {r \in amazon_out : r.seq # Head(to_amazon).seq}
  /\ UNCHANGED <<serverVars, to_world, from_world, from_amazon, worldVars,
                 amazon_seq, amazon_seen, amazon_issued, repeats>>

AmazonSend(r) ==
  /\ r \in amazon_out
  /\ Repeating(MessageUnderway(r, from_amazon, to_amazon))
  /\ Write(from_amazon, r)
  /\ UNCHANGED <<serverVars, to_world, from_world, to_amazon, worldVars, amazonVars>>

\* Amazon reads with the same code as UPS; the world may ignore what it is sent.
DropCommand(chan) ==
  /\ losses < MaxLoss /\ losses' = losses + 1
  /\ chan # <<>> /\ chan' = Tail(chan)

PeerLoses ==
  /\ \/ DropCommand(to_world) /\ UNCHANGED to_amazon
     \/ DropCommand(to_amazon) /\ UNCHANGED to_world
  /\ UNCHANGED <<numbers, store, handled, m_tasks, workers, tables, crashed,
                 from_world, from_amazon, worldVars, amazonVars, repeats>>

-----------------------------------------------------------------------------
(* The system *)

Init ==
  /\ InitServer
  /\ world_seq = 0 /\ world_seen = {} /\ world_issued = {} /\ world_out = {}
  /\ amazon_seq = 0 /\ amazon_seen = {} /\ amazon_issued = {} /\ amazon_out = {}
  /\ repeats = 0

CommandUnderway(c, out, in) ==
  \/ c \in ToSet(out)
  \/ AckFor(c.seq) \in ToSet(in) \cup ToSet(m_tasks)

Send(w) ==
  /\ SendCommand(w)
  /\ LET c == workers[w].cmd
     IN  Repeating(IF c.kind \in ToWorldKinds
                   THEN CommandUnderway(c, to_world, from_world)
                   ELSE CommandUnderway(c, to_amazon, from_amazon))
  /\ UNCHANGED <<worldVars, amazonVars>>

PoolStep == \E w \in Workers : Worker(w) /\ UNCHANGED <<worldVars, amazonVars, repeats>>

CommandStep == \E w \in Workers : Send(w)

TakeStep == \E w \in Workers : TakeTask(w) /\ UNCHANGED <<worldVars, amazonVars, repeats>>

MainStep == MainThread /\ UNCHANGED <<worldVars, amazonVars, repeats>>

WorldReads == WorldReadCommand \/ WorldReadAck
WorldStep == \E r \in world_out : WorldSend(r)

AmazonReads == AmazonReadCommand \/ AmazonReadAck
AmazonStep ==
  \/ \E p \in Packages : AmazonRequest(p) \/ AmazonLoaded(p)
  \/ \E r \in amazon_out : AmazonSend(r)

AmazonRepeats == \E p \in Packages : AmazonLoadedAgain(p)

Next ==
  \/ MainStep \/ TakeStep \/ PoolStep \/ CommandStep
  \/ WorldReads \/ WorldStep \/ AmazonReads \/ AmazonStep \/ AmazonRepeats
  \/ PeerLoses

Spec == Init /\ [][Next]_vars

-----------------------------------------------------------------------------
(* Fairness.  The operating system runs the main thread, the idle workers, the *)
(* handlers and the workers that wait for an acknowledgement, and the peers go  *)
(* on answering; they read in one thread and write in another.  Who repeats a   *)
(* message sleeps in between (3 s at UPS), so who has an acknowledgement to     *)
(* write and found the socket full gets a turn: strong fairness of those that   *)
(* read and acknowledge, weak fairness of the others.  Losses and a second      *)
(* "loaded" are not fair: they need not happen.                                 *)

Fairness ==
  /\ WF_vars(MainStep) /\ SF_vars(TakeStep) /\ WF_vars(PoolStep) /\ WF_vars(CommandStep)
  /\ SF_vars(WorldReads) /\ WF_vars(WorldStep)
  /\ SF_vars(AmazonReads) /\ WF_vars(AmazonStep)

FairSpec == Spec /\ Fairness

-----------------------------------------------------------------------------
(* Properties *)

\* Types of the variables; a handler holds the fields its stage uses.
TypeOK ==
  /\ seqNum \in 0 .. MaxSeq
  /\ issued \subseteq Message(ToWorldKinds \cup ToAmazonKinds) \cup Delivery
  /\ answered \subseteq Message(WorldResponses \cup AmazonRequests) \X issued
  /\ store \subseteq Nat /\ recvs \subseteq Nat /\ recvs_amazon \subseteq Nat
  /\ m_tasks \in Seq(Message(WorldResponses \cup AmazonRequests) \cup Acks)
  /\ Len(m_tasks) <= MaxTasks
  /\ \A w \in Workers :
       \/ workers[w] = Idle
       \/ workers[w].stage = "sending" /\ workers[w].cmd \in issued
       \/ workers[w].msg \in Message(WorldResponses \cup AmazonRequests)
  /\ user_users \subseteq Accounts
  /\ user_packages \in [Packages -> Row \cup {NoPackage}]
  /\ user_trucks \in [Trucks -> TruckStatuses]
  /\ crashed \in BOOLEAN
  /\ to_world \in Seq(issued \cup Acks) /\ to_amazon \in Seq(issued \cup Acks)
  /\ from_world \in Seq(world_issued \cup Acks)
  /\ from_amazon \in Seq(amazon_issued \cup Acks)
  /\ world_out \subseteq world_issued /\ amazon_out \subseteq amazon_issued
  /\ world_issued \subseteq Message(WorldResponses)
  /\ amazon_issued \subseteq Message(AmazonRequests)

\* A command whose number is in store was read by the peer it is for, although
\* one set serves both peers: no handler stops to repeat too early.
NoFalseAck ==
  \A c \in issued : c.seq \in store =>
    c \in IF c.kind \in ToWorldKinds THEN world_seen ELSE amazon_seen

\* A second pickup of p is handled: it has picked another truck, and will end the
\* server when it inserts the row again.
PickedAgain(p) ==
  \E w \in Workers : workers[w].stage \in {"picked", "no user"} /\ workers[w].msg.item = p

RowIsEarned(p) ==
  LET s == user_packages[p].status
  IN  /\ s \in {"out for delivery", "delivered"} => Reported(amazon_issued, "loaded", p)
      /\ s = "delivered" => Reported(world_issued, "delivered", p)
      /\ s = "picked up" =>
           \/ \E r \in world_issued : r.kind = "arrived" /\ r.truck = user_packages[p].truck
           \/ PickedAgain(p)

\* What the tables tell a customer is true: a package that is out for delivery was
\* loaded, one that is delivered was delivered by the world, and one that is
\* picked up is on a truck that came to a warehouse, up to a crash.
StatusIsEarned ==
  \A p \in Packages : user_packages[p] # NoPackage => RowIsEarned(p)

\* What was said of the packages: by Amazon in its requests, by UPS in its commands
Said ==
  {<<c.item, c.kind>> : c \in amazon_issued \cup {d \in issued : d.kind \in ToAmazonKinds}}

Contract == INSTANCE Shipment WITH said <- Said

\* UPS keeps the contract of amazon_ups.proto: Amazon hears of a truck only for a
\* package it asked a truck for, and of a delivery only of a package it loaded,
\* although arrivals of trucks are matched with packages by the tables alone.
KeepsContract == Contract!Spec

\* The server survives: no row is inserted twice and no row that a handler reads
\* is missing, in whatever order the workers run.
NoCrash == ~crashed

\* No message of a peer leads to two commands, although a handler runs between two
\* looks at the set of numbers and a lost acknowledgement makes the message come again.
\* A repetition that comes between the test and the insertion of the number is not
\* covered: there the code does handle a message twice, and MaxRepeat = 0 excludes it.
HandledOnce ==
  \A a, b \in answered : a[1] = b[1] => a = b

\* The world refused to deliver p once more.
Refused(p) ==
  Cardinality({c \in world_seen : c.kind = "deliver" /\ c.item = p})
    > Cardinality({r \in world_issued : r.kind = "delivered" /\ r.item = p})

\* What the tables say of p in the end.
Settled(p) ==
  LET row == user_packages[p]
  IN  /\ row # NoPackage
      /\ IF Refused(p) THEN row.status \in {"out for delivery", "delivered"}
         ELSE row.status = "delivered" /\ user_trucks[row.truck] = "idle"

\* Every worker repeats a command whose acknowledgement only a worker could take: the
\* server does nothing else any more.
Starved ==
  \A w \in Workers : workers[w].stage = "sending" /\ workers[w].cmd.seq \notin store

\* Two workers are enough for a package as long as nothing is lost or repeated: a
\* command is acknowledged before its consequences need the second worker.
StarvedByFault == Starved => losses > 0 \/ repeats > 0

\* In spite of a fault, a lost message or a second "loaded", every package is delivered in
\* the end and its truck idle, and no late worker writes an earlier status over that.
\* (The second "loaded" does write "out for delivery" over "delivered", but then the
\* package is sent out and delivered again, unless the world refuses.)  And all workers
\* wait for new tasks: repetition has ended.  The only other end is a starved pool.
DeliveredAndAtRest ==
  \/ <>Starved
  \/ <>[](/\ \A p \in Packages : Settled(p)
          /\ \A w \in Workers : workers[w] = Idle)

\* danger.log:16 says that the set of acknowledgements decides whether a command is
\* sent again.  This would mean that a received acknowledgement gets into the set.
AckStopsCommand ==
  \A n \in 1 .. MaxSeq : AckFor(n) \in ToSet(m_tasks) ~> n \in store

\* worldreq.hpp:64 says that it does no harm when an arriving truck picks up a
\* package whose row was just inserted.  This would mean that Amazon hears of a
\* truck only when that truck came for the package.
ReportedTruckCame ==
  \A c \in issued : c.kind = "truckarrived" =>
    \E r \in world_issued : r.kind = "arrived" /\ r.item = c.item /\ r.truck = c.truck

=============================================================================
