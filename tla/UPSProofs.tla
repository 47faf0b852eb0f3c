------------------------------ MODULE UPSProofs ------------------------------
(***************************************************************************)
(* Invariants of UPSSystem for every set of packages, accounts and trucks, *)
(* every size of the pool and of its queue, and every number of lost and   *)
(* of repeated messages.                                                   *)
(***************************************************************************)
EXTENDS UPSSystem, FiniteSetTheorems, TLAPS

-----------------------------------------------------------------------------
(* The inductive invariant *)

Commands == Message(ToWorldKinds \cup ToAmazonKinds) \cup Delivery
Requests == world_issued \cup amazon_issued
ForWorld == {c \in issued : c.kind \in ToWorldKinds}
ForAmazon == {c \in issued : c.kind \in ToAmazonKinds}
AcksOf(seen) == {m \in Acks : \E c \in seen : c.seq = m.seq}

\* What a worker has in its hands was given a number before.
Handlers == [stage : {"acknowledged", "new", "started", "arrived"}, msg : Requests]
Pickups == [stage : {"picked", "no user", "created"}, msg : Requests, truck : Trucks]
Loadings == [stage : {"read", "out"}, msg : Requests, cmd : issued]
Senders == [stage : {"sending"}, cmd : issued]
States == {Idle} \cup Handlers \cup Pickups \cup Loadings \cup Senders

\* A number belongs to one command.
NumberInv ==
  /\ seqNum \in 0 .. MaxSeq /\ issued \subseteq Commands
  /\ \A c \in issued : c.seq <= seqNum
  /\ \A c, d \in issued : c.seq = d.seq => c = d

\* An acknowledgement stands for a command that its peer has read, wherever it is.
HandledInv ==
  /\ store \subseteq Nat /\ recvs \subseteq Nat /\ recvs_amazon \subseteq Nat
  /\ \A n \in store : \E c \in world_seen \cup amazon_seen : c.seq = n
  /\ m_tasks \in Seq(Requests \cup AcksOf(world_seen \cup amazon_seen))
  /\ Len(m_tasks) <= MaxTasks

ChannelInv ==
  /\ to_world \in Seq(ForWorld \cup Acks) /\ to_amazon \in Seq(ForAmazon \cup Acks)
  /\ from_world \in Seq(world_issued \cup AcksOf(world_seen))
  /\ from_amazon \in Seq(amazon_issued \cup AcksOf(amazon_seen))

PeerInv ==
  /\ world_seq \in Nat /\ amazon_seq \in Nat
  /\ world_issued \subseteq Message(WorldResponses) /\ world_out \subseteq world_issued
  /\ amazon_issued \subseteq Message(AmazonRequests) /\ amazon_out \subseteq amazon_issued
  /\ world_seen \subseteq ForWorld /\ amazon_seen \subseteq ForAmazon

WorkerInv == workers \in [Workers -> States]

TableInv ==
  /\ user_users \subseteq Accounts
  /\ user_packages \in [Packages -> Row \cup {NoPackage}]
  /\ user_trucks \in [Trucks -> TruckStatuses]
  /\ crashed \in BOOLEAN

\* A worker that sends a package out has found its row.
LoadingInv ==
  \A w \in Workers : workers[w].stage = "read" =>
    LET p == workers[w].msg.item IN p \in Packages /\ user_packages[p] # NoPackage

\* A package that the world delivered was sent out, and that because it was loaded.
CommandsEarned ==
  /\ \A c \in issued : c.kind = "deliver" => Reported(amazon_issued, "loaded", c.item)
  /\ \A r \in world_issued : r.kind = "delivered" => Reported(issued, "deliver", r.item)

UPSInv ==
  /\ NumberInv /\ HandledInv /\ ChannelInv /\ PeerInv /\ WorkerInv /\ TableInv
  /\ LoadingInv /\ CommandsEarned /\ StatusIsEarned

-----------------------------------------------------------------------------
(* Lemmas about sequences and about the parts of the invariant *)

LEMMA FirstOf ==
  ASSUME NEW S, NEW s \in Seq(S), s # <<>>
  PROVE  Head(s) \in S /\ Tail(s) \in Seq(S) /\ Len(s) \in Nat /\ Len(Tail(s)) < Len(s)
  OBVIOUS

LEMMA RestOf ==
  ASSUME NEW S, NEW s \in Seq(S), NEW n \in 0 .. Len(s) - 1
  PROVE  SubSeq(s, n + 2, Len(s)) \in Seq(S)
  OBVIOUS

LEMMA LongerBy ==
  ASSUME NEW S, NEW s \in Seq(S), NEW x \in S
  PROVE  Append(s, x) \in Seq(S) /\ Len(s) \in Nat /\ Len(Append(s, x)) = Len(s) + 1
  OBVIOUS

LEMMA Wider ==
  ASSUME NEW S, NEW T, S \subseteq T
  PROVE  Seq(S) \subseteq Seq(T)
  OBVIOUS

LEMMA WrittenTo ==
  ASSUME NEW S, NEW chan \in Seq(S), NEW m \in S, NEW chan2, chan2 = Append(chan, m)
  PROVE  chan2 \in Seq(S)
  BY LongerBy

\* The histories only grow, and with them all that is defined from them.
Growing ==
  /\ issued \subseteq issued'
  /\ world_issued \subseteq world_issued' /\ amazon_issued \subseteq amazon_issued'
  /\ world_seen \subseteq world_seen' /\ amazon_seen \subseteq amazon_seen'

LEMMA Growth ==
  ASSUME Growing
  PROVE  /\ Requests \subseteq Requests' /\ States \subseteq States'
         /\ ForWorld \subseteq ForWorld' /\ ForAmazon \subseteq ForAmazon'
         /\ AcksOf(world_seen) \subseteq AcksOf(world_seen')
         /\ AcksOf(amazon_seen) \subseteq AcksOf(amazon_seen')
         /\ AcksOf(world_seen \cup amazon_seen) \subseteq AcksOf(world_seen' \cup amazon_seen')
  <1>1. Requests \subseteq Requests'  BY DEF Growing, Requests
  <1>2. ForWorld \subseteq ForWorld' /\ ForAmazon \subseteq ForAmazon'
    BY DEF Growing, ForWorld, ForAmazon
  <1>3. \A S, T : S \subseteq T => AcksOf(S) \subseteq AcksOf(T)  BY DEF AcksOf
  <1>4. Handlers \subseteq Handlers'  BY <1>1 DEF Handlers
  <1>5. Pickups \subseteq Pickups'  BY <1>1 DEF Pickups
  <1>6. Loadings \subseteq Loadings'  BY <1>1 DEF Loadings, Growing
  <1>7. Senders \subseteq Senders'  BY DEF Senders, Growing
  <1>8. States \subseteq States'  BY <1>4, <1>5, <1>6, <1>7 DEF States
  <1>9. world_seen \cup amazon_seen \subseteq world_seen' \cup amazon_seen'  BY DEF Growing
  <1> QED BY <1>1, <1>2, <1>3, <1>8, <1>9 DEF Growing

\* The stage of a worker tells which fields it has.
LEMMA AtStage ==
  ASSUME WorkerInv, NEW w \in Workers
  PROVE  /\ workers[w].stage \in {"acknowledged", "new", "started", "arrived"} => workers[w] \in Handlers
         /\ workers[w].stage \in {"picked", "no user", "created"} => workers[w] \in Pickups
         /\ workers[w].stage \in {"read", "out"} => workers[w] \in Loadings
         /\ workers[w].stage = "sending" => workers[w] \in Senders
         /\ workers[w].stage # "idle" => workers[w] # Idle
  <1>1. workers[w] \in States  BY DEF WorkerInv
  <1>2. Idle.stage = "idle"  BY DEF Idle
  <1>3. CASE workers[w] = Idle  BY <1>2, <1>3
  <1>4. CASE workers[w] \in Handlers
    <2>1. workers[w].stage \in {"acknowledged", "new", "started", "arrived"}  BY <1>4 DEF Handlers
    <2> QED BY <1>2, <1>4, <2>1
  <1>5. CASE workers[w] \in Pickups
    <2>1. workers[w].stage \in {"picked", "no user", "created"}  BY <1>5 DEF Pickups
    <2> QED BY <1>2, <1>5, <2>1
  <1>6. CASE workers[w] \in Loadings
    <2>1. workers[w].stage \in {"read", "out"}  BY <1>6 DEF Loadings
    <2> QED BY <1>2, <1>6, <2>1
  <1>7. CASE workers[w] \in Senders
    <2>1. workers[w].stage = "sending"  BY <1>7 DEF Senders
    <2> QED BY <1>2, <1>7, <2>1
  <1> QED BY <1>1, <1>3, <1>4, <1>5, <1>6, <1>7 DEF States

LEMMA RequestTypes ==
  ASSUME PeerInv, NEW m \in Requests
  PROVE  /\ m \in Message(WorldResponses \cup AmazonRequests)
         /\ m.item \in Packages /\ m.seq \in Nat /\ m.truck \in Trucks \cup {NoTruck}
         /\ m.kind # "ack"
         /\ m.kind \in {"arrived", "idle", "delivered"} => m \in world_issued
         /\ m.kind \in {"pickupreq", "loaded"} => m \in amazon_issued
  <1>1. CASE m \in world_issued
    <2>1. m \in Message(WorldResponses)  BY <1>1 DEF PeerInv
    <2> QED BY <1>1, <2>1 DEF Message, WorldResponses
  <1>2. CASE m \in amazon_issued
    <2>1. m \in Message(AmazonRequests)  BY <1>2 DEF PeerInv
    <2> QED BY <1>2, <2>1 DEF Message, AmazonRequests
  <1> QED BY <1>1, <1>2 DEF Requests

LEMMA CommandTypes ==
  ASSUME NumberInv, NEW c \in issued
  PROVE  /\ c.item \in Packages /\ c.seq \in Nat /\ c.truck \in Trucks \cup {NoTruck}
         /\ c.kind \in {"pickup", "deliver", "truckarrived", "delivered"}
  <1>1. CASE c \in Message(ToWorldKinds \cup ToAmazonKinds)
    BY <1>1 DEF Message, ToWorldKinds, ToAmazonKinds
  <1>2. CASE c \in Delivery  BY <1>2 DEF Delivery
  <1> QED BY <1>1, <1>2 DEF NumberInv, Commands

LEMMA AckTypes ==
  ASSUME NEW n \in Nat
  PROVE  AckFor(n) \in Acks /\ AckFor(n).seq = n /\ AckFor(n).kind = "ack"
  BY DEF AckFor, Acks

-----------------------------------------------------------------------------
(* What a step leaves alone keeps its part of the invariant *)

\* A step takes no number, or the next one for a new command.
NewCommand(c) ==
  /\ c \in Commands /\ c.seq = seqNum + 1
  /\ c.kind = "deliver" => Reported(amazon_issued, "loaded", c.item)

NumberStep ==
  \/ UNCHANGED <<seqNum, issued>>
  \/ /\ seqNum < MaxSeq /\ seqNum' = seqNum + 1
     /\ \E c : NewCommand(c) /\ issued' = issued \cup {c}

LEMMA Numbering ==
  ASSUME NumberInv, NumberStep
  PROVE  NumberInv' /\ issued \subseteq issued'
  <1>1. CASE UNCHANGED <<seqNum, issued>>  BY <1>1 DEF NumberInv
  <1>2. CASE /\ seqNum < MaxSeq /\ seqNum' = seqNum + 1
             /\ \E c : NewCommand(c) /\ issued' = issued \cup {c}
    <2>1. PICK c : NewCommand(c) /\ issued' = issued \cup {c}  BY <1>2
    <2>2. seqNum \in Nat /\ MaxSeq \in Nat /\ seqNum' \in 0 .. MaxSeq
      BY <1>2, BoundAssumption DEF NumberInv
    <2>3. \A d \in issued : d.seq \in Nat /\ d.seq <= seqNum
      BY CommandTypes DEF NumberInv
    <2>4. c \in Commands /\ c.seq = seqNum + 1  BY <2>1 DEF NewCommand
    <2>5. \A d \in issued' : d.seq <= seqNum'  BY <1>2, <2>1, <2>2, <2>3, <2>4
    <2>6. \A d \in issued : d.seq # c.seq  BY <2>2, <2>3, <2>4
    <2>7. \A d, e \in issued' : d.seq = e.seq => d = e  BY <2>1, <2>6 DEF NumberInv
    <2>8. issued' \subseteq Commands  BY <2>1, <2>4 DEF NumberInv
    <2> QED BY <2>1, <2>2, <2>5, <2>7, <2>8 DEF NumberInv
  <1> QED BY <1>1, <1>2 DEF NumberStep

LEMMA Earning ==
  ASSUME CommandsEarned, NumberStep, UNCHANGED <<world_issued, amazon_issued>>
  PROVE  CommandsEarned'
  <1>1. CASE UNCHANGED <<seqNum, issued>>  BY <1>1 DEF CommandsEarned, Reported
  <1>2. CASE \E c : NewCommand(c) /\ issued' = issued \cup {c}
    <2>1. PICK c : NewCommand(c) /\ issued' = issued \cup {c}  BY <1>2
    <2> QED BY <2>1 DEF CommandsEarned, Reported, NewCommand
  <1> QED BY <1>1, <1>2 DEF NumberStep

LEMMA SameChannels ==
  ASSUME ChannelInv, Growing, UNCHANGED sockets
  PROVE  ChannelInv'
  <1>1. /\ ForWorld \cup Acks \subseteq ForWorld' \cup Acks
        /\ ForAmazon \cup Acks \subseteq ForAmazon' \cup Acks
        /\ world_issued \cup AcksOf(world_seen) \subseteq world_issued' \cup AcksOf(world_seen')
        /\ amazon_issued \cup AcksOf(amazon_seen) \subseteq amazon_issued' \cup AcksOf(amazon_seen')
    BY Growth DEF Growing
  <1>2. UNCHANGED <<to_world, from_world, to_amazon, from_amazon>>  BY DEF sockets
  <1>3. to_world' \in Seq(ForWorld' \cup Acks)  BY <1>1, <1>2, Wider DEF ChannelInv
  <1>4. to_amazon' \in Seq(ForAmazon' \cup Acks)  BY <1>1, <1>2, Wider DEF ChannelInv
  <1>5. from_world' \in Seq(world_issued' \cup AcksOf(world_seen'))
    BY <1>1, <1>2, Wider DEF ChannelInv
  <1>6. from_amazon' \in Seq(amazon_issued' \cup AcksOf(amazon_seen'))
    BY <1>1, <1>2, Wider DEF ChannelInv
  <1> QED BY <1>3, <1>4, <1>5, <1>6 DEF ChannelInv

LEMMA SameTasks ==
  ASSUME HandledInv, Growing, UNCHANGED <<store, m_tasks>>,
         recvs' \subseteq Nat, recvs_amazon' \subseteq Nat
  PROVE  HandledInv'
  <1>1. Requests \cup AcksOf(world_seen \cup amazon_seen)
          \subseteq Requests' \cup AcksOf(world_seen' \cup amazon_seen')
    BY Growth
  <1>2. m_tasks' \in Seq(Requests' \cup AcksOf(world_seen' \cup amazon_seen'))
    BY <1>1, Wider DEF HandledInv
  <1>3. \A n \in store : \E c \in world_seen' \cup amazon_seen' : c.seq = n
    BY DEF HandledInv, Growing
  <1> QED BY <1>2, <1>3 DEF HandledInv

LEMMA SamePeers ==
  ASSUME PeerInv, Growing, UNCHANGED <<worldVars, amazonVars>>
  PROVE  PeerInv'
  <1>1. ForWorld \subseteq ForWorld' /\ ForAmazon \subseteq ForAmazon'  BY Growth
  <1> QED BY <1>1 DEF PeerInv, worldVars, amazonVars

LEMMA SameWorkers ==
  ASSUME WorkerInv, Growing, UNCHANGED workers
  PROVE  WorkerInv'
  BY Growth DEF WorkerInv

LEMMA WorkerGoes ==
  ASSUME WorkerInv, Growing, NEW w \in Workers, NEW state, state \in States',
         workers' = [workers EXCEPT ![w] = state]
  PROVE  WorkerInv' /\ \A v \in Workers : workers'[v] = IF v = w THEN state ELSE workers[v]
  <1>1. workers \in [Workers -> States']  BY Growth DEF WorkerInv
  <1>2. workers' \in [Workers -> States']  BY <1>1
  <1> QED BY <1>1, <1>2 DEF WorkerInv

\* A worker may go on from its pickup if it stays with it.
LEMMA PickupGoesOn ==
  ASSUME NEW w \in Workers, NEW state,
         \A v \in Workers : workers'[v] = IF v = w THEN state ELSE workers[v],
         workers[w].stage \in {"picked", "no user"} =>
           state.stage \in {"picked", "no user"} /\ state.msg = workers[w].msg
  PROVE  \A p \in Packages : PickedAgain(p) => PickedAgain(p)'
  BY DEF PickedAgain

LEMMA SameRows ==
  ASSUME StatusIsEarned, UNCHANGED user_packages,
         world_issued \subseteq world_issued', amazon_issued \subseteq amazon_issued',
         \A p \in Packages : PickedAgain(p) => PickedAgain(p)'
  PROVE  StatusIsEarned'
  <1>1. \A k, p : /\ Reported(amazon_issued, k, p) => Reported(amazon_issued', k, p)
                  /\ Reported(world_issued, k, p) => Reported(world_issued', k, p)
    BY DEF Reported
  <1> QED BY <1>1 DEF StatusIsEarned, RowIsEarned

\* No row vanishes.
RowsKept == \A p \in Packages : user_packages'[p] = NoPackage => user_packages[p] = NoPackage

LEMMA SameLoadings ==
  ASSUME LoadingInv, RowsKept,
         \A w \in Workers : workers'[w].stage = "read" =>
           \/ workers'[w] = workers[w]
           \/ workers'[w].msg.item \in Packages /\ user_packages[workers'[w].msg.item] # NoPackage
  PROVE  LoadingInv'
  BY DEF LoadingInv, RowsKept

\* Most steps of a worker: only numbers, tables and its own stage may change.
LEMMA WorkerStep ==
  ASSUME UPSInv, NEW w \in Workers, NEW state, NumberStep, state \in States',
         workers' = [workers EXCEPT ![w] = state],
         UNCHANGED <<store, m_tasks, sockets, worldVars, amazonVars>>,
         recvs' \subseteq Nat, recvs_amazon' \subseteq Nat, TableInv', StatusIsEarned', RowsKept,
         state.stage = "read" =>
           state.msg.item \in Packages /\ user_packages[state.msg.item] # NoPackage
  PROVE  UPSInv'
  <1>1. NumberInv' /\ issued \subseteq issued'  BY Numbering DEF UPSInv
  <1>2. Growing  BY <1>1 DEF Growing, worldVars, amazonVars
  <1>3. HandledInv' /\ ChannelInv' /\ PeerInv'
    BY <1>2, SameTasks, SameChannels, SamePeers DEF UPSInv
  <1>4. WorkerInv' /\ \A v \in Workers : workers'[v] = IF v = w THEN state ELSE workers[v]
    BY <1>2, WorkerGoes DEF UPSInv
  <1>5. CommandsEarned'  BY Earning DEF UPSInv, worldVars, amazonVars
  <1>6. LoadingInv'  BY <1>4, SameLoadings DEF UPSInv
  <1> QED BY <1>1, <1>3, <1>4, <1>5, <1>6 DEF UPSInv

LEMMA CrashStep ==
  ASSUME UPSInv, Crash, UNCHANGED <<worldVars, amazonVars>>
  PROVE  UPSInv'
  <1>1. /\ UNCHANGED <<seqNum, issued, store, m_tasks, workers, sockets, recvs, recvs_amazon,
                       user_users, user_packages, user_trucks>>
        /\ crashed' = TRUE
    BY DEF Crash, numbers, handled, tables
  <1>2. Growing  BY <1>1 DEF Growing, worldVars, amazonVars
  <1>3. NumberInv'  BY <1>1 DEF UPSInv, NumberInv
  <1>4. HandledInv' /\ ChannelInv' /\ PeerInv' /\ WorkerInv'
    BY <1>1, <1>2, SameTasks, SameChannels, SamePeers, SameWorkers DEF UPSInv, HandledInv
  <1>5. TableInv'  BY <1>1 DEF UPSInv, TableInv
  <1>6. CommandsEarned'  BY <1>1, Earning DEF UPSInv, NumberStep, worldVars, amazonVars
  <1>7. StatusIsEarned'
    <2>1. \A p \in Packages : PickedAgain(p) => PickedAgain(p)'  BY <1>1 DEF PickedAgain
    <2> QED BY <1>1, <2>1, SameRows DEF UPSInv, worldVars, amazonVars
  <1>8. LoadingInv'  BY <1>1 DEF UPSInv, LoadingInv
  <1> QED BY <1>3, <1>4, <1>5, <1>6, <1>7, <1>8 DEF UPSInv

-----------------------------------------------------------------------------
(* The steps of a worker *)

LEMMA FindNumberStep ==
  ASSUME UPSInv, NEW w \in Workers, FindNumber(w), UNCHANGED <<worldVars, amazonVars>>
  PROVE  UPSInv'
  <1> DEFINE state == IF AlreadySeen(workers[w].msg) THEN Idle ELSE Handling("new", workers[w].msg)
  <1>1. /\ workers[w].stage = "acknowledged" /\ workers' = [workers EXCEPT ![w] = state]
        /\ UNCHANGED <<seqNum, issued, store, recvs, recvs_amazon, m_tasks, sockets,
                       user_users, user_packages, user_trucks, crashed>>
    BY DEF FindNumber, Become, numbers, handled, tables
  <1>2. workers[w].msg \in Requests  BY <1>1, AtStage DEF UPSInv, Handlers
  <1>3. UNCHANGED <<issued, Requests>>  BY <1>1 DEF Requests, worldVars, amazonVars
  <1>4. Handling("new", workers[w].msg) \in Handlers  BY <1>2 DEF Handling, Handlers
  <1>5. state \in States'
    BY <1>3, <1>4 DEF States, Handlers, Pickups, Loadings, Senders
  <1>6. \A v \in Workers : workers'[v] = IF v = w THEN state ELSE workers[v]
    BY <1>1 DEF UPSInv, WorkerInv
  <1>7. StatusIsEarned'
    BY <1>1, <1>6, PickupGoesOn, SameRows DEF UPSInv, worldVars, amazonVars
  <1>8. TableInv' /\ NumberStep  BY <1>1 DEF UPSInv, TableInv, NumberStep
  <1>9. recvs' \subseteq Nat /\ recvs_amazon' \subseteq Nat  BY <1>1 DEF UPSInv, HandledInv
  <1>10. RowsKept /\ state.stage # "read"  BY <1>1 DEF RowsKept, Idle, Handling
  <1> HIDE DEF state
  <1> QED BY <1>1, <1>5, <1>7, <1>8, <1>9, <1>10, WorkerStep

LEMMA InsertNumberStep ==
  ASSUME UPSInv, NEW w \in Workers, InsertNumber(w), UNCHANGED <<worldVars, amazonVars>>
  PROVE  UPSInv'
  <1> DEFINE m == workers[w].msg
             state == Handling("started", m)
  <1>1. /\ workers[w].stage = "new" /\ workers' = [workers EXCEPT ![w] = state]
        /\ UNCHANGED <<seqNum, issued, store, m_tasks, sockets,
                       user_users, user_packages, user_trucks, crashed>>
        /\ recvs' \subseteq recvs \cup {m.seq} /\ recvs_amazon' \subseteq recvs_amazon \cup {m.seq}
    BY DEF InsertNumber, Insert, Become, numbers, tables
  <1>2. m \in Requests  BY <1>1, AtStage DEF UPSInv, Handlers
  <1>3. UNCHANGED <<issued, Requests>>  BY <1>1 DEF Requests, worldVars, amazonVars
  <1>4. state \in Handlers  BY <1>2 DEF Handling, Handlers
  <1>5. state \in States'
    BY <1>3, <1>4 DEF States, Handlers, Pickups, Loadings, Senders
  <1>6. \A v \in Workers : workers'[v] = IF v = w THEN state ELSE workers[v]
    BY <1>1 DEF UPSInv, WorkerInv
  <1>7. StatusIsEarned'
    BY <1>1, <1>6, PickupGoesOn, SameRows DEF UPSInv, worldVars, amazonVars
  <1>8. TableInv' /\ NumberStep  BY <1>1 DEF UPSInv, TableInv, NumberStep
  <1>9. m.seq \in Nat  BY <1>2, RequestTypes DEF UPSInv
  <1>10. recvs' \subseteq Nat /\ recvs_amazon' \subseteq Nat
    BY <1>1, <1>9 DEF UPSInv, HandledInv
  <1>11. RowsKept /\ state.stage # "read"  BY <1>1 DEF RowsKept, Handling
  <1> HIDE DEF state, m
  <1> QED BY <1>1, <1>5, <1>7, <1>8, <1>10, <1>11, WorkerStep

\* The worker is free again, after a command was acknowledged or a truck is idle.
LEMMA FreeStep ==
  ASSUME UPSInv, NEW w \in Workers, CommandAcked(w) \/ handleIdle(w),
         UNCHANGED <<worldVars, amazonVars>>
  PROVE  UPSInv'
  <1>1. /\ workers[w].stage \in {"sending", "started"}
        /\ workers' = [workers EXCEPT ![w] = Idle]
        /\ UNCHANGED <<seqNum, issued, store, recvs, recvs_amazon, m_tasks, sockets,
                       user_users, user_packages, crashed>>
        /\ \/ UNCHANGED user_trucks
           \/ user_trucks' = [user_trucks EXCEPT ![workers[w].msg.truck] = "idle"]
    BY DEF CommandAcked, handleIdle, In, Become, numbers, handled, tables
  <1>2. Idle \in States'  BY DEF States
  <1>3. \A v \in Workers : workers'[v] = IF v = w THEN Idle ELSE workers[v]
    BY <1>1 DEF UPSInv, WorkerInv
  <1>4. StatusIsEarned'
    BY <1>1, <1>3, PickupGoesOn, SameRows DEF UPSInv, worldVars, amazonVars
  <1>5. user_trucks' \in [Trucks -> TruckStatuses]
    BY <1>1 DEF UPSInv, TableInv, TruckStatuses
  <1>6. TableInv' /\ NumberStep  BY <1>1, <1>5 DEF UPSInv, TableInv, NumberStep
  <1>7. recvs' \subseteq Nat /\ recvs_amazon' \subseteq Nat  BY <1>1 DEF UPSInv, HandledInv
  <1>8. RowsKept /\ Idle.stage # "read"  BY <1>1 DEF RowsKept, Idle
  <1> QED BY <1>1, <1>2, <1>4, <1>6, <1>7, <1>8, WorkerStep

\* Only a row that is there already, of a package picked again, changes its truck.
LEMMA pick_truckStep ==
  ASSUME UPSInv, NEW w \in Workers, pick_truck(w), UNCHANGED <<worldVars, amazonVars>>
  PROVE  UPSInv'
  <1> DEFINE m == workers[w].msg
  <1>0. PICK p : p = m.item  OBVIOUS
  <1>1. PICK t \in Trucks :
          /\ workers' = [workers EXCEPT ![w] = [stage |-> "picked", msg |-> m, truck |-> t]]
          /\ user_packages' = IF user_packages[p] = NoPackage THEN user_packages
                              ELSE [user_packages EXCEPT ![p].truck = t]
    BY <1>0 DEF pick_truck, Become
  <1>2. /\ workers[w].stage = "started"
        /\ UNCHANGED <<seqNum, issued, store, recvs, recvs_amazon, m_tasks, sockets,
                       user_users, user_trucks, crashed>>
    BY DEF pick_truck, In, numbers, handled
  <1> DEFINE state == [stage |-> "picked", msg |-> m, truck |-> t]
  <1>3. m \in Requests  BY <1>2, AtStage DEF UPSInv, Handlers
  <1>4. p \in Packages  BY <1>0, <1>3, RequestTypes DEF UPSInv
  <1>5. UNCHANGED Requests  BY DEF Requests, worldVars, amazonVars
  <1>6. state \in States'  BY <1>3, <1>5 DEF States, Pickups
  <1>7. \A v \in Workers : workers'[v] = IF v = w THEN state ELSE workers[v]
    BY <1>1 DEF UPSInv, WorkerInv
  <1>8. state.stage = "picked" /\ state.msg = m  OBVIOUS
  <1> HIDE DEF state
  <1>9. \A q \in Packages : PickedAgain(q) => PickedAgain(q)'
    BY <1>2, <1>7, PickupGoesOn
  <1>10. PickedAgain(p)'  BY <1>0, <1>7, <1>8 DEF PickedAgain
  <1>11. /\ user_packages' \in [Packages -> Row \cup {NoPackage}]
         /\ \A q \in Packages : q # p => user_packages'[q] = user_packages[q]
         /\ user_packages'[p] # NoPackage =>
              user_packages[p] # NoPackage /\ user_packages'[p].status = user_packages[p].status
         /\ user_packages[p] # NoPackage => user_packages'[p] # NoPackage
    <2>1. user_packages \in [Packages -> Row \cup {NoPackage}]  BY DEF UPSInv, TableInv
    <2>2. CASE user_packages[p] = NoPackage  BY <1>1, <2>1, <2>2
    <2>3. CASE user_packages[p] # NoPackage
      <3>1. user_packages[p] \in Row  BY <1>4, <2>1, <2>3
      <3>2. [user_packages[p] EXCEPT !.truck = t] \in Row
            /\ [user_packages[p] EXCEPT !.truck = t].status = user_packages[p].status
        BY <3>1 DEF Row
      <3>3. user_packages' = [user_packages EXCEPT ![p] = [user_packages[p] EXCEPT !.truck = t]]
        BY <1>1, <2>3
      <3> QED BY <1>4, <2>1, <2>3, <3>2, <3>3, NullAssumption
    <2> QED BY <2>2, <2>3
  <1>12. StatusIsEarned'
    <2> SUFFICES ASSUME NEW q \in Packages, user_packages'[q] # NoPackage
                 PROVE  RowIsEarned(q)'
      BY DEF StatusIsEarned
    <2>1. user_packages[q] # NoPackage /\ RowIsEarned(q)
      BY <1>11 DEF UPSInv, StatusIsEarned
    <2>2. CASE q = p  BY <1>10, <1>11, <2>1, <2>2 DEF RowIsEarned, worldVars, amazonVars
    <2>3. CASE q # p  BY <1>9, <1>11, <2>1, <2>3 DEF RowIsEarned, worldVars, amazonVars
    <2> QED BY <2>2, <2>3
  <1>13. TableInv' /\ NumberStep  BY <1>2, <1>11 DEF UPSInv, TableInv, NumberStep
  <1>14. recvs' \subseteq Nat /\ recvs_amazon' \subseteq Nat  BY <1>2 DEF UPSInv, HandledInv
  <1>15. workers' = [workers EXCEPT ![w] = state]  BY <1>1 DEF state
  <1>16. RowsKept  BY <1>11 DEF RowsKept
  <1> QED BY <1>2, <1>6, <1>8, <1>12, <1>13, <1>14, <1>15, <1>16, WorkerStep

\* A pickup looks for the account and inserts it.
LEMMA UserStep ==
  ASSUME UPSInv, NEW w \in Workers, CountUser(w) \/ InsertUser(w),
         UNCHANGED <<worldVars, amazonVars>>
  PROVE  UPSInv'
  <1>1. CASE Crash  BY <1>1, CrashStep
  <1>2. CASE ~Crash
    <2>1. PICK stage \in {"no user", "picked"} :
            workers' = [workers EXCEPT ![w] = [workers[w] EXCEPT !.stage = stage]]
      BY <1>2 DEF CountUser, InsertUser, Become
    <2> DEFINE state == [workers[w] EXCEPT !.stage = stage]
    <2>2. /\ workers[w].stage \in {"picked", "no user"}
          /\ UNCHANGED <<seqNum, issued, store, recvs, recvs_amazon, m_tasks, sockets,
                         user_packages, user_trucks, crashed>>
          /\ user_users' \subseteq user_users \cup {AccountOf[workers[w].msg.item]}
      BY <1>2 DEF CountUser, InsertUser, In, numbers, handled, tables
    <2>3. workers[w] \in Pickups  BY <2>2, AtStage DEF UPSInv
    <2>4. state \in Pickups /\ state.stage = stage /\ state.msg = workers[w].msg
      BY <2>3 DEF Pickups
    <2>5. UNCHANGED Requests  BY DEF Requests, worldVars, amazonVars
    <2>6. state \in States'  BY <2>4, <2>5 DEF States, Pickups
    <2>7. \A v \in Workers : workers'[v] = IF v = w THEN state ELSE workers[v]
      BY <2>1 DEF UPSInv, WorkerInv
    <2>8. workers' = [workers EXCEPT ![w] = state]  BY <2>1
    <2> HIDE DEF state
    <2>9. StatusIsEarned'
      BY <2>2, <2>4, <2>7, PickupGoesOn, SameRows DEF UPSInv, worldVars, amazonVars
    <2>10. workers[w].msg.item \in Packages
      BY <2>3, RequestTypes DEF UPSInv, Pickups
    <2>11. TableInv' /\ NumberStep
      BY <2>2, <2>10, PackageAssumption DEF UPSInv, TableInv, NumberStep
    <2>12. recvs' \subseteq Nat /\ recvs_amazon' \subseteq Nat  BY <2>2 DEF UPSInv, HandledInv
    <2>13. RowsKept  BY <2>2 DEF RowsKept
    <2> QED BY <2>2, <2>4, <2>6, <2>8, <2>9, <2>11, <2>12, <2>13, WorkerStep
  <1> QED BY <1>1, <1>2

\* A package without a row gets one: nothing is claimed of it yet.
LEMMA InsertPackageStep ==
  ASSUME UPSInv, NEW w \in Workers, InsertPackage(w), UNCHANGED <<worldVars, amazonVars>>
  PROVE  UPSInv'
  <1>1. PICK p : p = workers[w].msg.item  OBVIOUS
  <1>2. workers[w].stage = "picked"  BY DEF InsertPackage, In
  <1>3. workers[w] \in Pickups  BY <1>2, AtStage DEF UPSInv
  <1>4. p \in Packages /\ workers[w].truck \in Trucks
    BY <1>1, <1>3, RequestTypes DEF UPSInv, Pickups
  <1>5. CASE user_packages[p] # NoPackage  BY <1>1, <1>5, CrashStep DEF InsertPackage
  <1>6. CASE user_packages[p] = NoPackage
    <2> DEFINE row == [truck |-> workers[w].truck, status |-> "created",
                       user |-> AccountOf[p], to |-> AddressOf[p]]
               state == [workers[w] EXCEPT !.stage = "created"]
    <2>1. /\ user_packages' = [user_packages EXCEPT ![p] = row]
          /\ workers' = [workers EXCEPT ![w] = state]
          /\ UNCHANGED <<seqNum, issued, store, recvs, recvs_amazon, m_tasks, sockets,
                         user_users, user_trucks, crashed>>
      BY <1>1, <1>6 DEF InsertPackage, Become, numbers, handled
    <2>2. state \in Pickups /\ state.stage = "created"  BY <1>3 DEF Pickups
    <2>3. UNCHANGED Requests  BY DEF Requests, worldVars, amazonVars
    <2>4. state \in States'  BY <2>2, <2>3 DEF States, Pickups
    <2>5. \A v \in Workers : v # w => workers'[v] = workers[v]
      BY <2>1 DEF UPSInv, WorkerInv
    <2>6. row \in Row /\ row.status = "created"
      BY <1>4, PackageAssumption DEF Row, PackageStatuses
    <2>12. row # NoPackage  BY <2>6, NullAssumption
    <2> HIDE DEF row, state
    <2>7. /\ user_packages' \in [Packages -> Row \cup {NoPackage}]
          /\ \A q \in Packages : user_packages'[q] = IF q = p THEN row ELSE user_packages[q]
      BY <1>4, <2>1, <2>6 DEF UPSInv, TableInv
    <2>8. ASSUME NEW q \in Packages, user_packages'[q] # NoPackage
          PROVE  RowIsEarned(q)'
      <3>1. CASE q = p  BY <2>6, <2>7, <3>1 DEF RowIsEarned
      <3>2. CASE q # p
        <4>1. user_packages'[q] = user_packages[q] /\ RowIsEarned(q)
          BY <2>7, <2>8, <3>2 DEF UPSInv, StatusIsEarned
        <4>2. PickedAgain(q) => PickedAgain(q)'
          BY <1>1, <2>5, <3>2 DEF PickedAgain
        <4> QED BY <4>1, <4>2 DEF RowIsEarned, worldVars, amazonVars
      <3> QED BY <3>1, <3>2
    <2>9. StatusIsEarned'  BY <2>8 DEF StatusIsEarned
    <2>10. TableInv' /\ NumberStep  BY <2>1, <2>7 DEF UPSInv, TableInv, NumberStep
    <2>11. recvs' \subseteq Nat /\ recvs_amazon' \subseteq Nat  BY <2>1 DEF UPSInv, HandledInv
    <2>13. RowsKept  BY <2>7, <2>12 DEF RowsKept
    <2> QED BY <2>1, <2>2, <2>4, <2>9, <2>10, <2>11, <2>13, WorkerStep
  <1> QED BY <1>5, <1>6

\* A command that names a package and a truck.
LEMMA CommandFor ==
  ASSUME UPSInv, NEW kind \in {"pickup", "truckarrived", "delivered"}, NEW p \in Packages,
         NEW t \in Trucks \cup {NoTruck}
  PROVE  NewCommand(Command(kind, p, t))
  <1>1. seqNum \in Nat  BY BoundAssumption DEF UPSInv, NumberInv
  <1>2. Command(kind, p, t) \in Message(ToWorldKinds \cup ToAmazonKinds)
    BY <1>1 DEF Command, NextNum, Message, ToWorldKinds, ToAmazonKinds
  <1> QED BY <1>1, <1>2 DEF NewCommand, Commands, Command, NextNum

\* A worker that was not picking a truck issues a command.
LEMMA IssueStep ==
  ASSUME UPSInv, NEW w \in Workers, NEW c, NewCommand(c), Issue(w, c),
         workers[w].stage \notin {"picked", "no user"},
         UNCHANGED <<worldVars, amazonVars, store, handled, m_tasks, sockets>>,
         TableInv', RowsKept, (\A p \in Packages : PickedAgain(p) => PickedAgain(p)') => StatusIsEarned'
  PROVE  UPSInv'
  <1>1. /\ NumberStep /\ c \in issued'
        /\ workers' = [workers EXCEPT ![w] = Sending(c)]
    BY DEF Issue, NumberStep, NextNum, Become
  <1>2. Sending(c) \in States'  BY <1>1 DEF Sending, States, Senders
  <1>3. \A v \in Workers : workers'[v] = IF v = w THEN Sending(c) ELSE workers[v]
    BY <1>1 DEF UPSInv, WorkerInv
  <1>4. StatusIsEarned'  BY <1>3, PickupGoesOn
  <1>5. recvs' \subseteq Nat /\ recvs_amazon' \subseteq Nat
    BY DEF UPSInv, HandledInv, handled
  <1>6. Sending(c).stage # "read"  BY DEF Sending
  <1> QED BY <1>1, <1>2, <1>4, <1>5, <1>6, WorkerStep

LEMMA SendTruckStep ==
  ASSUME UPSInv, NEW w \in Workers, SendTruck(w), UNCHANGED <<worldVars, amazonVars>>
  PROVE  UPSInv'
  <1> DEFINE c == Command("pickup", workers[w].msg.item, workers[w].truck)
  <1>1. /\ workers[w].stage = "created" /\ Issue(w, c)
        /\ user_trucks' = [user_trucks EXCEPT ![workers[w].truck] = "traveling"]
        /\ UNCHANGED <<store, handled, m_tasks, user_users, user_packages, crashed, sockets>>
    BY DEF SendTruck, In
  <1>2. workers[w] \in Pickups  BY <1>1, AtStage DEF UPSInv
  <1>3. workers[w].msg.item \in Packages /\ workers[w].truck \in Trucks
    BY <1>2, RequestTypes DEF UPSInv, Pickups
  <1>4. NewCommand(c)  BY <1>3, CommandFor
  <1>5. user_trucks' \in [Trucks -> TruckStatuses]
    BY <1>1, <1>3 DEF UPSInv, TableInv, TruckStatuses
  <1>6. TableInv'  BY <1>1, <1>5 DEF UPSInv, TableInv
  <1>7. (\A p \in Packages : PickedAgain(p) => PickedAgain(p)') => StatusIsEarned'
    BY <1>1, SameRows DEF UPSInv, worldVars, amazonVars
  <1>8. RowsKept  BY <1>1 DEF RowsKept
  <1> HIDE DEF c
  <1> QED BY <1>1, <1>4, <1>6, <1>7, <1>8, IssueStep

LEMMA parseloadedStep ==
  ASSUME UPSInv, NEW w \in Workers, parseloaded(w), UNCHANGED <<worldVars, amazonVars>>
  PROVE  UPSInv'
  <1>1. PICK p : p = workers[w].msg.item  OBVIOUS
  <1>2. workers[w].stage = "started" /\ workers[w].msg.kind = "loaded"
    BY DEF parseloaded, In
  <1>3. workers[w].msg \in Requests  BY <1>2, AtStage DEF UPSInv, Handlers
  <1>4. p \in Packages /\ workers[w].msg \in amazon_issued
    BY <1>1, <1>2, <1>3, RequestTypes DEF UPSInv
  <1>5. CASE user_packages[p] = NoPackage  BY <1>1, <1>5, CrashStep DEF parseloaded
  <1>6. CASE user_packages[p] # NoPackage
    <2> DEFINE row == user_packages[p]
               c == [kind |-> "deliver", item |-> p, truck |-> row.truck,
                     seq |-> NextNum(seqNum), to |-> <<row.to[1], row.to[1]>>]
               state == [stage |-> "read", msg |-> workers[w].msg, cmd |-> c]
    <2>1. /\ seqNum < MaxSeq /\ seqNum' = NextNum(seqNum) /\ issued' = issued \cup {c}
          /\ workers' = [workers EXCEPT ![w] = state]
          /\ UNCHANGED <<store, recvs, recvs_amazon, m_tasks, sockets,
                         user_users, user_packages, user_trucks, crashed>>
      BY <1>1, <1>6 DEF parseloaded, Become, handled, tables
    <2>2. row \in Row  BY <1>4, <1>6 DEF UPSInv, TableInv
    <2>3. row.truck \in Trucks /\ <<row.to[1], row.to[1]>> \in Int \X Int  BY <2>2 DEF Row
    <2>4. seqNum + 1 \in Nat  BY BoundAssumption DEF UPSInv, NumberInv
    <2>5. c \in Delivery /\ c.seq = seqNum + 1
      BY <1>4, <2>3, <2>4 DEF Delivery, NextNum
    <2>6. Reported(amazon_issued, "loaded", p)  BY <1>1, <1>2, <1>4 DEF Reported
    <2>7. c.item = p /\ NewCommand(c)  BY <2>5, <2>6 DEF NewCommand, Commands
    <2>8. NumberStep  BY <2>1, <2>7 DEF NumberStep, NextNum
    <2>9. state.msg = workers[w].msg /\ state.stage = "read"  OBVIOUS
    <2>10. UNCHANGED Requests  BY DEF Requests, worldVars, amazonVars
    <2> HIDE DEF c
    <2>11. state \in States'  BY <1>3, <2>1, <2>10 DEF States, Loadings
    <2>12. \A v \in Workers : workers'[v] = IF v = w THEN state ELSE workers[v]
      BY <2>1 DEF UPSInv, WorkerInv
    <2> HIDE DEF state
    <2>13. StatusIsEarned'
      BY <1>2, <2>1, <2>12, PickupGoesOn, SameRows DEF UPSInv, worldVars, amazonVars
    <2>14. TableInv'  BY <2>1 DEF UPSInv, TableInv
    <2>15. recvs' \subseteq Nat /\ recvs_amazon' \subseteq Nat  BY <2>1 DEF UPSInv, HandledInv
    <2>16. RowsKept  BY <2>1 DEF RowsKept
    <2>17. state.msg.item \in Packages /\ user_packages[state.msg.item] # NoPackage
      BY <1>1, <1>4, <1>6, <2>9
    <2> QED BY <2>1, <2>8, <2>11, <2>13, <2>14, <2>15, <2>16, <2>17, WorkerStep
  <1> QED BY <1>5, <1>6

\* One row gets a status that is earned.
LEMMA StatusSet ==
  ASSUME UPSInv, NEW p \in Packages, NEW status \in {"out for delivery", "delivered"},
         user_packages' = [user_packages EXCEPT ![p].status = status],
         Reported(amazon_issued, "loaded", p),
         status = "delivered" => Reported(world_issued, "delivered", p),
         UNCHANGED <<world_issued, amazon_issued>>,
         \A q \in Packages : PickedAgain(q) => PickedAgain(q)',
         user_packages[p] # NoPackage
  PROVE  user_packages' \in [Packages -> Row \cup {NoPackage}] /\ RowsKept /\ StatusIsEarned'
  <1> DEFINE row == [user_packages[p] EXCEPT !.status = status]
  <1>1. user_packages[p] \in Row  BY DEF UPSInv, TableInv
  <1>2. row \in Row /\ row.status = status  BY <1>1 DEF Row, PackageStatuses
  <1>7. row # NoPackage  BY <1>2, NullAssumption
  <1>3. user_packages' = [user_packages EXCEPT ![p] = row]  OBVIOUS
  <1> HIDE DEF row
  <1>4. /\ user_packages' \in [Packages -> Row \cup {NoPackage}]
        /\ \A q \in Packages : user_packages'[q] = IF q = p THEN row ELSE user_packages[q]
    BY <1>2, <1>3 DEF UPSInv, TableInv
  <1>5. ASSUME NEW q \in Packages, user_packages'[q] # NoPackage
        PROVE  RowIsEarned(q)'
    <2>1. CASE q = p  BY <1>2, <1>4, <2>1 DEF RowIsEarned
    <2>2. CASE q # p
      <3>1. user_packages'[q] = user_packages[q] /\ RowIsEarned(q)
        BY <1>4, <1>5, <2>2 DEF UPSInv, StatusIsEarned
      <3> QED BY <3>1 DEF RowIsEarned
    <2> QED BY <2>1, <2>2
  <1>6. RowsKept  BY <1>4, <1>7 DEF RowsKept
  <1> QED BY <1>4, <1>5, <1>6 DEF StatusIsEarned

LEMMA OutForDeliveryStep ==
  ASSUME UPSInv, NEW w \in Workers, OutForDelivery(w), UNCHANGED <<worldVars, amazonVars>>
  PROVE  UPSInv'
  <1> DEFINE state == [workers[w] EXCEPT !.stage = "out"]
  <1>1. PICK p : p = workers[w].msg.item  OBVIOUS
  <1>2. /\ workers[w].stage = "read" /\ workers[w].msg.kind = "loaded"
        /\ user_packages' = [user_packages EXCEPT ![p].status = "out for delivery"]
        /\ workers' = [workers EXCEPT ![w] = state]
        /\ UNCHANGED <<seqNum, issued, store, recvs, recvs_amazon, m_tasks, sockets,
                       user_users, user_trucks, crashed>>
    BY <1>1 DEF OutForDelivery, In, Become, numbers, handled
  <1>3. workers[w] \in Loadings  BY <1>2, AtStage DEF UPSInv
  <1>4. workers[w].msg \in Requests /\ state \in Loadings /\ state.stage = "out"
    BY <1>3 DEF Loadings
  <1>5. p \in Packages /\ workers[w].msg \in amazon_issued
    BY <1>1, <1>2, <1>4, RequestTypes DEF UPSInv
  <1>6. Reported(amazon_issued, "loaded", p)  BY <1>1, <1>2, <1>5 DEF Reported
  <1>7. UNCHANGED Requests  BY DEF Requests, worldVars, amazonVars
  <1>8. state \in States'  BY <1>2, <1>4, <1>7 DEF States, Loadings
  <1>9. \A v \in Workers : workers'[v] = IF v = w THEN state ELSE workers[v]
    BY <1>2 DEF UPSInv, WorkerInv
  <1> HIDE DEF state
  <1>10. \A q \in Packages : PickedAgain(q) => PickedAgain(q)'
    BY <1>2, <1>9, PickupGoesOn
  <1>14. user_packages[p] # NoPackage  BY <1>1, <1>2 DEF UPSInv, LoadingInv
  <1>11. user_packages' \in [Packages -> Row \cup {NoPackage}] /\ RowsKept /\ StatusIsEarned'
    BY <1>2, <1>5, <1>6, <1>10, <1>14, StatusSet DEF worldVars, amazonVars
  <1>12. TableInv' /\ NumberStep  BY <1>2, <1>11 DEF UPSInv, TableInv, NumberStep
  <1>13. recvs' \subseteq Nat /\ recvs_amazon' \subseteq Nat  BY <1>2 DEF UPSInv, HandledInv
  <1> QED BY <1>2, <1>4, <1>8, <1>11, <1>12, <1>13, WorkerStep

LEMMA TruckDeliveringStep ==
  ASSUME UPSInv, NEW w \in Workers, TruckDelivering(w), UNCHANGED <<worldVars, amazonVars>>
  PROVE  UPSInv'
  <1> DEFINE state == Sending(workers[w].cmd)
  <1>1. /\ workers[w].stage = "out" /\ workers' = [workers EXCEPT ![w] = state]
        /\ user_trucks' = [user_trucks EXCEPT ![workers[w].cmd.truck] = "delivering"]
        /\ UNCHANGED <<seqNum, issued, store, recvs, recvs_amazon, m_tasks, sockets,
                       user_users, user_packages, crashed>>
    BY DEF TruckDelivering, In, Become, numbers, handled
  <1>2. workers[w].cmd \in issued  BY <1>1, AtStage DEF UPSInv, Loadings
  <1>3. state \in States' /\ state.stage # "read"
    BY <1>1, <1>2 DEF Sending, States, Senders
  <1>4. \A v \in Workers : workers'[v] = IF v = w THEN state ELSE workers[v]
    BY <1>1 DEF UPSInv, WorkerInv
  <1> HIDE DEF state
  <1>5. StatusIsEarned'
    BY <1>1, <1>4, PickupGoesOn, SameRows DEF UPSInv, worldVars, amazonVars
  <1>6. user_trucks' \in [Trucks -> TruckStatuses]
    BY <1>1 DEF UPSInv, TableInv, TruckStatuses
  <1>7. TableInv' /\ NumberStep /\ RowsKept
    BY <1>1, <1>6 DEF UPSInv, TableInv, NumberStep, RowsKept
  <1>8. recvs' \subseteq Nat /\ recvs_amazon' \subseteq Nat  BY <1>1 DEF UPSInv, HandledInv
  <1> QED BY <1>1, <1>3, <1>5, <1>7, <1>8, WorkerStep

\* The world delivers only what was sent out, and only what is loaded is sent out.
LEMMA handleDeliveryStep ==
  ASSUME UPSInv, NEW w \in Workers, handleDelivery(w), UNCHANGED <<worldVars, amazonVars>>
  PROVE  UPSInv'
  <1> DEFINE m == workers[w].msg
             c == Command("delivered", m.item, m.truck)
  <1>1. PICK p : p = m.item  OBVIOUS
  <1>2. workers[w].stage = "started" /\ m.kind = "delivered"  BY DEF handleDelivery, In
  <1>3. m \in Requests  BY <1>2, AtStage DEF UPSInv, Handlers
  <1>4. p \in Packages /\ m.truck \in Trucks \cup {NoTruck} /\ m \in world_issued
    BY <1>1, <1>2, <1>3, RequestTypes DEF UPSInv
  <1>5. CASE user_packages[p] = NoPackage  BY <1>1, <1>5, CrashStep DEF handleDelivery
  <1>6. CASE user_packages[p] # NoPackage
    <2>1. /\ Issue(w, c)
          /\ user_packages' = [user_packages EXCEPT ![p].status = "delivered"]
          /\ UNCHANGED <<store, handled, m_tasks, user_users, user_trucks, crashed, sockets>>
      BY <1>1, <1>6 DEF handleDelivery
    <2>2. Reported(world_issued, "delivered", p)  BY <1>1, <1>2, <1>4 DEF Reported
    <2>3. Reported(amazon_issued, "loaded", p)
      <3>1. Reported(issued, "deliver", p)
        BY <1>1, <1>2, <1>4 DEF UPSInv, CommandsEarned
      <3> QED BY <3>1 DEF UPSInv, CommandsEarned, Reported
    <2>4. NewCommand(c)  BY <1>1, <1>4, CommandFor
    <2>5. \A v \in Workers : v # w => workers'[v] = workers[v]
      BY <2>1 DEF UPSInv, WorkerInv, Issue, Become
    <2>6. \A q \in Packages : PickedAgain(q) => PickedAgain(q)'
      BY <1>2, <2>5 DEF PickedAgain
    <2>7. user_packages' \in [Packages -> Row \cup {NoPackage}] /\ RowsKept /\ StatusIsEarned'
      BY <1>4, <1>6, <2>1, <2>2, <2>3, <2>6, StatusSet DEF worldVars, amazonVars
    <2>8. TableInv'  BY <2>1, <2>7 DEF UPSInv, TableInv
    <2> HIDE DEF c
    <2> QED BY <1>2, <2>1, <2>4, <2>7, <2>8, IssueStep
  <1> QED BY <1>5, <1>6

\* All created packages of a truck that arrived are picked up.
LEMMA dealUFinishedStep ==
  ASSUME UPSInv, NEW w \in Workers, dealUFinished(w), UNCHANGED <<worldVars, amazonVars>>
  PROVE  UPSInv'
  <1> DEFINE m == workers[w].msg
             state == Handling("arrived", m)
             row(p) == [user_packages[p] EXCEPT !.status = "picked up"]
  <1>1. /\ workers[w].stage = "started" /\ m.kind = "arrived"
        /\ user_trucks' = [user_trucks EXCEPT ![m.truck] = "arrive warehouse"]
        /\ user_packages' = [p \in Packages |-> IF p \in OnTruck(m.truck, "created")
                                                THEN row(p) ELSE user_packages[p]]
        /\ workers' = [workers EXCEPT ![w] = state]
        /\ UNCHANGED <<seqNum, issued, store, recvs, recvs_amazon, m_tasks, sockets,
                       user_users, crashed>>
    BY DEF dealUFinished, In, Become, numbers, handled
  <1>2. m \in Requests  BY <1>1, AtStage DEF UPSInv, Handlers
  <1>3. m \in world_issued  BY <1>1, <1>2, RequestTypes DEF UPSInv
  <1>4. UNCHANGED Requests  BY DEF Requests, worldVars, amazonVars
  <1>5. state \in States' /\ state.stage # "read"
    BY <1>2, <1>4 DEF States, Handlers, Handling
  <1>6. \A v \in Workers : v # w => workers'[v] = workers[v]
    BY <1>1 DEF UPSInv, WorkerInv
  <1>7. \A q \in Packages : PickedAgain(q) => PickedAgain(q)'
    BY <1>1, <1>6 DEF PickedAgain
  <1>8. ASSUME NEW p \in OnTruck(m.truck, "created")
        PROVE  /\ row(p) \in Row /\ row(p).status = "picked up" /\ row(p).truck = m.truck
               /\ row(p) # NoPackage
    <2>1. user_packages[p] \in Row /\ user_packages[p].truck = m.truck
      BY DEF UPSInv, TableInv, OnTruck
    <2>2. row(p) \in Row /\ row(p).status = "picked up" /\ row(p).truck = m.truck
      BY <2>1 DEF Row, PackageStatuses
    <2> QED BY <2>2, NullAssumption
  <1> DEFINE picked == OnTruck(m.truck, "created")
  <1>9. \A p \in Packages : user_packages'[p] = IF p \in picked THEN row(p) ELSE user_packages[p]
    BY <1>1
  <1>10. user_packages' \in [Packages -> Row \cup {NoPackage}]
    BY <1>1, <1>8 DEF UPSInv, TableInv
  <1>11. RowsKept  BY <1>8, <1>9 DEF RowsKept
  <1>12. ASSUME NEW q \in Packages, user_packages'[q] # NoPackage
         PROVE  RowIsEarned(q)'
    <2>1. CASE q \in picked
      <3>1. user_packages'[q].status = "picked up" /\ user_packages'[q].truck = m.truck
        BY <1>8, <1>9, <2>1
      <3>2. \E r \in world_issued' : r.kind = "arrived" /\ r.truck = user_packages'[q].truck
        BY <1>1, <1>3, <3>1 DEF worldVars
      <3> QED BY <3>1, <3>2 DEF RowIsEarned
    <2>2. CASE q \notin picked
      <3>1. user_packages'[q] = user_packages[q] /\ RowIsEarned(q)
        BY <1>9, <1>12, <2>2 DEF UPSInv, StatusIsEarned
      <3> QED BY <1>7, <3>1 DEF RowIsEarned, worldVars, amazonVars
    <2> QED BY <2>1, <2>2
  <1>13. StatusIsEarned'  BY <1>12 DEF StatusIsEarned
  <1>14. user_trucks' \in [Trucks -> TruckStatuses]
    BY <1>1 DEF UPSInv, TableInv, TruckStatuses
  <1>15. TableInv' /\ NumberStep  BY <1>1, <1>10, <1>14 DEF UPSInv, TableInv, NumberStep
  <1>16. recvs' \subseteq Nat /\ recvs_amazon' \subseteq Nat  BY <1>1 DEF UPSInv, HandledInv
  <1> HIDE DEF state
  <1> QED BY <1>1, <1>5, <1>11, <1>13, <1>15, <1>16, WorkerStep

LEMMA ReportArrivalStep ==
  ASSUME UPSInv, NEW w \in Workers, ReportArrival(w), UNCHANGED <<worldVars, amazonVars>>
  PROVE  UPSInv'
  <1> DEFINE m == workers[w].msg
             found == OnTruck(m.truck, "picked up")
  <1>1. workers[w].stage = "arrived"  BY DEF ReportArrival, In
  <1>2. m \in Requests  BY <1>1, AtStage DEF UPSInv, Handlers
  <1>3. m.truck \in Trucks \cup {NoTruck}  BY <1>2, RequestTypes DEF UPSInv
  <1>4. CASE found = {}  BY <1>4, CrashStep DEF ReportArrival
  <1>5. CASE found # {}
    <2>1. PICK p \in found : Issue(w, Command("truckarrived", p, m.truck))
      BY <1>5 DEF ReportArrival
    <2> DEFINE c == Command("truckarrived", p, m.truck)
    <2>2. UNCHANGED <<store, handled, m_tasks, user_users, user_packages, user_trucks,
                      crashed, sockets>>
      BY <1>5 DEF ReportArrival, tables
    <2>3. p \in Packages  BY <2>1 DEF OnTruck
    <2>4. NewCommand(c)  BY <1>3, <2>3, CommandFor
    <2>5. TableInv' /\ RowsKept  BY <2>2 DEF UPSInv, TableInv, RowsKept
    <2>6. (\A q \in Packages : PickedAgain(q) => PickedAgain(q)') => StatusIsEarned'
      BY <2>2, SameRows DEF UPSInv, worldVars, amazonVars
    <2> HIDE DEF c
    <2>7. Issue(w, c)  BY <2>1 DEF c
    <2> QED BY <1>1, <2>2, <2>4, <2>5, <2>6, <2>7, IssueStep
  <1> QED BY <1>4, <1>5

-----------------------------------------------------------------------------
(* The queue and the sockets *)

\* Steps that touch only the queue, the sockets and what was acknowledged.
LEMMA TransportStep ==
  ASSUME UPSInv, UNCHANGED <<seqNum, issued, tables, crashed, worldVars, amazonVars>>,
         HandledInv', ChannelInv', WorkerInv',
         \A p \in Packages : PickedAgain(p) => PickedAgain(p)',
         \A w \in Workers : workers'[w].stage = "read" => workers'[w] = workers[w]
  PROVE  UPSInv'
  <1>1. Growing  BY DEF Growing, worldVars, amazonVars
  <1>2. UNCHANGED <<user_users, user_packages, user_trucks>>  BY DEF tables
  <1>3. NumberInv'  BY DEF UPSInv, NumberInv
  <1>4. PeerInv'  BY <1>1, SamePeers DEF UPSInv
  <1>5. TableInv' /\ RowsKept  BY <1>2 DEF UPSInv, TableInv, RowsKept
  <1>6. CommandsEarned'  BY Earning DEF UPSInv, NumberStep, worldVars, amazonVars
  <1>7. StatusIsEarned'  BY <1>2, SameRows DEF UPSInv, worldVars, amazonVars
  <1>8. LoadingInv'  BY <1>5, SameLoadings DEF UPSInv
  <1> QED BY <1>3, <1>4, <1>5, <1>6, <1>7, <1>8 DEF UPSInv

\* The element sets of queue and sockets are those of before.
LEMMA SameSets ==
  ASSUME UNCHANGED <<issued, worldVars, amazonVars>>
  PROVE  UNCHANGED <<Requests, ForWorld, ForAmazon, world_issued, amazon_issued, States,
                     world_seen, amazon_seen>>
  <1>1. UNCHANGED <<Requests, world_issued, amazon_issued, world_seen, amazon_seen>>
    BY DEF Requests, worldVars, amazonVars
  <1>2. UNCHANGED <<ForWorld, ForAmazon>>  BY DEF ForWorld, ForAmazon
  <1>3. UNCHANGED States  BY <1>1 DEF States, Handlers, Pickups, Loadings, Senders
  <1> QED BY <1>1, <1>2, <1>3

LEMMA TakeAckStep ==
  ASSUME UPSInv, NEW w \in Workers, TakeAck(w), UNCHANGED <<worldVars, amazonVars>>
  PROVE  UPSInv'
  <1> DEFINE a == Head(m_tasks)
             S == Requests \cup AcksOf(world_seen \cup amazon_seen)
  <1>1. /\ m_tasks # <<>> /\ a.kind = "ack" /\ m_tasks' = Tail(m_tasks)
        /\ store' \subseteq store \cup {a.seq}
        /\ UNCHANGED <<seqNum, issued, recvs, recvs_amazon, workers, tables, crashed, sockets>>
    BY DEF TakeAck, Insert, numbers, handled
  <1>2. m_tasks \in Seq(S)  BY DEF UPSInv, HandledInv
  <1>3. /\ a \in S /\ Tail(m_tasks) \in Seq(S) /\ Len(m_tasks) \in Nat
        /\ Len(Tail(m_tasks)) < Len(m_tasks) /\ Len(Tail(m_tasks)) \in Nat
    <2> HIDE DEF S
    <2>1. a \in S /\ Tail(m_tasks) \in Seq(S) /\ Len(m_tasks) \in Nat
      BY <1>1, <1>2, FirstOf
    <2>2. Len(Tail(m_tasks)) < Len(m_tasks)  BY <1>1, <1>2, FirstOf
    <2>3. Len(Tail(m_tasks)) \in Nat  BY <2>1
    <2> QED BY <2>1, <2>2, <2>3
  <1>4. a \in AcksOf(world_seen \cup amazon_seen)
    BY <1>1, <1>3, RequestTypes DEF UPSInv
  <1>5. a.seq \in Nat /\ \E c \in world_seen \cup amazon_seen : c.seq = a.seq
    BY <1>4 DEF AcksOf, Acks
  <1>6. UNCHANGED <<Requests, world_seen, amazon_seen>>  BY <1>1, SameSets
  <1>7. HandledInv'
    <2>1. m_tasks' \in Seq(Requests' \cup AcksOf(world_seen' \cup amazon_seen'))
      BY <1>1, <1>3, <1>6
    <2>2. Len(m_tasks') <= MaxTasks
      BY <1>1, <1>3, BoundAssumption DEF UPSInv, HandledInv
    <2>3. \A n \in store' : n \in Nat /\ \E c \in world_seen \cup amazon_seen : c.seq = n
      BY <1>1, <1>5 DEF UPSInv, HandledInv
    <2> QED BY <1>1, <1>6, <2>1, <2>2, <2>3 DEF UPSInv, HandledInv
  <1>8. ChannelInv' /\ WorkerInv'
    BY <1>1, SameChannels, SameWorkers DEF UPSInv, Growing, worldVars, amazonVars
  <1>9. \A p \in Packages : PickedAgain(p) => PickedAgain(p)'  BY <1>1 DEF PickedAgain
  <1> QED BY <1>1, <1>7, <1>8, <1>9, TransportStep

LEMMA TakeRequestStep ==
  ASSUME UPSInv, NEW w \in Workers, TakeRequest(w), UNCHANGED <<worldVars, amazonVars>>
  PROVE  UPSInv'
  <1> DEFINE m == Head(m_tasks)
             S == Requests \cup AcksOf(world_seen \cup amazon_seen)
             state == Handling("acknowledged", m)
  <1>1. /\ m_tasks # <<>> /\ m.kind # "ack" /\ m_tasks' = Tail(m_tasks)
        /\ workers[w] = Idle /\ workers' = [workers EXCEPT ![w] = state]
        /\ UNCHANGED <<seqNum, issued, store, recvs, recvs_amazon, tables, crashed,
                       from_world, from_amazon>>
        /\ \/ to_amazon' = Append(to_amazon, AckFor(m.seq)) /\ to_world' = to_world
           \/ to_world' = Append(to_world, AckFor(m.seq)) /\ to_amazon' = to_amazon
    BY DEF TakeRequest, Free, Become, Write, numbers, handled
  <1>2. m_tasks \in Seq(S)  BY DEF UPSInv, HandledInv
  <1>3. /\ m \in S /\ Tail(m_tasks) \in Seq(S) /\ Len(m_tasks) \in Nat
        /\ Len(Tail(m_tasks)) < Len(m_tasks) /\ Len(Tail(m_tasks)) \in Nat
    <2> HIDE DEF S
    <2>1. m \in S /\ Tail(m_tasks) \in Seq(S) /\ Len(m_tasks) \in Nat
      BY <1>1, <1>2, FirstOf
    <2>2. Len(Tail(m_tasks)) < Len(m_tasks)  BY <1>1, <1>2, FirstOf
    <2>3. Len(Tail(m_tasks)) \in Nat  BY <2>1
    <2> QED BY <2>1, <2>2, <2>3
  <1>4. m \in Requests  BY <1>1, <1>3 DEF AcksOf, Acks
  <1>5. m.seq \in Nat  BY <1>4, RequestTypes DEF UPSInv
  <1>6. UNCHANGED <<Requests, ForWorld, ForAmazon, world_issued, amazon_issued, States,
                    world_seen, amazon_seen>>
    BY <1>1, SameSets
  <1>7. HandledInv'
    <2>1. m_tasks' \in Seq(Requests' \cup AcksOf(world_seen' \cup amazon_seen'))
      BY <1>1, <1>3, <1>6
    <2>2. Len(m_tasks') <= MaxTasks
      BY <1>1, <1>3, BoundAssumption DEF UPSInv, HandledInv
    <2> QED BY <1>1, <1>6, <2>1, <2>2 DEF UPSInv, HandledInv
  <1>8. ChannelInv'
    <2>1. AckFor(m.seq) \in Acks  BY <1>5, AckTypes
    <2>2. to_world' \in Seq(ForWorld \cup Acks)
      BY <1>1, <2>1, WrittenTo DEF UPSInv, ChannelInv
    <2>3. to_amazon' \in Seq(ForAmazon \cup Acks)
      BY <1>1, <2>1, WrittenTo DEF UPSInv, ChannelInv
    <2> QED BY <1>1, <1>6, <2>2, <2>3 DEF UPSInv, ChannelInv
  <1>9. state \in States /\ state.stage = "acknowledged"
    BY <1>4 DEF Handling, Handlers, States
  <1>10. \A v \in Workers : workers'[v] = IF v = w THEN state ELSE workers[v]
    BY <1>1 DEF UPSInv, WorkerInv
  <1>11. workers[w].stage = "idle"  BY <1>1 DEF Idle
  <1> HIDE DEF state, m
  <1>12. WorkerInv'  BY <1>1, <1>6, <1>9 DEF UPSInv, WorkerInv
  <1>13. \A p \in Packages : PickedAgain(p) => PickedAgain(p)'
    BY <1>10, <1>11, PickupGoesOn
  <1> QED BY <1>1, <1>7, <1>8, <1>9, <1>10, <1>12, <1>13, TransportStep

LEMMA QueueGrows ==
  ASSUME UPSInv, NEW m, m \in Requests \cup AcksOf(world_seen \cup amazon_seen),
         assign_task(m), UNCHANGED <<store, recvs, recvs_amazon, Requests, world_seen, amazon_seen>>
  PROVE  HandledInv'
  <1> DEFINE S == Requests \cup AcksOf(world_seen \cup amazon_seen)
  <1>1. m_tasks \in Seq(S)  BY DEF UPSInv, HandledInv
  <1>2. m \in S  OBVIOUS
  <1>3. m_tasks' \in Seq(S) /\ Len(m_tasks') <= MaxTasks
    <2> HIDE DEF S
    <2>1. CASE Len(m_tasks) < MaxTasks
      <3>1. m_tasks' = Append(m_tasks, m)  BY <2>1 DEF assign_task
      <3> QED BY <1>1, <1>2, <2>1, <3>1, LongerBy, BoundAssumption
    <2>2. CASE ~(Len(m_tasks) < MaxTasks)
      <3>1. m_tasks' = m_tasks  BY <2>2 DEF assign_task
      <3> QED BY <1>1, <3>1 DEF UPSInv, HandledInv
    <2> QED BY <2>1, <2>2
  <1>4. m_tasks' \in Seq(Requests' \cup AcksOf(world_seen' \cup amazon_seen'))  BY <1>3
  <1> QED BY <1>3, <1>4 DEF UPSInv, HandledInv

LEMMA ReadRest ==
  ASSUME NEW S, NEW chan \in Seq(S), NEW chan2, chan # <<>>,
         \E n \in 0 .. Len(chan) - 1 : chan2 = SubSeq(chan, n + 2, Len(chan))
  PROVE  chan2 \in Seq(S) /\ Head(chan) \in S
  BY RestOf, FirstOf

LEMMA ReceiveStep ==
  ASSUME UPSInv, MainThread, UNCHANGED <<worldVars, amazonVars>>
  PROVE  UPSInv'
  <1>1. UNCHANGED <<seqNum, issued, store, recvs, recvs_amazon, workers, tables, crashed,
                    to_world, to_amazon>>
    BY DEF MainThread, ReceiveFromWorld, ReceiveFromAmazon, numbers, handled
  <1>2. UNCHANGED <<Requests, ForWorld, ForAmazon, world_issued, amazon_issued, States,
                    world_seen, amazon_seen>>
    BY <1>1, SameSets
  <1>3. HandledInv' /\ ChannelInv'
    <2>1. CASE ReceiveFromWorld
      <3>1. /\ from_world # <<>> /\ from_amazon' = from_amazon
            /\ \E n \in 0 .. Len(from_world) - 1 :
                 from_world' = SubSeq(from_world, n + 2, Len(from_world))
            /\ assign_task(Head(from_world))
        BY <2>1 DEF ReceiveFromWorld, recvMesgFrom
      <3>2. /\ from_world' \in Seq(world_issued \cup AcksOf(world_seen))
            /\ Head(from_world) \in world_issued \cup AcksOf(world_seen)
        BY <3>1, ReadRest DEF UPSInv, ChannelInv
      <3>3. Head(from_world) \in Requests \cup AcksOf(world_seen \cup amazon_seen)
        BY <3>2 DEF Requests, AcksOf
      <3>4. HandledInv'  BY <1>1, <1>2, <3>1, <3>3, QueueGrows
      <3> QED BY <1>1, <1>2, <3>1, <3>2, <3>4 DEF UPSInv, ChannelInv
    <2>2. CASE ReceiveFromAmazon
      <3>1. /\ from_amazon # <<>> /\ from_world' = from_world
            /\ \E n \in 0 .. Len(from_amazon) - 1 :
                 from_amazon' = SubSeq(from_amazon, n + 2, Len(from_amazon))
            /\ assign_task(Head(from_amazon))
        BY <2>2 DEF ReceiveFromAmazon, recvMesgFrom
      <3>2. /\ from_amazon' \in Seq(amazon_issued \cup AcksOf(amazon_seen))
            /\ Head(from_amazon) \in amazon_issued \cup AcksOf(amazon_seen)
        BY <3>1, ReadRest DEF UPSInv, ChannelInv
      <3>3. Head(from_amazon) \in Requests \cup AcksOf(world_seen \cup amazon_seen)
        BY <3>2 DEF Requests, AcksOf
      <3>4. HandledInv'  BY <1>1, <1>2, <3>1, <3>3, QueueGrows
      <3> QED BY <1>1, <1>2, <3>1, <3>2, <3>4 DEF UPSInv, ChannelInv
    <2> QED BY <2>1, <2>2 DEF MainThread
  <1>4. WorkerInv'  BY <1>1, <1>2 DEF UPSInv, WorkerInv
  <1>5. \A p \in Packages : PickedAgain(p) => PickedAgain(p)'  BY <1>1 DEF PickedAgain
  <1> QED BY <1>1, <1>3, <1>4, <1>5, TransportStep

-----------------------------------------------------------------------------
(* Sending, and the peers *)

\* The server itself does nothing.
LEMMA PeerStep ==
  ASSUME UPSInv, UNCHANGED <<seqNum, issued, store, recvs, recvs_amazon, m_tasks, workers,
                             tables, crashed>>,
         Growing, ChannelInv', PeerInv', CommandsEarned'
  PROVE  UPSInv'
  <1>1. UNCHANGED <<user_users, user_packages, user_trucks>>  BY DEF tables
  <1>2. NumberInv' /\ TableInv' /\ LoadingInv'
    BY <1>1 DEF UPSInv, NumberInv, TableInv, LoadingInv
  <1>3. HandledInv' /\ WorkerInv'
    BY SameTasks, SameWorkers DEF UPSInv, HandledInv
  <1>4. \A p \in Packages : PickedAgain(p) => PickedAgain(p)'  BY DEF PickedAgain
  <1>5. StatusIsEarned'  BY <1>1, <1>4, SameRows DEF UPSInv, Growing
  <1> QED BY <1>2, <1>3, <1>5 DEF UPSInv

\* A message is written, or one is lost; nobody learns anything new.
LEMMA SocketStep ==
  ASSUME UPSInv, UNCHANGED <<seqNum, issued, store, recvs, recvs_amazon, m_tasks, workers,
                             tables, crashed, worldVars, amazonVars>>,
         to_world' \in Seq(ForWorld \cup Acks), to_amazon' \in Seq(ForAmazon \cup Acks),
         from_world' \in Seq(world_issued \cup AcksOf(world_seen)),
         from_amazon' \in Seq(amazon_issued \cup AcksOf(amazon_seen))
  PROVE  UPSInv'
  <1>1. Growing  BY DEF Growing, worldVars, amazonVars
  <1>2. UNCHANGED <<ForWorld, ForAmazon, world_issued, amazon_issued, world_seen, amazon_seen>>
    BY SameSets
  <1>3. ChannelInv'  BY <1>2 DEF ChannelInv
  <1>4. PeerInv'  BY <1>1, SamePeers DEF UPSInv
  <1>5. CommandsEarned'  BY Earning DEF UPSInv, NumberStep, worldVars, amazonVars
  <1> QED BY <1>1, <1>3, <1>4, <1>5, PeerStep

LEMMA SendStep ==
  ASSUME UPSInv, NEW w \in Workers, Send(w)
  PROVE  UPSInv'
  <1> DEFINE c == workers[w].cmd
  <1>1. /\ workers[w].stage = "sending"
        /\ UNCHANGED <<seqNum, issued, store, recvs, recvs_amazon, m_tasks, workers,
                       tables, crashed, worldVars, amazonVars, from_world, from_amazon>>
        /\ \/ c.kind \in ToWorldKinds /\ to_world' = Append(to_world, c) /\ to_amazon' = to_amazon
           \/ c.kind \notin ToWorldKinds /\ to_amazon' = Append(to_amazon, c) /\ to_world' = to_world
    BY DEF Send, SendCommand, Write, serverVars, numbers, handled
  <1>2. c \in issued  BY <1>1, AtStage DEF UPSInv, Senders
  <1>3. c.kind \in {"pickup", "deliver", "truckarrived", "delivered"}
    BY <1>2, CommandTypes DEF UPSInv
  <1> HIDE DEF c
  <1>4. to_world' \in Seq(ForWorld \cup Acks)
    <2>1. CASE c.kind \in ToWorldKinds
      <3>1. c \in ForWorld \cup Acks  BY <1>2, <2>1 DEF ForWorld
      <3> QED BY <1>1, <2>1, <3>1, WrittenTo DEF UPSInv, ChannelInv
    <2>2. CASE c.kind \notin ToWorldKinds  BY <1>1, <2>2 DEF UPSInv, ChannelInv
    <2> QED BY <2>1, <2>2
  <1>5. to_amazon' \in Seq(ForAmazon \cup Acks)
    <2>1. CASE c.kind \in ToWorldKinds  BY <1>1, <2>1 DEF UPSInv, ChannelInv
    <2>2. CASE c.kind \notin ToWorldKinds
      <3>1. c \in ForAmazon \cup Acks
        BY <1>2, <1>3, <2>2 DEF ForAmazon, ToWorldKinds, ToAmazonKinds
      <3> QED BY <1>1, <2>2, <3>1, WrittenTo DEF UPSInv, ChannelInv
    <2> QED BY <2>1, <2>2
  <1> QED BY <1>1, <1>4, <1>5, SocketStep DEF UPSInv, ChannelInv

LEMMA PeerSendStep ==
  ASSUME UPSInv, PeerLoses \/ (\E r \in world_out : WorldSend(r))
                           \/ (\E r \in amazon_out : AmazonSend(r))
  PROVE  UPSInv'
  <1>1. /\ to_world \in Seq(ForWorld \cup Acks) /\ to_amazon \in Seq(ForAmazon \cup Acks)
        /\ from_world \in Seq(world_issued \cup AcksOf(world_seen))
        /\ from_amazon \in Seq(amazon_issued \cup AcksOf(amazon_seen))
    BY DEF UPSInv, ChannelInv
  <1>2. CASE PeerLoses
    <2>1. /\ UNCHANGED <<seqNum, issued, store, recvs, recvs_amazon, m_tasks, workers,
                         tables, crashed, worldVars, amazonVars, from_world, from_amazon>>
          /\ to_world' = to_world \/ (to_world # <<>> /\ to_world' = Tail(to_world))
          /\ to_amazon' = to_amazon \/ (to_amazon # <<>> /\ to_amazon' = Tail(to_amazon))
      BY <1>2 DEF PeerLoses, DropCommand, numbers, handled
    <2>2. to_world' \in Seq(ForWorld \cup Acks)  BY <1>1, <2>1, FirstOf
    <2>3. to_amazon' \in Seq(ForAmazon \cup Acks)  BY <1>1, <2>1, FirstOf
    <2> QED BY <1>1, <2>1, <2>2, <2>3, SocketStep
  <1>3. CASE \E r \in world_out : WorldSend(r)
    <2>1. PICK r \in world_out : WorldSend(r)  BY <1>3
    <2>2. /\ UNCHANGED <<seqNum, issued, store, recvs, recvs_amazon, m_tasks, workers,
                         tables, crashed, worldVars, amazonVars, to_world, to_amazon, from_amazon>>
          /\ from_world' = Append(from_world, r)
      BY <2>1 DEF WorldSend, Write, serverVars, numbers, handled
    <2>3. r \in world_issued \cup AcksOf(world_seen)  BY DEF UPSInv, PeerInv
    <2>4. from_world' \in Seq(world_issued \cup AcksOf(world_seen))
      BY <1>1, <2>2, <2>3, WrittenTo
    <2> QED BY <1>1, <2>2, <2>4, SocketStep
  <1>4. CASE \E r \in amazon_out : AmazonSend(r)
    <2>1. PICK r \in amazon_out : AmazonSend(r)  BY <1>4
    <2>2. /\ UNCHANGED <<seqNum, issued, store, recvs, recvs_amazon, m_tasks, workers,
                         tables, crashed, worldVars, amazonVars, to_world, to_amazon, from_world>>
          /\ from_amazon' = Append(from_amazon, r)
      BY <2>1 DEF AmazonSend, Write, serverVars, numbers, handled
    <2>3. r \in amazon_issued \cup AcksOf(amazon_seen)  BY DEF UPSInv, PeerInv
    <2>4. from_amazon' \in Seq(amazon_issued \cup AcksOf(amazon_seen))
      BY <1>1, <2>2, <2>3, WrittenTo
    <2> QED BY <1>1, <2>2, <2>4, SocketStep
  <1> QED BY <1>2, <1>3, <1>4

LEMMA PeerReadAckStep ==
  ASSUME UPSInv, WorldReadAck \/ AmazonReadAck
  PROVE  UPSInv'
  <1>1. /\ UNCHANGED <<seqNum, issued, store, recvs, recvs_amazon, m_tasks, workers, tables,
                       crashed, from_world, from_amazon, world_seq, amazon_seq,
                       world_seen, amazon_seen, world_issued, amazon_issued>>
        /\ world_out' \subseteq world_out /\ amazon_out' \subseteq amazon_out
        /\ to_world' = to_world \/ (to_world # <<>> /\ to_world' = Tail(to_world))
        /\ to_amazon' = to_amazon \/ (to_amazon # <<>> /\ to_amazon' = Tail(to_amazon))
    BY DEF WorldReadAck, AmazonReadAck, serverVars, worldVars, amazonVars, numbers, handled
  <1>2. Growing  BY <1>1 DEF Growing
  <1>3. UNCHANGED <<ForWorld, ForAmazon>>  BY <1>1 DEF ForWorld, ForAmazon
  <1>4. ChannelInv'
    <2>1. to_world' \in Seq(ForWorld \cup Acks)  BY <1>1, FirstOf DEF UPSInv, ChannelInv
    <2>2. to_amazon' \in Seq(ForAmazon \cup Acks)  BY <1>1, FirstOf DEF UPSInv, ChannelInv
    <2> QED BY <1>1, <1>3, <2>1, <2>2 DEF UPSInv, ChannelInv
  <1>5. PeerInv'  BY <1>1, <1>3 DEF UPSInv, PeerInv
  <1>6. CommandsEarned'  BY <1>1 DEF UPSInv, CommandsEarned, Reported
  <1> QED BY <1>1, <1>2, <1>4, <1>5, <1>6, PeerStep

LEMMA AnswersOfWorld ==
  ASSUME UPSInv, NEW c \in ForWorld
  PROVE  /\ WorldAnswers(c) \subseteq Message(WorldResponses)
         /\ Cardinality(WorldAnswers(c)) \in Nat
         /\ \A r \in WorldAnswers(c) : r.kind = "delivered" => c.kind = "deliver" /\ r.item = c.item
  <1> DEFINE answer(kind, n) == [kind |-> kind, item |-> c.item, truck |-> c.truck, seq |-> n]
  <1>1. /\ c.item \in Packages /\ c.truck \in Trucks \cup {NoTruck}
        /\ c.kind \in {"pickup", "deliver"}
    BY CommandTypes DEF UPSInv, ForWorld, ToWorldKinds
  <1>2. world_seq \in Nat  BY DEF UPSInv, PeerInv
  <1>3. CASE c.kind = "pickup"
    <2>1. WorldAnswers(c) = {answer("arrived", world_seq)}  BY <1>3 DEF WorldAnswers
    <2>2. answer("arrived", world_seq) \in Message(WorldResponses)
      BY <1>1, <1>2 DEF Message, WorldResponses
    <2>3. Cardinality(WorldAnswers(c)) \in Nat  BY <2>1, FS_Singleton, FS_CardinalityType
    <2>4. answer("arrived", world_seq).kind # "delivered"  OBVIOUS
    <2> QED BY <2>1, <2>2, <2>3, <2>4
  <1>4. CASE c.kind = "deliver"
    <2> DEFINE d == answer("delivered", world_seq)
               i == answer("idle", world_seq + 1)
    <2>1. WorldAnswers(c) = {d, i}  BY <1>1, <1>4 DEF WorldAnswers
    <2>2. d \in Message(WorldResponses) /\ i \in Message(WorldResponses)
      BY <1>1, <1>2 DEF Message, WorldResponses
    <2>3. d.item = c.item /\ i.kind # "delivered"  OBVIOUS
    <2> HIDE DEF d, i
    <2>4. IsFiniteSet({d} \cup {i})  BY FS_Singleton, FS_AddElement
    <2>5. Cardinality(WorldAnswers(c)) \in Nat
      <3>1. {d, i} = {d} \cup {i}  OBVIOUS
      <3> QED BY <2>1, <2>4, <3>1, FS_CardinalityType
    <2> QED BY <1>4, <2>1, <2>2, <2>3, <2>5
  <1> QED BY <1>1, <1>3, <1>4

LEMMA WorldReadCommandStep ==
  ASSUME UPSInv, WorldReadCommand
  PROVE  UPSInv'
  <1>1. PICK c : c = Head(to_world)  OBVIOUS
  <1>2. /\ to_world # <<>> /\ c.kind # "ack" /\ to_world' = Tail(to_world)
        /\ from_world' = Append(from_world, AckFor(c.seq))
        /\ world_seen' = world_seen \cup {c}
        /\ \/ UNCHANGED <<world_seq, world_issued, world_out>>
           \/ /\ world_seq' = world_seq + Cardinality(WorldAnswers(c))
              /\ world_issued' = world_issued \cup WorldAnswers(c)
              /\ world_out' = world_out \cup WorldAnswers(c)
        /\ UNCHANGED <<seqNum, issued, store, recvs, recvs_amazon, m_tasks, workers, tables,
                       crashed, to_amazon, from_amazon, amazonVars>>
    BY <1>1 DEF WorldReadCommand, Write, serverVars, numbers, handled
  <1>3. UNCHANGED <<amazon_seq, amazon_seen, amazon_issued, amazon_out>>
    BY <1>2 DEF amazonVars
  <1>4. c \in ForWorld /\ to_world' \in Seq(ForWorld \cup Acks)
    <2>1. c \in ForWorld \cup Acks /\ to_world' \in Seq(ForWorld \cup Acks)
      BY <1>1, <1>2, FirstOf DEF UPSInv, ChannelInv
    <2> QED BY <1>2, <2>1 DEF Acks
  <1>5. c \in issued /\ c.seq \in Nat  BY <1>4, CommandTypes DEF UPSInv, ForWorld
  <1>6. /\ WorldAnswers(c) \subseteq Message(WorldResponses)
        /\ Cardinality(WorldAnswers(c)) \in Nat
        /\ \A r \in WorldAnswers(c) : r.kind = "delivered" => c.kind = "deliver" /\ r.item = c.item
    BY <1>4, AnswersOfWorld
  <1>7. Growing  BY <1>2, <1>3 DEF Growing
  <1>8. UNCHANGED <<ForWorld, ForAmazon>>  BY <1>2 DEF ForWorld, ForAmazon
  <1>9. ChannelInv'
    <2> DEFINE S == world_issued' \cup AcksOf(world_seen')
    <2>1. AckFor(c.seq) \in S  BY <1>2, <1>5, AckTypes DEF AcksOf
    <2>2. world_issued \cup AcksOf(world_seen) \subseteq S  BY <1>7, Growth DEF Growing
    <2>3. from_world \in Seq(S)  BY <2>2, Wider DEF UPSInv, ChannelInv
    <2> HIDE DEF S
    <2>4. from_world' \in Seq(S)  BY <1>2, <2>1, <2>3, WrittenTo
    <2> QED BY <1>2, <1>3, <1>4, <1>8, <2>4 DEF UPSInv, ChannelInv, S
  <1>10. PeerInv'
    <2>1. world_issued' \subseteq Message(WorldResponses) /\ world_out' \subseteq world_issued'
      BY <1>2, <1>6 DEF UPSInv, PeerInv
    <2>2. world_seq' \in Nat  BY <1>2, <1>6 DEF UPSInv, PeerInv
    <2>3. world_seen' \subseteq ForWorld  BY <1>2, <1>4 DEF UPSInv, PeerInv
    <2> QED BY <1>3, <1>8, <2>1, <2>2, <2>3 DEF UPSInv, PeerInv
  <1>11. CommandsEarned'
    <2>1. \A r \in world_issued' : r.kind = "delivered" => Reported(issued, "deliver", r.item)
      BY <1>2, <1>5, <1>6 DEF UPSInv, CommandsEarned, Reported
    <2>2. \A d \in issued : d.kind = "deliver" => Reported(amazon_issued, "loaded", d.item)
      BY DEF UPSInv, CommandsEarned
    <2> QED BY <1>2, <1>3, <2>1, <2>2 DEF CommandsEarned
  <1> QED BY <1>2, <1>7, <1>9, <1>10, <1>11, PeerStep

\* Amazon reads a command, asks for a truck or says that a package is loaded.
LEMMA AmazonReadStep ==
  ASSUME UPSInv,
         \/ AmazonReadCommand
         \/ \E p \in Packages : AmazonRequest(p) \/ AmazonLoaded(p) \/ AmazonLoadedAgain(p)
  PROVE  UPSInv'
  <1>1. /\ UNCHANGED <<seqNum, issued, store, recvs, recvs_amazon, m_tasks, workers, tables,
                       crashed, to_world, from_world, worldVars>>
        /\ \/ UNCHANGED <<amazon_seen, to_amazon, from_amazon>>
           \/ /\ to_amazon # <<>> /\ Head(to_amazon).kind # "ack" /\ to_amazon' = Tail(to_amazon)
              /\ from_amazon' = Append(from_amazon, AckFor(Head(to_amazon).seq))
              /\ amazon_seen' = amazon_seen \cup {Head(to_amazon)}
    BY DEF AmazonReadCommand, AmazonRequest, AmazonLoaded, AmazonLoadedAgain, Write,
           serverVars, numbers, handled, sockets
  <1>2. UNCHANGED <<world_seq, world_seen, world_issued, world_out>>  BY <1>1 DEF worldVars
  <1>3. UNCHANGED <<ForWorld, ForAmazon>>  BY <1>1 DEF ForWorld, ForAmazon
  <1>4. to_amazon # <<>> /\ Head(to_amazon).kind # "ack" =>
          Head(to_amazon) \in ForAmazon /\ Head(to_amazon).seq \in Nat
          /\ Head(to_amazon).item \in Packages /\ Tail(to_amazon) \in Seq(ForAmazon \cup Acks)
    <2> SUFFICES ASSUME to_amazon # <<>>, Head(to_amazon).kind # "ack"
                 PROVE  Head(to_amazon) \in ForAmazon /\ Head(to_amazon).seq \in Nat
                        /\ Head(to_amazon).item \in Packages /\ Tail(to_amazon) \in Seq(ForAmazon \cup Acks)
      OBVIOUS
    <2>1. Head(to_amazon) \in ForAmazon \cup Acks /\ Tail(to_amazon) \in Seq(ForAmazon \cup Acks)
      BY FirstOf DEF UPSInv, ChannelInv
    <2>2. Head(to_amazon) \in ForAmazon  BY <2>1 DEF Acks
    <2> QED BY <2>1, <2>2, CommandTypes DEF UPSInv, ForAmazon
  <1>5. \/ UNCHANGED <<amazon_seq, amazon_issued, amazon_out>>
        \/ \E kind \in AmazonRequests, p \in Packages : AmazonIssues(kind, p)
    BY DEF AmazonReadCommand, AmazonRequest, AmazonLoaded, AmazonLoadedAgain, AmazonRequests
  <1>6. /\ amazon_seq' \in Nat /\ amazon_issued \subseteq amazon_issued'
        /\ amazon_issued' \subseteq Message(AmazonRequests) /\ amazon_out' \subseteq amazon_issued'
    <2>1. /\ amazon_seq \in Nat /\ amazon_issued \subseteq Message(AmazonRequests)
          /\ amazon_out \subseteq amazon_issued
      BY DEF UPSInv, PeerInv
    <2>2. CASE UNCHANGED <<amazon_seq, amazon_issued, amazon_out>>  BY <2>1, <2>2
    <2>3. CASE \E kind \in AmazonRequests, p \in Packages : AmazonIssues(kind, p)
      <3>1. PICK kind \in AmazonRequests, p \in Packages : AmazonIssues(kind, p)  BY <2>3
      <3>2. AmazonCommand(kind, p) \in Message(AmazonRequests)
        BY <2>1 DEF AmazonCommand, Message
      <3> QED BY <2>1, <3>1, <3>2 DEF AmazonIssues
    <2> QED BY <1>5, <2>2, <2>3
  <1>7. amazon_seen \subseteq amazon_seen' /\ amazon_seen' \subseteq ForAmazon
    BY <1>1, <1>4 DEF UPSInv, PeerInv
  <1>8. Growing  BY <1>1, <1>2, <1>6, <1>7 DEF Growing
  <1>9. PeerInv'  BY <1>2, <1>3, <1>6, <1>7 DEF UPSInv, PeerInv
  <1>10. ChannelInv'
    <2> DEFINE S == amazon_issued' \cup AcksOf(amazon_seen')
    <2>1. amazon_issued \cup AcksOf(amazon_seen) \subseteq S  BY <1>8, Growth DEF Growing
    <2>2. from_amazon \in Seq(S)  BY <2>1, Wider DEF UPSInv, ChannelInv
    <2>3. from_amazon' \in Seq(S) /\ to_amazon' \in Seq(ForAmazon \cup Acks)
      <3>1. CASE UNCHANGED <<amazon_seen, to_amazon, from_amazon>>
        BY <2>2, <3>1 DEF UPSInv, ChannelInv
      <3>2. CASE ~UNCHANGED <<amazon_seen, to_amazon, from_amazon>>
        <4>1. PICK c : c = Head(to_amazon)  OBVIOUS
        <4>2. /\ c \in ForAmazon /\ c.seq \in Nat /\ c \in amazon_seen'
              /\ from_amazon' = Append(from_amazon, AckFor(c.seq))
              /\ to_amazon' \in Seq(ForAmazon \cup Acks)
          BY <1>1, <1>4, <3>2, <4>1
        <4>3. AckFor(c.seq) \in S  BY <4>2, AckTypes DEF AcksOf
        <4> HIDE DEF S
        <4> QED BY <2>2, <4>2, <4>3, WrittenTo
      <3> QED BY <3>1, <3>2
    <2> QED BY <1>1, <1>2, <1>3, <2>3 DEF UPSInv, ChannelInv
  <1>11. CommandsEarned'
    <2>1. \A k, p : Reported(amazon_issued, k, p) => Reported(amazon_issued', k, p)
      BY <1>6 DEF Reported
    <2> QED BY <1>1, <1>2, <2>1 DEF UPSInv, CommandsEarned
  <1> QED BY <1>1, <1>8, <1>9, <1>10, <1>11, PeerStep

-----------------------------------------------------------------------------
(* The theorems *)

LEMMA InitUPS == Init => UPSInv
  <1> SUFFICES ASSUME Init PROVE UPSInv  OBVIOUS
  <1>1. \A S : <<>> \in Seq(S)  OBVIOUS
  <1>2. NumberInv  BY BoundAssumption DEF Init, InitServer, NumberInv
  <1>3. HandledInv
    <2>1. Len(m_tasks) <= MaxTasks  BY BoundAssumption DEF Init, InitServer
    <2> QED BY <1>1, <2>1 DEF Init, InitServer, HandledInv
  <1>4. ChannelInv  BY <1>1 DEF Init, InitServer, ChannelInv
  <1>5. PeerInv  BY DEF Init, PeerInv
  <1>6. WorkerInv  BY DEF Init, InitServer, WorkerInv, States
  <1>7. TableInv
    BY PackageAssumption DEF Init, InitServer, TableInv, TruckStatuses
  <1>8. LoadingInv
    <2>1. \A w \in Workers : workers[w].stage = "idle"  BY DEF Init, InitServer, Idle
    <2> QED BY <2>1 DEF LoadingInv
  <1>9. CommandsEarned  BY DEF Init, InitServer, CommandsEarned
  <1>10. StatusIsEarned  BY DEF Init, InitServer, StatusIsEarned
  <1> QED BY <1>2, <1>3, <1>4, <1>5, <1>6, <1>7, <1>8, <1>9, <1>10 DEF UPSInv

LEMMA WorkerSteps ==
  ASSUME UPSInv, NEW w \in Workers, Worker(w) \/ TakeTask(w),
         UNCHANGED <<worldVars, amazonVars>>
  PROVE  UPSInv'
  <1>1. CASE FindNumber(w)  BY <1>1, FindNumberStep
  <1>2. CASE InsertNumber(w)  BY <1>2, InsertNumberStep
  <1>3. CASE CommandAcked(w) \/ handleIdle(w)  BY <1>3, FreeStep
  <1>4. CASE pick_truck(w)  BY <1>4, pick_truckStep
  <1>5. CASE CountUser(w) \/ InsertUser(w)  BY <1>5, UserStep
  <1>6. CASE InsertPackage(w)  BY <1>6, InsertPackageStep
  <1>7. CASE SendTruck(w)  BY <1>7, SendTruckStep
  <1>8. CASE parseloaded(w)  BY <1>8, parseloadedStep
  <1>9. CASE OutForDelivery(w)  BY <1>9, OutForDeliveryStep
  <1>10. CASE TruckDelivering(w)  BY <1>10, TruckDeliveringStep
  <1>11. CASE handleDelivery(w)  BY <1>11, handleDeliveryStep
  <1>12. CASE dealUFinished(w)  BY <1>12, dealUFinishedStep
  <1>13. CASE ReportArrival(w)  BY <1>13, ReportArrivalStep
  <1>14. CASE TakeAck(w)  BY <1>14, TakeAckStep
  <1>15. CASE TakeRequest(w)  BY <1>15, TakeRequestStep
  <1> QED BY <1>1, <1>2, <1>3, <1>4, <1>5, <1>6, <1>7, <1>8, <1>9, <1>10, <1>11, <1>12,
             <1>13, <1>14, <1>15 DEF Worker, TakeTask

LEMMA StutterStep ==
  ASSUME UPSInv, UNCHANGED vars
  PROVE  UPSInv'
  <1>1. UNCHANGED <<seqNum, issued, store, recvs, recvs_amazon, m_tasks, workers, tables,
                    crashed, worldVars, amazonVars, to_world, from_world, to_amazon, from_amazon>>
    BY DEF vars, serverVars, sockets, numbers, handled
  <1> QED BY <1>1, SocketStep DEF UPSInv, ChannelInv

LEMMA UPSStep == UPSInv /\ [Next]_vars => UPSInv'
  <1> SUFFICES ASSUME UPSInv, [Next]_vars PROVE UPSInv'  OBVIOUS
  <1>1. CASE MainStep  BY <1>1, ReceiveStep DEF MainStep
  <1>2. CASE TakeStep  BY <1>2, WorkerSteps DEF TakeStep
  <1>3. CASE PoolStep \/ CommandStep
    BY <1>3, WorkerSteps, SendStep DEF PoolStep, CommandStep
  <1>4. CASE WorldReads \/ WorldStep
    BY <1>4, WorldReadCommandStep, PeerReadAckStep, PeerSendStep DEF WorldReads, WorldStep
  <1>5. CASE AmazonReads \/ AmazonStep \/ AmazonRepeats
    BY <1>5, AmazonReadStep, PeerReadAckStep, PeerSendStep
       DEF AmazonReads, AmazonStep, AmazonRepeats
  <1>6. CASE PeerLoses  BY <1>6, PeerSendStep
  <1>7. CASE UNCHANGED vars  BY <1>7, StutterStep
  <1> QED BY <1>1, <1>2, <1>3, <1>4, <1>5, <1>6, <1>7 DEF Next

\* Every reachable state satisfies the inductive invariant.
THEOREM UPSInvariance == Spec => []UPSInv
  BY UPSStep, InitUPS, PTL DEF Spec

\* A worker gives out a command, as an answer to the message in its hands: it leaves the
\* first stage of a loading, or the last one of another handler.
Answering(w) ==
  /\ workers[w].stage \in {"created", "started", "arrived"}
  /\ workers[w].msg.kind = "loaded" => workers[w].stage = "started"
  /\ \E c, state :
       /\ issued' = issued \cup {c}
       /\ answered' = answered \cup {<<workers[w].msg, c>>}
       /\ workers' = [workers EXCEPT ![w] = state]
       /\ state.stage = IF workers[w].msg.kind = "loaded" THEN "read" ELSE "sending"
       /\ state.stage = "read" => state.msg = workers[w].msg

LEMMA AnswerEffect ==
  ASSUME [Next]_vars
  PROVE  UNCHANGED <<issued, answered>> \/ \E w \in Workers : Answering(w)
  <1>1. ASSUME NEW w \in Workers, Worker(w)
        PROVE  UNCHANGED <<issued, answered>> \/ Answering(w)
    <2>1. CASE (SendTruck(w) \/ handleDelivery(w) \/ ReportArrival(w)) /\ ~Crash
      <3>1. PICK c : Issue(w, c)
        BY <2>1 DEF SendTruck, handleDelivery, ReportArrival
      <3>2. /\ workers[w].stage \in {"created", "started", "arrived"}
            /\ workers[w].msg.kind # "loaded"
        BY <2>1 DEF SendTruck, handleDelivery, ReportArrival, In
      <3>3. Sending(c).stage = "sending"  BY DEF Sending
      <3> QED BY <3>1, <3>2, <3>3 DEF Issue, Become, Answering
    <2>2. CASE parseloaded(w) /\ ~Crash
      <3>1. PICK m : m = workers[w].msg  OBVIOUS
      <3>2. PICK c : /\ issued' = issued \cup {c} /\ answered' = answered \cup {<<m, c>>}
                     /\ workers' = [workers EXCEPT ![w] = [stage |-> "read", msg |-> m, cmd |-> c]]
        BY <2>2, <3>1 DEF parseloaded, Become
      <3>3. workers[w].stage = "started" /\ m.kind = "loaded"
        BY <2>2, <3>1 DEF parseloaded, In
      <3>4. PICK state : state = [stage |-> "read", msg |-> m, cmd |-> c]  OBVIOUS
      <3>5. state.stage = "read" /\ state.msg = m  BY <3>4
      <3> QED BY <3>1, <3>2, <3>3, <3>4, <3>5 DEF Answering
    <2>3. CASE \/ FindNumber(w) \/ InsertNumber(w) \/ CommandAcked(w) \/ pick_truck(w)
               \/ CountUser(w) \/ InsertUser(w) \/ InsertPackage(w) \/ OutForDelivery(w)
               \/ TruckDelivering(w) \/ dealUFinished(w) \/ handleIdle(w) \/ Crash
      BY <2>3 DEF FindNumber, InsertNumber, CommandAcked, pick_truck, CountUser, InsertUser,
                  InsertPackage, OutForDelivery, TruckDelivering, dealUFinished, handleIdle,
                  Crash, numbers
    <2> QED BY <1>1, <2>1, <2>2, <2>3 DEF Worker
  <1>2. ASSUME NEW w \in Workers, TakeTask(w) \/ Send(w)
        PROVE  UNCHANGED <<issued, answered>>
    BY <1>2 DEF TakeTask, TakeAck, TakeRequest, Send, SendCommand, serverVars, numbers
  <1>3. CASE MainStep
    BY <1>3 DEF MainStep, MainThread, ReceiveFromWorld, ReceiveFromAmazon, numbers
  <1>4. CASE WorldReads \/ WorldStep
    BY <1>4 DEF WorldReads, WorldStep, WorldReadCommand, WorldReadAck, WorldSend, serverVars,
                numbers
  <1>5. CASE AmazonReads \/ AmazonStep \/ AmazonRepeats
    BY <1>5 DEF AmazonReads, AmazonStep, AmazonRepeats, AmazonReadCommand, AmazonReadAck,
                AmazonRequest, AmazonLoaded, AmazonLoadedAgain, AmazonSend, serverVars, numbers
  <1>6. CASE PeerLoses \/ UNCHANGED vars
    BY <1>6 DEF PeerLoses, vars, serverVars, numbers
  <1> QED BY <1>1, <1>2, <1>3, <1>4, <1>5, <1>6 DEF Next, PoolStep, TakeStep, CommandStep

\* A command answers a message that a peer sent.
AnswerTypes == answered \subseteq Message(WorldResponses \cup AmazonRequests) \X issued

LEMMA AnswerTypesStep == UPSInv /\ AnswerTypes /\ [Next]_vars => AnswerTypes'
  <1> SUFFICES ASSUME UPSInv, AnswerTypes, [Next]_vars PROVE AnswerTypes'  OBVIOUS
  <1>1. CASE UNCHANGED <<issued, answered>>  BY <1>1 DEF AnswerTypes
  <1>2. ASSUME NEW w \in Workers, Answering(w) PROVE AnswerTypes'
    <2>1. workers[w].msg \in Requests
      BY <1>2, AtStage DEF UPSInv, Answering, Handlers, Pickups
    <2>2. PICK m : m = workers[w].msg  OBVIOUS
    <2>3. m \in Message(WorldResponses \cup AmazonRequests)
      BY <2>1, <2>2, RequestTypes DEF UPSInv
    <2>4. PICK c : issued' = issued \cup {c} /\ answered' = answered \cup {<<m, c>>}
      BY <1>2, <2>2 DEF Answering
    <2> QED BY <2>3, <2>4 DEF AnswerTypes
  <1> QED BY <1>1, <1>2, AnswerEffect

LEMMA TypesOf == UPSInv /\ AnswerTypes => TypeOK
  <1> SUFFICES ASSUME UPSInv, AnswerTypes PROVE TypeOK  OBVIOUS
  <1>1. Requests \subseteq Message(WorldResponses \cup AmazonRequests)
    BY RequestTypes DEF UPSInv
  <1>2. \A w \in Workers : \/ workers[w] = Idle
                           \/ workers[w].stage = "sending" /\ workers[w].cmd \in issued
                           \/ workers[w].msg \in Requests
    BY DEF UPSInv, WorkerInv, States, Handlers, Pickups, Loadings, Senders
  <1>3. m_tasks \in Seq(Message(WorldResponses \cup AmazonRequests) \cup Acks)
    <2>1. Requests \cup AcksOf(world_seen \cup amazon_seen)
            \subseteq Message(WorldResponses \cup AmazonRequests) \cup Acks
      BY <1>1 DEF AcksOf
    <2> QED BY <2>1, Wider DEF UPSInv, HandledInv
  <1>4. to_world \in Seq(issued \cup Acks) /\ to_amazon \in Seq(issued \cup Acks)
    <2>1. ForWorld \cup Acks \subseteq issued \cup Acks
      BY DEF ForWorld
    <2>2. ForAmazon \cup Acks \subseteq issued \cup Acks
      BY DEF ForAmazon
    <2> QED BY <2>1, <2>2, Wider DEF UPSInv, ChannelInv
  <1>5. from_world \in Seq(world_issued \cup Acks)
    <2>1. world_issued \cup AcksOf(world_seen) \subseteq world_issued \cup Acks  BY DEF AcksOf
    <2> QED BY <2>1, Wider DEF UPSInv, ChannelInv
  <1>6. from_amazon \in Seq(amazon_issued \cup Acks)
    <2>1. amazon_issued \cup AcksOf(amazon_seen) \subseteq amazon_issued \cup Acks
      BY DEF AcksOf
    <2> QED BY <2>1, Wider DEF UPSInv, ChannelInv
  <1> QED BY <1>1, <1>2, <1>3, <1>4, <1>5, <1>6
          DEF UPSInv, NumberInv, HandledInv, PeerInv, TableInv, AnswerTypes, TypeOK, Commands

\* Every variable of the server, of the sockets and of the peers keeps its type,
\* and a queue of the pool never exceeds its limit.
THEOREM UPSTypes == Spec => []TypeOK
  <1>1. Init => AnswerTypes  BY DEF Init, InitServer, AnswerTypes
  <1> QED BY <1>1, AnswerTypesStep, TypesOf, UPSInvariance, PTL DEF Spec

\* A handler stops to repeat its command only when the peer that the command is for
\* has read it, although one set of numbers serves both peers.
THEOREM UPSAcksAreTrue == Spec => []NoFalseAck
  <1>1. UPSInv => NoFalseAck
    <2> SUFFICES ASSUME UPSInv, NEW c \in issued, c.seq \in store
                 PROVE  c \in IF c.kind \in ToWorldKinds THEN world_seen ELSE amazon_seen
      BY DEF NoFalseAck
    <2>1. PICK d \in world_seen \cup amazon_seen : d.seq = c.seq  BY DEF UPSInv, HandledInv
    <2>2. d = c  BY <2>1 DEF UPSInv, NumberInv, PeerInv, ForWorld, ForAmazon
    <2>3. ToWorldKinds \cap ToAmazonKinds = {}  BY DEF ToWorldKinds, ToAmazonKinds
    <2> QED BY <2>1, <2>2, <2>3 DEF UPSInv, PeerInv, ForWorld, ForAmazon
  <1> QED BY <1>1, UPSInvariance, PTL

\* No row of user_packages is ahead of what happened to its package.
THEOREM UPSStatusIsEarned == Spec => []StatusIsEarned
  <1>1. UPSInv => StatusIsEarned  BY DEF UPSInv
  <1> QED BY <1>1, UPSInvariance, PTL

-----------------------------------------------------------------------------
(* The UPS server implements the contract of amazon_ups.proto.  The        *)
(* handlers find the package of an arrived truck, and the package that     *)
(* was delivered, in the tables and in the answers of the world; that      *)
(* Amazon asked for this very package follows from the invariant that a    *)
(* row exists only for a package with a pickup request.                    *)

\* A row is inserted by the handler of a pickup request.
RowsRequested ==
  \A p \in Packages : user_packages[p] # NoPackage => Requested("pickupreq", p)

InPickup(stage) == stage \in {"picked", "no user", "created"}

\* What a worker does in the stages of a pickup, Amazon has asked for.
PickupsRequested ==
  \A w \in Workers :
    InPickup(workers[w].stage) => Requested("pickupreq", workers[w].msg.item)

ContractInv == UPSInv /\ RowsRequested /\ PickupsRequested

LEMMA InitContract == Init => ContractInv
  <1> SUFFICES ASSUME Init PROVE RowsRequested /\ PickupsRequested
    BY InitUPS DEF ContractInv
  <1>1. \A w \in Workers : workers[w].stage = "idle"  BY DEF Init, InitServer, Idle
  <1> QED BY <1>1 DEF Init, InitServer, RowsRequested, PickupsRequested, InPickup

-----------------------------------------------------------------------------
(* What one step does to the rows, to the pickups and to what is said          *)

\* A row appears for a package that a worker has a truck for.
RowEffect ==
  \A p \in Packages : user_packages'[p] # NoPackage =>
    \/ user_packages[p] # NoPackage
    \/ \E w \in Workers : workers[w].stage = "picked" /\ workers[w].msg.item = p

\* A worker stays with its pickup, or begins one that was requested.
PickupEffect ==
  \A w \in Workers : InPickup(workers'[w].stage) =>
    \/ InPickup(workers[w].stage) /\ workers'[w].msg = workers[w].msg
    \/ Requested("pickupreq", workers'[w].msg.item)

\* UPS reports a truck for a package with a row, and a delivery of a loaded package.
UPSMaySay(c) ==
  /\ c.item \in Packages
  /\ c.kind = "truckarrived" => user_packages[c.item] # NoPackage
  /\ c.kind = "delivered" => Reported(amazon_issued, "loaded", c.item)

\* Amazon reports a package on board because it read that the truck is there, and
\* perhaps reports it again.
AmazonMaySay(kind, p) ==
  \/ kind = "pickupreq"
  \/ kind = "loaded" /\ Reported(issued, "truckarrived", p)
  \/ kind = "loaded" /\ Requested("loaded", p)

SayEffect ==
  \/ UNCHANGED <<issued, amazon_issued>>
  \/ /\ UNCHANGED amazon_issued
     /\ \E c : UPSMaySay(c) /\ issued' = issued \cup {c}
  \/ /\ UNCHANGED issued
     /\ \E kind, p : p \in Packages /\ AmazonMaySay(kind, p) /\ AmazonIssues(kind, p)

Effect == RowEffect /\ PickupEffect /\ SayEffect

LEMMA QuietEffect ==
  ASSUME UNCHANGED <<issued, amazon_issued, user_packages, workers>>
  PROVE  Effect
  BY DEF Effect, RowEffect, PickupEffect, SayEffect

\* A worker goes on to another state: that is no pickup, or its own one.
LEMMA OneWorker ==
  ASSUME UPSInv, NEW w \in Workers, NEW state, workers' = [workers EXCEPT ![w] = state],
         InPickup(state.stage) =>
           \/ InPickup(workers[w].stage) /\ state.msg = workers[w].msg
           \/ Requested("pickupreq", state.msg.item)
  PROVE  PickupEffect
  <1>1. \A v \in Workers : workers'[v] = IF v = w THEN state ELSE workers[v]
    BY DEF UPSInv, WorkerInv
  <1> QED BY <1>1 DEF PickupEffect

LEMMA IssueEffect ==
  ASSUME UPSInv, NEW w \in Workers, NEW c, Issue(w, c), UPSMaySay(c), RowEffect,
         UNCHANGED amazonVars
  PROVE  Effect
  <1>1. workers' = [workers EXCEPT ![w] = Sending(c)] /\ issued' = issued \cup {c}
    BY DEF Issue, Become
  <1>2. ~InPickup(Sending(c).stage)  BY DEF InPickup, Sending
  <1>3. PickupEffect  BY <1>1, <1>2, OneWorker
  <1> QED BY <1>1, <1>3 DEF Effect, SayEffect, amazonVars

\* The steps that neither change a row nor give a number out.
LEMMA OtherSteps ==
  ASSUME UPSInv, NEW w \in Workers, UNCHANGED <<worldVars, amazonVars>>,
         \/ FindNumber(w) \/ InsertNumber(w) \/ CommandAcked(w) \/ handleIdle(w)
         \/ CountUser(w) \/ InsertUser(w) \/ TruckDelivering(w) \/ TakeAck(w) \/ TakeRequest(w)
  PROVE  Effect
  <1>1. UNCHANGED <<issued, amazon_issued, user_packages>>
    BY DEF FindNumber, InsertNumber, CommandAcked, handleIdle, CountUser, InsertUser, Crash,
           TruckDelivering, TakeAck, TakeRequest, numbers, tables, amazonVars
  <1>2. PickupEffect
    <2>1. CASE UNCHANGED workers  BY <2>1 DEF PickupEffect
    <2>2. CASE CountUser(w) \/ InsertUser(w)
      <3>1. CASE Crash  BY <2>1, <3>1 DEF Crash
      <3>2. CASE ~Crash
        <4>1. PICK stage : workers' = [workers EXCEPT ![w] = [workers[w] EXCEPT !.stage = stage]]
          BY <2>2, <3>2 DEF CountUser, InsertUser, Become
        <4>2. workers[w].stage \in {"picked", "no user"}
          BY <2>2 DEF CountUser, InsertUser, In
        <4>3. workers[w] \in Pickups  BY <4>2, AtStage DEF UPSInv
        <4> DEFINE state == [workers[w] EXCEPT !.stage = stage]
        <4>4. state.msg = workers[w].msg  BY <4>3 DEF Pickups
        <4>5. workers' = [workers EXCEPT ![w] = state]  BY <4>1
        <4> HIDE DEF state
        <4> QED BY <4>2, <4>4, <4>5, OneWorker DEF InPickup
      <3> QED BY <3>1, <3>2
    <2>3. CASE ~(CountUser(w) \/ InsertUser(w)) /\ ~UNCHANGED workers
      <3>1. \E state : ~InPickup(state.stage) /\ workers' = [workers EXCEPT ![w] = state]
        <4>1. ~InPickup(Idle.stage)  BY DEF InPickup, Idle
        <4>2. \A stage, m : ~InPickup(stage) => ~InPickup(Handling(stage, m).stage)
          BY DEF Handling
        <4>3. \A c : ~InPickup(Sending(c).stage)  BY DEF InPickup, Sending
        <4>4. ~InPickup("new") /\ ~InPickup("started") /\ ~InPickup("acknowledged")
          BY DEF InPickup
        <4>5. CASE FindNumber(w)  BY <4>1, <4>2, <4>4, <4>5 DEF FindNumber, Become
        <4>6. CASE InsertNumber(w)  BY <4>2, <4>4, <4>6 DEF InsertNumber, Become
        <4>7. CASE CommandAcked(w) \/ handleIdle(w)
          BY <4>1, <4>7 DEF CommandAcked, handleIdle, Become
        <4>8. CASE TruckDelivering(w)  BY <4>3, <4>8 DEF TruckDelivering, Become
        <4>9. CASE TakeRequest(w)  BY <4>2, <4>4, <4>9 DEF TakeRequest, Become
        <4>10. ~TakeAck(w)  BY <2>3 DEF TakeAck
        <4> QED BY <2>3, <4>5, <4>6, <4>7, <4>8, <4>9, <4>10
      <3> QED BY <3>1, OneWorker
    <2> QED BY <2>1, <2>2, <2>3
  <1> QED BY <1>1, <1>2 DEF Effect, RowEffect, SayEffect

\* The steps of a pickup: the truck, the row and the command to the truck.
LEMMA PickupSteps ==
  ASSUME UPSInv, NEW w \in Workers, UNCHANGED <<worldVars, amazonVars>>,
         pick_truck(w) \/ InsertPackage(w) \/ SendTruck(w)
  PROVE  Effect
  <1> DEFINE m == workers[w].msg
  <1>0. PICK p : p = m.item  OBVIOUS
  <1>1. user_packages \in [Packages -> Row \cup {NoPackage}]  BY DEF UPSInv, TableInv
  <1>2. CASE pick_truck(w)
    <2>1. PICK t \in Trucks :
            /\ workers' = [workers EXCEPT ![w] = [stage |-> "picked", msg |-> m, truck |-> t]]
            /\ user_packages' = IF user_packages[p] = NoPackage THEN user_packages
                                ELSE [user_packages EXCEPT ![p].truck = t]
      BY <1>0, <1>2 DEF pick_truck, Become
    <2> DEFINE state == [stage |-> "picked", msg |-> m, truck |-> t]
    <2>2. workers[w].stage = "started" /\ m.kind = "pickupreq"
      BY <1>2 DEF pick_truck, In
    <2>3. m \in amazon_issued  BY <2>2, AtStage, RequestTypes DEF UPSInv, Handlers
    <2>4. Requested("pickupreq", m.item)  BY <2>2, <2>3 DEF Requested
    <2>5. state.msg = m /\ workers' = [workers EXCEPT ![w] = state]  BY <2>1
    <2> HIDE DEF state
    <2>6. PickupEffect  BY <2>4, <2>5, OneWorker
    <2>7. RowEffect
      <3>1. CASE user_packages[p] = NoPackage  BY <2>1, <3>1 DEF RowEffect
      <3>2. CASE user_packages[p] # NoPackage
        <4>1. \A q \in Packages : q # p => user_packages'[q] = user_packages[q]
          BY <1>1, <2>1, <3>2
        <4> QED BY <3>2, <4>1 DEF RowEffect
      <3> QED BY <3>1, <3>2
    <2> QED BY <1>2, <2>6, <2>7 DEF Effect, SayEffect, pick_truck, numbers, amazonVars
  <1>3. CASE InsertPackage(w)
    <2>1. workers[w].stage = "picked"  BY <1>3 DEF InsertPackage, In
    <2>2. CASE Crash
      BY <2>2, QuietEffect DEF Crash, numbers, tables, amazonVars
    <2>3. CASE ~Crash
      <3> DEFINE state == [workers[w] EXCEPT !.stage = "created"]
      <3>1. /\ workers' = [workers EXCEPT ![w] = state]
            /\ \E row : user_packages' = [user_packages EXCEPT ![p] = row]
            /\ UNCHANGED <<issued, amazon_issued>>
        BY <1>0, <1>3, <2>3 DEF InsertPackage, Become, numbers, amazonVars
      <3>2. workers[w] \in Pickups  BY <2>1, AtStage DEF UPSInv
      <3>3. state.msg = m  BY <3>2 DEF Pickups
      <3> HIDE DEF state
      <3>4. PickupEffect  BY <2>1, <3>1, <3>3, OneWorker DEF InPickup
      <3>5. \A q \in Packages : q # p => user_packages'[q] = user_packages[q]
        BY <1>1, <3>1
      <3>6. RowEffect  BY <1>0, <2>1, <3>5 DEF RowEffect
      <3> QED BY <3>1, <3>4, <3>6 DEF Effect, SayEffect
    <2> QED BY <2>2, <2>3
  <1>4. CASE SendTruck(w)
    <2> DEFINE c == Command("pickup", m.item, workers[w].truck)
    <2>1. /\ workers[w].stage = "created" /\ Issue(w, c) /\ UNCHANGED user_packages
      BY <1>4 DEF SendTruck, In
    <2>2. m.item \in Packages  BY <2>1, AtStage, RequestTypes DEF UPSInv, Pickups
    <2>3. UPSMaySay(c)  BY <2>2 DEF UPSMaySay, Command
    <2>4. RowEffect  BY <2>1 DEF RowEffect
    <2> HIDE DEF c
    <2> QED BY <2>1, <2>3, <2>4, IssueEffect
  <1> QED BY <1>2, <1>3, <1>4

\* A loaded package is sent out.
LEMMA LoadedSteps ==
  ASSUME UPSInv, NEW w \in Workers, UNCHANGED <<worldVars, amazonVars>>,
         parseloaded(w) \/ OutForDelivery(w)
  PROVE  Effect
  <1> DEFINE m == workers[w].msg
  <1>0. PICK p : p = m.item  OBVIOUS
  <1>1. CASE parseloaded(w) /\ Crash
    BY <1>1, QuietEffect DEF Crash, numbers, tables, amazonVars
  <1>2. CASE parseloaded(w) /\ ~Crash
    <2>1. PICK c, state :
            /\ c.kind = "deliver" /\ c.item = p /\ issued' = issued \cup {c}
            /\ state.stage = "read" /\ workers' = [workers EXCEPT ![w] = state]
            /\ UNCHANGED <<user_packages, amazon_issued>>
      <3> DEFINE row == user_packages[m.item]
                 d == [kind |-> "deliver", item |-> m.item, truck |-> row.truck,
                       seq |-> NextNum(seqNum), to |-> <<row.to[1], row.to[1]>>]
                 next == [stage |-> "read", msg |-> m, cmd |-> d]
      <3>1. /\ issued' = issued \cup {d} /\ workers' = [workers EXCEPT ![w] = next]
            /\ UNCHANGED <<user_packages, amazon_issued>>
        BY <1>2 DEF parseloaded, Become, tables, amazonVars
      <3>2. d.kind = "deliver" /\ d.item = p  BY <1>0
      <3>3. next.stage = "read"  OBVIOUS
      <3> HIDE DEF d, next
      <3> QED BY <3>1, <3>2, <3>3
    <2>2. workers[w].stage = "started"  BY <1>2 DEF parseloaded, In
    <2>3. p \in Packages  BY <1>0, <2>2, AtStage, RequestTypes DEF UPSInv, Handlers
    <2>4. UPSMaySay(c)  BY <2>1, <2>3 DEF UPSMaySay
    <2>5. PickupEffect  BY <2>1, OneWorker DEF InPickup
    <2> QED BY <2>1, <2>4, <2>5 DEF Effect, RowEffect, SayEffect
  <1>3. CASE OutForDelivery(w)
    <2> DEFINE state == [workers[w] EXCEPT !.stage = "out"]
    <2>1. /\ workers[w].stage = "read" /\ workers' = [workers EXCEPT ![w] = state]
          /\ user_packages' = [user_packages EXCEPT ![p].status = "out for delivery"]
          /\ UNCHANGED <<issued, amazon_issued>>
      BY <1>0, <1>3 DEF OutForDelivery, In, Become, numbers, amazonVars
    <2>2. workers[w] \in Loadings  BY <2>1, AtStage DEF UPSInv
    <2>3. state.stage = "out"  BY <2>2 DEF Loadings
    <2>4. PickupEffect  BY <2>1, <2>3, OneWorker DEF InPickup
    <2>5. user_packages[p] # NoPackage  BY <1>0, <2>1 DEF UPSInv, LoadingInv
    <2>6. \A q \in Packages : q # p => user_packages'[q] = user_packages[q]
      BY <2>1 DEF UPSInv, TableInv
    <2> QED BY <2>1, <2>4, <2>5, <2>6 DEF Effect, RowEffect, SayEffect
  <1> QED BY <1>1, <1>2, <1>3

\* A truck arrived, or a package was delivered.
LEMMA ResponseSteps ==
  ASSUME UPSInv, NEW w \in Workers, UNCHANGED <<worldVars, amazonVars>>,
         handleDelivery(w) \/ dealUFinished(w) \/ ReportArrival(w)
  PROVE  Effect
  <1> DEFINE m == workers[w].msg
  <1>1. CASE Crash /\ ~dealUFinished(w)
    BY <1>1, QuietEffect DEF Crash, numbers, tables, amazonVars
  <1>2. CASE handleDelivery(w) /\ ~Crash
    <2> DEFINE c == Command("delivered", m.item, m.truck)
    <2>0. PICK p : p = m.item  OBVIOUS
    <2>1. /\ workers[w].stage = "started" /\ m.kind = "delivered" /\ Issue(w, c)
          /\ user_packages[p] # NoPackage
          /\ user_packages' = [user_packages EXCEPT ![p].status = "delivered"]
      BY <1>2, <2>0 DEF handleDelivery, In
    <2>2. p \in Packages /\ m \in world_issued
      BY <2>0, <2>1, AtStage, RequestTypes DEF UPSInv, Handlers
    <2>3. Reported(amazon_issued, "loaded", p)
      <3>1. Reported(issued, "deliver", p)
        BY <2>0, <2>1, <2>2 DEF UPSInv, CommandsEarned
      <3> QED BY <3>1 DEF UPSInv, CommandsEarned, Reported
    <2>4. UPSMaySay(c)  BY <2>0, <2>2, <2>3 DEF UPSMaySay, Command
    <2>5. \A q \in Packages : q # p => user_packages'[q] = user_packages[q]
      BY <2>1 DEF UPSInv, TableInv
    <2>6. RowEffect  BY <2>1, <2>5 DEF RowEffect
    <2> HIDE DEF c
    <2> QED BY <2>1, <2>4, <2>6, IssueEffect
  <1>3. CASE dealUFinished(w)
    <2>1. /\ workers' = [workers EXCEPT ![w] = Handling("arrived", m)]
          /\ user_packages' =
               [p \in Packages |-> IF p \in OnTruck(m.truck, "created")
                  THEN [user_packages[p] EXCEPT !.status = "picked up"]
                  ELSE user_packages[p]]
          /\ UNCHANGED <<issued, amazon_issued>>
      BY <1>3 DEF dealUFinished, Become, numbers, amazonVars
    <2>2. Handling("arrived", m).stage = "arrived"  BY DEF Handling
    <2>3. PickupEffect  BY <2>1, <2>2, OneWorker DEF InPickup
    <2>4. RowEffect  BY <2>1 DEF RowEffect, OnTruck
    <2> QED BY <2>1, <2>3, <2>4 DEF Effect, SayEffect
  <1>4. CASE ReportArrival(w) /\ ~Crash
    <2>1. PICK p \in OnTruck(m.truck, "picked up") : Issue(w, Command("truckarrived", p, m.truck))
      BY <1>4 DEF ReportArrival
    <2> DEFINE c == Command("truckarrived", p, m.truck)
    <2>2. UNCHANGED user_packages  BY <1>4 DEF ReportArrival, tables
    <2>3. p \in Packages /\ user_packages[p] # NoPackage  BY <2>1 DEF OnTruck
    <2>4. UPSMaySay(c)  BY <2>3 DEF UPSMaySay, Command
    <2>5. Issue(w, c)  BY <2>1
    <2>6. RowEffect  BY <2>2 DEF RowEffect
    <2> HIDE DEF c
    <2> QED BY <2>4, <2>5, <2>6, IssueEffect
  <1> QED BY <1>1, <1>2, <1>3, <1>4

LEMMA PeerEffect ==
  ASSUME UPSInv,
         \/ MainStep \/ WorldReads \/ WorldStep
         \/ AmazonReads \/ AmazonStep \/ AmazonRepeats \/ PeerLoses
         \/ (\E w \in Workers : Send(w)) \/ UNCHANGED vars
  PROVE  Effect
  <1>1. CASE MainStep
    BY <1>1, QuietEffect DEF MainStep, MainThread, ReceiveFromWorld, ReceiveFromAmazon,
                             numbers, tables, amazonVars
  <1>2. CASE WorldReads \/ WorldStep
    BY <1>2, QuietEffect DEF WorldReads, WorldStep, WorldReadCommand, WorldReadAck, WorldSend,
                             serverVars, numbers, tables, amazonVars
  <1>3. ASSUME NEW p \in Packages, AmazonRequest(p) PROVE Effect
    <2>1. UNCHANGED <<issued, user_packages, workers>> /\ AmazonIssues("pickupreq", p)
      BY <1>3 DEF AmazonRequest, serverVars, numbers, tables
    <2> QED BY <2>1 DEF Effect, RowEffect, PickupEffect, SayEffect, AmazonMaySay
  <1>4. ASSUME NEW p \in Packages, AmazonLoaded(p) \/ AmazonLoadedAgain(p) PROVE Effect
    <2>1. UNCHANGED <<issued, user_packages, workers>> /\ AmazonIssues("loaded", p)
      BY <1>4 DEF AmazonLoaded, AmazonLoadedAgain, serverVars, numbers, tables
    <2>2. amazon_seen \subseteq issued  BY DEF UPSInv, PeerInv, ForAmazon
    <2>3. AmazonMaySay("loaded", p)
      BY <1>4, <2>2 DEF AmazonLoaded, AmazonLoadedAgain, AmazonMaySay, Reported
    <2> QED BY <2>1, <2>3 DEF Effect, RowEffect, PickupEffect, SayEffect
  <1>5. CASE AmazonReads \/ (\E r \in amazon_out : AmazonSend(r))
    BY <1>5, QuietEffect DEF AmazonReads, AmazonReadCommand, AmazonReadAck, AmazonSend,
                             serverVars, numbers, tables, amazonVars
  <1>6. CASE PeerLoses
    BY <1>6, QuietEffect DEF PeerLoses, numbers, tables, amazonVars
  <1>7. ASSUME NEW w \in Workers, Send(w) PROVE Effect
    BY <1>7, QuietEffect DEF Send, SendCommand, serverVars, numbers, tables, amazonVars
  <1>8. CASE UNCHANGED vars
    BY <1>8, QuietEffect DEF vars, serverVars, numbers, tables, amazonVars
  <1> QED BY <1>1, <1>2, <1>3, <1>4, <1>5, <1>6, <1>7, <1>8 DEF AmazonStep, AmazonRepeats

LEMMA StepEffect == ASSUME UPSInv, [Next]_vars PROVE Effect
  <1>1. ASSUME NEW w \in Workers, Worker(w) \/ TakeTask(w), UNCHANGED <<worldVars, amazonVars>>
        PROVE  Effect
    BY <1>1, OtherSteps, PickupSteps, LoadedSteps, ResponseSteps DEF Worker, TakeTask
  <1> QED BY <1>1, PeerEffect DEF Next, PoolStep, TakeStep, CommandStep

-----------------------------------------------------------------------------

LEMMA ContractStep == ContractInv /\ [Next]_vars => RowsRequested' /\ PickupsRequested'
  <1> SUFFICES ASSUME ContractInv, [Next]_vars PROVE RowsRequested' /\ PickupsRequested'
    OBVIOUS
  <1> USE DEF ContractInv
  <1>1. Effect  BY StepEffect
  <1>2. \A k, p : Requested(k, p) => Requested(k, p)'
    <2>1. amazon_issued \subseteq amazon_issued'
      BY <1>1 DEF Effect, SayEffect, AmazonIssues
    <2> QED BY <2>1 DEF Requested
  <1>3. RowsRequested'
    <2> SUFFICES ASSUME NEW p \in Packages, user_packages'[p] # NoPackage
                 PROVE  Requested("pickupreq", p)
      BY <1>2 DEF RowsRequested
    <2>1. CASE user_packages[p] # NoPackage
      BY <2>1 DEF RowsRequested
    <2>2. ASSUME NEW w \in Workers, workers[w].stage = "picked", workers[w].msg.item = p
          PROVE  Requested("pickupreq", p)
      BY <2>2 DEF PickupsRequested, InPickup
    <2> QED BY <1>1, <2>1, <2>2 DEF Effect, RowEffect
  <1>4. PickupsRequested'
    BY <1>1, <1>2 DEF Effect, PickupEffect, PickupsRequested
  <1> QED BY <1>3, <1>4

LEMMA UPSSays == ContractInv /\ [Next]_vars => [Contract!Next]_Said
  <1> SUFFICES ASSUME ContractInv, [Next]_vars PROVE [Contract!Next]_Said
    OBVIOUS
  <1> USE DEF ContractInv
  <1>1. Effect  BY StepEffect
  <1>2. \A k, p : /\ Requested(k, p) => <<p, k>> \in Said
                  /\ Reported(amazon_issued, k, p) => <<p, k>> \in Said
                  /\ k \in ToAmazonKinds /\ Reported(issued, k, p) => <<p, k>> \in Said
    BY DEF Said, Requested, Reported
  <1>3. ASSUME NEW p \in Packages, NEW k \in Contract!Kinds,
               Said' = Said \cup {<<p, k>>},
               k = "pickupreq" \/ <<p, Contract!Cause[k]>> \in Said
        PROVE  [Contract!Next]_Said
    BY <1>3 DEF Contract!Next
  <1>4. CASE UNCHANGED <<issued, amazon_issued>>  BY <1>4 DEF Said
  <1>5. ASSUME UNCHANGED amazon_issued, NEW c, UPSMaySay(c), issued' = issued \cup {c}
        PROVE  [Contract!Next]_Said
    <2>1. CASE c.kind \notin ToAmazonKinds  BY <1>5, <2>1 DEF Said
    <2>2. CASE c.kind \in ToAmazonKinds
      <3>1. Said' = Said \cup {<<c.item, c.kind>>}  BY <1>5, <2>2 DEF Said
      <3>2. c.kind = "truckarrived" => <<c.item, "pickupreq">> \in Said
        BY <1>2, <1>5 DEF UPSMaySay, RowsRequested
      <3>3. c.kind = "delivered" => <<c.item, "loaded">> \in Said
        BY <1>2, <1>5 DEF UPSMaySay
      <3>4. c.item \in Packages  BY <1>5 DEF UPSMaySay
      <3> QED BY <1>3, <2>2, <3>1, <3>2, <3>3, <3>4
              DEF ToAmazonKinds, Contract!Kinds, Contract!Cause
    <2> QED BY <2>1, <2>2
  <1>6. ASSUME UNCHANGED issued, NEW kind, NEW p, p \in Packages, AmazonMaySay(kind, p),
               AmazonIssues(kind, p)
        PROVE  [Contract!Next]_Said
    <2> DEFINE c == AmazonCommand(kind, p)
    <2>1. amazon_issued' = amazon_issued \cup {c}  BY <1>6 DEF AmazonIssues
    <2>2. c.item = p /\ c.kind = kind  BY DEF AmazonCommand
    <2> HIDE DEF c
    <2>3. Said' = Said \cup {<<p, kind>>}  BY <1>6, <2>1, <2>2 DEF Said
    <2>4. \/ kind = "pickupreq" \/ (kind = "loaded" /\ <<p, "truckarrived">> \in Said)
          \/ Said' = Said
      BY <1>2, <1>6, <2>3 DEF AmazonMaySay, ToAmazonKinds
    <2> QED BY <1>3, <1>6, <2>3, <2>4 DEF Contract!Kinds, Contract!Cause
  <1> QED BY <1>1, <1>4, <1>5, <1>6 DEF Effect, SayEffect

\* The UPS server implements the contract of amazon_ups.proto: dealUFinished reports
\* a truck only for packages that Amazon asked a truck for, and handleDelivery a
\* delivery only of packages that Amazon loaded.
THEOREM UPSKeepsContract == Spec => KeepsContract
  <1>1. Init => Contract!Init  BY DEF Init, InitServer, Contract!Init, Said
  <1>2. UPSInv /\ RowsRequested /\ PickupsRequested => ContractInv  BY DEF ContractInv
  <1>3. Init => RowsRequested /\ PickupsRequested  BY InitContract DEF ContractInv
  <1>4. Spec => []ContractInv
    BY <1>2, <1>3, ContractStep, UPSInvariance, PTL DEF Spec
  <1> QED BY <1>1, <1>4, UPSSays, PTL DEF Spec, KeepsContract, Contract!Spec

=============================================================================
