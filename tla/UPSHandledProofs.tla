---------------------------- MODULE UPSHandledProofs ----------------------------
(***************************************************************************)
(* What the handlers of the UPS server make of their messages, if at most  *)
(* one message or set entry is lost: no row is inserted twice, none that   *)
(* is read is missing, and an arrived truck has a package to report.       *)
(***************************************************************************)
EXTENDS UPSOnceProofs

-----------------------------------------------------------------------------
(* The kinds of steps *)

\* The steps of the main thread, of the peers, and of workers outside a handler.
Aside ==
  /\ UNCHANGED <<issued, user_users, user_packages, user_trucks, crashed>>
  /\ \A w \in Workers : Begun(w) \/ Begun(w)' => workers'[w] = workers[w]

\* The test for the number of its message is over: a handler begins.
Begins(w) == InsertNumber(w) /\ UNCHANGED <<worldVars, amazonVars, repeats>>

Handles(w) == Handler(w) /\ UNCHANGED <<worldVars, amazonVars, repeats>>

LEMMA OthersAside ==
  ASSUME UPSInv, NEW w \in Workers, NEW state, workers' = [workers EXCEPT ![w] = state],
         workers[w].stage \notin HandlerStages, state.stage \notin HandlerStages
  PROVE  \A v \in Workers : Begun(v) \/ Begun(v)' => workers'[v] = workers[v]
  <1>1. \A v \in Workers : workers'[v] = IF v = w THEN state ELSE workers[v]
    BY DEF UPSInv, WorkerInv
  <1> QED BY <1>1 DEF Begun

LEMMA StepKinds ==
  ASSUME UPSInv, [Next]_vars
  PROVE  Aside \/ \E w \in Workers : Begins(w) \/ Handles(w)
  <1>0. UNCHANGED workers => \A v \in Workers : Begun(v) \/ Begun(v)' => workers'[v] = workers[v]
    OBVIOUS
  <1>1. CASE MainStep
    BY <1>0, <1>1 DEF MainStep, MainThread, ReceiveFromWorld, ReceiveFromAmazon, Aside,
                      numbers, tables
  <1>2. ASSUME NEW w \in Workers, TakeTask(w) PROVE Aside
    <2>1. CASE TakeAck(w)  BY <1>0, <2>1 DEF TakeAck, Aside, numbers, tables
    <2>2. CASE TakeRequest(w)
      <3>1. Handling("acknowledged", Head(m_tasks)).stage \notin HandlerStages
        BY DEF Handling, HandlerStages
      <3>2. workers[w].stage \notin HandlerStages
        BY <2>2 DEF TakeRequest, Free, Idle, HandlerStages
      <3>3. workers' = [workers EXCEPT ![w] = Handling("acknowledged", Head(m_tasks))]
        BY <2>2 DEF TakeRequest, Become
      <3>4. \A v \in Workers : Begun(v) \/ Begun(v)' => workers'[v] = workers[v]
        BY <3>1, <3>2, <3>3, OthersAside
      <3> QED BY <2>2, <3>4 DEF TakeRequest, Aside, numbers, tables
    <2> QED BY <1>2, <2>1, <2>2 DEF TakeTask
  <1>3. ASSUME NEW w \in Workers, FindNumber(w) PROVE Aside
    <2> DEFINE state == IF AlreadySeen(workers[w].msg) THEN Idle
                        ELSE Handling("new", workers[w].msg)
    <2>1. state.stage \notin HandlerStages  BY DEF Handling, Idle, HandlerStages
    <2>2. workers[w].stage \notin HandlerStages /\ workers' = [workers EXCEPT ![w] = state]
      BY <1>3 DEF FindNumber, Become, HandlerStages
    <2> HIDE DEF state
    <2>3. \A v \in Workers : Begun(v) \/ Begun(v)' => workers'[v] = workers[v]
      BY <2>1, <2>2, OthersAside
    <2> QED BY <1>3, <2>3 DEF FindNumber, Aside, numbers, tables
  <1>4. CASE PoolStep \/ CommandStep
    <2>1. ASSUME NEW w \in Workers, Worker(w), UNCHANGED <<worldVars, amazonVars, repeats>>
          PROVE  Aside \/ Begins(w) \/ Handles(w)
      <3>1. FindNumber(w) \/ InsertNumber(w) \/ Handler(w)  BY <2>1 DEF Worker, Handler
      <3> QED BY <1>3, <2>1, <3>1 DEF Begins, Handles
    <2>2. ASSUME NEW w \in Workers, Send(w) PROVE Aside
      BY <1>0, <2>2 DEF Send, SendCommand, Aside, serverVars, numbers, tables
    <2> QED BY <1>4, <2>1, <2>2 DEF PoolStep, CommandStep
  <1>5. CASE WorldReads \/ WorldStep \/ PeerLoses \/ UNCHANGED vars
    BY <1>0, <1>5 DEF WorldReads, WorldStep, WorldReadCommand, WorldReadAck, WorldSend, PeerLoses,
                      vars, serverVars, numbers, tables, Aside
  <1>6. CASE AmazonReads \/ AmazonStep \/ AmazonRepeats
    BY <1>0, <1>6 DEF AmazonReads, AmazonStep, AmazonRepeats, AmazonRequest, AmazonLoaded,
                      AmazonLoadedAgain, AmazonReadCommand, AmazonReadAck, AmazonSend, serverVars,
                      numbers, tables, Aside
  <1> QED BY <1>1, <1>2, <1>4, <1>5, <1>6 DEF Next, TakeStep

\* What the peers say: Amazon asks once for a truck, and says perhaps more than once that
\* a package is loaded; the world answers a command when it reads its number for the
\* first time, if at all.
WorldSays ==
  /\ world_seen \subseteq world_seen'
  /\ \/ UNCHANGED world_issued
     \/ \E c \in ForWorld : /\ \A d \in world_seen : d.seq # c.seq
                            /\ c \in world_seen'
                            /\ world_issued' = world_issued \cup WorldAnswers(c)

AmazonSays ==
  \/ UNCHANGED amazon_issued
  \/ \E kind \in AmazonRequests, p \in Packages :
       /\ kind = "pickupreq" => ~Requested("pickupreq", p)
       /\ kind = "loaded" => Reported(issued, "truckarrived", p) \/ Requested("loaded", p)
       /\ amazon_issued' = amazon_issued \cup {AmazonCommand(kind, p)}

LEMMA PeersSay ==
  ASSUME UPSInv, [Next]_vars
  PROVE  WorldSays /\ AmazonSays
  <1>1. ASSUME UNCHANGED <<worldVars, amazonVars>> PROVE WorldSays /\ AmazonSays
    BY <1>1 DEF WorldSays, AmazonSays, worldVars, amazonVars
  <1>2. CASE WorldReadCommand
    <2>0. PICK c : c = Head(to_world)  OBVIOUS
    <2>1. c \in ForWorld
      <3>1. to_world \in Seq(ForWorld \cup Acks) /\ to_world # <<>> /\ c.kind # "ack"
        BY <1>2, <2>0 DEF WorldReadCommand, UPSInv, ChannelInv
      <3> QED BY <2>0, <3>1, FirstOf DEF Acks
    <2>2. WorldSays  BY <1>2, <2>0, <2>1 DEF WorldReadCommand, WorldSays
    <2> QED BY <1>2, <2>2 DEF WorldReadCommand, AmazonSays, amazonVars
  <1>3. CASE WorldReadAck
    BY <1>3 DEF WorldReadAck, WorldSays, AmazonSays, amazonVars
  <1>4. CASE \E p \in Packages : AmazonRequest(p)
    BY <1>4 DEF AmazonRequest, AmazonIssues, WorldSays, AmazonSays, worldVars, AmazonRequests
  <1>5. ASSUME NEW p \in Packages, AmazonLoaded(p) \/ AmazonLoadedAgain(p)
        PROVE  WorldSays /\ AmazonSays
    <2>1. amazon_issued' = amazon_issued \cup {AmazonCommand("loaded", p)} /\ UNCHANGED worldVars
      BY <1>5 DEF AmazonLoaded, AmazonLoadedAgain, AmazonIssues
    <2>2. amazon_seen \subseteq issued  BY DEF UPSInv, PeerInv, ForAmazon
    <2>3. Reported(issued, "truckarrived", p) \/ Requested("loaded", p)
      BY <1>5, <2>2 DEF AmazonLoaded, AmazonLoadedAgain, Reported
    <2> QED BY <2>1, <2>3 DEF WorldSays, AmazonSays, worldVars, AmazonRequests
  <1>6. CASE AmazonReads
    BY <1>6 DEF AmazonReads, AmazonReadCommand, AmazonReadAck, WorldSays, AmazonSays, worldVars
  <1>7. CASE \/ MainStep \/ TakeStep \/ PoolStep \/ CommandStep \/ PeerLoses \/ UNCHANGED vars
             \/ WorldStep \/ (\E r \in amazon_out : AmazonSend(r))
    <2>1. UNCHANGED <<worldVars, amazonVars>>
      BY <1>7 DEF MainStep, TakeStep, PoolStep, CommandStep, PeerLoses, vars, WorldStep, WorldSend,
                  AmazonSend, Send
    <2> QED BY <1>1, <2>1
  <1> QED BY <1>2, <1>3, <1>4, <1>5, <1>6, <1>7 DEF Next, WorldReads, AmazonStep, AmazonRepeats

-----------------------------------------------------------------------------
(* A message is in the hands of one handler *)

\* A message whose handler has begun is not pending, and has one handler.
BegunInv ==
  /\ \A w \in Workers : Begun(w) => ~Pending(workers[w].msg)
  /\ \A v, w \in Workers : Begun(v) /\ Begun(w) /\ workers[v].msg = workers[w].msg => v = w

\* A handler that is there after a step was there before, or begins.
MessageKept ==
  \A w \in Workers : Begun(w)' =>
    /\ workers'[w].msg = workers[w].msg
    /\ \/ Begins(w)
       \/ Begun(w) /\ (workers'[w].stage = "started" => workers[w].stage = "started")

LEMMA InsertNumberGoes ==
  ASSUME UPSInv, NEW w \in Workers, InsertNumber(w)
  PROVE  /\ \A v \in Workers : v # w => workers'[v] = workers[v]
         /\ workers'[w].stage = "started" /\ workers'[w].msg = workers[w].msg
         /\ workers[w].stage = "new" /\ workers[w].msg \in Requests
         /\ UNCHANGED <<issued, user_users, user_packages, user_trucks, crashed>>
  <1>1. workers' = [workers EXCEPT ![w] = Handling("started", workers[w].msg)]
    BY DEF InsertNumber, Become
  <1>2. workers[w].stage = "new"  BY DEF InsertNumber
  <1>3. workers[w].msg \in Requests  BY <1>2, FreshWorker DEF Fresh
  <1> QED BY <1>1, <1>2, <1>3 DEF UPSInv, WorkerInv, Handling, InsertNumber, numbers, tables

LEMMA StepKeepsMessages ==
  ASSUME UPSInv, [Next]_vars
  PROVE  MessageKept
  <1>1. CASE Aside  BY <1>1 DEF Aside, MessageKept, Begun
  <1>2. ASSUME NEW w \in Workers, Begins(w) PROVE MessageKept
    BY <1>2, InsertNumberGoes DEF MessageKept, Begun, Begins
  <1>3. ASSUME NEW w \in Workers, Handler(w) PROVE MessageKept
    <2>1. CASE Crash  BY <2>1 DEF Crash, MessageKept, Begun
    <2>2. ASSUME NEW state, GoesOn(w, state), workers' = [workers EXCEPT ![w] = state]
          PROVE  MessageKept
      <3>1. \A v \in Workers : workers'[v] = IF v = w THEN state ELSE workers[v]
        BY <2>2 DEF UPSInv, WorkerInv
      <3>2. workers[w].stage \in HandlerStages \cup {"sending"}  BY <1>3, HandlerGoes
      <3>3. workers[w].stage = "sending" => CommandAcked(w) /\ workers'[w].stage = "idle"
        <4>1. workers[w].stage = "sending" => CommandAcked(w)
          BY <1>3 DEF Handler, pick_truck, CountUser, InsertUser, InsertPackage, SendTruck,
             parseloaded, OutForDelivery, TruckDelivering, handleDelivery, dealUFinished,
             ReportArrival, handleIdle, In
        <4> QED BY <3>1, <4>1 DEF CommandAcked, Become, Idle, UPSInv, WorkerInv
      <3> QED BY <2>2, <3>1, <3>2, <3>3 DEF MessageKept, Begun, GoesOn, HandlerStages
    <2> QED BY <1>3, <2>1, <2>2, HandlerGoes
  <1> QED BY <1>1, <1>2, <1>3, StepKinds DEF Handles

LEMMA BegunStep ==
  ASSUME UPSInv, FlowInv, FewFaults', BegunInv, [Next]_vars
  PROVE  /\ BegunInv'
         /\ \A r : \A w \in Workers : Begins(w) /\ workers[w].msg = r =>
              r \in Requests /\ Pending(r) /\ ~Pending(r)'
  <1>1. ASSUME NEW w \in Workers, NEW r, Begins(w), workers[w].msg = r
        PROVE  r \in Requests /\ Pending(r) /\ ~Pending(r)'
    BY <1>1, InsertNumberFlow, InsertNumberGoes DEF Begins
  <1>2. MessageKept /\ Progress  BY StepKeepsMessages, FlowStep
  <1>3. ASSUME NEW w \in Workers, Begun(w)' PROVE ~Pending(workers[w].msg)'
    <2>0. PICK r : r = workers[w].msg  OBVIOUS
    <2>1. workers'[w].msg = r  BY <1>2, <1>3, <2>0 DEF MessageKept
    <2>2. ~Pending(r)'
      <3>1. CASE Begins(w)  BY <1>1, <2>0, <3>1
      <3>2. CASE Begun(w)
        <4>1. ~Pending(r)  BY <2>0, <3>2 DEF BegunInv
        <4>2. r \in Requests
          <5>1. workers[w] \in Handlers \cup Pickups \cup Loadings
            BY <3>2, AtStage DEF UPSInv, Begun, HandlerStages
          <5> QED BY <2>0, <5>1 DEF Handlers, Pickups, Loadings
        <4> QED BY <1>2, <4>1, <4>2 DEF Progress
      <3> QED BY <1>2, <1>3, <3>1, <3>2 DEF MessageKept
    <2> QED BY <2>1, <2>2 DEF Pending, AlreadySeen, InHand, Unacked, Acked, FromServer
  <1>4. ASSUME NEW v \in Workers, NEW w \in Workers, Begun(v)', Begun(w)',
               workers'[v].msg = workers'[w].msg
        PROVE  v = w
    <2>1. workers[v].msg = workers[w].msg  BY <1>2, <1>4 DEF MessageKept
    <2>2. CASE Begun(v) /\ Begun(w)  BY <2>1, <2>2 DEF BegunInv
    <2>3. CASE Begins(v) /\ Begun(w)  BY <1>1, <2>1, <2>3 DEF BegunInv
    <2>4. CASE Begins(w) /\ Begun(v)  BY <1>1, <2>1, <2>4 DEF BegunInv
    <2>5. CASE Begins(v) /\ Begins(w)
      BY <2>5, InsertNumberGoes DEF Begins
    <2> QED BY <1>2, <1>4, <2>2, <2>3, <2>4, <2>5 DEF MessageKept
  <1> QED BY <1>1, <1>3, <1>4 DEF BegunInv

\* The handler of r has left its first stage; it has ended.
Past(r) == ~Pending(r) /\ \A w \in Workers : ~(workers[w].stage = "started" /\ workers[w].msg = r)
Over(r) == ~Pending(r) /\ \A w \in Workers : ~(Begun(w) /\ workers[w].msg = r)

LEMMA PastStays ==
  ASSUME UPSInv, FlowInv, FewFaults', BegunInv, [Next]_vars, NEW r \in Requests
  PROVE  (Past(r) => Past(r)') /\ (Over(r) => Over(r)')
  <1>1. MessageKept /\ Progress  BY StepKeepsMessages, FlowStep
  <1>2. ~Pending(r) => ~Pending(r)' /\ \A w \in Workers : ~(Begins(w) /\ workers[w].msg = r)
    BY <1>1, BegunStep DEF Progress
  <1>3. Past(r) => Past(r)'
    BY <1>1, <1>2 DEF Past, MessageKept, Begun, HandlerStages
  <1>4. Over(r) => Over(r)'
    BY <1>1, <1>2 DEF Over, MessageKept
  <1> QED BY <1>3, <1>4

-----------------------------------------------------------------------------
(* Pickups: the row of a package is inserted once, with the truck that was picked *)

PickStages == {"started", "picked", "no user", "created"}

Picking(w, p) ==
  /\ workers[w].stage \in PickStages
  /\ workers[w].msg.kind = "pickupreq" /\ workers[w].msg.item = p

OnItsTruck(c) == user_packages[c.item] # NoPackage /\ user_packages[c.item].truck = c.truck

\* Amazon asks once for a truck; a pickup has no row before it inserts one; the
\* commands about a package name the truck of its row; the truck is sent once.
PickupInv ==
  /\ \A q, r \in amazon_issued :
       q.kind = "pickupreq" /\ r.kind = "pickupreq" /\ q.item = r.item => q = r
  /\ \A r \in amazon_issued :
       r.kind = "pickupreq" /\ user_packages[r.item] # NoPackage => ~Pending(r)
  /\ \A w \in Workers, p \in Packages : Picking(w, p) =>
       IF workers[w].stage = "created"
       THEN user_packages[p] # NoPackage /\ user_packages[p].truck = workers[w].truck
       ELSE user_packages[p] = NoPackage
  /\ \A c \in issued : c.kind \in {"pickup", "truckarrived", "deliver"} => OnItsTruck(c)
  /\ \A c \in issued : c.kind = "pickup" => \A w \in Workers : ~Picking(w, c.item)
  /\ \A c, d \in issued : c.kind = "pickup" /\ d.kind = "pickup" /\ c.item = d.item => c = d

\* What most steps do to the rows, the commands and the pickups.
TruckStays ==
  \A p \in Packages :
    /\ user_packages'[p] # NoPackage <=> user_packages[p] # NoPackage
    /\ user_packages[p] # NoPackage => user_packages'[p].truck = user_packages[p].truck

NoPickupIssued ==
  /\ issued \subseteq issued'
  /\ \A c \in issued' \ issued :
       /\ c.kind # "pickup" /\ c.item \in Packages
       /\ c.kind \in {"truckarrived", "deliver"} => OnItsTruck(c)

PickingKept ==
  \A w \in Workers, p \in Packages : Picking(w, p)' =>
    /\ Picking(w, p)
    /\ IF workers'[w].stage = "created"
       THEN workers[w].stage = "created" /\ workers'[w].truck = workers[w].truck
       ELSE workers[w].stage # "created"

StaysHandled == \A r \in Requests : Pending(r)' => Pending(r)

LEMMA PickupKept ==
  ASSUME ContractInv, PickupInv, TruckStays, NoPickupIssued, PickingKept, StaysHandled, AmazonSays
  PROVE  PickupInv'
  <1>0. UPSInv  BY DEF ContractInv
  <1>1. \A q, r \in amazon_issued' :
          q.kind = "pickupreq" /\ r.kind = "pickupreq" /\ q.item = r.item => q = r
    <2>1. CASE UNCHANGED amazon_issued  BY <2>1 DEF PickupInv
    <2>2. ASSUME NEW kind, NEW p, kind = "pickupreq" => ~Requested("pickupreq", p),
                 amazon_issued' = amazon_issued \cup {AmazonCommand(kind, p)}
          PROVE  \A q, r \in amazon_issued' :
                   q.kind = "pickupreq" /\ r.kind = "pickupreq" /\ q.item = r.item => q = r
      BY <2>2 DEF PickupInv, Requested, AmazonCommand
    <2> QED BY <2>1, <2>2 DEF AmazonSays
  <1>2. \A r \in amazon_issued : r \in Requests /\ r.item \in Packages
    BY <1>0, RequestTypes DEF UPSInv, Requests
  <1>3. \A c \in issued : c.item \in Packages  BY <1>0, CommandTypes DEF UPSInv
  <1>4. \A r \in amazon_issued' :
          r.kind = "pickupreq" /\ user_packages'[r.item] # NoPackage => ~Pending(r)'
    <2> SUFFICES ASSUME NEW r \in amazon_issued', r.kind = "pickupreq",
                        user_packages'[r.item] # NoPackage
                 PROVE  ~Pending(r)'
      OBVIOUS
    <2>1. CASE r \in amazon_issued
      BY <1>2, <2>1 DEF PickupInv, TruckStays, StaysHandled
    <2>2. CASE r \notin amazon_issued
      <3>1. PICK kind \in AmazonRequests, p \in Packages :
              /\ kind = "pickupreq" => ~Requested("pickupreq", p)
              /\ amazon_issued' = amazon_issued \cup {AmazonCommand(kind, p)}
        BY <2>2 DEF AmazonSays
      <3>2. r = AmazonCommand(kind, p)  BY <2>2, <3>1
      <3>3. r.item = p /\ kind = "pickupreq"  BY <3>2 DEF AmazonCommand
      <3>4. user_packages[p] = NoPackage  BY <3>1, <3>3 DEF ContractInv, RowsRequested
      <3> QED BY <3>3, <3>4 DEF TruckStays
    <2> QED BY <2>1, <2>2
  <1>5. \A w \in Workers, p \in Packages : Picking(w, p)' =>
          IF workers'[w].stage = "created"
          THEN user_packages'[p] # NoPackage /\ user_packages'[p].truck = workers'[w].truck
          ELSE user_packages'[p] = NoPackage
    BY DEF PickupInv, PickingKept, TruckStays
  <1>6. ASSUME NEW c \in issued', c.kind \in {"pickup", "truckarrived", "deliver"}
        PROVE  OnItsTruck(c)'
    <2>1. OnItsTruck(c) /\ c.item \in Packages  BY <1>3, <1>6 DEF PickupInv, NoPickupIssued
    <2> QED BY <2>1 DEF OnItsTruck, TruckStays
  <1>7. \A c \in issued' : c.kind = "pickup" => c \in issued  BY DEF NoPickupIssued
  <1>8. \A c \in issued' : c.kind = "pickup" => \A w \in Workers : ~Picking(w, c.item)'
    BY <1>3, <1>7 DEF PickupInv, PickingKept
  <1>9. \A c, d \in issued' : c.kind = "pickup" /\ d.kind = "pickup" /\ c.item = d.item => c = d
    BY <1>7 DEF PickupInv
  <1> QED BY <1>1, <1>4, <1>5, <1>6, <1>8, <1>9 DEF PickupInv

\* The changes of a status.
LEMMA StatusOnly ==
  ASSUME TableInv, NEW p \in Packages, user_packages[p] # NoPackage, NEW s \in PackageStatuses,
         user_packages' = [user_packages EXCEPT ![p].status = s]
  PROVE  /\ TruckStays /\ user_packages'[p].status = s
         /\ \A q \in Packages : q # p => user_packages'[q] = user_packages[q]
  <1>1. user_packages[p] \in Row  BY DEF TableInv
  <1>2. \A q \in Packages : user_packages'[q] =
          IF q = p THEN [user_packages[p] EXCEPT !.status = s] ELSE user_packages[q]
    BY DEF TableInv
  <1>3. /\ [user_packages[p] EXCEPT !.status = s].truck = user_packages[p].truck
        /\ [user_packages[p] EXCEPT !.status = s].status = s
        /\ [user_packages[p] EXCEPT !.status = s] # NoPackage
    BY <1>1, NullAssumption DEF Row
  <1> QED BY <1>2, <1>3 DEF TruckStays

LEMMA ArrivalRows ==
  ASSUME UPSInv, NEW w \in Workers, dealUFinished(w)
  PROVE  /\ TruckStays
         /\ \A p \in Packages : user_packages[p] # NoPackage =>
              user_packages'[p].status =
                IF user_packages[p].truck = workers[w].msg.truck /\ user_packages[p].status = "created"
                THEN "picked up" ELSE user_packages[p].status
  <1>1. \A p \in Packages : user_packages[p] # NoPackage => user_packages[p] \in Row
    BY DEF UPSInv, TableInv
  <1>2. \A p \in Packages : user_packages'[p] =
          IF p \in OnTruck(workers[w].msg.truck, "created")
          THEN [user_packages[p] EXCEPT !.status = "picked up"] ELSE user_packages[p]
    BY DEF dealUFinished
  <1>3. \A p \in Packages : user_packages[p] # NoPackage =>
          /\ [user_packages[p] EXCEPT !.status = "picked up"].truck = user_packages[p].truck
          /\ [user_packages[p] EXCEPT !.status = "picked up"].status = "picked up"
          /\ [user_packages[p] EXCEPT !.status = "picked up"] \in Row
    BY <1>1 DEF Row, PackageStatuses
  <1> QED BY <1>2, <1>3, NullAssumption DEF OnTruck, TruckStays

\* Only the insertion of a row gives a package a truck.
LEMMA HandlerTrucks ==
  ASSUME UPSInv, PickupInv, NEW w \in Workers, Handler(w), ~InsertPackage(w)
  PROVE  TruckStays
  <1>1. CASE UNCHANGED user_packages  BY <1>1 DEF TruckStays
  <1>2. CASE pick_truck(w)
    <2>0. PICK p : p = workers[w].msg.item  OBVIOUS
    <2>1. workers[w].stage = "started" /\ workers[w].msg.kind = "pickupreq"
      BY <1>2 DEF pick_truck, In
    <2>2. workers[w].msg \in Requests  BY <2>1, AtStage DEF UPSInv, Handlers
    <2>3. p \in Packages  BY <2>0, <2>2, RequestTypes DEF UPSInv
    <2>4. Picking(w, p)  BY <2>0, <2>1 DEF Picking, PickStages
    <2>5. user_packages[p] = NoPackage  BY <2>1, <2>3, <2>4 DEF PickupInv
    <2>6. UNCHANGED user_packages  BY <1>2, <2>0, <2>5 DEF pick_truck
    <2> QED BY <1>1, <2>6
  <1>3. CASE OutForDelivery(w)
    <2>0. PICK p : p = workers[w].msg.item  OBVIOUS
    <2>1. workers[w].stage = "read" /\
          user_packages' = [user_packages EXCEPT ![p].status = "out for delivery"]
      BY <1>3, <2>0 DEF OutForDelivery, In
    <2>2. p \in Packages /\ user_packages[p] # NoPackage
      BY <2>0, <2>1 DEF UPSInv, LoadingInv
    <2> QED BY <2>1, <2>2, StatusOnly DEF UPSInv, PackageStatuses
  <1>4. CASE handleDelivery(w) /\ ~Crash
    <2>0. PICK p : p = workers[w].msg.item  OBVIOUS
    <2>1. /\ workers[w].stage = "started" /\ user_packages[p] # NoPackage
          /\ user_packages' = [user_packages EXCEPT ![p].status = "delivered"]
      BY <1>4, <2>0 DEF handleDelivery, In
    <2>2. workers[w].msg \in Requests  BY <2>1, AtStage DEF UPSInv, Handlers
    <2>3. p \in Packages  BY <2>0, <2>2, RequestTypes DEF UPSInv
    <2> QED BY <2>1, <2>3, StatusOnly DEF UPSInv, PackageStatuses
  <1>5. CASE dealUFinished(w)  BY <1>5, ArrivalRows
  <1>6. CASE CommandAcked(w) \/ CountUser(w) \/ InsertUser(w) \/ SendTruck(w) \/ parseloaded(w)
             \/ TruckDelivering(w) \/ ReportArrival(w) \/ handleIdle(w) \/ Crash
    <2>1. UNCHANGED user_packages
      BY <1>6 DEF CommandAcked, CountUser, InsertUser, SendTruck, parseloaded, TruckDelivering,
                  ReportArrival, handleIdle, Crash, tables
    <2> QED BY <1>1, <2>1
  <1> QED BY <1>2, <1>3, <1>4, <1>5, <1>6 DEF Handler

\* A new command about a package is for the truck of its row.
LEMMA HandlerCommands ==
  ASSUME UPSInv, NEW w \in Workers, Handler(w), ~SendTruck(w)
  PROVE  NoPickupIssued
  <1>1. CASE UNCHANGED issued  BY <1>1 DEF NoPickupIssued
  <1>2. CASE parseloaded(w) /\ ~Crash
    <2>0. PICK p : p = workers[w].msg.item  OBVIOUS
    <2>1. workers[w].stage = "started" /\ user_packages[p] # NoPackage
      BY <1>2, <2>0 DEF parseloaded, In
    <2>2. workers[w].msg \in Requests  BY <2>1, AtStage DEF UPSInv, Handlers
    <2>3. p \in Packages  BY <2>0, <2>2, RequestTypes DEF UPSInv
    <2>4. \E c : /\ c.kind = "deliver" /\ c.item = p /\ c.truck = user_packages[p].truck
                 /\ issued' = issued \cup {c}
      BY <1>2, <2>0, <2>1 DEF parseloaded
    <2> QED BY <2>1, <2>3, <2>4 DEF NoPickupIssued, OnItsTruck
  <1>3. CASE handleDelivery(w) /\ ~Crash
    <2>1. workers[w].stage = "started"  BY <1>3 DEF handleDelivery, In
    <2>2. workers[w].msg \in Requests  BY <2>1, AtStage DEF UPSInv, Handlers
    <2>3. workers[w].msg.item \in Packages  BY <2>2, RequestTypes DEF UPSInv
    <2>4. \E c : c.kind = "delivered" /\ c.item = workers[w].msg.item /\ issued' = issued \cup {c}
      BY <1>3 DEF handleDelivery, Issue, Command
    <2> QED BY <2>3, <2>4 DEF NoPickupIssued
  <1>4. CASE ReportArrival(w) /\ ~Crash
    <2>0. PICK t : t = workers[w].msg.truck  OBVIOUS
    <2>1. PICK p \in OnTruck(t, "picked up") : Issue(w, Command("truckarrived", p, t))
      BY <1>4, <2>0 DEF ReportArrival
    <2>2. p \in Packages /\ user_packages[p] # NoPackage /\ user_packages[p].truck = t
      BY DEF OnTruck
    <2>3. \E c : /\ c.kind = "truckarrived" /\ c.item = p /\ c.truck = t
                 /\ issued' = issued \cup {c}
      BY <2>1 DEF Issue, Command
    <2> QED BY <2>2, <2>3 DEF NoPickupIssued, OnItsTruck
  <1>5. CASE CommandAcked(w) \/ pick_truck(w) \/ CountUser(w) \/ InsertUser(w) \/ InsertPackage(w)
             \/ OutForDelivery(w) \/ TruckDelivering(w) \/ dealUFinished(w) \/ handleIdle(w) \/ Crash
    <2>1. UNCHANGED issued
      BY <1>5 DEF CommandAcked, pick_truck, CountUser, InsertUser, InsertPackage, OutForDelivery,
                  TruckDelivering, dealUFinished, handleIdle, Crash, numbers
    <2> QED BY <1>1, <2>1
  <1> QED BY <1>2, <1>3, <1>4, <1>5 DEF Handler

\* A worker goes on with its pickup, or does something else.
LEMMA PickingGoes ==
  ASSUME UPSInv, NEW w \in Workers, NEW state, workers' = [workers EXCEPT ![w] = state],
         state.stage \in PickStages =>
           /\ state.stage # "created" /\ state.msg = workers[w].msg
           /\ workers[w].stage \in PickStages \ {"created"}
  PROVE  PickingKept
  <1>1. \A v \in Workers : workers'[v] = IF v = w THEN state ELSE workers[v]
    BY DEF UPSInv, WorkerInv
  <1> QED BY <1>1 DEF PickingKept, Picking

LEMMA HandlerPicking ==
  ASSUME UPSInv, NEW w \in Workers, Handler(w), ~InsertPackage(w)
  PROVE  PickingKept
  <1>1. CASE Crash  BY <1>1 DEF Crash, PickingKept, Picking
  <1>2. CASE pick_truck(w)
    <2>1. PICK t : workers' = [workers EXCEPT ![w] =
                                 [stage |-> "picked", msg |-> workers[w].msg, truck |-> t]]
      BY <1>2 DEF pick_truck, Become
    <2>2. workers[w].stage = "started"  BY <1>2 DEF pick_truck, In
    <2> QED BY <2>1, <2>2, PickingGoes DEF PickStages
  <1>3. CASE (CountUser(w) \/ InsertUser(w)) /\ ~Crash
    <2>1. PICK stage \in {"no user", "picked"} :
            workers' = [workers EXCEPT ![w] = [workers[w] EXCEPT !.stage = stage]]
      BY <1>3 DEF CountUser, InsertUser, Become
    <2>2. workers[w].stage \in {"picked", "no user"}  BY <1>3 DEF CountUser, InsertUser, In
    <2>3. workers[w] \in Pickups  BY <2>2, AtStage DEF UPSInv
    <2> DEFINE state == [workers[w] EXCEPT !.stage = stage]
    <2>4. state.stage = stage /\ state.msg = workers[w].msg  BY <2>3 DEF Pickups
    <2>5. workers' = [workers EXCEPT ![w] = state]  BY <2>1
    <2> HIDE DEF state
    <2> QED BY <2>2, <2>4, <2>5, PickingGoes DEF PickStages
  <1>4. CASE OutForDelivery(w)
    <2> DEFINE state == [workers[w] EXCEPT !.stage = "out"]
    <2>1. workers[w].stage = "read" /\ workers' = [workers EXCEPT ![w] = state]
      BY <1>4 DEF OutForDelivery, In, Become
    <2>2. workers[w] \in Loadings  BY <2>1, AtStage DEF UPSInv
    <2>3. state.stage = "out"  BY <2>2 DEF Loadings
    <2> HIDE DEF state
    <2> QED BY <2>1, <2>3, PickingGoes DEF PickStages
  <1>6. CASE CommandAcked(w) \/ handleIdle(w)
    <2>1. workers' = [workers EXCEPT ![w] = Idle]
      BY <1>6 DEF CommandAcked, handleIdle, Become
    <2>2. Idle.stage \notin PickStages  BY DEF Idle, PickStages
    <2> QED BY <2>1, <2>2, PickingGoes
  <1>7. CASE parseloaded(w) /\ ~Crash
    <2>1. PICK c : workers' = [workers EXCEPT ![w] =
                                 [stage |-> "read", msg |-> workers[w].msg, cmd |-> c]]
      BY <1>7 DEF parseloaded, Become
    <2>2. [stage |-> "read", msg |-> workers[w].msg, cmd |-> c].stage \notin PickStages
      BY DEF PickStages
    <2> QED BY <2>1, <2>2, PickingGoes
  <1>8. CASE dealUFinished(w)
    <2>1. workers' = [workers EXCEPT ![w] = Handling("arrived", workers[w].msg)]
      BY <1>8 DEF dealUFinished, Become
    <2>2. Handling("arrived", workers[w].msg).stage \notin PickStages
      BY DEF Handling, PickStages
    <2> QED BY <2>1, <2>2, PickingGoes
  <1>9. CASE (SendTruck(w) \/ TruckDelivering(w) \/ handleDelivery(w) \/ ReportArrival(w)) /\ ~Crash
    <2>1. PICK c : workers' = [workers EXCEPT ![w] = Sending(c)]
      BY <1>9 DEF SendTruck, TruckDelivering, handleDelivery, ReportArrival, Issue, Become
    <2>2. Sending(c).stage \notin PickStages  BY DEF Sending, PickStages
    <2> QED BY <2>1, <2>2, PickingGoes
  <1> QED BY <1>1, <1>2, <1>3, <1>4, <1>6, <1>7, <1>8, <1>9 DEF Handler

\* Only one worker handles the pickup of a package.
LEMMA OnePicking ==
  ASSUME UPSInv, BegunInv, PickupInv, NEW v \in Workers, NEW w \in Workers, NEW p \in Packages,
         Picking(v, p), Picking(w, p)
  PROVE  v = w /\ Begun(w) /\ workers[w].msg \in amazon_issued
  <1>1. \A u \in Workers : Picking(u, p) => Begun(u) /\ workers[u].msg \in amazon_issued
    <2> SUFFICES ASSUME NEW u \in Workers, Picking(u, p)
                 PROVE  Begun(u) /\ workers[u].msg \in amazon_issued
      OBVIOUS
    <2>1. workers[u] \in Handlers \cup Pickups
      BY AtStage DEF UPSInv, Picking, PickStages
    <2>2. workers[u].msg \in Requests  BY <2>1 DEF Handlers, Pickups
    <2> QED BY <2>2, RequestTypes DEF UPSInv, Picking, PickStages, Begun, HandlerStages
  <1>2. workers[v].msg = workers[w].msg  BY <1>1 DEF Picking, PickupInv
  <1> QED BY <1>1, <1>2 DEF BegunInv

LEMMA InsertPackagePickup ==
  ASSUME ContractInv, BegunInv, PickupInv, StaysHandled, NEW w \in Workers, InsertPackage(w),
         UNCHANGED amazon_issued
  PROVE  PickupInv' /\ ~Crash
  <1>0. UPSInv  BY DEF ContractInv
  <1>1. PICK p : p = workers[w].msg.item  OBVIOUS
  <1>2. workers[w].stage = "picked" /\ workers[w].msg.kind = "pickupreq"
    BY DEF InsertPackage, In
  <1>3. workers[w] \in Pickups  BY <1>0, <1>2, AtStage DEF UPSInv
  <1>4. p \in Packages /\ workers[w].truck \in Trucks /\ workers[w].msg \in Requests
    BY <1>0, <1>1, <1>3, RequestTypes DEF UPSInv, Pickups
  <1>5. Picking(w, p)  BY <1>1, <1>2 DEF Picking, PickStages
  <1>6. user_packages[p] = NoPackage  BY <1>2, <1>4, <1>5 DEF PickupInv
  <1> DEFINE row == [truck |-> workers[w].truck, status |-> "created",
                     user |-> AccountOf[p], to |-> AddressOf[p]]
             state == [workers[w] EXCEPT !.stage = "created"]
  <1>7. /\ user_packages' = [user_packages EXCEPT ![p] = row]
        /\ workers' = [workers EXCEPT ![w] = state]
        /\ UNCHANGED issued
    BY <1>1, <1>6 DEF InsertPackage, Become, numbers
  <1>8. ~Crash
    <2>1. UNCHANGED crashed  BY <1>1, <1>6, NullAssumption DEF InsertPackage, Crash
    <2>2. crashed = FALSE  BY DEF InsertPackage, In
    <2> QED BY <2>1, <2>2 DEF Crash
  <1>9. row.truck = workers[w].truck /\ row # NoPackage
    <2>1. AccountOf[p] \in Accounts /\ AddressOf[p] \in Int \X Int
      BY <1>4, PackageAssumption
    <2>2. row \in Row  BY <1>4, <2>1 DEF Row, PackageStatuses
    <2> QED BY <2>2, NullAssumption
  <1>10. state.stage = "created" /\ state.msg = workers[w].msg /\ state.truck = workers[w].truck
    BY <1>3 DEF Pickups
  <1> HIDE DEF row, state
  <1>11. \A q \in Packages : user_packages'[q] = IF q = p THEN row ELSE user_packages[q]
    BY <1>0, <1>4, <1>7 DEF UPSInv, TableInv
  <1>12. \A v \in Workers : workers'[v] = IF v = w THEN state ELSE workers[v]
    BY <1>0, <1>7 DEF UPSInv, WorkerInv
  <1>13. \A v \in Workers : Picking(v, p) => v = w
    BY <1>0, <1>4, <1>5, OnePicking
  <1>14. \A v \in Workers, q \in Packages : Picking(v, q)' <=> Picking(v, q)
    BY <1>2, <1>10, <1>12 DEF Picking, PickStages
  <1>15. \A c \in issued : c.item \in Packages  BY <1>0, CommandTypes DEF UPSInv
  <1>16. \A r \in amazon_issued' :
           r.kind = "pickupreq" /\ user_packages'[r.item] # NoPackage => ~Pending(r)'
    <2> SUFFICES ASSUME NEW r \in amazon_issued, r.kind = "pickupreq",
                        user_packages'[r.item] # NoPackage
                 PROVE  ~Pending(r)'
      OBVIOUS
    <2>1. r \in Requests /\ r.item \in Packages  BY <1>0, RequestTypes DEF UPSInv, Requests
    <2>2. CASE r.item = p
      <3>1. workers[w].msg \in amazon_issued /\ Begun(w)  BY <1>0, <1>4, <1>5, OnePicking
      <3>2. r = workers[w].msg  BY <1>1, <1>2, <2>2, <3>1 DEF PickupInv
      <3>3. ~Pending(r)  BY <3>1, <3>2 DEF BegunInv
      <3> QED BY <2>1, <3>3 DEF StaysHandled
    <2>3. CASE r.item # p
      BY <1>11, <2>1, <2>3 DEF PickupInv, StaysHandled
    <2> QED BY <2>2, <2>3
  <1>17. ASSUME NEW v \in Workers, NEW q \in Packages, Picking(v, q)'
         PROVE  IF workers'[v].stage = "created"
                THEN user_packages'[q] # NoPackage /\ user_packages'[q].truck = workers'[v].truck
                ELSE user_packages'[q] = NoPackage
    <2>1. Picking(v, q)  BY <1>14, <1>17
    <2>2. CASE v = w
      <3>1. q = p  BY <1>1, <2>1, <2>2 DEF Picking
      <3> QED BY <1>9, <1>10, <1>11, <1>12, <2>2, <3>1
    <2>3. CASE v # w
      <3>1. q # p  BY <1>13, <2>1, <2>3
      <3> QED BY <1>11, <1>12, <2>1, <2>3, <3>1 DEF PickupInv
    <2> QED BY <2>2, <2>3
  <1>18. ASSUME NEW c \in issued, c.kind \in {"pickup", "truckarrived", "deliver"}
         PROVE  OnItsTruck(c)'
    BY <1>6, <1>11, <1>15, <1>18 DEF PickupInv, OnItsTruck
  <1> QED BY <1>7, <1>8, <1>14, <1>15, <1>16, <1>17, <1>18 DEF PickupInv

\* The truck is sent: the first command about the package.
LEMMA SendTruckPickup ==
  ASSUME ContractInv, BegunInv, PickupInv, StaysHandled, NEW w \in Workers, SendTruck(w),
         UNCHANGED amazon_issued
  PROVE  PickupInv'
  <1>0. UPSInv  BY DEF ContractInv
  <1>1. PICK p : p = workers[w].msg.item  OBVIOUS
  <1>2. PICK t : t = workers[w].truck  OBVIOUS
  <1>3. PICK c : c = Command("pickup", p, t)  OBVIOUS
  <1>4. c.kind = "pickup" /\ c.item = p /\ c.truck = t  BY <1>3 DEF Command
  <1>5. /\ workers' = [workers EXCEPT ![w] = Sending(c)] /\ issued' = issued \cup {c}
        /\ UNCHANGED user_packages
        /\ workers[w].stage = "created" /\ workers[w].msg.kind = "pickupreq"
    BY <1>1, <1>2, <1>3 DEF SendTruck, In, Issue, Become
  <1>6. p \in Packages
    BY <1>0, <1>1, <1>5, AtStage, RequestTypes DEF UPSInv, Pickups
  <1>7. Picking(w, p)  BY <1>1, <1>5 DEF Picking, PickStages
  <1>8. OnItsTruck(c)  BY <1>2, <1>4, <1>5, <1>6, <1>7 DEF PickupInv, OnItsTruck
  <1>9. Sending(c).stage = "sending"  BY DEF Sending
  <1>10. \A v \in Workers : workers'[v] = IF v = w THEN Sending(c) ELSE workers[v]
    BY <1>0, <1>5 DEF UPSInv, WorkerInv
  <1>11. \A v \in Workers, q \in Packages :
           Picking(v, q)' => Picking(v, q) /\ v # w /\ workers'[v] = workers[v]
    BY <1>9, <1>10 DEF Picking, PickStages
  <1>12. \A v \in Workers : Picking(v, p) => v = w  BY <1>0, <1>6, <1>7, OnePicking
  <1>13. \A d \in issued : d.item \in Packages  BY <1>0, CommandTypes DEF UPSInv
  <1>14. \A r \in amazon_issued :
           r.kind = "pickupreq" /\ user_packages[r.item] # NoPackage => ~Pending(r)'
    BY DEF PickupInv, StaysHandled, Requests
  <1>15. \A v \in Workers, q \in Packages : Picking(v, q)' =>
           IF workers'[v].stage = "created"
           THEN user_packages[q] # NoPackage /\ user_packages[q].truck = workers'[v].truck
           ELSE user_packages[q] = NoPackage
    BY <1>11 DEF PickupInv
  <1>16. \A d \in issued' : d.kind \in {"pickup", "truckarrived", "deliver"} => OnItsTruck(d)'
    BY <1>5, <1>8 DEF PickupInv, OnItsTruck
  <1>17. \A d \in issued' : d.kind = "pickup" => \A v \in Workers : ~Picking(v, d.item)'
    BY <1>4, <1>5, <1>6, <1>11, <1>12, <1>13 DEF PickupInv
  <1>18. \A d \in issued : d.kind = "pickup" => d.item # p  BY <1>7 DEF PickupInv
  <1>19. \A d, e \in issued' : d.kind = "pickup" /\ e.kind = "pickup" /\ d.item = e.item => d = e
    BY <1>4, <1>5, <1>18 DEF PickupInv
  <1>20. \A q, r \in amazon_issued :
           q.kind = "pickupreq" /\ r.kind = "pickupreq" /\ q.item = r.item => q = r
    BY DEF PickupInv
  <1> QED BY <1>5, <1>14, <1>15, <1>16, <1>17, <1>19, <1>20 DEF PickupInv

\* A pickup begins while its request was pending: there is no row and no command yet.
LEMMA BeginsPickup ==
  ASSUME ContractInv, FlowInv, FewFaults', BegunInv, PickupInv, StaysHandled, [Next]_vars,
         NEW w \in Workers, Begins(w)
  PROVE  PickupInv'
  <1>0. UPSInv  BY DEF ContractInv
  <1>1. PICK m : m = workers[w].msg  OBVIOUS
  <1>2. /\ \A v \in Workers : v # w => workers'[v] = workers[v]
        /\ workers'[w].stage = "started" /\ workers'[w].msg = m
        /\ UNCHANGED <<issued, user_users, user_packages, user_trucks, crashed>>
    BY <1>0, <1>1, InsertNumberGoes DEF Begins
  <1>3. m \in Requests /\ Pending(m) /\ ~Pending(m)'  BY <1>0, <1>1, BegunStep
  <1>4. UNCHANGED amazon_issued  BY DEF Begins, amazonVars
  <1>5. ASSUME m.kind = "pickupreq" PROVE user_packages[m.item] = NoPackage
    <2>1. m \in amazon_issued  BY <1>0, <1>3, <1>5, RequestTypes DEF UPSInv
    <2> QED BY <1>3, <1>5, <2>1 DEF PickupInv
  <1>6. \A v \in Workers, p \in Packages : Picking(v, p)' =>
          \/ Picking(v, p) /\ workers'[v] = workers[v]
          \/ workers'[v].stage = "started" /\ m.kind = "pickupreq" /\ m.item = p
    BY <1>2 DEF Picking
  <1>7. \A c \in issued : c.kind = "pickup" => user_packages[c.item] # NoPackage
    BY DEF PickupInv, OnItsTruck
  <1>8. \A c \in issued : c.item \in Packages  BY <1>0, CommandTypes DEF UPSInv
  <1>9. \A r \in amazon_issued :
          r.kind = "pickupreq" /\ user_packages[r.item] # NoPackage => ~Pending(r)'
    BY DEF PickupInv, StaysHandled, Requests
  <1>10. \A v \in Workers, p \in Packages : Picking(v, p)' =>
           IF workers'[v].stage = "created"
           THEN user_packages[p] # NoPackage /\ user_packages[p].truck = workers'[v].truck
           ELSE user_packages[p] = NoPackage
    BY <1>5, <1>6 DEF PickupInv
  <1>11. \A c \in issued : c.kind = "pickup" => \A v \in Workers : ~Picking(v, c.item)'
    BY <1>5, <1>6, <1>7, <1>8 DEF PickupInv
  <1>12. \A c \in issued : OnItsTruck(c) => OnItsTruck(c)'  BY <1>2 DEF OnItsTruck
  <1> QED BY <1>2, <1>4, <1>9, <1>10, <1>11, <1>12 DEF PickupInv

LEMMA AsideKeeps ==
  ASSUME UPSInv, Aside
  PROVE  TruckStays /\ NoPickupIssued /\ PickingKept
  <1>1. TruckStays /\ NoPickupIssued  BY DEF Aside, TruckStays, NoPickupIssued
  <1>2. \A w \in Workers : workers'[w].stage \in PickStages => Begun(w)'
    BY DEF PickStages, Begun, HandlerStages
  <1>3. \A w \in Workers, p \in Packages : Picking(w, p)' => workers'[w] = workers[w]
    BY <1>2 DEF Aside, Picking
  <1> QED BY <1>1, <1>3 DEF PickingKept, Picking

LEMMA InitPickup == Init => BegunInv /\ PickupInv
  <1> SUFFICES ASSUME Init PROVE BegunInv /\ PickupInv
    OBVIOUS
  <1>1. \A w \in Workers : workers[w].stage = "idle"  BY DEF Init, InitServer, Idle
  <1>2. amazon_issued = {} /\ issued = {}  BY DEF Init, InitServer
  <1> QED BY <1>1, <1>2 DEF BegunInv, Begun, HandlerStages, PickupInv, Picking, PickStages

LEMMA PickupStep ==
  ASSUME ContractInv, FlowInv, FewFaults', BegunInv, PickupInv, [Next]_vars
  PROVE  PickupInv'
  <1>0. UPSInv  BY DEF ContractInv
  <1>1. StaysHandled  BY <1>0, FlowStep DEF Progress, StaysHandled
  <1>2. AmazonSays  BY <1>0, PeersSay
  <1>3. CASE Aside  BY <1>0, <1>1, <1>2, <1>3, AsideKeeps, PickupKept
  <1>4. ASSUME NEW w \in Workers, Begins(w) PROVE PickupInv'
    BY <1>1, <1>4, BeginsPickup
  <1>5. ASSUME NEW w \in Workers, Handles(w) PROVE PickupInv'
    <2>1. Handler(w) /\ UNCHANGED amazon_issued  BY <1>5 DEF Handles, amazonVars
    <2>2. CASE InsertPackage(w)  BY <1>1, <2>1, <2>2, InsertPackagePickup
    <2>3. CASE SendTruck(w)  BY <1>1, <2>1, <2>3, SendTruckPickup
    <2>4. CASE ~InsertPackage(w) /\ ~SendTruck(w)
      <3>1. TruckStays /\ NoPickupIssued /\ PickingKept
        BY <1>0, <2>1, <2>4, HandlerTrucks, HandlerCommands, HandlerPicking
      <3> QED BY <1>1, <1>2, <3>1, PickupKept
    <2> QED BY <2>2, <2>3, <2>4
  <1> QED BY <1>0, <1>3, <1>4, <1>5, StepKinds

-----------------------------------------------------------------------------
(* Arrivals: one for each pickup, and a loaded package was reported *)

Reports == {c \in issued : c.kind = "truckarrived"}
Arrivals == {r \in world_issued : r.kind = "arrived"}

\* An arrival answers the one pickup of its item; a package is loaded after its report.
ArrivedInv ==
  /\ IsFiniteSet(world_issued)
  /\ \A r \in Arrivals :
       \E c \in world_seen : c.kind = "pickup" /\ c.item = r.item /\ c.truck = r.truck
  /\ \A q, r \in Arrivals : q.item = r.item => q = r
  /\ \A r \in amazon_issued : r.kind = "loaded" => Reported(issued, "truckarrived", r.item)

\* The world answers one command at a time, and none twice.
LEMMA NewAnswers ==
  ASSUME UPSInv, WorldSays
  PROVE  /\ world_seen \subseteq world_seen' /\ world_issued \subseteq world_issued'
         /\ IsFiniteSet(world_issued) => IsFiniteSet(world_issued')
         /\ \/ UNCHANGED world_issued
            \/ \E c \in ForWorld :
                 /\ c \in world_seen' /\ \A d \in world_seen : d.seq # c.seq
                 /\ c.kind = "pickup" \/ c.kind = "deliver"
                 /\ \A r \in world_issued' \ world_issued :
                      /\ r.item = c.item /\ r.truck = c.truck
                      /\ r.kind = "arrived" <=> c.kind = "pickup"
                 /\ \A q, r \in world_issued' \ world_issued : q.kind = r.kind => q = r
  <1>1. CASE UNCHANGED world_issued  BY <1>1 DEF WorldSays
  <1>2. ASSUME NEW c \in ForWorld, \A d \in world_seen : d.seq # c.seq, c \in world_seen',
               world_issued' = world_issued \cup WorldAnswers(c)
        PROVE  /\ world_issued \subseteq world_issued'
               /\ IsFiniteSet(world_issued) => IsFiniteSet(world_issued')
               /\ c.kind = "pickup" \/ c.kind = "deliver"
               /\ \A r \in world_issued' \ world_issued :
                    /\ r.item = c.item /\ r.truck = c.truck
                    /\ r.kind = "arrived" <=> c.kind = "pickup"
               /\ \A q, r \in world_issued' \ world_issued : q.kind = r.kind => q = r
    <2> DEFINE answer(kind, n) == [kind |-> kind, item |-> c.item, truck |-> c.truck, seq |-> n]
    <2>0. \A k, n : /\ answer(k, n).kind = k
                    /\ answer(k, n).item = c.item /\ answer(k, n).truck = c.truck
      OBVIOUS
    <2>1. c.kind = "pickup" \/ c.kind = "deliver"  BY DEF ForWorld, ToWorldKinds
    <2>2. CASE c.kind = "pickup"
      <3>1. WorldAnswers(c) = {answer("arrived", world_seq)}  BY <2>2 DEF WorldAnswers
      <3> HIDE DEF answer
      <3>2. IsFiniteSet(world_issued) => IsFiniteSet(world_issued')
        BY <1>2, <3>1, FS_AddElement
      <3> QED BY <1>2, <2>0, <2>1, <2>2, <3>1, <3>2
    <2>3. CASE c.kind = "deliver"
      <3>1. WorldAnswers(c) = {answer("delivered", world_seq), answer("idle", world_seq + 1)}
        BY <2>3 DEF WorldAnswers
      <3> HIDE DEF answer
      <3>2. world_issued' =
              (world_issued \cup {answer("delivered", world_seq)}) \cup {answer("idle", world_seq + 1)}
        BY <1>2, <3>1
      <3>3. IsFiniteSet(world_issued) => IsFiniteSet(world_issued \cup {answer("delivered", world_seq)})
        BY FS_AddElement
      <3>4. IsFiniteSet(world_issued) => IsFiniteSet(world_issued')
        BY <3>2, <3>3, FS_AddElement
      <3>5. \A r \in world_issued' \ world_issued :
              r = answer("delivered", world_seq) \/ r = answer("idle", world_seq + 1)
        BY <3>2
      <3>6. \A r \in world_issued' \ world_issued :
              /\ r.item = c.item /\ r.truck = c.truck /\ r.kind # "arrived"
        BY <2>0, <3>5
      <3>7. \A q, r \in world_issued' \ world_issued : q.kind = r.kind => q = r
        BY <2>0, <3>5
      <3> QED BY <1>2, <2>1, <2>3, <3>4, <3>6, <3>7
    <2> QED BY <2>1, <2>2, <2>3
  <1> QED BY <1>1, <1>2 DEF WorldSays

LEMMA ArrivedStep ==
  ASSUME UPSInv, PickupInv, ArrivedInv, WorldSays, AmazonSays, issued \subseteq issued'
  PROVE  ArrivedInv'
  <1>1. IsFiniteSet(world_issued')  BY NewAnswers DEF ArrivedInv
  <1>2. \A r \in amazon_issued' : r.kind = "loaded" => Reported(issued', "truckarrived", r.item)
    <2>1. \A p : Reported(issued, "truckarrived", p) => Reported(issued', "truckarrived", p)
      BY DEF Reported
    <2>2. \A kind, p : /\ AmazonCommand(kind, p).kind = kind
                       /\ AmazonCommand(kind, p).item = p
      BY DEF AmazonCommand
    <2>3. \A p : Requested("loaded", p) => Reported(issued, "truckarrived", p)
      BY DEF ArrivedInv, Requested
    <2> QED BY <2>1, <2>2, <2>3 DEF ArrivedInv, AmazonSays
  <1>3. world_seen \subseteq issued /\ world_seen \subseteq world_seen'
    BY DEF UPSInv, PeerInv, ForWorld, WorldSays
  <1>4. CASE UNCHANGED world_issued
    BY <1>1, <1>2, <1>3, <1>4 DEF ArrivedInv, Arrivals
  <1>5. CASE ~UNCHANGED world_issued
    <2>1. PICK c \in ForWorld :
            /\ c \in world_seen' /\ \A d \in world_seen : d.seq # c.seq
            /\ \A r \in world_issued' \ world_issued :
                 /\ r.item = c.item /\ r.truck = c.truck
                 /\ r.kind = "arrived" <=> c.kind = "pickup"
            /\ \A q, r \in world_issued' \ world_issued : q.kind = r.kind => q = r
      BY <1>5, NewAnswers
    <2>2. \A r \in Arrivals' \ Arrivals :
            r \in world_issued' \ world_issued /\ r.kind = "arrived" /\ c.kind = "pickup"
      BY <2>1 DEF Arrivals
    <2>3. \A r \in Arrivals' :
            \E d \in world_seen' : d.kind = "pickup" /\ d.item = r.item /\ d.truck = r.truck
      BY <1>3, <2>1, <2>2 DEF ArrivedInv
    <2>4. ASSUME NEW q \in Arrivals, NEW r \in Arrivals' \ Arrivals, q.item = r.item
          PROVE  FALSE
      <3>1. PICK d \in world_seen : d.kind = "pickup" /\ d.item = q.item  BY DEF ArrivedInv
      <3>2. c \in issued /\ d \in issued  BY <1>3 DEF ForWorld
      <3>3. c.kind = "pickup" /\ c.item = d.item  BY <2>1, <2>2, <2>4, <3>1
      <3>4. c = d  BY <3>1, <3>2, <3>3 DEF PickupInv
      <3> QED BY <2>1, <3>4
    <2>5. \A q, r \in Arrivals' : q.item = r.item => q = r
      BY <2>1, <2>2, <2>4 DEF ArrivedInv
    <2> QED BY <1>1, <1>2, <2>3, <2>5 DEF ArrivedInv
  <1> QED BY <1>4, <1>5

-----------------------------------------------------------------------------
(* Reports: every report of a truck has an arrival of its own *)

Matches(f) ==
  /\ f \in [Reports -> Arrivals]
  /\ \A c, d \in Reports : f[c] = f[d] => c = d
  /\ \A c \in Reports : f[c].truck = c.truck /\ Over(f[c])

MatchedInv == \E f : Matches(f)

LEMMA HandlerReports ==
  ASSUME NEW w \in Workers, Handler(w), ~ReportArrival(w)
  PROVE  UNCHANGED Reports
  <1>1. CASE UNCHANGED issued  BY <1>1 DEF Reports
  <1>2. CASE (SendTruck(w) \/ parseloaded(w) \/ handleDelivery(w)) /\ ~Crash
    <2>1. \E c : c.kind # "truckarrived" /\ issued' = issued \cup {c}
      BY <1>2 DEF SendTruck, parseloaded, handleDelivery, Issue, Command
    <2> QED BY <2>1 DEF Reports
  <1>3. CASE CommandAcked(w) \/ pick_truck(w) \/ CountUser(w) \/ InsertUser(w) \/ InsertPackage(w)
             \/ OutForDelivery(w) \/ TruckDelivering(w) \/ dealUFinished(w) \/ handleIdle(w) \/ Crash
    <2>1. UNCHANGED issued
      BY <1>3 DEF CommandAcked, pick_truck, CountUser, InsertUser, InsertPackage, OutForDelivery,
                  TruckDelivering, dealUFinished, handleIdle, Crash, numbers
    <2> QED BY <1>1, <2>1
  <1> QED BY <1>2, <1>3 DEF Handler

LEMMA MatchedKept ==
  ASSUME MatchedInv, UNCHANGED Reports, Arrivals \subseteq Arrivals',
         \A r \in Arrivals : Over(r) => Over(r)'
  PROVE  MatchedInv'
  <1>1. PICK f : Matches(f)  BY DEF MatchedInv
  <1>2. f \in [Reports' -> Arrivals']  BY <1>1 DEF Matches
  <1>3. \A c \in Reports' : f[c] \in Arrivals /\ Over(f[c])  BY <1>1 DEF Matches
  <1>4. \A c \in Reports' : Over(f[c])'
    <2> SUFFICES ASSUME NEW c \in Reports' PROVE Over(f[c])'
      OBVIOUS
    <2>1. PICK r : r = f[c]  OBVIOUS
    <2>2. Over(r)'  BY <1>3, <2>1
    <2> QED BY <2>1, <2>2
  <1>5. Matches(f)'  BY <1>1, <1>2, <1>4 DEF Matches
  <1> QED BY <1>5 DEF MatchedInv

\* A report ends the handler of an arrival.
LEMMA ReportEnds ==
  ASSUME UPSInv, FlowInv, FewFaults', BegunInv, [Next]_vars,
         NEW w \in Workers, ReportArrival(w), ~Crash
  PROVE  \E m \in Arrivals, p \in Packages, c \in issued' :
           /\ m = workers[w].msg /\ Past(m) /\ ~Over(m) /\ Over(m)'
           /\ p \in OnTruck(m.truck, "picked up") /\ c.item = p /\ c.truck = m.truck
           /\ Reports' = Reports \cup {c} /\ c \notin Reports
  <1>1. PICK m : m = workers[w].msg  OBVIOUS
  <1>2. workers[w].stage = "arrived" /\ m.kind = "arrived"
    BY <1>1 DEF ReportArrival, In
  <1>3. m \in Requests /\ m \in world_issued
    BY <1>1, <1>2, AtStage, RequestTypes DEF UPSInv, Handlers
  <1>4. m \in Arrivals /\ Begun(w)  BY <1>2, <1>3 DEF Arrivals, Begun, HandlerStages
  <1>5. PICK p \in Packages : /\ p \in OnTruck(m.truck, "picked up")
                             /\ Issue(w, Command("truckarrived", p, m.truck))
    BY <1>1 DEF ReportArrival, OnTruck
  <1>6. PICK c : c = Command("truckarrived", p, m.truck)  OBVIOUS
  <1>7. c.kind = "truckarrived" /\ c.item = p /\ c.truck = m.truck /\ c.seq = seqNum + 1
    BY <1>6 DEF Command, NextNum
  <1>8. issued' = issued \cup {c} /\ workers' = [workers EXCEPT ![w] = Sending(c)]
    BY <1>5, <1>6 DEF Issue, Become
  <1>9. c \notin issued
    <2>1. seqNum \in Nat /\ \A d \in issued : d.seq <= seqNum
      BY BoundAssumption DEF UPSInv, NumberInv
    <2> QED BY <1>7, <2>1
  <1>10. Reports' = Reports \cup {c} /\ c \notin Reports  BY <1>7, <1>8, <1>9 DEF Reports
  <1>11. ~Pending(m)  BY <1>1, <1>4 DEF BegunInv
  <1>12. Over(m)'
    <2>1. ~Pending(m)'  BY <1>3, <1>11, FlowStep DEF Progress
    <2>2. \A v \in Workers : workers'[v] = IF v = w THEN Sending(c) ELSE workers[v]
      BY <1>8 DEF UPSInv, WorkerInv
    <2>3. Sending(c).stage \notin HandlerStages  BY DEF Sending, HandlerStages
    <2>4. \A v \in Workers : ~(Begun(v)' /\ workers'[v].msg = m)
      BY <1>1, <1>4, <2>2, <2>3 DEF BegunInv, Begun
    <2> QED BY <2>1, <2>4 DEF Over
  <1>13. Past(m) /\ ~Over(m)
    <2>1. \A v \in Workers : Begun(v) /\ workers[v].msg = m => v = w
      BY <1>1, <1>4 DEF BegunInv
    <2> QED BY <1>1, <1>2, <1>4, <1>11, <2>1 DEF Past, Over, Begun, HandlerStages
  <1>14. c \in issued'  BY <1>8
  <1> QED BY <1>1, <1>4, <1>5, <1>7, <1>10, <1>12, <1>13, <1>14

LEMMA ReportMatched ==
  ASSUME UPSInv, FlowInv, FewFaults', BegunInv, MatchedInv, [Next]_vars,
         NEW w \in Workers, ReportArrival(w), UNCHANGED Arrivals, ~Crash
  PROVE  MatchedInv'
  <1>1. PICK m \in Arrivals, p \in Packages, c \in issued' :
          /\ ~Over(m) /\ Over(m)' /\ c.truck = m.truck
          /\ Reports' = Reports \cup {c} /\ c \notin Reports
    BY ReportEnds
  <1>2. PICK f : Matches(f)  BY DEF MatchedInv
  <1>3. \A d \in Reports : f[d] \in Arrivals /\ f[d] # m /\ f[d].truck = d.truck /\ Over(f[d])
    BY <1>1, <1>2 DEF Matches
  <1>4. PICK g : g = [d \in Reports' |-> IF d = c THEN m ELSE f[d]]  OBVIOUS
  <1>5. g \in [Reports' -> Arrivals']  BY <1>1, <1>3, <1>4
  <1>6. \A d, e \in Reports' : g[d] = g[e] => d = e
    BY <1>1, <1>2, <1>3, <1>4 DEF Matches
  <1>7. ASSUME NEW d \in Reports' PROVE g[d].truck = d.truck /\ Over(g[d])'
    <2>1. CASE d = c  BY <1>1, <1>4, <2>1
    <2>2. CASE d # c
      <3>1. PICK r : r = f[d]  OBVIOUS
      <3>2. g[d] = r /\ r \in Requests /\ r.truck = d.truck /\ Over(r)
        BY <1>1, <1>3, <1>4, <2>2, <3>1 DEF Arrivals, Requests
      <3>3. Over(r)'  BY <3>2, PastStays
      <3> QED BY <3>2, <3>3
    <2> QED BY <2>1, <2>2
  <1>8. Matches(g)'  BY <1>5, <1>6, <1>7 DEF Matches
  <1> QED BY <1>8 DEF MatchedInv

LEMMA MatchedStep ==
  ASSUME UPSInv, FlowInv, FewFaults', BegunInv, MatchedInv, [Next]_vars
  PROVE  MatchedInv'
  <1>1. WorldSays  BY PeersSay
  <1>2. Arrivals \subseteq Arrivals'  BY <1>1, NewAnswers DEF Arrivals
  <1>3. \A r \in Arrivals : Over(r) => Over(r)'
    BY PastStays DEF Arrivals, Requests
  <1>4. CASE UNCHANGED Reports  BY <1>2, <1>3, <1>4, MatchedKept
  <1>5. CASE UNCHANGED issued  BY <1>4, <1>5 DEF Reports
  <1>6. CASE Aside  BY <1>5, <1>6 DEF Aside
  <1>7. ASSUME NEW w \in Workers, Begins(w) PROVE MatchedInv'
    BY <1>5, <1>7, InsertNumberGoes DEF Begins
  <1>8. ASSUME NEW w \in Workers, Handles(w) PROVE MatchedInv'
    <2>1. Handler(w) /\ UNCHANGED Arrivals  BY <1>8 DEF Handles, worldVars, Arrivals
    <2>2. CASE Crash  BY <1>5, <2>2 DEF Crash, numbers
    <2>3. CASE ReportArrival(w) /\ ~Crash  BY <2>1, <2>3, ReportMatched
    <2>4. CASE ~ReportArrival(w)  BY <1>4, <2>1, <2>4, HandlerReports
    <2> QED BY <2>2, <2>3, <2>4
  <1> QED BY <1>6, <1>7, <1>8, StepKinds

-----------------------------------------------------------------------------
(* Accounts and statuses, which the web site could change under a handler *)

\* Two packages are for one account only if the table had it at the start.
AccountsApart ==
  \A p, q \in Packages : p # q /\ AccountOf[p] = AccountOf[q] => AccountOf[p] \in Registered

\* The account that a pickup is about to insert is not there yet.
UserFree ==
  /\ Registered \subseteq user_users
  /\ \A w \in Workers : workers[w].stage = "no user" /\ workers[w].msg.kind = "pickupreq" =>
       AccountOf[workers[w].msg.item] \notin user_users

\* An arrival whose handler left its first stage has picked its package up.
Dealt == \A r \in Arrivals : Past(r) => user_packages[r.item].status # "created"

LEMMA UserStepFree ==
  ASSUME UPSInv, BegunInv, PickupInv, UserFree, AccountsApart, NEW w \in Workers, InsertUser(w)
  PROVE  UserFree' /\ ~Crash
  <1>1. PICK p : p = workers[w].msg.item  OBVIOUS
  <1>2. workers[w].stage = "no user" /\ workers[w].msg.kind = "pickupreq"
    BY DEF InsertUser, In
  <1>3. workers[w] \in Pickups  BY <1>2, AtStage DEF UPSInv
  <1>4. p \in Packages  BY <1>1, <1>3, RequestTypes DEF UPSInv, Pickups
  <1>5. Picking(w, p) /\ AccountOf[p] \notin user_users
    BY <1>1, <1>2 DEF Picking, PickStages, UserFree
  <1> DEFINE state == [workers[w] EXCEPT !.stage = "picked"]
  <1>6. /\ user_users' = user_users \cup {AccountOf[p]}
        /\ workers' = [workers EXCEPT ![w] = state]
        /\ UNCHANGED crashed
    BY <1>1, <1>5 DEF InsertUser, Become
  <1>7. ~Crash
    <2>1. ~crashed  BY DEF InsertUser, In
    <2> QED BY <1>6, <2>1 DEF Crash
  <1>8. state.stage = "picked"  BY <1>3 DEF Pickups
  <1> HIDE DEF state
  <1>9. \A v \in Workers : workers'[v] = IF v = w THEN state ELSE workers[v]
    BY <1>6 DEF UPSInv, WorkerInv
  <1>10. ASSUME NEW v \in Workers, workers'[v].stage = "no user",
                workers'[v].msg.kind = "pickupreq"
         PROVE  AccountOf[workers'[v].msg.item] \notin user_users'
    <2>1. v # w /\ workers'[v] = workers[v]  BY <1>8, <1>9, <1>10
    <2>2. PICK q : q = workers[v].msg.item  OBVIOUS
    <2>3. q \in Packages
      BY <1>10, <2>1, <2>2, AtStage, RequestTypes DEF UPSInv, Pickups
    <2>4. Picking(v, q) /\ AccountOf[q] \notin user_users
      BY <1>10, <2>1, <2>2 DEF Picking, PickStages, UserFree
    <2>5. p # q  BY <1>4, <1>5, <2>1, <2>4, OnePicking
    <2>6. AccountOf[p] # AccountOf[q]
      BY <1>4, <1>5, <2>3, <2>5 DEF AccountsApart, UserFree
    <2> QED BY <1>6, <2>1, <2>2, <2>4, <2>6
  <1> QED BY <1>6, <1>7, <1>10 DEF UserFree

\* A worker stays at the insertion of its account, or comes there with CountUser.
LEMMA UserGoes ==
  ASSUME UPSInv, UserFree, NEW w \in Workers, NEW state, workers' = [workers EXCEPT ![w] = state],
         UNCHANGED user_users, state.stage # "no user"
  PROVE  UserFree'
  <1>1. \A v \in Workers : workers'[v] = IF v = w THEN state ELSE workers[v]
    BY DEF UPSInv, WorkerInv
  <1>2. ASSUME NEW v \in Workers, workers'[v].stage = "no user",
               workers'[v].msg.kind = "pickupreq"
        PROVE  AccountOf[workers'[v].msg.item] \notin user_users'
    <2>1. workers'[v] = workers[v]  BY <1>1, <1>2
    <2>2. PICK a : a = AccountOf[workers[v].msg.item]  OBVIOUS
    <2>3. a \notin user_users  BY <1>2, <2>1, <2>2 DEF UserFree
    <2>4. a = AccountOf[workers'[v].msg.item]  BY <2>1, <2>2 
    <2> QED BY <2>3, <2>4
  <1> QED BY <1>2 DEF UserFree

LEMMA HandlerUsers ==
  ASSUME UPSInv, UserFree, NEW w \in Workers, Handler(w), ~InsertUser(w)
  PROVE  UserFree'
  <1>1. UNCHANGED user_users
    BY DEF Handler, CommandAcked, pick_truck, CountUser, InsertPackage, SendTruck, parseloaded,
           OutForDelivery, TruckDelivering, handleDelivery, dealUFinished, ReportArrival,
           handleIdle, Crash, tables
  <1>2. CASE Crash  BY <1>2 DEF Crash, tables, UserFree
  <1>3. CASE CountUser(w)
    <2>1. PICK p : p = workers[w].msg.item  OBVIOUS
    <2> DEFINE state == [workers[w] EXCEPT !.stage = "no user"]
    <2>2. /\ workers' = [workers EXCEPT ![w] = state] /\ AccountOf[p] \notin user_users
          /\ workers[w].stage = "picked"
      BY <1>3, <2>1 DEF CountUser, In, Become
    <2>3. workers[w] \in Pickups  BY <2>2, AtStage DEF UPSInv
    <2>4. state.msg = workers[w].msg  BY <2>3 DEF Pickups
    <2> HIDE DEF state
    <2>5. \A v \in Workers : workers'[v] = IF v = w THEN state ELSE workers[v]
      BY <2>2 DEF UPSInv, WorkerInv
    <2>6. ASSUME NEW v \in Workers, workers'[v].stage = "no user",
                 workers'[v].msg.kind = "pickupreq"
          PROVE  AccountOf[workers'[v].msg.item] \notin user_users'
      <3>1. CASE v = w  BY <1>1, <2>1, <2>2, <2>4, <2>5, <3>1
      <3>2. CASE v # w
        <4>1. workers'[v] = workers[v]  BY <2>5, <3>2
        <4>2. AccountOf[workers[v].msg.item] \notin user_users  BY <2>6, <4>1 DEF UserFree
        <4> QED BY <1>1, <4>1, <4>2
      <3> QED BY <3>1, <3>2
    <2> QED BY <1>1, <2>6 DEF UserFree
  <1>4. CASE pick_truck(w)
    <2>1. PICK t : workers' = [workers EXCEPT ![w] =
                                 [stage |-> "picked", msg |-> workers[w].msg, truck |-> t]]
      BY <1>4 DEF pick_truck, Become
    <2>2. [stage |-> "picked", msg |-> workers[w].msg, truck |-> t].stage # "no user"
      OBVIOUS
    <2> QED BY <1>1, <2>1, <2>2, UserGoes
  <1>5. CASE InsertPackage(w) /\ ~Crash
    <2> DEFINE state == [workers[w] EXCEPT !.stage = "created"]
    <2>1. workers' = [workers EXCEPT ![w] = state] /\ workers[w].stage = "picked"
      BY <1>5 DEF InsertPackage, In, Become
    <2>2. workers[w] \in Pickups  BY <2>1, AtStage DEF UPSInv
    <2>3. state.stage # "no user"  BY <2>2 DEF Pickups
    <2> HIDE DEF state
    <2> QED BY <1>1, <2>1, <2>3, UserGoes
  <1>6. CASE OutForDelivery(w)
    <2> DEFINE state == [workers[w] EXCEPT !.stage = "out"]
    <2>1. workers[w].stage = "read" /\ workers' = [workers EXCEPT ![w] = state]
      BY <1>6 DEF OutForDelivery, In, Become
    <2>2. workers[w] \in Loadings  BY <2>1, AtStage DEF UPSInv
    <2>3. state.stage # "no user"  BY <2>2 DEF Loadings
    <2> HIDE DEF state
    <2> QED BY <1>1, <2>1, <2>3, UserGoes
  <1>7. CASE CommandAcked(w) \/ handleIdle(w)
    <2>1. workers' = [workers EXCEPT ![w] = Idle]
      BY <1>7 DEF CommandAcked, handleIdle, Become
    <2>2. Idle.stage # "no user"  BY DEF Idle
    <2> QED BY <1>1, <2>1, <2>2, UserGoes
  <1>8. CASE parseloaded(w) /\ ~Crash
    <2>1. PICK c : workers' = [workers EXCEPT ![w] =
                                 [stage |-> "read", msg |-> workers[w].msg, cmd |-> c]]
      BY <1>8 DEF parseloaded, Become
    <2>2. [stage |-> "read", msg |-> workers[w].msg, cmd |-> c].stage # "no user"
      OBVIOUS
    <2> QED BY <1>1, <2>1, <2>2, UserGoes
  <1>9. CASE dealUFinished(w)
    <2>1. workers' = [workers EXCEPT ![w] = Handling("arrived", workers[w].msg)]
      BY <1>9 DEF dealUFinished, Become
    <2>2. Handling("arrived", workers[w].msg).stage # "no user"  BY DEF Handling
    <2> QED BY <1>1, <2>1, <2>2, UserGoes
  <1>10. CASE (SendTruck(w) \/ TruckDelivering(w) \/ handleDelivery(w) \/ ReportArrival(w)) /\ ~Crash
    <2>1. PICK c : workers' = [workers EXCEPT ![w] = Sending(c)]
      BY <1>10 DEF SendTruck, TruckDelivering, handleDelivery, ReportArrival, Issue, Become
    <2>2. Sending(c).stage # "no user"  BY DEF Sending
    <2> QED BY <1>1, <2>1, <2>2, UserGoes
  <1> QED BY <1>2, <1>3, <1>4, <1>5, <1>6, <1>7, <1>8, <1>9, <1>10 DEF Handler

LEMMA UserFreeStep ==
  ASSUME UPSInv, BegunInv, PickupInv, UserFree, AccountsApart, [Next]_vars
  PROVE  UserFree'
  <1>1. CASE Aside
    <2>1. \A w \in Workers : workers'[w].stage = "no user" => workers'[w] = workers[w]
      BY <1>1 DEF Aside, Begun, HandlerStages
    <2> QED BY <1>1, <2>1 DEF Aside, UserFree
  <1>2. ASSUME NEW w \in Workers, Begins(w) PROVE UserFree'
    <2>1. /\ \A v \in Workers : v # w => workers'[v] = workers[v]
          /\ workers'[w].stage = "started" /\ UNCHANGED user_users
      BY <1>2, InsertNumberGoes DEF Begins
    <2> QED BY <2>1 DEF UserFree
  <1>3. ASSUME NEW w \in Workers, Handles(w) PROVE UserFree'
    BY <1>3, UserStepFree, HandlerUsers DEF Handles
  <1> QED BY <1>1, <1>2, <1>3, StepKinds

LEMMA ArrivalRow ==
  ASSUME UPSInv, PickupInv, ArrivedInv, NEW r \in Arrivals
  PROVE  /\ r \in Requests /\ r.item \in Packages
         /\ user_packages[r.item] \in Row /\ user_packages[r.item] # NoPackage
         /\ user_packages[r.item].truck = r.truck
  <1>1. r \in Requests  BY DEF Arrivals, Requests
  <1>2. r.item \in Packages  BY <1>1, RequestTypes DEF UPSInv
  <1>3. PICK c \in world_seen : c.kind = "pickup" /\ c.item = r.item /\ c.truck = r.truck
    BY DEF ArrivedInv
  <1>4. c \in issued  BY DEF UPSInv, PeerInv, ForWorld
  <1>5. OnItsTruck(c)  BY <1>3, <1>4 DEF PickupInv
  <1> QED BY <1>1, <1>2, <1>3, <1>5 DEF OnItsTruck, UPSInv, TableInv

\* No handler takes a status back to "created".
StatusKept ==
  \A p \in Packages : user_packages[p] # NoPackage /\ user_packages[p].status # "created" =>
    user_packages'[p].status # "created"

LEMMA HandlerStatus ==
  ASSUME UPSInv, NEW w \in Workers, Handler(w)
  PROVE  StatusKept
  <1>0. PICK p : p = workers[w].msg.item  OBVIOUS
  <1>1. CASE UNCHANGED user_packages  BY <1>1 DEF StatusKept
  <1>2. CASE pick_truck(w) /\ ~UNCHANGED user_packages
    <2>1. PICK t : user_packages' = [user_packages EXCEPT ![p].truck = t]
      BY <1>0, <1>2 DEF pick_truck
    <2>2. \A q \in Packages : user_packages'[q] =
            IF q = p THEN [user_packages[p] EXCEPT !.truck = t] ELSE user_packages[q]
      BY <2>1 DEF UPSInv, TableInv
    <2>3. \A q \in Packages : user_packages[q] # NoPackage => user_packages[q] \in Row
      BY DEF UPSInv, TableInv
    <2> QED BY <2>2, <2>3 DEF StatusKept, Row
  <1>3. CASE InsertPackage(w) /\ ~Crash
    <2>1. user_packages[p] = NoPackage /\ \E row : user_packages' = [user_packages EXCEPT ![p] = row]
      BY <1>0, <1>3 DEF InsertPackage
    <2>2. \A q \in Packages : q # p => user_packages'[q] = user_packages[q]
      BY <2>1 DEF UPSInv, TableInv
    <2> QED BY <2>1, <2>2 DEF StatusKept
  <1>4. CASE OutForDelivery(w)
    <2>1. workers[w].stage = "read" /\
          user_packages' = [user_packages EXCEPT ![p].status = "out for delivery"]
      BY <1>0, <1>4 DEF OutForDelivery, In
    <2>2. p \in Packages /\ user_packages[p] # NoPackage
      BY <1>0, <2>1 DEF UPSInv, LoadingInv
    <2>3. /\ user_packages'[p].status = "out for delivery"
          /\ \A q \in Packages : q # p => user_packages'[q] = user_packages[q]
      BY <2>1, <2>2, StatusOnly DEF UPSInv, PackageStatuses
    <2> QED BY <2>3 DEF StatusKept
  <1>5. CASE handleDelivery(w) /\ ~Crash
    <2>1. /\ workers[w].stage = "started" /\ user_packages[p] # NoPackage
          /\ user_packages' = [user_packages EXCEPT ![p].status = "delivered"]
      BY <1>0, <1>5 DEF handleDelivery, In
    <2>2. p \in Packages  BY <1>0, <2>1, AtStage, RequestTypes DEF UPSInv, Handlers
    <2>3. /\ user_packages'[p].status = "delivered"
          /\ \A q \in Packages : q # p => user_packages'[q] = user_packages[q]
      BY <2>1, <2>2, StatusOnly DEF UPSInv, PackageStatuses
    <2> QED BY <2>3 DEF StatusKept
  <1>6. CASE dealUFinished(w)  BY <1>6, ArrivalRows DEF StatusKept
  <1>7. CASE CommandAcked(w) \/ CountUser(w) \/ InsertUser(w) \/ SendTruck(w) \/ parseloaded(w)
             \/ TruckDelivering(w) \/ ReportArrival(w) \/ handleIdle(w) \/ Crash
    <2>1. UNCHANGED user_packages
      BY <1>7 DEF CommandAcked, CountUser, InsertUser, SendTruck, parseloaded, TruckDelivering,
                  ReportArrival, handleIdle, Crash, tables
    <2> QED BY <1>1, <2>1
  <1> QED BY <1>1, <1>2, <1>3, <1>4, <1>5, <1>6, <1>7 DEF Handler

\* The handler of arrival r leaves its first stage with dealUFinished.
LEMMA LeavesFirst ==
  ASSUME UPSInv, FlowInv, FewFaults', BegunInv, [Next]_vars, NEW r \in Arrivals, ~Past(r), Past(r)'
  PROVE  \E w \in Workers : dealUFinished(w) /\ workers[w].msg = r
  <1>1. r \in Requests /\ r.kind = "arrived"  BY DEF Arrivals, Requests
  <1>2. ASSUME NEW w \in Workers, Begins(w) PROVE workers[w].msg # r
    <2>1. workers'[w].stage = "started" /\ workers'[w].msg = workers[w].msg
      BY <1>2, InsertNumberGoes DEF Begins
    <2> QED BY <2>1 DEF Past
  <1>3. ~Pending(r)
    <2> SUFFICES ASSUME Pending(r) PROVE FALSE
      OBVIOUS
    <2>1. PICK w \in Workers : InsertNumber(w) /\ workers[w].msg = r
      BY <1>1, FlowStep DEF Progress, Past
    <2>2. workers'[w].stage = "started" /\ workers'[w].msg = r  BY <2>1, InsertNumberGoes
    <2> QED BY <2>2 DEF Past
  <1>4. PICK w \in Workers : workers[w].stage = "started" /\ workers[w].msg = r
    BY <1>3 DEF Past
  <1>5. workers'[w] # workers[w]  BY <1>4 DEF Past
  <1>6. ~Aside  BY <1>4, <1>5 DEF Aside, Begun, HandlerStages
  <1>7. ASSUME NEW v \in Workers, Begins(v) PROVE FALSE
    <2>1. workers[v].stage = "new" /\ \A u \in Workers : u # v => workers'[u] = workers[u]
      BY <1>7, InsertNumberGoes DEF Begins
    <2> QED BY <1>4, <1>5, <2>1
  <1>8. PICK v \in Workers : Handler(v)  BY <1>6, <1>7, StepKinds DEF Handles
  <1>9. ~Crash  BY <1>5 DEF Crash
  <1>10. v = w
    <2>1. PICK state : workers' = [workers EXCEPT ![v] = state]  BY <1>8, <1>9, HandlerGoes
    <2> QED BY <1>5, <2>1 DEF UPSInv, WorkerInv
  <1>11. dealUFinished(w)
    BY <1>1, <1>4, <1>8, <1>10
       DEF Handler, CommandAcked, pick_truck, CountUser, InsertUser, InsertPackage, SendTruck,
           parseloaded, OutForDelivery, TruckDelivering, handleDelivery, ReportArrival,
           handleIdle, In
  <1> QED BY <1>4, <1>11

LEMMA DealtStep ==
  ASSUME UPSInv, FlowInv, FewFaults', BegunInv, PickupInv, ArrivedInv, Dealt, [Next]_vars
  PROVE  Dealt'
  <1> SUFFICES ASSUME NEW r \in Arrivals', Past(r)' PROVE user_packages'[r.item].status # "created"
    BY DEF Dealt
  <1>1. r \in Arrivals
    <2>1. r \in Requests' /\ r.kind = "arrived"  BY DEF Arrivals, Requests
    <2>2. r \in Requests  BY <2>1, FlowStep DEF NewPending, Past
    <2> QED BY <2>1, <2>2, RequestTypes DEF UPSInv, Arrivals
  <1>2. /\ r \in Requests /\ r.item \in Packages
        /\ user_packages[r.item] # NoPackage /\ user_packages[r.item].truck = r.truck
    BY <1>1, ArrivalRow
  <1>3. CASE Past(r)
    <2>1. user_packages[r.item].status # "created"  BY <1>1, <1>3 DEF Dealt
    <2>2. StatusKept
      <3>1. CASE UNCHANGED user_packages  BY <3>1 DEF StatusKept
      <3>2. CASE Aside  BY <3>1, <3>2 DEF Aside
      <3>3. ASSUME NEW w \in Workers, Begins(w) PROVE StatusKept
        BY <3>1, <3>3, InsertNumberGoes DEF Begins
      <3>4. ASSUME NEW w \in Workers, Handles(w) PROVE StatusKept
        BY <3>4, HandlerStatus DEF Handles
      <3> QED BY <3>2, <3>3, <3>4, StepKinds
    <2> QED BY <1>2, <2>1, <2>2 DEF StatusKept
  <1>4. CASE ~Past(r)
    <2>1. PICK w \in Workers : dealUFinished(w) /\ workers[w].msg = r
      BY <1>1, <1>4, LeavesFirst
    <2> QED BY <1>2, <2>1, ArrivalRows
  <1> QED BY <1>3, <1>4

-----------------------------------------------------------------------------
(* No handler ends the server *)

\* A map of a finite set to itself that misses an element is not one to one.
LEMMA MissesNone ==
  ASSUME NEW S, IsFiniteSet(S), NEW x \in S, NEW g \in [S -> S \ {x}]
  PROVE  \E q, r \in S : q # r /\ g[q] = g[r]
  <1>1. /\ IsFiniteSet(S \ {x}) /\ Cardinality(S \ {x}) = Cardinality(S) - 1
        /\ Cardinality(S) \in Nat
    BY FS_RemoveElement, FS_CardinalityType
  <1>2. Cardinality(S \ {x}) < Cardinality(S)  BY <1>1
  <1> QED BY <1>1, <1>2, FS_PigeonHole

\* The package of an arrival whose handler left its first stage is on the truck until
\* it is reported.
LEMMA UnreportedWaits ==
  ASSUME UPSInv, PickupInv, ArrivedInv, Dealt, NEW r \in Arrivals, Past(r)
  PROVE  \/ r.item \in OnTruck(r.truck, "picked up")
         \/ \E c \in Reports : c.item = r.item /\ c.truck = r.truck
  <1>1. PICK p : p = r.item  OBVIOUS
  <1>2. /\ p \in Packages /\ user_packages[p] # NoPackage
        /\ user_packages[p] \in Row /\ user_packages[p].truck = r.truck
    BY <1>1, ArrivalRow
  <1> SUFFICES ASSUME p \notin OnTruck(r.truck, "picked up")
               PROVE  \E c \in Reports : c.item = p /\ c.truck = r.truck
    BY <1>1
  <1>3. user_packages[p].status # "created"  BY <1>1 DEF Dealt
  <1>4. user_packages[p].status # "picked up"  BY <1>2 DEF OnTruck
  <1>5. user_packages[p].status \in {"out for delivery", "delivered"}
    BY <1>2, <1>3, <1>4 DEF Row, PackageStatuses
  <1>6. Reported(amazon_issued, "loaded", p)
    BY <1>2, <1>5 DEF UPSInv, StatusIsEarned, RowIsEarned
  <1>7. Reported(issued, "truckarrived", p)
    <2>1. PICK q \in amazon_issued : q.kind = "loaded" /\ q.item = p  BY <1>6 DEF Reported
    <2>2. Reported(issued, "truckarrived", q.item)  BY <2>1 DEF ArrivedInv
    <2> QED BY <2>1, <2>2
  <1>8. PICK c \in issued : c.kind = "truckarrived" /\ c.item = p  BY <1>7 DEF Reported
  <1>9. c.truck = r.truck  BY <1>2, <1>8 DEF PickupInv, OnItsTruck
  <1> QED BY <1>8, <1>9 DEF Reports

\* If the truck of an arrival had no package to report, every arrival of that truck
\* would have a loaded package, hence a report, hence an arrival that is over; that is
\* one arrival more than there are.
LEMMA ReportFinds ==
  ASSUME UPSInv, BegunInv, PickupInv, ArrivedInv, MatchedInv, Dealt,
         NEW w \in Workers, workers[w].stage = "arrived", workers[w].msg.kind = "arrived"
  PROVE  OnTruck(workers[w].msg.truck, "picked up") # {}
  <1>1. PICK m : m = workers[w].msg  OBVIOUS
  <1>2. PICK t : t = m.truck  OBVIOUS
  <1>3. Begun(w) /\ m \in Arrivals
    BY <1>1, AtStage, RequestTypes DEF UPSInv, Handlers, Begun, HandlerStages, Arrivals
  <1>4. Past(m) /\ ~Over(m)
    <2>1. ~Pending(m)  BY <1>1, <1>3 DEF BegunInv
    <2>2. \A v \in Workers : Begun(v) /\ workers[v].msg = m => v = w
      BY <1>1, <1>3 DEF BegunInv
    <2> QED BY <1>1, <1>3, <2>1, <2>2 DEF Past, Over, Begun, HandlerStages
  <1>5. PICK f : Matches(f)  BY DEF MatchedInv
  <1> DEFINE D == {r \in Arrivals : r.truck = t /\ Past(r)}
  <1>6. ASSUME OnTruck(t, "picked up") = {}
        PROVE  \A r \in D : \E c \in Reports : c.item = r.item /\ c.truck = t
    BY <1>6, UnreportedWaits
  <1>7. \A c \in Reports : c.truck = t => f[c] \in D \ {m}
    <2> SUFFICES ASSUME NEW c \in Reports, c.truck = t PROVE f[c] \in D \ {m}
      OBVIOUS
    <2>1. f[c] \in Arrivals /\ f[c].truck = t /\ Over(f[c])  BY <1>5 DEF Matches
    <2>2. Past(f[c]) /\ f[c] # m
      BY <1>4, <2>1 DEF Over, Past, Begun, HandlerStages
    <2> QED BY <2>1, <2>2
  <1>8. IsFiniteSet(D) /\ m \in D
    BY <1>2, <1>3, <1>4, FS_Subset DEF ArrivedInv, Arrivals
  <1>9. \A q, r \in D : q.item = r.item => q = r  BY DEF ArrivedInv
  <1> HIDE DEF D
  <1>10. ASSUME \A r \in D : \E c \in Reports : c.item = r.item /\ c.truck = t
         PROVE  FALSE
    <2> DEFINE report(r) == CHOOSE c \in Reports : c.item = r.item /\ c.truck = t
    <2>1. \A r \in D : report(r) \in Reports /\ report(r).item = r.item /\ report(r).truck = t
      BY <1>10
    <2> HIDE DEF report
    <2>2. PICK g : g = [r \in D |-> f[report(r)]]  OBVIOUS
    <2>3. g \in [D -> D \ {m}]  BY <1>7, <2>1, <2>2
    <2>4. \E q, r \in D : q # r /\ g[q] = g[r]  BY <1>8, <2>3, MissesNone
    <2>5. PICK q \in D, r \in D : q # r /\ g[q] = g[r]  BY <2>4
    <2>6. report(q) = report(r)  BY <1>5, <2>1, <2>2, <2>5 DEF Matches
    <2> QED BY <1>9, <2>1, <2>5, <2>6
  <1> QED BY <1>1, <1>2, <1>6, <1>10

RunInv ==
  /\ ContractInv /\ FlowInv /\ BegunInv /\ PickupInv /\ ArrivedInv /\ MatchedInv

LEMMA InitRun == Init => RunInv /\ Dealt /\ UserFree
  <1> SUFFICES ASSUME Init PROVE ArrivedInv /\ MatchedInv /\ Dealt /\ UserFree
    BY InitContract, InitFlow, InitPickup DEF RunInv
  <1>1. \A w \in Workers : workers[w].stage = "idle"  BY DEF Init, InitServer, Idle
  <1>2. world_issued = {} /\ amazon_issued = {} /\ issued = {} /\ user_users = Registered
    BY DEF Init, InitServer
  <1>3. Reports = {} /\ Arrivals = {}  BY <1>2 DEF Reports, Arrivals
  <1>4. PICK f : f = [c \in {} |-> {}]  OBVIOUS
  <1>5. Matches(f)  BY <1>3, <1>4 DEF Matches
  <1>6. IsFiniteSet(world_issued)  BY <1>2, FS_EmptySet
  <1> QED BY <1>1, <1>2, <1>3, <1>5, <1>6 DEF ArrivedInv, MatchedInv, Dealt, UserFree

LEMMA RunStep == ASSUME FewFaults', RunInv, [Next]_vars PROVE RunInv'
  <1>0. UPSInv  BY DEF RunInv, ContractInv
  <1>1. ContractInv'  BY <1>0, UPSStep, ContractStep DEF RunInv, ContractInv
  <1>2. FlowInv'  BY <1>0, FlowStep DEF RunInv
  <1>3. BegunInv'  BY <1>0, BegunStep DEF RunInv
  <1>4. PickupInv'  BY PickupStep DEF RunInv
  <1>5. ArrivedInv'
    <2>1. issued \subseteq issued'
      <3>1. Effect  BY <1>0, StepEffect
      <3> QED BY <3>1 DEF Effect, SayEffect
    <2> QED BY <1>0, <2>1, PeersSay, ArrivedStep DEF RunInv
  <1>6. MatchedInv'  BY <1>0, MatchedStep DEF RunInv
  <1> QED BY <1>1, <1>2, <1>3, <1>4, <1>5, <1>6 DEF RunInv

\* A row that a request of a peer is about is there.
LEMMA RowFound ==
  ASSUME RunInv, NEW w \in Workers, workers[w].stage = "started",
         workers[w].msg.kind \in {"loaded", "delivered"}
  PROVE  user_packages[workers[w].msg.item] # NoPackage
  <1>0. UPSInv  BY DEF RunInv, ContractInv
  <1>1. PICK m : m = workers[w].msg  OBVIOUS
  <1>2. m \in Requests  BY <1>0, <1>1, AtStage DEF UPSInv, Handlers
  <1>3. CASE m.kind = "loaded"
    <2>1. m \in amazon_issued  BY <1>0, <1>2, <1>3, RequestTypes DEF UPSInv
    <2>2. Reported(issued, "truckarrived", m.item)  BY <1>3, <2>1 DEF RunInv, ArrivedInv
    <2> QED BY <1>1, <2>2 DEF Reported, RunInv, PickupInv, OnItsTruck
  <1>4. CASE m.kind = "delivered"
    <2>1. m \in world_issued  BY <1>0, <1>2, <1>4, RequestTypes DEF UPSInv
    <2>2. Reported(issued, "deliver", m.item)  BY <1>0, <1>4, <2>1 DEF UPSInv, CommandsEarned
    <2> QED BY <1>1, <2>2 DEF Reported, RunInv, PickupInv, OnItsTruck
  <1> QED BY <1>1, <1>3, <1>4

LEMMA Survives ==
  ASSUME FewFaults', AccountsApart, RunInv, Dealt, UserFree, ~crashed, [Next]_vars
  PROVE  ~crashed'
  <1>0. UPSInv  BY DEF RunInv, ContractInv
  <1>1. CASE Aside  BY <1>1 DEF Aside
  <1>2. ASSUME NEW w \in Workers, Begins(w) PROVE ~crashed'
    BY <1>0, <1>2, InsertNumberGoes DEF Begins
  <1>3. ASSUME NEW w \in Workers, Handles(w) PROVE ~crashed'
    <2>0. Handler(w) /\ UNCHANGED amazon_issued  BY <1>3 DEF Handles, amazonVars
    <2>1. CASE CommandAcked(w) \/ pick_truck(w) \/ CountUser(w) \/ SendTruck(w)
               \/ OutForDelivery(w) \/ TruckDelivering(w) \/ dealUFinished(w) \/ handleIdle(w)
      BY <2>1 DEF CommandAcked, pick_truck, CountUser, SendTruck, OutForDelivery,
                  TruckDelivering, dealUFinished, handleIdle
    <2>2. CASE InsertUser(w)
      <3>1. ~Crash  BY <1>0, <2>2, UserStepFree DEF RunInv
      <3> QED BY <2>2, <3>1 DEF InsertUser
    <2>3. CASE InsertPackage(w)
      <3>1. StaysHandled  BY <1>0, FlowStep DEF RunInv, Progress, StaysHandled
      <3>2. ~Crash  BY <2>0, <2>3, <3>1, InsertPackagePickup DEF RunInv
      <3> QED BY <2>3, <3>2 DEF InsertPackage
    <2>4. CASE parseloaded(w)
      <3>1. workers[w].stage = "started" /\ workers[w].msg.kind = "loaded"
        BY <2>4 DEF parseloaded, In
      <3>2. user_packages[workers[w].msg.item] # NoPackage  BY <3>1, RowFound
      <3> QED BY <2>4, <3>2 DEF parseloaded
    <2>5. CASE handleDelivery(w)
      <3>1. workers[w].stage = "started" /\ workers[w].msg.kind = "delivered"
        BY <2>5 DEF handleDelivery, In
      <3>2. user_packages[workers[w].msg.item] # NoPackage  BY <3>1, RowFound
      <3> QED BY <2>5, <3>2 DEF handleDelivery
    <2>6. CASE ReportArrival(w)
      <3>1. workers[w].stage = "arrived" /\ workers[w].msg.kind = "arrived"
        BY <2>6 DEF ReportArrival, In
      <3>2. OnTruck(workers[w].msg.truck, "picked up") # {}
        BY <1>0, <3>1, ReportFinds DEF RunInv
      <3> QED BY <2>6, <3>2 DEF ReportArrival
    <2> QED BY <2>0, <2>1, <2>2, <2>3, <2>4, <2>5, <2>6 DEF Handler
  <1> QED BY <1>0, <1>1, <1>2, <1>3, StepKinds

LEMMA SafeStep ==
  ASSUME AccountsApart, FewFaults', RunInv, Dealt, UserFree, NoCrash, [Next]_vars
  PROVE  (RunInv /\ Dealt /\ UserFree /\ NoCrash)'
  <1>0. UPSInv  BY DEF RunInv, ContractInv
  <1>1. RunInv'  BY RunStep
  <1>2. Dealt'  BY <1>0, DealtStep DEF RunInv
  <1>3. UserFree'  BY <1>0, UserFreeStep DEF RunInv
  <1>4. NoCrash'  BY Survives DEF NoCrash
  <1> QED BY <1>1, <1>2, <1>3, <1>4

\* As long as one message or set entry at most is lost and nothing is repeated without
\* need, and if no two packages wait for one new account, no handler of the UPS server
\* throws: a request is handled once, so a row is inserted once, and every arrived truck
\* finds a package to report.
THEOREM UPSSurvives ==
  ASSUME AccountsApart
  PROVE  Spec => [](FewFaults => NoCrash)
  <1> DEFINE Safe == RunInv /\ Dealt /\ UserFree /\ NoCrash
             Inv == Counted /\ (FewFaults => Safe)
  <1>1. Init => Inv
    <2>1. Init => NoCrash /\ Counted  BY DEF Init, InitServer, NoCrash, Counted
    <2> QED BY <2>1, InitRun
  <1>2. Inv /\ [Next]_vars => Inv'  BY FewBefore, SafeStep
  <1>3. Inv => (FewFaults => NoCrash)  OBVIOUS
  <1> QED BY <1>1, <1>2, <1>3, PTL DEF Spec

-----------------------------------------------------------------------------
(* Answers: a message leads to one command *)

\* The handler of m has given out its command, or will not give one out.
Done(m) == IF m.kind = "loaded" THEN Past(m) ELSE Over(m)

AnsweredInv ==
  /\ \A a \in answered : a[1] \in Requests /\ Done(a[1])
  /\ HandledOnce

\* With its command a handler leaves its first stage, or ends.
LEMMA AnswerEnds ==
  ASSUME UPSInv, FlowInv, FewFaults', BegunInv, [Next]_vars, NEW w \in Workers, Answering(w)
  PROVE  workers[w].msg \in Requests /\ \A m : m = workers[w].msg => ~Done(m) /\ Done(m)'
  <1>1. PICK m : m = workers[w].msg  OBVIOUS
  <1>2. m \in Requests /\ Begun(w)
    BY <1>1, AtStage DEF Answering, UPSInv, Handlers, Pickups, Begun, HandlerStages
  <1>3. ~Pending(m) /\ ~Pending(m)'
    <2>1. ~Pending(m)  BY <1>1, <1>2 DEF BegunInv
    <2> QED BY <1>2, <2>1, FlowStep DEF Progress
  <1>4. PICK state : /\ workers' = [workers EXCEPT ![w] = state]
                     /\ state.stage = IF m.kind = "loaded" THEN "read" ELSE "sending"
    BY <1>1 DEF Answering
  <1>5. \A v \in Workers : workers'[v] = IF v = w THEN state ELSE workers[v]
    BY <1>4 DEF UPSInv, WorkerInv
  <1>6. \A v \in Workers : Begun(v) /\ workers[v].msg = m => v = w
    BY <1>1, <1>2 DEF BegunInv
  <1>7. CASE m.kind = "loaded"
    <2>1. ~Past(m)  BY <1>1, <1>7 DEF Answering, Past
    <2>2. ASSUME NEW v \in Workers, workers'[v].stage = "started", workers'[v].msg = m
          PROVE  FALSE
      <3>1. v # w /\ workers'[v] = workers[v]  BY <1>4, <1>5, <1>7, <2>2
      <3>2. Begun(v)  BY <2>2, <3>1 DEF Begun, HandlerStages
      <3> QED BY <1>6, <2>2, <3>1, <3>2
    <2>3. Past(m)'  BY <1>3, <2>2 DEF Past
    <2> QED BY <1>1, <1>2, <1>7, <2>1, <2>3 DEF Done
  <1>8. CASE m.kind # "loaded"
    <2>1. ~Over(m)  BY <1>1, <1>2 DEF Over
    <2>2. ASSUME NEW v \in Workers, Begun(v)', workers'[v].msg = m PROVE FALSE
      <3>1. v # w /\ workers'[v] = workers[v]
        BY <1>4, <1>5, <1>8, <2>2 DEF Begun, HandlerStages
      <3>2. Begun(v)  BY <2>2, <3>1 DEF Begun
      <3> QED BY <1>6, <2>2, <3>1, <3>2
    <2>3. Over(m)'  BY <1>3, <2>2 DEF Over
    <2> QED BY <1>1, <1>2, <1>8, <2>1, <2>3 DEF Done
  <1> QED BY <1>7, <1>8

LEMMA AnsweredStep ==
  ASSUME FewFaults', RunInv, AnsweredInv, [Next]_vars
  PROVE  AnsweredInv'
  <1>0. UPSInv  BY DEF RunInv, ContractInv
  <1>1. Requests \subseteq Requests'
    BY <1>0, PeersSay DEF WorldSays, AmazonSays, Requests
  <1>2. \A r \in Requests : Done(r) => Done(r)'  BY <1>0, PastStays DEF RunInv, Done
  <1>3. CASE UNCHANGED <<issued, answered>>
    BY <1>1, <1>2, <1>3 DEF AnsweredInv, HandledOnce
  <1>4. ASSUME NEW w \in Workers, Answering(w) PROVE AnsweredInv'
    <2>1. PICK m : m = workers[w].msg  OBVIOUS
    <2>2. m \in Requests /\ ~Done(m) /\ Done(m)'
      BY <1>0, <1>4, <2>1, AnswerEnds DEF RunInv
    <2>3. PICK c : answered' = answered \cup {<<m, c>>}  BY <1>4, <2>1 DEF Answering
    <2>4. \A a \in answered : a[1] # m  BY <2>2 DEF AnsweredInv
    <2>5. \A a \in answered' : a[1] \in Requests' /\ Done(a[1])'
      <3> SUFFICES ASSUME NEW a \in answered' PROVE a[1] \in Requests' /\ Done(a[1])'
        OBVIOUS
      <3>1. CASE a \in answered  BY <1>1, <1>2, <3>1 DEF AnsweredInv
      <3>2. CASE a = <<m, c>>
        <4>1. a[1] = m  BY <3>2
        <4> QED BY <1>1, <2>2, <4>1
      <3> QED BY <2>3, <3>1, <3>2
    <2>6. HandledOnce'
      BY <2>3, <2>4 DEF AnsweredInv, HandledOnce
    <2> QED BY <2>5, <2>6 DEF AnsweredInv
  <1> QED BY <1>3, <1>4, AnswerEffect

LEMMA OnceRun == Spec => [](FewFaults => RunInv /\ AnsweredInv)
  <1> DEFINE Inv == Counted /\ (FewFaults => RunInv /\ AnsweredInv)
  <1>1. Init => Inv
    <2>1. Init => AnsweredInv /\ Counted
      BY DEF Init, InitServer, AnsweredInv, HandledOnce, Counted
    <2> QED BY <2>1, InitRun
  <1>2. Inv /\ [Next]_vars => Inv'  BY FewBefore, RunStep, AnsweredStep
  <1>3. Inv => (FewFaults => RunInv /\ AnsweredInv)  OBVIOUS
  <1> QED BY <1>1, <1>2, <1>3, PTL DEF Spec

\* As long as there is one fault at most (a lost message or set entry, or a second
\* "loaded" under a new number) and nothing is repeated without need: no message of a
\* peer leads to two commands, however many workers there are and however late they are.
\* UPSHandlesOnceApart says what it takes when messages are repeated.
THEOREM UPSHandlesOnce == Spec => [](FewFaults => HandledOnce)
  <1>1. AnsweredInv => HandledOnce  BY DEF AnsweredInv
  <1> QED BY <1>1, OnceRun, PTL

\* Every report of a truck has an arrival of that truck of its own.
ReportsMatched ==
  \E f \in [Reports -> Arrivals] :
    \A c, d \in Reports : f[c].truck = c.truck /\ (f[c] = f[d] => c = d)

\* Under the same condition Amazon hears of a truck no oftener than the truck arrived,
\* and never before, whichever packages dealUFinished and ReportArrival choose.  That it
\* came for the package that is named does not follow (UPSArrival).
THEOREM UPSReportsArrivals == Spec => [](FewFaults => ReportsMatched)
  <1>1. RunInv => ReportsMatched  BY DEF RunInv, MatchedInv, Matches, ReportsMatched
  <1> QED BY <1>1, OnceRun, PTL

-----------------------------------------------------------------------------
(* Trucks that fetch one package at a time *)

\* No two packages are on one truck before they are loaded.
OnePickedUp ==
  \A t \in Trucks : \A p, q \in OnTruck(t, "picked up") : p = q

\* A report names the package that the truck came for, and no other report does.
NamedInv ==
  /\ \A c \in Reports : \E r \in Arrivals : r.item = c.item /\ r.truck = c.truck /\ Over(r)
  /\ \A c, d \in Reports : c.item = d.item => c = d

LEMMA NamedStep ==
  ASSUME FewFaults', RunInv, Dealt, NamedInv, OnePickedUp, [Next]_vars
  PROVE  NamedInv'
  <1>0. UPSInv  BY DEF RunInv, ContractInv
  <1>1. WorldSays  BY <1>0, PeersSay
  <1>2. Arrivals \subseteq Arrivals'  BY <1>0, <1>1, NewAnswers DEF Arrivals
  <1>3. \A r \in Arrivals : Over(r) => Over(r)'
    BY <1>0, PastStays DEF Arrivals, Requests, RunInv
  <1>4. CASE UNCHANGED Reports  BY <1>2, <1>3, <1>4 DEF NamedInv
  <1>5. CASE UNCHANGED issued  BY <1>4, <1>5 DEF Reports
  <1>6. CASE Aside  BY <1>5, <1>6 DEF Aside
  <1>7. ASSUME NEW w \in Workers, Begins(w) PROVE NamedInv'
    BY <1>0, <1>5, <1>7, InsertNumberGoes DEF Begins
  <1>8. ASSUME NEW w \in Workers, ReportArrival(w), ~Crash PROVE NamedInv'
    <2>1. PICK m \in Arrivals, p \in Packages, c \in issued' :
            /\ Past(m) /\ ~Over(m) /\ Over(m)'
            /\ p \in OnTruck(m.truck, "picked up") /\ c.item = p /\ c.truck = m.truck
            /\ Reports' = Reports \cup {c} /\ c \notin Reports
      BY <1>0, <1>8, ReportEnds DEF RunInv
    <2>2. \A d \in Reports : d.item # m.item
      <3>1. \A d \in Reports : \E r \in Arrivals : r.item = d.item /\ Over(r)  BY DEF NamedInv
      <3>2. ~Over(m)  BY <2>1
      <3> QED BY <3>1, <3>2 DEF RunInv, ArrivedInv
    <2>3. m.item \in OnTruck(m.truck, "picked up")
      BY <1>0, <2>1, <2>2, UnreportedWaits DEF RunInv
    <2>4. m.truck \in Trucks  BY <1>0, ArrivalRow DEF RunInv, Row
    <2>5. p = m.item  BY <2>1, <2>3, <2>4 DEF OnePickedUp
    <2>6. \A d \in Reports' : \E r \in Arrivals' : r.item = d.item /\ r.truck = d.truck /\ Over(r)'
      BY <1>2, <1>3, <2>1, <2>5 DEF NamedInv
    <2>7. \A d, e \in Reports' : d.item = e.item => d = e
      BY <2>1, <2>2, <2>5 DEF NamedInv
    <2> QED BY <2>6, <2>7 DEF NamedInv
  <1>9. ASSUME NEW w \in Workers, Handles(w) PROVE NamedInv'
    <2>1. Handler(w)  BY <1>9 DEF Handles
    <2>2. CASE Crash  BY <1>5, <2>2 DEF Crash, numbers
    <2>3. CASE ~ReportArrival(w)  BY <1>4, <2>1, <2>3, HandlerReports
    <2> QED BY <1>8, <2>2, <2>3
  <1> QED BY <1>0, <1>6, <1>7, <1>9, StepKinds

\* One truck is sent for a package, and Amazon hears once that it is there.
FetchedOnce ==
  \A c, d \in issued :
    c.kind \in {"pickup", "truckarrived"} /\ c.kind = d.kind /\ c.item = d.item => c = d

\* Under the same condition on the faults, as long as no two packages wait on one truck:
\* one truck is sent for a package, and Amazon hears once that it is there, when it came
\* for that package.  Otherwise ReportArrival may name any package that is picked up on
\* the truck.  Deliveries are not bounded like this: UPS sends a package out again when
\* Amazon says "loaded" again.
THEOREM UPSFetchesOnce ==
  Spec /\ []OnePickedUp => [](FewFaults => FetchedOnce /\ ReportedTruckCame)
  <1> DEFINE Good == RunInv /\ Dealt /\ NamedInv
             Inv == Counted /\ (FewFaults => Good)
  <1>1. Init => Inv
    <2> SUFFICES ASSUME Init PROVE NamedInv /\ Counted
      BY InitRun
    <2>1. issued = {}  BY DEF Init, InitServer
    <2> QED BY <2>1 DEF NamedInv, Reports, Init, InitServer, Counted
  <1>2. ASSUME FewFaults', Good, OnePickedUp, [Next]_vars PROVE Good'
    <2>1. UPSInv  BY <1>2 DEF RunInv, ContractInv
    <2>2. RunInv'  BY <1>2, RunStep
    <2>3. Dealt'  BY <1>2, <2>1, DealtStep DEF RunInv
    <2>4. NamedInv'  BY <1>2, NamedStep
    <2> QED BY <2>2, <2>3, <2>4
  <1>3. Inv /\ OnePickedUp /\ [Next]_vars => Inv'  BY <1>2, FewBefore
  <1>4. ASSUME Good PROVE FetchedOnce /\ ReportedTruckCame
    <2>1. ASSUME NEW c \in issued, NEW d \in issued, c.kind \in {"pickup", "truckarrived"},
                 c.kind = d.kind, c.item = d.item
          PROVE  c = d
      <3>1. CASE c.kind = "truckarrived"  BY <1>4, <2>1, <3>1 DEF Reports, NamedInv
      <3>2. CASE c.kind = "pickup"  BY <1>4, <2>1, <3>2 DEF RunInv, PickupInv
      <3> QED BY <2>1, <3>1, <3>2
    <2>2. FetchedOnce  BY <2>1 DEF FetchedOnce
    <2>3. ReportedTruckCame
      BY <1>4 DEF NamedInv, Reports, Arrivals, ReportedTruckCame
    <2> QED BY <2>2, <2>3
  <1>5. Inv => (FewFaults => FetchedOnce /\ ReportedTruckCame)  BY <1>4
  <1> QED BY <1>1, <1>3, <1>5, PTL DEF Spec

-----------------------------------------------------------------------------
(* Any number of losses and repetitions *)

\* No two workers are between the test and the insertion of the number of one message.
TestedApart ==
  \A v, w \in Workers :
    workers[v].stage = "new" /\ workers[w].stage = "new" /\ workers[v].msg = workers[w].msg
      => v = w

\* The number that a worker has just inserted is in its set.
EntriesKept ==
  \A w \in Workers : workers[w].stage = "started" => AlreadySeen(workers[w].msg)

\* A message is tested, handled and answered in this order, and its number is known
\* after the test; only the handler of a "loaded" goes on after it gave out its command.
ApartInv ==
  /\ UPSInv
  /\ \A w \in Workers : Begun(w) => AlreadySeen(workers[w].msg)
  /\ \A a \in answered : AlreadySeen(a[1])
  /\ \A w \in Workers : workers[w].stage = "new" =>
       /\ \A v \in Workers : Begun(v) => workers[v].msg # workers[w].msg
       /\ \A a \in answered : a[1] # workers[w].msg
  /\ \A v, w \in Workers : Begun(v) /\ Begun(w) /\ workers[v].msg = workers[w].msg => v = w
  /\ \A a \in answered : \A w \in Workers :
       Begun(w) /\ workers[w].msg = a[1] => a[1].kind = "loaded" /\ workers[w].stage # "started"
  /\ HandledOnce

\* The worker finds that the number of its message is new; nobody else moves.
Tests(w) ==
  /\ ~AlreadySeen(workers[w].msg) /\ workers'[w].msg = workers[w].msg
  /\ workers[w].stage = "acknowledged" /\ workers'[w].stage = "new"
  /\ \A v \in Workers : v # w => workers'[v] = workers[v]
  /\ UNCHANGED answered

LEMMA TestStep ==
  ASSUME UPSInv, [Next]_vars
  PROVE  /\ recvs \subseteq recvs' /\ recvs_amazon \subseteq recvs_amazon'
         /\ \A w \in Workers : workers'[w].stage = "new" =>
              workers'[w] = workers[w] \/ Tests(w)
  <1> DEFINE Goal == /\ recvs \subseteq recvs' /\ recvs_amazon \subseteq recvs_amazon'
                     /\ \A w \in Workers : workers'[w].stage = "new" =>
                          workers'[w] = workers[w] \/ Tests(w)
  <1>1. ASSUME NEW w \in Workers, NEW state, workers' = [workers EXCEPT ![w] = state]
        PROVE  \A v \in Workers : workers'[v] = IF v = w THEN state ELSE workers[v]
    BY <1>1 DEF UPSInv, WorkerInv
  <1>2. CASE UNCHANGED <<workers, handled>>  BY <1>2 DEF handled
  <1>3. ASSUME NEW w \in Workers, FindNumber(w) PROVE Goal
    <2> DEFINE m == workers[w].msg
               state == IF AlreadySeen(m) THEN Idle ELSE Handling("new", m)
    <2>1. workers' = [workers EXCEPT ![w] = state] /\ UNCHANGED <<handled, answered>>
      BY <1>3 DEF FindNumber, Become, numbers
    <2>2. workers[w].stage = "acknowledged"  BY <1>3 DEF FindNumber
    <2>3. state.stage = "new" => ~AlreadySeen(m) /\ state.msg = m  BY DEF Idle, Handling
    <2> HIDE DEF state
    <2>4. \A v \in Workers : workers'[v] = IF v = w THEN state ELSE workers[v]  BY <1>1, <2>1
    <2> QED BY <2>1, <2>2, <2>3, <2>4 DEF Tests, handled
  <1>4. ASSUME NEW w \in Workers, InsertNumber(w) PROVE Goal
    <2>1. workers' = [workers EXCEPT ![w] = Handling("started", workers[w].msg)]
      BY <1>4 DEF InsertNumber, Become
    <2>2. Handling("started", workers[w].msg).stage # "new"  BY DEF Handling
    <2>3. recvs \subseteq recvs' /\ recvs_amazon \subseteq recvs_amazon'
      BY <1>4 DEF InsertNumber, Insert
    <2> QED BY <1>1, <2>1, <2>2, <2>3
  <1>5. ASSUME NEW w \in Workers, Handler(w) PROVE Goal
    <2>1. UNCHANGED handled  BY <1>5, HandlerKeeps
    <2>2. CASE Crash  BY <1>2, <2>1, <2>2 DEF Crash
    <2>3. ASSUME NEW state, GoesOn(w, state), workers' = [workers EXCEPT ![w] = state]
          PROVE  Goal
      <3>1. state.stage # "new"  BY <2>3 DEF GoesOn, HandlerStages
      <3> QED BY <1>1, <2>1, <2>3, <3>1 DEF handled
    <2> QED BY <1>5, <2>2, <2>3, HandlerGoes
  <1>6. ASSUME NEW w \in Workers, TakeTask(w) PROVE Goal
    <2>1. CASE TakeAck(w)  BY <1>2, <2>1 DEF TakeAck
    <2>2. CASE TakeRequest(w)
      <3>1. /\ workers' = [workers EXCEPT ![w] = Handling("acknowledged", Head(m_tasks))]
            /\ UNCHANGED handled
        BY <2>2 DEF TakeRequest, Become
      <3>2. Handling("acknowledged", Head(m_tasks)).stage # "new"  BY DEF Handling
      <3> QED BY <1>1, <3>1, <3>2 DEF handled
    <2> QED BY <1>6, <2>1, <2>2 DEF TakeTask
  <1>7. CASE PoolStep
    BY <1>3, <1>4, <1>5, <1>7 DEF PoolStep, Worker, Handler
  <1>8. CASE MainStep \/ CommandStep \/ PeerLoses \/ UNCHANGED vars
    BY <1>2, <1>8 DEF MainStep, MainThread, ReceiveFromWorld, ReceiveFromAmazon, CommandStep,
                      Send, SendCommand, PeerLoses, vars, serverVars
  <1>9. CASE WorldReads \/ WorldStep
    BY <1>2, <1>9 DEF WorldReads, WorldStep, WorldReadCommand, WorldReadAck, WorldSend, serverVars
  <1>10. CASE AmazonReads \/ AmazonStep \/ AmazonRepeats
    BY <1>2, <1>10 DEF AmazonReads, AmazonStep, AmazonRepeats, AmazonRequest, AmazonLoaded,
                       AmazonLoadedAgain, AmazonReadCommand, AmazonReadAck, AmazonSend, serverVars
  <1> QED BY <1>6, <1>7, <1>8, <1>9, <1>10 DEF Next, TakeStep

LEMMA ApartStep ==
  ASSUME ApartInv, TestedApart, EntriesKept', [Next]_vars
  PROVE  ApartInv'
  <1>0. UPSInv /\ UPSInv'  BY UPSStep DEF ApartInv
  <1>1. MessageKept  BY <1>0, StepKeepsMessages
  <1>2. \A r : AlreadySeen(r) => AlreadySeen(r)'  BY <1>0, TestStep DEF AlreadySeen
  <1>3. \A w \in Workers : workers'[w].stage = "new" => workers'[w] = workers[w] \/ Tests(w)
    BY <1>0, TestStep
  <1>4. \A w \in Workers : Begins(w) =>
          /\ workers[w].stage = "new" /\ workers'[w].stage = "started"
          /\ \A v \in Workers : v # w => workers'[v] = workers[v]
    BY <1>0, InsertNumberGoes DEF Begins
  <1>5. \A a \in answered' : \/ a \in answered
                             \/ \E w \in Workers : Answering(w) /\ a[1] = workers[w].msg
    <2> SUFFICES ASSUME NEW a \in answered', a \notin answered
                 PROVE  \E w \in Workers : Answering(w) /\ a[1] = workers[w].msg
      OBVIOUS
    <2>1. PICK w \in Workers : Answering(w)  BY AnswerEffect
    <2>2. PICK c : answered' = answered \cup {<<workers[w].msg, c>>}  BY <2>1 DEF Answering
    <2> QED BY <2>1, <2>2
  <1>6. \A w \in Workers : Answering(w) => Begun(w)
    BY DEF Answering, Begun, HandlerStages
  <1>7. ASSUME NEW w \in Workers, Begun(w)' PROVE AlreadySeen(workers[w].msg)'
    <2>0. PICK m : m = workers[w].msg  OBVIOUS
    <2>1. workers'[w].msg = m  BY <1>1, <1>7, <2>0 DEF MessageKept
    <2>2. CASE Begun(w)
      <3>1. AlreadySeen(m)'  BY <1>2, <2>0, <2>2 DEF ApartInv
      <3> QED BY <2>1, <3>1 DEF AlreadySeen
    <2>3. CASE Begins(w)  BY <1>4, <2>3 DEF EntriesKept
    <2> QED BY <1>1, <1>7, <2>2, <2>3 DEF MessageKept
  <1>8. ASSUME NEW a \in answered' PROVE AlreadySeen(a[1])'
    <2>1. AlreadySeen(a[1])  BY <1>5, <1>6 DEF ApartInv
    <2> QED BY <1>2, <2>1
  <1>9. ASSUME NEW w \in Workers, workers'[w].stage = "new"
        PROVE  /\ \A v \in Workers : Begun(v)' => workers'[v].msg # workers'[w].msg
               /\ \A a \in answered' : a[1] # workers'[w].msg
    <2>0. PICK m : m = workers'[w].msg  OBVIOUS
    <2>1. ASSUME NEW v \in Workers, Begun(v), workers[v].msg = m PROVE FALSE
      BY <1>3, <1>9, <2>0, <2>1 DEF Tests, ApartInv
    <2>2. ASSUME NEW v \in Workers, Begun(v)', workers'[v].msg = m PROVE FALSE
      <3>1. workers[v].msg = m /\ (Begins(v) \/ Begun(v))
        BY <1>1, <2>2 DEF MessageKept
      <3>2. CASE Begins(v)
        <4>1. v # w /\ workers'[w] = workers[w]  BY <1>4, <1>9, <3>2
        <4> QED BY <1>4, <1>9, <2>0, <3>1, <3>2, <4>1 DEF TestedApart
      <3> QED BY <2>1, <3>1, <3>2
    <2>3. ASSUME NEW a \in answered', a[1] = m PROVE FALSE
      <3>1. CASE a \in answered
        BY <1>3, <1>9, <2>0, <2>3, <3>1 DEF Tests, ApartInv
      <3> QED BY <1>5, <1>6, <2>1, <2>3, <3>1
    <2> QED BY <2>0, <2>2, <2>3
  <1>10. ASSUME NEW v \in Workers, NEW w \in Workers, Begun(v)', Begun(w)',
                workers'[v].msg = workers'[w].msg
         PROVE  v = w
    <2>1. /\ workers[v].msg = workers[w].msg
          /\ Begins(v) \/ Begun(v)
          /\ Begins(w) \/ Begun(w)
      BY <1>1, <1>10 DEF MessageKept
    <2>2. CASE Begun(v) /\ Begun(w)  BY <2>1, <2>2 DEF ApartInv
    <2>3. CASE Begins(v) /\ Begun(w)  BY <1>4, <2>1, <2>3 DEF ApartInv
    <2>4. CASE Begun(v) /\ Begins(w)  BY <1>4, <2>1, <2>4 DEF ApartInv
    <2>5. CASE Begins(v) /\ Begins(w)  BY <1>4, <2>5
    <2> QED BY <1>1, <1>10, <2>2, <2>3, <2>4, <2>5 DEF MessageKept
  <1>11. ASSUME NEW a \in answered', NEW w \in Workers, Begun(w)', workers'[w].msg = a[1]
         PROVE  a[1].kind = "loaded" /\ workers'[w].stage # "started"
    <2>1. workers[w].msg = a[1]  BY <1>1, <1>11 DEF MessageKept
    <2>2. ~Begins(w)
      <3>1. CASE a \in answered  BY <1>4, <2>1, <3>1 DEF ApartInv
      <3>2. ASSUME NEW v \in Workers, Answering(v), a[1] = workers[v].msg PROVE ~Begins(w)
        BY <1>4, <1>6, <2>1, <3>2 DEF ApartInv
      <3> QED BY <1>5, <3>1, <3>2
    <2>3. Begun(w) /\ (workers'[w].stage = "started" => workers[w].stage = "started")
      BY <1>1, <1>11, <2>2 DEF MessageKept
    <2>4. CASE a \in answered  BY <2>1, <2>3, <2>4 DEF ApartInv
    <2>5. ASSUME NEW v \in Workers, Answering(v), a[1] = workers[v].msg
          PROVE  a[1].kind = "loaded" /\ workers'[w].stage # "started"
      <3>1. v = w  BY <1>6, <2>1, <2>3, <2>5 DEF ApartInv
      <3>2. PICK state :
              /\ workers' = [workers EXCEPT ![w] = state]
              /\ state.stage = IF workers[w].msg.kind = "loaded" THEN "read" ELSE "sending"
        BY <2>5, <3>1 DEF Answering
      <3>3. workers'[w] = state  BY <1>0, <3>2 DEF UPSInv, WorkerInv
      <3> QED BY <1>11, <2>1, <3>2, <3>3 DEF Begun, HandlerStages
    <2> QED BY <1>5, <2>4, <2>5
  <1>12. HandledOnce'
    <2>1. CASE UNCHANGED answered  BY <2>1 DEF ApartInv, HandledOnce
    <2>2. ASSUME NEW w \in Workers, Answering(w) PROVE HandledOnce'
      <3>1. PICK m : m = workers[w].msg  OBVIOUS
      <3>2. PICK c : answered' = answered \cup {<<m, c>>}  BY <2>2, <3>1 DEF Answering
      <3>3. \A a \in answered : a[1] # m
        <4> SUFFICES ASSUME NEW a \in answered, a[1] = m PROVE FALSE
          OBVIOUS
        <4>1. Begun(w)  BY <1>6, <2>2
        <4>2. m.kind = "loaded" /\ workers[w].stage # "started"
          BY <3>1, <4>1 DEF ApartInv
        <4> QED BY <2>2, <3>1, <4>2 DEF Answering
      <3> QED BY <3>2, <3>3 DEF ApartInv, HandledOnce
    <2> QED BY <2>1, <2>2, AnswerEffect
  <1> QED BY <1>0, <1>7, <1>8, <1>9, <1>10, <1>11, <1>12 DEF ApartInv

\* However many messages are lost or repeated, and however often Amazon says "loaded"
\* again: a message leads to two commands only if two workers look up its number before
\* one of them inserts it (main.cpp:94-97 and 178-181), or if its number is lost from a
\* set that has no lock.
THEOREM UPSHandlesOnceApart ==
  Spec /\ [](TestedApart /\ EntriesKept) => []HandledOnce
  <1>1. Init => ApartInv
    <2> SUFFICES ASSUME Init PROVE ApartInv
      OBVIOUS
    <2>1. \A w \in Workers : workers[w].stage = "idle"  BY DEF Init, InitServer, Idle
    <2>2. answered = {}  BY DEF Init, InitServer
    <2> QED BY <2>1, <2>2, InitUPS DEF ApartInv, Begun, HandlerStages, HandledOnce
  <1>2. ApartInv /\ TestedApart /\ EntriesKept' /\ [Next]_vars => ApartInv'  BY ApartStep
  <1>3. ApartInv => HandledOnce  BY DEF ApartInv
  <1> QED BY <1>1, <1>2, <1>3, PTL DEF Spec

=============================================================================
