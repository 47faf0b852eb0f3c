----------------------------- MODULE UPSWebProofs -----------------------------
(***************************************************************************)
(* The UPS server beside the web site.  What the site saves was true when  *)
(* it was read, so the invariants of the server stay, except those about   *)
(* the newest status of a package and about accounts that a pickup is to   *)
(* insert.                                                                 *)
(***************************************************************************)
EXTENDS UPSHandledProofs, UPSWeb

-----------------------------------------------------------------------------
(* The copies of the views *)

\* What the row of a copy says of package p is true.
CopyIsEarned(p, row) ==
  /\ row.status \in {"out for delivery", "delivered"} => Reported(amazon_issued, "loaded", p)
  /\ row.status = "delivered" => Reported(world_issued, "delivered", p)
  /\ row.status = "picked up" =>
       \/ \E r \in world_issued : r.kind = "arrived" /\ r.truck = row.truck
       \/ PickedAgain(p)

ViewInv ==
  /\ started \in 0 .. MaxViews /\ overwritten \subseteq Packages /\ raced \subseteq Accounts
  /\ \A v \in views : /\ v \in View /\ v.id < started
                      /\ user_packages[v.item] # NoPackage
                      /\ CopyIsEarned(v.item, v.row)

WebInv == UPSInv /\ ViewInv

\* The pages change nothing of the server but one of two tables.
BesideServer ==
  UNCHANGED <<seqNum, issued, answered, store, recvs, recvs_amazon, m_tasks, workers, user_trucks,
              crashed, losses, to_world, from_world, to_amazon, from_amazon,
              worldVars, amazonVars, repeats>>

-----------------------------------------------------------------------------
(* The server beside the views *)

\* A second pickup of a package that has a row stays where it is.
AgainStays ==
  \A p \in Packages : user_packages[p] # NoPackage /\ PickedAgain(p) => PickedAgain(p)'

LEMMA HandlerAgain ==
  ASSUME UPSInv, NEW w \in Workers, Handler(w)
  PROVE  AgainStays
  <1>1. CASE UNCHANGED workers  BY <1>1 DEF AgainStays, PickedAgain
  <1>2. CASE Crash  BY <1>1, <1>2 DEF Crash
  <1>3. CASE workers[w].stage \notin {"picked", "no user"}
    <2>1. CASE Crash  BY <1>2, <2>1
    <2>2. ASSUME NEW state, workers' = [workers EXCEPT ![w] = state] PROVE AgainStays
      <3>1. \A v \in Workers : v # w => workers'[v] = workers[v]
        BY <2>2 DEF UPSInv, WorkerInv
      <3> QED BY <1>3, <3>1 DEF AgainStays, PickedAgain
    <2> QED BY <2>1, <2>2, HandlerGoes
  <1>4. CASE (CountUser(w) \/ InsertUser(w)) /\ ~Crash
    <2>1. PICK stage \in {"no user", "picked"} :
            workers' = [workers EXCEPT ![w] = [workers[w] EXCEPT !.stage = stage]]
      BY <1>4 DEF CountUser, InsertUser, Become
    <2>2. workers[w].stage \in {"picked", "no user"}  BY <1>4 DEF CountUser, InsertUser, In
    <2>3. workers[w] \in Pickups  BY <2>2, AtStage DEF UPSInv
    <2> DEFINE state == [workers[w] EXCEPT !.stage = stage]
    <2>4. state.stage = stage /\ state.msg = workers[w].msg  BY <2>3 DEF Pickups
    <2>5. \A v \in Workers : workers'[v] = IF v = w THEN state ELSE workers[v]
      BY <2>1 DEF UPSInv, WorkerInv
    <2> HIDE DEF state
    <2> QED BY <2>1, <2>2, <2>4, <2>5, PickupGoesOn DEF AgainStays
  <1>5. CASE InsertPackage(w) /\ ~Crash
    <2>1. user_packages[workers[w].msg.item] = NoPackage  BY <1>5 DEF InsertPackage
    <2>2. PICK state : workers' = [workers EXCEPT ![w] = state]
      BY <1>5 DEF InsertPackage, Become
    <2>3. \A v \in Workers : v # w => workers'[v] = workers[v]
      BY <2>2 DEF UPSInv, WorkerInv
    <2> QED BY <2>1, <2>3 DEF AgainStays, PickedAgain
  <1>6. CASE ~(CountUser(w) \/ InsertUser(w) \/ InsertPackage(w))
    <2>1. workers[w].stage \notin {"picked", "no user"}
      BY <1>6 DEF Handler, CommandAcked, pick_truck, SendTruck, parseloaded, OutForDelivery,
                  TruckDelivering, handleDelivery, dealUFinished, ReportArrival, handleIdle, In
    <2> QED BY <1>3, <2>1
  <1> QED BY <1>2, <1>4, <1>5, <1>6

\* No handler removes a row.
LEMMA HandlerRows ==
  ASSUME UPSInv, NEW w \in Workers, Handler(w)
  PROVE  RowsKept
  <1>0. PICK p : p = workers[w].msg.item  OBVIOUS
  <1>1. CASE UNCHANGED user_packages  BY <1>1 DEF RowsKept
  <1>2. ASSUME NEW row, row # NoPackage, user_packages' = [user_packages EXCEPT ![p] = row]
        PROVE  RowsKept
    BY <1>2 DEF UPSInv, TableInv, RowsKept
  <1>3. CASE pick_truck(w) /\ ~UNCHANGED user_packages
    <2>1. PICK t \in Trucks :
            /\ user_packages[p] # NoPackage
            /\ user_packages' = [user_packages EXCEPT ![p].truck = t]
      BY <1>0, <1>3 DEF pick_truck
    <2>2. CASE p \in Packages
      <3>1. [user_packages[p] EXCEPT !.truck = t] \in Row
        BY <2>1, <2>2 DEF UPSInv, TableInv, Row
      <3>2. [user_packages[p] EXCEPT !.truck = t] # NoPackage  BY <3>1, NullAssumption
      <3> QED BY <1>2, <2>1, <3>2
    <2>3. CASE p \notin Packages  BY <2>1, <2>3 DEF UPSInv, TableInv, RowsKept
    <2> QED BY <2>2, <2>3
  <1>4. CASE InsertPackage(w) /\ ~Crash
    <2>1. workers[w].stage = "picked"  BY <1>4 DEF InsertPackage, In
    <2>2. user_packages[p] = NoPackage /\ \E row : user_packages' = [user_packages EXCEPT ![p] = row]
      BY <1>0, <1>4 DEF InsertPackage
    <2>3. \A q \in Packages : q # p => user_packages'[q] = user_packages[q]
      BY <2>2 DEF UPSInv, TableInv
    <2> QED BY <2>2, <2>3 DEF RowsKept
  <1>5. CASE OutForDelivery(w)
    <2>1. workers[w].stage = "read" /\
          user_packages' = [user_packages EXCEPT ![p].status = "out for delivery"]
      BY <1>0, <1>5 DEF OutForDelivery, In
    <2>2. p \in Packages /\ user_packages[p] # NoPackage
      BY <1>0, <2>1 DEF UPSInv, LoadingInv
    <2> QED BY <2>1, <2>2, StatusOnly DEF UPSInv, PackageStatuses, TruckStays, RowsKept
  <1>6. CASE handleDelivery(w) /\ ~Crash
    <2>1. /\ workers[w].stage = "started" /\ user_packages[p] # NoPackage
          /\ user_packages' = [user_packages EXCEPT ![p].status = "delivered"]
      BY <1>0, <1>6 DEF handleDelivery, In
    <2>2. p \in Packages  BY <1>0, <2>1, AtStage, RequestTypes DEF UPSInv, Handlers
    <2> QED BY <2>1, <2>2, StatusOnly DEF UPSInv, PackageStatuses, TruckStays, RowsKept
  <1>7. CASE dealUFinished(w)  BY <1>7, ArrivalRows DEF TruckStays, RowsKept
  <1>8. CASE CommandAcked(w) \/ CountUser(w) \/ InsertUser(w) \/ SendTruck(w) \/ parseloaded(w)
             \/ TruckDelivering(w) \/ ReportArrival(w) \/ handleIdle(w) \/ Crash
    <2>1. UNCHANGED user_packages
      BY <1>8 DEF CommandAcked, CountUser, InsertUser, SendTruck, parseloaded, TruckDelivering,
                  ReportArrival, handleIdle, Crash, tables
    <2> QED BY <1>1, <2>1
  <1> QED BY <1>1, <1>3, <1>4, <1>5, <1>6, <1>7, <1>8 DEF Handler

LEMMA ServerKeepsRows ==
  ASSUME UPSInv, [Next]_vars
  PROVE  RowsKept /\ AgainStays
  <1>1. CASE Aside
    <2>1. \A w \in Workers : workers[w].stage \in {"picked", "no user"} => workers'[w] = workers[w]
      BY <1>1 DEF Aside, Begun, HandlerStages
    <2> QED BY <1>1, <2>1 DEF Aside, RowsKept, AgainStays, PickedAgain
  <1>2. ASSUME NEW w \in Workers, Begins(w) PROVE RowsKept /\ AgainStays
    <2>1. /\ \A v \in Workers : v # w => workers'[v] = workers[v]
          /\ workers[w].stage = "new" /\ UNCHANGED user_packages
      BY <1>2, InsertNumberGoes DEF Begins
    <2> QED BY <2>1 DEF RowsKept, AgainStays, PickedAgain
  <1>3. ASSUME NEW w \in Workers, Handles(w) PROVE RowsKept /\ AgainStays
    BY <1>3, HandlerRows, HandlerAgain DEF Handles
  <1> QED BY <1>1, <1>2, <1>3, StepKinds

LEMMA ServerKeepsViews ==
  ASSUME WebInv, [Next]_vars, UNCHANGED webVars
  PROVE  WebInv'
  <1>1. UPSInv /\ UPSInv'  BY UPSStep DEF WebInv
  <1>2. RowsKept /\ AgainStays  BY <1>1, ServerKeepsRows
  <1>3. world_issued \subseteq world_issued' /\ amazon_issued \subseteq amazon_issued'
    BY <1>1, PeersSay, NewAnswers DEF AmazonSays
  <1>4. \A k, p : /\ Reported(amazon_issued, k, p) => Reported(amazon_issued', k, p)
                  /\ Reported(world_issued, k, p) => Reported(world_issued', k, p)
    BY <1>3 DEF Reported
  <1>5. ASSUME NEW p \in Packages, NEW row, user_packages[p] # NoPackage, CopyIsEarned(p, row)
        PROVE  CopyIsEarned(p, row)'
    BY <1>2, <1>3, <1>4, <1>5 DEF CopyIsEarned, AgainStays
  <1>6. \A v \in views : v.item \in Packages  BY DEF WebInv, ViewInv, View
  <1>7. ViewInv'
    BY <1>2, <1>5, <1>6 DEF WebInv, ViewInv, webVars, RowsKept
  <1> QED BY <1>1, <1>7 DEF WebInv

-----------------------------------------------------------------------------
(* The pages *)

LEMMA BesideKeeps ==
  ASSUME UPSInv, BesideServer, TableInv', RowsKept, StatusIsEarned'
  PROVE  UPSInv'
  <1>1. UNCHANGED <<seqNum, issued>>  BY DEF BesideServer
  <1>2. Growing  BY DEF BesideServer, Growing, worldVars, amazonVars
  <1>3. NumberInv'  BY <1>1 DEF UPSInv, NumberInv
  <1>4. HandledInv' /\ ChannelInv' /\ PeerInv' /\ WorkerInv'
    BY <1>2, SameTasks, SameChannels, SamePeers, SameWorkers
       DEF UPSInv, HandledInv, BesideServer, sockets
  <1>5. CommandsEarned'
    BY <1>1, Earning DEF UPSInv, NumberStep, BesideServer, worldVars, amazonVars
  <1>6. LoadingInv'  BY SameLoadings DEF UPSInv, BesideServer
  <1> QED BY <1>3, <1>4, <1>5, <1>6 DEF UPSInv

LEMMA SaveKeeps ==
  ASSUME WebInv, NEW v \in views, save(v)
  PROVE  WebInv'
  <1>1. BesideServer /\ UNCHANGED user_users
    BY DEF save, BesideServer, numbers, handled, sockets
  <1>2. /\ v \in View /\ v.item \in Packages /\ v.row \in Row
        /\ user_packages[v.item] # NoPackage /\ CopyIsEarned(v.item, v.row)
    BY DEF WebInv, ViewInv, View
  <1>3. PICK p \in Packages : p = v.item  BY <1>2
  <1>4. PICK row \in Row : row = v.row  BY <1>2
  <1>5. user_packages' = [user_packages EXCEPT ![p] = row] /\ views' = views \ {v}
    BY <1>3, <1>4 DEF save
  <1>6. \A q \in Packages : user_packages'[q] = IF q = p THEN row ELSE user_packages[q]
    BY <1>5 DEF WebInv, UPSInv, TableInv
  <1>7. row # NoPackage  BY <1>4, NullAssumption
  <1>8. RowsKept  BY <1>6, <1>7 DEF RowsKept
  <1>9. TableInv'
    <2>1. user_packages' \in [Packages -> Row \cup {NoPackage}]
      BY <1>4, <1>5 DEF WebInv, UPSInv, TableInv
    <2> QED BY <1>1, <2>1 DEF WebInv, UPSInv, TableInv, BesideServer
  <1>10. \A q : PickedAgain(q)' <=> PickedAgain(q)  BY <1>1 DEF BesideServer, PickedAgain
  <1>11. UNCHANGED <<world_issued, amazon_issued>>
    BY <1>1 DEF BesideServer, worldVars, amazonVars
  <1>12. ASSUME NEW q \in Packages, user_packages'[q] # NoPackage PROVE RowIsEarned(q)'
    <2>1. CASE q = p
      BY <1>2, <1>3, <1>4, <1>6, <1>10, <1>11, <2>1 DEF CopyIsEarned, RowIsEarned
    <2>2. CASE q # p
      <3>1. user_packages'[q] = user_packages[q] /\ RowIsEarned(q)
        BY <1>6, <1>12, <2>2 DEF WebInv, UPSInv, StatusIsEarned
      <3> QED BY <1>10, <1>11, <3>1 DEF RowIsEarned
    <2> QED BY <2>1, <2>2
  <1>13. UPSInv'
    BY <1>1, <1>8, <1>9, <1>12, BesideKeeps DEF WebInv, StatusIsEarned
  <1>14. ViewInv'
    <2>1. UNCHANGED <<started, raced>> /\ overwritten' \subseteq Packages
      BY <1>2 DEF save, WebInv, ViewInv
    <2>2. \A u \in views : u.item \in Packages  BY DEF WebInv, ViewInv, View
    <2>3. \A u \in views : CopyIsEarned(u.item, u.row)' <=> CopyIsEarned(u.item, u.row)
      BY <1>10, <1>11 DEF CopyIsEarned
    <2> QED BY <1>5, <1>8, <2>1, <2>2, <2>3 DEF WebInv, ViewInv, RowsKept
  <1> QED BY <1>13, <1>14 DEF WebInv

\* A view copies the row that is there, but for the address.
LEMMA ReadKeeps ==
  ASSUME WebInv, NEW p \in Packages, NEW row \in Row, user_packages[p] # NoPackage,
         row.status = user_packages[p].status, row.truck = user_packages[p].truck, ReadRow(p, row)
  PROVE  WebInv'
  <1>1. UPSInv'  BY UPSStep DEF WebInv, ReadRow
  <1>2. PICK v : v = [id |-> started, item |-> p, row |-> row]  OBVIOUS
  <1>3. v.id = started /\ v.item = p /\ v.row = row  BY <1>2
  <1>4. started \in Nat /\ MaxViews \in Nat /\ started' = started + 1 /\ started' \in 0 .. MaxViews
    BY WebAssumption DEF ReadRow, WebInv, ViewInv
  <1>5. v \in View  BY <1>2, <1>4 DEF View
  <1>6. /\ views' = views \cup {v}
        /\ UNCHANGED <<overwritten, raced, user_packages, workers, amazon_issued, world_issued>>
    BY <1>2 DEF ReadRow, vars, serverVars, tables, worldVars, amazonVars
  <1>7. \A q : PickedAgain(q)' <=> PickedAgain(q)  BY <1>6 DEF PickedAgain
  <1>8. \A q, r : CopyIsEarned(q, r)' <=> CopyIsEarned(q, r)
    BY <1>6, <1>7 DEF CopyIsEarned
  <1>9. CopyIsEarned(p, row)
    BY DEF WebInv, UPSInv, StatusIsEarned, RowIsEarned, CopyIsEarned
  <1>10. \A u \in views : u.id \in Nat  BY DEF WebInv, ViewInv, View
  <1>11. \A u \in views' : u \in View /\ u.id < started'
    BY <1>3, <1>4, <1>5, <1>6, <1>10 DEF WebInv, ViewInv
  <1>12. \A u \in views' : user_packages'[u.item] # NoPackage /\ CopyIsEarned(u.item, u.row)
    BY <1>3, <1>6, <1>9 DEF WebInv, ViewInv
  <1>13. ViewInv'  BY <1>4, <1>6, <1>8, <1>11, <1>12 DEF WebInv, ViewInv
  <1> QED BY <1>1, <1>13 DEF WebInv

LEMMA AccountKeeps ==
  ASSUME WebInv, NEW a \in Accounts, create_account(a)
  PROVE  WebInv'
  <1>1. BesideServer /\ UNCHANGED <<user_packages, views, started, overwritten>>
    BY DEF create_account, BesideServer, numbers, handled, sockets
  <1>2. TableInv'  BY <1>1 DEF create_account, WebInv, UPSInv, TableInv, BesideServer
  <1>3. \A q : PickedAgain(q)' <=> PickedAgain(q)  BY <1>1 DEF BesideServer, PickedAgain
  <1>4. UNCHANGED <<world_issued, amazon_issued>>
    BY <1>1 DEF BesideServer, worldVars, amazonVars
  <1>5. RowsKept  BY <1>1 DEF RowsKept
  <1>6. StatusIsEarned'
    BY <1>1, <1>3, <1>4 DEF WebInv, UPSInv, StatusIsEarned, RowIsEarned
  <1>7. UPSInv'  BY <1>1, <1>2, <1>5, <1>6, BesideKeeps DEF WebInv
  <1>8. raced' \subseteq Accounts  BY DEF create_account, WebInv, ViewInv
  <1>9. ViewInv'  BY <1>1, <1>3, <1>4, <1>8 DEF WebInv, ViewInv, CopyIsEarned
  <1> QED BY <1>7, <1>9 DEF WebInv

LEMMA PageReads ==
  ASSUME WebInv, NEW p \in Packages, edit_address(p) \/ feedback(p)
  PROVE  \E row \in Row : /\ ReadRow(p, row) /\ user_packages[p] # NoPackage
                          /\ row.status = user_packages[p].status
                          /\ row.truck = user_packages[p].truck
  <1>1. user_packages[p] # NoPackage  BY DEF edit_address, feedback
  <1>2. user_packages[p] \in Row  BY <1>1 DEF WebInv, UPSInv, TableInv
  <1>3. CASE feedback(p)  BY <1>1, <1>2, <1>3 DEF feedback
  <1>4. CASE edit_address(p)
    <2>1. PICK a \in NewAddresses : ReadRow(p, [user_packages[p] EXCEPT !.to = a])
      BY <1>4 DEF edit_address
    <2>2. /\ [user_packages[p] EXCEPT !.to = a] \in Row
          /\ [user_packages[p] EXCEPT !.to = a].status = user_packages[p].status
          /\ [user_packages[p] EXCEPT !.to = a].truck = user_packages[p].truck
      BY <1>2, WebAssumption DEF Row
    <2> QED BY <1>1, <2>1, <2>2
  <1> QED BY <1>3, <1>4

LEMMA WebStep == WebInv /\ [NextWeb]_webSystemVars => WebInv'
  <1> SUFFICES ASSUME WebInv, [NextWeb]_webSystemVars PROVE WebInv'
    OBVIOUS
  <1>1. CASE ServerBesideSite \/ UNCHANGED webSystemVars
    BY <1>1, ServerKeepsViews DEF ServerBesideSite, webSystemVars
  <1>2. ASSUME NEW p \in Packages, edit_address(p) \/ feedback(p) PROVE WebInv'
    BY <1>2, PageReads, ReadKeeps
  <1>3. ASSUME NEW v \in views, save(v) PROVE WebInv'  BY <1>3, SaveKeeps
  <1>4. ASSUME NEW a \in Accounts, create_account(a) PROVE WebInv'  BY <1>4, AccountKeeps
  <1> QED BY <1>1, <1>2, <1>3, <1>4 DEF NextWeb, Website

LEMMA InitViews == InitWeb => WebInv
  <1>1. InitWeb => UPSInv  BY InitUPS DEF InitWeb
  <1>2. InitWeb => ViewInv  BY WebAssumption DEF InitWeb, ViewInv
  <1> QED BY <1>1, <1>2 DEF WebInv

\* The inductive invariant of the server and the site together.
THEOREM WebInvariance == SpecWeb => []WebInv
  BY InitViews, WebStep, PTL DEF SpecWeb

\* The rows that the views of the site save are rows, and every variable of the server
\* beside them keeps its type.
THEOREM WebTypes == SpecWeb => []WebTypeOK
  <1>1. InitWeb => AnswerTypes  BY DEF InitWeb, Init, InitServer, AnswerTypes
  <1>2. ASSUME WebInv, AnswerTypes, [NextWeb]_webSystemVars PROVE AnswerTypes'
    <2>1. UPSInv  BY <1>2 DEF WebInv
    <2>2. CASE [Next]_vars  BY <1>2, <2>1, <2>2, AnswerTypesStep
    <2>3. CASE Website
      <3>1. UNCHANGED <<issued, answered>>
        BY <2>3 DEF Website, edit_address, feedback, ReadRow, save, create_account,
                    vars, serverVars, numbers
      <3> QED BY <1>2, <3>1 DEF AnswerTypes
    <2> QED BY <1>2, <2>2, <2>3 DEF NextWeb, ServerBesideSite, webSystemVars
  <1>3. WebInv /\ AnswerTypes => WebTypeOK
    BY TypesOf DEF WebInv, ViewInv, WebTypeOK
  <1> QED BY <1>1, <1>2, <1>3, WebInvariance, PTL DEF SpecWeb

\* Late saves included, the tables tell a customer nothing that did not happen: what a
\* copy says of a package was true when it was read, and stays earned.
THEOREM WebStatusIsEarned == SpecWeb => []StatusIsEarned
  <1>1. WebInv => StatusIsEarned  BY DEF WebInv, UPSInv
  <1> QED BY <1>1, WebInvariance, PTL

-----------------------------------------------------------------------------
(* The contract with Amazon *)

LEMMA PageRows ==
  ASSUME WebInv, Website
  PROVE  /\ UNCHANGED <<issued, amazon_issued, workers>>
         /\ \A p \in Packages : user_packages'[p] # NoPackage => user_packages[p] # NoPackage
  <1>1. ASSUME NEW p \in Packages, edit_address(p) \/ feedback(p)
        PROVE  UNCHANGED <<issued, amazon_issued, workers, user_packages>>
    BY <1>1 DEF edit_address, feedback, ReadRow, vars, serverVars, numbers, tables, amazonVars
  <1>2. ASSUME NEW a \in Accounts, create_account(a)
        PROVE  UNCHANGED <<issued, amazon_issued, workers, user_packages>>
    BY <1>2 DEF create_account, numbers, amazonVars
  <1>3. ASSUME NEW v \in views, save(v)
        PROVE  /\ UNCHANGED <<issued, amazon_issued, workers>>
               /\ \A p \in Packages : user_packages'[p] # NoPackage => user_packages[p] # NoPackage
    <2>1. user_packages' = [user_packages EXCEPT ![v.item] = v.row]
      BY <1>3 DEF save
    <2>2. user_packages[v.item] # NoPackage  BY DEF WebInv, ViewInv
    <2> QED BY <1>3, <2>1, <2>2 DEF save, numbers, amazonVars, WebInv, UPSInv, TableInv
  <1> QED BY <1>1, <1>2, <1>3 DEF Website

LEMMA WebContractStep ==
  ASSUME WebInv, ContractInv, [NextWeb]_webSystemVars
  PROVE  ContractInv' /\ [Contract!Next]_Said
  <1>1. UPSInv'  BY WebStep DEF WebInv
  <1>2. CASE [Next]_vars
    BY <1>1, <1>2, ContractStep, UPSSays DEF ContractInv
  <1>3. CASE Website
    <2>1. /\ UNCHANGED <<issued, amazon_issued, workers>>
          /\ \A p \in Packages : user_packages'[p] # NoPackage => user_packages[p] # NoPackage
      BY <1>3, PageRows
    <2>2. RowsRequested' /\ PickupsRequested'
      BY <2>1 DEF ContractInv, RowsRequested, PickupsRequested, Requested
    <2>3. UNCHANGED Said  BY <2>1 DEF Said
    <2> QED BY <1>1, <2>2, <2>3 DEF ContractInv
  <1> QED BY <1>2, <1>3 DEF NextWeb, ServerBesideSite, webSystemVars

\* The server keeps the contract with Amazon beside the site too: a late save brings
\* back an old status, but no row of a package that Amazon asked no truck for.
THEOREM WebKeepsContract == SpecWeb => KeepsContract
  <1>1. InitWeb => Contract!Init /\ ContractInv
    <2>1. InitWeb => ContractInv  BY InitContract DEF InitWeb
    <2> QED BY <2>1 DEF InitWeb, Init, InitServer, Contract!Init, Said
  <1>2. WebInv /\ ContractInv /\ [NextWeb]_webSystemVars =>
          (WebInv /\ ContractInv)' /\ [Contract!Next]_Said
    BY WebStep, WebContractStep
  <1> QED BY <1>1, <1>2, InitViews, PTL DEF SpecWeb, KeepsContract, Contract!Spec

-----------------------------------------------------------------------------
(* One truck for a package *)

\* A page that leaves the trucks of the rows alone disturbs no message and no handler.
LEMMA BesideRun ==
  ASSUME RunInv, BesideServer, UPSInv', TruckStays
  PROVE  RunInv' /\ (\A r : (Pending(r)' <=> Pending(r)) /\ (Past(r)' <=> Past(r)))
  <1>0. UPSInv  BY DEF RunInv, ContractInv
  <1>1. UNCHANGED <<issued, recvs, recvs_amazon, m_tasks, workers, losses, repeats,
                    to_world, from_world, to_amazon, from_amazon,
                    world_seq, world_seen, world_issued, world_out,
                    amazon_seq, amazon_seen, amazon_issued, amazon_out>>
    BY DEF BesideServer, worldVars, amazonVars
  <1>2. FlowInv' /\ Progress
    <2>1. FreshSame  BY <1>1 DEF FreshSame, Fresh
    <2>2. AckSame /\ KeepsNumbers  BY <1>1 DEF AckSame, KeepsNumbers
    <2>3. LossesGrow  BY <1>1 DEF RunInv, FlowInv, LossesGrow
    <2> QED BY <1>0, <1>1, <2>1, <2>2, <2>3, QuietFlow DEF RunInv
  <1>3. \A r : Pending(r)' <=> Pending(r)
    BY <1>1 DEF Pending, AlreadySeen, InHand, Fresh, Unacked, Acked, FromServer
  <1>4. \A r : (Past(r)' <=> Past(r)) /\ (Over(r)' <=> Over(r))
    BY <1>1, <1>3 DEF Past, Over, Begun
  <1>5. StaysHandled  BY <1>3 DEF StaysHandled
  <1>6. BegunInv'
    <2>1. \A w \in Workers : (Begun(w)' <=> Begun(w)) /\ workers'[w] = workers[w]
      BY <1>1 DEF Begun
    <2>2. \A w \in Workers : Begun(w) => ~Pending(workers[w].msg)'
      <3> SUFFICES ASSUME NEW w \in Workers, Begun(w) PROVE ~Pending(workers[w].msg)'
        OBVIOUS
      <3>1. PICK m : m = workers[w].msg  OBVIOUS
      <3>2. ~Pending(m)'  BY <1>3, <3>1 DEF RunInv, BegunInv
      <3>3. m = workers'[w].msg  BY <1>1, <3>1
      <3> QED BY <3>2, <3>3
    <2> QED BY <2>1, <2>2 DEF RunInv, BegunInv
  <1>7. AmazonSays /\ NoPickupIssued /\ WorldSays
    BY <1>1 DEF AmazonSays, NoPickupIssued, WorldSays
  <1>8. PickingKept  BY <1>1 DEF PickingKept, Picking
  <1>9. PickupInv'  BY <1>5, <1>7, <1>8, PickupKept DEF RunInv
  <1>10. ArrivedInv'  BY <1>0, <1>1, <1>7, ArrivedStep DEF RunInv
  <1>11. MatchedInv'  BY <1>1, <1>4, MatchedKept DEF RunInv, Reports, Arrivals
  <1>12. RowsRequested' /\ PickupsRequested'
    BY <1>1 DEF RunInv, ContractInv, RowsRequested, PickupsRequested, Requested, TruckStays
  <1> QED BY <1>2, <1>3, <1>4, <1>6, <1>9, <1>10, <1>11, <1>12 DEF RunInv, ContractInv

\* A row that is there stays, on its truck.
LEMMA TruckKept ==
  ASSUME FewFaults', RunInv, [Next]_vars
  PROVE  \A p \in Packages : user_packages[p] # NoPackage =>
           user_packages'[p] # NoPackage /\ user_packages'[p].truck = user_packages[p].truck
  <1>0. UPSInv  BY DEF RunInv, ContractInv
  <1>1. CASE UNCHANGED user_packages  BY <1>1
  <1>2. CASE Aside  BY <1>1, <1>2 DEF Aside
  <1>3. ASSUME NEW w \in Workers, Begins(w) PROVE UNCHANGED user_packages
    BY <1>0, <1>3, InsertNumberGoes DEF Begins
  <1>4. CASE TruckStays  BY <1>4 DEF TruckStays
  <1>5. ASSUME NEW w \in Workers, Handler(w), ~InsertPackage(w) PROVE TruckStays
    BY <1>0, <1>5, HandlerTrucks DEF RunInv
  <1>6. ASSUME NEW w \in Workers, InsertPackage(w), ~UNCHANGED user_packages
        PROVE  \A q \in Packages : user_packages[q] # NoPackage => user_packages'[q] = user_packages[q]
    <2>1. PICK p : p = workers[w].msg.item  OBVIOUS
    <2>2. ~Crash  BY <1>6 DEF Crash, tables
    <2>3. user_packages[p] = NoPackage /\ \E row : user_packages' = [user_packages EXCEPT ![p] = row]
      BY <1>6, <2>1, <2>2 DEF InsertPackage
    <2> QED BY <1>0, <2>3 DEF UPSInv, TableInv
  <1> QED BY <1>0, <1>1, <1>2, <1>3, <1>4, <1>5, <1>6, StepKinds DEF Handles

\* The copies of the views name the truck of the row.
CopiesOnTruck == \A v \in views : v.row.truck = user_packages[v.item].truck

WebRunInv == WebInv /\ RunInv /\ CopiesOnTruck

LEMMA SaveTrucks ==
  ASSUME WebInv, CopiesOnTruck, NEW v \in views, save(v)
  PROVE  /\ BesideServer /\ TruckStays /\ UNCHANGED user_users
         /\ v.item \in Packages
         /\ \A p \in Packages :
              user_packages'[p] = IF p = v.item THEN v.row ELSE user_packages[p]
  <1>1. BesideServer /\ UNCHANGED user_users
    BY DEF save, BesideServer, numbers, handled, sockets
  <1>2. v.item \in Packages /\ v.row \in Row /\ user_packages[v.item] # NoPackage
    BY DEF WebInv, ViewInv, View
  <1>3. PICK p \in Packages : p = v.item  BY <1>2
  <1>4. PICK row \in Row : row = v.row  BY <1>2
  <1>5. user_packages' = [user_packages EXCEPT ![p] = row]  BY <1>3, <1>4 DEF save
  <1>6. \A q \in Packages : user_packages'[q] = IF q = p THEN row ELSE user_packages[q]
    BY <1>5 DEF WebInv, UPSInv, TableInv
  <1>7. row # NoPackage  BY <1>4, NullAssumption
  <1>8. row.truck = user_packages[p].truck /\ user_packages[p] # NoPackage
    BY <1>2, <1>3, <1>4 DEF CopiesOnTruck
  <1>9. TruckStays  BY <1>6, <1>7, <1>8 DEF TruckStays
  <1> QED BY <1>1, <1>3, <1>4, <1>6, <1>9

LEMMA AccountBeside ==
  ASSUME NEW a \in Accounts, create_account(a)
  PROVE  BesideServer /\ TruckStays /\ UNCHANGED <<user_packages, views, overwritten>>
  BY DEF create_account, BesideServer, numbers, handled, sockets, TruckStays

\* A page that reads changes nothing but the views.
LEMMA ReadBeside ==
  ASSUME WebInv, NEW p \in Packages, edit_address(p) \/ feedback(p)
  PROVE  /\ UNCHANGED <<vars, overwritten, raced>>
         /\ \E v : /\ views' = views \cup {v} /\ v.item = p
                   /\ v.row.truck = user_packages[p].truck
  <1>1. PICK row \in Row : ReadRow(p, row) /\ row.truck = user_packages[p].truck
    BY PageReads
  <1>2. PICK v : v = [id |-> started, item |-> p, row |-> row]  OBVIOUS
  <1>3. v.item = p /\ v.row = row /\ views' = views \cup {v}  BY <1>1, <1>2 DEF ReadRow
  <1> QED BY <1>1, <1>3 DEF ReadRow

LEMMA TruckStep == ASSUME FewFaults', WebRunInv, [NextWeb]_webSystemVars PROVE WebRunInv'
  <1>0. WebInv /\ RunInv /\ CopiesOnTruck  BY DEF WebRunInv
  <1>1. WebInv' /\ UPSInv'  BY <1>0, WebStep DEF WebInv
  <1>2. \A v \in views : v.item \in Packages /\ user_packages[v.item] # NoPackage
    BY <1>0 DEF WebInv, ViewInv, View
  <1>3. CASE [Next]_vars /\ UNCHANGED webVars
    <2>1. RunInv'  BY <1>0, <1>3, RunStep
    <2>2. CopiesOnTruck'  BY <1>0, <1>2, <1>3, TruckKept DEF CopiesOnTruck, webVars
    <2> QED BY <1>1, <2>1, <2>2 DEF WebRunInv
  <1>4. ASSUME NEW p \in Packages, edit_address(p) \/ feedback(p) PROVE WebRunInv'
    <2>1. UNCHANGED vars  BY <1>0, <1>4, ReadBeside
    <2>2. RunInv'  BY <1>0, <2>1, RunStep
    <2>3. UNCHANGED user_packages  BY <2>1 DEF vars, serverVars, tables
    <2>4. CopiesOnTruck'  BY <1>0, <1>4, <2>3, ReadBeside DEF CopiesOnTruck
    <2> QED BY <1>1, <2>2, <2>4 DEF WebRunInv
  <1>5. ASSUME NEW v \in views, save(v) PROVE WebRunInv'
    <2>1. BesideServer /\ TruckStays  BY <1>0, <1>5, SaveTrucks
    <2>2. RunInv'  BY <1>0, <1>1, <2>1, BesideRun
    <2>3. views' \subseteq views  BY <1>5 DEF save
    <2>4. CopiesOnTruck'  BY <1>0, <1>2, <2>1, <2>3 DEF CopiesOnTruck, TruckStays
    <2> QED BY <1>1, <2>2, <2>4 DEF WebRunInv
  <1>6. ASSUME NEW a \in Accounts, create_account(a) PROVE WebRunInv'
    <2>1. RunInv'  BY <1>0, <1>1, <1>6, AccountBeside, BesideRun
    <2>2. CopiesOnTruck'  BY <1>0, <1>6, AccountBeside DEF CopiesOnTruck
    <2> QED BY <1>1, <2>1, <2>2 DEF WebRunInv
  <1>7. CASE ServerBesideSite \/ UNCHANGED webSystemVars
    BY <1>3, <1>7 DEF ServerBesideSite, webSystemVars
  <1> QED BY <1>4, <1>5, <1>6, <1>7 DEF NextWeb, Website

LEMMA InitWebRun == InitWeb => WebRunInv
  <1>1. InitWeb => WebInv /\ RunInv  BY InitViews, InitRun DEF InitWeb
  <1>2. InitWeb => CopiesOnTruck  BY DEF InitWeb, CopiesOnTruck
  <1> QED BY <1>1, <1>2 DEF WebRunInv

\* The pages add no faults.
LEMMA WebFewBefore ==
  ASSUME Counted, [NextWeb]_webSystemVars
  PROVE  Counted' /\ (FewFaults' => FewFaults)
  <1>1. CASE [Next]_vars  BY <1>1, FewBefore
  <1>2. CASE UNCHANGED <<losses, repeats>>  BY <1>2 DEF Counted, FewFaults
  <1>3. CASE Website
    BY <1>2, <1>3 DEF Website, edit_address, feedback, ReadRow, save, create_account,
                      vars, serverVars
  <1>4. CASE ServerBesideSite \/ UNCHANGED webSystemVars
    BY <1>1, <1>4 DEF ServerBesideSite, webSystemVars
  <1> QED BY <1>3, <1>4 DEF NextWeb

\* As long as one message or set entry at most is lost and nothing is repeated without
\* need, whatever the pages save and when: every copy of a row, and every command about
\* the package, names the truck of its row.
THEOREM WebTruckOfPackage == SpecWeb => [](FewFaults => TruckOfPackage)
  <1> DEFINE Inv == Counted /\ (FewFaults => WebRunInv)
  <1>1. InitWeb => Inv
    <2>1. InitWeb => Counted  BY DEF InitWeb, Init, InitServer, Counted
    <2> QED BY <2>1, InitWebRun
  <1>2. Inv /\ [NextWeb]_webSystemVars => Inv'  BY WebFewBefore, TruckStep
  <1>3. Inv => (FewFaults => TruckOfPackage)
    BY DEF WebRunInv, CopiesOnTruck, RunInv, PickupInv, OnItsTruck, TruckOfPackage
  <1> QED BY <1>1, <1>2, <1>3, PTL DEF SpecWeb

-----------------------------------------------------------------------------
(* What the pages can do to the handlers *)

\* As long as no page wrote an old status back, no arrival is undone; as long as no page
\* created an account that a pickup is about to insert, the insertion succeeds.
CauseInv ==
  /\ overwritten = {} => Dealt
  /\ raced = {} => UserFree
  /\ CrashHasCause

LEMMA ServerCause ==
  ASSUME FewFaults', AccountsApart, RunInv, CauseInv, [Next]_vars, UNCHANGED <<overwritten, raced>>
  PROVE  CauseInv'
  <1>0. UPSInv  BY DEF RunInv, ContractInv
  <1>1. overwritten = {} => Dealt'  BY <1>0, DealtStep DEF RunInv, CauseInv
  <1>2. raced = {} => UserFree'  BY <1>0, UserFreeStep DEF RunInv, CauseInv
  <1>3. overwritten = {} /\ raced = {} => ~crashed'
    BY Survives DEF CauseInv, CrashHasCause
  <1> QED BY <1>1, <1>2, <1>3 DEF CauseInv, CrashHasCause

LEMMA SaveCause ==
  ASSUME WebRunInv, CauseInv, NEW v \in views, save(v)
  PROVE  CauseInv'
  <1>0. WebInv /\ RunInv /\ CopiesOnTruck /\ UPSInv /\ PickupInv /\ ArrivedInv
    BY DEF WebRunInv, WebInv, RunInv
  <1>1. /\ BesideServer /\ TruckStays /\ UNCHANGED user_users
        /\ \A p \in Packages : user_packages'[p] = IF p = v.item THEN v.row ELSE user_packages[p]
    BY <1>0, SaveTrucks
  <1>2. UPSInv'  BY <1>0, SaveKeeps DEF WebInv
  <1>3. \A r : Past(r)' <=> Past(r)  BY <1>0, <1>1, <1>2, BesideRun
  <1>4. UNCHANGED <<workers, world_issued, crashed, raced>>
    BY <1>1 DEF BesideServer, worldVars, save
  <1>5. UserFree => UserFree'  BY <1>1, <1>4 DEF UserFree
  <1>6. overwritten \subseteq overwritten'  BY DEF save
  <1>7. ASSUME overwritten' = {} PROVE Dealt'
    <2>1. overwritten = {} /\ v.row.status = user_packages[v.item].status  BY <1>7 DEF save
    <2>2. \A p \in Packages : user_packages'[p].status = user_packages[p].status
      BY <1>1, <2>1
    <2>3. \A r \in Arrivals : r.item \in Packages  BY <1>0, ArrivalRow
    <2>4. Dealt  BY <2>1 DEF CauseInv
    <2>5. Arrivals' = Arrivals  BY <1>4 DEF Arrivals
    <2> QED BY <1>3, <2>2, <2>3, <2>4, <2>5 DEF Dealt
  <1> QED BY <1>4, <1>5, <1>6, <1>7 DEF CauseInv, CrashHasCause

LEMMA AccountCause ==
  ASSUME WebRunInv, CauseInv, NEW a \in Accounts, create_account(a)
  PROVE  CauseInv'
  <1>0. RunInv  BY DEF WebRunInv
  <1>1. BesideServer /\ TruckStays /\ UNCHANGED <<user_packages, overwritten>>
    BY AccountBeside
  <1>2. UPSInv'  BY AccountKeeps DEF WebRunInv, WebInv
  <1>3. \A r : Past(r)' <=> Past(r)  BY <1>0, <1>1, <1>2, BesideRun
  <1>4. UNCHANGED <<workers, world_issued, crashed>>
    BY <1>1 DEF BesideServer, worldVars
  <1>5. Dealt => Dealt'  BY <1>1, <1>3, <1>4 DEF Dealt, Arrivals
  <1>6. raced \subseteq raced' /\ user_users' = user_users \cup {a}  BY DEF create_account
  <1>7. ASSUME raced' = {} PROVE UserFree'
    <2>1. /\ raced = {}
          /\ \A w \in Workers : workers[w].stage = "no user" => AccountOf[workers[w].msg.item] # a
      BY <1>7 DEF create_account
    <2>2. UserFree  BY <2>1 DEF CauseInv
    <2> QED BY <1>4, <1>6, <2>1, <2>2 DEF UserFree
  <1> QED BY <1>1, <1>4, <1>5, <1>6, <1>7 DEF CauseInv, CrashHasCause

LEMMA CauseStep ==
  ASSUME FewFaults', AccountsApart, WebRunInv, CauseInv, [NextWeb]_webSystemVars
  PROVE  CauseInv'
  <1>0. WebInv /\ RunInv  BY DEF WebRunInv
  <1>1. CASE [Next]_vars /\ UNCHANGED webVars  BY <1>0, <1>1, ServerCause DEF webVars
  <1>2. CASE ServerBesideSite \/ UNCHANGED webSystemVars
    BY <1>1, <1>2 DEF ServerBesideSite, webSystemVars
  <1>3. ASSUME NEW p \in Packages, edit_address(p) \/ feedback(p) PROVE CauseInv'
    BY <1>0, <1>3, ReadBeside, ServerCause
  <1> QED BY <1>2, <1>3, SaveCause, AccountCause DEF NextWeb, Website

\* As long as one message or set entry at most is lost and nothing is repeated without
\* need, and if no two packages wait for one new account, the server ends with an
\* exception only because of the site: it wrote an old status over a newer one, or created
\* an account that a pickup was about to insert.
THEOREM WebCrashHasCause ==
  ASSUME AccountsApart
  PROVE  SpecWeb => [](FewFaults => CrashHasCause)
  <1> DEFINE Inv == Counted /\ (FewFaults => WebRunInv /\ CauseInv)
  <1>1. InitWeb => Inv
    <2>1. InitWeb => Dealt /\ UserFree  BY InitRun DEF InitWeb
    <2>2. InitWeb => ~crashed /\ Counted  BY DEF InitWeb, Init, InitServer, Counted
    <2> QED BY <2>1, <2>2, InitWebRun DEF CauseInv, CrashHasCause
  <1>2. Inv /\ [NextWeb]_webSystemVars => Inv'  BY WebFewBefore, TruckStep, CauseStep
  <1>3. Inv => (FewFaults => CrashHasCause)  BY DEF CauseInv
  <1> QED BY <1>1, <1>2, <1>3, PTL DEF SpecWeb

=============================================================================
