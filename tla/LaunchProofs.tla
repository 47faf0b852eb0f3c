----------------------------- MODULE LaunchProofs -----------------------------
(***************************************************************************)
(* The link between Amazon and UPS for every number of trucks, of failures  *)
(* and of restarts.                                                         *)
(***************************************************************************)
EXTENDS Launch, TLAPS

\* The trucks are missing or complete unless an insertion was interrupted, and a UPS
\* that found the table empty starts with no truck.
FleetInv ==
  /\ ups \in {"off", "counting"} => user_trucks \in {0, TruckNum} \/ interrupted
  /\ ups = "waiting" /\ first => user_trucks = 0
  /\ ups \in {"waiting", "inserting"} /\ ~first => user_trucks = TruckNum \/ interrupted
  /\ FleetComplete

\* Amazon accepts only on the first socket of the process, which stays bound.
SocketInv ==
  /\ Server = "port" => port = "listening"
  /\ Server = "elsewhere" => amazon = "accepting"
  /\ Server = "none" => Connect = 0 /\ amazon \in {"connecting", "binding"}
  /\ Connect = 0 => amazon \in {"connecting", "binding", "accepting"}
  /\ amazon = "accepting" /\ Connect # 0 => Server = "elsewhere"

\* The connections are greeted in their order, each once, and the one that Amazon
\* works with was told its world.
GreetInv ==
  /\ \A g, h \in greeted : (g.conn = h.conn) <=> (g.world = h.world)
  /\ \A g \in greeted, i \in 1 .. Len(backlog) : g.conn < backlog[i]
  /\ \A i, j \in 1 .. Len(backlog) : i < j => backlog[i] < backlog[j]
  /\ amazon \in {"confirming", "linked"} =>
       /\ [conn |-> Connect, world |-> world_id] \in greeted
       /\ \A g \in greeted : g.conn <= Connect
  /\ amazon \in {"binding", "accepting"} =>
       world_id \in 1 .. worlds /\ \A g \in greeted : g.world # world_id

\* A UPS in the world is in the world it was told, and it confirms only that.
JoinInv ==
  /\ ups \in {"inserting", "confirming", "serving"} => \E g \in greeted : g.conn = process
  /\ joined # 0 => [conn |-> process, world |-> joined] \in greeted
  /\ [conn |-> process, connected |-> TRUE] \in confirmed => joined # 0
  /\ amazon = "linked" => Confirmed(Connect)

LaunchInv == LaunchTypeOK /\ FleetInv /\ SocketInv /\ GreetInv /\ JoinInv

LEMMA HeadTail ==
  ASSUME NEW s \in Seq(Int), s # <<>>
  PROVE  /\ Len(s) \in Nat \ {0} /\ Head(s) = s[1]
         /\ Len(Tail(s)) = Len(s) - 1
         /\ \A i \in 1 .. Len(Tail(s)) : i + 1 \in 1 .. Len(s) /\ Tail(s)[i] = s[i + 1]
  <1>1. Len(s) \in Nat \ {0} /\ Head(s) = s[1] /\ Len(Tail(s)) = Len(s) - 1  OBVIOUS
  <1>2. \A i \in 1 .. Len(Tail(s)) : Tail(s)[i] = s[i + 1]  OBVIOUS
  <1>3. \A i \in 1 .. Len(Tail(s)) : i + 1 \in 1 .. Len(s)  BY <1>1
  <1> QED BY <1>1, <1>2, <1>3

LEMMA AppendEntries ==
  ASSUME NEW s \in Seq(Int), NEW x \in Int
  PROVE  /\ Len(s) \in Nat /\ Len(Append(s, x)) = Len(s) + 1
         /\ \A i \in 1 .. Len(s) : Append(s, x)[i] = s[i]
         /\ Append(s, x)[Len(s) + 1] = x
  OBVIOUS

LEMMA SeqOfMore ==
  ASSUME NEW m \in Nat, NEW n \in Nat, m <= n, NEW s \in Seq(1 .. m)
  PROVE  s \in Seq(1 .. n) /\ s \in Seq(Int) /\ \A i \in 1 .. Len(s) : s[i] \in 1 .. m
  <1>1. 1 .. m \subseteq 1 .. n /\ 1 .. m \subseteq Int  OBVIOUS
  <1> QED BY <1>1

LEMMA SeqOps ==
  ASSUME NEW S, NEW s \in Seq(S), NEW x \in S
  PROVE  /\ Append(s, x) \in Seq(S)
         /\ s # <<>> => Head(s) \in S /\ Tail(s) \in Seq(S)
  OBVIOUS

LEMMA InitLaunchInv == InitLaunch => LaunchInv
  <1> SUFFICES ASSUME InitLaunch PROVE LaunchInv
    OBVIOUS
  <1> USE LaunchAssumption DEF InitLaunch
  <1>1. LaunchTypeOK
    <2>1. backlog \in Seq(1 .. process)  OBVIOUS
    <2>2. /\ world_id \in 0 .. worlds /\ Connect \in 0 .. process /\ joined \in 0 .. worlds
          /\ user_trucks \in 0 .. TruckNum /\ failures \in 0 .. MaxFailures
      OBVIOUS
    <2>3. /\ greeted \subseteq [conn : 1 .. process, world : 1 .. worlds]
          /\ confirmed \subseteq [conn : 1 .. process, connected : BOOLEAN]
      OBVIOUS
    <2> QED BY <2>1, <2>2, <2>3 DEF LaunchTypeOK
  <1>2. FleetInv /\ SocketInv  BY DEF FleetInv, FleetComplete, SocketInv
  <1>3. GreetInv
    <2>1. Len(backlog) = 0  OBVIOUS
    <2> QED BY <2>1 DEF GreetInv
  <1>4. JoinInv  BY DEF JoinInv
  <1> QED BY <1>1, <1>2, <1>3, <1>4 DEF LaunchInv

\* The steps of Amazon keep the types.
LEMMA TypeStep == LaunchInv /\ [NextLaunch]_launchVars => LaunchTypeOK'
  <1> SUFFICES ASSUME LaunchInv, [NextLaunch]_launchVars PROVE LaunchTypeOK'
    OBVIOUS
  <1> USE LaunchAssumption DEF LaunchInv, LaunchTypeOK, amazonVars, upsVars, Fail
  <1>1. CASE Amazon_connect_to_world
    <2>1. greeted' = greeted /\ confirmed' = confirmed /\ backlog' = backlog
          /\ process' = process
      BY <1>1 DEF Amazon_connect_to_world
    <2>2. worlds' \in Nat /\ worlds <= worlds'  BY <1>1 DEF Amazon_connect_to_world
    <2>3. greeted' \subseteq [conn : 1 .. process', world : 1 .. worlds']
      BY <2>1, <2>2
    <2> QED BY <1>1, <2>1, <2>3 DEF Amazon_connect_to_world
  <1>2. CASE Listen  BY <1>2 DEF Listen
  <1>3. CASE Accept
    <2>1. Head(backlog) \in 1 .. process /\ Tail(backlog) \in Seq(1 .. process)
      BY <1>3, SeqOps DEF Accept
    <2>2. world_id \in 1 .. worlds  BY <1>3 DEF Accept, Accepts, GreetInv
    <2>3. [conn |-> Head(backlog), world |-> world_id] \in [conn : 1 .. process, world : 1 .. worlds]
      BY <2>1, <2>2
    <2> QED BY <1>3, <2>1, <2>3 DEF Accept, Greeting
  <1>4. CASE Confirm  BY <1>4 DEF Confirm
  <1>5. CASE AmazonRestarts  BY <1>5 DEF AmazonRestarts
  <1>6. CASE PortIsReleased  BY <1>6 DEF PortIsReleased
  <1>7. CASE StartUPS
    <2>1. process' = process + 1 /\ backlog' = Append(backlog, process + 1)
      BY <1>7 DEF StartUPS
    <2>2. backlog \in Seq(1 .. process')  BY <2>1, SeqOfMore
    <2>3. backlog' \in Seq(1 .. process')  BY <2>1, <2>2, SeqOps
    <2>4. greeted' = greeted /\ confirmed' = confirmed /\ worlds' = worlds
      BY <1>7 DEF StartUPS
    <2>5. 1 .. process \subseteq 1 .. process'  BY <2>1
    <2>6. greeted' \subseteq [conn : 1 .. process', world : 1 .. worlds']
      BY <2>4, <2>5
    <2>7. confirmed' \subseteq [conn : 1 .. process', connected : BOOLEAN]
      BY <2>4, <2>5
    <2> QED BY <1>7, <2>3, <2>6, <2>7 DEF StartUPS
  <1>8. CASE CountTrucks  BY <1>8 DEF CountTrucks
  <1>9. CASE ReadWorld  BY <1>9 DEF ReadWorld
  <1>10. CASE InsertTruck  BY <1>10 DEF InsertTruck, AllInserted
  <1>11. CASE JoinWorld
    <2>1. \E w \in 1 .. worlds : [conn |-> process, world |-> w] \in greeted
      BY <1>11 DEF JoinWorld, JoinInv
    <2>2. World(process) \in 1 .. worlds  BY <2>1 DEF World
    <2> QED BY <1>11, <2>2 DEF JoinWorld
  <1>12. CASE SendConfirm
    <2>1. ups # "off"  BY <1>12 DEF SendConfirm
    <2>2. process \in 1 .. process
      BY <1>12 DEF SendConfirm, JoinInv
    <2>3. [conn |-> process, connected |-> joined # 0] \in [conn : 1 .. process, connected : BOOLEAN]
      BY <2>2
    <2> QED BY <1>12, <2>3 DEF SendConfirm
  <1>13. CASE UPSEnds  BY <1>13 DEF UPSEnds
  <1>14. CASE UNCHANGED launchVars  BY <1>14 DEF launchVars
  <1> QED BY <1>1, <1>2, <1>3, <1>4, <1>5, <1>6, <1>7, <1>8, <1>9, <1>10, <1>11, <1>12,
             <1>13, <1>14 DEF NextLaunch, AmazonMain, UPSMain

\* Only UPS writes the table of trucks.
LEMMA FleetStep == LaunchInv /\ [NextLaunch]_launchVars => FleetInv'
  <1> SUFFICES ASSUME LaunchInv, [NextLaunch]_launchVars PROVE FleetInv'
    OBVIOUS
  <1> USE LaunchAssumption DEF LaunchInv, LaunchTypeOK, FleetInv, FleetComplete, upsVars
  <1>1. CASE UNCHANGED <<ups, first, user_trucks, interrupted>>  BY <1>1
  <1>2. CASE StartUPS  BY <1>2 DEF StartUPS
  <1>3. CASE CountTrucks  BY <1>3 DEF CountTrucks
  <1>4. CASE ReadWorld  BY <1>4 DEF ReadWorld
  <1>5. CASE InsertTruck  BY <1>5 DEF InsertTruck, AllInserted
  <1>6. CASE JoinWorld  BY <1>6 DEF JoinWorld, AllInserted
  <1>7. CASE SendConfirm  BY <1>7 DEF SendConfirm
  <1>8. CASE UPSEnds  BY <1>8 DEF UPSEnds
  <1>9. CASE AmazonMain \/ AmazonRestarts \/ PortIsReleased \/ UNCHANGED launchVars
    BY <1>1, <1>9 DEF AmazonMain, Amazon_connect_to_world, Listen, Accept, Confirm,
       AmazonRestarts, PortIsReleased, launchVars
  <1> QED BY <1>2, <1>3, <1>4, <1>5, <1>6, <1>7, <1>8, <1>9 DEF NextLaunch, UPSMain

\* Only Amazon changes its sockets.
LEMMA SocketStep == LaunchInv /\ [NextLaunch]_launchVars => SocketInv'
  <1> SUFFICES ASSUME LaunchInv, [NextLaunch]_launchVars PROVE SocketInv'
    OBVIOUS
  <1> USE DEF LaunchInv, LaunchTypeOK, SocketInv, amazonVars
  <1>1. CASE UNCHANGED <<Server, port, amazon, Connect>>  BY <1>1
  <1>2. CASE Amazon_connect_to_world  BY <1>2 DEF Amazon_connect_to_world, upsVars
  <1>3. CASE Listen  BY <1>3 DEF Listen, PortIsFree
  <1>4. CASE Accept
    <2>1. Head(backlog) # 0  BY <1>4, SeqOps DEF Accept
    <2> QED BY <1>4, <2>1 DEF Accept
  <1>5. CASE Confirm  BY <1>5 DEF Confirm
  <1>6. CASE AmazonRestarts  BY <1>6 DEF AmazonRestarts
  <1>7. CASE PortIsReleased  BY <1>7 DEF PortIsReleased
  <1>8. CASE StartUPS \/ UPSMain \/ UPSEnds \/ UNCHANGED launchVars
    BY <1>1, <1>8 DEF StartUPS, UPSMain, CountTrucks, ReadWorld, InsertTruck, JoinWorld,
       SendConfirm, UPSEnds, launchVars
  <1> QED BY <1>2, <1>3, <1>4, <1>5, <1>6, <1>7, <1>8 DEF NextLaunch, AmazonMain

\* The numbers of worlds and connections only grow.
LEMMA GreetStep == LaunchInv /\ [NextLaunch]_launchVars => GreetInv'
  <1> SUFFICES ASSUME LaunchInv, [NextLaunch]_launchVars PROVE GreetInv'
    OBVIOUS
  <1> USE DEF LaunchInv, LaunchTypeOK, amazonVars
  <1>0. backlog \in Seq(Int) /\ \A i \in 1 .. Len(backlog) : backlog[i] \in 1 .. process
    BY SeqOfMore
  <1>a. \A g \in greeted : g.conn \in 1 .. process  OBVIOUS
  <1>b. \A g \in greeted, i \in 1 .. Len(backlog) : g.conn < backlog[i]  BY DEF GreetInv
  <1>c. \A i, j \in 1 .. Len(backlog) : i < j => backlog[i] < backlog[j]  BY DEF GreetInv
  <1>1. CASE UNCHANGED <<amazon, world_id, worlds, backlog, Connect, greeted>>
    BY <1>1 DEF GreetInv
  <1>2. CASE Amazon_connect_to_world
    <2>1. CASE UNCHANGED <<amazon, world_id, worlds>>
      BY <1>1, <1>2, <2>1 DEF Amazon_connect_to_world
    <2>2. CASE amazon' = "binding" /\ worlds' = worlds + 1 /\ world_id' = worlds + 1
      <3>1. \A g \in greeted : g.world # world_id'  BY <2>2
      <3> QED BY <1>2, <2>2, <3>1 DEF Amazon_connect_to_world, GreetInv
    <2> QED BY <1>2, <2>1, <2>2 DEF Amazon_connect_to_world
  <1>3. CASE Listen  BY <1>3 DEF Listen, GreetInv
  <1>4. CASE Accept
    <2> DEFINE c == Head(backlog)
               new == [conn |-> c, world |-> world_id]
    <2>1. /\ greeted' = greeted \cup {new} /\ backlog' = Tail(backlog) /\ backlog # <<>>
          /\ amazon' = "confirming" /\ amazon = "accepting"
          /\ world_id' = world_id /\ Connect' = c /\ worlds' = worlds
      BY <1>4 DEF Accept, Accepts, Greeting
    <2>2. /\ Len(backlog) \in Nat \ {0} /\ c = backlog[1]
          /\ Len(backlog') = Len(backlog) - 1
          /\ \A i \in 1 .. Len(backlog') :
               i + 1 \in 1 .. Len(backlog) /\ backlog'[i] = backlog[i + 1]
      BY <1>0, <2>1, HeadTail
    <2>3. \A g \in greeted : g.conn < c /\ g.world # world_id
      BY <2>1, <2>2 DEF GreetInv
    <2>4. \A i \in 1 .. Len(backlog') : c < backlog'[i]
      BY <1>0, <2>1, <2>2 DEF GreetInv
    <2>5. \A g \in greeted, i \in 1 .. Len(backlog') : g.conn < backlog'[i]
      <3> SUFFICES ASSUME NEW g \in greeted, NEW i \in 1 .. Len(backlog')
                   PROVE  g.conn < backlog'[i]
        OBVIOUS
      <3>1. i + 1 \in 1 .. Len(backlog) /\ backlog'[i] = backlog[i + 1]  BY <2>2
      <3> QED BY <1>b, <3>1
    <2>6. \A i, j \in 1 .. Len(backlog') : i < j => backlog'[i] < backlog'[j]
      <3> SUFFICES ASSUME NEW i \in 1 .. Len(backlog'), NEW j \in 1 .. Len(backlog'), i < j
                   PROVE  backlog'[i] < backlog'[j]
        OBVIOUS
      <3>1. /\ i + 1 \in 1 .. Len(backlog) /\ backlog'[i] = backlog[i + 1]
            /\ j + 1 \in 1 .. Len(backlog) /\ backlog'[j] = backlog[j + 1]
        BY <2>2
      <3> QED BY <1>c, <3>1
    <2>7. \A g, h \in greeted' : (g.conn = h.conn) <=> (g.world = h.world)
      BY <1>0, <2>1, <2>2, <2>3 DEF GreetInv
    <2>8. \A g \in greeted' : g.conn <= c
      BY <1>0, <2>1, <2>2, <2>3
    <2> QED BY <1>0, <2>1, <2>2, <2>4, <2>5, <2>6, <2>7, <2>8 DEF GreetInv
  <1>5. CASE Confirm  BY <1>5 DEF Confirm, GreetInv
  <1>6. CASE AmazonRestarts
    <2>1. Len(backlog') = 0  BY <1>6 DEF AmazonRestarts
    <2> QED BY <1>6, <2>1 DEF AmazonRestarts, GreetInv
  <1>7. CASE StartUPS
    <2>1. /\ backlog' = Append(backlog, process + 1)
          /\ UNCHANGED <<amazon, world_id, worlds, Connect, greeted>>
      BY <1>7 DEF StartUPS
    <2>2. /\ Len(backlog) \in Nat /\ Len(backlog') = Len(backlog) + 1
          /\ \A i \in 1 .. Len(backlog) : backlog'[i] = backlog[i]
          /\ backlog'[Len(backlog) + 1] = process + 1
      BY <1>0, <2>1, AppendEntries
    <2>3. \A i \in 1 .. Len(backlog') :
            \/ i \in 1 .. Len(backlog) /\ backlog'[i] = backlog[i]
            \/ i = Len(backlog) + 1 /\ backlog'[i] = process + 1
      BY <2>2
    <2>4. \A g \in greeted, i \in 1 .. Len(backlog') : g.conn < backlog'[i]
      <3> SUFFICES ASSUME NEW g \in greeted, NEW i \in 1 .. Len(backlog')
                   PROVE  g.conn < backlog'[i]
        OBVIOUS
      <3>1. CASE i \in 1 .. Len(backlog) /\ backlog'[i] = backlog[i]  BY <1>b, <3>1
      <3>2. CASE backlog'[i] = process + 1  BY <1>a, <3>2
      <3> QED BY <2>3, <3>1, <3>2
    <2>5. \A i, j \in 1 .. Len(backlog') : i < j => backlog'[i] < backlog'[j]
      <3> SUFFICES ASSUME NEW i \in 1 .. Len(backlog'), NEW j \in 1 .. Len(backlog'), i < j
                   PROVE  backlog'[i] < backlog'[j]
        OBVIOUS
      <3>1. i \in 1 .. Len(backlog) /\ backlog'[i] = backlog[i]  BY <2>2
      <3>2. CASE j \in 1 .. Len(backlog) /\ backlog'[j] = backlog[j]  BY <1>c, <3>1, <3>2
      <3>3. CASE backlog'[j] = process + 1  BY <1>0, <3>1, <3>3
      <3> QED BY <2>3, <3>2, <3>3
    <2> QED BY <2>1, <2>4, <2>5 DEF GreetInv
  <1>8. CASE PortIsReleased \/ UPSMain \/ UPSEnds \/ UNCHANGED launchVars
    BY <1>1, <1>8 DEF PortIsReleased, UPSMain, CountTrucks, ReadWorld, InsertTruck,
       JoinWorld, SendConfirm, UPSEnds, launchVars
  <1> QED BY <1>2, <1>3, <1>4, <1>5, <1>6, <1>7, <1>8 DEF NextLaunch, AmazonMain

LEMMA JoinStep == LaunchInv /\ [NextLaunch]_launchVars => JoinInv'
  <1> SUFFICES ASSUME LaunchInv, [NextLaunch]_launchVars PROVE JoinInv'
    OBVIOUS
  <1> USE DEF LaunchInv, LaunchTypeOK, JoinInv, Confirmed, upsVars, amazonVars
  <1>1. CASE /\ UNCHANGED <<ups, process, joined, confirmed>>
             /\ greeted \subseteq greeted'
             /\ amazon' = "linked" => amazon = "linked" /\ Connect' = Connect
    BY <1>1
  <1>2. CASE AmazonMain
    <2>1. CASE Amazon_connect_to_world  BY <1>1, <2>1 DEF Amazon_connect_to_world
    <2>2. CASE Listen  BY <1>1, <2>2 DEF Listen
    <2>3. CASE Accept  BY <1>1, <2>3 DEF Accept, Greeting
    <2>4. CASE Confirm  BY <2>4 DEF Confirm
    <2> QED BY <1>2, <2>1, <2>2, <2>3, <2>4 DEF AmazonMain
  <1>3. CASE AmazonRestarts  BY <1>1, <1>3 DEF AmazonRestarts
  <1>4. CASE StartUPS
    <2>1. [conn |-> process + 1, connected |-> TRUE] \notin confirmed  OBVIOUS
    <2> QED BY <1>4, <2>1 DEF StartUPS
  <1>5. CASE ReadWorld  BY <1>5 DEF ReadWorld
  <1>6. CASE JoinWorld
    <2>1. \E w \in 1 .. worlds : [conn |-> process, world |-> w] \in greeted
      BY <1>6 DEF JoinWorld
    <2>2. /\ World(process) \in 1 .. worlds
          /\ [conn |-> process, world |-> World(process)] \in greeted
      BY <2>1 DEF World
    <2>3. World(process) # 0  BY <2>2
    <2> QED BY <1>6, <2>2, <2>3 DEF JoinWorld
  <1>7. CASE SendConfirm  BY <1>7 DEF SendConfirm
  <1>8. CASE PortIsReleased \/ CountTrucks \/ InsertTruck \/ UPSEnds \/ UNCHANGED launchVars
    BY <1>8 DEF PortIsReleased, CountTrucks, InsertTruck, UPSEnds, launchVars
  <1> QED BY <1>2, <1>3, <1>4, <1>5, <1>6, <1>7, <1>8 DEF NextLaunch, UPSMain

LEMMA LaunchInvariance == SpecLaunch => []LaunchInv
  <1>1. LaunchInv /\ [NextLaunch]_launchVars => LaunchInv'
    BY TypeStep, FleetStep, SocketStep, GreetStep, JoinStep DEF LaunchInv
  <1> QED BY InitLaunchInv, <1>1, PTL DEF SpecLaunch

\* The variables have their types: no more trucks are inserted than there are, and
\* nobody answers who has not connected.
THEOREM LaunchTypes == SpecLaunch => []LaunchTypeOK
  BY LaunchInvariance, PTL DEF LaunchInv

\* A UPS in the world has a complete table of trucks unless an earlier one was
\* interrupted while it filled the table.
THEOREM Fleet == SpecLaunch => []FleetComplete
  <1>1. LaunchInv => FleetComplete  BY DEF LaunchInv, FleetInv
  <1> QED BY <1>1, LaunchInvariance, PTL

\* After a failed bind Amazon is never linked.
THEOREM FailedBind == SpecLaunch => []FailedBindIsFinal
  <1>1. LaunchInv => FailedBindIsFinal  BY DEF LaunchInv, SocketInv, FailedBindIsFinal
  <1> QED BY <1>1, LaunchInvariance, PTL

\* After any number of attempts and restarts the two linked servers are in one world.
THEOREM LinkedInOneWorld == SpecLaunch => []SameWorld
  <1>1. LaunchInv => SameWorld
    <2> SUFFICES ASSUME LaunchInv, amazon = "linked", Open(Connect)
                 PROVE  joined = world_id
      BY DEF SameWorld
    <2>1. Connect = process  BY DEF Open
    <2>2. [conn |-> process, world |-> world_id] \in greeted
      BY <2>1 DEF LaunchInv, GreetInv
    <2>3. [conn |-> process, world |-> joined] \in greeted
      BY <2>1 DEF LaunchInv, JoinInv, Confirmed
    <2> QED BY <2>2, <2>3 DEF LaunchInv, GreetInv
  <1> QED BY <1>1, LaunchInvariance, PTL

\* No second UPS is told the world of the first, and none gets past its wait after the
\* link.
THEOREM OnlyTheOriginal == SpecLaunch => []OriginalUPSOnly
  <1>1. LaunchInv => OriginalUPSOnly
    <2> SUFFICES ASSUME LaunchInv, amazon = "linked", process # Connect,
                        ups \in {"inserting", "confirming", "serving"}
                 PROVE  FALSE
      BY DEF OriginalUPSOnly, LaunchInv, LaunchTypeOK, GreetInv
    <2>1. PICK g \in greeted : g.conn = process  BY DEF LaunchInv, JoinInv
    <2>2. process <= Connect  BY <2>1 DEF LaunchInv, GreetInv
    <2> QED BY <2>2 DEF LaunchInv, LaunchTypeOK
  <1> QED BY <1>1, LaunchInvariance, PTL

=============================================================================
