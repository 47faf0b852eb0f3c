-------------------------------- MODULE Launch --------------------------------
(***************************************************************************)
(* How the Amazon server and the UPS server find each other.               *)
(*                                                                         *)
(* Amazon makes a new world, listens for UPS, sends it the number of the   *)
(* world and waits for a confirmation; when anything fails it starts over. *)
(* UPS connects, fills its table of trucks if it is empty, joins the world *)
(* it was told and confirms.  Either process may end at any time and is    *)
(* started again by hand.  Two UPS processes cannot run at one time: the   *)
(* second one fails to bind the port of the e-mail helper and exits.       *)
(*                                                                         *)
(* The return codes of the socket calls decide what happens and most of    *)
(* them are not looked at.  Left out: the e-mail helper, the database      *)
(* being unreachable, and the coordinates of warehouses and trucks.        *)
(***************************************************************************)
EXTENDS Integers, SequencesExt

CONSTANTS
  TruckNum,      \* trucks of UPS
  MaxFailures    \* bounds the failed connections and the ends of processes

ASSUME LaunchAssumption == TruckNum \in Nat \ {0} /\ MaxFailures \in Nat

VARIABLES
  amazon,        \* the stage of Amazon's main
  world_id,      \* the world Amazon is connected to
  worlds,        \* the worlds made so far
  port,          \* what the port for UPS is: "free", "listening" or "lingering"
  Server,        \* the socket Amazon accepts on: "none", "port" or "elsewhere"
  backlog,       \* connections to the port that nobody has accepted yet
  Connect,       \* the connection Amazon has accepted, 0 for none
  greeted,       \* records [conn, world]: the numbers sent to UPS
  confirmed,     \* records [conn, connected]: the confirmations sent to Amazon
  ups,           \* the stage of UPS
  process,       \* the UPS processes started so far; also names its connection
  first,         \* the table of trucks was empty
  user_trucks,   \* the rows of the table
  joined,        \* the world the running or the last UPS has joined, 0 for none
  failures,
  interrupted    \* history: a UPS ended while it inserted its trucks

amazonVars == <<amazon, world_id, worlds, port, Server, backlog, Connect, greeted>>
upsVars == <<ups, process, first, user_trucks, joined, confirmed, interrupted>>
launchVars == <<amazonVars, upsVars, failures>>

Fail == failures < MaxFailures /\ failures' = failures + 1

-----------------------------------------------------------------------------
(* Amazon *)

\* Every connection makes a new world; a refused one is tried again.
Amazon_connect_to_world ==
  /\ amazon = "connecting"
  /\ \/ /\ amazon' = "binding"
        /\ worlds' = worlds + 1 /\ world_id' = worlds + 1
        /\ UNCHANGED failures
     \/ Fail /\ UNCHANGED <<amazon, world_id, worlds>>
  /\ UNCHANGED <<port, Server, backlog, Connect, greeted, upsVars>>

\* Faulty form: a port that is in use is bound once more.
AnyPort == TRUE
PortIsFree == port = "free"

\* The result of bind is not tested: listen then takes any free port.
Listen ==
  /\ amazon = "binding"
  /\ amazon' = "accepting"
  /\ IF PortIsFree THEN port' = "listening" /\ Server' = "port"
                      ELSE Server' = "elsewhere" /\ UNCHANGED port
  /\ UNCHANGED <<world_id, worlds, backlog, Connect, greeted, upsVars, failures>>

\* Faulty form: the main thread goes on to accept after the handshake.
AcceptsAgain == amazon \in {"accepting", "linked"}
Accepts == amazon = "accepting"

\* Faulty form: UPS is not told the number of the world.
Silent(conn) == greeted
Greeting(conn) == greeted \cup {[conn |-> conn, world |-> world_id]}

\* The number is written to whoever has connected, gone or not.
Accept ==
  /\ Accepts
  /\ Server = "port" /\ backlog # <<>>
  /\ amazon' = "confirming"
  /\ Connect' = Head(backlog) /\ backlog' = Tail(backlog)
  /\ greeted' = Greeting(Head(backlog))
  /\ UNCHANGED <<world_id, worlds, port, Server, upsVars, failures>>

Open(conn) == conn = process /\ ups # "off"

\* UPS has answered; faulty when taken for a confirmation: the flag is not read.
AnyAnswer(conn) == \E c \in confirmed : c.conn = conn
Confirmed(conn) == [conn |-> conn, connected |-> TRUE] \in confirmed

\* No confirmation can come any more, or it says that UPS is not in the world.
HandshakeFails ==
  \/ [conn |-> Connect, connected |-> FALSE] \in confirmed
  \/ ~Open(Connect) /\ ~AnyAnswer(Connect)

\* The sockets of a failed attempt stay open.
Confirm ==
  /\ amazon = "confirming"
  /\ \/ Confirmed(Connect) /\ amazon' = "linked"
     \/ HandshakeFails /\ ~Confirmed(Connect) /\ amazon' = "connecting"
  /\ UNCHANGED <<world_id, worlds, port, Server, backlog, Connect, greeted,
                 upsVars, failures>>

\* The process ends and starts again.  A port with connections cannot be bound for
\* a while after that, as SO_REUSEADDR is not set.
AmazonRestarts ==
  /\ Fail
  /\ amazon' = "connecting" /\ Server' = "none"
  /\ backlog' = <<>> /\ Connect' = 0
  /\ port' = IF port = "listening"
             THEN IF backlog = <<>> /\ Connect = 0 THEN "free" ELSE "lingering"
             ELSE port
  /\ UNCHANGED <<world_id, worlds, greeted, upsVars>>

PortIsReleased ==
  /\ port = "lingering" /\ port' = "free"
  /\ UNCHANGED <<amazon, world_id, worlds, Server, backlog, Connect, greeted,
                 upsVars, failures>>

-----------------------------------------------------------------------------
(* UPS *)

\* A UPS that nobody listens to ends before it changes anything.
StartUPS ==
  /\ ups = "off" /\ port = "listening"
  /\ ups' = "counting"
  /\ process' = process + 1
  /\ backlog' = Append(backlog, process + 1)
  /\ joined' = 0
  /\ UNCHANGED <<amazon, world_id, worlds, port, Server, Connect, greeted, first,
                 user_trucks, confirmed, interrupted, failures>>

CountTrucks ==
  /\ ups = "counting" /\ ups' = "waiting"
  /\ first' = (user_trucks = 0)
  /\ UNCHANGED <<amazonVars, process, user_trucks, joined, confirmed, interrupted,
                 failures>>

\* Amazon still has the connection of this process.
AmazonHolds(conn) == conn = Connect \/ conn \in ToSet(backlog)

ReadWorld ==
  /\ ups = "waiting"
  /\ ups' = IF \E g \in greeted : g.conn = process THEN "inserting" ELSE "off"
  /\ ups' = "off" => ~AmazonHolds(process)
  /\ UNCHANGED <<amazonVars, process, first, user_trucks, joined, confirmed,
                 interrupted, failures>>

\* Faulty forms: the last truck is forgotten, or there is one too many.
AllButOne == user_trucks >= TruckNum - 1
OneTooMany == user_trucks > TruckNum
AllInserted == user_trucks = TruckNum

\* One transaction per truck
InsertTruck ==
  /\ ups = "inserting"
  /\ first /\ ~AllInserted
  /\ user_trucks' = user_trucks + 1
  /\ UNCHANGED <<amazonVars, ups, process, first, joined, confirmed, interrupted,
                 failures>>

World(conn) == CHOOSE w \in 1 .. worlds : [conn |-> conn, world |-> w] \in greeted

\* The world answers "connected!" or something else.
JoinWorld ==
  /\ ups = "inserting" /\ (first => AllInserted)
  /\ ups' = "confirming"
  /\ \/ joined' = World(process) /\ UNCHANGED failures
     \/ Fail /\ UNCHANGED joined
  /\ UNCHANGED <<amazonVars, process, first, user_trucks, confirmed, interrupted>>

\* UPS goes on whatever it confirmed.  If Amazon has gone, the write may fail.
SendConfirm ==
  /\ ups = "confirming"
  /\ \/ /\ ups' = "serving"
        /\ confirmed' = confirmed \cup {[conn |-> process, connected |-> joined # 0]}
     \/ ~AmazonHolds(process) /\ ups' = "off" /\ UNCHANGED confirmed
  /\ UNCHANGED <<amazonVars, process, first, user_trucks, joined, interrupted, failures>>

UPSEnds ==
  /\ ups # "off" /\ Fail
  /\ ups' = "off"
  /\ interrupted' = \/ interrupted
                    \/ ups = "inserting" /\ user_trucks \in 1 .. TruckNum - 1
  /\ UNCHANGED <<amazonVars, process, first, user_trucks, joined, confirmed>>

-----------------------------------------------------------------------------

InitLaunch ==
  /\ amazon = "connecting" /\ world_id = 0 /\ worlds = 0
  /\ port = "free" /\ Server = "none"
  /\ backlog = <<>> /\ Connect = 0 /\ greeted = {} /\ confirmed = {}
  /\ ups = "off" /\ process = 0 /\ first = FALSE
  /\ user_trucks = 0 /\ joined = 0
  /\ failures = 0 /\ interrupted = FALSE

AmazonMain == Amazon_connect_to_world \/ Listen \/ Accept \/ Confirm

UPSMain == CountTrucks \/ ReadWorld \/ InsertTruck \/ JoinWorld \/ SendConfirm

NextLaunch ==
  AmazonMain \/ AmazonRestarts \/ PortIsReleased \/ StartUPS \/ UPSMain \/ UPSEnds

SpecLaunch == InitLaunch /\ [][NextLaunch]_launchVars

\* Both processes run on, and the operator starts UPS when Amazon listens.
LaunchFairness ==
  WF_launchVars(AmazonMain) /\ WF_launchVars(UPSMain) /\ WF_launchVars(StartUPS)

-----------------------------------------------------------------------------
(* Properties *)

LaunchTypeOK ==
  /\ amazon \in {"connecting", "binding", "accepting", "confirming", "linked"}
  /\ port \in {"free", "listening", "lingering"}
  /\ Server \in {"none", "port", "elsewhere"}
  /\ world_id \in 0 .. worlds /\ worlds \in Nat
  /\ backlog \in Seq(1 .. process) /\ Connect \in 0 .. process /\ process \in Nat
  /\ greeted \subseteq [conn : 1 .. process, world : 1 .. worlds]
  /\ confirmed \subseteq [conn : 1 .. process, connected : BOOLEAN]
  /\ ups \in {"off", "counting", "waiting", "inserting", "confirming", "serving"}
  /\ first \in BOOLEAN /\ user_trucks \in 0 .. TruckNum
  /\ joined \in 0 .. worlds
  /\ failures \in 0 .. MaxFailures /\ interrupted \in BOOLEAN

\* A linked Amazon and the UPS it is linked to are in the same world, however many
\* attempts and processes it took: a UPS that runs on from before does not count.
SameWorld ==
  amazon = "linked" /\ Open(Connect) => joined = world_id

\* A UPS in the world has all the trucks it told the world of, unless an earlier one
\* ended amid the insertions: its successor finds the table not empty.
FleetComplete ==
  ups \in {"confirming", "serving"} => user_trucks = TruckNum \/ interrupted

\* Dangerlog.txt:35: messages of the original UPS never go to a new one.  No two UPS
\* processes are told the same world, and after the link a new UPS waits as long as
\* this Amazon runs.
OriginalUPSOnly ==
  /\ \A g, h \in greeted : g.world = h.world => g.conn = h.conn
  /\ amazon = "linked" /\ process # Connect => ups \in {"off", "counting", "waiting"}

\* A failed bind is final: an Amazon that listens elsewhere is never linked, and a
\* second attempt of one process always listens elsewhere.
FailedBindIsFinal ==
  /\ Server = "elsewhere" => amazon # "linked"
  /\ amazon = "accepting" /\ Connect # 0 => Server = "elsewhere"

\* UPS runs on after the Amazon it served has ended, and reads its closed socket.
Orphaned == ups = "serving" /\ ~AmazonHolds(process)

\* In the end the two are linked, or Amazon waits where nobody connects, or UPS has
\* to be stopped by hand: neither waits for a message the other will not send.
LinkedOrHopeless == <>[](amazon = "linked" \/ Server = "elsewhere" \/ Orphaned)

=============================================================================
