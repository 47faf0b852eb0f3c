---------------------------- MODULE AmazonSystem ----------------------------
(***************************************************************************)
(* The Amazon server between its two peers.  The world simulator and UPS   *)
(* acknowledge every command when they read it, act on it the first time   *)
(* they read its number, and repeat their own responses until these are    *)
(* acknowledged.  UPS is the server of Mini_UPS seen from this side; its   *)
(* inside is the subject of UPSServer.                                     *)
(***************************************************************************)
EXTENDS AmazonServer

CONSTANT MaxRepeat   \* bounds the messages repeated without need

ASSUME RepeatAssumption == MaxRepeat \in Nat

VARIABLES
  world_seq, ups_seq,       \* the next numbers of the peers
  world_seen, ups_seen,     \* history: the commands they have read
  world_issued, ups_issued, \* history: the responses they gave a number
  world_out, ups_out,       \* responses not acknowledged yet
  repeats                   \* needless repetitions so far

worldVars == <<world_seq, world_seen, world_issued, world_out>>
upsVars == <<ups_seq, ups_seen, ups_issued, ups_out>>
vars == <<serverVars, to_world, from_world, to_ups, from_ups,
          worldVars, upsVars, repeats>>

-----------------------------------------------------------------------------
(* The world *)

WorldAnswerKind(c) ==
  CASE c.kind = "buy" -> "arrived"
    [] c.kind = "topack" -> "ready"
    [] c.kind = "load" ->
         IF \E r \in world_issued : r.kind = "loaded" /\ r.item = c.item
           THEN "error" ELSE "loaded"

WorldReadCommand ==
  LET c == Head(to_world)
      r == [kind |-> WorldAnswerKind(c), item |-> c.item, truck |-> NoTruck,
            seq |-> world_seq]
  IN  /\ to_world # <<>> /\ c.kind \in WorldCommands
      /\ to_world' = Tail(to_world)
      /\ Write(from_world, AckFor(c.seq))
      /\ world_seen' = world_seen \cup {c}
      /\ IF \E d \in world_seen : d.seq = c.seq
           THEN UNCHANGED <<world_seq, world_issued, world_out>>
           ELSE /\ world_seq' = world_seq + 1
                /\ world_issued' = world_issued \cup {r}
                /\ world_out' = world_out \cup {r}
      /\ UNCHANGED <<serverVars, to_ups, from_ups, upsVars, repeats>>

WorldReadAck ==
  /\ to_world # <<>> /\ Head(to_world).kind = "ack"
  /\ to_world' = Tail(to_world)
  /\ world_out' = {r \in world_out : r.seq # Head(to_world).seq}
  /\ UNCHANGED <<serverVars, from_world, to_ups, from_ups, world_seq,
                 world_seen, world_issued, upsVars, repeats>>

\* The response, or the answer to it, is still on its way.
WorldResponseUnderway(r) ==
  \/ r \in ToSet(from_world)
  \/ \E t \in Threads : threads[t] # Idle /\ threads[t].msg = r
  \/ r.seq \in acks_to_world
  \/ AckFor(r.seq) \in ToSet(to_world)

\* Bounds the repetition of what is still underway.
Repeating(underway) ==
  IF underway THEN repeats < MaxRepeat /\ repeats' = repeats + 1
              ELSE UNCHANGED repeats

WorldSend(r) ==
  /\ r \in world_out
  /\ Repeating(WorldResponseUnderway(r))
  /\ Write(from_world, r)
  /\ UNCHANGED <<serverVars, to_world, to_ups, from_ups, worldVars, upsVars>>

-----------------------------------------------------------------------------
(* UPS *)

UPSAnswer(c, t) ==
  [kind |-> IF c.kind = "pickupreq" THEN "truckarrived" ELSE "delivered",
   item |-> c.item,
   truck |-> IF c.kind = "pickupreq" THEN t ELSE NoTruck,
   seq |-> ups_seq]

\* UPS only looks at the number of a request.
UPSActsOn(c) == \A d \in ups_seen : d.seq # c.seq

\* It sends a package out for every "loaded"; the world may refuse to deliver a package
\* again, and then UPS has nothing to tell.
WorldMayRefuse(c) ==
  c.kind = "loaded" /\ \E r \in ups_issued : r.kind = "delivered" /\ r.item = c.item

UPSReadCommand ==
  LET c == Head(to_ups)
  IN  /\ to_ups # <<>> /\ c.kind \in UPSCommands
      /\ to_ups' = Tail(to_ups)
      /\ Write(from_ups, AckFor(c.seq))
      /\ ups_seen' = ups_seen \cup {c}
      /\ \/ /\ UPSActsOn(c)
            /\ \E t \in Trucks :
                 /\ ups_seq' = ups_seq + 1
                 /\ ups_issued' = ups_issued \cup {UPSAnswer(c, t)}
                 /\ ups_out' = ups_out \cup {UPSAnswer(c, t)}
         \/ /\ ~UPSActsOn(c) \/ WorldMayRefuse(c)
            /\ UNCHANGED <<ups_seq, ups_issued, ups_out>>
      /\ UNCHANGED <<serverVars, to_world, from_world, worldVars, repeats>>

UPSReadAck ==
  /\ to_ups # <<>> /\ Head(to_ups).kind = "ack"
  /\ to_ups' = Tail(to_ups)
  /\ ups_out' = {r \in ups_out : r.seq # Head(to_ups).seq}
  /\ UNCHANGED <<serverVars, to_world, from_world, from_ups, worldVars,
                 ups_seq, ups_seen, ups_issued, repeats>>

UPSResponseUnderway(r) ==
  \/ r \in ToSet(from_ups)
  \/ r.seq \in acks_to_UPS
  \/ AckFor(r.seq) \in ToSet(to_ups)

UPSSend(r) ==
  /\ r \in ups_out
  /\ Repeating(UPSResponseUnderway(r))
  /\ Write(from_ups, r)
  /\ UNCHANGED <<serverVars, to_world, from_world, to_ups, worldVars, upsVars>>

\* UPS reads with the same code as Amazon; the world may ignore what it is sent.
DropCommand(chan) ==
  /\ losses < MaxLoss /\ losses' = losses + 1
  /\ chan # <<>> /\ chan' = Tail(chan)

PeerLoses ==
  /\ \/ DropCommand(to_world) /\ UNCHANGED to_ups
     \/ DropCommand(to_ups) /\ UNCHANGED to_world
  /\ UNCHANGED <<sendVars, ackVars, recv_world_acks, recv_ups_acks,
                 orderVars, shipid_to_truckid, threads, order_status,
                 from_world, from_ups, worldVars, upsVars, repeats>>

-----------------------------------------------------------------------------
(* The system *)

Init ==
  /\ InitServer
  /\ world_seq = 0 /\ world_seen = {} /\ world_issued = {} /\ world_out = {}
  /\ ups_seq = 0 /\ ups_seen = {} /\ ups_issued = {} /\ ups_out = {}
  /\ repeats = 0

CommandUnderway(c, out, in) == c \in ToSet(out) \/ AckFor(c.seq) \in ToSet(in)

SendToWorld(c) ==
  /\ Send_command_to_world(c)
  /\ Repeating(CommandUnderway(c, to_world, from_world))
  /\ UNCHANGED <<worldVars, upsVars>>

SendToUPS(c) ==
  /\ Send_command_to_UPS(c)
  /\ Repeating(CommandUnderway(c, to_ups, from_ups))
  /\ UNCHANGED <<worldVars, upsVars>>

SendAck ==
  \/ \E n \in acks_to_world : send_acks_to_world(n)
  \/ \E n \in acks_to_UPS : Send_ack_to_UPS(n)

ServerStep ==
  /\ \/ \E o \in Orders : Process_order(o)
     \/ SendAck
     \/ WorldReceiver
     \/ UPSReceiver
     \/ \E t \in Threads : WorldThread(t)
  /\ UNCHANGED <<worldVars, upsVars, repeats>>

WorldStep == WorldReadCommand \/ WorldReadAck \/ \E r \in world_out : WorldSend(r)

UPSStep == UPSReadCommand \/ UPSReadAck \/ \E r \in ups_out : UPSSend(r)

Next ==
  \/ ServerStep
  \/ \E c \in Sending : SendToWorld(c) \/ SendToUPS(c)
  \/ WorldStep \/ UPSStep \/ PeerLoses

Spec == Init /\ [][Next]_vars

-----------------------------------------------------------------------------
(* Fairness.  The operating system runs the threads of the server, and the    *)
(* peers go on answering.  The loss of messages is never fair.  Because        *)
(* MaxRepeat and MaxLoss bound what is written needlessly, weak fairness of    *)
(* each kind of actor is enough: none of them can keep another one waiting     *)
(* for ever.                                                                   *)

Fairness ==
  /\ WF_vars(ServerStep)
  /\ WF_vars(\E c \in Sending : SendToWorld(c))
  /\ WF_vars(\E c \in Sending : SendToUPS(c))
  /\ WF_vars(WorldStep)
  /\ WF_vars(UPSStep)

FairSpec == Spec /\ Fairness

-----------------------------------------------------------------------------
(* Properties *)

\* Types of the variables; a number is acknowledged or sent only if it was given
\* out, and a message is acknowledged under the number it came with.
TypeOK ==
  /\ server_seq_num \in 0 .. AckBits
  /\ issued \subseteq Message(WorldCommands \cup UPSCommands)
  /\ acks_to_world \subseteq Nat /\ acks_to_UPS \subseteq Nat
  /\ send_acks \subseteq Nat
  /\ recv_world_acks \subseteq Nat /\ recv_ups_acks \subseteq Nat
  /\ seqnum_to_orderinfo \subseteq [seq : Nat, order : Orders]
  /\ shipid_to_truckid \in [Orders -> Trucks \cup {NoTruck}]
  /\ purchase_request_list \in [Warehouses -> Seq([seq : Nat, goods : Goods])]
  /\ purchase_mutex \in [Warehouses -> Threads \cup {NoThread}]
  /\ threads \in [Threads -> {Idle} \cup Running]
  /\ order_status \in [Orders -> Statuses]
  /\ to_world \in Seq(Message(WorldCommands) \cup Acks)
  /\ from_world \in Seq(Message(WorldResponses) \cup Acks)
  /\ to_ups \in Seq(Message(UPSCommands) \cup Acks)
  /\ from_ups \in Seq(Message(UPSResponses) \cup Acks)
  /\ losses \in Nat /\ repeats \in Nat
  /\ world_seq \in Nat /\ ups_seq \in Nat
  /\ world_seen \subseteq Message(WorldCommands)
  /\ ups_seen \subseteq Message(UPSCommands)
  /\ world_out \subseteq world_issued
  /\ ups_out \subseteq ups_issued
  /\ world_issued \subseteq Message(WorldResponses)
  /\ ups_issued \subseteq Message(UPSResponses)

\* However often the world reports an arrival and whatever threads handle the
\* reports together, an order is packed once and one truck is asked for.
PackedAtMostOnce ==
  \A c, d \in issued :
    /\ c.kind \in {"topack", "pickupreq"}
    /\ d.kind = c.kind /\ d.item = c.item
    => c = d

\* One counter and one bitset serve both peers.  Even so a number is taken for
\* acknowledged only when the peer the command is for has read that command.
NoFalseAck ==
  \A c \in issued : c.seq \in send_acks =>
    c \in IF c.kind \in WorldCommands THEN world_seen ELSE ups_seen

\* "loading" waits for the truck: every load names the one truck that UPS
\* reported for this order, also when two threads handle the same "ready".
LoadOnAssignedTruck ==
  \A c \in issued : c.kind = "load" =>
    \E r \in ups_issued : /\ r.kind = "truckarrived"
                          /\ r.item = c.item /\ r.truck = c.truck

\* An order the server accepted waits for its goods or a truck was asked for: the
\* purchase that is erased is the one whose order is packed and picked up.
NoOrderForgotten ==
  \A e \in seqnum_to_orderinfo :
    \/ \E w \in Warehouses :
         \E i \in DOMAIN purchase_request_list[w] :
           purchase_request_list[w][i].seq = e.seq
    \/ \E c \in issued : c.kind = "pickupreq" /\ c.item = e.order

Reported(log, kind, o) == \E r \in log : r.kind = kind /\ r.item = o

\* The status column never runs ahead of the package: a customer who reads
\* "loading" has a packed package and a truck, one who reads "delivering" a
\* package on a truck, and one who reads "delivered" a delivered package.
StatusIsEarned ==
  \A o \in Orders :
    /\ order_status[o] # "ordered" => Reported(issued, "topack", o)
    /\ order_status[o] \in {"packed", "loading", "delivering", "delivered"}
         => Reported(world_issued, "ready", o)
    /\ order_status[o] \in {"loading", "delivering", "delivered"}
         => Reported(ups_issued, "truckarrived", o)
    /\ order_status[o] \in {"delivering", "delivered"}
         => Reported(world_issued, "loaded", o)
    /\ order_status[o] = "delivered" => Reported(ups_issued, "delivered", o)

\* What was said of the orders: by Amazon in its commands, by UPS in its responses
Said ==
  {<<c.item, c.kind>> : c \in ups_issued \cup {d \in issued : d.kind \in UPSCommands}}

Contract == INSTANCE Shipment WITH Packages <- Orders, said <- Said

\* Amazon keeps the contract of amazon_ups.proto: whatever its threads do together
\* and whatever is lost, no order is reported on board before UPS named a truck.
KeepsContract == Contract!Spec

\* In spite of lost messages every order is delivered in the end.
EveryOrderDelivered == \A o \in Orders : <>(order_status[o] = "delivered")

\* Both sides stop to repeat themselves: each message is acknowledged in the end.
RetransmissionStops ==
  <>[](Sending = {} /\ world_out = {} /\ ups_out = {})

Rank == [ordered |-> 0, packing |-> 1, packed |-> 2, loading |-> 3,
         delivering |-> 4, delivered |-> 5]

\* Dangerlog.txt:29 says that the row lock keeps the status column correct.  This
\* would mean that the status of an order only advances.
StatusNeverRegresses ==
  [][\A o \in Orders : Rank[order_status'[o]] >= Rank[order_status[o]]]_order_status

\* Dangerlog.txt:26 says that a repeated message is acknowledged and not handled
\* again.  This would mean that goods are packed as often as they arrived.
PackedOnlyArrived ==
  \A g \in Goods :
    Cardinality({c \in issued : c.kind = "topack" /\ GoodsOf[c.item] = g})
      <= Cardinality({r \in world_issued : r.kind = "arrived" /\ r.item = g})

=============================================================================
