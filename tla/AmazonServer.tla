---------------------------- MODULE AmazonServer ----------------------------
(***************************************************************************)
(* The Amazon back end of Mini_Amazon/docker-deploy/server.                *)
(*                                                                         *)
(* A purchase order travels through five commands.  The server buys the    *)
(* goods from the world simulator ("buy"), packs them when they arrived    *)
(* ("topack"), asks UPS for a truck ("pickupreq"), loads the package on    *)
(* the truck that came ("load") and tells UPS to deliver it ("loaded").    *)
(* Every command has a sequence number and a detached thread that writes   *)
(* it to its socket again and again until the number is acknowledged.      *)
(* Every message received is answered with an acknowledgement.             *)
(*                                                                         *)
(* Messages name the order (or the goods) they are about; the product      *)
(* lists, accounts and coordinates they also carry are left out.  A        *)
(* message carries one item, although the protocol buffers allow several.  *)
(* The world and UPS are in AmazonSystem.                                  *)
(***************************************************************************)
EXTENDS Integers, FiniteSets, SequencesExt

CONSTANTS
  Orders,         \* orders placed on the web site (their ship ids)
  Goods,          \* the product lists, each with the warehouse it is bought for
  GoodsOf,        \* GoodsOf[o]: what order o buys and where
  Warehouses,
  WarehouseOf,    \* WarehouseOf[g]: the warehouse selected for g
  Trucks,
  NoTruck,        \* no entry in shipid_to_truckid
  Threads,        \* bounds the response threads that are live at one time
  NoThread,       \* a mutex nobody holds
  AckBits,        \* bounds the sequence numbers: the size of the bitset send_acks
  SocketBuffer,   \* bounds the messages that wait in one direction of a socket
  MaxLoss         \* bounds the messages and bits that are lost

ASSUME GoodsAssumption == /\ GoodsOf \in [Orders -> Goods]
                          /\ WarehouseOf \in [Goods -> Warehouses]
ASSUME NullAssumption == NoTruck \notin Trucks /\ NoThread \notin Threads
ASSUME BoundAssumption == AckBits \in Nat /\ SocketBuffer \in Nat /\ MaxLoss \in Nat

VARIABLES
  server_seq_num,        \* the next sequence number
  issued,                \* history: every command that was given a number
  acks_to_world,         \* numbers with a live thread that acknowledges them
  acks_to_UPS,           \*   to the world and to UPS
  send_acks,             \* own numbers that were acknowledged
  recv_world_acks,       \* numbers seen in messages of the world
  recv_ups_acks,         \* numbers seen in messages of UPS
  seqnum_to_orderinfo,   \* records [seq, order]: the order a purchase is for
  shipid_to_truckid,     \* the truck UPS sent for an order, or NoTruck
  purchase_request_list, \* per warehouse, the purchases that did not arrive yet
  purchase_mutex,        \* per warehouse, the thread that holds the list's lock
  threads,               \* the threads started for "arrived" and "ready"
  order_status,          \* the column orders_order.status
  to_world, from_world,  \* the two directions of the two sockets
  to_ups, from_ups,
  losses                 \* messages and bits lost so far

sendVars == <<server_seq_num, issued, send_acks>>
ackVars == <<acks_to_world, acks_to_UPS>>
orderVars == <<seqnum_to_orderinfo, purchase_request_list, purchase_mutex>>
serverVars == <<sendVars, ackVars, recv_world_acks, recv_ups_acks,
                orderVars, shipid_to_truckid, threads, order_status, losses>>

-----------------------------------------------------------------------------
(* Messages and types *)

WorldCommands == {"buy", "topack", "load"}
UPSCommands == {"pickupreq", "loaded"}
WorldResponses == {"arrived", "ready", "loaded", "error"}
UPSResponses == {"truckarrived", "delivered"}
Statuses ==
  {"ordered", "packing", "packed", "loading", "delivering", "delivered"}

\* A purchase and its arrival name goods, every other message names an order.
Items(kind) == IF kind \in {"buy", "arrived"} THEN Goods ELSE Orders
Message(kinds) ==
  {m \in [kind : kinds, item : Orders \cup Goods,
          truck : Trucks \cup {NoTruck}, seq : Nat] : m.item \in Items(m.kind)}
Acks == [kind : {"ack"}, seq : Nat]
AckFor(n) == [kind |-> "ack", seq |-> n]

Idle == [stage |-> "idle"]
Running == [stage : {"started", "checked", "matched", "waiting"},
            msg : Message({"arrived", "ready"}), index : Nat]

-----------------------------------------------------------------------------
(* Commands and acknowledgements: numbering and sending *)

\* Faulty forms of get_server_seq_num: the number is not advanced, or goes down.
SameSeq(n) == n
DownSeq(n) == n - 1
NextSeq(n) == n + 1

Issue(k, i, t) ==
  LET c == [kind |-> k, item |-> i, truck |-> t, seq |-> server_seq_num]
  IN  /\ server_seq_num < AckBits
      /\ server_seq_num' = NextSeq(server_seq_num)
      /\ send_acks' = send_acks \ {server_seq_num}
      /\ issued' = issued \cup {c}

Write(chan, m) ==
  /\ Len(chan) < SocketBuffer
  /\ chan' = Append(chan, m)

\* The commands whose sending thread has not seen its bit: it goes on until it
\* does, and an ended thread leaves nothing behind.
Sending == {c \in issued : c.seq \notin send_acks}

\* One turn of the loop of a sending thread
Send_command_to_world(c) ==
  /\ c \in Sending /\ c.kind \in WorldCommands
  /\ Write(to_world, c)
  /\ UNCHANGED <<sendVars, ackVars, recv_world_acks, recv_ups_acks, orderVars,
                 shipid_to_truckid, threads, order_status, losses,
                 from_world, to_ups, from_ups>>

Send_command_to_UPS(c) ==
  /\ c \in Sending /\ c.kind \in UPSCommands
  /\ Write(to_ups, c)
  /\ UNCHANGED <<sendVars, ackVars, recv_world_acks, recv_ups_acks, orderVars,
                 shipid_to_truckid, threads, order_status, losses,
                 to_world, from_world, from_ups>>

\* Threads with seq_num -1: they write one acknowledgement and end.
send_acks_to_world(n) ==
  /\ n \in acks_to_world
  /\ acks_to_world' = acks_to_world \ {n}
  /\ Write(to_world, AckFor(n))
  /\ UNCHANGED <<sendVars, acks_to_UPS, recv_world_acks, recv_ups_acks,
                 orderVars, shipid_to_truckid, threads, order_status, losses,
                 from_world, to_ups, from_ups>>

Send_ack_to_UPS(n) ==
  /\ n \in acks_to_UPS
  /\ acks_to_UPS' = acks_to_UPS \ {n}
  /\ Write(to_ups, AckFor(n))
  /\ UNCHANGED <<sendVars, acks_to_world, recv_world_acks, recv_ups_acks,
                 orderVars, shipid_to_truckid, threads, order_status, losses,
                 to_world, from_world, from_ups>>

\* The reader makes a new buffered stream for every message: what the buffer
\* already holds of the messages behind the first one is dropped with it.
recvMesgFrom(chan) ==
  /\ chan # <<>>
  /\ \E dropped \in 0 .. Len(chan) - 1 :
       /\ losses + dropped <= MaxLoss
       /\ chan' = SubSeq(chan, dropped + 2, Len(chan))
       /\ losses' = losses + dropped

\* Faulty form: an acknowledgement also stands for all smaller numbers.
MarkAckedUpTo(n, chan) ==
  /\ send_acks' = send_acks \cup 0 .. n
  /\ recvMesgFrom(chan)

\* A write to a bit of send_acks is a read and a write of the word it is in, and
\* the threads that write other bits of the word take no lock: it may be undone.
MarkAcked(n, chan) ==
  \/ /\ send_acks' = send_acks \cup {n}
     /\ recvMesgFrom(chan)
  \/ /\ losses < MaxLoss
     /\ chan # <<>>
     /\ chan' = Tail(chan)
     /\ losses' = losses + 1
     /\ UNCHANGED send_acks

-----------------------------------------------------------------------------
(* An order of the web site *)

\* The buy command takes its number and registers the order before it locks the
\* list; nobody looks for the order before its purchase is in the list.
Process_order(o) ==
  LET g == GoodsOf[o]
      w == WarehouseOf[g]
  IN  /\ \A e \in seqnum_to_orderinfo : e.order # o
      /\ purchase_mutex[w] = NoThread
      /\ Issue("buy", g, NoTruck)
      /\ seqnum_to_orderinfo' =
           seqnum_to_orderinfo \cup {[seq |-> server_seq_num, order |-> o]}
      /\ purchase_request_list' = [purchase_request_list EXCEPT
           ![w] = Append(@, [seq |-> server_seq_num, goods |-> g])]
      /\ UNCHANGED <<ackVars, recv_world_acks, recv_ups_acks, shipid_to_truckid,
                     purchase_mutex, threads, order_status, losses,
                     to_world, from_world, to_ups, from_ups>>

Update_Order_Status(o, s) == order_status' = [order_status EXCEPT ![o] = s]

-----------------------------------------------------------------------------
(* Responses of the world.  "arrived" and "ready" get a thread of their own. *)

SpawnProcessing(t) ==
  /\ from_world # <<>> /\ Head(from_world).kind \in {"arrived", "ready"}
  /\ threads[t] = Idle
  /\ threads' = [threads EXCEPT
       ![t] = [stage |-> "started", msg |-> Head(from_world), index |-> 0]]
  /\ recvMesgFrom(from_world)
  /\ UNCHANGED <<sendVars, ackVars, recv_world_acks, recv_ups_acks,
                 orderVars, shipid_to_truckid, order_status,
                 to_world, to_ups, from_ups>>

\* The test for a repeated message only adds an acknowledgement.
NoteFromWorld(n) ==
  /\ acks_to_world' =
       IF n \in recv_world_acks THEN acks_to_world \cup {n} ELSE acks_to_world
  /\ recv_world_acks' = recv_world_acks \cup {n}

At(t, kind, stage) ==
  /\ threads[t].stage = stage
  /\ threads[t].msg.kind = kind

GoTo(t, stage, i) ==
  threads' = [threads EXCEPT ![t] = [@ EXCEPT !.stage = stage, !.index = i]]

\* Process_Arrived as far as the lock
ArrivedCheck(t) ==
  /\ At(t, "arrived", "started")
  /\ NoteFromWorld(threads[t].msg.seq)
  /\ GoTo(t, "checked", 0)
  /\ UNCHANGED <<sendVars, acks_to_UPS, recv_ups_acks, orderVars,
                 shipid_to_truckid, order_status, losses,
                 to_world, from_world, to_ups, from_ups>>

\* The entries of the list that were bought with the same product list
Matching(list, g) == {i \in DOMAIN list : list[i].goods = g}

FirstMatch(list, g, i) ==
  /\ i \in Matching(list, g)
  /\ \A j \in Matching(list, g) : i <= j

\* Faulty form: the list is read and erased from without its lock.
NoLock(w) == TRUE
LockFree(w) == purchase_mutex[w] = NoThread

\* Process_Arrived takes the lock, finds the purchase and has its order packed.
ArrivedMatch(t) ==
  LET g == threads[t].msg.item
      w == WarehouseOf[g]
  IN  /\ At(t, "arrived", "checked")
      /\ LockFree(w)
      /\ purchase_mutex' = [purchase_mutex EXCEPT ![w] = t]
      /\ \E i \in DOMAIN purchase_request_list[w], e \in seqnum_to_orderinfo :
           /\ FirstMatch(purchase_request_list[w], g, i)
           /\ e.seq = purchase_request_list[w][i].seq
           /\ Issue("topack", e.order, NoTruck)
           /\ GoTo(t, "matched", i)
      /\ UNCHANGED <<ackVars, recv_world_acks, recv_ups_acks,
                     seqnum_to_orderinfo, purchase_request_list,
                     shipid_to_truckid, order_status, losses,
                     to_world, from_world, to_ups, from_ups>>

\* Faulty form: all purchases of the warehouse are erased.
EraseAll(list, i) == <<>>
EraseAt(list, i) == RemoveAt(list, i)

\* Still under the lock: the status, the request to UPS, the erasure of the
\* purchase and the acknowledgement; then the lock is released.
ArrivedPickup(t) ==
  LET w == WarehouseOf[threads[t].msg.item]
      i == threads[t].index
  IN  /\ At(t, "arrived", "matched")
      /\ \E e \in seqnum_to_orderinfo :
           /\ e.seq = purchase_request_list[w][i].seq
           /\ Update_Order_Status(e.order, "packing")
           /\ Issue("pickupreq", e.order, NoTruck)
      /\ purchase_request_list' =
           [purchase_request_list EXCEPT ![w] = EraseAt(@, i)]
      /\ acks_to_world' = acks_to_world \cup {threads[t].msg.seq}
      /\ purchase_mutex' = [purchase_mutex EXCEPT ![w] = NoThread]
      /\ threads' = [threads EXCEPT ![t] = Idle]
      /\ UNCHANGED <<acks_to_UPS, recv_world_acks, recv_ups_acks,
                     seqnum_to_orderinfo, shipid_to_truckid, losses,
                     to_world, from_world, to_ups, from_ups>>

\* No purchase waits for these goods: only the acknowledgement is left.
ArrivedNoMatch(t) ==
  LET g == threads[t].msg.item
      w == WarehouseOf[g]
  IN  /\ At(t, "arrived", "checked")
      /\ LockFree(w)
      /\ Matching(purchase_request_list[w], g) = {}
      /\ acks_to_world' = acks_to_world \cup {threads[t].msg.seq}
      /\ threads' = [threads EXCEPT ![t] = Idle]
      /\ UNCHANGED <<sendVars, acks_to_UPS, recv_world_acks,
                     recv_ups_acks, orderVars, shipid_to_truckid, order_status,
                     losses, to_world, from_world, to_ups, from_ups>>

\* seqnum_to_orderinfo has no lock, and other threads insert into it meanwhile: the
\* lookup may miss the order.  The thread gives up and does not acknowledge.
ArrivedLookupFails(t) ==
  LET w == WarehouseOf[threads[t].msg.item]
  IN  /\ At(t, "arrived", "checked")
      /\ LockFree(w)
      /\ Matching(purchase_request_list[w], threads[t].msg.item) # {}
      /\ losses < MaxLoss /\ losses' = losses + 1
      /\ threads' = [threads EXCEPT ![t] = Idle]
      /\ UNCHANGED <<sendVars, ackVars, recv_world_acks, recv_ups_acks,
                     orderVars, shipid_to_truckid, order_status,
                     to_world, from_world, to_ups, from_ups>>

\* Process_APacked as far as the wait for the truck
PackedStatus(t) ==
  /\ At(t, "ready", "started")
  /\ NoteFromWorld(threads[t].msg.seq)
  /\ Update_Order_Status(threads[t].msg.item, "packed")
  /\ GoTo(t, "waiting", 0)
  /\ UNCHANGED <<sendVars, acks_to_UPS, recv_ups_acks, orderVars,
                 shipid_to_truckid, losses,
                 to_world, from_world, to_ups, from_ups>>

\* Faulty form: the package does not wait for a truck.
NoWait(o) == TRUE
TruckKnown(o) == shipid_to_truckid[o] # NoTruck

\* The truck is known: the package is put on it.
PackedLoad(t) ==
  LET o == threads[t].msg.item
  IN  /\ At(t, "ready", "waiting")
      /\ TruckKnown(o)
      /\ Update_Order_Status(o, "loading")
      /\ Issue("load", o, shipid_to_truckid[o])
      /\ acks_to_world' = acks_to_world \cup {threads[t].msg.seq}
      /\ threads' = [threads EXCEPT ![t] = Idle]
      /\ UNCHANGED <<acks_to_UPS, recv_world_acks, recv_ups_acks, orderVars,
                     shipid_to_truckid, losses,
                     to_world, from_world, to_ups, from_ups>>

\* "loaded" is handled by the receiving thread itself.  Here and below the second
\* acknowledgement of a repeated message is the same element of the set.
ReceiveLoaded ==
  LET m == Head(from_world)
  IN  /\ from_world # <<>> /\ m.kind = "loaded"
      /\ recv_world_acks' = recv_world_acks \cup {m.seq}
      /\ Update_Order_Status(m.item, "delivering")
      /\ Issue("loaded", m.item, NoTruck)
      /\ acks_to_world' = acks_to_world \cup {m.seq}
      /\ recvMesgFrom(from_world)
      /\ UNCHANGED <<acks_to_UPS, recv_ups_acks, orderVars, shipid_to_truckid,
                     threads, to_world, to_ups, from_ups>>

ReceiveError ==
  /\ from_world # <<>> /\ Head(from_world).kind = "error"
  /\ acks_to_world' = acks_to_world \cup {Head(from_world).seq}
  /\ recvMesgFrom(from_world)
  /\ UNCHANGED <<sendVars, acks_to_UPS, recv_world_acks, recv_ups_acks,
                 orderVars, shipid_to_truckid, threads, order_status,
                 to_world, to_ups, from_ups>>

ReceiveWorldAck ==
  /\ from_world # <<>> /\ Head(from_world).kind = "ack"
  /\ MarkAcked(Head(from_world).seq, from_world)
  /\ UNCHANGED <<server_seq_num, issued, ackVars, recv_world_acks,
                 recv_ups_acks, orderVars, shipid_to_truckid, threads,
                 order_status, to_world, to_ups, from_ups>>

-----------------------------------------------------------------------------
(* Commands of UPS, all handled by the receiving thread itself *)

\* Faulty form: a repeated message is ignored and not acknowledged again.
NoteOnlyNew(n) ==
  /\ acks_to_UPS' =
       IF n \in recv_ups_acks THEN acks_to_UPS ELSE acks_to_UPS \cup {n}
  /\ recv_ups_acks' = recv_ups_acks \cup {n}

\* Tested or not, the number is noted and acknowledged.
NoteFromUPS(n) ==
  /\ acks_to_UPS' = acks_to_UPS \cup {n}
  /\ recv_ups_acks' = recv_ups_acks \cup {n}

ReceiveTruckArrived ==
  LET m == Head(from_ups)
  IN  /\ from_ups # <<>> /\ m.kind = "truckarrived"
      /\ NoteFromUPS(m.seq)
      /\ shipid_to_truckid' = [shipid_to_truckid EXCEPT ![m.item] = m.truck]
      /\ recvMesgFrom(from_ups)
      /\ UNCHANGED <<sendVars, acks_to_world, recv_world_acks, orderVars,
                     threads, order_status, to_world, from_world, to_ups>>

ReceiveDelivered ==
  LET m == Head(from_ups)
  IN  /\ from_ups # <<>> /\ m.kind = "delivered"
      /\ NoteFromUPS(m.seq)
      /\ Update_Order_Status(m.item, "delivered")
      /\ recvMesgFrom(from_ups)
      /\ UNCHANGED <<sendVars, acks_to_world, recv_world_acks, orderVars,
                     shipid_to_truckid, threads, to_world, from_world, to_ups>>

ReceiveUPSAck ==
  /\ from_ups # <<>> /\ Head(from_ups).kind = "ack"
  /\ MarkAcked(Head(from_ups).seq, from_ups)
  /\ UNCHANGED <<server_seq_num, issued, ackVars, recv_world_acks,
                 recv_ups_acks, orderVars, shipid_to_truckid, threads,
                 order_status, to_world, from_world, to_ups>>

-----------------------------------------------------------------------------

InitServer ==
  /\ server_seq_num = 0
  /\ issued = {}
  /\ acks_to_world = {} /\ acks_to_UPS = {}
  /\ send_acks = {} /\ recv_world_acks = {} /\ recv_ups_acks = {}
  /\ seqnum_to_orderinfo = {}
  /\ shipid_to_truckid = [o \in Orders |-> NoTruck]
  /\ purchase_request_list = [w \in Warehouses |-> <<>>]
  /\ purchase_mutex = [w \in Warehouses |-> NoThread]
  /\ threads = [t \in Threads |-> Idle]
  /\ order_status = [o \in Orders |-> "ordered"]
  /\ to_world = <<>> /\ from_world = <<>>
  /\ to_ups = <<>> /\ from_ups = <<>>
  /\ losses = 0

WorldThread(t) == ArrivedCheck(t) \/ ArrivedMatch(t) \/ ArrivedPickup(t)
                  \/ ArrivedNoMatch(t) \/ ArrivedLookupFails(t)
                  \/ PackedStatus(t) \/ PackedLoad(t)

WorldReceiver ==
  \/ \E t \in Threads : SpawnProcessing(t)
  \/ ReceiveLoaded \/ ReceiveError \/ ReceiveWorldAck

UPSReceiver == ReceiveTruckArrived \/ ReceiveDelivered \/ ReceiveUPSAck

=============================================================================
