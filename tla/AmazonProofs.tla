---------------------------- MODULE AmazonProofs ----------------------------
(***************************************************************************)
(* Invariants of AmazonSystem for every set of orders, goods, warehouses,  *)
(* trucks and threads, and for every bound.                                *)
(***************************************************************************)
EXTENDS AmazonSystem, TLAPS

-----------------------------------------------------------------------------
(* Sequences *)

LEMMA HeadInSet == ASSUME NEW S, NEW s \in Seq(S), s # <<>> PROVE Head(s) \in S
  OBVIOUS

LEMMA TailInSeq == ASSUME NEW S, NEW s \in Seq(S), s # <<>> PROVE Tail(s) \in Seq(S)
  OBVIOUS

LEMMA RestInSeq ==
  ASSUME NEW S, NEW s \in Seq(S), NEW n \in Nat, n <= Len(s) - 1
  PROVE  SubSeq(s, n + 2, Len(s)) \in Seq(S)
  OBVIOUS

\* What a message that was written or read leaves in the channel.
LEMMA AppendElements ==
  ASSUME NEW S, NEW s \in Seq(S), NEW m \in S
  PROVE  /\ Append(s, m) \in Seq(S)
         /\ ToSet(Append(s, m)) = ToSet(s) \cup {m}
  <1>1. Append(s, m) \in Seq(S)  OBVIOUS
  <1>2. ToSet(Append(s, m)) \subseteq ToSet(s) \cup {m}
    BY DEF ToSet
  <1>3. ToSet(s) \subseteq ToSet(Append(s, m))
    <2>1. \A i \in DOMAIN s : i \in DOMAIN Append(s, m) /\ Append(s, m)[i] = s[i]
      OBVIOUS
    <2> QED BY <2>1 DEF ToSet
  <1>4. m \in ToSet(Append(s, m))
    <2>1. Len(s) + 1 \in DOMAIN Append(s, m) /\ Append(s, m)[Len(s) + 1] = m
      OBVIOUS
    <2> QED BY <2>1 DEF ToSet
  <1> QED BY <1>1, <1>2, <1>3, <1>4

LEMMA RestElements ==
  ASSUME NEW S, NEW s \in Seq(S), NEW n \in Nat, n <= Len(s) - 1
  PROVE  ToSet(SubSeq(s, n + 2, Len(s))) \subseteq ToSet(s)
  <1> DEFINE r == SubSeq(s, n + 2, Len(s))
  <1>1. \A i \in DOMAIN r : i + n + 1 \in DOMAIN s /\ r[i] = s[i + n + 1]
    OBVIOUS
  <1> QED BY <1>1 DEF ToSet

LEMMA HeadElement ==
  ASSUME NEW S, NEW s \in Seq(S), s # <<>>
  PROVE  Head(s) \in ToSet(s) /\ ToSet(Tail(s)) \subseteq ToSet(s)
  <1>1. 1 \in DOMAIN s /\ Head(s) = s[1]  OBVIOUS
  <1>2. \A i \in DOMAIN Tail(s) : i + 1 \in DOMAIN s /\ Tail(s)[i] = s[i + 1]
    OBVIOUS
  <1> QED BY <1>1, <1>2 DEF ToSet

\* Erasing entry i moves the entries behind it forward.
LEMMA Concatenation ==
  ASSUME NEW S, NEW a \in Seq(S), NEW b \in Seq(S)
  PROVE  /\ a \o b \in Seq(S) /\ Len(a \o b) = Len(a) + Len(b)
         /\ \A j \in 1 .. Len(a) + Len(b) :
              (a \o b)[j] = IF j <= Len(a) THEN a[j] ELSE b[j - Len(a)]
  OBVIOUS

LEMMA RemoveAtEntries ==
  ASSUME NEW S, NEW s \in Seq(S), NEW i \in DOMAIN s
  PROVE  /\ RemoveAt(s, i) \in Seq(S)
         /\ DOMAIN RemoveAt(s, i) = 1 .. Len(s) - 1
         /\ \A j \in 1 .. Len(s) - 1 :
              RemoveAt(s, i)[j] = IF j < i THEN s[j] ELSE s[j + 1]
  <1> DEFINE front == SubSeq(s, 1, i - 1)
             back == SubSeq(s, i + 1, Len(s))
  <1>1. i \in 1 .. Len(s)  OBVIOUS
  <1>2. /\ front \in Seq(S) /\ Len(front) = i - 1
        /\ \A j \in 1 .. i - 1 : front[j] = s[j]
    BY <1>1
  <1>3. /\ back \in Seq(S) /\ Len(back) = Len(s) - i
        /\ \A j \in 1 .. Len(s) - i : back[j] = s[i + j]
    BY <1>1
  <1> HIDE DEF front, back
  <1>4. /\ front \o back \in Seq(S)
        /\ Len(front \o back) = Len(s) - 1
        /\ \A j \in 1 .. Len(s) - 1 :
             (front \o back)[j] = IF j < i THEN front[j] ELSE back[j - i + 1]
    <2>1. front \in Seq(S) /\ back \in Seq(S)  BY <1>2, <1>3
    <2>2. /\ front \o back \in Seq(S) /\ Len(front \o back) = Len(front) + Len(back)
          /\ \A j \in 1 .. Len(front) + Len(back) :
               (front \o back)[j] = IF j <= Len(front) THEN front[j] ELSE back[j - Len(front)]
      BY <2>1, Concatenation
    <2>3. Len(front) = i - 1 /\ Len(back) = Len(s) - i  BY <1>2, <1>3
    <2>4. i \in Int /\ Len(s) \in Int  BY <1>1
    <2>5. i - 1 + (Len(s) - i) = Len(s) - 1  BY <2>4
    <2>6. \A j \in 1 .. Len(s) - 1 : (j <= i - 1 <=> j < i) /\ j - (i - 1) = j - i + 1
      BY <2>4
    <2> QED BY <2>2, <2>3, <2>5, <2>6
  <1>5. RemoveAt(s, i) = front \o back  BY DEF RemoveAt, front, back
  <1>6. ASSUME NEW j \in 1 .. Len(s) - 1
        PROVE  RemoveAt(s, i)[j] = IF j < i THEN s[j] ELSE s[j + 1]
    <2>1. CASE j < i  BY <2>1, <1>1, <1>2, <1>4, <1>5
    <2>2. CASE ~(j < i)
      <3>1. j - i + 1 \in 1 .. Len(s) - i  BY <2>2, <1>1
      <3>2. back[j - i + 1] = s[j + 1]  BY <3>1, <1>1, <1>3
      <3> QED BY <2>2, <3>2, <1>4, <1>5
    <2> QED BY <2>1, <2>2
  <1> QED BY <1>4, <1>5, <1>6

-----------------------------------------------------------------------------
(* Type correctness.  A thread that matched a purchase holds the list's lock   *)
(* and points into the list: without this the erasure could leave the list     *)
(* undefined.                                                                  *)

LockInv ==
  \A t \in Threads : threads[t].stage = "matched" =>
    LET w == WarehouseOf[threads[t].msg.item]
    IN  /\ threads[t].msg.kind = "arrived"
        /\ purchase_mutex[w] = t
        /\ threads[t].index \in DOMAIN purchase_request_list[w]

TypeInv == TypeOK /\ LockInv

FromWorld == Message(WorldResponses) \cup Acks
FromUPS == Message(UPSResponses) \cup Acks
ToWorld == Message(WorldCommands) \cup Acks
ToUPS == Message(UPSCommands) \cup Acks
Entry == [seq : Nat, goods : Goods]

LEMMA InitTypeInv == Init => TypeInv
  BY GoodsAssumption, BoundAssumption, RepeatAssumption
     DEF Init, InitServer, TypeInv, TypeOK, LockInv, Idle, Statuses

\* What reading a message leaves: the message is one of the channel's, and the
\* channel keeps its type.
LEMMA ReadFromWorld ==
  ASSUME TypeOK, recvMesgFrom(from_world)
  PROVE  /\ from_world # <<>> /\ Head(from_world) \in FromWorld
         /\ from_world' \in Seq(FromWorld)
         /\ losses' \in Nat
         /\ Head(from_world) \in ToSet(from_world)
         /\ ToSet(from_world') \subseteq ToSet(from_world)
  <1>1. from_world \in Seq(FromWorld) /\ from_world # <<>> /\ losses \in Nat
    BY DEF TypeOK, FromWorld, recvMesgFrom
  <1>2. PICK n \in 0 .. Len(from_world) - 1 :
          /\ from_world' = SubSeq(from_world, n + 2, Len(from_world))
          /\ losses' = losses + n
    BY DEF recvMesgFrom
  <1>3. n \in Nat /\ n <= Len(from_world) - 1  BY <1>1
  <1> QED BY <1>1, <1>2, <1>3, HeadInSet, RestInSeq, HeadElement, RestElements

LEMMA ReadFromUPS ==
  ASSUME TypeOK, recvMesgFrom(from_ups)
  PROVE  /\ from_ups # <<>> /\ Head(from_ups) \in FromUPS
         /\ from_ups' \in Seq(FromUPS)
         /\ losses' \in Nat
         /\ Head(from_ups) \in ToSet(from_ups)
         /\ ToSet(from_ups') \subseteq ToSet(from_ups)
  <1>1. from_ups \in Seq(FromUPS) /\ from_ups # <<>> /\ losses \in Nat
    BY DEF TypeOK, FromUPS, recvMesgFrom
  <1>2. PICK n \in 0 .. Len(from_ups) - 1 :
          /\ from_ups' = SubSeq(from_ups, n + 2, Len(from_ups))
          /\ losses' = losses + n
    BY DEF recvMesgFrom
  <1>3. n \in Nat /\ n <= Len(from_ups) - 1  BY <1>1
  <1> QED BY <1>1, <1>2, <1>3, HeadInSet, RestInSeq, HeadElement, RestElements

\* A command that is issued has the next number and the type of its kind.
LEMMA IssueTypes ==
  ASSUME TypeOK, NEW k \in WorldCommands \cup UPSCommands, NEW i \in Items(k),
         NEW t \in Trucks \cup {NoTruck}, Issue(k, i, t)
  PROVE  /\ server_seq_num' \in 0 .. AckBits
         /\ issued' \subseteq Message(WorldCommands \cup UPSCommands)
         /\ send_acks' \subseteq Nat
  <1>1. server_seq_num \in Nat /\ AckBits \in Nat  BY BoundAssumption DEF TypeOK
  <1>2. i \in Orders \cup Goods  BY DEF Items
  <1>3. [kind |-> k, item |-> i, truck |-> t, seq |-> server_seq_num]
          \in Message(WorldCommands \cup UPSCommands)
    BY <1>1, <1>2 DEF Message
  <1>4. server_seq_num < AckBits /\ server_seq_num' = server_seq_num + 1
    BY DEF Issue, NextSeq
  <1>5. issued' \subseteq Message(WorldCommands \cup UPSCommands)
    BY <1>3 DEF Issue, TypeOK
  <1>6. send_acks' \subseteq Nat  BY DEF Issue, TypeOK
  <1>7. server_seq_num' \in 0 .. AckBits  BY <1>1, <1>4
  <1> QED BY <1>5, <1>6, <1>7

LEMMA WriteTypes ==
  ASSUME NEW S, NEW s \in Seq(S), NEW m \in S
  PROVE  Append(s, m) \in Seq(S)
  OBVIOUS

LEMMA AckType == \A n \in Nat : AckFor(n) \in Acks
  BY DEF AckFor, Acks

LEMMA ThreadAt ==
  ASSUME TypeOK, NEW t \in Threads, NEW kind, NEW stage, At(t, kind, stage),
         stage # "idle"
  PROVE  /\ threads[t] \in Running
         /\ threads[t].stage = stage /\ threads[t].msg.kind = kind
         /\ threads[t].msg.seq \in Nat
         /\ threads[t].msg.item \in Items(kind)
  <1>1. threads[t] \in {Idle} \cup Running /\ threads[t].stage = stage
    BY DEF TypeOK, At
  <1>2. threads[t] \in Running  BY <1>1 DEF Idle
  <1> QED BY <1>1, <1>2 DEF At, Running, Message

LEMMA ThreadGoes ==
  ASSUME TypeOK, NEW t \in Threads, threads[t] \in Running,
         NEW stage \in {"started", "checked", "matched", "waiting"},
         NEW i \in Nat, GoTo(t, stage, i)
  PROVE  /\ threads' \in [Threads -> {Idle} \cup Running]
         /\ threads'[t].stage = stage /\ threads'[t].index = i
         /\ threads'[t].msg = threads[t].msg
         /\ \A u \in Threads : u # t => threads'[u] = threads[u]
  <1> DEFINE r == [threads[t] EXCEPT !.stage = stage, !.index = i]
  <1>1. r \in Running /\ r.stage = stage /\ r.index = i /\ r.msg = threads[t].msg
    BY DEF Running
  <1>2. threads' = [threads EXCEPT ![t] = r]  BY DEF GoTo
  <1>3. threads \in [Threads -> {Idle} \cup Running]  BY DEF TypeOK
  <1> HIDE DEF r
  <1> QED BY <1>1, <1>2, <1>3

LEMMA ThreadEnds ==
  ASSUME TypeOK, NEW t \in Threads, threads' = [threads EXCEPT ![t] = Idle]
  PROVE  /\ threads' \in [Threads -> {Idle} \cup Running]
         /\ threads'[t].stage = "idle"
         /\ \A u \in Threads : u # t => threads'[u] = threads[u]
  BY DEF TypeOK, Idle

LEMMA TypeInvStep == TypeInv /\ [Next]_vars => TypeInv'
  <1> SUFFICES ASSUME TypeInv, [Next]_vars PROVE TypeInv'
    OBVIOUS
  <1> USE DEF TypeInv, sendVars, ackVars, orderVars, serverVars, worldVars, upsVars
  <1> USE GoodsAssumption, NullAssumption
  <1> DEFINE Peers == UNCHANGED <<worldVars, upsVars, repeats>>
  <1>1. ASSUME NEW o \in Orders, Process_order(o), Peers PROVE TypeInv'
    <2> DEFINE g == GoodsOf[o]
               w == WarehouseOf[g]
               e == [seq |-> server_seq_num, goods |-> g]
    <2>1. g \in Goods /\ w \in Warehouses /\ server_seq_num \in Nat
      BY <1>1, BoundAssumption DEF TypeOK
    <2>2. g \in Items("buy")  BY <2>1 DEF Items
    <2>3. Issue("buy", g, NoTruck)  BY <1>1 DEF Process_order
    <2>4. /\ server_seq_num' \in 0 .. AckBits
          /\ issued' \subseteq Message(WorldCommands \cup UPSCommands)
          /\ send_acks' \subseteq Nat
      BY <2>2, <2>3, IssueTypes DEF WorldCommands
    <2>5. e \in Entry  BY <2>1 DEF Entry
    <2>6. purchase_request_list[w] \in Seq(Entry)  BY <2>1 DEF TypeOK, Entry
    <2>7. Append(purchase_request_list[w], e) \in Seq(Entry)
      BY <2>5, <2>6, WriteTypes
    <2>8. purchase_request_list' =
            [purchase_request_list EXCEPT ![w] = Append(purchase_request_list[w], e)]
      BY <1>1 DEF Process_order
    <2>9. purchase_request_list' \in [Warehouses -> Seq(Entry)]
      BY <2>1, <2>7, <2>8 DEF TypeOK, Entry
    <2>10. seqnum_to_orderinfo' \subseteq [seq : Nat, order : Orders]
      BY <1>1, <2>1 DEF Process_order, TypeOK
    <2>11. TypeOK'
      BY <1>1, <2>4, <2>9, <2>10 DEF TypeOK, Process_order, Entry
    <2>12. \A v \in Warehouses : purchase_request_list'[v] =
             IF v = w THEN Append(purchase_request_list[w], e)
                      ELSE purchase_request_list[v]
      BY <2>8 DEF TypeOK
    <2>13. DOMAIN purchase_request_list[w] \subseteq
             DOMAIN Append(purchase_request_list[w], e)
      BY <2>6, <2>5
    <2>14. \A t \in Threads : threads[t].stage = "matched" =>
             WarehouseOf[threads[t].msg.item] \in Warehouses
      BY DEF TypeOK, LockInv, Running, Idle, Message, Items
    <2>15. LockInv'
      BY <1>1, <2>12, <2>13, <2>14 DEF LockInv, Process_order
    <2> QED BY <2>11, <2>15
  <1>2. ASSUME NEW n \in acks_to_world, send_acks_to_world(n), Peers
        PROVE  TypeInv'
    <2>1. AckFor(n) \in ToWorld  BY <1>2, AckType DEF TypeOK, ToWorld
    <2>2. to_world' \in Seq(ToWorld)
      BY <1>2, <2>1, WriteTypes DEF TypeOK, ToWorld, send_acks_to_world, Write
    <2>3. TypeOK'
      BY <1>2, <2>2 DEF TypeOK, ToWorld, send_acks_to_world
    <2> QED BY <1>2, <2>3 DEF LockInv, send_acks_to_world
  <1>3. ASSUME NEW n \in acks_to_UPS, Send_ack_to_UPS(n), Peers
        PROVE  TypeInv'
    <2>1. AckFor(n) \in ToUPS  BY <1>3, AckType DEF TypeOK, ToUPS
    <2>2. to_ups' \in Seq(ToUPS)
      BY <1>3, <2>1, WriteTypes DEF TypeOK, ToUPS, Send_ack_to_UPS, Write
    <2>3. TypeOK'
      BY <1>3, <2>2 DEF TypeOK, ToUPS, Send_ack_to_UPS
    <2> QED BY <1>3, <2>3 DEF LockInv, Send_ack_to_UPS
  <1>4. ASSUME NEW t \in Threads, SpawnProcessing(t), Peers PROVE TypeInv'
    <2> DEFINE r == [stage |-> "started", msg |-> Head(from_world), index |-> 0]
    <2>1. recvMesgFrom(from_world)  BY <1>4 DEF SpawnProcessing
    <2>2. Head(from_world) \in FromWorld /\ from_world' \in Seq(FromWorld)
          /\ losses' \in Nat
      BY <2>1, ReadFromWorld
    <2>3. Head(from_world).kind \in {"arrived", "ready"}  BY <1>4 DEF SpawnProcessing
    <2>4. Head(from_world) \in Message({"arrived", "ready"})
      BY <2>2, <2>3 DEF FromWorld, Message, Acks
    <2>5. r \in Running  BY <2>4 DEF Running
    <2>6. threads' = [threads EXCEPT ![t] = r]  BY <1>4 DEF SpawnProcessing
    <2>7. TypeOK'
      BY <1>4, <2>2, <2>5, <2>6 DEF TypeOK, FromWorld, SpawnProcessing
    <2>8. LockInv'
      BY <1>4, <2>6 DEF LockInv, TypeOK, SpawnProcessing
    <2> QED BY <2>7, <2>8
  <1>5. ASSUME ReceiveLoaded, Peers PROVE TypeInv'
    <2> DEFINE m == Head(from_world)
    <2>1. recvMesgFrom(from_world)  BY <1>5 DEF ReceiveLoaded
    <2>2. m \in FromWorld /\ from_world' \in Seq(FromWorld) /\ losses' \in Nat
      BY <2>1, ReadFromWorld
    <2>3. m.kind = "loaded"  BY <1>5 DEF ReceiveLoaded
    <2>4. m \in Message(WorldResponses)  BY <2>2, <2>3 DEF FromWorld, Acks
    <2>5. m.seq \in Nat /\ m.item \in Items("loaded")
      BY <2>3, <2>4 DEF Message
    <2>6. Issue("loaded", m.item, NoTruck)  BY <1>5 DEF ReceiveLoaded
    <2>7. /\ server_seq_num' \in 0 .. AckBits
          /\ issued' \subseteq Message(WorldCommands \cup UPSCommands)
          /\ send_acks' \subseteq Nat
      BY <2>5, <2>6, IssueTypes DEF UPSCommands
    <2>8. order_status' \in [Orders -> Statuses]
      BY <1>5 DEF ReceiveLoaded, Update_Order_Status, TypeOK, Statuses
    <2>9. TypeOK'
      BY <1>5, <2>2, <2>5, <2>7, <2>8 DEF TypeOK, FromWorld, ReceiveLoaded
    <2> QED BY <1>5, <2>9 DEF LockInv, ReceiveLoaded
  <1>6. ASSUME ReceiveError, Peers PROVE TypeInv'
    <2>1. recvMesgFrom(from_world)  BY <1>6 DEF ReceiveError
    <2>2. Head(from_world) \in FromWorld /\ from_world' \in Seq(FromWorld)
          /\ losses' \in Nat
      BY <2>1, ReadFromWorld
    <2>3. Head(from_world).seq \in Nat  BY <2>2 DEF FromWorld, Message, Acks
    <2>4. TypeOK'
      BY <1>6, <2>2, <2>3 DEF TypeOK, FromWorld, ReceiveError
    <2> QED BY <1>6, <2>4 DEF LockInv, ReceiveError
  <1>7. ASSUME ReceiveWorldAck, Peers PROVE TypeInv'
    <2> DEFINE n == Head(from_world).seq
    <2>1. from_world # <<>> /\ from_world \in Seq(FromWorld) /\ losses \in Nat
      BY <1>7 DEF ReceiveWorldAck, TypeOK, FromWorld
    <2>2. n \in Nat  BY <2>1, HeadInSet DEF FromWorld, Message, Acks
    <2>3. from_world' \in Seq(FromWorld) /\ losses' \in Nat /\ send_acks' \subseteq Nat
      <3>1. CASE recvMesgFrom(from_world) /\ send_acks' = send_acks \cup {n}
        BY <3>1, <2>2, ReadFromWorld DEF TypeOK
      <3>2. CASE from_world' = Tail(from_world) /\ losses' = losses + 1
                 /\ UNCHANGED send_acks
        BY <3>2, <2>1, TailInSeq DEF TypeOK
      <3> QED BY <1>7, <3>1, <3>2 DEF ReceiveWorldAck, MarkAcked
    <2>4. TypeOK'
      BY <1>7, <2>3 DEF TypeOK, FromWorld, ReceiveWorldAck
    <2> QED BY <1>7, <2>4 DEF LockInv, ReceiveWorldAck
  <1>8. ASSUME ReceiveTruckArrived, Peers PROVE TypeInv'
    <2> DEFINE m == Head(from_ups)
    <2>1. recvMesgFrom(from_ups)  BY <1>8 DEF ReceiveTruckArrived
    <2>2. m \in FromUPS /\ from_ups' \in Seq(FromUPS) /\ losses' \in Nat
      BY <2>1, ReadFromUPS
    <2>3. m.kind = "truckarrived"  BY <1>8 DEF ReceiveTruckArrived
    <2>4. m.seq \in Nat /\ m.truck \in Trucks \cup {NoTruck}
      BY <2>2, <2>3 DEF FromUPS, Message, Acks
    <2>5. shipid_to_truckid' \in [Orders -> Trucks \cup {NoTruck}]
      BY <1>8, <2>4 DEF ReceiveTruckArrived, TypeOK
    <2>6. TypeOK'
      BY <1>8, <2>2, <2>4, <2>5 DEF TypeOK, FromUPS, ReceiveTruckArrived, NoteFromUPS
    <2> QED BY <1>8, <2>6 DEF LockInv, ReceiveTruckArrived
  <1>9. ASSUME ReceiveDelivered, Peers PROVE TypeInv'
    <2> DEFINE m == Head(from_ups)
    <2>1. recvMesgFrom(from_ups)  BY <1>9 DEF ReceiveDelivered
    <2>2. m \in FromUPS /\ from_ups' \in Seq(FromUPS) /\ losses' \in Nat
      BY <2>1, ReadFromUPS
    <2>3. m.seq \in Nat  BY <2>2 DEF FromUPS, Message, Acks
    <2>4. order_status' \in [Orders -> Statuses]
      BY <1>9 DEF ReceiveDelivered, Update_Order_Status, TypeOK, Statuses
    <2>5. TypeOK'
      BY <1>9, <2>2, <2>3, <2>4 DEF TypeOK, FromUPS, ReceiveDelivered, NoteFromUPS
    <2> QED BY <1>9, <2>5 DEF LockInv, ReceiveDelivered
  <1>10. ASSUME ReceiveUPSAck, Peers PROVE TypeInv'
    <2> DEFINE n == Head(from_ups).seq
    <2>1. from_ups # <<>> /\ from_ups \in Seq(FromUPS) /\ losses \in Nat
      BY <1>10 DEF ReceiveUPSAck, TypeOK, FromUPS
    <2>2. n \in Nat  BY <2>1, HeadInSet DEF FromUPS, Message, Acks
    <2>3. from_ups' \in Seq(FromUPS) /\ losses' \in Nat /\ send_acks' \subseteq Nat
      <3>1. CASE recvMesgFrom(from_ups) /\ send_acks' = send_acks \cup {n}
        BY <3>1, <2>2, ReadFromUPS DEF TypeOK
      <3>2. CASE from_ups' = Tail(from_ups) /\ losses' = losses + 1
                 /\ UNCHANGED send_acks
        BY <3>2, <2>1, TailInSeq DEF TypeOK
      <3> QED BY <1>10, <3>1, <3>2 DEF ReceiveUPSAck, MarkAcked
    <2>4. TypeOK'
      BY <1>10, <2>3 DEF TypeOK, FromUPS, ReceiveUPSAck
    <2> QED BY <1>10, <2>4 DEF LockInv, ReceiveUPSAck
  <1>11. ASSUME NEW t \in Threads, ArrivedCheck(t), Peers PROVE TypeInv'
    <2>1. /\ threads[t] \in Running
          /\ threads[t].msg.seq \in Nat
      BY <1>11, ThreadAt DEF ArrivedCheck
    <2>2. GoTo(t, "checked", 0)  BY <1>11 DEF ArrivedCheck
    <2>3. /\ threads' \in [Threads -> {Idle} \cup Running]
          /\ threads'[t].stage = "checked"
          /\ \A u \in Threads : u # t => threads'[u] = threads[u]
      BY <2>1, <2>2, ThreadGoes
    <2>4. acks_to_world' \subseteq Nat /\ recv_world_acks' \subseteq Nat
      BY <1>11, <2>1 DEF ArrivedCheck, NoteFromWorld, TypeOK
    <2>5. TypeOK'
      BY <1>11, <2>3, <2>4 DEF TypeOK, ArrivedCheck
    <2> QED BY <1>11, <2>3, <2>5 DEF LockInv, ArrivedCheck
  <1>12. ASSUME NEW t \in Threads, ArrivedMatch(t), Peers PROVE TypeInv'
    <2> DEFINE g == threads[t].msg.item
               w == WarehouseOf[g]
    <2>1. threads[t] \in Running /\ g \in Items("arrived")
          /\ threads[t].msg.kind = "arrived"
      BY <1>12, ThreadAt DEF ArrivedMatch
    <2>2. w \in Warehouses  BY <2>1 DEF Items
    <2>3. PICK i \in DOMAIN purchase_request_list[w], e \in seqnum_to_orderinfo :
            /\ Issue("topack", e.order, NoTruck)
            /\ GoTo(t, "matched", i)
      BY <1>12 DEF ArrivedMatch
    <2>4. i \in Nat /\ e.order \in Items("topack")
      <3>1. purchase_request_list[w] \in Seq([seq : Nat, goods : Goods])
        BY <2>2 DEF TypeOK
      <3>2. DOMAIN purchase_request_list[w] \subseteq Nat  BY <3>1
      <3>3. e.order \in Items("topack")  BY DEF TypeOK, Items
      <3> QED BY <3>2, <3>3
    <2>5. /\ server_seq_num' \in 0 .. AckBits
          /\ issued' \subseteq Message(WorldCommands \cup UPSCommands)
          /\ send_acks' \subseteq Nat
      BY <2>3, <2>4, IssueTypes DEF WorldCommands
    <2>6. /\ threads' \in [Threads -> {Idle} \cup Running]
          /\ threads'[t].stage = "matched" /\ threads'[t].index = i
          /\ threads'[t].msg = threads[t].msg
          /\ \A u \in Threads : u # t => threads'[u] = threads[u]
      BY <2>1, <2>3, <2>4, ThreadGoes
    <2>7. /\ purchase_mutex[w] = NoThread
          /\ purchase_mutex' = [purchase_mutex EXCEPT ![w] = t]
          /\ purchase_mutex \in [Warehouses -> Threads \cup {NoThread}]
      BY <1>12 DEF ArrivedMatch, LockFree, TypeOK
    <2>8a. purchase_mutex' \in [Warehouses -> Threads \cup {NoThread}]
      BY <2>7
    <2>8. TypeOK'
      BY <1>12, <2>5, <2>6, <2>8a DEF TypeOK, ArrivedMatch
    <2>9. ASSUME NEW u \in Threads, threads'[u].stage = "matched"
          PROVE  LET v == WarehouseOf[threads'[u].msg.item]
                 IN  /\ threads'[u].msg.kind = "arrived"
                     /\ purchase_mutex'[v] = u
                     /\ threads'[u].index \in DOMAIN purchase_request_list'[v]
      <3>1. CASE u = t
        <4>1. threads'[u].msg = threads[t].msg /\ threads'[u].index = i
          BY <2>6, <3>1
        <4>2. purchase_mutex'[w] = u  BY <2>2, <2>7, <3>1
        <4>3. i \in DOMAIN purchase_request_list'[w]  BY <1>12, <2>3 DEF ArrivedMatch
        <4> QED BY <2>1, <4>1, <4>2, <4>3
      <3>2. CASE u # t
        <4> DEFINE v == WarehouseOf[threads[u].msg.item]
        <4>1. threads'[u] = threads[u] /\ threads[u].stage = "matched"
          BY <2>6, <2>9, <3>2
        <4>2. /\ threads[u].msg.kind = "arrived" /\ purchase_mutex[v] = u
              /\ threads[u].index \in DOMAIN purchase_request_list[v]
          BY <4>1 DEF LockInv
        <4>3. purchase_mutex'[v] = u  BY <2>2, <2>7, <4>2, NullAssumption
        <4>4. UNCHANGED purchase_request_list  BY <1>12 DEF ArrivedMatch
        <4> QED BY <4>1, <4>2, <4>3, <4>4
      <3> QED BY <3>1, <3>2
    <2> QED BY <2>8, <2>9 DEF LockInv
  <1>13. ASSUME NEW t \in Threads, ArrivedPickup(t), Peers PROVE TypeInv'
    <2> DEFINE g == threads[t].msg.item
               w == WarehouseOf[g]
               i == threads[t].index
    <2>1. threads[t] \in Running /\ g \in Items("arrived")
          /\ threads[t].stage = "matched" /\ threads[t].msg.seq \in Nat
      BY <1>13, ThreadAt DEF ArrivedPickup
    <2>2. w \in Warehouses  BY <2>1 DEF Items
    <2>3. purchase_mutex[w] = t /\ i \in DOMAIN purchase_request_list[w]
      BY <2>1 DEF LockInv
    <2>4. PICK e \in seqnum_to_orderinfo :
            /\ Update_Order_Status(e.order, "packing")
            /\ Issue("pickupreq", e.order, NoTruck)
      BY <1>13 DEF ArrivedPickup
    <2>5. e.order \in Items("pickupreq")  BY DEF TypeOK, Items
    <2>6. /\ server_seq_num' \in 0 .. AckBits
          /\ issued' \subseteq Message(WorldCommands \cup UPSCommands)
          /\ send_acks' \subseteq Nat
      BY <2>4, <2>5, IssueTypes DEF UPSCommands
    <2>7. RemoveAt(purchase_request_list[w], i) \in Seq(Entry)
      BY <2>2, <2>3, RemoveAtEntries DEF TypeOK, Entry
    <2>8. purchase_request_list' =
            [purchase_request_list EXCEPT ![w] = RemoveAt(purchase_request_list[w], i)]
      BY <1>13 DEF ArrivedPickup, EraseAt
    <2>9. purchase_request_list' \in [Warehouses -> Seq(Entry)]
      BY <2>7, <2>8 DEF TypeOK, Entry
    <2>10. /\ threads' \in [Threads -> {Idle} \cup Running]
           /\ threads'[t].stage = "idle"
           /\ \A u \in Threads : u # t => threads'[u] = threads[u]
      BY <1>13, ThreadEnds DEF ArrivedPickup
    <2>11. order_status' \in [Orders -> Statuses]
      BY <2>4 DEF Update_Order_Status, TypeOK, Statuses
    <2>12. purchase_mutex' = [purchase_mutex EXCEPT ![w] = NoThread]
      BY <1>13 DEF ArrivedPickup
    <2>13. purchase_mutex' \in [Warehouses -> Threads \cup {NoThread}]
      BY <2>12 DEF TypeOK
    <2>14. acks_to_world' \subseteq Nat
      BY <1>13, <2>1 DEF ArrivedPickup, TypeOK
    <2>15. TypeOK'
      BY <1>13, <2>6, <2>9, <2>10, <2>11, <2>13, <2>14
         DEF TypeOK, ArrivedPickup, Entry
    <2>16. ASSUME NEW u \in Threads, threads'[u].stage = "matched"
           PROVE  LET v == WarehouseOf[threads'[u].msg.item]
                  IN  /\ threads'[u].msg.kind = "arrived"
                      /\ purchase_mutex'[v] = u
                      /\ threads'[u].index \in DOMAIN purchase_request_list'[v]
      <3>1. u # t /\ threads'[u] = threads[u]  BY <2>10, <2>16
      <3>2. LET v == WarehouseOf[threads[u].msg.item]
            IN  /\ threads[u].msg.kind = "arrived" /\ purchase_mutex[v] = u
                /\ threads[u].index \in DOMAIN purchase_request_list[v]
        BY <2>16, <3>1 DEF LockInv
      <3>3. WarehouseOf[threads[u].msg.item] # w  BY <3>1, <3>2, <2>3
      <3> QED BY <3>1, <3>2, <3>3, <2>8, <2>12 DEF TypeOK
    <2> QED BY <2>15, <2>16 DEF LockInv
  <1>14. ASSUME NEW t \in Threads, ArrivedNoMatch(t), Peers PROVE TypeInv'
    <2>1. threads[t].msg.seq \in Nat  BY <1>14, ThreadAt DEF ArrivedNoMatch
    <2>2. /\ threads' \in [Threads -> {Idle} \cup Running]
          /\ threads'[t].stage = "idle"
          /\ \A u \in Threads : u # t => threads'[u] = threads[u]
      BY <1>14, ThreadEnds DEF ArrivedNoMatch
    <2>3. TypeOK'
      BY <1>14, <2>1, <2>2 DEF TypeOK, ArrivedNoMatch
    <2> QED BY <1>14, <2>2, <2>3 DEF LockInv, ArrivedNoMatch
  <1>15. ASSUME NEW t \in Threads, PackedStatus(t), Peers PROVE TypeInv'
    <2>1. threads[t] \in Running /\ threads[t].msg.seq \in Nat
      BY <1>15, ThreadAt DEF PackedStatus
    <2>2. GoTo(t, "waiting", 0)  BY <1>15 DEF PackedStatus
    <2>3. /\ threads' \in [Threads -> {Idle} \cup Running]
          /\ threads'[t].stage = "waiting"
          /\ \A u \in Threads : u # t => threads'[u] = threads[u]
      BY <2>1, <2>2, ThreadGoes
    <2>4. acks_to_world' \subseteq Nat /\ recv_world_acks' \subseteq Nat
      BY <1>15, <2>1 DEF PackedStatus, NoteFromWorld, TypeOK
    <2>5. order_status' \in [Orders -> Statuses]
      BY <1>15 DEF PackedStatus, Update_Order_Status, TypeOK, Statuses
    <2>6. TypeOK'
      BY <1>15, <2>3, <2>4, <2>5 DEF TypeOK, PackedStatus
    <2> QED BY <1>15, <2>3, <2>6 DEF LockInv, PackedStatus
  <1>16. ASSUME NEW t \in Threads, PackedLoad(t), Peers PROVE TypeInv'
    <2> DEFINE o == threads[t].msg.item
    <2>1. threads[t].msg.seq \in Nat /\ o \in Items("ready")
      BY <1>16, ThreadAt DEF PackedLoad
    <2>2. o \in Orders /\ o \in Items("load")  BY <2>1 DEF Items
    <2>3. shipid_to_truckid[o] \in Trucks \cup {NoTruck}  BY <2>2 DEF TypeOK
    <2>4. Issue("load", o, shipid_to_truckid[o])  BY <1>16 DEF PackedLoad
    <2>5. /\ server_seq_num' \in 0 .. AckBits
          /\ issued' \subseteq Message(WorldCommands \cup UPSCommands)
          /\ send_acks' \subseteq Nat
      BY <2>2, <2>3, <2>4, IssueTypes DEF WorldCommands
    <2>6. /\ threads' \in [Threads -> {Idle} \cup Running]
          /\ threads'[t].stage = "idle"
          /\ \A u \in Threads : u # t => threads'[u] = threads[u]
      BY <1>16, ThreadEnds DEF PackedLoad
    <2>7. order_status' \in [Orders -> Statuses]
      BY <1>16 DEF PackedLoad, Update_Order_Status, TypeOK, Statuses
    <2>8. TypeOK'
      BY <1>16, <2>1, <2>5, <2>6, <2>7 DEF TypeOK, PackedLoad
    <2> QED BY <1>16, <2>6, <2>8 DEF LockInv, PackedLoad
  <1>17. ASSUME NEW t \in Threads, ArrivedLookupFails(t), Peers PROVE TypeInv'
    <2>1. /\ threads' \in [Threads -> {Idle} \cup Running]
          /\ threads'[t].stage = "idle"
          /\ \A u \in Threads : u # t => threads'[u] = threads[u]
      BY <1>17, ThreadEnds DEF ArrivedLookupFails
    <2>2. losses' \in Nat  BY <1>17 DEF TypeOK, ArrivedLookupFails
    <2>3. /\ UNCHANGED <<sendVars, ackVars, recv_world_acks, recv_ups_acks, orderVars,
                         shipid_to_truckid, order_status,
                         to_world, from_world, to_ups, from_ups>>
          /\ Peers
      BY <1>17 DEF ArrivedLookupFails
    <2>4. TypeOK'  BY <2>1, <2>2, <2>3 DEF TypeOK
    <2> QED BY <2>1, <2>3, <2>4 DEF LockInv
  <1>18. ASSUME NEW c \in Sending, SendToWorld(c) PROVE TypeInv'
    <2>1. c \in issued /\ c.kind \in WorldCommands
      BY <1>18 DEF Sending, SendToWorld, Send_command_to_world
    <2>2. c \in ToWorld  BY <2>1 DEF TypeOK, ToWorld, Message
    <2>3. to_world' \in Seq(ToWorld)
      BY <1>18, <2>2, WriteTypes
         DEF TypeOK, ToWorld, SendToWorld, Send_command_to_world, Write
    <2>4. repeats' \in Nat  BY <1>18 DEF SendToWorld, Repeating, TypeOK
    <2>5. TypeOK'
      BY <1>18, <2>3, <2>4 DEF TypeOK, ToWorld, SendToWorld, Send_command_to_world
    <2> QED BY <1>18, <2>5 DEF LockInv, SendToWorld, Send_command_to_world
  <1>19. ASSUME NEW c \in Sending, SendToUPS(c) PROVE TypeInv'
    <2>1. c \in issued /\ c.kind \in UPSCommands
      BY <1>19 DEF Sending, SendToUPS, Send_command_to_UPS
    <2>2. c \in ToUPS  BY <2>1 DEF TypeOK, ToUPS, Message
    <2>3. to_ups' \in Seq(ToUPS)
      BY <1>19, <2>2, WriteTypes
         DEF TypeOK, ToUPS, SendToUPS, Send_command_to_UPS, Write
    <2>4. repeats' \in Nat  BY <1>19 DEF SendToUPS, Repeating, TypeOK
    <2>5. TypeOK'
      BY <1>19, <2>3, <2>4 DEF TypeOK, ToUPS, SendToUPS, Send_command_to_UPS
    <2> QED BY <1>19, <2>5 DEF LockInv, SendToUPS, Send_command_to_UPS
  <1>20. ASSUME WorldReadCommand PROVE TypeInv'
    <2> DEFINE c == Head(to_world)
               r == [kind |-> WorldAnswerKind(c), item |-> c.item,
                     truck |-> NoTruck, seq |-> world_seq]
    <2>1. to_world # <<>> /\ to_world \in Seq(ToWorld) /\ c.kind \in WorldCommands
      BY <1>20 DEF WorldReadCommand, TypeOK, ToWorld
    <2>2. c \in ToWorld  BY <2>1, HeadInSet
    <2>3. c \in Message(WorldCommands)
      BY <2>1, <2>2 DEF ToWorld, Acks, WorldCommands
    <2>4. c.seq \in Nat /\ c.item \in Items(c.kind)  BY <2>3 DEF Message
    <2>5. WorldAnswerKind(c) \in WorldResponses /\ c.item \in Items(WorldAnswerKind(c))
      <3>1. CASE c.kind = "buy"
        BY <3>1, <2>4 DEF WorldAnswerKind, WorldResponses, Items
      <3>2. CASE c.kind = "topack"
        BY <3>2, <2>4 DEF WorldAnswerKind, WorldResponses, Items
      <3>3. CASE c.kind = "load"
        BY <3>3, <2>4 DEF WorldAnswerKind, WorldResponses, Items
      <3> QED BY <2>1, <3>1, <3>2, <3>3 DEF WorldCommands
    <2>6. r \in Message(WorldResponses)
      BY <2>4, <2>5 DEF Message, Items, TypeOK
    <2>7. to_world' \in Seq(ToWorld)
      BY <1>20, <2>1, TailInSeq DEF WorldReadCommand
    <2>8. AckFor(c.seq) \in FromWorld  BY <2>4, AckType DEF FromWorld
    <2>9. from_world' \in Seq(FromWorld)
      BY <1>20, <2>8, WriteTypes DEF TypeOK, FromWorld, WorldReadCommand, Write
    <2>10. /\ world_seen' \subseteq Message(WorldCommands)
           /\ world_issued' \subseteq Message(WorldResponses)
           /\ world_out' \subseteq world_issued' /\ world_seq' \in Nat
      <3>1. world_seen' \subseteq Message(WorldCommands)
        BY <1>20, <2>3 DEF WorldReadCommand, TypeOK
      <3>2. CASE UNCHANGED <<world_seq, world_issued, world_out>>
        BY <3>1, <3>2 DEF TypeOK
      <3>3. CASE /\ world_seq' = world_seq + 1
                 /\ world_issued' = world_issued \cup {r}
                 /\ world_out' = world_out \cup {r}
        BY <3>1, <3>3, <2>6 DEF TypeOK
      <3> QED BY <1>20, <3>2, <3>3 DEF WorldReadCommand
    <2>11. TypeOK'
      BY <1>20, <2>7, <2>9, <2>10 DEF TypeOK, ToWorld, FromWorld, WorldReadCommand
    <2> QED BY <1>20, <2>11 DEF LockInv, WorldReadCommand
  <1>21. ASSUME WorldReadAck PROVE TypeInv'
    <2>1. to_world' \in Seq(ToWorld)
      BY <1>21, TailInSeq DEF WorldReadAck, TypeOK, ToWorld
    <2>2. world_out' \subseteq world_issued'
      BY <1>21 DEF WorldReadAck, TypeOK
    <2>3. TypeOK'
      BY <1>21, <2>1, <2>2 DEF TypeOK, ToWorld, WorldReadAck
    <2> QED BY <1>21, <2>3 DEF LockInv, WorldReadAck
  <1>22. ASSUME NEW r \in world_out, WorldSend(r) PROVE TypeInv'
    <2>1. r \in FromWorld  BY DEF TypeOK, FromWorld
    <2>2. from_world' \in Seq(FromWorld)
      BY <1>22, <2>1, WriteTypes DEF TypeOK, FromWorld, WorldSend, Write
    <2>3. repeats' \in Nat  BY <1>22 DEF WorldSend, Repeating, TypeOK
    <2>4. TypeOK'
      BY <1>22, <2>2, <2>3 DEF TypeOK, FromWorld, WorldSend
    <2> QED BY <1>22, <2>4 DEF LockInv, WorldSend
  <1>23. ASSUME UPSReadCommand PROVE TypeInv'
    <2> DEFINE c == Head(to_ups)
    <2>1. to_ups # <<>> /\ to_ups \in Seq(ToUPS) /\ c.kind \in UPSCommands
      BY <1>23 DEF UPSReadCommand, TypeOK, ToUPS
    <2>2. c \in ToUPS  BY <2>1, HeadInSet
    <2>3. c \in Message(UPSCommands)
      BY <2>1, <2>2 DEF ToUPS, Acks, UPSCommands
    <2>4. c.seq \in Nat /\ c.item \in Orders
      BY <2>1, <2>3 DEF Message, Items, UPSCommands
    <2>5. \A k \in Trucks : UPSAnswer(c, k) \in Message(UPSResponses)
      BY <2>1, <2>4 DEF UPSAnswer, Message, UPSCommands, UPSResponses, Items, TypeOK
    <2>6. to_ups' \in Seq(ToUPS)
      BY <1>23, <2>1, TailInSeq DEF UPSReadCommand
    <2>7. AckFor(c.seq) \in FromUPS  BY <2>4, AckType DEF FromUPS
    <2>8. from_ups' \in Seq(FromUPS)
      BY <1>23, <2>7, WriteTypes DEF TypeOK, FromUPS, UPSReadCommand, Write
    <2>9. /\ ups_seen' \subseteq Message(UPSCommands)
          /\ ups_issued' \subseteq Message(UPSResponses)
          /\ ups_out' \subseteq ups_issued' /\ ups_seq' \in Nat
      <3>1. ups_seen' \subseteq Message(UPSCommands)
        BY <1>23, <2>3 DEF UPSReadCommand, TypeOK
      <3>2. CASE UNCHANGED <<ups_seq, ups_issued, ups_out>>
        BY <3>1, <3>2 DEF TypeOK
      <3>3. CASE \E k \in Trucks :
                   /\ ups_seq' = ups_seq + 1
                   /\ ups_issued' = ups_issued \cup {UPSAnswer(c, k)}
                   /\ ups_out' = ups_out \cup {UPSAnswer(c, k)}
        BY <3>1, <3>3, <2>5 DEF TypeOK
      <3> QED BY <1>23, <3>2, <3>3 DEF UPSReadCommand
    <2>10. TypeOK'
      BY <1>23, <2>6, <2>8, <2>9 DEF TypeOK, ToUPS, FromUPS, UPSReadCommand
    <2> QED BY <1>23, <2>10 DEF LockInv, UPSReadCommand
  <1>24. ASSUME UPSReadAck PROVE TypeInv'
    <2>1. to_ups' \in Seq(ToUPS)
      BY <1>24, TailInSeq DEF UPSReadAck, TypeOK, ToUPS
    <2>2. ups_out' \subseteq ups_issued'
      BY <1>24 DEF UPSReadAck, TypeOK
    <2>3. TypeOK'
      BY <1>24, <2>1, <2>2 DEF TypeOK, ToUPS, UPSReadAck
    <2> QED BY <1>24, <2>3 DEF LockInv, UPSReadAck
  <1>25. ASSUME NEW r \in ups_out, UPSSend(r) PROVE TypeInv'
    <2>1. r \in FromUPS  BY DEF TypeOK, FromUPS
    <2>2. from_ups' \in Seq(FromUPS)
      BY <1>25, <2>1, WriteTypes DEF TypeOK, FromUPS, UPSSend, Write
    <2>3. repeats' \in Nat  BY <1>25 DEF UPSSend, Repeating, TypeOK
    <2>4. TypeOK'
      BY <1>25, <2>2, <2>3 DEF TypeOK, FromUPS, UPSSend
    <2> QED BY <1>25, <2>4 DEF LockInv, UPSSend
  <1>26. ASSUME PeerLoses PROVE TypeInv'
    <2>1. losses' \in Nat /\ to_world' \in Seq(ToWorld) /\ to_ups' \in Seq(ToUPS)
      <3>1. losses \in Nat /\ to_world \in Seq(ToWorld) /\ to_ups \in Seq(ToUPS)
        BY DEF TypeOK, ToWorld, ToUPS
      <3>2. CASE DropCommand(to_world) /\ UNCHANGED to_ups
        BY <3>1, <3>2, TailInSeq DEF DropCommand
      <3>3. CASE DropCommand(to_ups) /\ UNCHANGED to_world
        BY <3>1, <3>3, TailInSeq DEF DropCommand
      <3> QED BY <1>26, <3>2, <3>3 DEF PeerLoses
    <2>2. TypeOK'
      BY <1>26, <2>1 DEF TypeOK, ToWorld, ToUPS, PeerLoses
    <2> QED BY <1>26, <2>2 DEF LockInv, PeerLoses
  <1>27. ASSUME UNCHANGED vars PROVE TypeInv'
    BY <1>27 DEF vars, TypeOK, LockInv
  <1>28. CASE ServerStep
    <2>1. Peers  BY <1>28 DEF ServerStep
    <2>2. CASE \E o \in Orders : Process_order(o)  BY <2>1, <2>2, <1>1
    <2>3. CASE SendAck  BY <2>1, <2>3, <1>2, <1>3 DEF SendAck
    <2>4. CASE WorldReceiver
      <3>1. CASE \E t \in Threads : SpawnProcessing(t)  BY <2>1, <3>1, <1>4
      <3>2. CASE ReceiveLoaded  BY <2>1, <3>2, <1>5
      <3>3. CASE ReceiveError  BY <2>1, <3>3, <1>6
      <3>4. CASE ReceiveWorldAck  BY <2>1, <3>4, <1>7
      <3> QED BY <2>4, <3>1, <3>2, <3>3, <3>4 DEF WorldReceiver
    <2>5. CASE UPSReceiver  BY <2>1, <2>5, <1>8, <1>9, <1>10 DEF UPSReceiver
    <2>6. CASE \E t \in Threads : WorldThread(t)
      BY <2>1, <2>6, <1>11, <1>12, <1>13, <1>14, <1>15, <1>16, <1>17
         DEF WorldThread
    <2> QED BY <1>28, <2>2, <2>3, <2>4, <2>5, <2>6 DEF ServerStep
  <1>29. CASE WorldStep  BY <1>29, <1>20, <1>21, <1>22 DEF WorldStep
  <1>30. CASE UPSStep  BY <1>30, <1>23, <1>24, <1>25 DEF UPSStep
  <1>31. CASE \E c \in Sending : SendToWorld(c) \/ SendToUPS(c)
    BY <1>31, <1>18, <1>19
  <1> QED BY <1>26, <1>27, <1>28, <1>29, <1>30, <1>31 DEF Next

\* Every variable has its type in every reachable state, and a thread that matched
\* a purchase (Process_Arrived) points into the list whose lock it holds.
THEOREM TypeCorrect == Spec => []TypeOK
  <1>1. TypeInv => TypeOK  BY DEF TypeInv
  <1> QED BY InitTypeInv, TypeInvStep, <1>1, PTL DEF Spec

LEMMA TypeInvAlways == Spec => []TypeInv
  BY InitTypeInv, TypeInvStep, PTL DEF Spec

-----------------------------------------------------------------------------
(* Orders.  Few steps touch the purchases and the commands at all.             *)

SameMatches ==
  \A u \in Threads :
    threads[u].stage = "matched" \/ threads'[u].stage = "matched"
      => threads'[u] = threads[u]

OtherIssue ==
  \E k \in {"load", "loaded"}, i \in Orders, t \in Trucks \cup {NoTruck} : Issue(k, i, t)

LEMMA OrderSteps ==
  ASSUME TypeInv, [Next]_vars
  PROVE  \/ \E o \in Orders : Process_order(o)
         \/ \E t \in Threads : ArrivedMatch(t)
         \/ \E t \in Threads : ArrivedPickup(t)
         \/ OtherIssue /\ SameMatches /\ UNCHANGED orderVars
         \/ SameMatches /\ UNCHANGED <<server_seq_num, issued, orderVars>>
  <1> DEFINE Quiet == SameMatches /\ UNCHANGED <<server_seq_num, issued, orderVars>>
             Issuing == OtherIssue /\ SameMatches /\ UNCHANGED orderVars
  <1> USE DEF TypeInv
  <1>1. ASSUME NEW t \in Threads, SpawnProcessing(t) PROVE Quiet
    <2>1. /\ threads[t].stage = "idle" /\ threads'[t].stage = "started"
          /\ \A u \in Threads : u # t => threads'[u] = threads[u]
      BY <1>1 DEF SpawnProcessing, TypeOK, Idle
    <2> QED BY <1>1, <2>1 DEF SpawnProcessing, SameMatches, sendVars
  <1>2. ASSUME NEW t \in Threads, ArrivedCheck(t) PROVE Quiet
    <2>1. threads[t] \in Running /\ threads[t].stage = "started"
      BY <1>2, ThreadAt DEF ArrivedCheck
    <2>2. GoTo(t, "checked", 0)  BY <1>2 DEF ArrivedCheck
    <2>3. /\ threads'[t].stage = "checked"
          /\ \A u \in Threads : u # t => threads'[u] = threads[u]
      BY <2>1, <2>2, ThreadGoes
    <2> QED BY <1>2, <2>1, <2>3 DEF ArrivedCheck, SameMatches, sendVars
  <1>3. ASSUME NEW t \in Threads, ArrivedNoMatch(t) PROVE Quiet
    <2>1. threads[t].stage = "checked"  BY <1>3 DEF ArrivedNoMatch, At
    <2>2. /\ threads'[t].stage = "idle"
          /\ \A u \in Threads : u # t => threads'[u] = threads[u]
      BY <1>3, ThreadEnds DEF ArrivedNoMatch
    <2> QED BY <1>3, <2>1, <2>2 DEF ArrivedNoMatch, SameMatches, sendVars
  <1>4. ASSUME NEW t \in Threads, PackedStatus(t) PROVE Quiet
    <2>1. threads[t] \in Running /\ threads[t].stage = "started"
      BY <1>4, ThreadAt DEF PackedStatus
    <2>2. GoTo(t, "waiting", 0)  BY <1>4 DEF PackedStatus
    <2>3. /\ threads'[t].stage = "waiting"
          /\ \A u \in Threads : u # t => threads'[u] = threads[u]
      BY <2>1, <2>2, ThreadGoes
    <2> QED BY <1>4, <2>1, <2>3 DEF PackedStatus, SameMatches, sendVars
  <1>5. ASSUME NEW t \in Threads, PackedLoad(t) PROVE Issuing
    <2> DEFINE o == threads[t].msg.item
    <2>1. threads[t].stage = "waiting" /\ o \in Orders
      BY <1>5, ThreadAt DEF PackedLoad, At, Items
    <2>2. /\ threads'[t].stage = "idle"
          /\ \A u \in Threads : u # t => threads'[u] = threads[u]
      BY <1>5, ThreadEnds DEF PackedLoad
    <2>3. shipid_to_truckid[o] \in Trucks \cup {NoTruck}  BY <2>1 DEF TypeOK
    <2>4. OtherIssue  BY <1>5, <2>1, <2>3 DEF PackedLoad, OtherIssue
    <2> QED BY <1>5, <2>1, <2>2, <2>4 DEF PackedLoad, SameMatches
  <1>6. ASSUME ReceiveLoaded PROVE Issuing
    <2> DEFINE m == Head(from_world)
    <2>1. recvMesgFrom(from_world) /\ m.kind = "loaded"
      BY <1>6 DEF ReceiveLoaded
    <2>2. m \in FromWorld  BY <2>1, ReadFromWorld
    <2>3. m.item \in Orders  BY <2>1, <2>2 DEF FromWorld, Acks, Message, Items
    <2>4. OtherIssue  BY <1>6, <2>3 DEF ReceiveLoaded, OtherIssue
    <2> QED BY <1>6, <2>4 DEF ReceiveLoaded, SameMatches
  <1>7. ASSUME SendAck PROVE Quiet
    BY <1>7 DEF SendAck, send_acks_to_world, Send_ack_to_UPS, SameMatches, sendVars
  <1>8. ASSUME ReceiveError \/ ReceiveWorldAck PROVE Quiet
    BY <1>8 DEF ReceiveError, ReceiveWorldAck, SameMatches, sendVars
  <1>9. ASSUME UPSReceiver PROVE Quiet
    BY <1>9 DEF UPSReceiver, ReceiveTruckArrived, ReceiveDelivered, ReceiveUPSAck,
                SameMatches, sendVars
  <1>10. ASSUME NEW c \in Sending, SendToWorld(c) \/ SendToUPS(c) PROVE Quiet
    BY <1>10 DEF SendToWorld, SendToUPS, Send_command_to_world, Send_command_to_UPS,
                 SameMatches, sendVars
  <1>11. ASSUME WorldStep PROVE Quiet
    BY <1>11 DEF WorldStep, WorldReadCommand, WorldReadAck, WorldSend, SameMatches,
                 serverVars, sendVars, orderVars
  <1>12. ASSUME UPSStep PROVE Quiet
    BY <1>12 DEF UPSStep, UPSReadCommand, UPSReadAck, UPSSend, SameMatches,
                 serverVars, sendVars, orderVars
  <1>13. ASSUME PeerLoses PROVE Quiet
    BY <1>13 DEF PeerLoses, SameMatches, sendVars, orderVars
  <1>14. ASSUME UNCHANGED vars PROVE Quiet
    BY <1>14 DEF vars, SameMatches, serverVars, sendVars, orderVars
  <1>15. ASSUME NEW t \in Threads, ArrivedLookupFails(t) PROVE Quiet
    <2>1. threads[t].stage = "checked"  BY <1>15 DEF ArrivedLookupFails, At
    <2>2. /\ threads'[t].stage = "idle"
          /\ \A u \in Threads : u # t => threads'[u] = threads[u]
      BY <1>15, ThreadEnds DEF ArrivedLookupFails
    <2> QED BY <1>15, <2>1, <2>2 DEF ArrivedLookupFails, SameMatches, sendVars
  <1>16. CASE ServerStep
    <2>1. CASE WorldReceiver
      BY <2>1, <1>1, <1>6, <1>8 DEF WorldReceiver
    <2>2. CASE \E t \in Threads : WorldThread(t)
      BY <2>2, <1>2, <1>3, <1>4, <1>5, <1>15 DEF WorldThread
    <2> QED BY <1>16, <2>1, <2>2, <1>7, <1>9 DEF ServerStep
  <1> QED BY <1>10, <1>11, <1>12, <1>13, <1>14, <1>16 DEF Next

\* The numbers of commands, of the orders they are for and of the purchases.
SeqInv ==
  /\ \A c \in issued : c.seq < server_seq_num
  /\ \A c, d \in issued : c.seq = d.seq => c = d
  /\ \A e \in seqnum_to_orderinfo : e.seq < server_seq_num
  /\ \A e, f \in seqnum_to_orderinfo :
       e.seq = f.seq \/ e.order = f.order => e = f

\* Every purchase in a list has its order and is in the lists once.
ListInv ==
  /\ \A w \in Warehouses : \A i \in DOMAIN purchase_request_list[w] :
       \E e \in seqnum_to_orderinfo : e.seq = purchase_request_list[w][i].seq
  /\ \A v, w \in Warehouses :
       \A i \in DOMAIN purchase_request_list[v], j \in DOMAIN purchase_request_list[w] :
         purchase_request_list[v][i].seq = purchase_request_list[w][j].seq
           => v = w /\ i = j

Pointed(w, i) ==
  \E t \in Threads : /\ threads[t].stage = "matched"
                     /\ WarehouseOf[threads[t].msg.item] = w
                     /\ threads[t].index = i

\* The purchase of an order that is being packed is about to be erased by the
\* thread that points to it; that of an order with a truck is erased.
EraseInv ==
  /\ \A c \in issued : c.kind = "topack" =>
       \E e \in seqnum_to_orderinfo :
         /\ e.order = c.item
         /\ \A w \in Warehouses : \A i \in DOMAIN purchase_request_list[w] :
              purchase_request_list[w][i].seq = e.seq => Pointed(w, i)
  /\ \A c \in issued : c.kind = "pickupreq" =>
       \E e \in seqnum_to_orderinfo :
         /\ e.order = c.item
         /\ \A w \in Warehouses : \A i \in DOMAIN purchase_request_list[w] :
              purchase_request_list[w][i].seq # e.seq

OrderInv == SeqInv /\ ListInv /\ EraseInv /\ PackedAtMostOnce /\ NoOrderForgotten

LEMMA InitOrderInv == Init => OrderInv
  BY DEF Init, InitServer, OrderInv, SeqInv, ListInv, EraseInv, PackedAtMostOnce,
         NoOrderForgotten

\* What Issue adds: one command, with a number that no command and no order has.
LEMMA IssueAdds ==
  ASSUME TypeOK, SeqInv, NEW k, NEW i, NEW t, Issue(k, i, t)
  PROVE  LET c == [kind |-> k, item |-> i, truck |-> t, seq |-> server_seq_num]
         IN  /\ issued' = issued \cup {c}
             /\ server_seq_num' = server_seq_num + 1
             /\ server_seq_num \in Nat
             /\ \A d \in issued' : d.seq < server_seq_num'
             /\ \A d, f \in issued' : d.seq = f.seq => d = f
  <1> DEFINE c == [kind |-> k, item |-> i, truck |-> t, seq |-> server_seq_num]
  <1>1. issued' = issued \cup {c} /\ server_seq_num' = server_seq_num + 1
    BY DEF Issue, NextSeq
  <1>2. server_seq_num \in Nat  BY BoundAssumption DEF TypeOK
  <1>3. \A d \in issued : d.seq \in Nat /\ d.seq < server_seq_num
    BY DEF TypeOK, SeqInv, Message
  <1>4. \A d, f \in issued : d.seq = f.seq => d = f  BY DEF SeqInv
  <1>5. c.seq = server_seq_num  OBVIOUS
  <1> HIDE DEF c
  <1>6. \A d \in issued' : d.seq < server_seq_num'  BY <1>1, <1>2, <1>3, <1>5
  <1>7. \A d, f \in issued' : d.seq = f.seq => d = f
    BY <1>1, <1>2, <1>3, <1>4, <1>5
  <1> QED BY <1>1, <1>2, <1>6, <1>7 DEF c

LEMMA PointedSame ==
  ASSUME SameMatches, NEW w, NEW i, Pointed(w, i)
  PROVE  Pointed(w, i)'
  <1>1. PICK t \in Threads : /\ threads[t].stage = "matched"
                            /\ WarehouseOf[threads[t].msg.item] = w
                            /\ threads[t].index = i
    BY DEF Pointed
  <1>2. threads'[t] = threads[t]  BY <1>1 DEF SameMatches
  <1> QED BY <1>1, <1>2 DEF Pointed

THEOREM OrderInvStep == TypeInv /\ OrderInv /\ [Next]_vars => OrderInv'
  <1> SUFFICES ASSUME TypeInv, OrderInv, [Next]_vars PROVE OrderInv'
    OBVIOUS
  <1> USE DEF TypeInv, OrderInv
  <1>1. ASSUME SameMatches, UNCHANGED <<server_seq_num, issued, orderVars>>
        PROVE  OrderInv'
    <2>1. EraseInv'  BY <1>1, PointedSame DEF EraseInv, orderVars
    <2> QED
      BY <1>1, <2>1 DEF SeqInv, ListInv, PackedAtMostOnce, NoOrderForgotten, orderVars
  <1>2. ASSUME OtherIssue, SameMatches, UNCHANGED orderVars PROVE OrderInv'
    <2>1. PICK k \in {"load", "loaded"}, i \in Orders, t \in Trucks \cup {NoTruck} :
            Issue(k, i, t)
      BY <1>2 DEF OtherIssue
    <2> DEFINE c == [kind |-> k, item |-> i, truck |-> t, seq |-> server_seq_num]
    <2>2. /\ issued' = issued \cup {c} /\ c.kind \in {"load", "loaded"}
          /\ server_seq_num' = server_seq_num + 1 /\ server_seq_num \in Nat
          /\ \A d \in issued' : d.seq < server_seq_num'
          /\ \A d, f \in issued' : d.seq = f.seq => d = f
      BY <2>1, IssueAdds
    <2> HIDE DEF c
    <2>3. \A e \in seqnum_to_orderinfo : e.seq \in Nat  BY DEF TypeOK
    <2>4. SeqInv'  BY <1>2, <2>2, <2>3 DEF SeqInv, orderVars
    <2>5. ListInv'  BY <1>2 DEF ListInv, orderVars
    <2>6. EraseInv'  BY <1>2, <2>2, PointedSame DEF EraseInv, orderVars
    <2>7. PackedAtMostOnce'  BY <2>2 DEF PackedAtMostOnce
    <2>8. NoOrderForgotten'  BY <1>2, <2>2 DEF NoOrderForgotten, orderVars
    <2> QED BY <2>4, <2>5, <2>6, <2>7, <2>8
  <1>3. ASSUME NEW o \in Orders, Process_order(o) PROVE OrderInv'
    <2> DEFINE g == GoodsOf[o]
               w == WarehouseOf[g]
               n == server_seq_num
               c == [kind |-> "buy", item |-> g, truck |-> NoTruck, seq |-> n]
               e == [seq |-> n, order |-> o]
               p == [seq |-> n, goods |-> g]
               list == purchase_request_list
    <2>1. g \in Goods /\ w \in Warehouses  BY GoodsAssumption
    <2>2. Issue("buy", g, NoTruck)  BY <1>3 DEF Process_order
    <2>3. /\ issued' = issued \cup {c} /\ c.kind = "buy"
          /\ server_seq_num' = n + 1 /\ n \in Nat
          /\ \A d \in issued' : d.seq < server_seq_num'
          /\ \A d, f \in issued' : d.seq = f.seq => d = f
      BY <2>2, IssueAdds
    <2>4. /\ seqnum_to_orderinfo' = seqnum_to_orderinfo \cup {e}
          /\ \A f \in seqnum_to_orderinfo : f.order # o
          /\ threads' = threads
          /\ list' = [list EXCEPT ![w] = Append(list[w], p)]
      BY <1>3 DEF Process_order
    <2>5. \A f \in seqnum_to_orderinfo : f.seq \in Nat /\ f.seq < n
      BY DEF TypeOK, SeqInv
    <2>6. e.seq = n /\ e.order = o /\ p.seq = n  OBVIOUS
    <2> HIDE DEF c, e, p, n
    <2>7. list \in [Warehouses -> Seq(Entry)]  BY DEF TypeOK, Entry
    <2>8. \A v \in Warehouses : v # w => list'[v] = list[v]
      BY <2>4, <2>7
    <2>9. /\ Len(list[w]) \in Nat
          /\ DOMAIN list[w] = 1 .. Len(list[w])
          /\ DOMAIN list'[w] = 1 .. Len(list[w]) + 1
          /\ \A i \in DOMAIN list[w] : list'[w][i] = list[w][i]
          /\ list'[w][Len(list[w]) + 1] = p
      BY <2>1, <2>4, <2>7
    <2>10. \A v \in Warehouses : \A i \in DOMAIN list[v] :
             /\ i \in DOMAIN list'[v] /\ list'[v][i] = list[v][i]
             /\ \E f \in seqnum_to_orderinfo : f.seq = list[v][i].seq
      <3>1. \A v \in Warehouses : \A i \in DOMAIN list[v] :
              \E f \in seqnum_to_orderinfo : f.seq = list[v][i].seq
        BY DEF ListInv
      <3> QED BY <2>8, <2>9, <3>1
    <2>11. \A v \in Warehouses : \A i \in DOMAIN list'[v] :
             i \in DOMAIN list[v] \/ (v = w /\ i = Len(list[w]) + 1 /\ list'[v][i] = p)
      BY <2>8, <2>9
    <2> HIDE DEF list
    <2>12. SeqInv'
      BY <2>3, <2>4, <2>5, <2>6 DEF SeqInv
    <2>13. ListInv'
      <3>1. ASSUME NEW v \in Warehouses, NEW i \in DOMAIN list'[v]
            PROVE  \E f \in seqnum_to_orderinfo' : f.seq = list'[v][i].seq
        BY <2>4, <2>6, <2>10, <2>11
      <3>2. ASSUME NEW v \in Warehouses, NEW u \in Warehouses,
                   NEW i \in DOMAIN list'[v], NEW j \in DOMAIN list'[u],
                   list'[v][i].seq = list'[u][j].seq
            PROVE  v = u /\ i = j
        <4>1. CASE i \in DOMAIN list[v] /\ j \in DOMAIN list[u]
          BY <3>2, <4>1, <2>10 DEF ListInv, list
        <4>2. CASE i \notin DOMAIN list[v] /\ j \notin DOMAIN list[u]
          BY <4>2, <2>11
        <4>3. CASE i \in DOMAIN list[v] /\ j \notin DOMAIN list[u]
          BY <3>2, <4>3, <2>3, <2>5, <2>6, <2>10, <2>11
        <4>4. CASE i \notin DOMAIN list[v] /\ j \in DOMAIN list[u]
          BY <3>2, <4>4, <2>3, <2>5, <2>6, <2>10, <2>11
        <4> QED BY <4>1, <4>2, <4>3, <4>4
      <3> QED BY <3>1, <3>2 DEF ListInv, list
    <2>14. \A f \in seqnum_to_orderinfo : \A v \in Warehouses : \A i \in DOMAIN list'[v] :
             list'[v][i].seq = f.seq => i \in DOMAIN list[v] /\ list[v][i].seq = f.seq
      BY <2>3, <2>5, <2>6, <2>10, <2>11
    <2>15. \A v, i : Pointed(v, i)' <=> Pointed(v, i)
      BY <2>4 DEF Pointed
    <2>16. EraseInv'
      <3>1. ASSUME NEW d \in issued', d.kind = "topack"
            PROVE  \E f \in seqnum_to_orderinfo' :
                     /\ f.order = d.item
                     /\ \A v \in Warehouses : \A i \in DOMAIN list'[v] :
                          list'[v][i].seq = f.seq => Pointed(v, i)'
        <4>1. d \in issued  BY <3>1, <2>3
        <4>2. PICK f \in seqnum_to_orderinfo :
                /\ f.order = d.item
                /\ \A v \in Warehouses : \A i \in DOMAIN list[v] :
                     list[v][i].seq = f.seq => Pointed(v, i)
          BY <3>1, <4>1 DEF EraseInv, list
        <4> QED BY <4>2, <2>4, <2>14, <2>15
      <3>2. ASSUME NEW d \in issued', d.kind = "pickupreq"
            PROVE  \E f \in seqnum_to_orderinfo' :
                     /\ f.order = d.item
                     /\ \A v \in Warehouses : \A i \in DOMAIN list'[v] :
                          list'[v][i].seq # f.seq
        <4>1. d \in issued  BY <3>2, <2>3
        <4>2. PICK f \in seqnum_to_orderinfo :
                /\ f.order = d.item
                /\ \A v \in Warehouses : \A i \in DOMAIN list[v] :
                     list[v][i].seq # f.seq
          BY <3>2, <4>1 DEF EraseInv, list
        <4> QED BY <4>2, <2>4, <2>14
      <3> QED BY <3>1, <3>2 DEF EraseInv, list
    <2>17. PackedAtMostOnce'  BY <2>3 DEF PackedAtMostOnce
    <2>18. NoOrderForgotten'
      <3>1. ASSUME NEW f \in seqnum_to_orderinfo'
            PROVE  \/ \E v \in Warehouses : \E i \in DOMAIN list'[v] :
                        list'[v][i].seq = f.seq
                   \/ \E d \in issued' : d.kind = "pickupreq" /\ d.item = f.order
        <4>1. CASE f = e
          <5>1. Len(list[w]) + 1 \in DOMAIN list'[w]  BY <2>9
          <5> QED BY <4>1, <5>1, <2>1, <2>6, <2>9
        <4>2. CASE f \in seqnum_to_orderinfo
          BY <4>2, <2>3, <2>10 DEF NoOrderForgotten, list
        <4> QED BY <4>1, <4>2, <2>4
      <3> QED BY <3>1 DEF NoOrderForgotten, list
    <2> QED BY <2>12, <2>13, <2>16, <2>17, <2>18
  <1>4. ASSUME NEW t \in Threads, ArrivedMatch(t) PROVE OrderInv'
    <2> DEFINE g == threads[t].msg.item
               w == WarehouseOf[g]
               n == server_seq_num
               list == purchase_request_list
    <2>1. /\ threads[t] \in Running /\ threads[t].stage = "checked"
          /\ g \in Items("arrived")
      BY <1>4, ThreadAt DEF ArrivedMatch
    <2>2. w \in Warehouses  BY <2>1, GoodsAssumption DEF Items
    <2>3. PICK i \in DOMAIN list[w], e \in seqnum_to_orderinfo :
            /\ e.seq = list[w][i].seq
            /\ Issue("topack", e.order, NoTruck)
            /\ GoTo(t, "matched", i)
      BY <1>4 DEF ArrivedMatch
    <2> DEFINE c == [kind |-> "topack", item |-> e.order, truck |-> NoTruck, seq |-> n]
    <2>4. /\ issued' = issued \cup {c} /\ c.kind = "topack" /\ c.item = e.order
          /\ server_seq_num' = n + 1 /\ n \in Nat
          /\ \A d \in issued' : d.seq < server_seq_num'
          /\ \A d, f \in issued' : d.seq = f.seq => d = f
      BY <2>3, IssueAdds
    <2> HIDE DEF c
    <2>5. UNCHANGED <<seqnum_to_orderinfo, purchase_request_list>>
      BY <1>4 DEF ArrivedMatch
    <2>6. i \in Nat  BY <2>2, <2>3 DEF TypeOK
    <2>7. /\ threads'[t].stage = "matched" /\ threads'[t].index = i
          /\ threads'[t].msg = threads[t].msg
          /\ \A u \in Threads : u # t => threads'[u] = threads[u]
      BY <2>1, <2>3, <2>6, ThreadGoes
    <2>8. \A v, j : Pointed(v, j) => Pointed(v, j)'
      BY <2>1, <2>7 DEF Pointed
    <2>9. \A v : v = w => Pointed(v, i)'  BY <2>7 DEF Pointed
    <2>10. ~Pointed(w, i)
      <3>1. purchase_mutex[w] = NoThread  BY <1>4 DEF ArrivedMatch, LockFree
      <3> QED BY <3>1, NullAssumption DEF Pointed, LockInv
    <2>11. \A f \in seqnum_to_orderinfo : f.seq \in Nat /\ f.seq < n
      BY DEF TypeOK, SeqInv
    <2>12. SeqInv'  BY <2>4, <2>5, <2>11 DEF SeqInv
    <2>13. ListInv'  BY <2>5 DEF ListInv
    <2>14. \A d \in issued : d.kind = "topack" => d.item # e.order
      <3> SUFFICES ASSUME NEW d \in issued, d.kind = "topack", d.item = e.order
                   PROVE  FALSE
        OBVIOUS
      <3>1. PICK f \in seqnum_to_orderinfo :
              /\ f.order = d.item
              /\ \A v \in Warehouses : \A j \in DOMAIN list[v] :
                   list[v][j].seq = f.seq => Pointed(v, j)
        BY DEF EraseInv
      <3>2. f = e  BY <3>1 DEF SeqInv
      <3> QED BY <3>1, <3>2, <2>2, <2>3, <2>10
    <2>15. EraseInv'
      <3>1. ASSUME NEW d \in issued', d.kind = "topack"
            PROVE  \E f \in seqnum_to_orderinfo' :
                     /\ f.order = d.item
                     /\ \A v \in Warehouses : \A j \in DOMAIN list'[v] :
                          list'[v][j].seq = f.seq => Pointed(v, j)'
        <4>1. CASE d = c
          <5>1. \A v \in Warehouses : \A j \in DOMAIN list[v] :
                  list[v][j].seq = e.seq => v = w /\ j = i
            BY <2>2, <2>3 DEF ListInv
          <5> QED BY <4>1, <5>1, <2>4, <2>5, <2>9
        <4>2. CASE d \in issued
          BY <3>1, <4>2, <2>5, <2>8 DEF EraseInv
        <4> QED BY <4>1, <4>2, <2>4
      <3>2. ASSUME NEW d \in issued', d.kind = "pickupreq"
            PROVE  \E f \in seqnum_to_orderinfo' :
                     /\ f.order = d.item
                     /\ \A v \in Warehouses : \A j \in DOMAIN list'[v] :
                          list'[v][j].seq # f.seq
        BY <3>2, <2>4, <2>5 DEF EraseInv
      <3> QED BY <3>1, <3>2 DEF EraseInv
    <2>16. PackedAtMostOnce'  BY <2>4, <2>14 DEF PackedAtMostOnce
    <2>17. NoOrderForgotten'  BY <2>4, <2>5 DEF NoOrderForgotten
    <2> QED BY <2>12, <2>13, <2>15, <2>16, <2>17
  <1>5. ASSUME NEW t \in Threads, ArrivedPickup(t) PROVE OrderInv'
    <2> DEFINE g == threads[t].msg.item
               w == WarehouseOf[g]
               i == threads[t].index
               n == server_seq_num
               list == purchase_request_list
    <2>1. threads[t].stage = "matched" /\ g \in Items("arrived")
      BY <1>5, ThreadAt DEF ArrivedPickup
    <2>2. w \in Warehouses  BY <2>1, GoodsAssumption DEF Items
    <2>3. purchase_mutex[w] = t /\ i \in DOMAIN list[w]  BY <2>1 DEF LockInv
    <2>4. PICK e \in seqnum_to_orderinfo :
            e.seq = list[w][i].seq /\ Issue("pickupreq", e.order, NoTruck)
      BY <1>5 DEF ArrivedPickup
    <2> DEFINE c == [kind |-> "pickupreq", item |-> e.order, truck |-> NoTruck, seq |-> n]
    <2>5. /\ issued' = issued \cup {c} /\ c.kind = "pickupreq" /\ c.item = e.order
          /\ server_seq_num' = n + 1 /\ n \in Nat
          /\ \A d \in issued' : d.seq < server_seq_num'
          /\ \A d, f \in issued' : d.seq = f.seq => d = f
      BY <2>4, IssueAdds
    <2>6. /\ UNCHANGED seqnum_to_orderinfo
          /\ list' = [list EXCEPT ![w] = RemoveAt(list[w], i)]
          /\ threads' = [threads EXCEPT ![t] = Idle]
      BY <1>5 DEF ArrivedPickup, EraseAt
    <2>7. \A u \in Threads : u # t => threads'[u] = threads[u]
      BY <2>6, ThreadEnds
    <2>8. list \in [Warehouses -> Seq(Entry)]  BY DEF TypeOK, Entry
    <2>9. list[w] \in Seq(Entry) /\ list'[w] = RemoveAt(list[w], i)
          /\ \A v \in Warehouses : v # w => list'[v] = list[v]
      BY <2>2, <2>6, <2>8
    <2> HIDE DEF c, n, list, w, i
    <2>10. /\ Len(list[w]) \in Nat /\ DOMAIN list[w] = 1 .. Len(list[w])
           /\ DOMAIN list'[w] = 1 .. Len(list[w]) - 1
           /\ \A j \in 1 .. Len(list[w]) - 1 :
                list'[w][j] = IF j < i THEN list[w][j] ELSE list[w][j + 1]
      <3>1. Len(list[w]) \in Nat /\ DOMAIN list[w] = 1 .. Len(list[w])  BY <2>9
      <3>2. /\ DOMAIN RemoveAt(list[w], i) = 1 .. Len(list[w]) - 1
            /\ \A j \in 1 .. Len(list[w]) - 1 :
                 RemoveAt(list[w], i)[j] = IF j < i THEN list[w][j] ELSE list[w][j + 1]
        BY <2>3, <2>9, RemoveAtEntries
      <3> QED BY <2>9, <3>1, <3>2
    <2> DEFINE Old(v, j) == IF v = w /\ ~(j < i) THEN j + 1 ELSE j
    <2>11. \A v \in Warehouses : \A j \in DOMAIN list'[v] :
             /\ Old(v, j) \in DOMAIN list[v]
             /\ list'[v][j] = list[v][Old(v, j)]
             /\ v = w => Old(v, j) # i
      <3>1. ASSUME NEW v \in Warehouses, NEW j \in DOMAIN list'[v]
            PROVE  /\ Old(v, j) \in DOMAIN list[v]
                   /\ list'[v][j] = list[v][Old(v, j)]
                   /\ v = w => Old(v, j) # i
        <4>1. CASE v # w  BY <4>1, <2>9
        <4>2. CASE v = w
          <5>1. j \in 1 .. Len(list[w]) - 1 /\ i \in 1 .. Len(list[w])
            BY <4>2, <2>3, <2>10
          <5>2. CASE j < i  BY <4>2, <5>1, <5>2, <2>10
          <5>3. CASE ~(j < i)  BY <4>2, <5>1, <5>3, <2>10
          <5> QED BY <5>2, <5>3
        <4> QED BY <4>1, <4>2
      <3> QED BY <3>1
    <2>12. \A v \in Warehouses : \A j, k \in DOMAIN list'[v] :
             Old(v, j) = Old(v, k) => j = k
      <3>1. ASSUME NEW v \in Warehouses, NEW j \in DOMAIN list'[v],
                   NEW k \in DOMAIN list'[v], Old(v, j) = Old(v, k)
            PROVE  j = k
        <4>1. CASE v = w
          <5>1. j \in Nat /\ k \in Nat /\ i \in Nat  BY <4>1, <2>3, <2>10
          <5> QED BY <3>1, <5>1
        <4>2. CASE v # w  BY <3>1, <4>2
        <4> QED BY <4>1, <4>2
      <3> QED BY <3>1
    <2>13. \A j \in DOMAIN list[w] : j # i =>
             \E k \in DOMAIN list'[w] : list'[w][k] = list[w][j]
      <3>1. ASSUME NEW j \in DOMAIN list[w], j # i
            PROVE  \E k \in DOMAIN list'[w] : list'[w][k] = list[w][j]
        <4>1. CASE j < i  BY <4>1, <2>3, <2>10
        <4>2. CASE ~(j < i)
          <5>1. j - 1 \in 1 .. Len(list[w]) - 1 /\ ~(j - 1 < i) /\ (j - 1) + 1 = j
            BY <3>1, <4>2, <2>3, <2>10
          <5> QED BY <5>1, <2>10
        <4> QED BY <4>1, <4>2
      <3> QED BY <3>1
    <2> HIDE DEF Old
    <2>14. \A f \in seqnum_to_orderinfo : f.seq \in Nat /\ f.seq < n
      BY DEF TypeOK, SeqInv, n
    <2>15. SeqInv'  BY <2>5, <2>6, <2>14 DEF SeqInv, n
    <2>16. ListInv'
      <3>1. ASSUME NEW v \in Warehouses, NEW j \in DOMAIN list'[v]
            PROVE  \E f \in seqnum_to_orderinfo' : f.seq = list'[v][j].seq
        BY <2>6, <2>11 DEF ListInv, list
      <3>2. ASSUME NEW v \in Warehouses, NEW u \in Warehouses,
                   NEW j \in DOMAIN list'[v], NEW k \in DOMAIN list'[u],
                   list'[v][j].seq = list'[u][k].seq
            PROVE  v = u /\ j = k
        <4>1. v = u /\ Old(v, j) = Old(u, k)
          BY <3>2, <2>11 DEF ListInv, list
        <4> QED BY <4>1, <2>12
      <3> QED BY <3>1, <3>2 DEF ListInv, list
    <2>17. \A v \in Warehouses : \A j \in DOMAIN list'[v] : list'[v][j].seq # e.seq
      BY <2>2, <2>3, <2>4, <2>11 DEF ListInv, list
    <2>18. \A v, j : v # w /\ Pointed(v, j) => Pointed(v, j)'
      BY <2>7 DEF Pointed, w
    <2>19. \A j : Pointed(w, j) => j = i
      BY <2>3 DEF Pointed, LockInv, i
    <2>20. EraseInv'
      <3>1. ASSUME NEW d \in issued', d.kind = "topack"
            PROVE  \E f \in seqnum_to_orderinfo' :
                     /\ f.order = d.item
                     /\ \A v \in Warehouses : \A j \in DOMAIN list'[v] :
                          list'[v][j].seq = f.seq => Pointed(v, j)'
        <4>1. d \in issued  BY <3>1, <2>5
        <4>2. PICK f \in seqnum_to_orderinfo :
                /\ f.order = d.item
                /\ \A v \in Warehouses : \A j \in DOMAIN list[v] :
                     list[v][j].seq = f.seq => Pointed(v, j)
          BY <3>1, <4>1 DEF EraseInv, list
        <4>3. ASSUME NEW v \in Warehouses, NEW j \in DOMAIN list'[v],
                     list'[v][j].seq = f.seq
              PROVE  Pointed(v, j)'
          <5>1. Pointed(v, Old(v, j))  BY <4>2, <4>3, <2>11
          <5>2. v # w  BY <5>1, <2>11, <2>19
          <5>3. Old(v, j) = j  BY <5>2 DEF Old
          <5> QED BY <5>1, <5>2, <5>3, <2>18
        <4> QED BY <4>2, <4>3, <2>6
      <3>2. ASSUME NEW d \in issued', d.kind = "pickupreq"
            PROVE  \E f \in seqnum_to_orderinfo' :
                     /\ f.order = d.item
                     /\ \A v \in Warehouses : \A j \in DOMAIN list'[v] :
                          list'[v][j].seq # f.seq
        <4>1. CASE d = c  BY <4>1, <2>5, <2>6, <2>17
        <4>2. CASE d \in issued
          <5>1. PICK f \in seqnum_to_orderinfo :
                  /\ f.order = d.item
                  /\ \A v \in Warehouses : \A j \in DOMAIN list[v] :
                       list[v][j].seq # f.seq
            BY <3>2, <4>2 DEF EraseInv, list
          <5> QED BY <5>1, <2>6, <2>11
        <4> QED BY <4>1, <4>2, <2>5
      <3> QED BY <3>1, <3>2 DEF EraseInv, list
    <2>21. \A d \in issued : d.kind = "pickupreq" => d.item # e.order
      <3> SUFFICES ASSUME NEW d \in issued, d.kind = "pickupreq", d.item = e.order
                   PROVE  FALSE
        OBVIOUS
      <3>1. PICK f \in seqnum_to_orderinfo :
              /\ f.order = d.item
              /\ \A v \in Warehouses : \A j \in DOMAIN list[v] : list[v][j].seq # f.seq
        BY DEF EraseInv, list
      <3>2. f = e  BY <3>1 DEF SeqInv
      <3> QED BY <3>1, <3>2, <2>2, <2>3, <2>4
    <2>22. PackedAtMostOnce'  BY <2>5, <2>21 DEF PackedAtMostOnce
    <2>23. NoOrderForgotten'
      <3>1. ASSUME NEW f \in seqnum_to_orderinfo'
            PROVE  \/ \E v \in Warehouses : \E j \in DOMAIN list'[v] :
                        list'[v][j].seq = f.seq
                   \/ \E d \in issued' : d.kind = "pickupreq" /\ d.item = f.order
        <4>1. CASE f = e
          <5>1. c \in issued'  BY <2>5
          <5> QED BY <4>1, <5>1, <2>5
        <4>2. CASE f # e
          <5>1. f \in seqnum_to_orderinfo /\ f.seq # e.seq
            BY <4>2, <2>6 DEF SeqInv
          <5>2. CASE \E d \in issued : d.kind = "pickupreq" /\ d.item = f.order
            BY <5>2, <2>5
          <5>3. CASE \E v \in Warehouses : \E j \in DOMAIN list[v] :
                       list[v][j].seq = f.seq
            <6>0. PICK v \in Warehouses :
                    \E j \in DOMAIN list[v] : list[v][j].seq = f.seq
              BY <5>3
            <6>1. PICK j \in DOMAIN list[v] : list[v][j].seq = f.seq
              BY <6>0
            <6>2. CASE v # w
              <7>1. j \in DOMAIN list'[v] /\ list'[v][j].seq = f.seq
                BY <6>1, <6>2, <2>9
              <7> QED BY <7>1
            <6>3. CASE v = w
              <7>1. j # i  BY <5>1, <6>1, <6>3, <2>4
              <7> QED BY <6>1, <6>3, <7>1, <2>2, <2>13
            <6> QED BY <6>2, <6>3
          <5> QED BY <5>1, <5>2, <5>3 DEF NoOrderForgotten, list
        <4> QED BY <4>1, <4>2
      <3> QED BY <3>1 DEF NoOrderForgotten, list
    <2> QED BY <2>15, <2>16, <2>20, <2>22, <2>23
  <1> QED BY <1>1, <1>2, <1>3, <1>4, <1>5, OrderSteps

LEMMA OrderInvAlways == Spec => []OrderInv
  BY InitOrderInv, OrderInvStep, TypeInvAlways, PTL DEF Spec

\* No schedule of the threads that handle arrivals, and no repetition of them, has
\* an order packed twice or a second truck sent for it (Process_Arrived).
THEOREM OrdersPackedOnce == Spec => []PackedAtMostOnce
  <1>1. OrderInv => PackedAtMostOnce  BY DEF OrderInv
  <1> QED BY OrderInvAlways, <1>1, PTL

\* The purchase of an accepted order stays in its list until a truck was asked for
\* (send_ApurchaseMore_to_world, Process_Arrived).
THEOREM OrdersKept == Spec => []NoOrderForgotten
  <1>1. OrderInv => NoOrderForgotten  BY DEF OrderInv
  <1> QED BY OrderInvAlways, <1>1, PTL

-----------------------------------------------------------------------------
(* Messages.  What one step may add to the channels, the logs and the tables.  *)

Grow ==
  /\ issued \subseteq issued'
  /\ world_seen \subseteq world_seen' /\ ups_seen \subseteq ups_seen'
  /\ world_issued \subseteq world_issued' /\ ups_issued \subseteq ups_issued'

OutEffect ==
  /\ \A m \in ToSet(to_world') : m \in ToSet(to_world) \cup issued \cup Acks
  /\ \A m \in ToSet(to_ups') : m \in ToSet(to_ups) \cup issued \cup Acks
  /\ \A c \in world_seen' : c \in world_seen \/ (c \in ToSet(to_world) /\ c.kind # "ack")
  /\ \A c \in ups_seen' : c \in ups_seen \/ (c \in ToSet(to_ups) /\ c.kind # "ack")

InEffect ==
  /\ \A m \in ToSet(from_world') :
       \/ m \in ToSet(from_world) \/ m \in world_issued
       \/ m.kind = "ack" /\ \E c \in world_seen' : c.seq = m.seq
  /\ \A m \in ToSet(from_ups') :
       \/ m \in ToSet(from_ups) \/ m \in ups_issued
       \/ m.kind = "ack" /\ \E c \in ups_seen' : c.seq = m.seq
  /\ \A n \in send_acks' :
       \/ n \in send_acks
       \/ \E m \in ToSet(from_world) \cup ToSet(from_ups) : m.kind = "ack" /\ m.seq = n

TruckEffect ==
  /\ \A o \in Orders :
       \/ shipid_to_truckid'[o] = shipid_to_truckid[o]
       \/ \E m \in ToSet(from_ups) : /\ m.kind = "truckarrived" /\ m.item = o
                                     /\ m.truck = shipid_to_truckid'[o]
  /\ \A c \in issued' :
       c \in issued \/ (c.kind = "load" => /\ c.item \in Orders
                                          /\ shipid_to_truckid[c.item] = c.truck
                                          /\ c.truck # NoTruck)

Effects == Grow /\ OutEffect /\ InEffect /\ TruckEffect

LEMMA IssueGrows ==
  ASSUME NEW k, NEW i, NEW t, Issue(k, i, t)
  PROVE  /\ issued \subseteq issued' /\ send_acks' \subseteq send_acks
         /\ \A c \in issued' : c \in issued \/ (c.kind = k /\ c.item = i /\ c.truck = t)
  BY DEF Issue

LEMMA StepEffects == ASSUME TypeInv, [Next]_vars PROVE Effects
  <1> USE DEF TypeInv, Effects
  <1> DEFINE Peers == UNCHANGED <<worldVars, upsVars, repeats>>
             Channels == UNCHANGED <<to_world, to_ups, from_world, from_ups>>
             Histories == UNCHANGED <<world_seen, ups_seen, world_issued, ups_issued>>
  <1>0. Peers => Histories  BY DEF worldVars, upsVars
  <1>1. ASSUME NEW o \in Orders, Process_order(o), Peers PROVE Effects
    <2>1. Issue("buy", GoodsOf[o], NoTruck)  BY <1>1 DEF Process_order
    <2>2. Channels /\ UNCHANGED shipid_to_truckid  BY <1>1 DEF Process_order
    <2> QED
      BY <1>0, <1>1, <2>1, <2>2, IssueGrows DEF Grow, OutEffect, InEffect, TruckEffect
  <1>2. ASSUME NEW n \in acks_to_world, send_acks_to_world(n), Peers PROVE Effects
    <2>1. AckFor(n) \in Acks /\ AckFor(n) \in ToWorld
      BY AckType DEF TypeOK, ToWorld
    <2>2. to_world \in Seq(ToWorld) /\ to_world' = Append(to_world, AckFor(n))
      BY <1>2 DEF send_acks_to_world, Write, TypeOK, ToWorld
    <2>3. ToSet(to_world') = ToSet(to_world) \cup {AckFor(n)}
      BY <2>1, <2>2, AppendElements
    <2>4. UNCHANGED <<issued, send_acks, to_ups, from_world, from_ups, shipid_to_truckid>>
      BY <1>2 DEF send_acks_to_world, sendVars
    <2> QED BY <1>0, <1>2, <2>1, <2>3, <2>4 DEF Grow, OutEffect, InEffect, TruckEffect
  <1>3. ASSUME NEW n \in acks_to_UPS, Send_ack_to_UPS(n), Peers PROVE Effects
    <2>1. AckFor(n) \in Acks /\ AckFor(n) \in ToUPS
      BY AckType DEF TypeOK, ToUPS
    <2>2. to_ups \in Seq(ToUPS) /\ to_ups' = Append(to_ups, AckFor(n))
      BY <1>3 DEF Send_ack_to_UPS, Write, TypeOK, ToUPS
    <2>3. ToSet(to_ups') = ToSet(to_ups) \cup {AckFor(n)}
      BY <2>1, <2>2, AppendElements
    <2>4. UNCHANGED <<issued, send_acks, to_world, from_world, from_ups, shipid_to_truckid>>
      BY <1>3 DEF Send_ack_to_UPS, sendVars
    <2> QED BY <1>0, <1>3, <2>1, <2>3, <2>4 DEF Grow, OutEffect, InEffect, TruckEffect
  <1>4. ASSUME NEW t \in Threads, SpawnProcessing(t), Peers PROVE Effects
    <2>1. ToSet(from_world') \subseteq ToSet(from_world)
      BY <1>4, ReadFromWorld DEF SpawnProcessing
    <2>2. UNCHANGED <<issued, send_acks, to_world, to_ups, from_ups, shipid_to_truckid>>
      BY <1>4 DEF SpawnProcessing, sendVars
    <2> QED BY <1>0, <1>4, <2>1, <2>2 DEF Grow, OutEffect, InEffect, TruckEffect
  <1>5. ASSUME ReceiveLoaded, Peers PROVE Effects
    <2>1. ToSet(from_world') \subseteq ToSet(from_world)
      BY <1>5, ReadFromWorld DEF ReceiveLoaded
    <2>2. Issue("loaded", Head(from_world).item, NoTruck)  BY <1>5 DEF ReceiveLoaded
    <2>3. UNCHANGED <<to_world, to_ups, from_ups, shipid_to_truckid>>
      BY <1>5 DEF ReceiveLoaded
    <2> QED
      BY <1>0, <1>5, <2>1, <2>2, <2>3, IssueGrows
         DEF Grow, OutEffect, InEffect, TruckEffect
  <1>6. ASSUME ReceiveError, Peers PROVE Effects
    <2>1. ToSet(from_world') \subseteq ToSet(from_world)
      BY <1>6, ReadFromWorld DEF ReceiveError
    <2>2. UNCHANGED <<issued, send_acks, to_world, to_ups, from_ups, shipid_to_truckid>>
      BY <1>6 DEF ReceiveError, sendVars
    <2> QED BY <1>0, <1>6, <2>1, <2>2 DEF Grow, OutEffect, InEffect, TruckEffect
  <1>7. ASSUME ReceiveWorldAck, Peers PROVE Effects
    <2> DEFINE m == Head(from_world)
    <2>1. from_world # <<>> /\ from_world \in Seq(FromWorld) /\ m.kind = "ack"
      BY <1>7 DEF ReceiveWorldAck, TypeOK, FromWorld
    <2>2. m \in ToSet(from_world) /\ ToSet(Tail(from_world)) \subseteq ToSet(from_world)
      BY <2>1, HeadElement
    <2>3. ToSet(from_world') \subseteq ToSet(from_world)
      BY <1>7, <2>2, ReadFromWorld DEF ReceiveWorldAck, MarkAcked
    <2>4. send_acks' \subseteq send_acks \cup {m.seq}
      BY <1>7 DEF ReceiveWorldAck, MarkAcked
    <2>5. UNCHANGED <<issued, to_world, to_ups, from_ups, shipid_to_truckid>>
      BY <1>7 DEF ReceiveWorldAck
    <2> HIDE DEF m
    <2> QED
      BY <1>0, <1>7, <2>1, <2>2, <2>3, <2>4, <2>5
         DEF Grow, OutEffect, InEffect, TruckEffect
  <1>8. ASSUME ReceiveTruckArrived, Peers PROVE Effects
    <2> DEFINE m == Head(from_ups)
    <2>1. ToSet(from_ups') \subseteq ToSet(from_ups) /\ m \in ToSet(from_ups)
      BY <1>8, ReadFromUPS DEF ReceiveTruckArrived
    <2>2. m.kind = "truckarrived"
          /\ shipid_to_truckid' = [shipid_to_truckid EXCEPT ![m.item] = m.truck]
          /\ shipid_to_truckid \in [Orders -> Trucks \cup {NoTruck}]
      BY <1>8 DEF ReceiveTruckArrived, TypeOK
    <2>3. UNCHANGED <<issued, send_acks, to_world, to_ups, from_world>>
      BY <1>8 DEF ReceiveTruckArrived, sendVars
    <2> HIDE DEF m
    <2>4. TruckEffect  BY <2>1, <2>2, <2>3 DEF TruckEffect
    <2> QED BY <1>0, <1>8, <2>1, <2>3, <2>4 DEF Grow, OutEffect, InEffect
  <1>9. ASSUME ReceiveDelivered, Peers PROVE Effects
    <2>1. ToSet(from_ups') \subseteq ToSet(from_ups)
      BY <1>9, ReadFromUPS DEF ReceiveDelivered
    <2>2. UNCHANGED <<issued, send_acks, to_world, to_ups, from_world, shipid_to_truckid>>
      BY <1>9 DEF ReceiveDelivered, sendVars
    <2> QED BY <1>0, <1>9, <2>1, <2>2 DEF Grow, OutEffect, InEffect, TruckEffect
  <1>10. ASSUME ReceiveUPSAck, Peers PROVE Effects
    <2> DEFINE m == Head(from_ups)
    <2>1. from_ups # <<>> /\ from_ups \in Seq(FromUPS) /\ m.kind = "ack"
      BY <1>10 DEF ReceiveUPSAck, TypeOK, FromUPS
    <2>2. m \in ToSet(from_ups) /\ ToSet(Tail(from_ups)) \subseteq ToSet(from_ups)
      BY <2>1, HeadElement
    <2>3. ToSet(from_ups') \subseteq ToSet(from_ups)
      BY <1>10, <2>2, ReadFromUPS DEF ReceiveUPSAck, MarkAcked
    <2>4. send_acks' \subseteq send_acks \cup {m.seq}
      BY <1>10 DEF ReceiveUPSAck, MarkAcked
    <2>5. UNCHANGED <<issued, to_world, to_ups, from_world, shipid_to_truckid>>
      BY <1>10 DEF ReceiveUPSAck
    <2> HIDE DEF m
    <2> QED
      BY <1>0, <1>10, <2>1, <2>2, <2>3, <2>4, <2>5
         DEF Grow, OutEffect, InEffect, TruckEffect
  <1>11. ASSUME NEW t \in Threads,
                \/ ArrivedCheck(t) \/ ArrivedNoMatch(t)
                \/ ArrivedLookupFails(t) \/ PackedStatus(t),
                Peers
         PROVE  Effects
    BY <1>0, <1>11 DEF ArrivedCheck, ArrivedNoMatch, ArrivedLookupFails, PackedStatus, sendVars,
                 Grow, OutEffect, InEffect, TruckEffect
  <1>12. ASSUME NEW t \in Threads, ArrivedMatch(t) \/ ArrivedPickup(t), Peers
         PROVE  Effects
    <2>1. \E k \in {"topack", "pickupreq"}, e \in seqnum_to_orderinfo :
            Issue(k, e.order, NoTruck)
      BY <1>12 DEF ArrivedMatch, ArrivedPickup
    <2>2. Channels /\ UNCHANGED shipid_to_truckid
      BY <1>12 DEF ArrivedMatch, ArrivedPickup
    <2> QED
      BY <1>0, <1>12, <2>1, <2>2, IssueGrows DEF Grow, OutEffect, InEffect, TruckEffect
  <1>13. ASSUME NEW t \in Threads, PackedLoad(t), Peers PROVE Effects
    <2> DEFINE o == threads[t].msg.item
    <2>1. o \in Orders  BY <1>13, ThreadAt DEF PackedLoad, Items
    <2>2. Issue("load", o, shipid_to_truckid[o]) /\ shipid_to_truckid[o] # NoTruck
      BY <1>13 DEF PackedLoad, TruckKnown
    <2>3. Channels /\ UNCHANGED shipid_to_truckid  BY <1>13 DEF PackedLoad
    <2> HIDE DEF o
    <2> QED
      BY <1>0, <1>13, <2>1, <2>2, <2>3, IssueGrows
         DEF Grow, OutEffect, InEffect, TruckEffect
  <1>14. ASSUME NEW c \in Sending, SendToWorld(c) PROVE Effects
    <2>1. c \in issued /\ c.kind \in WorldCommands
      BY <1>14 DEF Sending, SendToWorld, Send_command_to_world
    <2>2. c \in ToWorld  BY <2>1 DEF TypeOK, ToWorld, Message
    <2>3. to_world \in Seq(ToWorld) /\ to_world' = Append(to_world, c)
      BY <1>14 DEF SendToWorld, Send_command_to_world, Write, TypeOK, ToWorld
    <2>4. ToSet(to_world') = ToSet(to_world) \cup {c}
      BY <2>2, <2>3, AppendElements
    <2>5. /\ Histories
          /\ UNCHANGED <<issued, send_acks, to_ups, from_world, from_ups, shipid_to_truckid>>
      BY <1>14 DEF SendToWorld, Send_command_to_world, sendVars, worldVars, upsVars
    <2> QED BY <2>1, <2>4, <2>5 DEF Grow, OutEffect, InEffect, TruckEffect
  <1>15. ASSUME NEW c \in Sending, SendToUPS(c) PROVE Effects
    <2>1. c \in issued /\ c.kind \in UPSCommands
      BY <1>15 DEF Sending, SendToUPS, Send_command_to_UPS
    <2>2. c \in ToUPS  BY <2>1 DEF TypeOK, ToUPS, Message
    <2>3. to_ups \in Seq(ToUPS) /\ to_ups' = Append(to_ups, c)
      BY <1>15 DEF SendToUPS, Send_command_to_UPS, Write, TypeOK, ToUPS
    <2>4. ToSet(to_ups') = ToSet(to_ups) \cup {c}
      BY <2>2, <2>3, AppendElements
    <2>5. /\ Histories
          /\ UNCHANGED <<issued, send_acks, to_world, from_world, from_ups, shipid_to_truckid>>
      BY <1>15 DEF SendToUPS, Send_command_to_UPS, sendVars, worldVars, upsVars
    <2> QED BY <2>1, <2>4, <2>5 DEF Grow, OutEffect, InEffect, TruckEffect
  <1>16. ASSUME WorldReadCommand PROVE Effects
    <2> DEFINE c == Head(to_world)
    <2>1. to_world # <<>> /\ to_world \in Seq(ToWorld) /\ c.kind \in WorldCommands
          /\ to_world' = Tail(to_world)
      BY <1>16 DEF WorldReadCommand, TypeOK, ToWorld
    <2>2. c \in ToWorld  BY <2>1, HeadInSet
    <2>3. c.seq \in Nat /\ c.kind # "ack"
      BY <2>1, <2>2 DEF ToWorld, Message, Acks, WorldCommands
    <2>4. c \in ToSet(to_world) /\ ToSet(to_world') \subseteq ToSet(to_world)
      BY <2>1, HeadElement
    <2>5. AckFor(c.seq) \in FromWorld /\ from_world \in Seq(FromWorld)
          /\ from_world' = Append(from_world, AckFor(c.seq))
      BY <1>16, <2>3, AckType DEF FromWorld, WorldReadCommand, Write, TypeOK
    <2>6. ToSet(from_world') = ToSet(from_world) \cup {AckFor(c.seq)}
      BY <2>5, AppendElements
    <2>7. AckFor(c.seq).kind = "ack" /\ AckFor(c.seq).seq = c.seq  BY DEF AckFor
    <2>8. /\ world_seen' = world_seen \cup {c} /\ world_issued \subseteq world_issued'
          /\ UNCHANGED <<issued, send_acks, to_ups, from_ups, shipid_to_truckid,
                         ups_seen, ups_issued>>
      BY <1>16 DEF WorldReadCommand, serverVars, sendVars, upsVars
    <2> HIDE DEF c
    <2> QED
      BY <2>3, <2>4, <2>6, <2>7, <2>8 DEF Grow, OutEffect, InEffect, TruckEffect
  <1>17. ASSUME WorldReadAck PROVE Effects
    <2>1. ToSet(to_world') \subseteq ToSet(to_world)
      BY <1>17, HeadElement DEF WorldReadAck, TypeOK
    <2>2. /\ Histories
          /\ UNCHANGED <<issued, send_acks, to_ups, from_world, from_ups, shipid_to_truckid>>
      BY <1>17 DEF WorldReadAck, serverVars, sendVars, upsVars
    <2> QED BY <2>1, <2>2 DEF Grow, OutEffect, InEffect, TruckEffect
  <1>18. ASSUME NEW r \in world_out, WorldSend(r) PROVE Effects
    <2>1. r \in FromWorld /\ r \in world_issued  BY DEF TypeOK, FromWorld
    <2>2. from_world \in Seq(FromWorld) /\ from_world' = Append(from_world, r)
      BY <1>18 DEF WorldSend, Write, TypeOK, FromWorld
    <2>3. ToSet(from_world') = ToSet(from_world) \cup {r}
      BY <2>1, <2>2, AppendElements
    <2>4. /\ Histories
          /\ UNCHANGED <<issued, send_acks, to_world, to_ups, from_ups, shipid_to_truckid>>
      BY <1>18 DEF WorldSend, serverVars, sendVars, worldVars, upsVars
    <2> QED BY <2>1, <2>3, <2>4 DEF Grow, OutEffect, InEffect, TruckEffect
  <1>19. ASSUME UPSReadCommand PROVE Effects
    <2> DEFINE c == Head(to_ups)
    <2>1. to_ups # <<>> /\ to_ups \in Seq(ToUPS) /\ c.kind \in UPSCommands
          /\ to_ups' = Tail(to_ups)
      BY <1>19 DEF UPSReadCommand, TypeOK, ToUPS
    <2>2. c \in ToUPS  BY <2>1, HeadInSet
    <2>3. c.seq \in Nat /\ c.kind # "ack"
      BY <2>1, <2>2 DEF ToUPS, Message, Acks, UPSCommands
    <2>4. c \in ToSet(to_ups) /\ ToSet(to_ups') \subseteq ToSet(to_ups)
      BY <2>1, HeadElement
    <2>5. AckFor(c.seq) \in FromUPS /\ from_ups \in Seq(FromUPS)
          /\ from_ups' = Append(from_ups, AckFor(c.seq))
      BY <1>19, <2>3, AckType DEF FromUPS, UPSReadCommand, Write, TypeOK
    <2>6. ToSet(from_ups') = ToSet(from_ups) \cup {AckFor(c.seq)}
      BY <2>5, AppendElements
    <2>7. AckFor(c.seq).kind = "ack" /\ AckFor(c.seq).seq = c.seq  BY DEF AckFor
    <2>8. /\ ups_seen' = ups_seen \cup {c} /\ ups_issued \subseteq ups_issued'
          /\ UNCHANGED <<issued, send_acks, to_world, from_world, shipid_to_truckid,
                         world_seen, world_issued>>
      BY <1>19 DEF UPSReadCommand, serverVars, sendVars, worldVars
    <2> HIDE DEF c
    <2> QED
      BY <2>3, <2>4, <2>6, <2>7, <2>8 DEF Grow, OutEffect, InEffect, TruckEffect
  <1>20. ASSUME UPSReadAck PROVE Effects
    <2>1. ToSet(to_ups') \subseteq ToSet(to_ups)
      BY <1>20, HeadElement DEF UPSReadAck, TypeOK
    <2>2. /\ Histories
          /\ UNCHANGED <<issued, send_acks, to_world, from_world, from_ups, shipid_to_truckid>>
      BY <1>20 DEF UPSReadAck, serverVars, sendVars, worldVars
    <2> QED BY <2>1, <2>2 DEF Grow, OutEffect, InEffect, TruckEffect
  <1>21. ASSUME NEW r \in ups_out, UPSSend(r) PROVE Effects
    <2>1. r \in FromUPS /\ r \in ups_issued  BY DEF TypeOK, FromUPS
    <2>2. from_ups \in Seq(FromUPS) /\ from_ups' = Append(from_ups, r)
      BY <1>21 DEF UPSSend, Write, TypeOK, FromUPS
    <2>3. ToSet(from_ups') = ToSet(from_ups) \cup {r}
      BY <2>1, <2>2, AppendElements
    <2>4. /\ Histories
          /\ UNCHANGED <<issued, send_acks, to_world, to_ups, from_world, shipid_to_truckid>>
      BY <1>21 DEF UPSSend, serverVars, sendVars, worldVars, upsVars
    <2> QED BY <2>1, <2>3, <2>4 DEF Grow, OutEffect, InEffect, TruckEffect
  <1>22. ASSUME PeerLoses PROVE Effects
    <2>1. /\ ToSet(to_world') \subseteq ToSet(to_world)
          /\ ToSet(to_ups') \subseteq ToSet(to_ups)
      BY <1>22, HeadElement DEF PeerLoses, DropCommand, TypeOK
    <2>2. /\ Histories
          /\ UNCHANGED <<issued, send_acks, from_world, from_ups, shipid_to_truckid>>
      BY <1>22 DEF PeerLoses, sendVars, worldVars, upsVars
    <2> QED BY <2>1, <2>2 DEF Grow, OutEffect, InEffect, TruckEffect
  <1>23. ASSUME UNCHANGED vars PROVE Effects
    BY <1>23 DEF vars, serverVars, sendVars, worldVars, upsVars,
                 Grow, OutEffect, InEffect, TruckEffect
  <1>24. CASE ServerStep
    <2>1. Peers  BY <1>24 DEF ServerStep
    <2>2. CASE \E o \in Orders : Process_order(o)  BY <2>1, <2>2, <1>1
    <2>3. CASE SendAck  BY <2>1, <2>3, <1>2, <1>3 DEF SendAck
    <2>4. CASE WorldReceiver
      <3>1. CASE \E t \in Threads : SpawnProcessing(t)  BY <2>1, <3>1, <1>4
      <3>2. CASE ReceiveLoaded  BY <2>1, <3>2, <1>5
      <3>3. CASE ReceiveError  BY <2>1, <3>3, <1>6
      <3>4. CASE ReceiveWorldAck  BY <2>1, <3>4, <1>7
      <3> QED BY <2>4, <3>1, <3>2, <3>3, <3>4 DEF WorldReceiver
    <2>5. CASE UPSReceiver  BY <2>1, <2>5, <1>8, <1>9, <1>10 DEF UPSReceiver
    <2>6. CASE \E t \in Threads : WorldThread(t)
      BY <2>1, <2>6, <1>11, <1>12, <1>13 DEF WorldThread
    <2> QED BY <1>24, <2>2, <2>3, <2>4, <2>5, <2>6 DEF ServerStep
  <1>25. CASE WorldStep  BY <1>25, <1>16, <1>17, <1>18 DEF WorldStep
  <1>26. CASE UPSStep  BY <1>26, <1>19, <1>20, <1>21 DEF UPSStep
  <1>27. CASE \E c \in Sending : SendToWorld(c) \/ SendToUPS(c)
    BY <1>27, <1>14, <1>15
  <1> QED BY <1>22, <1>23, <1>24, <1>25, <1>26, <1>27 DEF Next

\* What is in the channels to the peers was issued, an acknowledgement in a channel
\* from a peer is for a command the peer read, and so is every bit of send_acks.
AckInv ==
  /\ \A m \in ToSet(to_world) : m.kind # "ack" => m \in issued
  /\ \A m \in ToSet(to_ups) : m.kind # "ack" => m \in issued
  /\ world_seen \subseteq issued /\ ups_seen \subseteq issued
  /\ \A m \in ToSet(from_world) : m.kind = "ack" => \E c \in world_seen : c.seq = m.seq
  /\ \A m \in ToSet(from_ups) : m.kind = "ack" => \E c \in ups_seen : c.seq = m.seq
  /\ \A n \in send_acks : \E c \in world_seen \cup ups_seen : c.seq = n

\* The trucks in the table and in the loads are those UPS reported.
TruckInv ==
  /\ \A m \in ToSet(from_ups) : m.kind # "ack" => m \in ups_issued
  /\ \A o \in Orders : shipid_to_truckid[o] # NoTruck =>
       \E r \in ups_issued : /\ r.kind = "truckarrived" /\ r.item = o
                             /\ r.truck = shipid_to_truckid[o]
  /\ LoadOnAssignedTruck

LEMMA InitAckInv == Init => AckInv /\ TruckInv
  BY DEF Init, InitServer, AckInv, TruckInv, LoadOnAssignedTruck, ToSet

LEMMA AckInvStep == TypeInv /\ AckInv /\ [Next]_vars => AckInv'
  <1> SUFFICES ASSUME TypeInv, AckInv, [Next]_vars PROVE AckInv'
    OBVIOUS
  <1>1. Grow /\ OutEffect /\ InEffect  BY StepEffects DEF Effects
  <1>2. \A m \in Acks : m.kind = "ack"  BY DEF Acks
  <1>3. \A m \in world_issued \cup ups_issued : m.kind # "ack"
    BY DEF TypeInv, TypeOK, Message, WorldResponses, UPSResponses
  <1>4. /\ \A m \in ToSet(to_world') : m.kind # "ack" => m \in issued'
        /\ \A m \in ToSet(to_ups') : m.kind # "ack" => m \in issued'
    BY <1>1, <1>2 DEF AckInv, Grow, OutEffect
  <1>5. world_seen' \subseteq issued' /\ ups_seen' \subseteq issued'
    BY <1>1 DEF AckInv, Grow, OutEffect
  <1>6. /\ \A m \in ToSet(from_world') :
             m.kind = "ack" => \E c \in world_seen' : c.seq = m.seq
        /\ \A m \in ToSet(from_ups') :
             m.kind = "ack" => \E c \in ups_seen' : c.seq = m.seq
    BY <1>1, <1>3 DEF AckInv, Grow, InEffect
  <1>7. \A n \in send_acks' : \E c \in world_seen' \cup ups_seen' : c.seq = n
    BY <1>1 DEF AckInv, Grow, InEffect
  <1> QED BY <1>4, <1>5, <1>6, <1>7 DEF AckInv

LEMMA TruckInvStep == TypeInv /\ TruckInv /\ [Next]_vars => TruckInv'
  <1> SUFFICES ASSUME TypeInv, TruckInv, [Next]_vars PROVE TruckInv'
    OBVIOUS
  <1>1. Grow /\ InEffect /\ TruckEffect  BY StepEffects DEF Effects
  <1>2. \A m \in ToSet(from_ups') : m.kind # "ack" => m \in ups_issued'
    BY <1>1 DEF TruckInv, Grow, InEffect
  <1>3. \A o \in Orders : shipid_to_truckid'[o] # NoTruck =>
          \E r \in ups_issued' : /\ r.kind = "truckarrived" /\ r.item = o
                                 /\ r.truck = shipid_to_truckid'[o]
    BY <1>1 DEF TruckInv, Grow, TruckEffect
  <1>4. LoadOnAssignedTruck'
    BY <1>1 DEF TruckInv, Grow, TruckEffect, LoadOnAssignedTruck
  <1> QED BY <1>2, <1>3, <1>4 DEF TruckInv

LEMMA AckInvAlways == Spec => [](AckInv /\ TruckInv)
  <1>1. TypeInv /\ (AckInv /\ TruckInv) /\ [Next]_vars => (AckInv /\ TruckInv)'
    BY AckInvStep, TruckInvStep
  <1> QED BY InitAckInv, TypeInvAlways, <1>1, PTL DEF Spec

\* A sending thread stops only when the peer its command is for has read it: one
\* counter and one bitset for both peers suffice (get_server_seq_num, send_acks).
THEOREM AcksAreTrue == Spec => []NoFalseAck
  <1>1. TypeInv /\ OrderInv /\ AckInv => NoFalseAck
    <2> SUFFICES ASSUME TypeInv, OrderInv, AckInv, NEW c \in issued, c.seq \in send_acks
                 PROVE  c \in IF c.kind \in WorldCommands THEN world_seen ELSE ups_seen
      BY DEF NoFalseAck
    <2>1. PICK d \in world_seen \cup ups_seen : d.seq = c.seq  BY DEF AckInv
    <2>2. d \in issued  BY DEF AckInv
    <2>3. d = c  BY <2>1, <2>2 DEF OrderInv, SeqInv
    <2>4. c \in world_seen => c.kind \in WorldCommands
      BY DEF TypeInv, TypeOK, Message
    <2>5. c \in ups_seen => c.kind \notin WorldCommands
      BY DEF TypeInv, TypeOK, Message, WorldCommands, UPSCommands
    <2> QED BY <2>3, <2>4, <2>5
  <1> QED BY TypeInvAlways, OrderInvAlways, AckInvAlways, <1>1, PTL

\* Every load names a truck that UPS reported for the order: Process_APacked waits
\* for shipid_to_truckid, which only truckarrived fills.
THEOREM LoadsFollowTrucks == Spec => []LoadOnAssignedTruck
  <1>1. TruckInv => LoadOnAssignedTruck  BY DEF TruckInv
  <1> QED BY AckInvAlways, <1>1, PTL

-----------------------------------------------------------------------------
(* The status column of the Amazon data base never runs ahead of the       *)
(* package.  Every status is written because of a message; the message     *)
(* was caused by a command, and that by an earlier message, as far back as *)
(* the goods being packed.  The invariant is this chain of causes.         *)

\* What a thread handles, and what the socket still holds, the world has sent.
ResponseInv ==
  /\ \A m \in ToSet(from_world) : m.kind # "ack" => m \in world_issued
  /\ \A t \in Threads : threads[t].stage # "idle" => threads[t].msg \in world_issued

\* The purchase a thread points to is for an order that is being packed.
MatchInv ==
  \A t \in Threads : threads[t].stage = "matched" =>
    \A e \in seqnum_to_orderinfo :
      e.seq = purchase_request_list
                [WarehouseOf[threads[t].msg.item]][threads[t].index].seq
        => Reported(issued, "topack", e.order)

Packed(o) == Reported(world_issued, "ready", o)
HasTruck(o) == Reported(ups_issued, "truckarrived", o)
OnBoard(o) == Reported(world_issued, "loaded", o)

\* What was there before a command, and which command was there before a response.
CauseOf(c) ==
  /\ c.kind = "load" => Packed(c.item) /\ HasTruck(c.item)
  /\ c.kind = "loaded" => OnBoard(c.item)

ChainInv ==
  /\ \A c \in issued : CauseOf(c)
  /\ \A r \in world_issued :
       /\ r.kind = "ready" => Reported(issued, "topack", r.item)
       /\ r.kind = "loaded" => Reported(issued, "load", r.item)
  /\ \A r \in ups_issued :
       /\ r.kind = "truckarrived" => Reported(issued, "pickupreq", r.item)
       /\ r.kind = "delivered" => Reported(issued, "loaded", r.item)

CauseInv == ResponseInv /\ MatchInv /\ ChainInv /\ StatusIsEarned

LEMMA InitCauseInv == Init => CauseInv
  BY DEF Init, InitServer, CauseInv, ResponseInv, MatchInv, ChainInv, StatusIsEarned,
         Idle, ToSet

\* Whatever was reported of an order, all that comes before it was reported too.
LEMMA Chain ==
  ASSUME ChainInv, NEW o
  PROVE  /\ Reported(ups_issued, "delivered", o) => OnBoard(o)
         /\ OnBoard(o) => Packed(o) /\ HasTruck(o)
         /\ Packed(o) => Reported(issued, "topack", o)
  <1>1. ASSUME Reported(ups_issued, "delivered", o) PROVE OnBoard(o)
    <2>1. Reported(issued, "loaded", o)  BY <1>1 DEF ChainInv, Reported
    <2> QED BY <2>1 DEF ChainInv, CauseOf, Reported
  <1>2. ASSUME OnBoard(o) PROVE Packed(o) /\ HasTruck(o)
    <2>1. Reported(issued, "load", o)  BY <1>2 DEF ChainInv, OnBoard, Reported
    <2> QED BY <2>1 DEF ChainInv, CauseOf, Reported
  <1>3. Packed(o) => Reported(issued, "topack", o)
    BY DEF ChainInv, Packed, Reported
  <1> QED BY <1>1, <1>2, <1>3

-----------------------------------------------------------------------------
(* What one step may do to the threads, the status column, the commands and    *)
(* the responses                                                               *)

ThreadEffect ==
  \A t \in Threads :
    \/ threads'[t].stage = "idle"
    \/ threads[t].stage # "idle" /\ threads'[t].msg = threads[t].msg
    \/ threads'[t].msg \in ToSet(from_world) /\ threads'[t].msg.kind # "ack"

Deserves(o, status) ==
  \/ status = "packing" /\ Reported(issued, "topack", o)
  \/ status = "packed" /\ Packed(o)
  \/ status = "loading" /\ Packed(o) /\ HasTruck(o)
  \/ status = "delivering" /\ OnBoard(o)
  \/ status = "delivered" /\ Reported(ups_issued, "delivered", o)

StatusEffect ==
  \A o \in Orders :
    order_status'[o] = order_status[o] \/ Deserves(o, order_status'[o])

IssueEffect == \A c \in issued' : c \in issued \/ CauseOf(c)

AnswerEffect ==
  /\ \A r \in world_issued' : r \in world_issued \/ \E c \in issued :
       /\ c.item = r.item
       /\ r.kind = "ready" => c.kind = "topack"
       /\ r.kind = "loaded" => c.kind = "load"
  /\ \A r \in ups_issued' : r \in ups_issued \/ \E c \in issued :
       /\ c.item = r.item
       /\ r.kind = "truckarrived" => c.kind = "pickupreq"
       /\ r.kind = "delivered" => c.kind = "loaded"

CauseEffects == ThreadEffect /\ StatusEffect /\ IssueEffect /\ AnswerEffect

\* A step that writes none of these.
LEMMA QuietEffects ==
  ASSUME UNCHANGED <<threads, order_status, issued, world_issued, ups_issued>>
  PROVE  CauseEffects
  BY DEF CauseEffects, ThreadEffect, StatusEffect, IssueEffect, AnswerEffect

\* A thread that was at work in the state before keeps its message or ends.
LEMMA SameMessage ==
  ASSUME TypeOK, NEW t \in Threads, threads[t].stage # "idle",
         \/ threads' = [threads EXCEPT ![t] = Idle]
         \/ /\ threads'[t].msg = threads[t].msg
            /\ \A u \in Threads : u # t => threads'[u] = threads[u]
  PROVE  ThreadEffect
  <1>1. CASE threads' = [threads EXCEPT ![t] = Idle]
    BY <1>1, ThreadEnds DEF ThreadEffect, TypeOK, Idle
  <1>2. CASE /\ threads'[t].msg = threads[t].msg
             /\ \A u \in Threads : u # t => threads'[u] = threads[u]
    <2>1. \A u \in Threads : threads[u].stage = "idle" => threads'[u].stage = "idle"
      BY <1>2
    <2> QED BY <1>2, <2>1 DEF ThreadEffect
  <1> QED BY <1>1, <1>2

LEMMA OneStatus ==
  ASSUME TypeOK, NEW o \in Orders, NEW s, Update_Order_Status(o, s), Deserves(o, s)
  PROVE  StatusEffect
  BY DEF TypeOK, Update_Order_Status, StatusEffect

\* What is issued has its cause.
LEMMA OneIssue ==
  ASSUME NEW k, NEW i, NEW t, Issue(k, i, t),
         k = "load" => Packed(i) /\ HasTruck(i), k = "loaded" => OnBoard(i)
  PROVE  IssueEffect
  BY IssueGrows DEF IssueEffect, CauseOf

-----------------------------------------------------------------------------

Before == TypeInv /\ OrderInv /\ AckInv /\ TruckInv /\ CauseInv

LEMMA ThreadSteps ==
  ASSUME Before, NEW t \in Threads, WorldThread(t),
         UNCHANGED <<worldVars, upsVars, repeats>>
  PROVE  CauseEffects
  <1> USE DEF Before, TypeInv
  <1> DEFINE msg == threads[t].msg
             o == msg.item
             Still == UNCHANGED <<world_issued, ups_issued>>
  <1>0. Still  BY DEF worldVars, upsVars
  <1>1. AnswerEffect  BY <1>0 DEF AnswerEffect
  <1>2. ASSUME NEW kind, NEW stage, At(t, kind, stage), stage # "idle"
        PROVE  /\ threads[t].stage # "idle" /\ threads[t] \in Running
               /\ o \in Items(kind)
               /\ kind = "ready" => o \in Orders /\ Packed(o)
    <2>1. /\ threads[t].stage # "idle" /\ threads[t] \in Running /\ msg.kind = kind
          /\ o \in Items(kind)
      BY <1>2, ThreadAt
    <2>2. msg \in world_issued  BY <2>1 DEF CauseInv, ResponseInv
    <2> QED BY <2>1, <2>2 DEF Items, Packed, Reported
  <1>3. CASE ArrivedCheck(t)
    <2>1. threads[t].stage # "idle" /\ threads[t] \in Running
      BY <1>2, <1>3 DEF ArrivedCheck
    <2>2. ThreadEffect  BY <1>3, <2>1, ThreadGoes, SameMessage DEF ArrivedCheck
    <2>3. UNCHANGED <<order_status, issued>>  BY <1>3 DEF ArrivedCheck, sendVars
    <2> QED BY <1>1, <2>2, <2>3 DEF CauseEffects, StatusEffect, IssueEffect
  <1>4. CASE ArrivedMatch(t)
    <2>1. threads[t].stage # "idle" /\ threads[t] \in Running
      BY <1>2, <1>4 DEF ArrivedMatch
    <2>2. PICK i \in DOMAIN purchase_request_list[WarehouseOf[o]], e \in seqnum_to_orderinfo :
            Issue("topack", e.order, NoTruck) /\ GoTo(t, "matched", i)
      BY <1>4 DEF ArrivedMatch
    <2>3. IssueEffect  BY <2>2, OneIssue
    <2>4. i \in Nat
      <3>1. o \in Goods  BY <1>2, <1>4 DEF ArrivedMatch, Items
      <3>2. purchase_request_list[WarehouseOf[o]] \in Seq(Entry)
        BY <3>1, GoodsAssumption DEF TypeOK, Entry
      <3> QED BY <3>2
    <2>5. ThreadEffect  BY <2>1, <2>2, <2>4, ThreadGoes, SameMessage
    <2>6. UNCHANGED order_status  BY <1>4 DEF ArrivedMatch
    <2> QED BY <1>1, <2>3, <2>5, <2>6 DEF CauseEffects, StatusEffect
  <1>5. CASE ArrivedPickup(t)
    <2>1. threads[t].stage = "matched"  BY <1>5 DEF ArrivedPickup, At
    <2>2. PICK e \in seqnum_to_orderinfo :
            /\ e.seq = purchase_request_list[WarehouseOf[o]][threads[t].index].seq
            /\ Update_Order_Status(e.order, "packing")
            /\ Issue("pickupreq", e.order, NoTruck)
      BY <1>5 DEF ArrivedPickup
    <2>3. Reported(issued, "topack", e.order)
      BY <2>1, <2>2 DEF CauseInv, MatchInv
    <2>4. e.order \in Orders  BY DEF TypeOK
    <2>5. StatusEffect  BY <2>2, <2>3, <2>4, OneStatus DEF Deserves
    <2>6. IssueEffect  BY <2>2, OneIssue
    <2>7. ThreadEffect  BY <1>5, <2>1, SameMessage DEF ArrivedPickup
    <2> QED BY <1>1, <2>5, <2>6, <2>7 DEF CauseEffects
  <1>6. CASE ArrivedNoMatch(t) \/ ArrivedLookupFails(t)
    <2>1. threads[t].stage = "checked"
      BY <1>6 DEF ArrivedNoMatch, ArrivedLookupFails, At
    <2>2. ThreadEffect
      BY <1>6, <2>1, SameMessage DEF ArrivedNoMatch, ArrivedLookupFails
    <2>3. UNCHANGED <<order_status, issued>>
      BY <1>6 DEF ArrivedNoMatch, ArrivedLookupFails, sendVars
    <2> QED BY <1>1, <2>2, <2>3 DEF CauseEffects, StatusEffect, IssueEffect
  <1>7. CASE PackedStatus(t)
    <2>1. /\ threads[t].stage # "idle" /\ threads[t] \in Running
          /\ o \in Orders /\ Packed(o)
      BY <1>2, <1>7 DEF PackedStatus
    <2>2. ThreadEffect  BY <1>7, <2>1, ThreadGoes, SameMessage DEF PackedStatus
    <2>3. StatusEffect  BY <1>7, <2>1, OneStatus DEF PackedStatus, Deserves
    <2>4. UNCHANGED issued  BY <1>7 DEF PackedStatus, sendVars
    <2> QED BY <1>1, <2>2, <2>3, <2>4 DEF CauseEffects, IssueEffect
  <1>8. CASE PackedLoad(t)
    <2>1. /\ threads[t].stage # "idle" /\ threads[t] \in Running
          /\ o \in Orders /\ Packed(o)
      BY <1>2, <1>8 DEF PackedLoad
    <2>2. HasTruck(o)
      BY <1>8, <2>1 DEF PackedLoad, TruckKnown, TruckInv, HasTruck, Reported
    <2>3. ThreadEffect  BY <1>8, <2>1, SameMessage DEF PackedLoad
    <2>4. StatusEffect  BY <1>8, <2>1, <2>2, OneStatus DEF PackedLoad, Deserves
    <2>5. Issue("load", o, shipid_to_truckid[o])  BY <1>8 DEF PackedLoad
    <2>6. IssueEffect  BY <2>1, <2>2, <2>5, OneIssue
    <2> QED BY <1>1, <2>3, <2>4, <2>6 DEF CauseEffects
  <1> QED BY <1>3, <1>4, <1>5, <1>6, <1>7, <1>8 DEF WorldThread

LEMMA ReceiverSteps ==
  ASSUME Before, WorldReceiver \/ UPSReceiver, UNCHANGED <<worldVars, upsVars, repeats>>
  PROVE  CauseEffects
  <1> USE DEF Before, TypeInv
  <1>0. UNCHANGED <<world_issued, ups_issued>>  BY DEF worldVars, upsVars
  <1>1. AnswerEffect  BY <1>0 DEF AnswerEffect
  <1>2. ASSUME NEW t \in Threads, SpawnProcessing(t) PROVE CauseEffects
    <2>1. Head(from_world) \in ToSet(from_world)
      BY <1>2, ReadFromWorld DEF SpawnProcessing
    <2>2. ThreadEffect  BY <1>2, <2>1 DEF SpawnProcessing, ThreadEffect, TypeOK
    <2>3. UNCHANGED <<order_status, issued>>  BY <1>2 DEF SpawnProcessing, sendVars
    <2> QED BY <1>1, <2>2, <2>3 DEF CauseEffects, StatusEffect, IssueEffect
  <1>3. CASE ReceiveLoaded
    <2> DEFINE m == Head(from_world)
    <2>1. m \in ToSet(from_world) /\ m \in FromWorld /\ m.kind = "loaded"
      BY <1>3, ReadFromWorld DEF ReceiveLoaded
    <2>2. m \in world_issued  BY <2>1 DEF CauseInv, ResponseInv
    <2>3. m.item \in Orders  BY <2>1, <2>2 DEF TypeOK, Message, Items
    <2>4. OnBoard(m.item)  BY <2>1, <2>2 DEF OnBoard, Reported
    <2>5. /\ Update_Order_Status(m.item, "delivering") /\ Issue("loaded", m.item, NoTruck)
          /\ UNCHANGED threads
      BY <1>3 DEF ReceiveLoaded
    <2> HIDE DEF m
    <2>6. StatusEffect  BY <2>3, <2>4, <2>5, OneStatus DEF Deserves
    <2>7. IssueEffect  BY <2>4, <2>5, OneIssue
    <2> QED BY <1>1, <2>5, <2>6, <2>7 DEF CauseEffects, ThreadEffect
  <1>4. CASE ReceiveDelivered
    <2> DEFINE m == Head(from_ups)
    <2>1. m \in ToSet(from_ups) /\ m.kind = "delivered"
      BY <1>4, ReadFromUPS DEF ReceiveDelivered
    <2>2. m \in ups_issued  BY <2>1 DEF TruckInv
    <2>3. m.item \in Orders  BY <2>1, <2>2 DEF TypeOK, Message, Items
    <2>4. Reported(ups_issued, "delivered", m.item)  BY <2>1, <2>2 DEF Reported
    <2>5. Update_Order_Status(m.item, "delivered") /\ UNCHANGED <<threads, issued>>
      BY <1>4 DEF ReceiveDelivered, sendVars
    <2> HIDE DEF m
    <2>6. StatusEffect  BY <2>3, <2>4, <2>5, OneStatus DEF Deserves
    <2> QED BY <1>1, <2>5, <2>6 DEF CauseEffects, ThreadEffect, IssueEffect
  <1>5. CASE ReceiveError \/ ReceiveWorldAck \/ ReceiveTruckArrived \/ ReceiveUPSAck
    BY <1>0, <1>5, QuietEffects
       DEF ReceiveError, ReceiveWorldAck, ReceiveTruckArrived, ReceiveUPSAck, sendVars
  <1> QED BY <1>2, <1>3, <1>4, <1>5 DEF WorldReceiver, UPSReceiver

LEMMA PeerSteps ==
  ASSUME Before, WorldReadCommand \/ UPSReadCommand
  PROVE  CauseEffects
  <1> USE DEF Before, TypeInv
  <1>1. CASE WorldReadCommand
    <2> DEFINE c == Head(to_world)
               r == [kind |-> WorldAnswerKind(c), item |-> c.item, truck |-> NoTruck,
                     seq |-> world_seq]
    <2>1. /\ to_world # <<>> /\ c.kind \in WorldCommands
          /\ world_issued' \subseteq world_issued \cup {r}
          /\ UNCHANGED <<threads, order_status, issued, ups_issued>>
      BY <1>1 DEF WorldReadCommand, serverVars, sendVars, upsVars
    <2>2. c \in ToSet(to_world)  BY <2>1, HeadElement DEF TypeOK
    <2>3. c \in issued  BY <2>1, <2>2 DEF AckInv, WorldCommands
    <2>4. /\ r.item = c.item
          /\ r.kind = "ready" => c.kind = "topack"
          /\ r.kind = "loaded" => c.kind = "load"
      BY <2>1 DEF WorldAnswerKind, WorldCommands
    <2> HIDE DEF c, r
    <2>5. AnswerEffect  BY <2>1, <2>3, <2>4 DEF AnswerEffect
    <2> QED BY <2>1, <2>5 DEF CauseEffects, ThreadEffect, StatusEffect, IssueEffect
  <1>2. CASE UPSReadCommand
    <2> DEFINE c == Head(to_ups)
    <2>1. /\ to_ups # <<>> /\ c.kind \in UPSCommands
          /\ \A r \in ups_issued' :
               r \in ups_issued \/ \E t \in Trucks : r = UPSAnswer(c, t)
          /\ UNCHANGED <<threads, order_status, issued, world_issued>>
      BY <1>2 DEF UPSReadCommand, serverVars, sendVars, worldVars
    <2>2. c \in ToSet(to_ups)  BY <2>1, HeadElement DEF TypeOK
    <2>3. c \in issued  BY <2>1, <2>2 DEF AckInv, UPSCommands
    <2>4. \A t : /\ UPSAnswer(c, t).item = c.item
                 /\ UPSAnswer(c, t).kind = "truckarrived" => c.kind = "pickupreq"
                 /\ UPSAnswer(c, t).kind = "delivered" => c.kind = "loaded"
      BY <2>1 DEF UPSAnswer, UPSCommands
    <2> HIDE DEF c
    <2>5. AnswerEffect  BY <2>1, <2>3, <2>4 DEF AnswerEffect
    <2> QED BY <2>1, <2>5 DEF CauseEffects, ThreadEffect, StatusEffect, IssueEffect
  <1> QED BY <1>1, <1>2

LEMMA StepCauses == ASSUME Before, [Next]_vars PROVE CauseEffects
  <1>1. CASE ServerStep
    <2>1. UNCHANGED <<worldVars, upsVars, repeats>>  BY <1>1 DEF ServerStep
    <2>2. ASSUME NEW o \in Orders, Process_order(o) PROVE CauseEffects
      <3>1. /\ Issue("buy", GoodsOf[o], NoTruck)
            /\ UNCHANGED <<threads, order_status, world_issued, ups_issued>>
        BY <2>1, <2>2 DEF Process_order, worldVars, upsVars
      <3>2. IssueEffect  BY <3>1, OneIssue
      <3> QED BY <3>1, <3>2 DEF CauseEffects, ThreadEffect, StatusEffect, AnswerEffect
    <2>3. CASE SendAck
      BY <2>1, <2>3, QuietEffects
         DEF SendAck, send_acks_to_world, Send_ack_to_UPS, sendVars, worldVars, upsVars
    <2> QED BY <1>1, <2>1, <2>2, <2>3, ThreadSteps, ReceiverSteps DEF ServerStep
  <1>2. ASSUME NEW c \in Sending, SendToWorld(c) \/ SendToUPS(c) PROVE CauseEffects
    BY <1>2, QuietEffects
       DEF SendToWorld, SendToUPS, Send_command_to_world, Send_command_to_UPS,
           sendVars, worldVars, upsVars
  <1>3. CASE WorldReadAck \/ UPSReadAck
    BY <1>3, QuietEffects
       DEF WorldReadAck, UPSReadAck, serverVars, sendVars, worldVars, upsVars
  <1>4. ASSUME NEW r, WorldSend(r) \/ UPSSend(r) PROVE CauseEffects
    BY <1>4, QuietEffects
       DEF WorldSend, UPSSend, serverVars, sendVars, worldVars, upsVars
  <1>5. CASE PeerLoses
    BY <1>5, QuietEffects DEF PeerLoses, sendVars, worldVars, upsVars
  <1>6. CASE UNCHANGED vars
    BY <1>6, QuietEffects DEF vars, serverVars, sendVars, worldVars, upsVars
  <1> QED BY <1>1, <1>2, <1>3, <1>4, <1>5, <1>6, PeerSteps DEF Next, WorldStep, UPSStep

-----------------------------------------------------------------------------
(* The purchase a thread points to stays where it is, because the thread holds *)
(* the lock of the list until it has erased it.                                *)

LEMMA MatchStep == ASSUME Before, [Next]_vars PROVE MatchInv'
  <1> USE DEF Before, TypeInv, CauseInv, OrderInv
  <1> DEFINE list == purchase_request_list
  <1>0. \A o : Reported(issued, "topack", o) => Reported(issued', "topack", o)
    BY StepEffects DEF Effects, Grow, Reported
  <1>1. ASSUME SameMatches, UNCHANGED orderVars PROVE MatchInv'
    BY <1>0, <1>1 DEF SameMatches, MatchInv, orderVars
  <1>2. ASSUME NEW t \in Threads, threads[t].stage = "matched"
        PROVE  /\ WarehouseOf[threads[t].msg.item] \in Warehouses
               /\ threads[t].index \in DOMAIN list[WarehouseOf[threads[t].msg.item]]
               /\ purchase_mutex[WarehouseOf[threads[t].msg.item]] = t
    <2>1. /\ threads[t] \in Running /\ threads[t].msg.kind = "arrived"
      BY <1>2 DEF TypeOK, Idle, LockInv
    <2>2. threads[t].msg.item \in Goods  BY <2>1 DEF Running, Message, Items
    <2> QED BY <1>2, <2>2, GoodsAssumption DEF LockInv
  <1>3. ASSUME NEW o \in Orders, Process_order(o) PROVE MatchInv'
    <2> DEFINE v == WarehouseOf[GoodsOf[o]]
               p == [seq |-> server_seq_num, goods |-> GoodsOf[o]]
    <2>1. /\ threads' = threads
          /\ list' = [list EXCEPT ![v] = Append(list[v], p)]
          /\ seqnum_to_orderinfo' =
               seqnum_to_orderinfo \cup {[seq |-> server_seq_num, order |-> o]}
      BY <1>3 DEF Process_order
    <2>2. list \in [Warehouses -> Seq(Entry)]  BY DEF TypeOK, Entry
    <2> HIDE DEF v, p
    <2>3. ASSUME NEW t \in Threads, threads'[t].stage = "matched",
                 NEW e \in seqnum_to_orderinfo',
                 e.seq = list'[WarehouseOf[threads'[t].msg.item]][threads'[t].index].seq
          PROVE  Reported(issued', "topack", e.order)
      <3> DEFINE w == WarehouseOf[threads[t].msg.item]
                 i == threads[t].index
      <3>1. threads[t].stage = "matched" /\ w \in Warehouses /\ i \in DOMAIN list[w]
        BY <1>2, <2>1, <2>3
      <3>2. list'[w][i] = list[w][i]
        BY <2>1, <2>2, <3>1
      <3>3. PICK f \in seqnum_to_orderinfo : f.seq = list[w][i].seq
        BY <3>1 DEF ListInv
      <3>4. e.seq = f.seq  BY <2>1, <2>3, <3>2, <3>3
      <3>5. f.seq < server_seq_num /\ f.seq \in Nat  BY DEF SeqInv, TypeOK
      <3>6. e \in seqnum_to_orderinfo  BY <2>1, <3>4, <3>5
      <3> QED BY <1>0, <3>1, <3>3, <3>4, <3>6 DEF MatchInv
    <2> QED BY <2>3 DEF MatchInv
  <1>4. ASSUME NEW t \in Threads, ArrivedMatch(t) PROVE MatchInv'
    <2> DEFINE w == WarehouseOf[threads[t].msg.item]
    <2>1. PICK i \in DOMAIN list[w], e \in seqnum_to_orderinfo :
            /\ e.seq = list[w][i].seq
            /\ Issue("topack", e.order, NoTruck) /\ GoTo(t, "matched", i)
      BY <1>4 DEF ArrivedMatch
    <2>2. threads[t] \in Running /\ threads[t].msg.item \in Goods
      BY <1>4, ThreadAt DEF ArrivedMatch, Items
    <2>3. w \in Warehouses /\ i \in Nat
      <3>1. w \in Warehouses  BY <2>2, GoodsAssumption
      <3>2. list[w] \in Seq(Entry)  BY <3>1 DEF TypeOK, Entry
      <3> QED BY <3>1, <3>2
    <2>4. /\ threads'[t].msg = threads[t].msg /\ threads'[t].index = i
          /\ \A u \in Threads : u # t => threads'[u] = threads[u]
      BY <2>1, <2>2, <2>3, ThreadGoes
    <2>5. Reported(issued', "topack", e.order)
      <3> DEFINE c == [kind |-> "topack", item |-> e.order, truck |-> NoTruck,
                       seq |-> server_seq_num]
      <3>1. c \in issued' /\ c.kind = "topack" /\ c.item = e.order
        BY <2>1 DEF Issue
      <3> QED BY <3>1 DEF Reported
    <2>6. \A f \in seqnum_to_orderinfo : f.seq = e.seq => f = e  BY DEF SeqInv
    <2>7. UNCHANGED <<seqnum_to_orderinfo, list>>  BY <1>4 DEF ArrivedMatch
    <2> HIDE DEF list
    <2>8. ASSUME NEW u \in Threads, threads'[u].stage = "matched",
                 NEW f \in seqnum_to_orderinfo',
                 f.seq = list'[WarehouseOf[threads'[u].msg.item]][threads'[u].index].seq
          PROVE  Reported(issued', "topack", f.order)
      <3>1. CASE u = t  BY <2>1, <2>4, <2>5, <2>6, <2>7, <2>8, <3>1
      <3>2. CASE u # t  BY <1>0, <2>4, <2>7, <2>8, <3>2 DEF MatchInv, list
      <3> QED BY <3>1, <3>2
    <2> QED BY <2>8 DEF MatchInv, list
  <1>5. ASSUME NEW t \in Threads, ArrivedPickup(t) PROVE MatchInv'
    <2> DEFINE w == WarehouseOf[threads[t].msg.item]
    <2>1. /\ threads[t].stage = "matched" /\ UNCHANGED seqnum_to_orderinfo
          /\ threads' = [threads EXCEPT ![t] = Idle]
          /\ list' = [list EXCEPT ![w] = EraseAt(list[w], threads[t].index)]
      BY <1>5 DEF ArrivedPickup, At
    <2>2. threads'[t].stage = "idle" /\ \A u \in Threads : u # t => threads'[u] = threads[u]
      BY <2>1, ThreadEnds
    <2>3. ASSUME NEW u \in Threads, threads'[u].stage = "matched"
          PROVE  /\ threads'[u] = threads[u]
                 /\ list'[WarehouseOf[threads[u].msg.item]]
                      = list[WarehouseOf[threads[u].msg.item]]
      <3>1. u # t /\ threads'[u] = threads[u]  BY <2>2, <2>3
      <3>2. WarehouseOf[threads[u].msg.item] # w
        BY <1>2, <2>1, <2>3, <3>1
      <3>3. list \in [Warehouses -> Seq(Entry)]  BY DEF TypeOK, Entry
      <3> QED BY <1>2, <2>1, <2>3, <3>1, <3>2, <3>3
    <2> HIDE DEF list
    <2>4. ASSUME NEW u \in Threads, threads'[u].stage = "matched",
                 NEW f \in seqnum_to_orderinfo',
                 f.seq = list'[WarehouseOf[threads'[u].msg.item]][threads'[u].index].seq
          PROVE  Reported(issued', "topack", f.order)
      <3>1. threads[u].stage = "matched" /\ f \in seqnum_to_orderinfo
        BY <2>1, <2>3, <2>4
      <3>2. f.seq = list[WarehouseOf[threads[u].msg.item]][threads[u].index].seq
        BY <2>3, <2>4
      <3>3. Reported(issued, "topack", f.order)  BY <3>1, <3>2 DEF MatchInv, list
      <3> QED BY <1>0, <3>3
    <2> QED BY <2>4 DEF MatchInv, list
  <1> QED BY <1>1, <1>3, <1>4, <1>5, OrderSteps DEF orderVars

LEMMA CauseInvStep == Before /\ [Next]_vars => CauseInv'
  <1> SUFFICES ASSUME Before, [Next]_vars PROVE CauseInv'
    OBVIOUS
  <1> USE DEF Before, CauseInv
  <1>1. CauseEffects  BY StepCauses
  <1>2. Grow /\ InEffect  BY StepEffects DEF Effects
  <1>3. \A kind, o : /\ Reported(issued, kind, o) => Reported(issued', kind, o)
                     /\ Reported(world_issued, kind, o) => Reported(world_issued', kind, o)
                     /\ Reported(ups_issued, kind, o) => Reported(ups_issued', kind, o)
    BY <1>2 DEF Grow, Reported
  <1>4. \A o : (Packed(o) => Packed(o)') /\ (HasTruck(o) => HasTruck(o)')
               /\ (OnBoard(o) => OnBoard(o)')
    BY <1>3 DEF Packed, HasTruck, OnBoard
  <1>5. ResponseInv'
    <2>1. \A m \in ToSet(from_world') : m.kind # "ack" => m \in world_issued'
      BY <1>2 DEF Grow, InEffect, ResponseInv
    <2>2. \A t \in Threads : threads'[t].stage # "idle" => threads'[t].msg \in world_issued'
      BY <1>1, <1>2 DEF CauseEffects, ThreadEffect, Grow, ResponseInv
    <2> QED BY <2>1, <2>2 DEF ResponseInv
  <1>6. ChainInv'
    <2>1. \A c \in issued' : CauseOf(c)'
      BY <1>1, <1>4 DEF CauseEffects, IssueEffect, ChainInv, CauseOf
    <2>2. ASSUME NEW r \in world_issued'
          PROVE  /\ r.kind = "ready" => Reported(issued', "topack", r.item)
                 /\ r.kind = "loaded" => Reported(issued', "load", r.item)
      <3>1. CASE r \in world_issued  BY <1>3, <3>1 DEF ChainInv
      <3>2. CASE r \notin world_issued
        <4>1. PICK c \in issued : /\ c.item = r.item
                                  /\ r.kind = "ready" => c.kind = "topack"
                                  /\ r.kind = "loaded" => c.kind = "load"
          BY <1>1, <3>2 DEF CauseEffects, AnswerEffect
        <4>2. c \in issued'  BY <1>2 DEF Grow
        <4> QED BY <4>1, <4>2 DEF Reported
      <3> QED BY <3>1, <3>2
    <2>3. ASSUME NEW r \in ups_issued'
          PROVE  /\ r.kind = "truckarrived" => Reported(issued', "pickupreq", r.item)
                 /\ r.kind = "delivered" => Reported(issued', "loaded", r.item)
      <3>1. CASE r \in ups_issued  BY <1>3, <3>1 DEF ChainInv
      <3>2. CASE r \notin ups_issued
        <4>1. PICK c \in issued : /\ c.item = r.item
                                  /\ r.kind = "truckarrived" => c.kind = "pickupreq"
                                  /\ r.kind = "delivered" => c.kind = "loaded"
          BY <1>1, <3>2 DEF CauseEffects, AnswerEffect
        <4>2. c \in issued'  BY <1>2 DEF Grow
        <4> QED BY <4>1, <4>2 DEF Reported
      <3> QED BY <3>1, <3>2
    <2> QED BY <2>1, <2>2, <2>3 DEF ChainInv
  <1>7. ASSUME NEW o \in Orders
        PROVE  /\ order_status'[o] # "ordered" => Reported(issued', "topack", o)
               /\ order_status'[o] \in {"packed", "loading", "delivering", "delivered"}
                    => Reported(world_issued', "ready", o)
               /\ order_status'[o] \in {"loading", "delivering", "delivered"}
                    => Reported(ups_issued', "truckarrived", o)
               /\ order_status'[o] \in {"delivering", "delivered"}
                    => Reported(world_issued', "loaded", o)
               /\ order_status'[o] = "delivered" => Reported(ups_issued', "delivered", o)
    <2>1. CASE order_status'[o] = order_status[o]
      BY <1>3, <2>1 DEF StatusIsEarned
    <2>2. CASE Deserves(o, order_status'[o])
      <3>1. /\ Reported(ups_issued, "delivered", o) => Reported(world_issued, "loaded", o)
            /\ Reported(world_issued, "loaded", o) =>
                 /\ Reported(world_issued, "ready", o)
                 /\ Reported(ups_issued, "truckarrived", o)
            /\ Reported(world_issued, "ready", o) => Reported(issued, "topack", o)
        BY Chain DEF OnBoard, Packed, HasTruck
      <3> QED BY <1>3, <2>2, <3>1 DEF Deserves, OnBoard, Packed, HasTruck
    <2> QED BY <1>1, <2>1, <2>2 DEF CauseEffects, StatusEffect
  <1>8. StatusIsEarned'  BY <1>7 DEF StatusIsEarned
  <1> QED BY <1>5, <1>6, <1>8, MatchStep

LEMMA BeforeAlways == Spec => []Before
  <1>1. TypeInv /\ OrderInv /\ (AckInv /\ TruckInv) /\ CauseInv /\ [Next]_vars
          => CauseInv'
    BY CauseInvStep DEF Before
  <1>2. TypeInv /\ OrderInv /\ (AckInv /\ TruckInv) /\ CauseInv => Before
    BY DEF Before
  <1> QED BY <1>1, <1>2, InitCauseInv, TypeInvAlways, OrderInvAlways, AckInvAlways, PTL
          DEF Spec

\* No thread writes a status that the package has not reached, whatever messages are
\* lost, repeated or handled late (Update_Order_Status and its callers).
THEOREM StatusNotAhead == Spec => []StatusIsEarned
  <1>1. Before => StatusIsEarned  BY DEF Before, CauseInv
  <1> QED BY <1>1, BeforeAlways, PTL

-----------------------------------------------------------------------------
(* The contract of amazon_ups.proto: the cause of whatever is said was said.   *)

\* One step gives a number to one message, of one side.
LEMMA OneMessage ==
  ASSUME TypeInv, [Next]_vars
  PROVE  \/ UNCHANGED <<issued, ups_issued>>
         \/ UNCHANGED ups_issued /\ \E c : issued' = issued \cup {c}
         \/ UNCHANGED issued /\ \E r : ups_issued' = ups_issued \cup {r}
  <1>1. CASE ServerStep
    <2>1. UNCHANGED ups_issued  BY <1>1 DEF ServerStep, upsVars
    <2>2. \A k, i, t : Issue(k, i, t) => \E c : issued' = issued \cup {c}  BY DEF Issue
    <2>3. \/ UNCHANGED issued
          \/ \E k, i, t : Issue(k, i, t)
      BY OrderSteps DEF Process_order, ArrivedMatch, ArrivedPickup, OtherIssue
    <2> QED BY <2>1, <2>2, <2>3
  <1>2. CASE UPSReadCommand
    <2>1. UNCHANGED issued  BY <1>2 DEF UPSReadCommand, serverVars, sendVars
    <2> QED BY <1>2, <2>1 DEF UPSReadCommand
  <1>3. ASSUME NEW c, SendToWorld(c) \/ SendToUPS(c)
        PROVE  UNCHANGED <<issued, ups_issued>>
    BY <1>3 DEF SendToWorld, SendToUPS, Send_command_to_world, Send_command_to_UPS,
                sendVars, upsVars
  <1>4. CASE WorldStep \/ UPSReadAck \/ (\E r \in ups_out : UPSSend(r))
    BY <1>4 DEF WorldStep, WorldReadCommand, WorldReadAck, WorldSend, UPSReadAck, UPSSend,
                serverVars, sendVars, upsVars
  <1>5. CASE PeerLoses \/ UNCHANGED vars
    BY <1>5 DEF PeerLoses, vars, serverVars, sendVars, upsVars
  <1> QED BY <1>1, <1>2, <1>3, <1>4, <1>5 DEF Next, UPSStep

LEMMA AmazonSays ==
  ASSUME Before, [Next]_vars
  PROVE  [Contract!Next]_Said
  <1> USE DEF Before, CauseInv, TypeInv
  <1>1. TypeOK'  BY TypeInvStep
  <1>2. CauseEffects  BY StepCauses
  <1>3. \A k, o : /\ Reported(ups_issued, k, o) => <<o, k>> \in Said
                  /\ k \in UPSCommands /\ Reported(issued, k, o) => <<o, k>> \in Said
    BY DEF Said, Reported
  <1>4. ASSUME NEW o \in Orders, NEW k \in Contract!Kinds,
               Said' = Said \cup {<<o, k>>},
               k = "pickupreq" \/ <<o, Contract!Cause[k]>> \in Said
        PROVE  [Contract!Next]_Said
    BY <1>4 DEF Contract!Next
  <1>5. CASE UNCHANGED <<issued, ups_issued>>  BY <1>5 DEF Said
  <1>6. ASSUME UNCHANGED ups_issued, NEW c, issued' = issued \cup {c}
        PROVE  [Contract!Next]_Said
    <2>1. CASE c.kind \notin UPSCommands  BY <1>6, <2>1 DEF Said
    <2>2. CASE c.kind \in UPSCommands
      <3>1. Said' = Said \cup {<<c.item, c.kind>>}  BY <1>6, <2>2 DEF Said
      <3>2. c.item \in Orders
        <4>1. c \in Message(WorldCommands \cup UPSCommands)  BY <1>1, <1>6 DEF TypeOK
        <4> QED BY <2>2, <4>1 DEF Message, Items, UPSCommands
      <3>3. CauseOf(c)
        BY <1>2, <1>6 DEF CauseEffects, IssueEffect, ChainInv
      <3>4. c.kind = "loaded" => <<c.item, "truckarrived">> \in Said
        BY <1>3, <3>3, Chain DEF CauseOf, HasTruck
      <3> QED BY <1>4, <2>2, <3>1, <3>2, <3>4
              DEF UPSCommands, Contract!Kinds, Contract!Cause
    <2> QED BY <2>1, <2>2
  <1>7. ASSUME UNCHANGED issued, NEW r, ups_issued' = ups_issued \cup {r}
        PROVE  [Contract!Next]_Said
    <2>1. Said' = Said \cup {<<r.item, r.kind>>}  BY <1>7 DEF Said
    <2>2. r.item \in Orders /\ r.kind \in UPSResponses
      <3>1. r \in Message(UPSResponses)  BY <1>1, <1>7 DEF TypeOK
      <3> QED BY <3>1 DEF Message, Items, UPSResponses
    <2>3. /\ r.kind = "truckarrived" => Reported(issued, "pickupreq", r.item)
          /\ r.kind = "delivered" => Reported(issued, "loaded", r.item)
      <3>1. CASE r \in ups_issued  BY <3>1 DEF ChainInv
      <3>2. CASE r \notin ups_issued
        BY <1>2, <1>7, <3>2 DEF CauseEffects, AnswerEffect, Reported
      <3> QED BY <3>1, <3>2
    <2>4. /\ r.kind = "truckarrived" => <<r.item, "pickupreq">> \in Said
          /\ r.kind = "delivered" => <<r.item, "loaded">> \in Said
      BY <1>3, <2>3 DEF UPSCommands
    <2> QED BY <1>4, <2>1, <2>2, <2>4 DEF UPSResponses, Contract!Kinds, Contract!Cause
  <1> QED BY <1>5, <1>6, <1>7, OneMessage

\* The Amazon server implements the contract of amazon_ups.proto: Process_APacked
\* loads a package, and so reports it on board, only after UPS reported its truck.
THEOREM AmazonKeepsContract == Spec => KeepsContract
  <1>1. Init => Contract!Init  BY DEF Init, InitServer, Contract!Init, Said
  <1>2. Before /\ [Next]_vars => [Contract!Next]_Said  BY AmazonSays
  <1> QED BY <1>1, <1>2, BeforeAlways, PTL DEF Spec, KeepsContract, Contract!Spec

=============================================================================
