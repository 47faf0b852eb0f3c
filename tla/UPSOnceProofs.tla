----------------------------- MODULE UPSOnceProofs -----------------------------
(***************************************************************************)
(* Every message to the UPS server is handled at most once, if at most one *)
(* message or set entry is lost.                                           *)
(***************************************************************************)
EXTENDS UPSProofs

-----------------------------------------------------------------------------
(* Where a request of a peer is *)

ToServer(r) == IF r.kind \in AmazonRequests THEN from_amazon ELSE from_world
FromServer(r) == IF r.kind \in AmazonRequests THEN to_amazon ELSE to_world
Unacked(r) == r \in IF r.kind \in AmazonRequests THEN amazon_out ELSE world_out
Waiting(r) == r \in ToSet(ToServer(r)) \/ r \in ToSet(m_tasks)
Fresh(w) == workers[w].stage \in {"acknowledged", "new"}
InHand(r) == \E w \in Workers : Fresh(w) /\ workers[w].msg = r
Acked(r) == AckFor(r.seq) \in ToSet(FromServer(r))

\* Request r may still be handled for the first time.
Pending(r) == ~AlreadySeen(r) /\ (InHand(r) \/ (Unacked(r) /\ ~Acked(r)))

\* No request is in a sequence twice; acknowledgements may be.
Once(s) == \A i, j \in 1 .. Len(s) : s[i] = s[j] /\ s[i].kind # "ack" => i = j

-----------------------------------------------------------------------------
(* The inductive invariant *)

\* There is one copy of a request between its sender and the worker that takes it.
QueueInv ==
  /\ Once(from_world) /\ Once(from_amazon) /\ Once(m_tasks)
  /\ \A r \in Requests : r \in ToSet(ToServer(r)) => r \notin ToSet(m_tasks)

FreshInv ==
  /\ \A v, w \in Workers : Fresh(v) /\ Fresh(w) /\ workers[v].msg = workers[w].msg => v = w
  /\ \A w \in Workers : workers[w].stage = "new" => ~AlreadySeen(workers[w].msg)

\* As long as nothing was lost a request is acknowledged before it is handled, and is
\* forgotten only when its number is known.
OneCopy(r) ==
  /\ Waiting(r) => Unacked(r) /\ ~Acked(r) /\ ~InHand(r)
  /\ losses = 0 => /\ InHand(r) => ~Unacked(r) \/ Acked(r)
                   /\ ~AlreadySeen(r) => Pending(r)

RequestNumbers ==
  /\ \A r \in world_issued : r.seq < world_seq
  /\ \A q, r \in world_issued : q.seq = r.seq => q = r
  /\ \A r \in amazon_issued : r.seq < amazon_seq
  /\ \A q, r \in amazon_issued : q.seq = r.seq => q = r

\* The numbers the server has seen or acknowledged were given out.
KnownNumbers ==
  /\ recvs \subseteq {r.seq : r \in world_issued}
  /\ recvs_amazon \subseteq {r.seq : r \in amazon_issued}
  /\ \A n \in Nat : AckFor(n) \in ToSet(to_world) => \E r \in world_issued : r.seq = n
  /\ \A n \in Nat : AckFor(n) \in ToSet(to_amazon) => \E r \in amazon_issued : r.seq = n

FlowInv ==
  /\ losses \in Nat /\ repeats \in Nat
  /\ QueueInv /\ FreshInv /\ RequestNumbers /\ KnownNumbers
  /\ \A r \in Requests : OneCopy(r)

\* The faults so far that are allowed for: one loss, and no needless repetition.
FewFaults == losses <= 1 /\ repeats = 0

Counted == losses \in Nat /\ repeats \in Nat

-----------------------------------------------------------------------------
(* The elements of a sequence *)

LEMMA Elements ==
  ASSUME NEW S, NEW s \in Seq(S)
  PROVE  /\ \A x : ToSet(Append(s, x)) = ToSet(s) \cup {x}
         /\ s # <<>> => ToSet(s) = {Head(s)} \cup ToSet(Tail(s))
         /\ \A n \in 0 .. Len(s) - 1 : ToSet(SubSeq(s, n + 2, Len(s))) \subseteq ToSet(Tail(s))
         /\ \A x \in ToSet(s) : x \in S
  <1>1. \A x : ToSet(Append(s, x)) = ToSet(s) \cup {x}
    <2> TAKE x
    <2> DEFINE t == Append(s, x)
    <2>1. DOMAIN t = 1 .. Len(s) + 1 /\ DOMAIN s = 1 .. Len(s) /\ Len(s) \in Nat
      OBVIOUS
    <2>2. \A i \in 1 .. Len(s) + 1 : t[i] = IF i = Len(s) + 1 THEN x ELSE s[i]
      OBVIOUS
    <2> HIDE DEF t
    <2>3. ToSet(t) \subseteq ToSet(s) \cup {x}  BY <2>1, <2>2 DEF ToSet
    <2>4. x \in ToSet(t)  BY <2>1, <2>2 DEF ToSet
    <2>5. ToSet(s) \subseteq ToSet(t)
      <3>1. \A i \in 1 .. Len(s) : i \in 1 .. Len(s) + 1 /\ t[i] = s[i]  BY <2>1, <2>2
      <3> QED BY <2>1, <3>1 DEF ToSet
    <2> QED BY <2>3, <2>4, <2>5 DEF t
  <1>2. ASSUME s # <<>> PROVE ToSet(s) = {Head(s)} \cup ToSet(Tail(s))
    <2> DEFINE t == Tail(s)
    <2>1. /\ DOMAIN t = 1 .. Len(s) - 1 /\ DOMAIN s = 1 .. Len(s) /\ Len(s) \in Nat
          /\ Len(s) > 0 /\ Head(s) = s[1]
      BY <1>2
    <2>2. \A i \in 1 .. Len(s) - 1 : t[i] = s[i + 1]  BY <1>2
    <2> HIDE DEF t
    <2>3. ToSet(t) \subseteq ToSet(s)
      <3>1. \A i \in 1 .. Len(s) - 1 : i + 1 \in 1 .. Len(s)  BY <2>1
      <3> QED BY <2>1, <2>2, <3>1 DEF ToSet
    <2>4. Head(s) \in ToSet(s)  BY <2>1 DEF ToSet
    <2>5. ASSUME NEW i \in 1 .. Len(s) PROVE s[i] \in {Head(s)} \cup ToSet(t)
      <3>1. CASE i = 1  BY <2>1, <3>1
      <3>2. CASE i # 1
        <4>1. i - 1 \in 1 .. Len(s) - 1 /\ t[i - 1] = s[i]  BY <2>1, <2>2, <3>2
        <4> QED BY <2>1, <4>1 DEF ToSet
      <3> QED BY <3>1, <3>2
    <2>6. ToSet(s) \subseteq {Head(s)} \cup ToSet(t)  BY <2>1, <2>5 DEF ToSet
    <2> QED BY <2>3, <2>4, <2>6 DEF t
  <1>3. ASSUME NEW n \in 0 .. Len(s) - 1
        PROVE  ToSet(SubSeq(s, n + 2, Len(s))) \subseteq ToSet(Tail(s))
    <2> DEFINE t == SubSeq(s, n + 2, Len(s))
               u == Tail(s)
    <2>1. s # <<>> /\ Len(s) \in Nat /\ n \in Nat  OBVIOUS
    <2>2. DOMAIN t = 1 .. Len(s) - n - 1 /\ DOMAIN u = 1 .. Len(s) - 1  BY <2>1
    <2>3. \A i \in 1 .. Len(s) - n - 1 : t[i] = s[i + n + 1]  BY <2>1
    <2>4. \A i \in 1 .. Len(s) - 1 : u[i] = s[i + 1]  BY <2>1
    <2> HIDE DEF t, u
    <2>5. ASSUME NEW i \in DOMAIN t PROVE t[i] \in ToSet(u)
      <3>1. i + n \in DOMAIN u /\ t[i] = u[i + n]  BY <2>1, <2>2, <2>3, <2>4
      <3> QED BY <3>1 DEF ToSet
    <2>6. ToSet(t) \subseteq ToSet(u)  BY <2>5 DEF ToSet
    <2> QED BY <2>6 DEF t, u
  <1>4. \A x \in ToSet(s) : x \in S  BY DEF ToSet
  <1> QED BY <1>1, <1>2, <1>3, <1>4

LEMMA OnceOnly ==
  ASSUME NEW S, NEW s \in Seq(S), Once(s)
  PROVE  /\ \A x : x.kind = "ack" \/ x \notin ToSet(s) => Once(Append(s, x))
         /\ s # <<>> => Once(Tail(s)) /\ (Head(s).kind # "ack" => Head(s) \notin ToSet(Tail(s)))
         /\ \A n \in 0 .. Len(s) - 1 : Once(SubSeq(s, n + 2, Len(s)))
  <1>1. ASSUME NEW x, x.kind = "ack" \/ x \notin ToSet(s) PROVE Once(Append(s, x))
    <2> DEFINE t == Append(s, x)
    <2>1. Len(t) = Len(s) + 1 /\ DOMAIN s = 1 .. Len(s) /\ Len(s) \in Nat
      OBVIOUS
    <2>2. \A i \in 1 .. Len(s) + 1 : t[i] = IF i = Len(s) + 1 THEN x ELSE s[i]
      OBVIOUS
    <2> HIDE DEF t
    <2>3. \A i \in 1 .. Len(s) : x.kind = "ack" \/ s[i] # x  BY <1>1, <2>1 DEF ToSet
    <2>4. \A i, j \in 1 .. Len(s) + 1 : t[i] = t[j] /\ t[i].kind # "ack" => i = j
      BY <2>1, <2>2, <2>3 DEF Once
    <2> QED BY <2>1, <2>4 DEF Once, t
  <1>2. ASSUME s # <<>>
        PROVE  Once(Tail(s)) /\ (Head(s).kind # "ack" => Head(s) \notin ToSet(Tail(s)))
    <2> DEFINE t == Tail(s)
    <2>1. /\ Len(t) = Len(s) - 1 /\ DOMAIN t = 1 .. Len(s) - 1 /\ Len(s) \in Nat
          /\ Len(s) > 0 /\ Head(s) = s[1]
      BY <1>2
    <2>2. \A i \in 1 .. Len(s) - 1 : t[i] = s[i + 1] /\ i + 1 \in 1 .. Len(s) /\ i + 1 # 1
      BY <1>2
    <2> HIDE DEF t
    <2>3. \A i, j \in 1 .. Len(s) - 1 : t[i] = t[j] /\ t[i].kind # "ack" => i = j
      <3>1. \A i, j \in 1 .. Len(s) - 1 : i + 1 = j + 1 => i = j  BY <2>1
      <3> QED BY <2>2, <3>1 DEF Once
    <2>4. ASSUME Head(s).kind # "ack", Head(s) \in ToSet(t) PROVE FALSE
      <3>1. PICK i \in 1 .. Len(s) - 1 : Head(s) = t[i]  BY <2>1, <2>4 DEF ToSet
      <3>2. s[1] = s[i + 1] /\ 1 \in 1 .. Len(s)  BY <2>1, <2>2, <3>1
      <3> QED BY <2>1, <2>2, <2>4, <3>2 DEF Once
    <2> QED BY <2>1, <2>3, <2>4 DEF Once, t
  <1>3. ASSUME NEW n \in 0 .. Len(s) - 1 PROVE Once(SubSeq(s, n + 2, Len(s)))
    <2> DEFINE t == SubSeq(s, n + 2, Len(s))
    <2>1. Len(t) = Len(s) - n - 1 /\ Len(s) \in Nat /\ n \in Nat  OBVIOUS
    <2>2. \A i \in 1 .. Len(s) - n - 1 : t[i] = s[i + n + 1] /\ i + n + 1 \in 1 .. Len(s)
      BY <2>1
    <2> HIDE DEF t
    <2>3. \A i, j \in 1 .. Len(s) - n - 1 : t[i] = t[j] /\ t[i].kind # "ack" => i = j
      <3>1. \A i, j \in 1 .. Len(s) - n - 1 : i + n + 1 = j + n + 1 => i = j  BY <2>1
      <3> QED BY <2>2, <3>1 DEF Once
    <2> QED BY <2>1, <2>3 DEF Once, t
  <1> QED BY <1>1, <1>2, <1>3

-----------------------------------------------------------------------------
(* Requests and the sides they come from *)

LEMMA Sides ==
  ASSUME UPSInv, NEW r \in Requests
  PROVE  /\ r.kind \in AmazonRequests <=> r \in amazon_issued
         /\ r.kind \notin AmazonRequests <=> r \in world_issued
         /\ r.seq \in Nat /\ r.kind # "ack"
  <1>1. r.seq \in Nat /\ r.kind # "ack"  BY RequestTypes DEF UPSInv
  <1>2. \A q \in amazon_issued : q.kind \in AmazonRequests
    BY DEF UPSInv, PeerInv, Message
  <1>3. \A q \in world_issued : q.kind \notin AmazonRequests
    BY DEF UPSInv, PeerInv, Message, WorldResponses, AmazonRequests
  <1> QED BY <1>1, <1>2, <1>3 DEF Requests

\* Two requests of one side with one number are the same.
LEMMA SameNumber ==
  ASSUME UPSInv, RequestNumbers, NEW q \in Requests, NEW r \in Requests, q.seq = r.seq,
         q.kind \in AmazonRequests <=> r.kind \in AmazonRequests
  PROVE  q = r
  BY Sides DEF RequestNumbers

\* Nothing happens to request r, except that a copy of it may be lost.
Same(r) ==
  /\ Unacked(r)' <=> Unacked(r)
  /\ Acked(r)' <=> Acked(r)
  /\ AlreadySeen(r)' <=> AlreadySeen(r)
  /\ InHand(r)' <=> InHand(r)
  /\ Waiting(r)' => Waiting(r)

LossesGrow == losses' \in Nat /\ repeats' \in Nat /\ (losses' = 0 => losses = 0)

LEMMA SameCopy ==
  ASSUME NEW r, OneCopy(r), Same(r), LossesGrow
  PROVE  OneCopy(r)' /\ (Pending(r)' <=> Pending(r))
  <1>1. Pending(r)' <=> Pending(r)  BY DEF Same, Pending
  <1> QED BY <1>1 DEF OneCopy, Same, LossesGrow

\* A request stays handled, and is handled for the first time by one step only.
Progress ==
  \A r \in Requests :
    /\ Pending(r)' => Pending(r)
    /\ Pending(r) => \/ Pending(r)'
                     \/ \E w \in Workers : InsertNumber(w) /\ workers[w].msg = r

\* What is not in the hands of a worker before its test stays so.
FreshSame ==
  \A w \in Workers : \/ ~Fresh(w) /\ ~Fresh(w)'
                     \/ Fresh(w) /\ workers'[w] = workers[w]

LEMMA SameFresh ==
  ASSUME FreshSame
  PROVE  /\ \A r : InHand(r)' <=> InHand(r)
         /\ FreshInv /\ UNCHANGED <<recvs, recvs_amazon>> => FreshInv'
  <1>1. \A w \in Workers : Fresh(w)' <=> Fresh(w)  BY DEF FreshSame, Fresh
  <1>2. \A w \in Workers : Fresh(w) => workers'[w] = workers[w]  BY DEF FreshSame
  <1>3. \A r : InHand(r)' <=> InHand(r)  BY <1>1, <1>2 DEF InHand
  <1>4. ASSUME FreshInv, UNCHANGED <<recvs, recvs_amazon>> PROVE FreshInv'
    <2>1. \A v, w \in Workers : Fresh(v)' /\ Fresh(w)' /\ workers'[v].msg = workers'[w].msg => v = w
      BY <1>1, <1>2, <1>4 DEF FreshInv
    <2>2. ASSUME NEW w \in Workers, workers'[w].stage = "new"
          PROVE  (~AlreadySeen(workers[w].msg))'
      <3>1. Fresh(w)'  BY <2>2 DEF Fresh
      <3>2. workers'[w] = workers[w]  BY <1>1, <1>2, <3>1
      <3>3. ~AlreadySeen(workers[w].msg)  BY <1>4, <2>2, <3>2 DEF FreshInv
      <3> QED BY <1>4, <3>2, <3>3 DEF AlreadySeen
    <2> QED BY <2>1, <2>2 DEF FreshInv
  <1> QED BY <1>3, <1>4

AckSame ==
  \A n \in Nat : /\ AckFor(n) \in ToSet(to_world') <=> AckFor(n) \in ToSet(to_world)
                 /\ AckFor(n) \in ToSet(to_amazon') <=> AckFor(n) \in ToSet(to_amazon)

\* What most steps leave alone: the numbers that are known and the requests that are issued.
KeepsNumbers ==
  UNCHANGED <<recvs, recvs_amazon, world_out, amazon_out, world_issued, amazon_issued,
              world_seq, amazon_seq>>

\* The steps that learn no number: they may move a request, and lose a copy of it.
LEMMA MovedFlow ==
  ASSUME UPSInv, FlowInv, FreshSame, AckSame, LossesGrow, KeepsNumbers, QueueInv',
         \A r \in Requests : Waiting(r)' => Waiting(r)
  PROVE  FlowInv' /\ Progress
  <1>1. Requests' = Requests  BY DEF Requests, KeepsNumbers
  <1>2. ASSUME NEW r \in Requests PROVE Same(r)
    <2>1. r.seq \in Nat  BY Sides
    <2>2. Acked(r)' <=> Acked(r)  BY <2>1 DEF AckSame, Acked, FromServer
    <2>3. InHand(r)' <=> InHand(r)  BY SameFresh
    <2> QED BY <2>2, <2>3 DEF Same, Unacked, AlreadySeen, KeepsNumbers
  <1>3. \A r \in Requests : OneCopy(r)' /\ (Pending(r)' <=> Pending(r))
    BY <1>2, SameCopy DEF FlowInv
  <1>4. FreshInv'  BY SameFresh DEF FlowInv, KeepsNumbers
  <1>5. RequestNumbers'  BY DEF FlowInv, RequestNumbers, KeepsNumbers
  <1>6. KnownNumbers'  BY DEF FlowInv, KnownNumbers, AckSame, KeepsNumbers
  <1> QED BY <1>1, <1>3, <1>4, <1>5, <1>6 DEF FlowInv, LossesGrow, Progress

\* The steps that move no request either.
LEMMA QuietFlow ==
  ASSUME UPSInv, FlowInv, FreshSame, AckSame, LossesGrow, KeepsNumbers,
         UNCHANGED <<m_tasks, from_world, from_amazon>>
  PROVE  FlowInv' /\ Progress
  <1>1. QueueInv'  BY DEF FlowInv, QueueInv, Once, ToServer, Requests, KeepsNumbers
  <1>2. \A r \in Requests : Waiting(r)' => Waiting(r)  BY DEF Waiting, ToServer
  <1> QED BY <1>1, <1>2, MovedFlow

-----------------------------------------------------------------------------
(* The steps of the workers *)

LEMMA FreshStays ==
  ASSUME UPSInv, NEW w \in Workers, ~Fresh(w),
         \/ UNCHANGED workers
         \/ \E state : /\ state.stage \notin {"acknowledged", "new"}
                       /\ workers' = [workers EXCEPT ![w] = state]
  PROVE  FreshSame
  <1>1. CASE UNCHANGED workers  BY <1>1 DEF FreshSame, Fresh
  <1>2. ASSUME NEW state, state.stage \notin {"acknowledged", "new"},
               workers' = [workers EXCEPT ![w] = state]
        PROVE  FreshSame
    <2>1. \A v \in Workers : workers'[v] = IF v = w THEN state ELSE workers[v]
      BY <1>2 DEF UPSInv, WorkerInv
    <2> QED BY <1>2, <2>1 DEF FreshSame, Fresh
  <1> QED BY <1>1, <1>2

\* The handlers, and the end of a command.
Handler(w) ==
  \/ CommandAcked(w)
  \/ pick_truck(w) \/ CountUser(w) \/ InsertUser(w) \/ InsertPackage(w) \/ SendTruck(w)
  \/ parseloaded(w) \/ OutForDelivery(w) \/ TruckDelivering(w)
  \/ handleDelivery(w) \/ dealUFinished(w) \/ ReportArrival(w) \/ handleIdle(w)

\* The stages of a handler, which is followed by the repetition of its command.
HandlerStages == {"started", "arrived", "picked", "no user", "created", "read", "out"}
Begun(w) == workers[w].stage \in HandlerStages

\* A handler goes on with its message, or ends.
GoesOn(w, state) ==
  \/ state.stage \in HandlerStages \ {"started"} /\ state.msg = workers[w].msg
  \/ state.stage \in {"sending", "idle"}

LEMMA HandlerGoes ==
  ASSUME UPSInv, NEW w \in Workers, Handler(w)
  PROVE  /\ workers[w].stage \in HandlerStages \cup {"sending"}
         /\ \/ Crash
            \/ \E state : GoesOn(w, state) /\ workers' = [workers EXCEPT ![w] = state]
  <1>1. workers[w].stage \in HandlerStages \cup {"sending"}
    BY DEF Handler, CommandAcked, pick_truck, CountUser, InsertUser, InsertPackage, SendTruck,
           parseloaded, OutForDelivery, TruckDelivering, handleDelivery, dealUFinished,
           ReportArrival, handleIdle, In, HandlerStages
  <1> DEFINE Goes == \E state : GoesOn(w, state) /\ workers' = [workers EXCEPT ![w] = state]
  <1>0. /\ \A c : GoesOn(w, Sending(c))
        /\ GoesOn(w, Handling("arrived", workers[w].msg))
        /\ GoesOn(w, Idle)
    BY DEF Sending, Handling, Idle, GoesOn, HandlerStages
  <1> SUFFICES Crash \/ Goes
    BY <1>1
  <1>2. ASSUME NEW c, Issue(w, c) PROVE Goes
    BY <1>0, <1>2 DEF Issue, Become
  <1>3. CASE SendTruck(w) \/ handleDelivery(w) \/ ReportArrival(w)
    <2>1. Crash \/ \E c : Issue(w, c)  BY <1>3 DEF SendTruck, handleDelivery, ReportArrival
    <2> QED BY <1>2, <2>1
  <1>4. CASE CommandAcked(w) \/ handleIdle(w)
    BY <1>0, <1>4 DEF CommandAcked, handleIdle, Become
  <1>5. CASE TruckDelivering(w) \/ dealUFinished(w)
    BY <1>0, <1>5 DEF TruckDelivering, dealUFinished, Become
  <1>7. CASE pick_truck(w)
    <2>1. PICK t : workers' = [workers EXCEPT ![w] =
                                 [stage |-> "picked", msg |-> workers[w].msg, truck |-> t]]
      BY <1>7 DEF pick_truck, Become
    <2>2. GoesOn(w, [stage |-> "picked", msg |-> workers[w].msg, truck |-> t])
      BY DEF GoesOn, HandlerStages
    <2> QED BY <2>1, <2>2
  <1>8. CASE parseloaded(w)
    <2>1. Crash \/ \E c : workers' = [workers EXCEPT ![w] =
                                        [stage |-> "read", msg |-> workers[w].msg, cmd |-> c]]
      BY <1>8 DEF parseloaded, Become
    <2>2. \A c : GoesOn(w, [stage |-> "read", msg |-> workers[w].msg, cmd |-> c])
      BY DEF GoesOn, HandlerStages
    <2> QED BY <2>1, <2>2
  <1>6. CASE (CountUser(w) \/ InsertUser(w) \/ InsertPackage(w) \/ OutForDelivery(w)) /\ ~Crash
    <2>1. PICK stage \in {"no user", "picked", "created", "out"} :
            workers' = [workers EXCEPT ![w] = [workers[w] EXCEPT !.stage = stage]]
      BY <1>6 DEF CountUser, InsertUser, InsertPackage, OutForDelivery, Become
    <2>2. workers[w].stage \in {"picked", "no user", "read"}
      BY <1>6 DEF CountUser, InsertUser, InsertPackage, OutForDelivery, In
    <2>3. workers[w] \in Pickups \cup Loadings  BY <2>2, AtStage DEF UPSInv
    <2>4. /\ [workers[w] EXCEPT !.stage = stage].stage = stage
          /\ [workers[w] EXCEPT !.stage = stage].msg = workers[w].msg
      BY <2>3 DEF Pickups, Loadings
    <2>5. GoesOn(w, [workers[w] EXCEPT !.stage = stage])  BY <2>4 DEF GoesOn, HandlerStages
    <2> QED BY <2>1, <2>5
  <1> HIDE DEF Goes
  <1> QED BY <1>3, <1>4, <1>5, <1>6, <1>7, <1>8 DEF Handler

\* What no handler touches.
LEMMA HandlerKeeps ==
  ASSUME NEW w \in Workers, Handler(w)
  PROVE  UNCHANGED <<store, handled, m_tasks, sockets, losses>>
  BY DEF Handler, CommandAcked, pick_truck, CountUser, InsertUser, InsertPackage, SendTruck,
         parseloaded, OutForDelivery, TruckDelivering, handleDelivery, dealUFinished,
         ReportArrival, handleIdle, Crash

LEMMA HandlerFlow ==
  ASSUME UPSInv, FlowInv, NEW w \in Workers, Handler(w),
         UNCHANGED <<worldVars, amazonVars, repeats>>
  PROVE  FlowInv' /\ Progress
  <1>1. UNCHANGED <<store, handled, m_tasks, sockets, losses>>  BY HandlerKeeps
  <1>2. ~Fresh(w)  BY HandlerGoes DEF Fresh, HandlerStages
  <1>3. FreshSame
    <2>1. CASE Crash  BY <1>2, <2>1, FreshStays DEF Crash
    <2>2. CASE ~Crash
      <3>1. \A state : GoesOn(w, state) => state.stage \notin {"acknowledged", "new"}
        BY DEF GoesOn, HandlerStages
      <3> QED BY <1>2, <2>2, <3>1, HandlerGoes, FreshStays
    <2> QED BY <2>1, <2>2
  <1>4. AckSame /\ LossesGrow  BY <1>1 DEF AckSame, LossesGrow, sockets, FlowInv
  <1> QED BY <1>1, <1>3, <1>4, QuietFlow DEF handled, sockets, worldVars, amazonVars, KeepsNumbers

LEMMA SendFlow ==
  ASSUME UPSInv, FlowInv, NEW w \in Workers, Send(w)
  PROVE  FlowInv' /\ Progress
  <1> DEFINE c == workers[w].cmd
  <1>1. /\ workers[w].stage = "sending"
        /\ UNCHANGED <<m_tasks, recvs, recvs_amazon, workers, worldVars, amazonVars,
                       from_world, from_amazon, losses>>
        /\ \/ to_world' = Append(to_world, c) /\ to_amazon' = to_amazon
           \/ to_amazon' = Append(to_amazon, c) /\ to_world' = to_world
        /\ repeats' \in {repeats, repeats + 1}
    BY DEF Send, SendCommand, Write, serverVars, numbers, handled, Repeating
  <1>2. c \in issued  BY <1>1, AtStage DEF UPSInv, Senders
  <1>3. c.kind # "ack"  BY <1>2, CommandTypes DEF UPSInv
  <1> HIDE DEF c
  <1>4. AckSame
    <2>1. \A n \in Nat : AckFor(n) # c  BY <1>3 DEF AckFor
    <2>2. /\ to_world \in Seq(ForWorld \cup Acks) /\ to_amazon \in Seq(ForAmazon \cup Acks)
      BY DEF UPSInv, ChannelInv
    <2>3. /\ ToSet(Append(to_world, c)) = ToSet(to_world) \cup {c}
          /\ ToSet(Append(to_amazon, c)) = ToSet(to_amazon) \cup {c}
      BY <2>2, Elements
    <2> QED BY <1>1, <2>1, <2>3 DEF AckSame
  <1>5. FreshSame  BY <1>1 DEF FreshSame, Fresh
  <1>6. LossesGrow  BY <1>1 DEF LossesGrow, FlowInv
  <1> QED BY <1>1, <1>4, <1>5, <1>6, QuietFlow DEF worldVars, amazonVars, KeepsNumbers

\* What a worker does between taking a request and its handler.
LEMMA FreshWorker ==
  ASSUME UPSInv, NEW w \in Workers, Fresh(w)
  PROVE  /\ workers[w].msg \in Requests /\ InHand(workers[w].msg)
         /\ workers[w] = Handling(workers[w].stage, workers[w].msg)
  <1>1. workers[w] \in Handlers  BY AtStage DEF UPSInv, Fresh
  <1> QED BY <1>1 DEF Handlers, Handling, InHand

LEMMA FindNumberFlow ==
  ASSUME UPSInv, FlowInv, NEW w \in Workers, FindNumber(w),
         UNCHANGED <<worldVars, amazonVars, repeats>>
  PROVE  FlowInv' /\ Progress
  <1> DEFINE m == workers[w].msg
             state == IF AlreadySeen(m) THEN Idle ELSE Handling("new", m)
  <1>1. /\ workers[w].stage = "acknowledged" /\ workers' = [workers EXCEPT ![w] = state]
        /\ UNCHANGED <<handled, m_tasks, sockets, losses>>
    BY DEF FindNumber, Become
  <1>2. Fresh(w) /\ m \in Requests  BY <1>1, FreshWorker DEF Fresh
  <1>3. \A v \in Workers : workers'[v] = IF v = w THEN state ELSE workers[v]
    BY <1>1 DEF UPSInv, WorkerInv
  <1>4. /\ AlreadySeen(m) => state.stage = "idle"
        /\ ~AlreadySeen(m) => state.stage = "new" /\ state.msg = m
    BY DEF Idle, Handling
  <1> HIDE DEF state
  <1>5. UNCHANGED <<recvs, recvs_amazon, from_world, from_amazon, to_world, to_amazon, Requests,
                    world_seq, world_out, world_issued, amazon_seq, amazon_out, amazon_issued>>
    BY <1>1 DEF handled, sockets, worldVars, amazonVars, Requests
  <1>6. \A v \in Workers : Fresh(v)' => Fresh(v) /\ workers'[v].msg = workers[v].msg
    BY <1>2, <1>3, <1>4 DEF Fresh
  <1>7. \A r \in Requests : ~(r = m /\ AlreadySeen(m)) => (InHand(r)' <=> InHand(r))
    <2>1. \A r \in Requests : InHand(r)' => InHand(r)  BY <1>6 DEF InHand
    <2>2. ASSUME NEW r \in Requests, ~(r = m /\ AlreadySeen(m)), InHand(r) PROVE InHand(r)'
      <3>1. PICK v \in Workers : Fresh(v) /\ workers[v].msg = r  BY <2>2 DEF InHand
      <3>2. CASE v # w  BY <1>3, <3>1, <3>2 DEF InHand, Fresh
      <3>3. CASE v = w  BY <1>3, <1>4, <2>2, <3>1, <3>3 DEF InHand, Fresh
      <3> QED BY <3>2, <3>3
    <2> QED BY <2>1, <2>2
  <1>8. \A r \in Requests : InHand(r)' => InHand(r)  BY <1>6 DEF InHand
  <1>9. \A r \in Requests : /\ Unacked(r)' <=> Unacked(r)
                            /\ Acked(r)' <=> Acked(r)
                            /\ AlreadySeen(r)' <=> AlreadySeen(r)
                            /\ Waiting(r)' <=> Waiting(r)
    BY <1>1, <1>5 DEF Unacked, Acked, FromServer, AlreadySeen, Waiting, ToServer
  <1>10. \A r \in Requests : Pending(r)' <=> Pending(r)
    BY <1>7, <1>9 DEF Pending
  <1>11. \A r \in Requests : OneCopy(r)'
    BY <1>1, <1>8, <1>9, <1>10 DEF FlowInv, OneCopy
  <1>12. FreshInv'
    <2>1. \A u, v \in Workers : Fresh(u)' /\ Fresh(v)' /\ workers'[u].msg = workers'[v].msg => u = v
      BY <1>6 DEF FlowInv, FreshInv
    <2>2. ASSUME NEW v \in Workers, workers'[v].stage = "new"
          PROVE  (~AlreadySeen(workers[v].msg))' 
      <3>1. CASE v = w
        <4>1. ~AlreadySeen(m)  BY <1>3, <1>4, <2>2, <3>1
        <4> QED BY <1>3, <1>4, <1>5, <3>1, <4>1 DEF AlreadySeen
      <3>2. CASE v # w
        <4>1. workers'[v] = workers[v]  BY <1>3, <3>2
        <4>2. ~AlreadySeen(workers[v].msg)  BY <2>2, <4>1 DEF FlowInv, FreshInv
        <4> QED BY <1>5, <4>1, <4>2 DEF AlreadySeen
      <3> QED BY <3>1, <3>2
    <2> QED BY <2>1, <2>2 DEF FreshInv
  <1>13. QueueInv'  BY <1>1, <1>5 DEF FlowInv, QueueInv, Once, ToServer
  <1>14. RequestNumbers' /\ KnownNumbers'  BY <1>5 DEF FlowInv, RequestNumbers, KnownNumbers
  <1> QED BY <1>1, <1>5, <1>10, <1>11, <1>12, <1>13, <1>14 DEF FlowInv, Progress

LEMMA InsertNumberFlow ==
  ASSUME UPSInv, FlowInv, FewFaults', NEW w \in Workers, InsertNumber(w),
         UNCHANGED <<worldVars, amazonVars, repeats>>
  PROVE  /\ FlowInv' /\ Progress
         /\ \A r : r = workers[w].msg => Pending(r) /\ ~Pending(r)'
  <1>0. PICK m : m = workers[w].msg  OBVIOUS
  <1> DEFINE state == Handling("started", m)
  <1>1. /\ workers[w].stage = "new" /\ workers' = [workers EXCEPT ![w] = state]
        /\ UNCHANGED <<m_tasks, sockets>>
        /\ IF m.kind \in AmazonRequests
             THEN recvs_amazon' \in {recvs_amazon, recvs_amazon \cup {m.seq}} /\ recvs' = recvs
             ELSE recvs' \in {recvs, recvs \cup {m.seq}} /\ recvs_amazon' = recvs_amazon
        /\ \/ losses' = losses /\ m.seq \in IF m.kind \in AmazonRequests THEN recvs_amazon' ELSE recvs'
           \/ losses < MaxLoss /\ losses' = losses + 1
    BY <1>0 DEF InsertNumber, Insert, Become
  <1>2. Fresh(w) /\ m \in Requests /\ InHand(m)  BY <1>0, <1>1, FreshWorker DEF Fresh
  <1>3. \A v \in Workers : workers'[v] = IF v = w THEN state ELSE workers[v]
    BY <1>1 DEF UPSInv, WorkerInv
  <1>4. state.stage = "started"  BY DEF Handling
  <1> HIDE DEF state
  <1>5. UNCHANGED <<from_world, from_amazon, to_world, to_amazon, Requests,
                    world_seq, world_out, world_issued, amazon_seq, amazon_out, amazon_issued>>
    BY <1>1 DEF handled, sockets, worldVars, amazonVars, Requests
  <1>6. /\ \A v \in Workers : Fresh(v)' <=> v # w /\ Fresh(v)
        /\ \A v \in Workers : v # w => workers'[v] = workers[v]
    BY <1>3, <1>4 DEF Fresh
  <1>7. ~AlreadySeen(m)  BY <1>0, <1>1 DEF FlowInv, FreshInv
  <1>8. losses \in Nat /\ losses' \in Nat /\ (losses' # losses => losses = 0 /\ losses' = 1)
    <2>1. losses \in Nat /\ losses' <= 1  BY DEF FlowInv, FewFaults
    <2> QED BY <1>1, <2>1
  <1>9. \A r \in Requests : r # m => (AlreadySeen(r)' <=> AlreadySeen(r))
    <2> SUFFICES ASSUME NEW r \in Requests, r # m PROVE AlreadySeen(r)' <=> AlreadySeen(r)
      OBVIOUS
    <2>1. (r.kind \in AmazonRequests <=> m.kind \in AmazonRequests) => r.seq # m.seq
      BY <1>2, SameNumber DEF FlowInv
    <2> QED BY <1>1, <2>1 DEF AlreadySeen
  <1>10. \A r \in Requests : r # m => (InHand(r)' <=> InHand(r))
    BY <1>0, <1>6 DEF InHand
  <1>11. ~InHand(m)'
    BY <1>0, <1>2, <1>6 DEF InHand, FlowInv, FreshInv
  <1>12. \A r \in Requests : /\ Unacked(r)' <=> Unacked(r)
                             /\ Acked(r)' <=> Acked(r)
                             /\ Waiting(r)' <=> Waiting(r)
    BY <1>1, <1>5 DEF Unacked, Acked, FromServer, Waiting, ToServer
  <1>13. \A r \in Requests : r # m => (Pending(r)' <=> Pending(r))
    BY <1>9, <1>10, <1>12 DEF Pending
  <1>14. AlreadySeen(m)' \/ losses' # losses
    <2>1. losses \in Nat => losses + 1 # losses  OBVIOUS
    <2> QED BY <1>1, <1>8, <2>1 DEF AlreadySeen
  <1>15. Pending(m) /\ ~Pending(m)'
    <2>1. Pending(m)  BY <1>2, <1>7 DEF Pending
    <2>2. ASSUME losses' # losses PROVE ~Unacked(m)' \/ Acked(m)'
      BY <1>2, <1>8, <1>12, <2>2 DEF FlowInv, OneCopy
    <2> QED BY <1>11, <1>14, <2>1, <2>2 DEF Pending
  <1>16. \A r \in Requests : OneCopy(r)'
    <2>1. ASSUME NEW r \in Requests, r # m PROVE OneCopy(r)'
      <3>1. losses' = 0 => losses = 0  BY <1>8
      <3> QED BY <1>9, <1>10, <1>12, <1>13, <2>1, <3>1 DEF FlowInv, OneCopy
    <2>2. OneCopy(m)'
      <3>1. losses' = 0 => AlreadySeen(m)'  BY <1>8, <1>14
      <3> QED BY <1>2, <1>11, <1>12, <3>1 DEF FlowInv, OneCopy
    <2> QED BY <2>1, <2>2
  <1>17. FreshInv'
    <2>1. \A u, v \in Workers : Fresh(u)' /\ Fresh(v)' /\ workers'[u].msg = workers'[v].msg => u = v
      BY <1>6 DEF FlowInv, FreshInv
    <2>2. ASSUME NEW v \in Workers, workers'[v].stage = "new"
          PROVE  (~AlreadySeen(workers[v].msg))'
      <3>1. v # w /\ workers'[v] = workers[v] /\ Fresh(v)  BY <1>3, <1>4, <2>2 DEF Fresh
      <3>2. workers[v].msg \in Requests /\ workers[v].msg # m
        BY <1>0, <1>2, <3>1, FreshWorker DEF FlowInv, FreshInv
      <3>3. ~AlreadySeen(workers[v].msg)  BY <2>2, <3>1 DEF FlowInv, FreshInv
      <3>4. (~AlreadySeen(workers[v].msg)) <=> workers[v].msg.seq \notin
              IF workers[v].msg.kind \in AmazonRequests THEN recvs_amazon ELSE recvs
        BY DEF AlreadySeen
      <3>5. (workers[v].msg.kind \in AmazonRequests <=> m.kind \in AmazonRequests)
              => workers[v].msg.seq # m.seq
        BY <1>2, <3>2, SameNumber DEF FlowInv
      <3> QED BY <1>1, <3>1, <3>3, <3>4, <3>5 DEF AlreadySeen
    <2> QED BY <2>1, <2>2 DEF FreshInv
  <1>18. QueueInv'  BY <1>1, <1>5 DEF FlowInv, QueueInv, Once, ToServer
  <1>19. RequestNumbers'  BY <1>5 DEF FlowInv, RequestNumbers
  <1>20. KnownNumbers'
    <2>1. m.kind \in AmazonRequests => m \in amazon_issued  BY <1>2, Sides
    <2>2. m.kind \notin AmazonRequests => m \in world_issued  BY <1>2, Sides
    <2>3. recvs' \subseteq {r.seq : r \in world_issued}
      BY <1>1, <2>2 DEF FlowInv, KnownNumbers
    <2>4. recvs_amazon' \subseteq {r.seq : r \in amazon_issued}
      BY <1>1, <2>1 DEF FlowInv, KnownNumbers
    <2> QED BY <1>5, <2>3, <2>4 DEF FlowInv, KnownNumbers
  <1>21. Progress  BY <1>0, <1>13, <1>15 DEF Progress
  <1>22. repeats' \in Nat  BY DEF FlowInv
  <1> QED BY <1>0, <1>5, <1>8, <1>15, <1>16, <1>17, <1>18, <1>19, <1>20, <1>21, <1>22 DEF FlowInv

LEMMA TakeAckFlow ==
  ASSUME UPSInv, FlowInv, NEW w \in Workers, TakeAck(w),
         UNCHANGED <<worldVars, amazonVars, repeats>>
  PROVE  FlowInv' /\ Progress
  <1>1. /\ m_tasks # <<>> /\ m_tasks' = Tail(m_tasks)
        /\ UNCHANGED <<handled, workers, sockets>>
        /\ losses' \in {losses, losses + 1}
    BY DEF TakeAck, Insert
  <1>2. m_tasks \in Seq(Requests \cup AcksOf(world_seen \cup amazon_seen))
    BY DEF UPSInv, HandledInv
  <1>3. Once(m_tasks') /\ ToSet(m_tasks') \subseteq ToSet(m_tasks)
    BY <1>1, <1>2, OnceOnly, Elements DEF FlowInv, QueueInv
  <1>4. FreshSame /\ AckSame /\ LossesGrow
    BY <1>1 DEF FreshSame, Fresh, AckSame, LossesGrow, sockets, FlowInv
  <1>5. KeepsNumbers  BY <1>1 DEF KeepsNumbers, handled, worldVars, amazonVars
  <1>6. UNCHANGED <<from_world, from_amazon>>  BY <1>1 DEF sockets
  <1>7. UNCHANGED Requests  BY <1>5 DEF KeepsNumbers, Requests
  <1>8. QueueInv'
    BY <1>3, <1>6, <1>7 DEF FlowInv, QueueInv, Once, ToServer
  <1>9. \A r \in Requests : Waiting(r)' => Waiting(r)
    BY <1>3, <1>6 DEF Waiting, ToServer
  <1> QED BY <1>4, <1>5, <1>8, <1>9, MovedFlow

\* The main thread moves the head of a socket to the queue, or drops it.
LEMMA ReadMessage ==
  ASSUME NEW S, NEW chan \in Seq(S), NEW chan2, NEW T, m_tasks \in Seq(T),
         Once(chan), Once(m_tasks),
         chan # <<>>, \E n \in 0 .. Len(chan) - 1 : chan2 = SubSeq(chan, n + 2, Len(chan)),
         m_tasks' = Append(m_tasks, Head(chan)) \/ m_tasks' = m_tasks,
         Head(chan).kind # "ack" => Head(chan) \notin ToSet(m_tasks)
  PROVE  /\ Once(chan2) /\ Once(m_tasks')
         /\ ToSet(chan2) \subseteq ToSet(chan)
         /\ ToSet(m_tasks') \subseteq ToSet(m_tasks) \cup {Head(chan)}
         /\ Head(chan) \in ToSet(chan)
         /\ Head(chan).kind # "ack" => Head(chan) \notin ToSet(chan2)
  <1>1. PICK n \in 0 .. Len(chan) - 1 : chan2 = SubSeq(chan, n + 2, Len(chan))
    OBVIOUS
  <1>2. ToSet(chan) = {Head(chan)} \cup ToSet(Tail(chan)) /\ ToSet(chan2) \subseteq ToSet(Tail(chan))
    BY <1>1, Elements
  <1>3. Once(chan2) /\ (Head(chan).kind # "ack" => Head(chan) \notin ToSet(Tail(chan)))
    BY <1>1, OnceOnly
  <1>5. Once(m_tasks') /\ ToSet(m_tasks') \subseteq ToSet(m_tasks) \cup {Head(chan)}
    <2>1. CASE m_tasks' = Append(m_tasks, Head(chan))
      <3>1. Once(Append(m_tasks, Head(chan)))  BY OnceOnly
      <3>2. ToSet(Append(m_tasks, Head(chan))) = ToSet(m_tasks) \cup {Head(chan)}  BY Elements
      <3> QED BY <2>1, <3>1, <3>2
    <2>2. CASE m_tasks' = m_tasks  BY <2>2
    <2> QED BY <2>1, <2>2
  <1> QED BY <1>2, <1>3, <1>5

LEMMA ReceiveFlow ==
  ASSUME UPSInv, FlowInv, MainStep
  PROVE  FlowInv' /\ Progress
  <1>1. /\ UNCHANGED <<handled, workers, to_world, to_amazon, worldVars, amazonVars, repeats>>
        /\ \/ /\ recvMesgFrom(from_world) /\ assign_task(Head(from_world))
              /\ UNCHANGED from_amazon
           \/ /\ recvMesgFrom(from_amazon) /\ assign_task(Head(from_amazon))
              /\ UNCHANGED from_world
    BY DEF MainStep, MainThread, ReceiveFromWorld, ReceiveFromAmazon
  <1>2. LossesGrow
    <2>1. \E dropped \in Nat : losses' = losses + dropped
      BY <1>1 DEF recvMesgFrom, UPSInv, ChannelInv
    <2> QED BY <1>1, <2>1 DEF LossesGrow, FlowInv
  <1>3. FreshSame /\ AckSame  BY <1>1 DEF FreshSame, Fresh, AckSame
  <1>4. KeepsNumbers  BY <1>1 DEF KeepsNumbers, handled, worldVars, amazonVars
  <1>5. UNCHANGED Requests  BY <1>4 DEF KeepsNumbers, Requests
  <1>6. m_tasks \in Seq(Requests \cup AcksOf(world_seen \cup amazon_seen))
    BY DEF UPSInv, HandledInv
  <1>7. Once(from_world) /\ Once(from_amazon) /\ Once(m_tasks)  BY DEF FlowInv, QueueInv
  <1> DEFINE Moved == /\ Once(from_world') /\ Once(from_amazon') /\ Once(m_tasks')
                      /\ \A r \in Requests :
                           /\ Waiting(r)' => Waiting(r)
                           /\ r \in ToSet(ToServer(r))' => r \notin ToSet(m_tasks')
  <1>8. ASSUME recvMesgFrom(from_world), assign_task(Head(from_world)), UNCHANGED from_amazon
        PROVE  Moved
    <2>1. PICK m : m = Head(from_world)  OBVIOUS
    <2>2. /\ from_world \in Seq(world_issued \cup AcksOf(world_seen)) /\ from_world # <<>>
          /\ \E n \in 0 .. Len(from_world) - 1 :
               from_world' = SubSeq(from_world, n + 2, Len(from_world))
      BY <1>8 DEF recvMesgFrom, UPSInv, ChannelInv
    <2>3. m \in world_issued \cup AcksOf(world_seen) /\ m \in ToSet(from_world)
      BY <2>1, <2>2, Elements
    <2>4. m.kind # "ack" => m \in Requests /\ m.kind \notin AmazonRequests
      <3>1. m.kind # "ack" => m \in world_issued  BY <2>3 DEF AcksOf, Acks
      <3> QED BY <3>1, Sides DEF Requests
    <2>5. m.kind # "ack" => m \notin ToSet(m_tasks)
      BY <2>3, <2>4 DEF FlowInv, QueueInv, ToServer
    <2>6. /\ Once(from_world') /\ Once(m_tasks')
          /\ ToSet(from_world') \subseteq ToSet(from_world)
          /\ ToSet(m_tasks') \subseteq ToSet(m_tasks) \cup {m}
          /\ m.kind # "ack" => m \notin ToSet(from_world')
      <3>1. m_tasks' = Append(m_tasks, Head(from_world)) \/ m_tasks' = m_tasks
        BY <1>8 DEF assign_task
      <3>2. Head(from_world).kind # "ack" => Head(from_world) \notin ToSet(m_tasks)  BY <2>1, <2>5
      <3> QED BY <1>6, <1>7, <2>1, <2>2, <3>1, <3>2, ReadMessage
    <2>7. ASSUME NEW r \in Requests
          PROVE  /\ Waiting(r)' => Waiting(r)
                 /\ r \in ToSet(ToServer(r))' => r \notin ToSet(m_tasks')
      <3>1. r.kind # "ack"  BY Sides
      <3>2. r \in ToSet(ToServer(r))' => r \in ToSet(ToServer(r))
        BY <1>8, <2>6 DEF ToServer
      <3>3. r = m => r \in ToSet(ToServer(r)) /\ r \notin ToSet(ToServer(r))'
        BY <2>3, <2>4, <2>6, <3>1 DEF ToServer
      <3>4. r \in ToSet(ToServer(r)) => r \notin ToSet(m_tasks)  BY DEF FlowInv, QueueInv
      <3> QED BY <2>6, <3>2, <3>3, <3>4 DEF Waiting
    <2> QED BY <1>7, <1>8, <2>6, <2>7
  <1>9. ASSUME recvMesgFrom(from_amazon), assign_task(Head(from_amazon)), UNCHANGED from_world
        PROVE  Moved
    <2>1. PICK m : m = Head(from_amazon)  OBVIOUS
    <2>2. /\ from_amazon \in Seq(amazon_issued \cup AcksOf(amazon_seen)) /\ from_amazon # <<>>
          /\ \E n \in 0 .. Len(from_amazon) - 1 :
               from_amazon' = SubSeq(from_amazon, n + 2, Len(from_amazon))
      BY <1>9 DEF recvMesgFrom, UPSInv, ChannelInv
    <2>3. m \in amazon_issued \cup AcksOf(amazon_seen) /\ m \in ToSet(from_amazon)
      BY <2>1, <2>2, Elements
    <2>4. m.kind # "ack" => m \in Requests /\ m.kind \in AmazonRequests
      <3>1. m.kind # "ack" => m \in amazon_issued  BY <2>3 DEF AcksOf, Acks
      <3> QED BY <3>1, Sides DEF Requests
    <2>5. m.kind # "ack" => m \notin ToSet(m_tasks)
      BY <2>3, <2>4 DEF FlowInv, QueueInv, ToServer
    <2>6. /\ Once(from_amazon') /\ Once(m_tasks')
          /\ ToSet(from_amazon') \subseteq ToSet(from_amazon)
          /\ ToSet(m_tasks') \subseteq ToSet(m_tasks) \cup {m}
          /\ m.kind # "ack" => m \notin ToSet(from_amazon')
      <3>1. m_tasks' = Append(m_tasks, Head(from_amazon)) \/ m_tasks' = m_tasks
        BY <1>9 DEF assign_task
      <3>2. Head(from_amazon).kind # "ack" => Head(from_amazon) \notin ToSet(m_tasks)  BY <2>1, <2>5
      <3> QED BY <1>6, <1>7, <2>1, <2>2, <3>1, <3>2, ReadMessage
    <2>7. ASSUME NEW r \in Requests
          PROVE  /\ Waiting(r)' => Waiting(r)
                 /\ r \in ToSet(ToServer(r))' => r \notin ToSet(m_tasks')
      <3>1. r.kind # "ack"  BY Sides
      <3>2. r \in ToSet(ToServer(r))' => r \in ToSet(ToServer(r))
        BY <1>9, <2>6 DEF ToServer
      <3>3. r = m => r \in ToSet(ToServer(r)) /\ r \notin ToSet(ToServer(r))'
        BY <2>3, <2>4, <2>6, <3>1 DEF ToServer
      <3>4. r \in ToSet(ToServer(r)) => r \notin ToSet(m_tasks)  BY DEF FlowInv, QueueInv
      <3> QED BY <2>6, <3>2, <3>3, <3>4 DEF Waiting
    <2> QED BY <1>7, <1>9, <2>6, <2>7
  <1>10. Moved  BY <1>1, <1>8, <1>9
  <1> HIDE DEF Moved
  <1>11. QueueInv'  BY <1>5, <1>10 DEF Moved, QueueInv, Once
  <1>12. \A r \in Requests : Waiting(r)' => Waiting(r)  BY <1>10 DEF Moved
  <1> QED BY <1>2, <1>3, <1>4, <1>11, <1>12, MovedFlow

LEMMA TakeRequestFlow ==
  ASSUME UPSInv, FlowInv, NEW w \in Workers, TakeRequest(w),
         UNCHANGED <<worldVars, amazonVars, repeats>>
  PROVE  FlowInv' /\ Progress
  <1>0. PICK m : m = Head(m_tasks)  OBVIOUS
  <1> DEFINE state == Handling("acknowledged", m)
  <1>1. /\ workers[w] = Idle /\ workers' = [workers EXCEPT ![w] = state]
        /\ m_tasks # <<>> /\ m.kind # "ack" /\ m_tasks' = Tail(m_tasks)
        /\ IF m.kind \in AmazonRequests
             THEN to_amazon' = Append(to_amazon, AckFor(m.seq)) /\ to_world' = to_world
             ELSE to_world' = Append(to_world, AckFor(m.seq)) /\ to_amazon' = to_amazon
        /\ UNCHANGED <<handled, losses, from_world, from_amazon>>
    BY <1>0 DEF TakeRequest, Become, Write, Free
  <1>2. m_tasks \in Seq(Requests \cup AcksOf(world_seen \cup amazon_seen))
    BY DEF UPSInv, HandledInv
  <1>3. m \in ToSet(m_tasks) /\ ToSet(m_tasks') \subseteq ToSet(m_tasks)
    BY <1>0, <1>1, <1>2, Elements
  <1>4. m \in Requests
    <2>1. m \in Requests \cup AcksOf(world_seen \cup amazon_seen)  BY <1>2, <1>3, Elements
    <2> QED BY <1>1, <2>1 DEF AcksOf, Acks
  <1>5. Once(m_tasks') /\ m \notin ToSet(m_tasks')
    BY <1>0, <1>1, <1>2, OnceOnly DEF FlowInv, QueueInv
  <1>6. Waiting(m) /\ m \notin ToSet(ToServer(m))
    BY <1>3, <1>4 DEF Waiting, FlowInv, QueueInv
  <1>7. Unacked(m) /\ ~Acked(m) /\ ~InHand(m)  BY <1>4, <1>6 DEF FlowInv, OneCopy
  <1>8. \A v \in Workers : workers'[v] = IF v = w THEN state ELSE workers[v]
    BY <1>1 DEF UPSInv, WorkerInv
  <1>9. state.stage = "acknowledged" /\ state.msg = m /\ Idle.stage = "idle"
    BY DEF Handling, Idle
  <1> HIDE DEF state
  <1>10. /\ \A v \in Workers : Fresh(v)' <=> Fresh(v) \/ v = w
         /\ \A v \in Workers : v # w => workers'[v] = workers[v]
         /\ workers'[w].msg = m /\ workers'[w].stage = "acknowledged" /\ ~Fresh(w)
    BY <1>1, <1>8, <1>9 DEF Fresh
  <1>11. KeepsNumbers  BY <1>1 DEF KeepsNumbers, handled, worldVars, amazonVars
  <1>12. UNCHANGED Requests  BY <1>11 DEF KeepsNumbers, Requests
  <1>13. \A r \in Requests : /\ Unacked(r)' <=> Unacked(r)
                             /\ AlreadySeen(r)' <=> AlreadySeen(r)
    BY <1>11 DEF KeepsNumbers, Unacked, AlreadySeen
  <1>14. \A r \in Requests : Waiting(r)' => Waiting(r) /\ r # m
    BY <1>1, <1>3, <1>5, <1>6 DEF Waiting, ToServer
  <1>15. \A r \in Requests : InHand(r)' <=> InHand(r) \/ r = m
    BY <1>10 DEF InHand
  <1>16. /\ \A n \in Nat : AckFor(n) \in ToSet(to_world') <=>
               AckFor(n) \in ToSet(to_world) \/ (m.kind \notin AmazonRequests /\ n = m.seq)
         /\ \A n \in Nat : AckFor(n) \in ToSet(to_amazon') <=>
               AckFor(n) \in ToSet(to_amazon) \/ (m.kind \in AmazonRequests /\ n = m.seq)
    <2>1. to_world \in Seq(ForWorld \cup Acks) /\ to_amazon \in Seq(ForAmazon \cup Acks)
      BY DEF UPSInv, ChannelInv
    <2>2. /\ ToSet(Append(to_world, AckFor(m.seq))) = ToSet(to_world) \cup {AckFor(m.seq)}
          /\ ToSet(Append(to_amazon, AckFor(m.seq))) = ToSet(to_amazon) \cup {AckFor(m.seq)}
      BY <2>1, Elements
    <2>3. \A n : AckFor(n) = AckFor(m.seq) <=> n = m.seq  BY DEF AckFor
    <2> QED BY <1>1, <2>2, <2>3
  <1>17. \A r \in Requests : Acked(r)' <=> Acked(r) \/ r = m
    <2> SUFFICES ASSUME NEW r \in Requests PROVE Acked(r)' <=> Acked(r) \/ r = m
      OBVIOUS
    <2>1. r.seq \in Nat  BY Sides
    <2>2. (r.kind \in AmazonRequests <=> m.kind \in AmazonRequests) /\ r.seq = m.seq <=> r = m
      BY <1>4, SameNumber DEF FlowInv
    <2> QED BY <1>16, <2>1, <2>2 DEF Acked, FromServer
  <1>18. \A r \in Requests : Pending(r)' <=> Pending(r)
    BY <1>7, <1>13, <1>15, <1>17 DEF Pending
  <1>19. \A r \in Requests : OneCopy(r)'
    BY <1>1, <1>13, <1>14, <1>15, <1>17, <1>18 DEF FlowInv, OneCopy
  <1>20. FreshInv'
    <2>1. \A v \in Workers : Fresh(v) => workers[v].msg # m  BY <1>7 DEF InHand
    <2>2. \A u, v \in Workers : Fresh(u)' /\ Fresh(v)' /\ workers'[u].msg = workers'[v].msg => u = v
      BY <1>10, <2>1 DEF FlowInv, FreshInv
    <2>3. ASSUME NEW v \in Workers, workers'[v].stage = "new"
          PROVE  (~AlreadySeen(workers[v].msg))'
      <3>1. v # w /\ workers'[v] = workers[v]  BY <1>10, <2>3
      <3>2. ~AlreadySeen(workers[v].msg)  BY <2>3, <3>1 DEF FlowInv, FreshInv
      <3> QED BY <1>11, <3>1, <3>2 DEF AlreadySeen, KeepsNumbers
    <2> QED BY <2>2, <2>3 DEF FreshInv
  <1>21. QueueInv'
    BY <1>1, <1>3, <1>5, <1>12 DEF FlowInv, QueueInv, Once, ToServer
  <1>22. RequestNumbers'  BY <1>11 DEF FlowInv, RequestNumbers, KeepsNumbers
  <1>23. KnownNumbers'
    <2>1. m.kind \in AmazonRequests => m \in amazon_issued  BY <1>4, Sides
    <2>2. m.kind \notin AmazonRequests => m \in world_issued  BY <1>4, Sides
    <2> QED BY <1>11, <1>16, <2>1, <2>2 DEF FlowInv, KnownNumbers, KeepsNumbers
  <1> QED BY <1>1, <1>12, <1>18, <1>19, <1>20, <1>21, <1>22, <1>23 DEF FlowInv, Progress

-----------------------------------------------------------------------------
(* The steps of the peers *)

\* A peer repeats only what is not underway.
LEMMA PeerSendFlow ==
  ASSUME UPSInv, FlowInv,
         NEW r0 \in Requests, Unacked(r0), ~Waiting(r0), ~Acked(r0), ~InHand(r0),
         KeepsNumbers, UNCHANGED <<m_tasks, workers, losses, repeats, to_world, to_amazon>>,
         IF r0.kind \in AmazonRequests
           THEN from_amazon' = Append(from_amazon, r0) /\ from_world' = from_world
           ELSE from_world' = Append(from_world, r0) /\ from_amazon' = from_amazon
  PROVE  FlowInv' /\ Progress
  <1>1. UNCHANGED Requests  BY DEF KeepsNumbers, Requests
  <1>2. /\ from_world \in Seq(world_issued \cup AcksOf(world_seen))
        /\ from_amazon \in Seq(amazon_issued \cup AcksOf(amazon_seen))
    BY DEF UPSInv, ChannelInv
  <1>3. /\ ToSet(Append(from_world, r0)) = ToSet(from_world) \cup {r0}
        /\ ToSet(Append(from_amazon, r0)) = ToSet(from_amazon) \cup {r0}
    BY <1>2, Elements
  <1>4. Once(from_world') /\ Once(from_amazon')
    <2>1. r0 \notin ToSet(ToServer(r0))  BY DEF Waiting
    <2>2. r0 \notin ToSet(from_world) => Once(Append(from_world, r0))
      BY <1>2, OnceOnly DEF FlowInv, QueueInv
    <2>3. r0 \notin ToSet(from_amazon) => Once(Append(from_amazon, r0))
      BY <1>2, OnceOnly DEF FlowInv, QueueInv
    <2> QED BY <2>1, <2>2, <2>3 DEF ToServer, FlowInv, QueueInv
  <1>5. \A r \in Requests : r \in ToSet(ToServer(r))' => r \in ToSet(ToServer(r)) \/ r = r0
    <2>1. /\ ToSet(from_world') \subseteq ToSet(from_world) \cup {r0}
          /\ ToSet(from_amazon') \subseteq ToSet(from_amazon) \cup {r0}
      BY <1>3
    <2> QED BY <2>1 DEF ToServer
  <1>6. QueueInv'
    BY <1>1, <1>4, <1>5 DEF FlowInv, QueueInv, Once, Waiting
  <1>7. \A r \in Requests : /\ Unacked(r)' <=> Unacked(r)
                            /\ AlreadySeen(r)' <=> AlreadySeen(r)
                            /\ Acked(r)' <=> Acked(r)
                            /\ InHand(r)' <=> InHand(r)
    BY DEF KeepsNumbers, Unacked, AlreadySeen, Acked, FromServer, InHand, Fresh
  <1>8. \A r \in Requests : Waiting(r)' => Waiting(r) \/ r = r0  BY <1>5 DEF Waiting
  <1>9. \A r \in Requests : Pending(r)' <=> Pending(r)  BY <1>7 DEF Pending
  <1>10. \A r \in Requests : OneCopy(r)'
    BY <1>7, <1>8, <1>9 DEF FlowInv, OneCopy
  <1>11. FreshInv' /\ RequestNumbers' /\ KnownNumbers'
    <2>1. FreshSame  BY DEF FreshSame, Fresh
    <2>2. FreshInv'  BY <2>1, SameFresh DEF FlowInv, KeepsNumbers
    <2> QED BY <2>2 DEF FlowInv, RequestNumbers, KnownNumbers, KeepsNumbers
  <1> QED BY <1>1, <1>6, <1>9, <1>10, <1>11 DEF FlowInv, Progress

LEMMA NotUnderway ==
  ASSUME UPSInv, NEW r \in Requests,
         ~MessageUnderway(r, ToServer(r), FromServer(r))
  PROVE  ~Waiting(r) /\ ~Acked(r) /\ ~InHand(r)
  <1>1. ~Waiting(r) /\ ~Acked(r)  BY DEF MessageUnderway, Waiting, Acked
  <1>2. ASSUME NEW w \in Workers, Fresh(w), workers[w].msg = r PROVE FALSE
    <2>1. workers[w] \in {Handling("acknowledged", r), Handling("new", r)}
      BY <1>2, FreshWorker DEF Fresh
    <2> QED BY <2>1 DEF MessageUnderway
  <1> QED BY <1>1, <1>2 DEF InHand

LEMMA WorldSendFlow ==
  ASSUME UPSInv, FlowInv, FewFaults', NEW r \in world_out, WorldSend(r)
  PROVE  FlowInv' /\ Progress
  <1>1. r \in Requests /\ r.kind \notin AmazonRequests /\ Unacked(r)
    <2>1. r \in world_issued  BY DEF UPSInv, PeerInv
    <2> QED BY <2>1, Sides DEF Requests, Unacked
  <1>2. repeats' # repeats + 1  BY DEF FewFaults, FlowInv
  <1>3. /\ ~MessageUnderway(r, from_world, to_world) /\ UNCHANGED repeats
        /\ from_world' = Append(from_world, r)
        /\ UNCHANGED <<serverVars, to_world, to_amazon, from_amazon, worldVars, amazonVars>>
    BY <1>2 DEF WorldSend, Repeating, Write
  <1>4. ~Waiting(r) /\ ~Acked(r) /\ ~InHand(r)
    BY <1>1, <1>3, NotUnderway DEF ToServer, FromServer
  <1>5. KeepsNumbers /\ UNCHANGED <<m_tasks, workers, losses>>
    BY <1>3 DEF KeepsNumbers, serverVars, handled, worldVars, amazonVars
  <1> QED BY <1>1, <1>3, <1>4, <1>5, PeerSendFlow

LEMMA AmazonSendFlow ==
  ASSUME UPSInv, FlowInv, FewFaults', NEW r \in amazon_out, AmazonSend(r)
  PROVE  FlowInv' /\ Progress
  <1>1. r \in Requests /\ r.kind \in AmazonRequests /\ Unacked(r)
    <2>1. r \in amazon_issued  BY DEF UPSInv, PeerInv
    <2> QED BY <2>1, Sides DEF Requests, Unacked
  <1>2. repeats' # repeats + 1  BY DEF FewFaults, FlowInv
  <1>3. /\ ~MessageUnderway(r, from_amazon, to_amazon) /\ UNCHANGED repeats
        /\ from_amazon' = Append(from_amazon, r)
        /\ UNCHANGED <<serverVars, to_world, to_amazon, from_world, worldVars, amazonVars>>
    BY <1>2 DEF AmazonSend, Repeating, Write
  <1>4. ~Waiting(r) /\ ~Acked(r) /\ ~InHand(r)
    BY <1>1, <1>3, NotUnderway DEF ToServer, FromServer
  <1>5. KeepsNumbers /\ UNCHANGED <<m_tasks, workers, losses>>
    BY <1>3 DEF KeepsNumbers, serverVars, handled, worldVars, amazonVars
  <1> QED BY <1>1, <1>3, <1>4, <1>5, PeerSendFlow

\* A peer that reads an acknowledgement forgets the request, which a worker has taken.
LEMMA ForgetFlow ==
  ASSUME UPSInv, FlowInv, NEW r0 \in Requests, Acked(r0),
         UNCHANGED <<m_tasks, workers, losses, repeats, from_world, from_amazon, recvs, recvs_amazon,
                     world_issued, amazon_issued, world_seq, amazon_seq>>,
         \A r \in Requests : Unacked(r)' <=> Unacked(r) /\ r # r0,
         \A r \in Requests : r # r0 => (Acked(r)' <=> Acked(r)),
         ToSet(to_world') \subseteq ToSet(to_world), ToSet(to_amazon') \subseteq ToSet(to_amazon)
  PROVE  FlowInv' /\ Progress
  <1>1. UNCHANGED Requests  BY DEF Requests
  <1>2. \A r \in Requests : /\ AlreadySeen(r)' <=> AlreadySeen(r)
                            /\ InHand(r)' <=> InHand(r)
                            /\ Waiting(r)' <=> Waiting(r)
    BY DEF AlreadySeen, InHand, Fresh, Waiting, ToServer
  <1>3. ~Waiting(r0)  BY DEF FlowInv, OneCopy
  <1>4. \A r \in Requests : Pending(r)' <=> Pending(r)
    BY <1>2 DEF Pending
  <1>5. \A r \in Requests : OneCopy(r)'
    BY <1>2, <1>3, <1>4 DEF FlowInv, OneCopy
  <1>6. QueueInv'  BY <1>1 DEF FlowInv, QueueInv, ToServer, Once
  <1>7. FreshInv'
    <2>1. FreshSame  BY DEF FreshSame, Fresh
    <2> QED BY <2>1, SameFresh DEF FlowInv
  <1>8. RequestNumbers' /\ KnownNumbers'  BY DEF FlowInv, RequestNumbers, KnownNumbers
  <1> QED BY <1>1, <1>4, <1>5, <1>6, <1>7, <1>8 DEF FlowInv, Progress

LEMMA WorldReadAckFlow ==
  ASSUME UPSInv, FlowInv, WorldReadAck
  PROVE  FlowInv' /\ Progress
  <1>0. PICK a : a = Head(to_world)  OBVIOUS
  <1>1. /\ to_world # <<>> /\ a.kind = "ack" /\ to_world' = Tail(to_world)
        /\ world_out' = {r \in world_out : r.seq # a.seq}
        /\ UNCHANGED <<m_tasks, workers, losses, repeats, from_world, from_amazon, recvs, recvs_amazon,
                       world_issued, amazon_issued, world_seq, amazon_seq, to_amazon, amazon_out>>
    BY <1>0 DEF WorldReadAck, serverVars, handled, amazonVars
  <1>2. to_world \in Seq(ForWorld \cup Acks)  BY DEF UPSInv, ChannelInv
  <1>3. ToSet(to_world) = {a} \cup ToSet(to_world') /\ a \in ForWorld \cup Acks
    BY <1>0, <1>1, <1>2, Elements
  <1>4. a.seq \in Nat /\ a = AckFor(a.seq)
    <2>1. a \in Acks  BY <1>1, <1>3 DEF ForWorld, ToWorldKinds
    <2> QED BY <2>1 DEF Acks, AckFor
  <1>5. PICK r0 \in world_issued : r0.seq = a.seq
    BY <1>3, <1>4 DEF FlowInv, KnownNumbers
  <1>6. r0 \in Requests /\ r0.kind \notin AmazonRequests /\ Acked(r0)
    BY <1>3, <1>4, <1>5, Sides DEF Requests, Acked, FromServer
  <1>7. ASSUME NEW r \in Requests
        PROVE  /\ Unacked(r)' <=> Unacked(r) /\ r # r0
               /\ r # r0 => (Acked(r)' <=> Acked(r))
    <2>1. r.kind \notin AmazonRequests => (r.seq = a.seq <=> r = r0)
      BY <1>5, <1>6, SameNumber DEF FlowInv
    <2>2. AckFor(r.seq) = a <=> r.seq = a.seq  BY <1>4 DEF AckFor
    <2>3. Unacked(r)' <=> Unacked(r) /\ r # r0
      BY <1>1, <1>6, <2>1 DEF Unacked
    <2>4. r # r0 => (Acked(r)' <=> Acked(r))
      BY <1>1, <1>3, <2>1, <2>2 DEF Acked, FromServer
    <2> QED BY <2>3, <2>4
  <1>8. ToSet(to_world') \subseteq ToSet(to_world) /\ ToSet(to_amazon') \subseteq ToSet(to_amazon)
    BY <1>1, <1>3
  <1> QED BY <1>1, <1>6, <1>7, <1>8, ForgetFlow

LEMMA AmazonReadAckFlow ==
  ASSUME UPSInv, FlowInv, AmazonReadAck
  PROVE  FlowInv' /\ Progress
  <1>0. PICK a : a = Head(to_amazon)  OBVIOUS
  <1>1. /\ to_amazon # <<>> /\ a.kind = "ack" /\ to_amazon' = Tail(to_amazon)
        /\ amazon_out' = {r \in amazon_out : r.seq # a.seq}
        /\ UNCHANGED <<m_tasks, workers, losses, repeats, from_world, from_amazon, recvs, recvs_amazon,
                       world_issued, amazon_issued, world_seq, amazon_seq, to_world, world_out>>
    BY <1>0 DEF AmazonReadAck, serverVars, handled, worldVars
  <1>2. to_amazon \in Seq(ForAmazon \cup Acks)  BY DEF UPSInv, ChannelInv
  <1>3. ToSet(to_amazon) = {a} \cup ToSet(to_amazon') /\ a \in ForAmazon \cup Acks
    BY <1>0, <1>1, <1>2, Elements
  <1>4. a.seq \in Nat /\ a = AckFor(a.seq)
    <2>1. a \in Acks  BY <1>1, <1>3 DEF ForAmazon, ToAmazonKinds
    <2> QED BY <2>1 DEF Acks, AckFor
  <1>5. PICK r0 \in amazon_issued : r0.seq = a.seq
    BY <1>3, <1>4 DEF FlowInv, KnownNumbers
  <1>6. r0 \in Requests /\ r0.kind \in AmazonRequests /\ Acked(r0)
    BY <1>3, <1>4, <1>5, Sides DEF Requests, Acked, FromServer
  <1>7. ASSUME NEW r \in Requests
        PROVE  /\ Unacked(r)' <=> Unacked(r) /\ r # r0
               /\ r # r0 => (Acked(r)' <=> Acked(r))
    <2>1. r.kind \in AmazonRequests => (r.seq = a.seq <=> r = r0)
      BY <1>5, <1>6, SameNumber DEF FlowInv
    <2>2. AckFor(r.seq) = a <=> r.seq = a.seq  BY <1>4 DEF AckFor
    <2>3. Unacked(r)' <=> Unacked(r) /\ r # r0
      BY <1>1, <1>6, <2>1 DEF Unacked
    <2>4. r # r0 => (Acked(r)' <=> Acked(r))
      BY <1>1, <1>3, <2>1, <2>2 DEF Acked, FromServer
    <2> QED BY <2>3, <2>4
  <1>8. ToSet(to_world') \subseteq ToSet(to_world) /\ ToSet(to_amazon') \subseteq ToSet(to_amazon)
    BY <1>1, <1>3
  <1> QED BY <1>1, <1>6, <1>7, <1>8, ForgetFlow

\* After the loss of a message by a peer nothing else is lost.
LEMMA PeerLosesFlow ==
  ASSUME UPSInv, FlowInv, FewFaults', PeerLoses
  PROVE  FlowInv' /\ Progress
  <1>1. /\ losses < MaxLoss /\ losses' = losses + 1
        /\ \/ to_world # <<>> /\ to_world' = Tail(to_world) /\ UNCHANGED to_amazon
           \/ to_amazon # <<>> /\ to_amazon' = Tail(to_amazon) /\ UNCHANGED to_world
        /\ KeepsNumbers
        /\ UNCHANGED <<m_tasks, workers, from_world, from_amazon, repeats>>
    BY DEF PeerLoses, DropCommand, KeepsNumbers, handled, worldVars, amazonVars
  <1>2. losses = 0 /\ losses' = 1
    <2>1. losses \in Nat /\ losses' <= 1  BY DEF FlowInv, FewFaults
    <2> QED BY <1>1, <2>1
  <1>3. ToSet(to_world') \subseteq ToSet(to_world) /\ ToSet(to_amazon') \subseteq ToSet(to_amazon)
    <2>1. to_world \in Seq(ForWorld \cup Acks) /\ to_amazon \in Seq(ForAmazon \cup Acks)
      BY DEF UPSInv, ChannelInv
    <2>2. to_world # <<>> => ToSet(to_world) = {Head(to_world)} \cup ToSet(Tail(to_world))
      BY <2>1, Elements
    <2>3. to_amazon # <<>> => ToSet(to_amazon) = {Head(to_amazon)} \cup ToSet(Tail(to_amazon))
      BY <2>1, Elements
    <2> QED BY <1>1, <2>2, <2>3
  <1>4. UNCHANGED Requests  BY <1>1 DEF Requests, KeepsNumbers
  <1>5. \A r \in Requests : /\ Unacked(r)' <=> Unacked(r)
                            /\ AlreadySeen(r)' <=> AlreadySeen(r)
                            /\ InHand(r)' <=> InHand(r)
                            /\ Waiting(r)' <=> Waiting(r)
    BY <1>1 DEF KeepsNumbers, Unacked, AlreadySeen, InHand, Fresh, Waiting, ToServer
  <1>6. \A r \in Requests : Acked(r)' => Acked(r)
    BY <1>3 DEF Acked, FromServer
  <1>7. \A r \in Requests : Pending(r)' <=> Pending(r)
    BY <1>2, <1>5, <1>6 DEF Pending, FlowInv, OneCopy
  <1>8. \A r \in Requests : OneCopy(r)'
    BY <1>2, <1>5, <1>6 DEF FlowInv, OneCopy
  <1>9. QueueInv'  BY <1>1, <1>4 DEF FlowInv, QueueInv, ToServer, Once
  <1>10. FreshInv'
    <2>1. FreshSame  BY <1>1 DEF FreshSame, Fresh
    <2> QED BY <1>1, <2>1, SameFresh DEF FlowInv, KeepsNumbers
  <1>11. RequestNumbers' /\ KnownNumbers'
    BY <1>1, <1>3 DEF FlowInv, RequestNumbers, KnownNumbers, KeepsNumbers
  <1> QED BY <1>1, <1>2, <1>4, <1>7, <1>8, <1>9, <1>10, <1>11 DEF FlowInv, Progress

\* A peer gives numbers to new requests: nobody has heard of them yet.
LEMMA NewRequestsFlow ==
  ASSUME UPSInv, FlowInv, RequestNumbers', AckSame, LossesGrow,
         UNCHANGED <<m_tasks, workers, recvs, recvs_amazon>>,
         from_world' = from_world \/ \E a \in Acks : from_world' = Append(from_world, a),
         from_amazon' = from_amazon \/ \E a \in Acks : from_amazon' = Append(from_amazon, a),
         world_issued \subseteq world_issued', amazon_issued \subseteq amazon_issued',
         \A r \in Requests : Unacked(r)' <=> Unacked(r),
         NEW A, Requests' = Requests \cup A, A \subseteq Message(WorldResponses \cup AmazonRequests),
         \A r \in A : /\ Unacked(r)'
                      /\ r.kind \in AmazonRequests => r.seq >= amazon_seq
                      /\ r.kind \notin AmazonRequests => r.seq >= world_seq
  PROVE  FlowInv' /\ Progress /\ \A r \in A : Pending(r)'
  <1>1. ASSUME NEW r \in A
        PROVE  r.kind # "ack" /\ r.seq \in Nat /\ r \notin Requests
    <2>1. r.kind # "ack" /\ r.seq \in Nat  BY DEF Message, WorldResponses, AmazonRequests
    <2>2. world_seq \in Nat /\ amazon_seq \in Nat  BY DEF UPSInv, PeerInv
    <2>3. ASSUME r \in Requests PROVE FALSE
      <3>1. CASE r.kind \in AmazonRequests
        <4>1. r.seq < amazon_seq  BY <2>3, <3>1, Sides DEF FlowInv, RequestNumbers
        <4> QED BY <2>1, <2>2, <3>1, <4>1
      <3>2. CASE r.kind \notin AmazonRequests
        <4>1. r.seq < world_seq  BY <2>3, <3>2, Sides DEF FlowInv, RequestNumbers
        <4> QED BY <2>1, <2>2, <3>2, <4>1
      <3> QED BY <3>1, <3>2
    <2> QED BY <2>1, <2>3
  <1>2. /\ from_world \in Seq(world_issued \cup AcksOf(world_seen))
        /\ from_amazon \in Seq(amazon_issued \cup AcksOf(amazon_seen))
        /\ m_tasks \in Seq(Requests \cup AcksOf(world_seen \cup amazon_seen))
    BY DEF UPSInv, ChannelInv, HandledInv
  <1>3. /\ ToSet(from_world') \subseteq ToSet(from_world) \cup Acks
        /\ ToSet(from_amazon') \subseteq ToSet(from_amazon) \cup Acks
        /\ Once(from_world') /\ Once(from_amazon')
    <2>1. \A a \in Acks : a.kind = "ack"  BY DEF Acks
    <2>2. \A a : /\ ToSet(Append(from_world, a)) = ToSet(from_world) \cup {a}
                 /\ ToSet(Append(from_amazon, a)) = ToSet(from_amazon) \cup {a}
      BY <1>2, Elements
    <2>3. \A a : a.kind = "ack" => Once(Append(from_world, a))
      BY <1>2, OnceOnly DEF FlowInv, QueueInv
    <2>4. \A a : a.kind = "ack" => Once(Append(from_amazon, a))
      BY <1>2, OnceOnly DEF FlowInv, QueueInv
    <2>5. ToSet(from_world') \subseteq ToSet(from_world) \cup Acks /\ Once(from_world')
      <3>1. Once(from_world)  BY DEF FlowInv, QueueInv
      <3>2. CASE from_world' = from_world  BY <3>1, <3>2
      <3>3. ASSUME NEW a \in Acks, from_world' = Append(from_world, a)
            PROVE  ToSet(from_world') \subseteq ToSet(from_world) \cup Acks /\ Once(from_world')
        BY <2>1, <2>2, <2>3, <3>3
      <3> QED BY <3>2, <3>3
    <2>6. ToSet(from_amazon') \subseteq ToSet(from_amazon) \cup Acks /\ Once(from_amazon')
      <3>1. Once(from_amazon)  BY DEF FlowInv, QueueInv
      <3>2. CASE from_amazon' = from_amazon  BY <3>1, <3>2
      <3>3. ASSUME NEW a \in Acks, from_amazon' = Append(from_amazon, a)
            PROVE  ToSet(from_amazon') \subseteq ToSet(from_amazon) \cup Acks /\ Once(from_amazon')
        BY <2>1, <2>2, <2>4, <3>3
      <3> QED BY <3>2, <3>3
    <2> QED BY <2>5, <2>6
  <1>4. \A m \in Acks : m.kind = "ack"  BY DEF Acks
  <1>5. \A r \in Requests : /\ AlreadySeen(r)' <=> AlreadySeen(r)
                            /\ InHand(r)' <=> InHand(r)
    BY DEF AlreadySeen, InHand, Fresh
  <1>6. \A r \in Requests : /\ Acked(r)' <=> Acked(r)
                            /\ r \in ToSet(ToServer(r))' => r \in ToSet(ToServer(r))
    <2> SUFFICES ASSUME NEW r \in Requests
                 PROVE  /\ Acked(r)' <=> Acked(r)
                        /\ r \in ToSet(ToServer(r))' => r \in ToSet(ToServer(r))
      OBVIOUS
    <2>1. r.seq \in Nat /\ r.kind # "ack"  BY Sides
    <2>2. r \notin Acks  BY <1>4, <2>1
    <2> QED BY <1>3, <2>1, <2>2 DEF AckSame, Acked, FromServer, ToServer
  <1>7. \A r \in Requests : Waiting(r)' => Waiting(r)  BY <1>6 DEF Waiting
  <1>8. \A r \in Requests : Same(r)  BY <1>5, <1>6, <1>7 DEF Same
  <1>9. losses' \in Nat /\ repeats' \in Nat  BY DEF LossesGrow
  <1>10. \A r \in Requests : OneCopy(r)' /\ (Pending(r)' <=> Pending(r))
    BY <1>8, SameCopy DEF FlowInv
  <1>11. ASSUME NEW r \in A
         PROVE  /\ ~Waiting(r)' /\ ~Acked(r)' /\ ~InHand(r)' /\ ~AlreadySeen(r)'
                /\ r \notin ToSet(ToServer(r))'
    <2>1. /\ \A m \in ToSet(from_world) : m \in world_issued \cup AcksOf(world_seen)
          /\ \A m \in ToSet(from_amazon) : m \in amazon_issued \cup AcksOf(amazon_seen)
          /\ \A m \in ToSet(m_tasks) : m \in Requests \cup AcksOf(world_seen \cup amazon_seen)
      BY <1>2, Elements
    <2>2. r \notin Acks /\ \A S : AcksOf(S) \subseteq Acks  BY <1>1, <1>4 DEF AcksOf
    <2>3. r \notin ToSet(from_world') /\ r \notin ToSet(from_amazon') /\ r \notin ToSet(m_tasks)
      BY <1>1, <1>3, <2>1, <2>2 DEF Requests
    <2>4. r \notin ToSet(ToServer(r))' /\ ~Waiting(r)'  BY <2>3 DEF Waiting, ToServer
    <2>5. ~InHand(r)'
      <3>1. \A w \in Workers : Fresh(w) => workers[w].msg \in Requests  BY FreshWorker
      <3> QED BY <1>1, <3>1 DEF InHand, Fresh
    <2>6. /\ r.kind \in AmazonRequests => \A q \in amazon_issued : q.seq # r.seq
          /\ r.kind \notin AmazonRequests => \A q \in world_issued : q.seq # r.seq
      <3>1. world_seq \in Nat /\ amazon_seq \in Nat /\ r.seq \in Nat
        BY <1>1 DEF UPSInv, PeerInv
      <3>2. /\ \A q \in world_issued : q.seq < world_seq /\ q.seq \in Nat
            /\ \A q \in amazon_issued : q.seq < amazon_seq /\ q.seq \in Nat
        BY Sides DEF FlowInv, RequestNumbers, Requests
      <3> QED BY <3>1, <3>2
    <2>7. ~AlreadySeen(r)'
      <3>1. /\ r.kind \in AmazonRequests => r.seq \notin recvs_amazon
            /\ r.kind \notin AmazonRequests => r.seq \notin recvs
        BY <2>6 DEF FlowInv, KnownNumbers
      <3> QED BY <3>1 DEF AlreadySeen
    <2>8. ~Acked(r)'
      <3>1. /\ r.kind \in AmazonRequests => AckFor(r.seq) \notin ToSet(to_amazon)
            /\ r.kind \notin AmazonRequests => AckFor(r.seq) \notin ToSet(to_world)
        BY <1>1, <2>6 DEF FlowInv, KnownNumbers
      <3>2. /\ r.kind \in AmazonRequests => AckFor(r.seq) \notin ToSet(to_amazon')
            /\ r.kind \notin AmazonRequests => AckFor(r.seq) \notin ToSet(to_world')
        BY <1>1, <3>1 DEF AckSame
      <3> QED BY <3>2 DEF Acked, FromServer
    <2> QED BY <2>4, <2>5, <2>7, <2>8
  <1>12. \A r \in A : Pending(r)'  BY <1>11 DEF Pending
  <1>13. \A r \in A : OneCopy(r)'  BY <1>11, <1>12 DEF OneCopy
  <1>14. QueueInv'
    BY <1>3, <1>6, <1>11 DEF FlowInv, QueueInv, Once
  <1>15. FreshInv'
    <2>1. FreshSame  BY DEF FreshSame, Fresh
    <2> QED BY <2>1, SameFresh DEF FlowInv
  <1>16. KnownNumbers'
    BY DEF FlowInv, KnownNumbers, AckSame
  <1> QED BY <1>9, <1>10, <1>12, <1>13, <1>14, <1>15, <1>16 DEF FlowInv, Progress

\* The answers of the world have numbers of their own.
LEMMA WorldNumbers ==
  ASSUME UPSInv, RequestNumbers, NEW c \in ForWorld,
         world_seq' = world_seq + Cardinality(WorldAnswers(c)),
         world_issued' = world_issued \cup WorldAnswers(c)
  PROVE  /\ \A r \in world_issued' : r.seq < world_seq'
         /\ \A q, r \in world_issued' : q.seq = r.seq => q = r
         /\ \A r \in WorldAnswers(c) : r.seq >= world_seq /\ r.kind \notin AmazonRequests
  <1> DEFINE answer(kind, n) == [kind |-> kind, item |-> c.item, truck |-> c.truck, seq |-> n]
  <1>1. world_seq \in Nat  BY DEF UPSInv, PeerInv
  <1>2. \A r \in world_issued : r.seq \in Nat /\ r.seq < world_seq
    BY Sides DEF RequestNumbers, Requests
  <1>3. \A k, n : answer(k, n).seq = n /\ answer(k, n).kind = k  OBVIOUS
  <1>4. CASE c.kind = "pickup"
    <2>1. WorldAnswers(c) = {answer("arrived", world_seq)}  BY <1>4 DEF WorldAnswers
    <2> HIDE DEF answer
    <2>2. Cardinality(WorldAnswers(c)) = 1  BY <2>1, FS_Singleton
    <2> QED BY <1>1, <1>2, <1>3, <2>1, <2>2 DEF RequestNumbers, AmazonRequests
  <1>5. CASE c.kind # "pickup"
    <2>1. WorldAnswers(c) = {answer("delivered", world_seq), answer("idle", world_seq + 1)}
      BY <1>5 DEF WorldAnswers
    <2> HIDE DEF answer
    <2>2. Cardinality(WorldAnswers(c)) = 2
      <3>1. /\ IsFiniteSet({answer("delivered", world_seq)})
            /\ Cardinality({answer("delivered", world_seq)}) = 1
        BY FS_Singleton
      <3>2. answer("idle", world_seq + 1) \notin {answer("delivered", world_seq)}
        BY <1>1, <1>3
      <3>3. WorldAnswers(c) = {answer("delivered", world_seq)} \cup {answer("idle", world_seq + 1)}
        BY <2>1
      <3> QED BY <3>1, <3>2, <3>3, FS_AddElement
    <2> QED BY <1>1, <1>2, <1>3, <2>1, <2>2 DEF RequestNumbers, AmazonRequests
  <1> QED BY <1>4, <1>5

\* Requests that are new are pending.
NewPending == \A r \in Requests' \ Requests : Pending(r)'

\* The acknowledgements are left when the first message, a command, is read.
LEMMA ReadCommand ==
  ASSUME NEW S, NEW chan \in Seq(S), chan # <<>>, Head(chan).kind # "ack"
  PROVE  /\ \A n \in Nat : AckFor(n) \in ToSet(Tail(chan)) <=> AckFor(n) \in ToSet(chan)
         /\ Head(chan) \in S
  <1>1. ToSet(chan) = {Head(chan)} \cup ToSet(Tail(chan))  BY Elements
  <1>2. \A n : AckFor(n) # Head(chan)  BY DEF AckFor
  <1>3. Head(chan) \in S  BY FirstOf
  <1> QED BY <1>1, <1>2, <1>3

LEMMA WorldReadCommandFlow ==
  ASSUME UPSInv, FlowInv, WorldReadCommand
  PROVE  FlowInv' /\ Progress /\ NewPending
  <1>0. PICK c : c = Head(to_world)  OBVIOUS
  <1>1. /\ to_world # <<>> /\ c.kind # "ack" /\ to_world' = Tail(to_world)
        /\ from_world' = Append(from_world, AckFor(c.seq))
        /\ UNCHANGED <<m_tasks, workers, losses, repeats, recvs, recvs_amazon, to_amazon, from_amazon,
                       amazon_seq, amazon_issued, amazon_out>>
        /\ \/ UNCHANGED <<world_seq, world_issued, world_out>>
           \/ /\ world_seq' = world_seq + Cardinality(WorldAnswers(c))
              /\ world_issued' = world_issued \cup WorldAnswers(c)
              /\ world_out' = world_out \cup WorldAnswers(c)
    BY <1>0 DEF WorldReadCommand, Write, serverVars, handled, amazonVars
  <1>2. to_world \in Seq(ForWorld \cup Acks)  BY DEF UPSInv, ChannelInv
  <1>3. /\ c \in ForWorld
        /\ \A n \in Nat : AckFor(n) \in ToSet(to_world') <=> AckFor(n) \in ToSet(to_world)
    BY <1>0, <1>1, <1>2, ReadCommand DEF Acks
  <1>4. AckSame /\ LossesGrow  BY <1>1, <1>3 DEF AckSame, LossesGrow, FlowInv
  <1>5. AckFor(c.seq) \in Acks
    BY <1>3, CommandTypes, AckTypes DEF UPSInv, ForWorld
  <1>6. CASE UNCHANGED <<world_seq, world_issued, world_out>>
    <2>0. PICK A : A = {}  OBVIOUS
    <2>1. RequestNumbers'  BY <1>1, <1>6 DEF FlowInv, RequestNumbers
    <2>2. Requests' = Requests \cup A /\ UNCHANGED <<world_issued, amazon_issued>>
      BY <1>1, <1>6, <2>0 DEF Requests
    <2>3. \A r \in Requests : Unacked(r)' <=> Unacked(r)  BY <1>1, <1>6 DEF Unacked
    <2>4. \E a \in Acks : from_world' = Append(from_world, a)  BY <1>1, <1>5
    <2>5. A \subseteq Message(WorldResponses \cup AmazonRequests) /\ \A r : r \notin A  BY <2>0
    <2>6. FlowInv' /\ Progress
      BY <1>1, <1>4, <2>1, <2>2, <2>3, <2>4, <2>5, NewRequestsFlow
    <2> QED BY <2>2, <2>5, <2>6 DEF NewPending
  <1>7. CASE /\ world_seq' = world_seq + Cardinality(WorldAnswers(c))
             /\ world_issued' = world_issued \cup WorldAnswers(c)
             /\ world_out' = world_out \cup WorldAnswers(c)
    <2> DEFINE A == WorldAnswers(c)
    <2>0. PICK B : B = WorldAnswers(c)  OBVIOUS
    <2>1. /\ \A r \in world_issued' : r.seq < world_seq'
          /\ \A q, r \in world_issued' : q.seq = r.seq => q = r
          /\ \A r \in B : r.seq >= world_seq /\ r.kind \notin AmazonRequests
      BY <1>3, <1>7, <2>0, WorldNumbers DEF FlowInv
    <2>2. RequestNumbers'  BY <1>1, <2>1 DEF FlowInv, RequestNumbers
    <2>3. Requests' = Requests \cup B  BY <1>1, <1>7, <2>0 DEF Requests
    <2>4. B \subseteq Message(WorldResponses \cup AmazonRequests)
      <3>1. B \subseteq Message(WorldResponses)  BY <1>3, <2>0, AnswersOfWorld
      <3> QED BY <3>1 DEF Message
    <2>5. \A r \in Requests : Unacked(r)' <=> Unacked(r)
      <3> SUFFICES ASSUME NEW r \in Requests, r.kind \notin AmazonRequests PROVE r \notin B
        BY <1>1, <1>7, <2>0 DEF Unacked
      <3>1. world_seq \in Nat /\ r.seq \in Nat /\ r.seq < world_seq
        BY Sides DEF UPSInv, PeerInv, FlowInv, RequestNumbers
      <3> QED BY <2>1, <3>1
    <2>6. \A r \in B : /\ Unacked(r)'
                       /\ r.kind \in AmazonRequests => r.seq >= amazon_seq
                       /\ r.kind \notin AmazonRequests => r.seq >= world_seq
      BY <1>7, <2>0, <2>1 DEF Unacked
    <2>7. world_issued \subseteq world_issued' /\ amazon_issued \subseteq amazon_issued'
      BY <1>1, <1>7
    <2>8. FlowInv' /\ Progress /\ \A r \in B : Pending(r)'
      BY <1>1, <1>4, <1>5, <2>2, <2>3, <2>4, <2>5, <2>6, <2>7, NewRequestsFlow
    <2> QED BY <2>3, <2>8 DEF NewPending
  <1> QED BY <1>1, <1>6, <1>7

\* Amazon says a package is loaded once more because a message was lost: that counts.
LEMMA AmazonIssuesFlow ==
  ASSUME UPSInv, FlowInv,
         \/ AmazonReadCommand
         \/ \E p \in Packages : AmazonRequest(p) \/ AmazonLoaded(p) \/ AmazonLoadedAgain(p)
  PROVE  FlowInv' /\ Progress /\ NewPending
  <1>1. /\ UNCHANGED <<m_tasks, workers, recvs, recvs_amazon, to_world, from_world,
                       world_seq, world_issued, world_out>>
        /\ LossesGrow
        /\ \/ UNCHANGED <<to_amazon, from_amazon>>
           \/ /\ to_amazon # <<>> /\ Head(to_amazon).kind # "ack"
              /\ to_amazon' = Tail(to_amazon)
              /\ from_amazon' = Append(from_amazon, AckFor(Head(to_amazon).seq))
    <2>1. losses \in Nat /\ repeats \in Nat  BY DEF FlowInv
    <2> QED BY <2>1 DEF AmazonReadCommand, AmazonRequest, AmazonLoaded, AmazonLoadedAgain, Write,
                        LossesGrow, serverVars, handled, sockets, worldVars
  <1>2. \/ UNCHANGED <<amazon_seq, amazon_issued, amazon_out>>
        \/ \E kind \in AmazonRequests, p \in Packages : AmazonIssues(kind, p)
    BY DEF AmazonReadCommand, AmazonRequest, AmazonLoaded, AmazonLoadedAgain, AmazonRequests
  <1>3. AckSame
    <2>1. to_amazon \in Seq(ForAmazon \cup Acks)  BY DEF UPSInv, ChannelInv
    <2>2. to_amazon # <<>> /\ Head(to_amazon).kind # "ack" => \A n \in Nat :
             AckFor(n) \in ToSet(Tail(to_amazon)) <=> AckFor(n) \in ToSet(to_amazon)
      BY <2>1, ReadCommand
    <2> QED BY <1>1, <2>2 DEF AckSame
  <1>4. from_amazon' = from_amazon \/ \E a \in Acks : from_amazon' = Append(from_amazon, a)
    <2>1. to_amazon \in Seq(ForAmazon \cup Acks)  BY DEF UPSInv, ChannelInv
    <2>2. ASSUME to_amazon # <<>>, Head(to_amazon).kind # "ack"
          PROVE  AckFor(Head(to_amazon).seq) \in Acks
      <3>1. Head(to_amazon) \in ForAmazon  BY <2>1, <2>2, FirstOf DEF Acks
      <3> QED BY <3>1, CommandTypes, AckTypes DEF UPSInv, ForAmazon
    <2> QED BY <1>1, <2>2
  <1>5. CASE UNCHANGED <<amazon_seq, amazon_issued, amazon_out>>
    <2>1. RequestNumbers'  BY <1>1, <1>5 DEF FlowInv, RequestNumbers
    <2>2. Requests' = Requests \cup {}  BY <1>1, <1>5 DEF Requests
    <2>3. \A r \in Requests : Unacked(r)' <=> Unacked(r)  BY <1>1, <1>5 DEF Unacked
    <2>4. world_issued \subseteq world_issued' /\ amazon_issued \subseteq amazon_issued'
      BY <1>1, <1>5
    <2>5. \A r \in {} : /\ Unacked(r)'
                        /\ r.kind \in AmazonRequests => r.seq >= amazon_seq
                        /\ r.kind \notin AmazonRequests => r.seq >= world_seq
      OBVIOUS
    <2>6. {} \subseteq Message(WorldResponses \cup AmazonRequests)  OBVIOUS
    <2>7. FlowInv' /\ Progress
      BY <1>1, <1>3, <1>4, <2>1, <2>2, <2>3, <2>4, <2>5, <2>6, NewRequestsFlow
    <2> QED BY <2>2, <2>7 DEF NewPending
  <1>6. CASE \E kind \in AmazonRequests, p \in Packages : AmazonIssues(kind, p)
    <2>0. PICK kind \in AmazonRequests, p \in Packages : AmazonIssues(kind, p)  BY <1>6
    <2>1. PICK r0 : r0 = AmazonCommand(kind, p)  OBVIOUS
    <2>2. /\ amazon_seq' = amazon_seq + 1
          /\ amazon_issued' = amazon_issued \cup {r0} /\ amazon_out' = amazon_out \cup {r0}
      BY <2>0, <2>1 DEF AmazonIssues
    <2>3. amazon_seq \in Nat /\ r0.seq = amazon_seq /\ r0.kind \in AmazonRequests
      BY <2>1 DEF AmazonCommand, UPSInv, PeerInv
    <2>4. \A r \in amazon_issued : r.seq \in Nat /\ r.seq < amazon_seq
      BY Sides DEF FlowInv, RequestNumbers, Requests
    <2>5. RequestNumbers'
      <3>1. \A r \in amazon_issued' : r.seq < amazon_seq'  BY <2>2, <2>3, <2>4
      <3>2. \A q, r \in amazon_issued' : q.seq = r.seq => q = r
        <4>1. \A q \in amazon_issued : q.seq # r0.seq  BY <2>3, <2>4
        <4> QED BY <2>2, <4>1 DEF FlowInv, RequestNumbers
      <3> QED BY <1>1, <3>1, <3>2 DEF FlowInv, RequestNumbers
    <2>6. Requests' = Requests \cup {r0}  BY <1>1, <2>2 DEF Requests
    <2>7. {r0} \subseteq Message(WorldResponses \cup AmazonRequests)
      BY <2>1, <2>3 DEF AmazonCommand, Message
    <2>8. \A r \in Requests : Unacked(r)' <=> Unacked(r)
      <3> SUFFICES ASSUME NEW r \in Requests, r.kind \in AmazonRequests PROVE r # r0
        BY <1>1, <2>2 DEF Unacked
      <3> QED BY <2>3, <2>4, Sides
    <2>9. \A r \in {r0} : /\ Unacked(r)'
                          /\ r.kind \in AmazonRequests => r.seq >= amazon_seq
                          /\ r.kind \notin AmazonRequests => r.seq >= world_seq
      BY <2>2, <2>3 DEF Unacked
    <2>10. world_issued \subseteq world_issued' /\ amazon_issued \subseteq amazon_issued'
      BY <1>1, <2>2
    <2>11. FlowInv' /\ Progress /\ \A r \in {r0} : Pending(r)'
      BY <1>1, <1>3, <1>4, <2>5, <2>6, <2>7, <2>8, <2>9, <2>10, NewRequestsFlow
    <2> QED BY <2>6, <2>11 DEF NewPending
  <1> QED BY <1>2, <1>5, <1>6

-----------------------------------------------------------------------------
(* Every step *)

LEMMA InitFlow == Init => FlowInv
  <1> SUFFICES ASSUME Init PROVE FlowInv  OBVIOUS
  <1>1. Requests = {} /\ world_issued = {} /\ amazon_issued = {}
    BY DEF Init, Requests
  <1>2. \A w \in Workers : ~Fresh(w)  BY DEF Init, InitServer, Fresh, Idle
  <1>3. FreshInv  BY <1>2 DEF FreshInv, Fresh
  <1>4. /\ from_world = <<>> /\ from_amazon = <<>> /\ m_tasks = <<>> /\ to_world = <<>>
        /\ to_amazon = <<>> /\ recvs = {} /\ recvs_amazon = {} /\ losses = 0 /\ repeats = 0
    BY DEF Init, InitServer
  <1>5. Len(<<>>) = 0 /\ ToSet(<<>>) = {}  BY DEF ToSet
  <1>6. QueueInv  BY <1>1, <1>4, <1>5 DEF QueueInv, Once
  <1>7. RequestNumbers /\ KnownNumbers
    BY <1>1, <1>4, <1>5 DEF RequestNumbers, KnownNumbers
  <1> QED BY <1>1, <1>3, <1>4, <1>6, <1>7 DEF FlowInv

LEMMA FlowStep ==
  ASSUME UPSInv, FlowInv, FewFaults', [Next]_vars
  PROVE  FlowInv' /\ Progress /\ NewPending
  <1>0. ASSUME UNCHANGED <<worldVars, amazonVars>> PROVE NewPending
    BY <1>0 DEF NewPending, Requests, worldVars, amazonVars
  <1>1. CASE MainStep  BY <1>0, <1>1, ReceiveFlow DEF MainStep
  <1>2. CASE TakeStep
    BY <1>0, <1>2, TakeAckFlow, TakeRequestFlow DEF TakeStep, TakeTask
  <1>3. CASE PoolStep \/ CommandStep
    <2>1. ASSUME NEW w \in Workers, Worker(w), UNCHANGED <<worldVars, amazonVars, repeats>>
          PROVE  FlowInv' /\ Progress /\ NewPending
      <3>1. FindNumber(w) \/ InsertNumber(w) \/ Handler(w)  BY <2>1 DEF Worker, Handler
      <3> QED BY <1>0, <2>1, <3>1, FindNumberFlow, InsertNumberFlow, HandlerFlow
    <2>2. ASSUME NEW w \in Workers, Send(w) PROVE FlowInv' /\ Progress /\ NewPending
      BY <1>0, <2>2, SendFlow DEF Send
    <2> QED BY <1>3, <2>1, <2>2 DEF PoolStep, CommandStep
  <1>4. CASE WorldReads \/ WorldStep
    <2>1. CASE WorldReadCommand  BY <2>1, WorldReadCommandFlow
    <2>2. CASE WorldReadAck
      BY <2>2, WorldReadAckFlow DEF WorldReadAck, NewPending, Requests, amazonVars
    <2>3. ASSUME NEW r \in world_out, WorldSend(r) PROVE FlowInv' /\ Progress /\ NewPending
      BY <1>0, <2>3, WorldSendFlow DEF WorldSend
    <2> QED BY <1>4, <2>1, <2>2, <2>3 DEF WorldReads, WorldStep
  <1>5. CASE AmazonReads \/ AmazonStep \/ AmazonRepeats
    <2>1. CASE \/ AmazonReadCommand
               \/ \E p \in Packages : AmazonRequest(p) \/ AmazonLoaded(p) \/ AmazonLoadedAgain(p)
      BY <2>1, AmazonIssuesFlow
    <2>2. CASE AmazonReadAck
      BY <2>2, AmazonReadAckFlow DEF AmazonReadAck, NewPending, Requests, worldVars
    <2>3. ASSUME NEW r \in amazon_out, AmazonSend(r) PROVE FlowInv' /\ Progress /\ NewPending
      BY <1>0, <2>3, AmazonSendFlow DEF AmazonSend
    <2> QED BY <1>5, <2>1, <2>2, <2>3 DEF AmazonReads, AmazonStep, AmazonRepeats
  <1>6. CASE PeerLoses
    BY <1>0, <1>6, PeerLosesFlow DEF PeerLoses
  <1>7. CASE UNCHANGED vars
    <2>1. /\ KeepsNumbers /\ FreshSame /\ AckSame /\ LossesGrow
          /\ UNCHANGED <<m_tasks, from_world, from_amazon, worldVars, amazonVars>>
      BY <1>7 DEF vars, serverVars, sockets, handled, KeepsNumbers, FreshSame, Fresh, AckSame,
                  LossesGrow, FlowInv, worldVars, amazonVars
    <2> QED BY <1>0, <2>1, QuietFlow
  <1> QED BY <1>1, <1>2, <1>3, <1>4, <1>5, <1>6, <1>7 DEF Next


-----------------------------------------------------------------------------
(* Faults are never undone *)

LEMMA FaultsGrow ==
  ASSUME Counted, [Next]_vars
  PROVE  Counted' /\ losses <= losses' /\ repeats <= repeats'
  <1> DEFINE Grow == Counted' /\ losses <= losses' /\ repeats <= repeats'
  <1>1. CASE UNCHANGED <<losses, repeats>>  BY <1>1 DEF Counted
  <1>2. CASE MainStep
    <2>1. UNCHANGED repeats  BY <1>2 DEF MainStep
    <2>2. \E n \in Nat : losses' = losses + n
      BY <1>2 DEF MainStep, MainThread, ReceiveFromWorld, ReceiveFromAmazon, recvMesgFrom
    <2> QED BY <2>1, <2>2 DEF Counted
  <1>3. ASSUME UNCHANGED repeats, losses' \in {losses, losses + 1} PROVE Grow
    BY <1>3 DEF Counted
  <1>4. ASSUME UNCHANGED losses, repeats' \in {repeats, repeats + 1} PROVE Grow
    BY <1>4 DEF Counted
  <1>5. CASE TakeStep
    BY <1>3, <1>5 DEF TakeStep, TakeTask, TakeAck, TakeRequest, Insert
  <1>6. CASE PoolStep \/ CommandStep
    <2>1. ASSUME NEW w \in Workers, FindNumber(w) \/ InsertNumber(w), UNCHANGED repeats PROVE Grow
      BY <1>3, <2>1 DEF FindNumber, InsertNumber, Insert
    <2>2. ASSUME NEW w \in Workers, Handler(w), UNCHANGED repeats PROVE Grow
      <3>1. UNCHANGED losses  BY <2>2, HandlerKeeps
      <3> QED BY <1>3, <2>2, <3>1
    <2>3. ASSUME NEW w \in Workers, Send(w) PROVE Grow
      BY <1>4, <2>3 DEF Send, SendCommand, serverVars, Repeating
    <2>4. ASSUME NEW w \in Workers, Worker(w) PROVE FindNumber(w) \/ InsertNumber(w) \/ Handler(w)
      BY <2>4 DEF Worker, Handler
    <2> QED BY <1>6, <2>1, <2>2, <2>3, <2>4 DEF PoolStep, CommandStep
  <1>7. CASE WorldReads \/ WorldStep
    BY <1>4, <1>7 DEF WorldReads, WorldStep, WorldReadCommand, WorldReadAck, WorldSend, serverVars,
                      Repeating
  <1>8. CASE AmazonReads \/ AmazonStep \/ AmazonRepeats
    <2>1. CASE AmazonReads \/ AmazonStep
      BY <1>4, <2>1 DEF AmazonReads, AmazonStep, AmazonRequest, AmazonReadCommand, AmazonLoaded,
                        AmazonReadAck, AmazonSend, serverVars, Repeating
    <2>2. CASE AmazonRepeats  BY <1>3, <2>2 DEF AmazonRepeats, AmazonLoadedAgain
    <2> QED BY <1>8, <2>1, <2>2
  <1>9. CASE PeerLoses  BY <1>3, <1>9 DEF PeerLoses, DropCommand
  <1>10. CASE UNCHANGED vars  BY <1>1, <1>10 DEF vars, serverVars
  <1> QED BY <1>2, <1>5, <1>6, <1>7, <1>8, <1>9, <1>10 DEF Next, Counted

\* Where few faults are left after a step there were few before it.
LEMMA FewBefore ==
  ASSUME Counted, [Next]_vars
  PROVE  Counted' /\ (FewFaults' => FewFaults)
  BY FaultsGrow DEF Counted, FewFaults

=============================================================================
