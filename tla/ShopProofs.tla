------------------------------ MODULE ShopProofs ------------------------------
(***************************************************************************)
(* Orders and carts for every set of products and of requests, and for     *)
(* every bound.                                                            *)
(***************************************************************************)
EXTENDS Shop, FiniteSetTheorems, WellFoundedInduction, TLAPS

Storing(r) == requests[r].stage \in {"items", "sent"}

\* The row of an order in the making, or sent, has the quantities of its cart for all
\* products that are stored and not deleted.
StoredInv ==
  /\ \A r \in Requests : Storing(r) =>
       \A p \in catalogue : p \notin requests[r].left =>
         orders[requests[r].order].items[p] = requests[r].cart.items[p]
  /\ \A t \in sent : \A p \in catalogue : orders[t.order].items[p] = t.cart.items[p]

\* An order belongs to one request, which has nothing left when the order was sent.
OwnerInv ==
  /\ \A r, s \in Requests :
       Storing(r) /\ Storing(s) /\ requests[r].order = requests[s].order => r = s
  /\ \A r \in Requests, t \in sent :
       Storing(r) /\ t.order = requests[r].order => requests[r].left = {}
  /\ \A r \in Requests : requests[r].stage = "sent" => requests[r].left = {}

\* The server knows only orders that were sent.
ServerInv ==
  /\ \A c \in accepted : \E t \in sent : t.order = c.order /\ t.cart.items = c.items
  /\ \A b \in bought : \E t \in sent : t.order = b.order /\ t.cart.items = b.items
  /\ \A o \in packing : orders[o].status = "packing" /\ \E t \in sent : t.order = o

\* As long as no two requests overlap, the number of a cart that was sent is lower
\* than that of the cart in the session, except between sending and clearing.
CartInv ==
  ~overlapped =>
    /\ session.no = clears
    /\ \A r, s \in Requests : requests[r] # Idle /\ requests[s] # Idle => r = s
    /\ \A r \in Requests : requests[r] # Idle => requests[r].cart.no = clears
    /\ \A t \in sent : \/ t.cart.no < clears
                       \/ \E r \in Requests : requests[r].stage = "sent" /\ t.cart.no = clears
    /\ \A t, u \in sent : t.cart.no = u.cart.no => t = u

ShopInv == ShopTypeOK /\ StoredInv /\ OwnerInv /\ ServerInv /\ CartInv

LEMMA AppendOrder ==
  ASSUME NEW S, NEW s \in Seq(S), NEW x \in S
  PROVE  /\ Append(s, x) \in Seq(S) /\ Len(s) \in Nat /\ Len(Append(s, x)) = Len(s) + 1
         /\ \A i \in 1 .. Len(s) : Append(s, x)[i] = s[i]
         /\ Append(s, x)[Len(s) + 1] = x
  OBVIOUS

LEMMA ReplaceOrder ==
  ASSUME NEW S, NEW s \in Seq(S), NEW i \in 1 .. Len(s), NEW x \in S
  PROVE  /\ [s EXCEPT ![i] = x] \in Seq(S) /\ Len([s EXCEPT ![i] = x]) = Len(s)
         /\ \A j \in 1 .. Len(s) : [s EXCEPT ![i] = x][j] = IF j = i THEN x ELSE s[j]
  OBVIOUS

LEMMA EachOrder ==
  ASSUME NEW S, NEW n \in Nat, NEW f, f = [i \in 1 .. n |-> f[i]], \A i \in 1 .. n : f[i] \in S
  PROVE  f \in Seq(S) /\ Len(f) = n
  OBVIOUS

Order == [status : {"ordered", "packing"}, items : Quantities]

LEMMA AtIndex ==
  ASSUME NEW S, NEW s \in Seq(S)
  PROVE  Len(s) \in Nat /\ \A i \in 1 .. Len(s) : s[i] \in S
  OBVIOUS

LEMMA OrderAt ==
  ASSUME ShopTypeOK
  PROVE  /\ orders \in Seq(Order) /\ Len(orders) \in Nat
         /\ \A o \in 1 .. Len(orders) : orders[o] \in Order
  <1>1. orders \in Seq(Order)  BY DEF ShopTypeOK, Order
  <1> QED BY <1>1, AtIndex

\* A request that stores an order has the fields for it.
LEMMA StoringFields ==
  ASSUME ShopTypeOK, NEW r \in Requests
  PROVE  /\ Storing(r) => requests[r] \in Ordering
         /\ requests[r].stage = "order" => requests[r] \in Loaded
         /\ requests[r] # Idle => requests[r].cart \in Cart
         /\ Storing(r) => requests[r] # Idle
  <1>1. requests[r] \in {Idle} \cup Loaded \cup Ordering  BY DEF ShopTypeOK
  <1>2. Idle.stage = "idle"  BY DEF Idle
  <1>3. CASE requests[r] = Idle  BY <1>2, <1>3 DEF Storing
  <1>4. CASE requests[r] \in Loaded
    <2>1. requests[r].stage \in {"detail", "change", "order"} /\ requests[r].cart \in Cart
      BY <1>4 DEF Loaded
    <2> QED BY <1>4, <2>1 DEF Storing
  <1>5. CASE requests[r] \in Ordering
    <2>1. requests[r].stage \in {"items", "sent"} /\ requests[r].cart \in Cart
      BY <1>5 DEF Ordering
    <2> QED BY <1>2, <1>5, <2>1 DEF Storing
  <1> QED BY <1>1, <1>3, <1>4, <1>5

LEMMA InitShop == InitSite => ShopInv
  <1> SUFFICES ASSUME InitSite PROVE ShopInv
    OBVIOUS
  <1> USE ShopAssumption DEF InitSite
  <1>1. Empty \in Quantities  BY DEF Empty, Quantities
  <1>2. session \in Cart  BY <1>1 DEF Cart
  <1>3. Len(orders) = 0 /\ orders \in Seq(Order)  OBVIOUS
  <1>4. \A r \in Requests : requests[r] = Idle  OBVIOUS
  <1>5. requests \in [Requests -> {Idle} \cup Loaded \cup Ordering]  OBVIOUS
  <1>6. ShopTypeOK
    <2>1. loads \in 0 .. MaxLoads /\ clears \in Nat  OBVIOUS
    <2>2. /\ sent \subseteq [order : 1 .. Len(orders), cart : Cart]
          /\ accepted \subseteq [order : 1 .. Len(orders), items : Quantities]
          /\ packing \subseteq 1 .. Len(orders)
          /\ \A b \in bought : b.order \in 1 .. Len(orders) /\ b.items \in Quantities
      OBVIOUS
    <2>3. orders \in Seq([status : {"ordered", "packing"}, items : Quantities])
      BY <1>3 DEF Order
    <2>4. catalogue \subseteq Products  OBVIOUS
    <2>5. overlapped \in BOOLEAN  OBVIOUS
    <2> QED BY <1>2, <1>5, <2>1, <2>2, <2>3, <2>4, <2>5 DEF ShopTypeOK
  <1>7. StoredInv /\ OwnerInv /\ ServerInv
    BY <1>4 DEF StoredInv, OwnerInv, ServerInv, Storing, Idle
  <1>8. CartInv  BY <1>4 DEF CartInv
  <1> QED BY <1>6, <1>7, <1>8 DEF ShopInv

\* What a step does to the orders, and what it leaves of them.
LEMMA SameOrders ==
  ASSUME ShopInv, UNCHANGED <<catalogue, orders, sent>>,
         \A r \in Requests : Storing(r)' => requests'[r] = requests[r]
  PROVE  StoredInv' /\ OwnerInv'
  <1>1. \A r \in Requests : requests'[r].stage = "sent" => Storing(r)'  BY DEF Storing
  <1>2. \A r \in Requests : Storing(r)' => Storing(r)  BY DEF Storing
  <1> QED BY <1>1, <1>2 DEF ShopInv, StoredInv, OwnerInv

LEMMA LoadStep ==
  ASSUME ShopInv, NEW r \in Requests, NEW kind \in {"detail", "change", "order"}, Load(r, kind)
  PROVE  ShopInv'
  <1> DEFINE new == [stage |-> kind, cart |-> session]
  <1>1. requests \in [Requests -> {Idle} \cup Loaded \cup Ordering]
    BY DEF ShopInv, ShopTypeOK
  <1>2. /\ requests' = [requests EXCEPT ![r] = new] /\ requests[r] = Idle
        /\ UNCHANGED <<catalogue, session, clears, orders, accepted, bought, packing, sent>>
        /\ loads < MaxLoads /\ loads' = loads + 1
        /\ overlapped' = (overlapped \/ \E s \in Requests : requests[s] # Idle)
    BY DEF Load, serverVars
  <1>3. \A s \in Requests : requests'[s] = IF s = r THEN new ELSE requests[s]
    BY <1>1, <1>2
  <1>4. ShopTypeOK'
    <2>1. new \in Loaded  BY DEF ShopInv, ShopTypeOK, Loaded
    <2>2. requests' \in [Requests -> {Idle} \cup Loaded \cup Ordering]  BY <1>1, <1>2, <2>1
    <2>3. Ordering' = Ordering  BY <1>2 DEF Ordering
    <2>4. loads' \in 0 .. MaxLoads  BY <1>2, ShopAssumption DEF ShopInv, ShopTypeOK
    <2> QED BY <1>2, <2>2, <2>3, <2>4 DEF ShopInv, ShopTypeOK
  <1>5. \A s \in Requests : Storing(s)' => s # r /\ Storing(s)  BY <1>3 DEF Storing
  <1>6. StoredInv' /\ OwnerInv'  BY <1>2, <1>3, <1>5, SameOrders
  <1>7. ServerInv'  BY <1>2 DEF ShopInv, ServerInv
  <1>8. CartInv'
    <2> SUFFICES ASSUME ~overlapped' PROVE CartInv'
      BY DEF CartInv
    <2>1. ~overlapped /\ \A s \in Requests : requests[s] = Idle  BY <1>2
    <2>2. \A s \in Requests : requests[s].stage # "sent"  BY <2>1 DEF Idle
    <2>3. \A t \in sent : t.cart.no < clears  BY <2>1, <2>2 DEF ShopInv, CartInv
    <2>4. session.no = clears /\ \A t, u \in sent : t.cart.no = u.cart.no => t = u
      BY <2>1 DEF ShopInv, CartInv
    <2> QED BY <1>2, <1>3, <2>1, <2>3, <2>4 DEF CartInv
  <1> QED BY <1>4, <1>6, <1>7, <1>8 DEF ShopInv

\* The requests that change or show the cart end with a cart of the same number.
LEMMA CartStep ==
  ASSUME ShopInv, NEW r \in Requests, cart_change(r) \/ cart_detail(r)
  PROVE  ShopInv'
  <1>1. requests \in [Requests -> {Idle} \cup Loaded \cup Ordering]
    BY DEF ShopInv, ShopTypeOK
  <1>2. /\ requests' = [requests EXCEPT ![r] = Idle] /\ requests[r].stage \in {"change", "detail"}
        /\ UNCHANGED <<catalogue, clears, orders, accepted, bought, packing, sent, overlapped, loads>>
    BY DEF cart_change, cart_detail, Finish, serverVars
  <1>3. \A s \in Requests : requests'[s] = IF s = r THEN Idle ELSE requests[s]
    BY <1>1, <1>2
  <1>4. requests[r] # Idle  BY <1>2 DEF Idle
  <1>5. requests[r].cart \in Cart  BY <1>4, StoringFields DEF ShopInv
  <1>6. session' \in Cart /\ session'.no \in {session.no, requests[r].cart.no}
    <2>1. CASE cart_change(r)
      <3>1. PICK p \in catalogue, n \in 1 .. MaxQuantity :
              session' \in {Add(requests[r].cart, p, n), Update(requests[r].cart, p, n),
                            Update(requests[r].cart, p, 0)}
        BY <2>1 DEF cart_change
      <3>2. session' \in Cart  BY <2>1 DEF cart_change
      <3>3. session'.no = requests[r].cart.no  BY <1>5, <3>1 DEF Add, Update, Cart
      <3> QED BY <3>2, <3>3
    <2>2. CASE cart_detail(r)  BY <1>5, <2>2 DEF cart_detail, ShopInv, ShopTypeOK
    <2> QED BY <2>1, <2>2
  <1>7. ShopTypeOK'
    <2>1. requests' \in [Requests -> {Idle} \cup Loaded \cup Ordering]  BY <1>1, <1>2
    <2>2. Ordering' = Ordering  BY <1>2 DEF Ordering
    <2> QED BY <1>2, <1>6, <2>1, <2>2 DEF ShopInv, ShopTypeOK
  <1>8. \A s \in Requests : Storing(s)' => s # r /\ Storing(s)  BY <1>3 DEF Storing, Idle
  <1>9. StoredInv' /\ OwnerInv'  BY <1>2, <1>3, <1>8, SameOrders
  <1>10. ServerInv'  BY <1>2 DEF ShopInv, ServerInv
  <1>11. CartInv'
    <2> SUFFICES ASSUME ~overlapped' PROVE CartInv'
      BY DEF CartInv
    <2>1. ~overlapped  BY <1>2
    <2>2. session.no = clears /\ requests[r].cart.no = clears
      BY <1>4, <2>1 DEF ShopInv, CartInv
    <2>3. \A s \in Requests : requests[s].stage = "sent" => s # r  BY <1>2
    <2> QED BY <1>2, <1>3, <1>6, <2>1, <2>2, <2>3 DEF ShopInv, CartInv
  <1> QED BY <1>7, <1>9, <1>10, <1>11 DEF ShopInv

\* What follows from the invariant about the indices of orders.
LEMMA Indices ==
  ASSUME ShopTypeOK
  PROVE  /\ Len(orders) \in Nat
         /\ \A r \in Requests : Storing(r) => requests[r].order \in 1 .. Len(orders)
                                              /\ requests[r].left \subseteq Products
         /\ \A t \in sent : t.order \in 1 .. Len(orders) /\ t.cart \in Cart
         /\ \A c \in accepted : c.order \in 1 .. Len(orders) /\ c.items \in Quantities
         /\ packing \subseteq 1 .. Len(orders)
  <1>1. Len(orders) \in Nat  BY OrderAt
  <1>2. \A r \in Requests : Storing(r) => requests[r].order \in 1 .. Len(orders)
                                          /\ requests[r].left \subseteq Products
    BY StoringFields DEF Ordering
  <1>3. \A t \in sent : t.order \in 1 .. Len(orders) /\ t.cart \in Cart
    BY DEF ShopTypeOK
  <1>4. \A c \in accepted : c.order \in 1 .. Len(orders) /\ c.items \in Quantities
    BY DEF ShopTypeOK
  <1> QED BY <1>1, <1>2, <1>3, <1>4 DEF ShopTypeOK

LEMMA SaveOrderStep ==
  ASSUME ShopInv, NEW r \in Requests, SaveOrder(r)
  PROVE  ShopInv'
  <1> DEFINE cart == requests[r].cart
             o == Len(orders) + 1
             new == [stage |-> "items", cart |-> cart, order |-> o, left |-> In(cart.items)]
  <1>1. requests \in [Requests -> {Idle} \cup Loaded \cup Ordering] /\ ShopTypeOK
    BY DEF ShopInv, ShopTypeOK
  <1>2. /\ requests' = [requests EXCEPT ![r] = new] /\ requests[r].stage = "order"
        /\ orders' = Append(orders, [status |-> "ordered", items |-> Empty])
        /\ UNCHANGED <<catalogue, session, clears, accepted, bought, packing, sent,
                       overlapped, loads>>
    BY DEF SaveOrder, serverVars, sessionVars
  <1>3. \A s \in Requests : requests'[s] = IF s = r THEN new ELSE requests[s]
    BY <1>1, <1>2
  <1>4. /\ orders' \in Seq(Order) /\ Len(orders) \in Nat /\ Len(orders') = Len(orders) + 1
        /\ \A i \in 1 .. Len(orders) : orders'[i] = orders[i]
        /\ orders'[o].items = Empty
    <2>1. [status |-> "ordered", items |-> Empty] \in Order
      BY ShopAssumption DEF Order, Empty, Quantities
    <2> QED BY <1>1, <1>2, <2>1, OrderAt, AppendOrder
  <1>5. requests[r] # Idle /\ ~Storing(r)  BY <1>2 DEF Idle, Storing
  <1>6. cart \in Cart  BY <1>1, <1>5, StoringFields
  <1>7. 1 .. Len(orders) \subseteq 1 .. Len(orders')  BY <1>4
  <1>8. ShopTypeOK'
    <2>1. In(cart.items) \subseteq Products  BY DEF In
    <2>2. o \in 1 .. Len(orders')  BY <1>4
    <2>3. new \in Ordering'  BY <1>6, <2>1, <2>2 DEF Ordering, Cart, Quantities
    <2>4. Ordering \subseteq Ordering'  BY <1>7 DEF Ordering, Cart, Quantities
    <2>5. requests' \in [Requests -> {Idle} \cup Loaded \cup Ordering']
      BY <1>1, <1>2, <2>3, <2>4
    <2>6. /\ sent' \subseteq [order : 1 .. Len(orders'), cart : Cart]
          /\ accepted' \subseteq [order : 1 .. Len(orders'), items : Quantities]
          /\ packing' \subseteq 1 .. Len(orders')
          /\ \A b \in bought' : b.order \in 1 .. Len(orders') /\ b.items \in Quantities
      BY <1>1, <1>2, <1>7 DEF ShopTypeOK
    <2>7. orders' \in Seq([status : {"ordered", "packing"}, items : Quantities])
      BY <1>4 DEF Order
    <2> QED BY <1>1, <1>2, <2>5, <2>6, <2>7 DEF ShopTypeOK
  <1>9. \A s \in Requests : Storing(s)' => s = r \/ Storing(s)  BY <1>3 DEF Storing
  <1>10. StoredInv'
    <2>1. \A t \in sent, p \in catalogue : orders'[t.order].items[p] = t.cart.items[p]
      BY <1>1, <1>4, Indices DEF ShopInv, StoredInv
    <2>2. \A p \in catalogue : p \notin In(cart.items) => Empty[p] = cart.items[p]
      BY <1>1, <1>6, ShopAssumption DEF In, Empty, Cart, Quantities, ShopTypeOK
    <2>3. ASSUME NEW s \in Requests, Storing(s)', NEW p \in catalogue, p \notin requests'[s].left
          PROVE  orders'[requests'[s].order].items[p] = requests'[s].cart.items[p]
      <3>1. CASE s = r  BY <1>3, <1>4, <2>2, <2>3, <3>1
      <3>2. CASE s # r
        <4>1. requests'[s] = requests[s] /\ Storing(s)  BY <1>3, <1>9, <2>3, <3>2
        <4>2. requests[s].order \in 1 .. Len(orders)  BY <1>1, <4>1, Indices
        <4> QED BY <1>4, <2>3, <4>1, <4>2 DEF ShopInv, StoredInv
      <3> QED BY <3>1, <3>2
    <2> QED BY <1>2, <2>1, <2>3 DEF StoredInv
  <1>11. OwnerInv'
    <2>1. \A s \in Requests : s # r /\ Storing(s)' => requests'[s] = requests[s] /\ Storing(s)
      BY <1>3, <1>9
    <2>2. \A s \in Requests : Storing(s) => requests[s].order # o
      BY <1>1, <1>4, Indices
    <2>3. \A t \in sent : t.order # o  BY <1>1, <1>4, Indices
    <2>4. requests'[r].order = o  BY <1>3
    <2>5. \A s, t \in Requests :
            Storing(s)' /\ Storing(t)' /\ requests'[s].order = requests'[t].order => s = t
      BY <2>1, <2>2, <2>4 DEF ShopInv, OwnerInv
    <2>6. \A s \in Requests, t \in sent' :
            Storing(s)' /\ t.order = requests'[s].order => requests'[s].left = {}
      BY <1>2, <2>1, <2>3, <2>4 DEF ShopInv, OwnerInv
    <2>7. \A s \in Requests : requests'[s].stage = "sent" => requests'[s].left = {}
      BY <1>3 DEF ShopInv, OwnerInv
    <2> QED BY <2>5, <2>6, <2>7 DEF OwnerInv
  <1>12. ServerInv'  BY <1>1, <1>2, <1>4, Indices DEF ShopInv, ServerInv
  <1>13. CartInv'
    <2> SUFFICES ASSUME ~overlapped' PROVE CartInv'
      BY DEF CartInv
    <2>1. ~overlapped  BY <1>2
    <2>2. new # Idle /\ new.cart = cart /\ cart.no = clears
      BY <1>5, <2>1 DEF ShopInv, CartInv, Idle
    <2>3. \A s \in Requests : requests[s].stage = "sent" => s # r  BY <1>2
    <2> QED BY <1>2, <1>3, <1>5, <2>1, <2>2, <2>3 DEF ShopInv, CartInv
  <1> QED BY <1>8, <1>10, <1>11, <1>12, <1>13 DEF ShopInv

LEMMA StoreItemStep ==
  ASSUME ShopInv, NEW r \in Requests, NEW p \in Products, StoreItem(r, p)
  PROVE  ShopInv'
  <1> DEFINE o == requests[r].order
             n == requests[r].cart.items[p]
             row == [orders[o] EXCEPT !.status = "ordered", !.items[p] = n]
             new == [requests[r] EXCEPT !.left = @ \ {p}]
  <1>1. requests \in [Requests -> {Idle} \cup Loaded \cup Ordering] /\ ShopTypeOK
    BY DEF ShopInv, ShopTypeOK
  <1>2. /\ requests' = [requests EXCEPT ![r] = new] /\ Storing(r) /\ p \in requests[r].left
        /\ orders' = [orders EXCEPT ![o] = row] /\ p \in catalogue
        /\ UNCHANGED <<catalogue, session, clears, accepted, bought, packing, sent,
                       overlapped, loads>>
    BY DEF StoreItem, Left, Storing, serverVars, sessionVars
  <1>3. \A s \in Requests : requests'[s] = IF s = r THEN new ELSE requests[s]
    BY <1>1, <1>2
  <1>4. requests[r] \in Ordering /\ o \in 1 .. Len(orders) /\ orders[o] \in Order
    BY <1>1, <1>2, StoringFields, Indices, OrderAt
  <1>5. n \in 0 .. MaxQuantity  BY <1>4 DEF Ordering, Cart, Quantities
  <1>6. /\ new \in Ordering /\ new.order = o /\ new.cart = requests[r].cart
        /\ new.left = requests[r].left \ {p} /\ new.stage = requests[r].stage
    BY <1>4 DEF Ordering
  <1>7. /\ row \in Order /\ row.items[p] = n
        /\ \A q \in Products : q # p => row.items[q] = orders[o].items[q]
    <2>1. orders[o].items \in Quantities  BY <1>4 DEF Order
    <2>2. [orders[o].items EXCEPT ![p] = n] \in Quantities  BY <1>5, <2>1 DEF Quantities
    <2>3. row.items = [orders[o].items EXCEPT ![p] = n] /\ row \in Order
      BY <1>4, <2>2 DEF Order
    <2> QED BY <2>1, <2>3 DEF Quantities
  <1>8. /\ orders' \in Seq(Order) /\ Len(orders') = Len(orders)
        /\ \A i \in 1 .. Len(orders) : orders'[i] = IF i = o THEN row ELSE orders[i]
    BY <1>1, <1>2, <1>4, <1>7, OrderAt, ReplaceOrder
  <1>9. ShopTypeOK'
    <2>1. Ordering' = Ordering  BY <1>8 DEF Ordering
    <2>2. requests' \in [Requests -> {Idle} \cup Loaded \cup Ordering']
      BY <1>1, <1>2, <1>6, <2>1
    <2>3. orders' \in Seq([status : {"ordered", "packing"}, items : Quantities])
      BY <1>8 DEF Order
    <2> QED BY <1>1, <1>2, <1>8, <2>2, <2>3 DEF ShopTypeOK
  <1>10. \A s \in Requests : /\ requests'[s].order = requests[s].order
                             /\ requests'[s].cart = requests[s].cart
                             /\ requests'[s].stage = requests[s].stage
                             /\ Storing(s)' <=> Storing(s)
    BY <1>3, <1>6 DEF Storing
  <1>11. \A t \in sent : t.order # o  BY <1>2 DEF ShopInv, OwnerInv
  <1>12. StoredInv'
    <2>1. \A t \in sent, q \in catalogue : orders'[t.order].items[q] = t.cart.items[q]
      BY <1>1, <1>8, <1>11, Indices DEF ShopInv, StoredInv
    <2>2. ASSUME NEW s \in Requests, Storing(s)', NEW q \in catalogue, q \notin requests'[s].left
          PROVE  orders'[requests'[s].order].items[q] = requests'[s].cart.items[q]
      <3>1. Storing(s) /\ q \in Products  BY <1>1, <1>10, <2>2 DEF ShopTypeOK
      <3>2. CASE s = r /\ q = p
        <4>1. requests'[s].order = o /\ requests'[s].cart = requests[r].cart
          BY <1>3, <1>6, <3>2
        <4>2. orders'[o].items[p] = n  BY <1>4, <1>7, <1>8
        <4> QED BY <3>2, <4>1, <4>2
      <3>3. CASE s = r /\ q # p
        <4>1. q \notin requests[r].left  BY <1>3, <1>6, <2>2, <3>3
        <4>2. orders[o].items[q] = requests[r].cart.items[q]
          BY <1>2, <2>2, <4>1 DEF ShopInv, StoredInv
        <4>3. requests'[s].order = o /\ requests'[s].cart = requests[r].cart
          BY <1>3, <1>6, <3>3
        <4>4. orders'[o] = row  BY <1>4, <1>8
        <4>5. row.items[q] = orders[o].items[q]  BY <1>7, <3>1, <3>3
        <4> QED BY <4>2, <4>3, <4>4, <4>5
      <3>4. CASE s # r
        <4>1. requests[s].order # o  BY <1>2, <3>1, <3>4 DEF ShopInv, OwnerInv
        <4>2. requests[s].order \in 1 .. Len(orders)  BY <1>1, <3>1, Indices
        <4> QED BY <1>3, <1>8, <2>2, <3>1, <3>4, <4>1, <4>2 DEF ShopInv, StoredInv
      <3> QED BY <3>2, <3>3, <3>4
    <2> QED BY <1>2, <2>1, <2>2 DEF StoredInv
  <1>13. OwnerInv'
    <2>1. \A s \in Requests : requests[s].left = {} => requests'[s].left = {}
      BY <1>3, <1>6
    <2> QED BY <1>2, <1>10, <2>1 DEF ShopInv, OwnerInv
  <1>14. ServerInv'
    <2>1. \A i \in packing : i # o  BY <1>11 DEF ShopInv, ServerInv
    <2>2. \A i \in packing : orders'[i] = orders[i]  BY <1>1, <1>8, <2>1, Indices
    <2>3. \A i \in packing : orders'[i].status = "packing" /\ \E t \in sent : t.order = i
      BY <2>2 DEF ShopInv, ServerInv
    <2>4. /\ \A c \in accepted : \E t \in sent : t.order = c.order /\ t.cart.items = c.items
          /\ \A b \in bought : \E t \in sent : t.order = b.order /\ t.cart.items = b.items
      BY DEF ShopInv, ServerInv
    <2> QED BY <1>2, <2>3, <2>4 DEF ServerInv
  <1>15. CartInv'
    <2>1. Idle.stage = "idle"  BY DEF Idle
    <2>2. \A s \in Requests : requests'[s] # Idle => requests[s] # Idle
      BY <1>2, <1>3, <2>1 DEF Storing
    <2> QED BY <1>2, <1>10, <2>2 DEF ShopInv, CartInv
  <1> QED BY <1>9, <1>12, <1>13, <1>14, <1>15 DEF ShopInv

LEMMA ItemFailsStep ==
  ASSUME ShopInv, NEW r \in Requests, NEW p \in Products, ItemFails(r, p)
  PROVE  ShopInv'
  <1>1. requests \in [Requests -> {Idle} \cup Loaded \cup Ordering] /\ ShopTypeOK
    BY DEF ShopInv, ShopTypeOK
  <1>2. /\ requests' = [requests EXCEPT ![r] = Idle] /\ requests[r].left # {}
        /\ UNCHANGED <<catalogue, session, clears, orders, accepted, bought, packing, sent,
                       overlapped, loads>>
    BY DEF ItemFails, Finish, Left, serverVars, sessionVars
  <1>3. \A s \in Requests : requests'[s] = IF s = r THEN Idle ELSE requests[s]
    BY <1>1, <1>2
  <1>4. Idle.stage = "idle"  BY DEF Idle
  <1>5. ShopTypeOK'
    <2>1. Ordering' = Ordering  BY <1>2 DEF Ordering
    <2>2. requests' \in [Requests -> {Idle} \cup Loaded \cup Ordering]  BY <1>1, <1>2
    <2> QED BY <1>1, <1>2, <2>1, <2>2 DEF ShopTypeOK
  <1>6. \A s \in Requests : Storing(s)' => requests'[s] = requests[s]
    BY <1>3, <1>4 DEF Storing
  <1>7. StoredInv' /\ OwnerInv'  BY <1>2, <1>6, SameOrders
  <1>8. ServerInv'  BY <1>2 DEF ShopInv, ServerInv
  <1>9. requests[r].stage # "sent"  BY <1>2 DEF ShopInv, OwnerInv
  <1>10. CartInv'  BY <1>2, <1>3, <1>9 DEF ShopInv, CartInv
  <1> QED BY <1>5, <1>7, <1>8, <1>10 DEF ShopInv

LEMMA sendOrderStep ==
  ASSUME ShopInv, NEW r \in Requests, sendOrder(r)
  PROVE  ShopInv'
  <1> DEFINE o == requests[r].order
             cart == requests[r].cart
             new == [requests[r] EXCEPT !.stage = "sent"]
             order == [order |-> o, items |-> cart.items]
             note == [order |-> o, cart |-> cart]
  <1>1. requests \in [Requests -> {Idle} \cup Loaded \cup Ordering] /\ ShopTypeOK
    BY DEF ShopInv, ShopTypeOK
  <1>2. /\ requests' = [requests EXCEPT ![r] = new]
        /\ requests[r].stage = "items" /\ requests[r].left = {}
        /\ \/ accepted' = accepted \cup {order} /\ sent' = sent \cup {note}
           \/ accepted' = accepted /\ sent' = sent
        /\ UNCHANGED <<catalogue, session, clears, orders, bought, packing, overlapped, loads>>
    BY DEF sendOrder, AllStored, sessionVars
  <1>3. \A s \in Requests : requests'[s] = IF s = r THEN new ELSE requests[s]
    BY <1>1, <1>2
  <1>4. Storing(r)  BY <1>2 DEF Storing
  <1>5. requests[r] \in Ordering /\ o \in 1 .. Len(orders) /\ cart \in Cart
    BY <1>1, <1>4, StoringFields, Indices DEF Ordering
  <1>6. /\ new \in Ordering /\ new.order = o /\ new.cart = cart
        /\ new.left = requests[r].left /\ new.stage = "sent"
    BY <1>5 DEF Ordering
  <1>7. \A s \in Requests : /\ requests'[s].order = requests[s].order
                            /\ requests'[s].cart = requests[s].cart
                            /\ requests'[s].left = requests[s].left
                            /\ Storing(s)' <=> Storing(s)
    BY <1>3, <1>4, <1>6 DEF Storing
  <1>8. sent \subseteq sent' /\ sent' \subseteq sent \cup {note}  BY <1>2
  <1>9. ShopTypeOK'
    <2>1. Ordering' = Ordering  BY <1>2 DEF Ordering
    <2>2. requests' \in [Requests -> {Idle} \cup Loaded \cup Ordering]
      BY <1>1, <1>2, <1>6
    <2>3. sent' \subseteq [order : 1 .. Len(orders), cart : Cart]
      BY <1>1, <1>5, <1>8 DEF ShopTypeOK
    <2>4. cart.items \in Quantities  BY <1>5 DEF Cart
    <2>5. accepted' \subseteq [order : 1 .. Len(orders), items : Quantities]
      BY <1>1, <1>2, <1>5, <2>4 DEF ShopTypeOK
    <2> QED BY <1>1, <1>2, <2>1, <2>2, <2>3, <2>5 DEF ShopTypeOK
  <1>10. StoredInv'
    <2>1. \A p \in catalogue : orders[note.order].items[p] = note.cart.items[p]
      BY <1>2, <1>4 DEF ShopInv, StoredInv
    <2>2. \A t \in sent', p \in catalogue : orders[t.order].items[p] = t.cart.items[p]
      BY <1>8, <2>1 DEF ShopInv, StoredInv
    <2> QED BY <1>2, <1>7, <2>2 DEF ShopInv, StoredInv
  <1>11. OwnerInv'
    <2>1. \A s, t \in Requests :
            Storing(s)' /\ Storing(t)' /\ requests'[s].order = requests'[t].order => s = t
      BY <1>7 DEF ShopInv, OwnerInv
    <2>2. \A s \in Requests : Storing(s) /\ requests[s].order = note.order => s = r
      BY <1>4 DEF ShopInv, OwnerInv
    <2>3. \A s \in Requests, t \in sent' :
            Storing(s) /\ t.order = requests[s].order => requests[s].left = {}
      BY <1>2, <1>8, <2>2 DEF ShopInv, OwnerInv
    <2>4. \A s \in Requests : requests'[s].stage = "sent" => requests'[s].left = {}
      BY <1>2, <1>3, <1>7 DEF ShopInv, OwnerInv
    <2> QED BY <1>7, <2>1, <2>3, <2>4 DEF OwnerInv
  <1>12. ServerInv'
    <2>1. \A c \in accepted' : \E t \in sent' : t.order = c.order /\ t.cart.items = c.items
      <3>1. \A c \in accepted : \E t \in sent' : t.order = c.order /\ t.cart.items = c.items
        BY <1>8 DEF ShopInv, ServerInv
      <3>2. note.order = order.order /\ note.cart.items = order.items  OBVIOUS
      <3>3. accepted' = accepted \/ (accepted' = accepted \cup {order} /\ note \in sent')
        BY <1>2
      <3>4. CASE accepted' = accepted  BY <3>1, <3>4
      <3>5. CASE accepted' = accepted \cup {order} /\ note \in sent'
        <4> HIDE DEF order, note
        <4> QED BY <3>1, <3>2, <3>5
      <3> QED BY <3>3, <3>4, <3>5
    <2>2. \A b \in bought : \E t \in sent' : t.order = b.order /\ t.cart.items = b.items
      BY <1>8 DEF ShopInv, ServerInv
    <2>3. \A i \in packing : orders[i].status = "packing" /\ \E t \in sent' : t.order = i
      BY <1>8 DEF ShopInv, ServerInv
    <2> QED BY <1>2, <2>1, <2>2, <2>3 DEF ServerInv
  <1>13. CartInv'
    <2> SUFFICES ASSUME ~overlapped' PROVE CartInv'
      BY DEF CartInv
    <2>1. ~overlapped  BY <1>2
    <2>2. Idle.stage = "idle"  BY DEF Idle
    <2>3. \A s \in Requests : requests'[s] # Idle => requests[s] # Idle
      BY <1>2, <1>3, <2>2
    <2>4. cart.no = clears /\ \A s \in Requests : requests[s] # Idle => s = r
      BY <1>2, <2>1, <2>2 DEF ShopInv, CartInv
    <2>5. \A s \in Requests : requests[s].stage # "sent"  BY <1>2, <2>2, <2>4
    <2>6. clears \in Nat /\ \A t \in sent : t.cart.no < clears /\ t.cart.no \in Nat
      BY <1>1, <2>1, <2>5 DEF ShopInv, CartInv, ShopTypeOK, Cart
    <2>7. \A t, u \in sent' : t.cart.no = u.cart.no => t = u
      <3>1. \A t \in sent : t.cart.no # note.cart.no  BY <2>4, <2>6
      <3> QED BY <1>8, <2>1, <3>1 DEF ShopInv, CartInv
    <2>8. requests'[r].stage = "sent"  BY <1>3, <1>6
    <2>9. \A t \in sent' : t.cart.no < clears \/ t.cart.no = clears
      BY <1>8, <2>4, <2>6
    <2>10. \A s, t \in Requests : requests'[s] # Idle /\ requests'[t] # Idle => s = t
      BY <2>3, <2>4
    <2>11. session.no = clears  BY <2>1 DEF ShopInv, CartInv
    <2>12. \A s \in Requests : requests'[s] # Idle => requests'[s].cart.no = clears
      BY <1>7, <2>3, <2>4
    <2> QED BY <1>2, <2>7, <2>8, <2>9, <2>10, <2>11, <2>12 DEF CartInv
  <1> QED BY <1>9, <1>10, <1>11, <1>12, <1>13 DEF ShopInv

LEMMA clearStep ==
  ASSUME ShopInv, NEW r \in Requests, clear(r)
  PROVE  ShopInv'
  <1>1. requests \in [Requests -> {Idle} \cup Loaded \cup Ordering] /\ ShopTypeOK
    BY DEF ShopInv, ShopTypeOK
  <1>2. /\ requests' = [requests EXCEPT ![r] = Idle] /\ requests[r].stage = "sent"
        /\ clears' = clears + 1 /\ session' = [no |-> clears + 1, items |-> Empty]
        /\ UNCHANGED <<catalogue, orders, accepted, bought, packing, sent, overlapped, loads>>
    BY DEF clear, Cleared, Finish, serverVars
  <1>3. \A s \in Requests : requests'[s] = IF s = r THEN Idle ELSE requests[s]
    BY <1>1, <1>2
  <1>4. Idle.stage = "idle"  BY DEF Idle
  <1>5. ShopTypeOK'
    <2>1. Ordering' = Ordering  BY <1>2 DEF Ordering
    <2>2. requests' \in [Requests -> {Idle} \cup Loaded \cup Ordering]  BY <1>1, <1>2
    <2>3. Empty \in Quantities  BY ShopAssumption DEF Empty, Quantities
    <2>4. clears' \in Nat /\ session' \in Cart  BY <1>1, <1>2, <2>3 DEF ShopTypeOK, Cart
    <2> QED BY <1>1, <1>2, <2>1, <2>2, <2>4 DEF ShopTypeOK
  <1>6. \A s \in Requests : Storing(s)' => requests'[s] = requests[s]
    BY <1>3, <1>4 DEF Storing
  <1>7. StoredInv' /\ OwnerInv'  BY <1>2, <1>6, SameOrders
  <1>8. ServerInv'  BY <1>2 DEF ShopInv, ServerInv
  <1>9. CartInv'
    <2> SUFFICES ASSUME ~overlapped' PROVE CartInv'
      BY DEF CartInv
    <2>1. ~overlapped  BY <1>2
    <2>2. \A s \in Requests : requests'[s] = Idle
      BY <1>2, <1>3, <1>4, <2>1 DEF ShopInv, CartInv
    <2>3. \A t \in sent : t.cart.no \in Nat /\ (t.cart.no < clears \/ t.cart.no = clears)
      BY <1>1, <2>1 DEF ShopInv, CartInv, ShopTypeOK, Cart
    <2>4. \A t \in sent : t.cart.no < clears + 1  BY <1>1, <2>3 DEF ShopTypeOK
    <2>5. \A t, u \in sent : t.cart.no = u.cart.no => t = u
      BY <2>1 DEF ShopInv, CartInv
    <2> QED BY <1>2, <2>2, <2>4, <2>5 DEF CartInv
  <1> QED BY <1>5, <1>7, <1>8, <1>9 DEF ShopInv

\* An order is packed only after it was sent, so no item of it is stored any more.
LEMMA DeleteProductStep ==
  ASSUME ShopInv, NEW p \in Products, DeleteProduct(p)
  PROVE  ShopInv'
  <1> DEFINE row(o) == [orders[o] EXCEPT !.items[p] = 0]
  <1>1. ShopTypeOK  BY DEF ShopInv
  <1>2. /\ catalogue' = catalogue \ {p}
        /\ orders' = [o \in DOMAIN orders |-> row(o)]
        /\ UNCHANGED <<session, clears, requests, accepted, bought, packing, sent,
                       overlapped, loads>>
    BY DEF DeleteProduct, sessionVars, serverVars
  <1>3. DOMAIN orders = 1 .. Len(orders) /\ Len(orders) \in Nat  BY <1>1, OrderAt
  <1>4. ASSUME NEW o \in 1 .. Len(orders)
        PROVE  /\ row(o) \in Order /\ row(o).status = orders[o].status
               /\ \A q \in Products : q # p => row(o).items[q] = orders[o].items[q]
    <2>1. orders[o] \in Order /\ orders[o].items \in Quantities
      BY <1>1, OrderAt DEF Order
    <2>2. [orders[o].items EXCEPT ![p] = 0] \in Quantities
      BY <2>1, ShopAssumption DEF Quantities
    <2>3. row(o).items = [orders[o].items EXCEPT ![p] = 0] /\ row(o) \in Order
      BY <2>1, <2>2 DEF Order
    <2>4. row(o).status = orders[o].status  BY <2>1 DEF Order
    <2> QED BY <2>1, <2>3, <2>4 DEF Quantities
  <1>5. \A o \in 1 .. Len(orders) : orders'[o] = row(o)  BY <1>2, <1>3
  <1>6. /\ orders' \in Seq(Order) /\ Len(orders') = Len(orders)
        /\ \A o \in 1 .. Len(orders) : orders'[o].status = orders[o].status
        /\ \A o \in 1 .. Len(orders), q \in Products :
             q # p => orders'[o].items[q] = orders[o].items[q]
    <2>1. orders' = [o \in 1 .. Len(orders) |-> orders'[o]]  BY <1>2, <1>3
    <2>2. \A o \in 1 .. Len(orders) : orders'[o] \in Order  BY <1>4, <1>5
    <2>3. orders' \in Seq(Order) /\ Len(orders') = Len(orders)
      BY <1>3, <2>1, <2>2, EachOrder
    <2> HIDE DEF row
    <2>4. \A o \in 1 .. Len(orders) : orders'[o].status = orders[o].status
      BY <1>4, <1>5
    <2>5. ASSUME NEW o \in 1 .. Len(orders), NEW q \in Products, q # p
          PROVE  orders'[o].items[q] = orders[o].items[q]
      BY <1>4, <1>5, <2>5
    <2> QED BY <2>3, <2>4, <2>5
  <1>7. ShopTypeOK'
    <2>1. Ordering' = Ordering  BY <1>6 DEF Ordering
    <2>2. orders' \in Seq([status : {"ordered", "packing"}, items : Quantities])
      BY <1>6 DEF Order
    <2> QED BY <1>1, <1>2, <1>6, <2>1, <2>2 DEF ShopTypeOK
  <1>8. \A q \in catalogue' : q \in catalogue /\ q \in Products /\ q # p
    BY <1>1, <1>2 DEF ShopTypeOK
  <1>9. StoredInv'
    <2>1. \A t \in sent, q \in catalogue' : orders'[t.order].items[q] = t.cart.items[q]
      BY <1>1, <1>6, <1>8, Indices DEF ShopInv, StoredInv
    <2>2. ASSUME NEW r \in Requests, Storing(r), NEW q \in catalogue', q \notin requests[r].left
          PROVE  orders'[requests[r].order].items[q] = requests[r].cart.items[q]
      <3>1. requests[r].order \in 1 .. Len(orders)  BY <1>1, <2>2, Indices
      <3>2. orders[requests[r].order].items[q] = requests[r].cart.items[q]
        BY <1>8, <2>2 DEF ShopInv, StoredInv
      <3> QED BY <1>6, <1>8, <3>1, <3>2
    <2> QED BY <1>2, <2>1, <2>2 DEF StoredInv, Storing
  <1>10. OwnerInv'  BY <1>2 DEF ShopInv, OwnerInv, Storing
  <1>11. ServerInv'
    <2>1. \A o \in packing : orders'[o].status = "packing" /\ \E t \in sent : t.order = o
      BY <1>1, <1>6, Indices DEF ShopInv, ServerInv
    <2>2. /\ \A c \in accepted : \E t \in sent : t.order = c.order /\ t.cart.items = c.items
          /\ \A b \in bought : \E t \in sent : t.order = b.order /\ t.cart.items = b.items
      BY DEF ShopInv, ServerInv
    <2> QED BY <1>2, <2>1, <2>2 DEF ServerInv
  <1>12. CartInv'  BY <1>2 DEF ShopInv, CartInv
  <1> QED BY <1>7, <1>9, <1>10, <1>11, <1>12 DEF ShopInv

LEMMA Process_orderStep ==
  ASSUME ShopInv, NEW c \in accepted, Process_order(c)
  PROVE  ShopInv'
  <1> DEFINE new == [order |-> c.order, items |-> c.items,
                     whnum |-> select_warehouse(AddressOf[c.order])]
  <1>1. ShopTypeOK  BY DEF ShopInv
  <1>2. /\ accepted' = accepted \ {c} /\ bought' = bought \cup {new}
        /\ UNCHANGED <<catalogue, session, clears, requests, orders, packing, sent,
                       overlapped, loads>>
    BY DEF Process_order, sessionVars
  <1>3. new.order = c.order /\ new.items = c.items  OBVIOUS
  <1> HIDE DEF new
  <1>4. ShopTypeOK'
    <2>1. Ordering' = Ordering  BY <1>2 DEF Ordering
    <2>2. c.order \in 1 .. Len(orders) /\ c.items \in Quantities  BY <1>1, Indices
    <2>3. \A b \in bought' : b.order \in 1 .. Len(orders) /\ b.items \in Quantities
      BY <1>1, <1>2, <1>3, <2>2 DEF ShopTypeOK
    <2>4. accepted' \subseteq [order : 1 .. Len(orders), items : Quantities]
      BY <1>1, <1>2 DEF ShopTypeOK
    <2> QED BY <1>1, <1>2, <2>1, <2>3, <2>4 DEF ShopTypeOK
  <1>5. StoredInv' /\ OwnerInv'  BY <1>2, SameOrders
  <1>6. ServerInv'
    <2>1. \E t \in sent : t.order = new.order /\ t.cart.items = new.items
      BY <1>3 DEF ShopInv, ServerInv
    <2>2. \A b \in bought' : \E t \in sent : t.order = b.order /\ t.cart.items = b.items
      BY <1>2, <2>1 DEF ShopInv, ServerInv
    <2>3. \A d \in accepted' : \E t \in sent : t.order = d.order /\ t.cart.items = d.items
      BY <1>2 DEF ShopInv, ServerInv
    <2>4. \A o \in packing : orders[o].status = "packing" /\ \E t \in sent : t.order = o
      BY DEF ShopInv, ServerInv
    <2> QED BY <1>2, <2>2, <2>3, <2>4 DEF ServerInv
  <1>7. CartInv'  BY <1>2 DEF ShopInv, CartInv
  <1> QED BY <1>4, <1>5, <1>6, <1>7 DEF ShopInv

LEMMA Update_Order_StatusStep ==
  ASSUME ShopInv, NEW b \in bought, Update_Order_Status(b)
  PROVE  ShopInv'
  <1> DEFINE o == b.order
             row == [orders[o] EXCEPT !.status = "packing"]
  <1>1. ShopTypeOK  BY DEF ShopInv
  <1>2. /\ orders' = [orders EXCEPT ![o] = row] /\ packing' = packing \cup {o}
        /\ UNCHANGED <<catalogue, session, clears, requests, accepted, bought, sent,
                       overlapped, loads>>
    BY DEF Update_Order_Status, Packing, sessionVars
  <1>3. o \in 1 .. Len(orders)  BY <1>1 DEF ShopTypeOK
  <1>4. orders[o] \in Order  BY <1>1, <1>3, OrderAt
  <1>5. row \in Order /\ row.status = "packing" /\ row.items = orders[o].items
    BY <1>4 DEF Order
  <1>6. /\ orders' \in Seq(Order) /\ Len(orders') = Len(orders)
        /\ \A i \in 1 .. Len(orders) : orders'[i] = IF i = o THEN row ELSE orders[i]
    BY <1>1, <1>2, <1>3, <1>5, OrderAt, ReplaceOrder
  <1>7. \A i \in 1 .. Len(orders) : orders'[i].items = orders[i].items
    BY <1>5, <1>6
  <1>8. ShopTypeOK'
    <2>1. Ordering' = Ordering  BY <1>6 DEF Ordering
    <2>2. orders' \in Seq([status : {"ordered", "packing"}, items : Quantities])
      BY <1>6 DEF Order
    <2> QED BY <1>1, <1>2, <1>3, <1>6, <2>1, <2>2 DEF ShopTypeOK
  <1>9. StoredInv'
    <2>1. \A t \in sent, p \in catalogue : orders'[t.order].items[p] = t.cart.items[p]
      BY <1>1, <1>7, Indices DEF ShopInv, StoredInv
    <2>2. ASSUME NEW r \in Requests, Storing(r), NEW p \in catalogue, p \notin requests[r].left
          PROVE  orders'[requests[r].order].items[p] = requests[r].cart.items[p]
      <3>1. requests[r].order \in 1 .. Len(orders)  BY <1>1, <2>2, Indices
      <3> QED BY <1>7, <2>2, <3>1 DEF ShopInv, StoredInv
    <2> QED BY <1>2, <2>1, <2>2 DEF StoredInv, Storing
  <1>10. OwnerInv'  BY <1>2 DEF ShopInv, OwnerInv, Storing
  <1>11. ServerInv'
    <2>1. \E t \in sent : t.order = o  BY DEF ShopInv, ServerInv
    <2>2. \A i \in packing : orders'[i].status = "packing" /\ \E t \in sent : t.order = i
      BY <1>1, <1>5, <1>6, Indices DEF ShopInv, ServerInv
    <2>3. orders'[o].status = "packing"  BY <1>3, <1>5, <1>6
    <2>4. /\ \A c \in accepted : \E t \in sent : t.order = c.order /\ t.cart.items = c.items
          /\ \A d \in bought : \E t \in sent : t.order = d.order /\ t.cart.items = d.items
      BY DEF ShopInv, ServerInv
    <2> QED BY <1>2, <2>1, <2>2, <2>3, <2>4 DEF ServerInv
  <1>12. CartInv'  BY <1>2 DEF ShopInv, CartInv
  <1> QED BY <1>8, <1>9, <1>10, <1>11, <1>12 DEF ShopInv

\* A step of a server, and a stutter, leave the shop alone but for lost orders.
LEMMA OtherStep ==
  ASSUME ShopInv, accepted' \subseteq accepted,
         UNCHANGED <<catalogue, sessionVars, requests, orders, bought, sent, packing>>
  PROVE  ShopInv'
  <1>1. UNCHANGED <<catalogue, session, clears, requests, orders, bought, packing, sent,
                    overlapped, loads>>
    BY DEF sessionVars
  <1>2. ShopTypeOK'
    <2>1. Ordering' = Ordering  BY <1>1 DEF Ordering
    <2> QED BY <1>1, <2>1 DEF ShopInv, ShopTypeOK
  <1>3. StoredInv' /\ OwnerInv'  BY <1>1, SameOrders
  <1>4. ServerInv'  BY <1>1 DEF ShopInv, ServerInv
  <1>5. CartInv'  BY <1>1 DEF ShopInv, CartInv
  <1> QED BY <1>2, <1>3, <1>4, <1>5 DEF ShopInv

LEMMA ShopInvariance == SpecSite => []ShopInv
  <1>1. ASSUME ShopInv, [NextSite]_siteVars PROVE ShopInv'
    <2>1. ASSUME NEW r \in Requests, Request(r) PROVE ShopInv'
      BY <1>1, <2>1, LoadStep, CartStep, SaveOrderStep, StoreItemStep, ItemFailsStep,
         sendOrderStep, clearStep DEF Request
    <2>2. ASSUME NEW p \in Products, DeleteProduct(p) PROVE ShopInv'
      BY <1>1, <2>2, DeleteProductStep
    <2>3. ASSUME FrontEnd PROVE ShopInv'
      BY <1>1, <2>3, Process_orderStep, Update_Order_StatusStep DEF FrontEnd
    <2>4. CASE ServerStep
      <3>1. accepted' \subseteq accepted  BY <2>4 DEF ServerStep
      <3> QED BY <1>1, <2>4, <3>1, OtherStep DEF ServerStep
    <2>5. CASE UNCHANGED siteVars
      BY <1>1, <2>5, OtherStep DEF siteVars, shopVars, serverVars
    <2> QED BY <1>1, <2>1, <2>2, <2>3, <2>4, <2>5 DEF NextSite, ShopStep
  <1> QED BY <1>1, InitShop, PTL DEF SpecSite

-----------------------------------------------------------------------------
(* The choice of the warehouse *)

\* A set of natural numbers has a least element.
LEMMA LeastOf ==
  ASSUME NEW S, S \subseteq Nat, S # {}
  PROVE  \E n \in S : \A m \in S : n <= m
  <1> DEFINE T == {0 .. n : n \in S}
             R == StrictSubsetOrdering(Nat)
  <1>1. T \subseteq FiniteSubsetsOf(Nat) /\ T # {}
    <2>1. \A n \in S : 0 .. n \subseteq Nat /\ IsFiniteSet(0 .. n)  BY FS_Interval
    <2> QED BY <2>1 DEF FiniteSubsetsOf
  <1>2. IsWellFoundedOn(R, FiniteSubsetsOf(Nat))  BY FS_StrictSubsetOrderingWellFounded
  <1>3. \E x \in T : \A y \in T : ~(<<y, x>> \in R)  BY <1>1, <1>2, WFMin
  <1>4. PICK n \in S : \A m \in S : <<0 .. m, 0 .. n>> \notin R  BY <1>3
  <1>5. ASSUME NEW m \in S, m < n PROVE FALSE
    <2>1. 0 .. m \subseteq 0 .. n /\ 0 .. m # 0 .. n  BY <1>5
    <2>2. 0 .. m \in SUBSET Nat /\ 0 .. n \in SUBSET Nat  OBVIOUS
    <2> QED BY <1>4, <2>1, <2>2 DEF StrictSubsetOrdering
  <1> QED BY <1>5

\* The choice of select_warehouse after n warehouses, from the choices g before.
ChoiceAt(g, a, n) ==
  IF n = 0 THEN 0
  ELSE IF g[n - 1] = 0 \/ Nearer(Distance(n, a), Distance(g[n - 1], a)) THEN n ELSE g[n - 1]

\* g is the table of the choices after 0 to m warehouses.
ChoicesUpTo(g, a, m) == g = [n \in 0 .. m |-> ChoiceAt(g, a, n)]

\* The recursive function of select_warehouse exists.
LEMMA ChoicesExist ==
  ASSUME NEW a, NEW k \in Nat
  PROVE  \E g : ChoicesUpTo(g, a, k)
  <1> DEFINE Without == {m \in Nat : ~\E g : ChoicesUpTo(g, a, m)}
  <1> SUFFICES ASSUME Without # {} PROVE FALSE
    OBVIOUS
  <1>1. PICK m \in Without : \A i \in Without : m <= i  BY LeastOf
  <1>2. m # 0
    <2>1. ChoicesUpTo([n \in 0 .. 0 |-> 0], a, 0)  BY DEF ChoicesUpTo, ChoiceAt
    <2> QED BY <1>1, <2>1
  <1>3. m - 1 \in Nat /\ m - 1 \notin Without  BY <1>1, <1>2
  <1>4. PICK h : ChoicesUpTo(h, a, m - 1)  BY <1>3
  <1> DEFINE g == [n \in 0 .. m |-> IF n = m THEN ChoiceAt(h, a, n) ELSE h[n]]
  <1>5. ChoicesUpTo(g, a, m)
    <2>1. ASSUME NEW n \in 0 .. m PROVE g[n] = ChoiceAt(g, a, n)
      <3>1. n # 0 => n - 1 \in 0 .. (m - 1) /\ g[n - 1] = h[n - 1]  BY <1>3
      <3>2. ChoiceAt(g, a, n) = ChoiceAt(h, a, n)  BY <3>1 DEF ChoiceAt
      <3>3. n # m => h[n] = ChoiceAt(h, a, n)
        <4>1. n # m => n \in 0 .. (m - 1)  BY <1>3
        <4> QED BY <1>4, <4>1 DEF ChoicesUpTo
      <3> QED BY <3>2, <3>3
    <2> QED BY <2>1, Zenon DEF ChoicesUpTo
  <1> QED BY <1>1, <1>5

LEMMA IntDistance ==
  ASSUME NEW w \in Int, NEW a \in Int \X Int
  PROVE  Distance(w, a) \in Int
  <1> DEFINE d == (w - a[1]) * (w - a[1]) + (w - a[2]) * (w - a[2])
  <1>1. d \in Int  OBVIOUS
  <1> HIDE DEF d
  <1>2. d + IntLimit \in Int /\ 2 * IntLimit \in Nat \ {0}  BY <1>1, ShopAssumption
  <1>3. (d + IntLimit) % (2 * IntLimit) \in Int  BY <1>2
  <1> QED BY <1>3, ShopAssumption DEF Distance, Wrap, d

\* After n warehouses the choice is the first of the nearest of them.
FirstNearest(w, a, n) ==
  /\ w \in 1 .. n
  /\ \A v \in 1 .. n : /\ Distance(w, a) <= Distance(v, a)
                       /\ v < w => Distance(w, a) < Distance(v, a)

\* The loop of select_warehouse keeps the first of the nearest warehouses so far.
LEMMA ChoiceIsFirstNearest ==
  ASSUME NEW a \in Int \X Int, NEW k \in Nat, NEW g, ChoicesUpTo(g, a, k),
         NEW n \in 1 .. k
  PROVE  FirstNearest(g[n], a, n)
  <1> DEFINE Wrong == {m \in 1 .. k : ~FirstNearest(g[m], a, m)}
  <1> SUFFICES ASSUME Wrong # {} PROVE FALSE
    OBVIOUS
  <1>1. PICK m \in Wrong : \A i \in Wrong : m <= i
    <2>1. Wrong \subseteq Nat  OBVIOUS
    <2> HIDE DEF Wrong
    <2> QED BY <2>1, LeastOf
  <1>2. \A i \in 0 .. k : g[i] = ChoiceAt(g, a, i)  BY DEF ChoicesUpTo
  <1>3. \A v \in 1 .. m : Distance(v, a) \in Int  BY IntDistance
  <1>4. CASE m = 1
    <2>1. g[0] = 0 /\ g[1] = 1  BY <1>2, <1>4 DEF ChoiceAt
    <2> QED BY <1>1, <1>3, <1>4, <2>1 DEF FirstNearest
  <1>5. CASE m # 1
    <2>1. m - 1 \in 1 .. k /\ m - 1 \notin Wrong  BY <1>1, <1>5
    <2>2. FirstNearest(g[m - 1], a, m - 1)  BY <2>1
    <2>3. g[m] = IF Distance(m, a) < Distance(g[m - 1], a) THEN m ELSE g[m - 1]
      BY <1>2, <2>1, <2>2 DEF ChoiceAt, Nearer, FirstNearest
    <2>4. FirstNearest(g[m], a, m)
      BY <1>3, <2>1, <2>2, <2>3 DEF FirstNearest
    <2> QED BY <1>1, <2>4
  <1> QED BY <1>4, <1>5

LEMMA WarehouseChosen ==
  ASSUME NEW a \in Int \X Int
  PROVE  FirstNearest(select_warehouse(a), a, WarehouseNum)
  <1> DEFINE best == CHOOSE g : ChoicesUpTo(g, a, WarehouseNum)
  <1>1. select_warehouse(a) = best[WarehouseNum]
    BY DEF select_warehouse, ChoicesUpTo, ChoiceAt
  <1>2. ChoicesUpTo(best, a, WarehouseNum)  BY ChoicesExist, ShopAssumption
  <1>3. WarehouseNum \in 1 .. WarehouseNum /\ WarehouseNum \in Nat  BY ShopAssumption
  <1> QED BY <1>1, <1>2, <1>3, ChoiceIsFirstNearest

\* In the range of int the distance is the one of the plane.
SquareDistance(w, a) == (w - a[1]) * (w - a[1]) + (w - a[2]) * (w - a[2])

LEMMA DistanceInRange ==
  ASSUME NEW w \in Int, NEW a \in Int \X Int, SquareDistance(w, a) < IntLimit
  PROVE  Distance(w, a) = SquareDistance(w, a)
  <1>1. \A x \in Int : x * x \in Nat
    <2> TAKE x \in Int
    <2>1. CASE x >= 0  BY <2>1
    <2>2. CASE x < 0
      <3>1. (-x) * (-x) \in Nat  BY <2>2
      <3>2. (-x) * (-x) = x * x  OBVIOUS
      <3> QED BY <3>1, <3>2
    <2> QED BY <2>1, <2>2
  <1>2. w - a[1] \in Int /\ w - a[2] \in Int  OBVIOUS
  <1>3. SquareDistance(w, a) \in Nat  BY <1>1, <1>2 DEF SquareDistance
  <1>4. \A h \in Nat \ {0}, d \in Nat : d < h => ((d + h) % (2 * h)) - h = d  OBVIOUS
  <1>5. Wrap(SquareDistance(w, a)) = SquareDistance(w, a)
    BY <1>3, <1>4, ShopAssumption DEF Wrap
  <1> QED BY <1>5 DEF Distance, SquareDistance

LEMMA AppendLength ==
  ASSUME NEW S, NEW s \in Seq(S), NEW x
  PROVE  Len(Append(s, x)) = Len(s) + 1
  OBVIOUS

LEMMA SameLength ==
  ASSUME NEW S, NEW s \in Seq(S)
  PROVE  /\ \A i, x : Len([s EXCEPT ![i] = x]) = Len(s)
         /\ \A t : t = [i \in DOMAIN s |-> t[i]] => Len(t) = Len(s)
  OBVIOUS

\* The purchases carry the choice of the front end for the address of their order.
WarehouseInv ==
  /\ Len(orders) <= MaxOrders
  /\ \A b \in bought : b.whnum = select_warehouse(AddressOf[b.order])

LEMMA WarehouseStep ==
  ASSUME ShopTypeOK, ShopTypeOK', WarehouseInv, [NextSite]_siteVars
  PROVE  WarehouseInv'
  <1>1. Len(orders) \in Nat  BY OrderAt
  <1>2. Len(orders') <= MaxOrders
    <2>1. CASE Len(orders') = Len(orders)  BY <2>1 DEF WarehouseInv
    <2>2. ASSUME NEW r \in Requests, SaveOrder(r) PROVE Len(orders') <= MaxOrders
      <3>1. Len(orders) < MaxOrders /\ Len(orders') = Len(orders) + 1
        BY <2>2, OrderAt, AppendLength DEF SaveOrder
      <3> QED BY <1>1, <3>1, ShopAssumption
    <2>3. ASSUME NEW r \in Requests, NEW p \in Products, StoreItem(r, p)
          PROVE  Len(orders') = Len(orders)
      BY <2>3, OrderAt, SameLength DEF StoreItem
    <2>4. ASSUME NEW p \in Products, DeleteProduct(p) PROVE Len(orders') = Len(orders)
      BY <1>1, <2>4, OrderAt, SameLength DEF DeleteProduct
    <2>5. ASSUME NEW b \in bought, Update_Order_Status(b) PROVE Len(orders') = Len(orders)
      BY <2>5, OrderAt, SameLength DEF Update_Order_Status
    <2> QED BY <2>1, <2>2, <2>3, <2>4, <2>5 DEF NextSite, ShopStep, ServerStep, Request,
            FrontEnd, Load, cart_change, cart_detail, ItemFails, sendOrder, clear,
            Process_order, siteVars, shopVars
  <1>3. ASSUME NEW c \in accepted, Process_order(c) PROVE WarehouseInv'
    BY <1>2, <1>3 DEF Process_order, WarehouseInv
  <1>4. CASE UNCHANGED bought  BY <1>2, <1>4 DEF WarehouseInv
  <1>5. CASE \E r \in Requests : Request(r)
    BY <1>4, <1>5 DEF Request, Load, cart_change, cart_detail, SaveOrder, sendOrder, clear,
       StoreItem, ItemFails, serverVars
  <1> QED BY <1>3, <1>4, <1>5 DEF NextSite, ShopStep, FrontEnd, DeleteProduct,
          Update_Order_Status, ServerStep, siteVars, shopVars, serverVars

LEMMA WarehouseInvariance == SpecSite => []WarehouseInv
  <1>1. InitSite => WarehouseInv
    BY ShopAssumption DEF InitSite, WarehouseInv
  <1>2. ShopTypeOK /\ ShopTypeOK' /\ WarehouseInv /\ [NextSite]_siteVars => WarehouseInv'
    BY WarehouseStep
  <1>3. SpecSite => []ShopTypeOK  BY ShopInvariance, PTL DEF ShopInv
  <1> QED BY <1>1, <1>2, <1>3, PTL DEF SpecSite

-----------------------------------------------------------------------------

\* The tables and the session of the site keep their types (orders/models.py,
\* cart/cart.py), for every number of products and of requests at one time.
THEOREM ShopTypes == SpecSite => []ShopTypeOK
  BY ShopInvariance, PTL DEF ShopInv

\* orders/views.py: an order goes to the server when all its items are stored, and a
\* purchase never differs from the stored order in a product that still exists.
THEOREM StoredThenBought == SpecSite => []BoughtAsStored
  <1>1. ShopInv => BoughtAsStored  BY DEF ShopInv, ServerInv, StoredInv, BoughtAsStored
  <1> QED BY <1>1, ShopInvariance, PTL

\* orders/models.py: the item saves that rewrite the whole row of an order are over
\* when the server writes "packing" (db_func.hpp).
THEOREM StatusIsNotUndone == SpecSite => []StatusSurvives
  <1>1. ShopInv => StatusSurvives  BY DEF ShopInv, ServerInv, StatusSurvives
  <1> QED BY <1>1, ShopInvariance, PTL

\* orders/views.py: a cart is sent once, unless two requests of its session overlap.
THEOREM CartOrderedOnce == SpecSite => []OneOrderPerCart
  <1>1. ShopInv => OneOrderPerCart  BY DEF ShopInv, CartInv, OneOrderPerCart
  <1> QED BY <1>1, ShopInvariance, PTL

\* The site, with its shop, implements the start of the servers: what is proved of
\* SpecLaunch holds of it.
THEOREM SiteLaunches == SpecSite => SpecLaunch
  <1>1. InitSite => InitLaunch  BY DEF InitSite
  <1>2. [NextSite]_siteVars => [NextLaunch]_launchVars
    BY DEF NextSite, ShopStep, ServerStep, siteVars
  <1> QED BY <1>1, <1>2, PTL DEF SpecSite, SpecLaunch

\* frontend_handle.hpp: every purchase names a warehouse, the first of the nearest ones
\* when the distances fit an int, for every number of warehouses and every address.
THEOREM NearestChosen == SpecSite => []NearestWarehouse
  <1>1. ASSUME ShopTypeOK, WarehouseInv PROVE NearestWarehouse
    <2> DEFINE dist(w, a) == (w - a[1]) * (w - a[1]) + (w - a[2]) * (w - a[2])
               nearest(a) == {w \in 1 .. WarehouseNum :
                                \A v \in 1 .. WarehouseNum : dist(w, a) <= dist(v, a)}
    <2>1. ASSUME NEW b \in bought, NEW a, a = AddressOf[b.order]
          PROVE  /\ b.whnum \in 1 .. WarehouseNum
                 /\ (\A w \in 1 .. WarehouseNum : dist(w, a) < IntLimit) =>
                      b.whnum = Min(nearest(a))
      <3>1. b.order \in 1 .. Len(orders) /\ Len(orders) \in Nat
        BY <1>1, OrderAt DEF ShopTypeOK
      <3>2. a \in Int \X Int  BY <1>1, <2>1, <3>1, ShopAssumption DEF WarehouseInv
      <3>3. FirstNearest(b.whnum, a, WarehouseNum)
        BY <1>1, <2>1, <3>2, WarehouseChosen DEF WarehouseInv
      <3>4. ASSUME \A w \in 1 .. WarehouseNum : dist(w, a) < IntLimit
            PROVE  b.whnum = Min(nearest(a))
        <4>1. \A w \in 1 .. WarehouseNum : Distance(w, a) = dist(w, a) /\ dist(w, a) \in Int
          BY <3>2, <3>4, DistanceInRange, IntDistance DEF SquareDistance
        <4> HIDE DEF dist
        <4>2. b.whnum \in nearest(a) /\ b.whnum \in Nat
          BY <3>3, <4>1 DEF FirstNearest
        <4>3. \A w \in nearest(a) : w \in Nat /\ ~(w < b.whnum)
          BY <3>3, <4>1, <4>2 DEF FirstNearest
        <4> HIDE DEF nearest
        <4>4. \A w \in nearest(a) : b.whnum <= w  BY <4>2, <4>3
        <4>5. \A w \in nearest(a) : (\A v \in nearest(a) : w <= v) => w = b.whnum
          BY <4>2, <4>3, <4>4
        <4> QED BY <4>2, <4>4, <4>5 DEF Min
      <3> QED BY <3>3, <3>4 DEF FirstNearest
    <2> QED BY <2>1 DEF NearestWarehouse
  <1>2. SpecSite => []ShopTypeOK  BY ShopInvariance, PTL DEF ShopInv
  <1> QED BY <1>1, <1>2, WarehouseInvariance, PTL

=============================================================================
