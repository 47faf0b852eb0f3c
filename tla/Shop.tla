--------------------------------- MODULE Shop ---------------------------------
(***************************************************************************)
(* The shop of Mini_Amazon/docker-deploy/amazonWeb and the front end socket *)
(* of the Amazon server, which listens only while the server is linked.    *)
(*                                                                         *)
(* A customer has one session, and several requests of it may run at one   *)
(* time (two tabs, an impatient second click).  A request reads the cart   *)
(* of the session when it starts and writes it back when it ends.  Placing *)
(* an order stores rows one by one, sends the order to the server and      *)
(* empties the cart; every order item is followed by a save of the whole   *)
(* row of the order.  Products may disappear meanwhile.                    *)
(*                                                                         *)
(* Left out: prices, accounts, the pages, and what becomes of an order     *)
(* once it is bought (AmazonServer); the statuses after "packing" are      *)
(* written by the same statement.                                          *)
(***************************************************************************)
EXTENDS Launch, FiniteSetsExt

CONSTANTS
  Products,
  Requests,        \* the requests that can run at one time
  MaxQuantity,     \* bounds the quantity of one product in a cart
  MaxOrders,       \* bounds the orders that are stored
  MaxLoads,        \* bounds the requests of the session
  AddressOf,       \* AddressOf[o]: the pair <<x, y>> entered with order o
  WarehouseNum,    \* warehouse i is at <<i, i>>
  IntLimit         \* an int is at least -IntLimit and below IntLimit

ASSUME ShopAssumption ==
  /\ MaxQuantity \in Nat /\ MaxOrders \in Nat /\ MaxLoads \in Nat
  /\ WarehouseNum \in Nat \ {0} /\ IntLimit \in Nat \ {0}
  /\ AddressOf \in [1 .. MaxOrders -> Int \X Int]

VARIABLES
  catalogue,     \* table: the products that exist
  session,       \* the cart of the session: its number and quantities
  clears,        \* history: how many carts were cleared; numbers the carts
  requests,
  orders,        \* table: the orders and their items
  accepted,      \* orders the server has accepted and not processed
  bought,        \* history: the purchases the server asked of the world
  sent,          \* history: the carts that were sent, once for each order
  loads,         \* history: how many requests there were
  overlapped,    \* history: two of them ran at one time
  packing        \* history: orders whose status the server has set

sessionVars == <<session, clears, loads, overlapped>>
serverVars == <<accepted, bought, packing>>
shopVars == <<catalogue, sessionVars, requests, orders, sent, serverVars>>
siteVars == <<launchVars, shopVars>>

Quantities == [Products -> 0 .. MaxQuantity]
Empty == [p \in Products |-> 0]
In(items) == {p \in Products : items[p] > 0}
Cart == [no : Nat, items : Quantities]

Idle == [stage |-> "idle"]
Loaded == [stage : {"detail", "change", "order"}, cart : Cart]
Ordering == [stage : {"items", "sent"}, cart : Cart, order : 1 .. Len(orders),
             left : SUBSET Products]

-----------------------------------------------------------------------------
(* The cart *)

\* Cart(request): a copy of the session's cart.
Load(r, kind) ==
  /\ requests[r] = Idle
  /\ loads < MaxLoads /\ loads' = loads + 1
  /\ requests' = [requests EXCEPT ![r] = [stage |-> kind, cart |-> session]]
  /\ overlapped' = (overlapped \/ \E s \in Requests : requests[s] # Idle)
  /\ UNCHANGED <<catalogue, session, clears, orders, serverVars, sent>>

Finish(r) == requests' = [requests EXCEPT ![r] = Idle]

\* cart_add, with and without the flag "update", and cart_remove, each for a product
\* that exists; the middleware saves the session.
Add(cart, p, n) == [cart EXCEPT !.items[p] = @ + n]
Update(cart, p, n) == [cart EXCEPT !.items[p] = n]

cart_change(r) ==
  /\ requests[r].stage = "change"
  /\ \E p \in catalogue, n \in 1 .. MaxQuantity :
       session' \in {Add(requests[r].cart, p, n), Update(requests[r].cart, p, n),
                     Update(requests[r].cart, p, 0)}
  /\ session' \in Cart
  /\ Finish(r)
  /\ UNCHANGED <<catalogue, clears, orders, serverVars, sent, overlapped, loads>>

\* A page that shows the cart saves it only if it was empty.
cart_detail(r) ==
  /\ requests[r].stage = "detail"
  /\ session' = IF requests[r].cart.items = Empty THEN requests[r].cart ELSE session
  /\ Finish(r)
  /\ UNCHANGED <<catalogue, clears, orders, serverVars, sent, overlapped, loads>>

-----------------------------------------------------------------------------
(* order_create *)

SaveOrder(r) ==
  LET cart == requests[r].cart
      o == Len(orders) + 1
  IN  /\ requests[r].stage = "order"
      /\ Len(orders) < MaxOrders
      /\ orders' = Append(orders, [status |-> "ordered", items |-> Empty])
      /\ requests' = [requests EXCEPT ![r] =
           [stage |-> "items", cart |-> cart, order |-> o, left |-> In(cart.items)]]
      /\ UNCHANGED <<catalogue, sessionVars, serverVars, sent>>

\* Item p of the order of request r is not stored yet.
Left(r, p) == requests[r].stage \in {"items", "sent"} /\ p \in requests[r].left

StoreItem(r, p) ==
  LET o == requests[r].order
  IN  /\ Left(r, p)
      /\ p \in catalogue
      /\ orders' = [orders EXCEPT ![o] =
           [@ EXCEPT !.status = "ordered", !.items[p] = requests[r].cart.items[p]]]
      /\ requests' = [requests EXCEPT ![r].left = @ \ {p}]
      /\ UNCHANGED <<catalogue, sessionVars, serverVars, sent>>

\* The product of an item is gone: the request fails, its order stays as it is.
ItemFails(r, p) ==
  /\ Left(r, p)
  /\ p \notin catalogue
  /\ Finish(r)
  /\ UNCHANGED <<catalogue, sessionVars, orders, serverVars, sent>>

\* Faulty form: the order is sent before its last item is stored.
OneLeft(r) == Cardinality(requests[r].left) <= 1
AllStored(r) == requests[r].left = {}

FrontEndOpen == amazon = "linked"

\* sendOrder: a failure to connect is only printed.
sendOrder(r) ==
  LET q == requests[r]
  IN  /\ q.stage = "items" /\ AllStored(r)
      /\ IF FrontEndOpen
         THEN /\ accepted' = accepted \cup {[order |-> q.order, items |-> q.cart.items]}
              /\ sent' = sent \cup {[order |-> q.order, cart |-> q.cart]}
         ELSE UNCHANGED <<accepted, sent>>
      /\ requests' = [requests EXCEPT ![r] = [@ EXCEPT !.stage = "sent"]]
      /\ UNCHANGED <<catalogue, sessionVars, orders, bought, packing>>

\* Faulty form: the cart is kept.
Kept(cart) == cart
Cleared(cart) == [no |-> clears + 1, items |-> Empty]

\* cart.clear(): whatever the session holds by now, it has no cart afterwards.
clear(r) ==
  /\ requests[r].stage = "sent" /\ requests[r].left = {}
  /\ clears' = clears + 1
  /\ session' = Cleared(requests[r].cart)
  /\ Finish(r)
  /\ UNCHANGED <<catalogue, orders, serverVars, sent, overlapped, loads>>

\* A product is deleted by the administrator; its order items go with it.
DeleteProduct(p) ==
  /\ p \in catalogue
  /\ catalogue' = catalogue \ {p}
  /\ orders' = [o \in DOMAIN orders |-> [orders[o] EXCEPT !.items[p] = 0]]
  /\ UNCHANGED <<sessionVars, requests, serverVars, sent>>

-----------------------------------------------------------------------------
(* The front end of the server *)

\* Arithmetic of int: the value wraps.
Wrap(n) == ((n + IntLimit) % (2 * IntLimit)) - IntLimit

Distance(w, a) == Wrap((w - a[1]) * (w - a[1]) + (w - a[2]) * (w - a[2]))

\* Faulty form: of two equal distances the later one is taken.
NotFarther(d, e) == d <= e
Nearer(d, e) == d < e

\* The loop over w_list; best[n] is its choice after n warehouses, 0 before the first.
select_warehouse(a) ==
  LET best[n \in 0 .. WarehouseNum] ==
        IF n = 0 THEN 0
        ELSE IF best[n - 1] = 0 \/ Nearer(Distance(n, a), Distance(best[n - 1], a))
             THEN n
             ELSE best[n - 1]
  IN  best[WarehouseNum]

\* A thread of its own for each order; the purchase is sent to the world.
Process_order(c) ==
  /\ c \in accepted
  /\ accepted' = accepted \ {c}
  /\ bought' = bought \cup {[order |-> c.order, items |-> c.items,
                             whnum |-> select_warehouse(AddressOf[c.order])]}
  /\ UNCHANGED <<catalogue, sessionVars, requests, orders, sent, packing>>

\* Faulty form: the key of the choice is written instead of its value.
PackingKey == "PACKING"
Packing == "packing"

Update_Order_Status(b) ==
  /\ b \in bought /\ b.order \notin packing
  /\ orders' = [orders EXCEPT ![b.order].status = Packing]
  /\ packing' = packing \cup {b.order}
  /\ UNCHANGED <<catalogue, sessionVars, requests, accepted, bought, sent>>

-----------------------------------------------------------------------------

InitSite ==
  /\ InitLaunch
  /\ catalogue = Products
  /\ session = [no |-> 0, items |-> Empty] /\ clears = 0 /\ loads = 0
  /\ requests = [r \in Requests |-> Idle]
  /\ orders = <<>> /\ accepted = {} /\ bought = {} /\ sent = {}
  /\ overlapped = FALSE /\ packing = {}

Request(r) ==
  \/ \E kind \in {"detail", "change", "order"} : Load(r, kind)
  \/ cart_change(r) \/ cart_detail(r)
  \/ SaveOrder(r) \/ sendOrder(r) \/ clear(r)
  \/ \E p \in Products : StoreItem(r, p) \/ ItemFails(r, p)

FrontEnd ==
  \/ \E c \in accepted : Process_order(c)
  \/ \E b \in bought : Update_Order_Status(b)

ShopStep ==
  /\ \/ \E r \in Requests : Request(r)
     \/ \E p \in Products : DeleteProduct(p)
     \/ FrontEnd
  /\ UNCHANGED launchVars

\* The orders that a server has accepted are lost when it ends.
ServerStep ==
  /\ NextLaunch
  /\ accepted' = IF amazon = "linked" /\ amazon' # "linked" THEN {} ELSE accepted
  /\ UNCHANGED <<catalogue, sessionVars, requests, orders, bought, sent, packing>>

NextSite == ShopStep \/ ServerStep

SpecSite == InitSite /\ [][NextSite]_siteVars

FairSpecSite == SpecSite /\ LaunchFairness

-----------------------------------------------------------------------------
(* Properties *)

ShopTypeOK ==
  /\ catalogue \subseteq Products /\ session \in Cart /\ clears \in Nat
  /\ loads \in 0 .. MaxLoads /\ overlapped \in BOOLEAN
  /\ orders \in Seq([status : {"ordered", "packing"}, items : Quantities])
  /\ requests \in [Requests -> {Idle} \cup Loaded \cup Ordering]
  /\ sent \subseteq [order : 1 .. Len(orders), cart : Cart]
  /\ accepted \subseteq [order : 1 .. Len(orders), items : Quantities]
  /\ \A b \in bought : b.order \in 1 .. Len(orders) /\ b.items \in Quantities
  /\ packing \subseteq 1 .. Len(orders)

\* What the world is asked for is what the customer's table shows, except the products
\* that were deleted since: an order with a missing item is never bought.
BoughtAsStored ==
  \A b \in bought : \A p \in catalogue : orders[b.order].items[p] = b.items[p]

\* The whole-row saves of the site never undo a status that the server wrote.
StatusSurvives == \A o \in packing : orders[o].status = "packing"

\* Only requests that overlap make two orders of one cart.
OneOrderPerCart ==
  ~overlapped => \A s, t \in sent : s.cart.no = t.cart.no => s = t

\* Every order gets a warehouse, never -1, and within the range of int it gets the
\* nearest one, the first of several.
NearestWarehouse ==
  LET dist(w, a) == (w - a[1]) * (w - a[1]) + (w - a[2]) * (w - a[2])
  IN  \A b \in bought :
        LET a == AddressOf[b.order]
        IN  /\ b.whnum \in 1 .. WarehouseNum
            /\ (\A w \in 1 .. WarehouseNum : dist(w, a) < IntLimit) =>
                 b.whnum = Min({w \in 1 .. WarehouseNum :
                                  \A v \in 1 .. WarehouseNum : dist(w, a) <= dist(v, a)})

=============================================================================
