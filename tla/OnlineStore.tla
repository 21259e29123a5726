------------------------------ MODULE OnlineStore ---------------------------
(***************************************************************************)
(* The online store: HTTP handlers that run concurrently, each working     *)
(* through its statements on one PostgreSQL database in READ COMMITTED     *)
(* transactions.  A handler is a slot of Requests; what its open           *)
(* transaction has written is part of req and reaches the tables of Shop   *)
(* at the commit, so a handler that fails has nothing to undo.             *)
(*                                                                         *)
(* Of PostgreSQL the model keeps what lets handlers meet: the row lock an  *)
(* UPDATE takes, the lock the foreign key of an order takes on the         *)
(* customer's row, the unique index on e-mails, which waits for            *)
(* transactions in progress, and the deadlock detector.                    *)
(***************************************************************************)
EXTENDS Shop

CONSTANTS
    Requests,      \* handlers that may run at the same time
    MaxRequests,   \* bound: requests in one behaviour
    StartEmail,    \* the customers table and the products table at the start
    StartPrices

ASSUME StoreAssumption ==
    /\ MaxRequests \in Nat
    /\ OrderIds = 1 .. MaxRequests /\ None \notin Customers \cup OrderIds \cup Order
    /\ Prices \subseteq Nat
    /\ Baskets \subseteq Seq(Item)
    /\ StartEmail \in [Customers -> Emails]
    /\ \A c, d \in Customers : StartEmail[c] = StartEmail[d] => c = d
    /\ StartPrices \in Seq(Prices)

VARIABLES
    req,        \* [Requests -> what the handler is doing]
    orderSeq,   \* the sequence of table orders: a rollback leaves a gap
    served,     \* requests so far
    unsure      \* orders stored although the client was told of a failure

vars == <<shop, req, orderSeq, served, unsure>>

Idle == [at |-> "idle"]

\* The request PlaceOrder works on: the items priced so far, and the draft
\* rows of its transaction.
OrderRequest ==
    [at : {"lookup", "order", "items", "total", "commitOrder"},
     customer : Customers, basket : Baskets, priced : Seq(OrderLine),
     id : OrderIds \cup {None}, inserted : Nat, sum : Nat, total : Nat]

EmailRequest ==
    [at : {"check", "lock", "claim", "commitEmail"},
     customer : Customers \cup {None}, email : Emails]

TypeOK ==
    /\ email \in [Customers -> Emails]
    /\ prices \in Seq(Prices)
    /\ orders \in [OrderIds -> Order \cup {None}]
    /\ req \in [Requests -> {Idle} \cup OrderRequest \cup EmailRequest]
    /\ orderSeq \in 0 .. MaxRequests /\ served \in 0 .. MaxRequests
    /\ promised \subseteq OrderIds /\ unsure \subseteq OrderIds

StoreInit ==
    /\ email = StartEmail /\ prices = StartPrices
    /\ orders = [id \in OrderIds |-> None] /\ promised = {}
    /\ req = [r \in Requests |-> Idle]
    /\ orderSeq = 0 /\ served = 0 /\ unsure = {}

Goes(r, q) == req' = [req EXCEPT ![r] = q]

Arrives(r) ==
    /\ req[r] = Idle
    /\ served < MaxRequests /\ served' = served + 1

\* A handler between two statements: only its own progress changes.
Private == UNCHANGED <<shop, orderSeq, served, unsure>>

\* The handler answers; its transaction, if one is open, is over.
Answer(r) == Goes(r, Idle)

\* Any error of PlaceOrder, UpdateEmail or CreateProduct is answered with
\* 400, after the rollback.
Fail(r) == Answer(r) /\ Private

----------------------------------------------------------------------------
(* Who waits for whom inside PostgreSQL.                                   *)

At(r, phases) == req[r].at \in phases

\* An UPDATE that changes an e-mail changes a key of the row, and locks it
\* also against foreign keys.
Rekeys(r) == req[r].email # email[req[r].customer]

Updating(c) == {r \in Requests :
                    At(r, {"claim", "commitEmail"}) /\ req[r].customer = c}

Ordering(c) == {r \in Requests :
                    At(r, {"items", "total", "commitOrder"}) /\ req[r].customer = c}

\* Transactions in progress that have entered e into the unique index or are
\* about to take it out.
Contending(r, e) ==
    {q \in Requests \ {r} :
        \/ At(q, {"commitEmail"}) /\ req[q].email = e
        \/ At(q, {"claim", "commitEmail"}) /\ Rekeys(q) /\ email[req[q].customer] = e}

WaitsFor(r) ==
    CASE req[r].at = "order" -> {q \in Updating(req[r].customer) : Rekeys(q)}
      [] req[r].at = "lock" /\ req[r].customer # None ->
             Updating(req[r].customer)
             \cup IF Rekeys(r) THEN Ordering(req[r].customer) ELSE {}
      [] req[r].at = "claim" -> Contending(r, req[r].email)
      [] OTHER -> {}

\* Everybody in S waits for somebody in S, and somebody for everybody.
Cycle(S) == \A q \in S : /\ WaitsFor(q) \cap S # {}
                         /\ \E p \in S : q \in WaitsFor(p)

----------------------------------------------------------------------------
(* PlaceOrder.                                                             *)

PlaceOrderArrives(r) ==
    /\ Arrives(r)
    /\ \E c \in Customers, b \in Baskets :
           Goes(r, [at |-> "lookup", customer |-> c, basket |-> b, priced |-> <<>>,
                    id |-> None, inserted |-> 0, sum |-> 0, total |-> 0])
    /\ UNCHANGED <<shop, orderSeq, unsure>>

Priced(r, it) == [req[r] EXCEPT !.priced = Append(@, Line(it))]

\* Seeded fault: the quantity is not checked.
AcceptableAtAll(it) == InStock(it.product)
\* A missing product or a quantity that is not positive ends the request.
Acceptable(it) == InStock(it.product) /\ it.quantity > 0

\* Seeded fault: a missing product is waited for.
LookUpPatient(r) ==
    /\ At(r, {"lookup"})
    /\ LET n == Len(req[r].priced) + 1 IN
       IF n > Len(req[r].basket) THEN Goes(r, [req[r] EXCEPT !.at = "order"])
       ELSE Goes(r, IF Acceptable(req[r].basket[n]) THEN Priced(r, req[r].basket[n]) ELSE req[r])
    /\ Private

\* The next item is looked up and priced, outside any transaction.
LookUp(r) ==
    /\ At(r, {"lookup"})
    /\ LET n == Len(req[r].priced) + 1 IN
       IF n > Len(req[r].basket) THEN Goes(r, [req[r] EXCEPT !.at = "order"])
       ELSE Goes(r, IF Acceptable(req[r].basket[n]) THEN Priced(r, req[r].basket[n]) ELSE Idle)
    /\ Private

\* The draft row gets its id; an id that is rolled back is not used again.
DraftOrder(r) ==
    /\ At(r, {"order"}) /\ WaitsFor(r) = {}
    /\ orderSeq + 1 \in OrderIds      \* always: one order per request
    /\ orderSeq' = orderSeq + 1
    /\ Goes(r, [req[r] EXCEPT !.at = "items", !.id = orderSeq + 1])

\* Seeded fault: the row is stored outside the transaction.
InsertOrderAutocommit(r) ==
    /\ DraftOrder(r)
    /\ orders' = [orders EXCEPT ![orderSeq + 1] =
                      [customer |-> req[r].customer, asked |-> req[r].basket,
                       lines |-> <<>>, total |-> 0]]
    /\ UNCHANGED <<email, prices, promised, served, unsure>>

InsertOrder(r) == DraftOrder(r) /\ UNCHANGED <<shop, served, unsure>>

\* Seeded fault: the last item is left out.
InsertItemButLast(r) ==
    /\ At(r, {"items"})
    /\ LET n == req[r].inserted + 1 IN
       IF n >= Len(req[r].priced) THEN Goes(r, [req[r] EXCEPT !.at = "total"])
       ELSE Goes(r, [req[r] EXCEPT !.inserted = n, !.sum = @ + req[r].priced[n].subtotal])
    /\ Private

InsertItem(r) ==
    /\ At(r, {"items"})
    /\ LET n == req[r].inserted + 1 IN
       IF n > Len(req[r].priced) THEN Goes(r, [req[r] EXCEPT !.at = "total"])
       ELSE Goes(r, [req[r] EXCEPT !.inserted = n, !.sum = @ + req[r].priced[n].subtotal])
    /\ Private

\* Seeded fault: the row keeps the total it was created with.
UpdateTotalForgotten(r) ==
    At(r, {"total"}) /\ Goes(r, [req[r] EXCEPT !.at = "commitOrder"]) /\ Private

UpdateTotal(r) ==
    /\ At(r, {"total"})
    /\ Goes(r, [req[r] EXCEPT !.at = "commitOrder", !.total = req[r].sum])
    /\ Private

\* COMMIT: 201 with the order, or the reply is lost and the answer is 400.
CommitOrder(r) ==
    /\ At(r, {"commitOrder"})
    /\ LET q == req[r] IN
       /\ orders' = [orders EXCEPT ![q.id] =
                         [customer |-> q.customer, asked |-> q.basket,
                          lines |-> SubSeq(q.priced, 1, q.inserted), total |-> q.total]]
       /\ \/ promised' = promised \cup {q.id} /\ UNCHANGED unsure
          \/ unsure' = unsure \cup {q.id} /\ UNCHANGED promised
    /\ Answer(r)
    /\ UNCHANGED <<email, prices, orderSeq, served>>

----------------------------------------------------------------------------
(* UpdateEmail.  The id in the path need not be a customer's.              *)

UpdateEmailArrives(r) ==
    /\ Arrives(r)
    /\ \E c \in Customers \cup {None}, e \in Emails :
           Goes(r, [at |-> "check", customer |-> c, email |-> e])
    /\ UNCHANGED <<shop, orderSeq, unsure>>

Owners(e, c) == {d \in Customers \ {c} : email[d] = e}

\* SELECT count(*) sees committed rows only.
CheckEmail(r) ==
    /\ At(r, {"check"})
    /\ IF Owners(req[r].email, req[r].customer) # {} THEN Fail(r)
       ELSE Goes(r, [req[r] EXCEPT !.at = "lock"]) /\ Private

\* UPDATE, first half: the row is found and locked; no row is an error.
LockRow(r) ==
    /\ At(r, {"lock"}) /\ WaitsFor(r) = {}
    /\ IF req[r].customer = None THEN Fail(r)
       ELSE Goes(r, [req[r] EXCEPT !.at = "claim"]) /\ Private

\* UPDATE, second half: the entry in the unique index.
\* Seeded fault: the index is not unique, the count alone decides.
ClaimEmailUnindexed(r) ==
    At(r, {"claim"}) /\ Goes(r, [req[r] EXCEPT !.at = "commitEmail"]) /\ Private

ClaimEmail(r) ==
    /\ At(r, {"claim"}) /\ WaitsFor(r) = {}
    /\ IF Owners(req[r].email, req[r].customer) # {} THEN Fail(r)
       ELSE Goes(r, [req[r] EXCEPT !.at = "commitEmail"]) /\ Private

\* COMMIT; whether the reply arrives makes no difference to the tables.
CommitEmail(r) ==
    /\ At(r, {"commitEmail"})
    /\ email' = [email EXCEPT ![req[r].customer] = req[r].email]
    /\ Answer(r)
    /\ UNCHANGED <<prices, orders, promised, orderSeq, served, unsure>>

----------------------------------------------------------------------------
(* CreateProduct, one INSERT; and what may end any request.                *)

CreateProduct(r) ==
    /\ Arrives(r)
    /\ \E price \in Prices : prices' = Append(prices, price)
    /\ UNCHANGED <<email, orders, promised, req, orderSeq, unsure>>

\* A body that does not parse, an empty e-mail or name, a negative price, an
\* unknown customer: the answer is 400 before anything is written.
Refuse(r) == Arrives(r) /\ UNCHANGED <<shop, req, orderSeq, unsure>>

\* A statement fails, or the client goes away and takes the context with it.
Break(r) == req[r] # Idle /\ Fail(r)

\* PostgreSQL aborts one transaction of a deadlock.
Victim(r) ==
    /\ At(r, {"claim"})       \* the others hold no row while they wait
    /\ \E S \in SUBSET Requests : r \in S /\ Cycle(S)
    /\ Fail(r)

OrderStep(r) == LookUp(r) \/ InsertOrder(r) \/ InsertItem(r) \/ UpdateTotal(r) \/ CommitOrder(r)
EmailStep(r) == CheckEmail(r) \/ LockRow(r) \/ ClaimEmail(r) \/ CommitEmail(r)
Serve(r)     == OrderStep(r) \/ EmailStep(r) \/ Victim(r)

Over == served = MaxRequests /\ (\A r \in Requests : req[r] = Idle) /\ UNCHANGED vars

StoreNext ==
    \/ \E r \in Requests :
        \/ PlaceOrderArrives(r) \/ UpdateEmailArrives(r) \/ CreateProduct(r) \/ Refuse(r)
        \/ Serve(r) \/ Break(r)
    \/ Over

StoreSpec == StoreInit /\ [][StoreNext]_vars

\* Every handler is a goroutine of net/http and every statement a query that
\* PostgreSQL answers; requests need not arrive.
FairStore == StoreSpec /\ \A r \in Requests : WF_vars(Serve(r))

----------------------------------------------------------------------------
(* Properties.                                                             *)

\* No two customers share an e-mail, although the count that looks for the
\* other one may be stale when the row is updated.
EmailsUnique == \A c, d \in Customers : email[c] = email[d] => c = d

\* A stored order has every item the client asked for, at the quantity asked
\* for and the product's price, and the total of these, whatever failed and
\* however many statements it took.
OrdersComplete ==
    \A id \in OrderIds : orders[id] # None =>
        orders[id] = Bill(orders[id].customer, orders[id].asked)

\* The answers can be trusted: an order is stored if and only if a client was
\* told of it, or lost the reply to its commit.
AnswersTrue ==
    {id \in OrderIds : orders[id] # None} = promised \cup unsure

\* Every request is answered, those that wait for each other's rows too.
EveryRequestAnswered == \A r \in Requests : []<>(req[r] = Idle)

\* The store behaves as if every request were served in one step.
ServesShop == Spec
=============================================================================
