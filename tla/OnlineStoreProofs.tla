-------------------------- MODULE OnlineStoreProofs -------------------------
(***************************************************************************)
(* The store's promises for any number of customers, e-mails, handlers and *)
(* requests, and that it implements the Shop: whatever the handlers'       *)
(* statements interleave to, the tables change as if every request were    *)
(* served at its commit.                                                   *)
(***************************************************************************)
EXTENDS OnlineStore, SequenceTheorems, Recursion

\* A transaction that has inserted its order knows the id and never inserts
\* more items than were priced; an update past its lock is one of a
\* customer's row.
Consistent(x) ==
    /\ x.at \in {"lookup", "order", "items", "total", "commitOrder"} =>
        /\ x.inserted <= Len(x.priced)
        /\ x.at \in {"items", "total", "commitOrder"} => x.id \in OrderIds
    /\ x.at \in {"claim", "commitEmail"} => x.customer \in Customers

Progress == \A r \in Requests : Consistent(req[r])

\* Whoever is about to commit an e-mail is alone with it.
Claims ==
    \A r \in Requests : At(r, {"commitEmail"}) =>
        /\ \A d \in Customers \ {req[r].customer} : email[d] # req[r].email
        /\ \A q \in Requests \ {r} : At(q, {"commitEmail"}) => req[q].email # req[r].email

IInv == TypeOK /\ Progress /\ Claims /\ EmailsUnique /\ AnswersTrue

States == {Idle} \cup OrderRequest \cup EmailRequest

\* The phase tells which kind of request a handler works on.
LEMMA Kind ==
    ASSUME TypeOK, NEW r \in Requests
    PROVE  /\ At(r, {"lookup", "order", "items", "total", "commitOrder"}) =>
                  req[r] \in OrderRequest
           /\ At(r, {"check", "lock", "claim", "commitEmail"}) => req[r] \in EmailRequest
<1>1. req[r] \in States
  BY DEF TypeOK, States
<1> QED
  BY <1>1 DEF States, At, Idle, OrderRequest, EmailRequest

\* A line is well typed when its item is acceptable.
LEMMA LineType ==
    ASSUME TypeOK, NEW b \in Baskets, NEW n \in 1 .. Len(b), Acceptable(b[n])
    PROVE  Line(b[n]) \in OrderLine
<1>0. b \in Seq(Item) /\ prices \in Seq(Prices) /\ Prices \subseteq Nat
  BY StoreAssumption DEF TypeOK
<1>1. b[n] \in Item
  BY <1>0, ElementOfSeq
<1>2. b[n].product \in 1 .. Len(prices) /\ b[n].quantity \in Nat \ {0}
  BY <1>1 DEF Acceptable, InStock, Item
<1>3. prices[b[n].product] \in Nat
  BY <1>0, <1>2, ElementOfSeq
<1>4. prices[b[n].product] * b[n].quantity \in Nat
  BY <1>2, <1>3
<1> QED
  BY <1>2, <1>4 DEF Line, OrderLine

Sound(x) == x \in States /\ Consistent(x)

Ordered(x) == x \in {Idle} \cup OrderRequest /\ Consistent(x)

\* Each statement of an order leaves a well typed, consistent request.
LEMMA Appended ==
    ASSUME NEW q \in OrderRequest, Consistent(q), q.at = "lookup", NEW l \in OrderLine
    PROVE  Ordered([q EXCEPT !.priced = Append(q.priced, l)])
<1>1. /\ q.priced \in Seq(OrderLine) /\ q.inserted \in Nat
      /\ q.inserted <= Len(q.priced)
  BY DEF OrderRequest, Consistent
<1>2. /\ Append(q.priced, l) \in Seq(OrderLine)
      /\ q.inserted <= Len(Append(q.priced, l))
  BY <1>1
<1>3. ASSUME NEW p \in Seq(OrderLine), q.inserted <= Len(p)
      PROVE  Ordered([q EXCEPT !.priced = p])
  BY <1>3 DEF Ordered, Idle, Consistent, OrderRequest
<1> QED
  BY <1>2, <1>3

LEMMA Moved ==
    ASSUME NEW q \in OrderRequest, Consistent(q)
    PROVE  /\ q.at = "lookup" => Ordered([q EXCEPT !.at = "order"])
           /\ q.at = "items" => Ordered([q EXCEPT !.at = "total"])
           /\ q.at = "total" =>
                  Ordered([q EXCEPT !.at = "commitOrder", !.total = q.sum])
BY DEF Ordered, Idle, Consistent, OrderRequest

LEMMA Numbered ==
    ASSUME NEW q \in OrderRequest, Consistent(q), q.at = "order", NEW i \in OrderIds
    PROVE  Ordered([q EXCEPT !.at = "items", !.id = i])
BY DEF Ordered, Idle, Consistent, OrderRequest

LEMMA ItemInserted ==
    ASSUME NEW q \in OrderRequest, Consistent(q), q.at = "items",
           q.inserted + 1 <= Len(q.priced)
    PROVE  Ordered([q EXCEPT !.inserted = q.inserted + 1,
                                !.sum = q.sum + q.priced[q.inserted + 1].subtotal])
<1> DEFINE n == q.inserted + 1
           l == q.priced[n]
<1>1. /\ q.priced \in Seq(OrderLine) /\ q.sum \in Nat
      /\ n \in Nat /\ n \in 1 .. Len(q.priced)
  BY DEF OrderRequest
<1>2. l \in OrderLine
  BY <1>1, ElementOfSeq
<1>3. l.subtotal \in Nat
  BY <1>2 DEF OrderLine
<1>4. ASSUME NEW k \in Nat, NEW sum \in Nat, k <= Len(q.priced)
      PROVE  Ordered([q EXCEPT !.inserted = k, !.sum = sum])
  BY <1>4 DEF Ordered, Idle, Consistent, OrderRequest
<1>5. q.sum + l.subtotal \in Nat
  <2> HIDE DEF l
  <2> QED
    BY <1>1, <1>3
<1>6. n <= Len(q.priced)
  BY <1>1
<1> HIDE DEF n, l
<1>7. Ordered([q EXCEPT !.inserted = n, !.sum = q.sum + l.subtotal])
  BY <1>1, <1>4, <1>5, <1>6
<1> QED
  BY <1>7 DEF n, l

LEMMA OrderStepState ==
    ASSUME TypeOK, Progress, NEW r \in Requests, OrderStep(r)
    PROVE  \E x : Ordered(x) /\ req' = [req EXCEPT ![r] = x]
<1> DEFINE q == req[r]
<1>1. q \in OrderRequest /\ Consistent(q)
  BY Kind DEF OrderStep, LookUp, InsertOrder, DraftOrder, InsertItem, UpdateTotal,
              CommitOrder, At, Progress
<1>2. /\ q.basket \in Baskets /\ q.basket \in Seq(Item)
      /\ q.priced \in Seq(OrderLine) /\ q.inserted \in Nat
  BY <1>1, StoreAssumption DEF OrderRequest
<1>3. Ordered(Idle)
  BY DEF Ordered, Idle, Consistent
<1>4. CASE LookUp(r)
  <2> DEFINE n == Len(q.priced) + 1
             it == q.basket[n]
  <2>1. q.at = "lookup"
    BY <1>4 DEF LookUp, At
  <2>2. CASE n > Len(q.basket)
    BY <1>1, <1>4, <2>1, <2>2, Moved DEF LookUp, Goes
  <2>3. CASE ~(n > Len(q.basket)) /\ Acceptable(it)
    <3>1. n \in 1 .. Len(q.basket)
      BY <1>2, <2>3
    <3>2. Line(it) \in OrderLine
      BY <1>2, <2>3, <3>1, LineType
    <3>3. Ordered(Priced(r, it))
      BY <1>1, <2>1, <3>2, Appended DEF Priced
    <3>4. req' = [req EXCEPT ![r] = Priced(r, it)]
      BY <1>4, <2>3 DEF LookUp, Goes
    <3> QED
      BY <3>3, <3>4
  <2>4. CASE ~(n > Len(q.basket)) /\ ~Acceptable(it)
    BY <1>3, <1>4, <2>4 DEF LookUp, Goes
  <2> QED
    BY <2>2, <2>3, <2>4
<1>5. CASE InsertOrder(r)
  BY <1>1, <1>5, Numbered DEF InsertOrder, DraftOrder, Goes, At
<1>6. CASE InsertItem(r)
  <2>1. q.at = "items"
    BY <1>6 DEF InsertItem, At
  <2>2. CASE q.inserted + 1 > Len(q.priced)
    BY <1>1, <1>6, <2>1, <2>2, Moved DEF InsertItem, Goes
  <2>3. CASE ~(q.inserted + 1 > Len(q.priced))
    <3>1. q.inserted + 1 <= Len(q.priced)
      BY <1>2, <2>3
    <3> QED
      BY <1>1, <1>6, <2>1, <2>3, <3>1, ItemInserted DEF InsertItem, Goes
  <2> QED
    BY <2>2, <2>3
<1>7. CASE UpdateTotal(r)
  BY <1>1, <1>7, Moved DEF UpdateTotal, Goes, At
<1>8. CASE CommitOrder(r)
  BY <1>3, <1>8 DEF CommitOrder, Answer, Goes
<1> QED
  BY <1>4, <1>5, <1>6, <1>7, <1>8 DEF OrderStep

LEMMA EmailStepState ==
    ASSUME TypeOK, Progress, NEW r \in Requests, EmailStep(r)
    PROVE  \E x : Sound(x) /\ req' = [req EXCEPT ![r] = x]
<1> DEFINE q == req[r]
<1>1. q \in EmailRequest /\ Consistent(q)
  BY Kind DEF EmailStep, CheckEmail, LockRow, ClaimEmail, CommitEmail, At, Progress
<1>2. Sound(Idle)
  BY DEF Sound, States, Idle, Consistent
<1>3. /\ q.at = "check" => Sound([q EXCEPT !.at = "lock"])
      /\ q.at = "lock" /\ q.customer # None => Sound([q EXCEPT !.at = "claim"])
      /\ q.at = "claim" => Sound([q EXCEPT !.at = "commitEmail"])
  BY <1>1 DEF Sound, States, Consistent, EmailRequest
<1> QED
  BY <1>2, <1>3
     DEF EmailStep, CheckEmail, LockRow, ClaimEmail, CommitEmail, Goes, Fail, Answer, At

\* Every step of a handler leaves the other handlers alone.
LEMMA StepState ==
    ASSUME TypeOK, Progress, StoreNext
    PROVE  \/ req' = req
           \/ \E r \in Requests : \E x : Sound(x) /\ req' = [req EXCEPT ![r] = x]
<1>1. Sound(Idle)
  BY DEF Sound, States, Idle, Consistent
<1>2. ASSUME NEW r \in Requests, PlaceOrderArrives(r)
      PROVE  \E x : Sound(x) /\ req' = [req EXCEPT ![r] = x]
  <2>1. ASSUME NEW c \in Customers, NEW b \in Baskets
        PROVE  Sound([at |-> "lookup", customer |-> c, basket |-> b, priced |-> <<>>,
                      id |-> None, inserted |-> 0, sum |-> 0, total |-> 0])
    BY DEF Sound, States, Consistent, OrderRequest
  <2> QED
    BY <1>2, <2>1 DEF PlaceOrderArrives, Goes
<1>3. ASSUME NEW r \in Requests, UpdateEmailArrives(r)
      PROVE  \E x : Sound(x) /\ req' = [req EXCEPT ![r] = x]
  <2>1. ASSUME NEW c \in Customers \cup {None}, NEW e \in Emails
        PROVE  Sound([at |-> "check", customer |-> c, email |-> e])
    BY DEF Sound, States, Consistent, EmailRequest
  <2> QED
    BY <1>3, <2>1 DEF UpdateEmailArrives, Goes
<1>4. ASSUME NEW r \in Requests, Break(r) \/ Victim(r)
      PROVE  req' = [req EXCEPT ![r] = Idle]
  BY <1>4 DEF Break, Victim, Fail, Answer, Goes
<1> QED
  BY <1>1, <1>2, <1>3, <1>4, OrderStepState, EmailStepState
     DEF StoreNext, Serve, CreateProduct, Refuse, Over, vars, Ordered, Sound, States

LEMMA ProgressStep ==
    ASSUME TypeOK, Progress, [StoreNext]_vars
    PROVE  Progress' /\ req' \in [Requests -> States]
<1>1. CASE req' = req
  BY <1>1 DEF TypeOK, Progress, States
<1>2. ASSUME NEW r \in Requests, NEW x, Sound(x), req' = [req EXCEPT ![r] = x]
      PROVE  Progress' /\ req' \in [Requests -> States]
  BY <1>2 DEF TypeOK, Progress, Sound, States
<1> QED
  BY <1>1, <1>2, StepState DEF vars

\* What CommitOrder stores is an order.
LEMMA CommitStores ==
    ASSUME TypeOK, Progress, NEW r \in Requests, CommitOrder(r)
    PROVE  /\ req[r].id \in OrderIds
           /\ \E o \in Order : orders' = [orders EXCEPT ![req[r].id] = o]
<1> DEFINE q == req[r]
           lines == SubSeq(q.priced, 1, q.inserted)
<1>1. q \in OrderRequest /\ Consistent(q) /\ q.at = "commitOrder"
  BY Kind DEF CommitOrder, At, Progress
<1>2. /\ q.id \in OrderIds /\ q.customer \in Customers /\ q.basket \in Baskets
      /\ q.priced \in Seq(OrderLine) /\ q.total \in Nat
      /\ q.inserted \in Nat /\ q.inserted <= Len(q.priced)
  BY <1>1 DEF OrderRequest, Consistent
<1>3. \A i \in 1 .. q.inserted : q.priced[i] \in OrderLine
  BY <1>2, ElementOfSeq
<1>4. lines \in Seq(OrderLine)
  <2>1. 1 \in Int /\ q.inserted \in Int
    BY <1>2
  <2> QED
    BY <1>3, <2>1, SubSeqProperties
<1> HIDE DEF lines
<1>5. [customer |-> q.customer, asked |-> q.basket, lines |-> lines,
       total |-> q.total] \in Order
  BY <1>2, <1>4 DEF Order
<1>6. orders' = [orders EXCEPT ![q.id] =
                     [customer |-> q.customer, asked |-> q.basket, lines |-> lines,
                      total |-> q.total]]
  BY DEF CommitOrder, lines
<1> QED
  BY <1>2, <1>5, <1>6

\* The tables keep their types, and an order is stored with its answer.
LEMMA OrdersStep ==
    ASSUME TypeOK, Progress, [StoreNext]_vars
    PROVE  /\ orders' \in [OrderIds -> Order \cup {None}]
           /\ promised' \subseteq OrderIds /\ unsure' \subseteq OrderIds
           /\ AnswersTrue => AnswersTrue'
<1>1. CASE UNCHANGED <<orders, promised, unsure>>
  BY <1>1 DEF TypeOK, AnswersTrue
<1>2. ASSUME NEW r \in Requests, CommitOrder(r)
      PROVE  /\ orders' \in [OrderIds -> Order \cup {None}]
             /\ promised' \subseteq OrderIds /\ unsure' \subseteq OrderIds
             /\ AnswersTrue => AnswersTrue'
  <2> DEFINE i == req[r].id
  <2>1. i \in OrderIds
    BY <1>2, CommitStores
  <2>2. PICK o \in Order : orders' = [orders EXCEPT ![i] = o]
    BY <1>2, CommitStores
  <2>3. promised' \cup unsure' = promised \cup unsure \cup {i}
    BY <1>2 DEF CommitOrder
  <2>4. o # None
    BY StoreAssumption
  <2> HIDE DEF i
  <2> QED
    BY <2>1, <2>2, <2>3, <2>4 DEF TypeOK, AnswersTrue
<1>3. ASSUME NEW r \in Requests, Serve(r), ~CommitOrder(r)
      PROVE  UNCHANGED <<orders, promised, unsure>>
  BY <1>3 DEF Serve, OrderStep, EmailStep, LookUp, InsertOrder, InsertItem,
     UpdateTotal, CheckEmail, LockRow, ClaimEmail, CommitEmail, Victim, Fail,
     Private, shop
<1> QED
  BY <1>1, <1>2, <1>3
     DEF StoreNext, PlaceOrderArrives, UpdateEmailArrives, CreateProduct, Refuse,
         Break, Over, Fail, Private, shop, vars

\* So do the other variables.
LEMMA RestStep ==
    ASSUME TypeOK, Progress, [StoreNext]_vars
    PROVE  /\ email' \in [Customers -> Emails] /\ prices' \in Seq(Prices)
           /\ orderSeq' \in 0 .. MaxRequests /\ served' \in 0 .. MaxRequests
<1>1. ASSUME NEW r \in Requests, CommitEmail(r)
      PROVE  email' \in [Customers -> Emails]
  <2>1. req[r] \in EmailRequest
    BY <1>1, Kind DEF CommitEmail, At
  <2> QED
    BY <1>1, <2>1 DEF CommitEmail, EmailRequest, TypeOK
<1>2. ASSUME NEW r \in Requests, InsertOrder(r)
      PROVE  orderSeq' \in 0 .. MaxRequests
  BY <1>2, StoreAssumption DEF InsertOrder, DraftOrder
<1>3. ASSUME NEW r \in Requests, CreateProduct(r)
      PROVE  prices' \in Seq(Prices)
  BY <1>3 DEF CreateProduct, TypeOK
<1>4. ASSUME NEW r \in Requests, Arrives(r)
      PROVE  served' \in 0 .. MaxRequests
  BY <1>4, StoreAssumption DEF Arrives, TypeOK
<1>5. ASSUME NEW r \in Requests, Serve(r)
      PROVE  /\ UNCHANGED <<prices, served>>
             /\ CommitEmail(r) \/ UNCHANGED email
             /\ InsertOrder(r) \/ UNCHANGED orderSeq
  BY <1>5 DEF Serve, OrderStep, EmailStep, LookUp, InsertOrder, InsertItem,
     UpdateTotal, CommitOrder, CheckEmail, LockRow, ClaimEmail, CommitEmail, Victim,
     Fail, Private, shop
<1>6. ASSUME NEW r \in Requests, Break(r) PROVE UNCHANGED shop /\ UNCHANGED <<orderSeq, served>>
  BY <1>6 DEF Break, Fail, Private
<1>7. ASSUME NEW r \in Requests,
             PlaceOrderArrives(r) \/ UpdateEmailArrives(r) \/ Refuse(r) \/ CreateProduct(r)
      PROVE  /\ Arrives(r) /\ UNCHANGED <<email, orderSeq>>
             /\ CreateProduct(r) \/ UNCHANGED prices
  BY <1>7 DEF PlaceOrderArrives, UpdateEmailArrives, Refuse, CreateProduct, shop
<1>8. CASE UNCHANGED vars
  BY <1>8 DEF vars, shop, TypeOK
<1> QED
  BY <1>1, <1>2, <1>3, <1>4, <1>5, <1>6, <1>7, <1>8 DEF StoreNext, Over, TypeOK, shop

\* Nobody commits an e-mail that somebody else has or is about to have.
LEMMA EmailsStep ==
    ASSUME TypeOK, Progress, Claims, EmailsUnique, [StoreNext]_vars
    PROVE  Claims' /\ EmailsUnique'
<1>1. CASE UNCHANGED <<email, req>>
  BY <1>1 DEF Claims, EmailsUnique, At
<1>2. ASSUME NEW r \in Requests, NEW x, x.at # "commitEmail",
             UNCHANGED email, req' = [req EXCEPT ![r] = x]
      PROVE  Claims' /\ EmailsUnique'
  BY <1>2 DEF Claims, EmailsUnique, At, TypeOK
<1>3. Idle.at # "commitEmail"
  BY DEF Idle
<1>4. ASSUME NEW r \in Requests, ClaimEmail(r)
      PROVE  Claims' /\ EmailsUnique'
  <2> DEFINE q == req[r]
             x == [q EXCEPT !.at = "commitEmail"]
  <2>1. q \in EmailRequest /\ UNCHANGED email /\ q.at = "claim"
    BY <1>4, Kind DEF ClaimEmail, At, Fail, Private, shop
  <2>2. CASE Owners(q.email, q.customer) # {}
    BY <1>2, <1>3, <1>4, <2>1, <2>2 DEF ClaimEmail, Fail, Answer, Goes
  <2>3. CASE Owners(q.email, q.customer) = {}
    <3>1. \A d \in Customers \ {q.customer} : email[d] # q.email
      BY <2>3 DEF Owners
    <3>2. Contending(r, q.email) = {}
      BY <1>4, <2>1 DEF ClaimEmail, WaitsFor
    <3>3. \A p \in Requests \ {r} : At(p, {"commitEmail"}) => req[p].email # q.email
      BY <3>2 DEF Contending
    <3>4. /\ req' = [req EXCEPT ![r] = x]
          /\ x.email = q.email /\ x.customer = q.customer
      BY <1>4, <2>1, <2>3 DEF ClaimEmail, Goes, EmailRequest
    <3> HIDE DEF x
    <3> QED
      BY <2>1, <3>1, <3>3, <3>4 DEF Claims, EmailsUnique, At, TypeOK
  <2> QED
    BY <2>2, <2>3
<1>5. ASSUME NEW r \in Requests, CommitEmail(r)
      PROVE  Claims' /\ EmailsUnique'
  <2> DEFINE c == req[r].customer
             e == req[r].email
  <2>1. /\ req[r] \in EmailRequest /\ Consistent(req[r]) /\ req[r].at = "commitEmail"
        /\ email' = [email EXCEPT ![c] = e] /\ req' = [req EXCEPT ![r] = Idle]
    BY <1>5, Kind DEF CommitEmail, At, Progress, Answer, Goes
  <2>2. c \in Customers
    BY <2>1 DEF Consistent
  <2>3. /\ \A d \in Customers \ {c} : email[d] # e
        /\ \A q \in Requests \ {r} : At(q, {"commitEmail"}) => req[q].email # e
    BY <2>1 DEF Claims, At
  <2> HIDE DEF c, e
  <2>4. EmailsUnique'
    BY <2>1, <2>2, <2>3 DEF EmailsUnique, TypeOK
  <2>5. Claims'
    BY <1>3, <2>1, <2>2, <2>3 DEF Claims, At, TypeOK
  <2> QED
    BY <2>4, <2>5
<1>6. ASSUME NEW r \in Requests, CheckEmail(r) \/ LockRow(r) \/ Break(r) \/ Victim(r)
      PROVE  /\ UNCHANGED email
             /\ \E x : x.at # "commitEmail" /\ req' = [req EXCEPT ![r] = x]
  <2>1. UNCHANGED email
    BY <1>6 DEF CheckEmail, LockRow, Break, Victim, Fail, Private, shop
  <2>2. CASE req' = [req EXCEPT ![r] = Idle]
    BY <1>3, <2>1, <2>2
  <2>3. CASE CheckEmail(r) /\ req' = [req EXCEPT ![r] = [req[r] EXCEPT !.at = "lock"]]
    <3>1. req[r] \in EmailRequest
      BY <2>3, Kind DEF CheckEmail, At
    <3>2. [req[r] EXCEPT !.at = "lock"].at = "lock"
      BY <3>1 DEF EmailRequest
    <3> QED
      BY <2>1, <2>3, <3>2
  <2>4. CASE LockRow(r) /\ req' = [req EXCEPT ![r] = [req[r] EXCEPT !.at = "claim"]]
    <3>1. req[r] \in EmailRequest
      BY <2>4, Kind DEF LockRow, At
    <3>2. [req[r] EXCEPT !.at = "claim"].at = "claim"
      BY <3>1 DEF EmailRequest
    <3> QED
      BY <2>1, <2>4, <3>2
  <2> QED
    BY <1>6, <2>2, <2>3, <2>4 DEF CheckEmail, LockRow, Break, Victim, Fail, Answer, Goes
<1>7. ASSUME NEW r \in Requests, OrderStep(r)
      PROVE  /\ UNCHANGED email
             /\ \E x : x.at # "commitEmail" /\ req' = [req EXCEPT ![r] = x]
  <2>1. UNCHANGED email
    BY <1>7 DEF OrderStep, LookUp, InsertOrder, InsertItem, UpdateTotal, CommitOrder,
                Private, shop
  <2>2. \A x : Ordered(x) => x.at # "commitEmail"
    BY DEF Ordered, Idle, OrderRequest
  <2> QED
    BY <1>7, <2>1, <2>2, OrderStepState
<1>8. ASSUME NEW r \in Requests, PlaceOrderArrives(r) \/ UpdateEmailArrives(r)
      PROVE  /\ UNCHANGED email
             /\ \E x : x.at # "commitEmail" /\ req' = [req EXCEPT ![r] = x]
  BY <1>8 DEF PlaceOrderArrives, UpdateEmailArrives, Goes, shop
<1> QED
  BY <1>1, <1>2, <1>4, <1>5, <1>6, <1>7, <1>8
     DEF StoreNext, Serve, EmailStep, CreateProduct, Refuse, Over, vars, shop

\* The invariant is inductive.
THEOREM Invariance == StoreSpec => []IInv
<1>1. StoreInit => IInv
  <2> SUFFICES ASSUME StoreInit PROVE IInv
    OBVIOUS
  <2>1. TypeOK
    BY StoreAssumption DEF StoreInit, TypeOK
  <2>2. Progress /\ Claims
    BY DEF StoreInit, Progress, Claims, Consistent, Idle, At
  <2>3. EmailsUnique /\ AnswersTrue
    BY StoreAssumption DEF StoreInit, EmailsUnique, AnswersTrue
  <2> QED
    BY <2>1, <2>2, <2>3 DEF IInv
<1>2. IInv /\ [StoreNext]_vars => IInv'
  <2> SUFFICES ASSUME IInv, [StoreNext]_vars PROVE IInv'
    OBVIOUS
  <2>1. Progress' /\ req' \in [Requests -> States]
    BY ProgressStep DEF IInv
  <2>2. /\ orders' \in [OrderIds -> Order \cup {None}]
        /\ promised' \subseteq OrderIds /\ unsure' \subseteq OrderIds
        /\ AnswersTrue'
    BY OrdersStep DEF IInv
  <2>3. /\ email' \in [Customers -> Emails] /\ prices' \in Seq(Prices)
        /\ orderSeq' \in 0 .. MaxRequests /\ served' \in 0 .. MaxRequests
    BY RestStep DEF IInv
  <2>4. Claims' /\ EmailsUnique'
    BY EmailsStep DEF IInv
  <2> QED
    BY <2>1, <2>2, <2>3, <2>4 DEF IInv, TypeOK, States
<1> QED
  BY <1>1, <1>2, PTL DEF StoreSpec

\* Every reachable state of the store is well typed.
THEOREM TypeCorrect == StoreSpec => []TypeOK
BY Invariance, PTL DEF IInv

\* Two customers never share an e-mail, however stale the count was that a
\* request relied on.
THEOREM UniqueEmails == StoreSpec => []EmailsUnique
BY Invariance, PTL DEF IInv

\* An order is stored if and only if a client was told of it or lost the
\* reply to its commit: a request that failed left nothing behind.
THEOREM TrueAnswers == StoreSpec => []AnswersTrue
BY Invariance, PTL DEF IInv

----------------------------------------------------------------------------
(* What a bill adds up to.                                                 *)

Subtotals(lines) == [i \in DOMAIN lines |-> lines[i].subtotal]

\* Total is a sum of the subtotals.
LEMMA TotalIsSum ==
    ASSUME NEW lines \in Seq(OrderLine)
    PROVE  /\ IsFiniteSet(DOMAIN lines)
           /\ Subtotals(lines) \in [DOMAIN lines -> Nat]
           /\ \E g : /\ IsSum(g, DOMAIN lines, Subtotals(lines))
                    /\ Total(lines) = g[DOMAIN lines]
<1> DEFINE D == DOMAIN lines
           Eq(g) == g = [s \in SUBSET D |->
                             IF s = {} THEN 0
                             ELSE lines[CHOOSE x \in s : TRUE].subtotal
                                  + g[s \ {CHOOSE x \in s : TRUE}]]
<1>1. D = 1 .. Len(lines) /\ Len(lines) \in Nat
  BY LenProperties
<1>2. IsFiniteSet(D)
  <2>1. 1 \in Int /\ Len(lines) \in Int
    BY <1>1
  <2> QED
    BY <1>1, <2>1, FS_Interval
<1>3. \A i \in D : lines[i].subtotal \in Nat
  <2>1. \A i \in D : lines[i] \in OrderLine
    BY <1>1, ElementOfSeq
  <2> QED
    BY <2>1 DEF OrderLine
<1>4. Subtotals(lines) \in [D -> Nat]
  BY <1>3 DEF Subtotals
<1>5. Total(lines) = (CHOOSE g : Eq(g))[D]
  BY Zenon DEF Total, MapThenFoldSet
<1>6. ASSUME NEW g PROVE Eq(g) <=> IsSum(g, D, Subtotals(lines))
  <2>1. ASSUME NEW s \in SUBSET D, s # {}
        PROVE  Subtotals(lines)[Some(s)] = lines[CHOOSE x \in s : TRUE].subtotal
    BY <2>1 DEF Some, Subtotals
  <2>2. [s \in SUBSET D |-> IF s = {} THEN 0
                            ELSE lines[CHOOSE x \in s : TRUE].subtotal
                                 + g[s \ {CHOOSE x \in s : TRUE}]]
        = [s \in SUBSET D |-> IF s = {} THEN 0
                              ELSE Subtotals(lines)[Some(s)] + g[s \ {Some(s)}]]
    BY <2>1 DEF Some
  <2> QED
    BY <2>2 DEF IsSum
<1>7. PICK k : IsSum(k, D, Subtotals(lines))
  BY <1>2, <1>4, SumExists
<1> HIDE DEF Eq
<1>8. \E g : Eq(g)
  BY <1>6, <1>7
<1>9. Eq(CHOOSE g : Eq(g))
  BY <1>8
<1> QED
  BY <1>2, <1>4, <1>5, <1>6, <1>9

\* The total of no lines, and the total of one line more.
LEMMA TotalOfNothing == Total(<<>>) = 0
<1>1. <<>> \in Seq(OrderLine) /\ DOMAIN <<>> = {}
  BY EmptySeq, LenProperties
<1>2. PICK g : IsSum(g, {}, Subtotals(<<>>)) /\ Total(<<>>) = g[{}]
  BY <1>1, TotalIsSum
<1> QED
  BY <1>2 DEF IsSum

LEMMA TotalOfOneMore ==
    ASSUME NEW lines \in Seq(OrderLine), NEW n \in Nat, n + 1 <= Len(lines)
    PROVE  Total(SubSeq(lines, 1, n + 1))
               = Total(SubSeq(lines, 1, n)) + lines[n + 1].subtotal
<1> DEFINE a == SubSeq(lines, 1, n)
           b == SubSeq(lines, 1, n + 1)
           D == DOMAIN a
           E == DOMAIN b
           f == Subtotals(a)
           e == Subtotals(b)
<1>1. Len(lines) \in Nat /\ (\A i \in 1 .. Len(lines) : lines[i] \in OrderLine)
  BY LenProperties, ElementOfSeq
<1>2. /\ a \in Seq(OrderLine) /\ Len(a) = n
      /\ \A i \in 1 .. n : a[i] = lines[i]
  <2>1. 1 \in Int /\ n \in Int /\ (\A i \in 1 .. n : lines[i] \in OrderLine)
    BY <1>1
  <2>2. /\ SubSeq(lines, 1, n) \in Seq(OrderLine)
        /\ Len(SubSeq(lines, 1, n)) = IF 1 <= n THEN n - 1 + 1 ELSE 0
        /\ \A i \in 1 .. n - 1 + 1 : SubSeq(lines, 1, n)[i] = lines[1 + i - 1]
    BY <2>1, SubSeqProperties
  <2> QED
    BY <2>2
<1>3. /\ b \in Seq(OrderLine) /\ Len(b) = n + 1
      /\ \A i \in 1 .. n + 1 : b[i] = lines[i]
  <2>1. /\ 1 \in Int /\ n + 1 \in Int
        /\ \A i \in 1 .. n + 1 : lines[i] \in OrderLine
    BY <1>1
  <2>2. /\ SubSeq(lines, 1, n + 1) \in Seq(OrderLine)
        /\ Len(SubSeq(lines, 1, n + 1)) = IF 1 <= n + 1 THEN n + 1 - 1 + 1 ELSE 0
        /\ \A i \in 1 .. n + 1 - 1 + 1 :
               SubSeq(lines, 1, n + 1)[i] = lines[1 + i - 1]
    BY <2>1, SubSeqProperties
  <2> QED
    BY <2>2
<1> HIDE DEF a, b
<1>4. D = 1 .. n /\ E = 1 .. n + 1
  BY <1>2, <1>3, LenProperties
<1>5. /\ f = [i \in D |-> a[i].subtotal]
      /\ e = [i \in E |-> b[i].subtotal]
  BY DEF Subtotals
<1>6. IsFiniteSet(D) /\ f \in [D -> Nat]
  BY <1>2, TotalIsSum
<1>7. IsFiniteSet(E) /\ e \in [E -> Nat]
  BY <1>3, TotalIsSum
<1>8. PICK g : IsSum(g, D, f) /\ Total(a) = g[D]
  BY <1>2, TotalIsSum
<1>9. PICK k : IsSum(k, E, e) /\ Total(b) = k[E]
  BY <1>3, TotalIsSum
<1>10. (\A i \in D : f[i] = e[i]) /\ e[n + 1] = lines[n + 1].subtotal
  <2>1. \A i \in 1 .. n : i \in 1 .. n + 1 /\ f[i] = lines[i].subtotal
    BY <1>2, <1>4, <1>5
  <2>2. \A i \in 1 .. n + 1 : e[i] = lines[i].subtotal
    BY <1>3, <1>4, <1>5
  <2>3. n + 1 \in 1 .. n + 1
    OBVIOUS
  <2> HIDE DEF e, f, E
  <2> QED
    BY <1>4, <2>1, <2>2, <2>3
<1>11. D \in SUBSET E /\ n + 1 \in E /\ E \ {n + 1} = D
  BY <1>4
<1> HIDE DEF D, E, f, e
<1>12. k[E] = e[n + 1] + k[D]
  BY <1>7, <1>9, <1>11, SumTakesOut
<1>13. k[D] = g[D]
  BY <1>6, <1>7, <1>8, <1>9, <1>10, <1>11, SumAgrees, SMTT(30)
<1>14. e[n + 1] \in Nat /\ k[D] \in Nat
  <2>1. Sums(k, E, e)
    BY <1>7, <1>9, SumSolves
  <2> QED
    BY <1>7, <1>11, <2>1 DEF Sums
<1>15. Total(b) = Total(a) + lines[n + 1].subtotal
  BY <1>8, <1>9, <1>10, <1>12, <1>13, <1>14
<1> QED
  BY <1>15 DEF a, b

----------------------------------------------------------------------------
(* The books: what a handler has worked out so far, and what is stored.    *)

Drafting == {"lookup", "order", "items", "total", "commitOrder"}

\* The lines priced are the bill's, the sum is that of the lines inserted, and
\* a transaction about to commit has inserted them all.
Drafted(x) ==
    x.at \in Drafting =>
        /\ Len(x.priced) <= Len(x.basket)
        /\ x.at # "lookup" => Len(x.priced) = Len(x.basket)
        /\ \A i \in 1 .. Len(x.priced) :
               Acceptable(x.basket[i]) /\ x.priced[i] = Line(x.basket[i])
        /\ x.sum = Total(SubSeq(x.priced, 1, x.inserted))
        /\ x.at \in {"lookup", "order"} => x.inserted = 0
        /\ x.at \in {"total", "commitOrder"} => x.inserted = Len(x.priced)
        /\ x.at = "commitOrder" => x.total = x.sum

Books == \A r \in Requests : Drafted(req[r])

\* An id is handed out once: no stored order has it, and no other transaction.
InTransaction(r) == At(r, {"items", "total", "commitOrder"})

Numbering ==
    /\ \A id \in OrderIds : orders[id] # None => id <= orderSeq
    /\ \A r \in Requests : InTransaction(r) =>
           /\ req[r].id <= orderSeq /\ orders[req[r].id] = None
           /\ \A q \in Requests \ {r} : InTransaction(q) => req[q].id # req[r].id

\* What was ordered is still in the price list: nothing leaves it.
Filed == \A id \in OrderIds : orders[id] # None => Orderable(orders[id].asked)

Kept == Books /\ Numbering /\ Filed /\ OrdersComplete

\* No price changes; products are added at the end.
PricesKept == \A p : InStock(p) => InStock(p)' /\ prices'[p] = prices[p]

LEMMA PricesStep ==
    ASSUME TypeOK, [StoreNext]_vars
    PROVE  PricesKept
<1>1. CASE UNCHANGED prices
  BY <1>1 DEF PricesKept, InStock
<1>2. ASSUME NEW price \in Prices, prices' = Append(prices, price)
      PROVE  PricesKept
  <2>1. /\ prices \in Seq(Prices) /\ Len(prices) \in Nat
        /\ Len(prices') = Len(prices) + 1
        /\ \A i \in 1 .. Len(prices) : prices'[i] = prices[i]
    BY <1>2, AppendProperties, LenProperties DEF TypeOK
  <2> QED
    BY <2>1 DEF PricesKept, InStock
<1>3. ASSUME NEW r \in Requests, CreateProduct(r)
      PROVE  PricesKept
  BY <1>2, <1>3 DEF CreateProduct
<1>4. ASSUME NEW r \in Requests, Serve(r)
      PROVE  UNCHANGED prices
  BY <1>4 DEF Serve, OrderStep, EmailStep, LookUp, InsertOrder, InsertItem,
     UpdateTotal, CommitOrder, CheckEmail, LockRow, ClaimEmail, CommitEmail, Victim,
     Fail, Private, shop
<1> QED
  BY <1>1, <1>3, <1>4
     DEF StoreNext, PlaceOrderArrives, UpdateEmailArrives, Refuse, Break, Over, Fail,
         Private, shop, vars

\* So a line stays what it was, and so does a bill.
LEMMA LineKept ==
    ASSUME PricesKept, NEW it, Acceptable(it)
    PROVE  Acceptable(it)' /\ Line(it)' = Line(it)
<1>1. InStock(it.product) /\ it.quantity > 0
  BY DEF Acceptable
<1>2. InStock(it.product)' /\ prices'[it.product] = prices[it.product]
  BY <1>1 DEF PricesKept
<1> QED
  BY <1>1, <1>2 DEF Acceptable, Line

LEMMA DraftKept ==
    ASSUME PricesKept, NEW x, Drafted(x)
    PROVE  Drafted(x)'
<1>1. CASE x.at \in Drafting
  <2>1. \A i \in 1 .. Len(x.priced) :
            Acceptable(x.basket[i])' /\ x.priced[i] = Line(x.basket[i])'
    <3> SUFFICES ASSUME NEW i \in 1 .. Len(x.priced)
                 PROVE  Acceptable(x.basket[i])' /\ x.priced[i] = Line(x.basket[i])'
      OBVIOUS
    <3>1. Acceptable(x.basket[i]) /\ x.priced[i] = Line(x.basket[i])
      BY <1>1 DEF Drafted
    <3> QED
      BY <3>1, LineKept
  <2> QED
    BY <1>1, <2>1 DEF Drafted
<1>2. CASE x.at \notin Drafting
  BY <1>2 DEF Drafted
<1> QED
  BY <1>1, <1>2

LEMMA BillKept ==
    ASSUME PricesKept, NEW c, NEW b, Orderable(b)
    PROVE  Orderable(b)' /\ Bill(c, b)' = Bill(c, b)
<1>1. \A i \in DOMAIN b : Acceptable(b[i])
  BY DEF Orderable, Acceptable
<1>2. \A i \in DOMAIN b : Acceptable(b[i])' /\ Line(b[i])' = Line(b[i])
  BY <1>1, LineKept
<1>3. [i \in DOMAIN b |-> Line(b[i])]' = [i \in DOMAIN b |-> Line(b[i])]
  BY <1>2
<1>4. Orderable(b)'
  BY <1>2 DEF Orderable, Acceptable
<1> QED
  BY <1>3, <1>4 DEF Bill

\* Each statement of an order keeps its draft in order.
LEMMA AppendedDraft ==
    ASSUME NEW q \in OrderRequest, Drafted(q), q.at = "lookup",
           Len(q.priced) + 1 <= Len(q.basket),
           Acceptable(q.basket[Len(q.priced) + 1]),
           Line(q.basket[Len(q.priced) + 1]) \in OrderLine
    PROVE  Drafted([q EXCEPT !.priced = Append(q.priced, Line(q.basket[Len(q.priced) + 1]))])
<1> DEFINE n == Len(q.priced)
           p == Append(q.priced, Line(q.basket[n + 1]))
<1>1. q.priced \in Seq(OrderLine) /\ q.at \in Drafting /\ n \in Nat
  BY LenProperties DEF OrderRequest, Drafting
<1>2. /\ p \in Seq(OrderLine) /\ Len(p) = n + 1
      /\ \A i \in 1 .. n : p[i] = q.priced[i]
      /\ p[n + 1] = Line(q.basket[n + 1])
  BY <1>1, AppendProperties
<1>3. q.inserted = 0 /\ q.sum = Total(<<>>)
  <2>1. q.inserted = 0 /\ q.sum = Total(SubSeq(q.priced, 1, 0))
    BY <1>1 DEF Drafted
  <2>2. SubSeq(q.priced, 1, 0) = <<>>
    BY SubSeqEmpty
  <2> QED
    BY <2>1, <2>2
<1>4. SubSeq(p, 1, 0) = <<>>
  BY SubSeqEmpty
<1>5. \A i \in 1 .. n + 1 : Acceptable(q.basket[i]) /\ p[i] = Line(q.basket[i])
  <2>1. \A i \in 1 .. n : Acceptable(q.basket[i]) /\ q.priced[i] = Line(q.basket[i])
    BY <1>1 DEF Drafted
  <2>2. \A i \in 1 .. n + 1 : i \in 1 .. n \/ i = n + 1
    BY <1>1
  <2> QED
    BY <1>2, <2>1, <2>2
<1>6. n + 1 <= Len(q.basket)
  OBVIOUS
<1> HIDE DEF p, n
<1> DEFINE y == [q EXCEPT !.priced = p]
<1>7. /\ y.at = "lookup" /\ y.priced = p /\ y.basket = q.basket
      /\ y.inserted = q.inserted /\ y.sum = q.sum
  BY DEF OrderRequest
<1> HIDE DEF y
<1>8. Drafted(y)
  BY <1>2, <1>3, <1>4, <1>5, <1>6, <1>7 DEF Drafted
<1> QED
  BY <1>8 DEF y, p, n

LEMMA MovedDraft ==
    ASSUME NEW q \in OrderRequest, Drafted(q), Consistent(q)
    PROVE  /\ q.at = "lookup" /\ Len(q.priced) + 1 > Len(q.basket) =>
                  Drafted([q EXCEPT !.at = "order"])
           /\ q.at = "items" /\ q.inserted + 1 > Len(q.priced) =>
                  Drafted([q EXCEPT !.at = "total"])
           /\ q.at = "total" =>
                  Drafted([q EXCEPT !.at = "commitOrder", !.total = q.sum])
           /\ \A i : q.at = "order" =>
                  Drafted([q EXCEPT !.at = "items", !.id = i])
<1>1. /\ q.at \in Drafting /\ Len(q.priced) \in Nat /\ q.inserted \in Nat
      /\ q.inserted <= Len(q.priced) /\ q.basket \in Seq(Item) /\ Len(q.basket) \in Nat
  BY StoreAssumption, LenProperties DEF OrderRequest, Drafting, Consistent
<1>2. ASSUME NEW y, y.at \in Drafting, y.priced = q.priced, y.basket = q.basket,
             y.inserted = q.inserted, y.sum = q.sum,
             y.at # "lookup" => Len(q.priced) = Len(q.basket),
             y.at \in {"lookup", "order"} => q.inserted = 0,
             y.at \in {"total", "commitOrder"} => q.inserted = Len(q.priced),
             y.at = "commitOrder" => y.total = y.sum
      PROVE  Drafted(y)
  BY <1>1, <1>2 DEF Drafted
<1>3. ASSUME q.at = "lookup", Len(q.priced) + 1 > Len(q.basket)
      PROVE  Drafted([q EXCEPT !.at = "order"])
  <2> DEFINE y == [q EXCEPT !.at = "order"]
  <2>1. /\ y.at = "order" /\ y.priced = q.priced /\ y.basket = q.basket
        /\ y.inserted = q.inserted /\ y.sum = q.sum
    BY DEF OrderRequest
  <2>2. Len(q.priced) = Len(q.basket) /\ q.inserted = 0
    BY <1>1, <1>3 DEF Drafted
  <2> HIDE DEF y
  <2>3. Drafted(y)
    BY <1>2, <2>1, <2>2 DEF Drafting
  <2> QED
    BY <2>3 DEF y
<1>4. ASSUME q.at = "items", q.inserted + 1 > Len(q.priced)
      PROVE  Drafted([q EXCEPT !.at = "total"])
  <2> DEFINE y == [q EXCEPT !.at = "total"]
  <2>1. /\ y.at = "total" /\ y.priced = q.priced /\ y.basket = q.basket
        /\ y.inserted = q.inserted /\ y.sum = q.sum
    BY DEF OrderRequest
  <2>2. Len(q.priced) = Len(q.basket) /\ q.inserted = Len(q.priced)
    BY <1>1, <1>4 DEF Drafted
  <2> HIDE DEF y
  <2>3. Drafted(y)
    BY <1>2, <2>1, <2>2 DEF Drafting
  <2> QED
    BY <2>3 DEF y
<1>5. ASSUME q.at = "total"
      PROVE  Drafted([q EXCEPT !.at = "commitOrder", !.total = q.sum])
  <2> DEFINE y == [q EXCEPT !.at = "commitOrder", !.total = q.sum]
  <2>1. /\ y.at = "commitOrder" /\ y.priced = q.priced /\ y.basket = q.basket
        /\ y.inserted = q.inserted /\ y.sum = q.sum /\ y.total = q.sum
    BY DEF OrderRequest
  <2>2. Len(q.priced) = Len(q.basket) /\ q.inserted = Len(q.priced)
    BY <1>1, <1>5 DEF Drafted
  <2> HIDE DEF y
  <2>3. Drafted(y)
    BY <1>2, <2>1, <2>2 DEF Drafting
  <2> QED
    BY <2>3 DEF y
<1>6. ASSUME NEW i, q.at = "order"
      PROVE  Drafted([q EXCEPT !.at = "items", !.id = i])
  <2> DEFINE y == [q EXCEPT !.at = "items", !.id = i]
  <2>1. /\ y.at = "items" /\ y.priced = q.priced /\ y.basket = q.basket
        /\ y.inserted = q.inserted /\ y.sum = q.sum
    BY DEF OrderRequest
  <2>2. Len(q.priced) = Len(q.basket)
    BY <1>1, <1>6 DEF Drafted
  <2> HIDE DEF y
  <2>3. Drafted(y)
    BY <1>2, <2>1, <2>2 DEF Drafting
  <2> QED
    BY <2>3 DEF y
<1> QED
  BY <1>3, <1>4, <1>5, <1>6

LEMMA InsertedDraft ==
    ASSUME NEW q \in OrderRequest, Drafted(q), q.at = "items",
           q.inserted + 1 <= Len(q.priced)
    PROVE  Drafted([q EXCEPT !.inserted = q.inserted + 1,
                             !.sum = q.sum + q.priced[q.inserted + 1].subtotal])
<1> DEFINE n == q.inserted + 1
           t == q.sum + q.priced[n].subtotal
           y == [q EXCEPT !.inserted = n, !.sum = t]
<1>1. q.priced \in Seq(OrderLine) /\ q.inserted \in Nat /\ q.at \in Drafting
  BY DEF OrderRequest, Drafting
<1>2. q.sum = Total(SubSeq(q.priced, 1, q.inserted))
  BY <1>1 DEF Drafted
<1>3. t = Total(SubSeq(q.priced, 1, n))
  BY <1>1, <1>2, TotalOfOneMore
<1> HIDE DEF n, t
<1>4. /\ y.at = "items" /\ y.priced = q.priced /\ y.basket = q.basket
      /\ y.inserted = n /\ y.sum = t
  BY DEF OrderRequest
<1> HIDE DEF y
<1>5. Drafted(y)
  BY <1>1, <1>3, <1>4 DEF Drafted
<1> QED
  BY <1>5 DEF y, t, n

LEMMA OrderStepDraft ==
    ASSUME TypeOK, Progress, Books, NEW r \in Requests, OrderStep(r)
    PROVE  \E x : Drafted(x) /\ req' = [req EXCEPT ![r] = x]
<1> DEFINE q == req[r]
<1>1. q \in OrderRequest /\ Consistent(q) /\ Drafted(q)
  BY Kind DEF OrderStep, LookUp, InsertOrder, DraftOrder, InsertItem, UpdateTotal,
              CommitOrder, At, Progress, Books
<1>2. /\ q.basket \in Baskets /\ q.basket \in Seq(Item)
      /\ q.priced \in Seq(OrderLine) /\ q.inserted \in Nat
      /\ Len(q.priced) \in Nat /\ Len(q.basket) \in Nat
  BY <1>1, StoreAssumption, LenProperties DEF OrderRequest
<1>3. Drafted(Idle)
  BY DEF Drafted, Drafting, Idle
<1>4. CASE LookUp(r)
  <2> DEFINE n == Len(q.priced) + 1
  <2>1. q.at = "lookup"
    BY <1>4 DEF LookUp, At
  <2>2. CASE n > Len(q.basket)
    BY <1>1, <1>4, <2>1, <2>2, MovedDraft DEF LookUp, Goes
  <2>3. CASE ~(n > Len(q.basket)) /\ Acceptable(q.basket[n])
    <3>1. n \in 1 .. Len(q.basket) /\ n <= Len(q.basket)
      BY <1>2, <2>3
    <3>2. Line(q.basket[n]) \in OrderLine
      BY <1>2, <2>3, <3>1, LineType
    <3>3. Drafted(Priced(r, q.basket[n]))
      BY <1>1, <2>1, <2>3, <3>1, <3>2, AppendedDraft DEF Priced
    <3>4. req' = [req EXCEPT ![r] = Priced(r, q.basket[n])]
      BY <1>4, <2>3 DEF LookUp, Goes
    <3> QED
      BY <3>3, <3>4
  <2>4. CASE ~(n > Len(q.basket)) /\ ~Acceptable(q.basket[n])
    BY <1>3, <1>4, <2>4 DEF LookUp, Goes
  <2> QED
    BY <2>2, <2>3, <2>4
<1>5. CASE InsertOrder(r)
  BY <1>1, <1>5, MovedDraft DEF InsertOrder, DraftOrder, Goes, At
<1>6. CASE InsertItem(r)
  <2>1. q.at = "items"
    BY <1>6 DEF InsertItem, At
  <2>2. CASE q.inserted + 1 > Len(q.priced)
    BY <1>1, <1>6, <2>1, <2>2, MovedDraft DEF InsertItem, Goes
  <2>3. CASE ~(q.inserted + 1 > Len(q.priced))
    <3>1. q.inserted + 1 <= Len(q.priced)
      BY <1>2, <2>3
    <3> QED
      BY <1>1, <1>6, <2>1, <2>3, <3>1, InsertedDraft DEF InsertItem, Goes
  <2> QED
    BY <2>2, <2>3
<1>7. CASE UpdateTotal(r)
  BY <1>1, <1>7, MovedDraft DEF UpdateTotal, Goes, At
<1>8. CASE CommitOrder(r)
  BY <1>3, <1>8 DEF CommitOrder, Answer, Goes
<1> QED
  BY <1>4, <1>5, <1>6, <1>7, <1>8 DEF OrderStep

LEMMA BooksStep ==
    ASSUME TypeOK, Progress, Books, [StoreNext]_vars
    PROVE  Books'
<1>1. PricesKept
  BY PricesStep
<1>2. CASE req' = req
  BY <1>1, <1>2, DraftKept DEF Books
<1>3. ASSUME NEW r \in Requests, NEW x, Drafted(x), req' = [req EXCEPT ![r] = x]
      PROVE  Books'
  <2>1. ASSUME NEW p \in Requests PROVE Drafted(req[p])' \/ req'[p] = x
    <3>1. CASE p = r
      BY <1>3, <3>1 DEF TypeOK
    <3>2. CASE p # r
      <4>1. req'[p] = req[p]
        BY <1>3, <3>2 DEF TypeOK
      <4>2. PICK y : y = req[p]
        OBVIOUS
      <4>3. Drafted(y)'
        BY <1>1, <4>2, DraftKept DEF Books
      <4> QED
        BY <4>1, <4>2, <4>3
    <3> QED
      BY <3>1, <3>2
  <2>2. Drafted(x)'
    BY <1>1, <1>3, DraftKept
  <2> QED
    BY <2>1, <2>2 DEF Books
<1>4. Drafted(Idle)
  BY DEF Drafted, Drafting, Idle
<1>5. ASSUME NEW x, x.at \in {"check", "lock", "claim", "commitEmail"}
      PROVE  Drafted(x)
  BY <1>5 DEF Drafted, Drafting
<1>6. ASSUME NEW r \in Requests, PlaceOrderArrives(r) PROVE Books'
  <2>1. ASSUME NEW c \in Customers, NEW b \in Baskets
        PROVE  Drafted([at |-> "lookup", customer |-> c, basket |-> b, priced |-> <<>>,
                        id |-> None, inserted |-> 0, sum |-> 0, total |-> 0])
    <3> DEFINE y == [at |-> "lookup", customer |-> c, basket |-> b, priced |-> <<>>,
                     id |-> None, inserted |-> 0, sum |-> 0, total |-> 0]
    <3>1. /\ y.at = "lookup" /\ y.priced = <<>> /\ y.basket = b
          /\ y.inserted = 0 /\ y.sum = 0
      OBVIOUS
    <3>2. Len(b) \in Nat /\ Len(<<>>) = 0
      BY StoreAssumption, LenProperties
    <3>3. SubSeq(<<>>, 1, 0) = <<>>
      BY SubSeqEmpty
    <3>4. PICK e : e = <<>>
      OBVIOUS
    <3>5. /\ y.priced = e /\ Len(e) = 0 /\ Total(SubSeq(e, 1, 0)) = 0
      BY <3>1, <3>2, <3>3, <3>4, TotalOfNothing
    <3> HIDE DEF y
    <3>6. Drafted(y)
      BY <3>1, <3>2, <3>5 DEF Drafted
    <3> QED
      BY <3>6 DEF y
  <2> QED
    BY <1>3, <1>6, <2>1 DEF PlaceOrderArrives, Goes
<1>7. ASSUME NEW r \in Requests, UpdateEmailArrives(r) PROVE Books'
  <2>1. ASSUME NEW c \in Customers \cup {None}, NEW e \in Emails
        PROVE  Drafted([at |-> "check", customer |-> c, email |-> e])
    BY DEF Drafted, Drafting
  <2> QED
    BY <1>3, <1>7, <2>1 DEF UpdateEmailArrives, Goes
<1>8. ASSUME NEW r \in Requests, Break(r) \/ Victim(r) PROVE Books'
  BY <1>3, <1>4, <1>8 DEF Break, Victim, Fail, Answer, Goes
<1>9. ASSUME NEW r \in Requests, OrderStep(r) PROVE Books'
  BY <1>3, <1>9, OrderStepDraft
<1>10. ASSUME NEW r \in Requests, EmailStep(r) PROVE Books'
  <2>1. \E x : (x = Idle \/ x.at \in {"lock", "claim", "commitEmail"})
              /\ req' = [req EXCEPT ![r] = x]
    <3>1. req[r] \in EmailRequest
      BY <1>10, Kind DEF EmailStep, CheckEmail, LockRow, ClaimEmail, CommitEmail, At
    <3>2. \A a : [req[r] EXCEPT !.at = a].at = a
      BY <3>1 DEF EmailRequest
    <3> QED
      BY <1>10, <3>2 DEF EmailStep, CheckEmail, LockRow, ClaimEmail, CommitEmail, Fail,
                         Answer, Goes
  <2>2. PICK x : /\ x = Idle \/ x.at \in {"lock", "claim", "commitEmail"}
                 /\ req' = [req EXCEPT ![r] = x]
    BY <2>1
  <2>3. Drafted(x)
    BY <1>4, <1>5, <2>2
  <2> QED
    BY <1>3, <2>2, <2>3
<1> QED
  BY <1>2, <1>6, <1>7, <1>8, <1>9, <1>10
     DEF StoreNext, Serve, CreateProduct, Refuse, Over, vars

\* What is committed is the bill of what was asked for.
LEMMA CommitIsBill ==
    ASSUME TypeOK, Progress, Books, NEW r \in Requests, CommitOrder(r)
    PROVE  /\ req[r].id \in OrderIds /\ req[r].customer \in Customers
           /\ req[r].basket \in Baskets /\ Orderable(req[r].basket)
           /\ orders' = [orders EXCEPT ![req[r].id] = Bill(req[r].customer, req[r].basket)]
<1> DEFINE q == req[r]
<1>1. /\ q \in OrderRequest /\ Consistent(q) /\ Drafted(q) /\ q.at = "commitOrder"
      /\ q.at \in Drafting
  BY Kind DEF CommitOrder, At, Progress, Books, Drafting
<1>2. /\ q.priced \in Seq(OrderLine) /\ q.basket \in Seq(Item)
      /\ q.id \in OrderIds /\ q.customer \in Customers /\ q.basket \in Baskets
  BY <1>1, StoreAssumption DEF OrderRequest, Consistent
<1>3. /\ Len(q.priced) = Len(q.basket) /\ q.inserted = Len(q.priced)
      /\ \A i \in 1 .. Len(q.priced) :
             Acceptable(q.basket[i]) /\ q.priced[i] = Line(q.basket[i])
      /\ q.total = Total(SubSeq(q.priced, 1, q.inserted))
  BY <1>1 DEF Drafted
<1>4. SubSeq(q.priced, 1, q.inserted) = q.priced
  BY <1>2, <1>3, SubSeqFull
<1>5. /\ DOMAIN q.basket = 1 .. Len(q.basket)
      /\ q.priced = [i \in 1 .. Len(q.priced) |-> q.priced[i]]
  BY <1>2, LenProperties
<1>6. q.priced = [i \in DOMAIN q.basket |-> Line(q.basket[i])]
  BY <1>3, <1>5
<1>7. Orderable(q.basket)
  BY <1>3, <1>5 DEF Orderable, Acceptable
<1>8. orders' = [orders EXCEPT ![q.id] =
                     [customer |-> q.customer, asked |-> q.basket,
                      lines |-> q.priced, total |-> Total(q.priced)]]
  BY <1>3, <1>4 DEF CommitOrder
<1>9. Bill(q.customer, q.basket)
          = [customer |-> q.customer, asked |-> q.basket,
             lines |-> q.priced, total |-> Total(q.priced)]
  BY <1>6 DEF Bill
<1> QED
  BY <1>2, <1>7, <1>8, <1>9

\* Everybody else leaves the orders alone.
LEMMA OrdersElse ==
    ASSUME StoreNext
    PROVE  (\E r \in Requests : CommitOrder(r)) \/ UNCHANGED <<orders, promised>>
<1>1. ASSUME NEW r \in Requests, Serve(r), ~CommitOrder(r)
      PROVE  UNCHANGED <<orders, promised>>
  BY <1>1 DEF Serve, OrderStep, EmailStep, LookUp, InsertOrder, InsertItem,
     UpdateTotal, CheckEmail, LockRow, ClaimEmail, CommitEmail, Victim, Fail,
     Private, shop
<1> QED
  BY <1>1 DEF StoreNext, PlaceOrderArrives, UpdateEmailArrives, CreateProduct, Refuse,
              Break, Over, Fail, Private, shop, vars

\* A stored order is still in the price list, and its bill.
Whole(o) == o # None => Orderable(o.asked) /\ o = Bill(o.customer, o.asked)

LEMMA WholeKept ==
    ASSUME PricesKept, NEW o, Whole(o)
    PROVE  Whole(o)'
<1>1. CASE o # None
  <2>1. Orderable(o.asked) /\ o = Bill(o.customer, o.asked)
    BY <1>1 DEF Whole
  <2>2. Orderable(o.asked)' /\ Bill(o.customer, o.asked)' = Bill(o.customer, o.asked)
    BY <2>1, BillKept
  <2> QED
    BY <2>1, <2>2 DEF Whole
<1>2. CASE o = None
  BY <1>2 DEF Whole
<1> QED
  BY <1>1, <1>2

LEMMA FiledStep ==
    ASSUME TypeOK, Progress, Books, Filed, OrdersComplete, [StoreNext]_vars
    PROVE  Filed' /\ OrdersComplete'
<1>1. PricesKept
  BY PricesStep
<1>2. \A i \in OrderIds : Whole(orders[i])
  BY DEF Filed, OrdersComplete, Whole
<1>3. ASSUME NEW i \in OrderIds, orders'[i] = orders[i]
      PROVE  Whole(orders[i])'
  <2>1. PICK o : o = orders[i]
    OBVIOUS
  <2>2. Whole(o)'
    BY <1>1, <1>2, <2>1, WholeKept
  <2> QED
    BY <1>3, <2>1, <2>2
<1>4. ASSUME NEW r \in Requests, CommitOrder(r), NEW i \in OrderIds
      PROVE  Whole(orders[i])'
  <2>1. PICK j, o : /\ j \in OrderIds /\ Whole(o)
                    /\ orders' = [orders EXCEPT ![j] = o]
    <3>1. /\ Whole(Bill(req[r].customer, req[r].basket))
      BY <1>4, CommitIsBill DEF Whole, Bill
    <3> QED
      BY <1>4, <3>1, CommitIsBill
  <2>2. Whole(o)'
    BY <1>1, <2>1, WholeKept
  <2>3. CASE i = j
    <3>1. orders'[i] = o
      BY <2>1, <2>3 DEF TypeOK
    <3> QED
      BY <2>2, <3>1
  <2>4. CASE i # j
    BY <1>3, <2>1, <2>4 DEF TypeOK
  <2> QED
    BY <2>3, <2>4
<1>5. \A i \in OrderIds : Whole(orders[i])'
  BY <1>3, <1>4, OrdersElse DEF vars, shop
<1> QED
  BY <1>5 DEF Filed, OrdersComplete, Whole

\* Ids are handed out in order.
LEMMA NumberingStep ==
    ASSUME TypeOK, Progress, Books, Numbering, [StoreNext]_vars
    PROVE  Numbering'
<1>1. CASE UNCHANGED <<orders, req, orderSeq>>
  BY <1>1 DEF Numbering, InTransaction, At
<1>2. ASSUME NEW r \in Requests, NEW x, UNCHANGED <<orders, orderSeq>>,
             req' = [req EXCEPT ![r] = x],
             x.at \in {"items", "total", "commitOrder"} =>
                 InTransaction(r) /\ x.id = req[r].id
      PROVE  Numbering'
  BY <1>2 DEF Numbering, InTransaction, At, TypeOK
<1>3. Idle.at = "idle"
  BY DEF Idle
<1>4. ASSUME NEW r \in Requests, InsertOrder(r)
      PROVE  Numbering'
  <2> DEFINE x == [req[r] EXCEPT !.at = "items", !.id = orderSeq + 1]
  <2>1. /\ UNCHANGED orders /\ orderSeq' = orderSeq + 1 /\ orderSeq \in Nat
        /\ orderSeq + 1 \in OrderIds /\ req' = [req EXCEPT ![r] = x]
    BY <1>4 DEF InsertOrder, DraftOrder, Goes, shop, TypeOK
  <2>2. req[r] \in OrderRequest
    BY <1>4, Kind DEF InsertOrder, DraftOrder, At
  <2>3. x.id = orderSeq + 1
    BY <2>2 DEF OrderRequest
  <2> HIDE DEF x
  <2>4. \A id \in OrderIds : id \in Nat
    BY StoreAssumption
  <2>5. \A q \in Requests : InTransaction(q) => req[q].id \in OrderIds
    <3> TAKE q \in Requests
    <3>1. Consistent(req[q])
      BY DEF Progress
    <3> QED
      BY <3>1 DEF Consistent, InTransaction, At
  <2>6. orders'[orderSeq + 1] = None
    <3>1. ~(orderSeq + 1 <= orderSeq)
      BY <2>1
    <3> QED
      BY <2>1, <3>1 DEF Numbering
  <2>7. \A id \in OrderIds : orders'[id] # None => id <= orderSeq'
    BY <2>1, <2>4 DEF Numbering
  <2>8. /\ req'[r] = x
        /\ \A q \in Requests \ {r} : req'[q] = req[q]
    BY <2>1 DEF TypeOK
  <2>9. \A q \in Requests \ {r} : InTransaction(q)' =>
            /\ InTransaction(q) /\ req'[q].id = req[q].id /\ req[q].id \in Nat
            /\ req[q].id <= orderSeq /\ orders[req[q].id] = None
            /\ \A p \in Requests \ {q} : InTransaction(p) => req[p].id # req[q].id
    BY <2>4, <2>5, <2>8 DEF Numbering, InTransaction, At
  <2>10. ASSUME NEW q \in Requests, InTransaction(q)'
         PROVE  /\ req'[q].id <= orderSeq' /\ orders'[req'[q].id] = None
                /\ \A p \in Requests \ {q} : InTransaction(p)' => req'[p].id # req'[q].id
    <3>1. CASE q = r
      BY <2>1, <2>3, <2>6, <2>8, <2>9, <2>10, <3>1
    <3>2. CASE q # r
      <4>1. /\ req'[q].id <= orderSeq' /\ orders'[req'[q].id] = None
            /\ req'[q].id # orderSeq + 1
        BY <2>1, <2>9, <2>10, <3>2
      <4>2. ASSUME NEW p \in Requests \ {q}, InTransaction(p)'
            PROVE  req'[p].id # req'[q].id
        <5>1. CASE p = r
          BY <2>3, <2>8, <4>1, <5>1
        <5>2. CASE p # r
          BY <2>9, <2>10, <3>2, <4>2, <5>2
        <5> QED
          BY <5>1, <5>2
      <4> QED
        BY <4>1, <4>2
    <3> QED
      BY <3>1, <3>2
  <2> QED
    BY <2>7, <2>10 DEF Numbering
<1>5. ASSUME NEW r \in Requests, CommitOrder(r)
      PROVE  Numbering'
  <2> DEFINE j == req[r].id
  <2>1. /\ j \in OrderIds /\ UNCHANGED orderSeq
        /\ req' = [req EXCEPT ![r] = Idle]
    BY <1>5, CommitIsBill DEF CommitOrder, Answer, Goes
  <2>2. \A id \in OrderIds \ {j} : orders'[id] = orders[id]
    BY <1>5, CommitIsBill DEF TypeOK
  <2>3. InTransaction(r)
    BY <1>5 DEF CommitOrder, InTransaction, At
  <2>4. j <= orderSeq
    BY <2>3 DEF Numbering
  <2>5. \A q \in Requests : InTransaction(q)' =>
            InTransaction(q) /\ q # r /\ req'[q] = req[q]
    BY <1>3, <2>1 DEF InTransaction, At, TypeOK
  <2>6. \A q \in Requests \ {r} : InTransaction(q) => req[q].id \in OrderIds \ {j}
    <3> TAKE q \in Requests \ {r}
    <3>1. Consistent(req[q])
      BY DEF Progress
    <3> QED
      BY <2>3, <3>1 DEF Consistent, InTransaction, At, Numbering
  <2> HIDE DEF j
  <2> QED
    BY <2>1, <2>2, <2>4, <2>5, <2>6 DEF Numbering
<1>6. ASSUME NEW r \in Requests, OrderStep(r), ~InsertOrder(r), ~CommitOrder(r)
      PROVE  Numbering'
  <2> DEFINE q == req[r]
  <2>1. q \in OrderRequest
    BY <1>6, Kind DEF OrderStep, LookUp, InsertItem, UpdateTotal, At
  <2>2. UNCHANGED <<orders, orderSeq>>
    BY <1>6 DEF OrderStep, LookUp, InsertItem, UpdateTotal, Private, shop
  <2>3. CASE LookUp(r)
    <3>1. \/ req' = [req EXCEPT ![r] = [q EXCEPT !.at = "order"]]
          \/ \E l : req' = [req EXCEPT ![r] = [q EXCEPT !.priced = Append(@, l)]]
          \/ req' = [req EXCEPT ![r] = Idle]
      BY <2>3 DEF LookUp, Goes, Priced
    <3>2. q.at = "lookup"
      BY <2>3 DEF LookUp, At
    <3>3. /\ [q EXCEPT !.at = "order"].at = "order"
          /\ \A p : [q EXCEPT !.priced = p].at = "lookup"
      BY <2>1, <3>2 DEF OrderRequest
    <3> QED
      BY <1>2, <1>3, <2>2, <3>1, <3>3
  <2>4. CASE InsertItem(r)
    <3>1. \/ req' = [req EXCEPT ![r] = [q EXCEPT !.at = "total"]]
          \/ \E n, s : req' = [req EXCEPT ![r] = [q EXCEPT !.inserted = n, !.sum = s]]
      BY <2>4 DEF InsertItem, Goes
    <3>2. InTransaction(r)
      BY <2>4 DEF InsertItem, InTransaction, At
    <3>3. /\ [q EXCEPT !.at = "total"].id = q.id
          /\ \A n, s : [q EXCEPT !.inserted = n, !.sum = s].id = q.id
      BY <2>1 DEF OrderRequest
    <3> QED
      BY <1>2, <2>2, <3>1, <3>2, <3>3
  <2>5. CASE UpdateTotal(r)
    <3>1. req' = [req EXCEPT ![r] = [q EXCEPT !.at = "commitOrder", !.total = q.sum]]
      BY <2>5 DEF UpdateTotal, Goes
    <3>2. InTransaction(r)
      BY <2>5 DEF UpdateTotal, InTransaction, At
    <3>3. [q EXCEPT !.at = "commitOrder", !.total = q.sum].id = q.id
      BY <2>1 DEF OrderRequest
    <3> QED
      BY <1>2, <2>2, <3>1, <3>2, <3>3
  <2> QED
    BY <1>6, <2>3, <2>4, <2>5 DEF OrderStep
<1>7. ASSUME NEW r \in Requests, EmailStep(r)
      PROVE  Numbering'
  <2>1. \E x : (x = Idle \/ x.at \in {"lock", "claim", "commitEmail"})
              /\ req' = [req EXCEPT ![r] = x]
    <3>1. req[r] \in EmailRequest
      BY <1>7, Kind DEF EmailStep, CheckEmail, LockRow, ClaimEmail, CommitEmail, At
    <3>2. \A a : [req[r] EXCEPT !.at = a].at = a
      BY <3>1 DEF EmailRequest
    <3> QED
      BY <1>7, <3>2 DEF EmailStep, CheckEmail, LockRow, ClaimEmail, CommitEmail, Fail,
                         Answer, Goes
  <2>2. PICK x : /\ x = Idle \/ x.at \in {"lock", "claim", "commitEmail"}
                 /\ req' = [req EXCEPT ![r] = x]
    BY <2>1
  <2>3. x.at \notin {"items", "total", "commitOrder"}
    BY <1>3, <2>2
  <2>4. UNCHANGED <<orders, orderSeq>>
    BY <1>7 DEF EmailStep, CheckEmail, LockRow, ClaimEmail, CommitEmail, Fail, Private, shop
  <2> QED
    BY <1>2, <2>2, <2>3, <2>4
<1>8. ASSUME NEW r \in Requests, PlaceOrderArrives(r) \/ UpdateEmailArrives(r)
      PROVE  Numbering'
  <2>1. UNCHANGED <<orders, orderSeq>>
    BY <1>8 DEF PlaceOrderArrives, UpdateEmailArrives, shop
  <2>2. CASE PlaceOrderArrives(r)
    <3>1. PICK c \in Customers, b \in Baskets :
              req' = [req EXCEPT ![r] =
                  [at |-> "lookup", customer |-> c, basket |-> b, priced |-> <<>>,
                   id |-> None, inserted |-> 0, sum |-> 0, total |-> 0]]
      BY <2>2 DEF PlaceOrderArrives, Goes
    <3> QED
      BY <1>2, <2>1, <3>1
  <2>3. CASE UpdateEmailArrives(r)
    <3>1. PICK c \in Customers \cup {None}, e \in Emails :
              req' = [req EXCEPT ![r] = [at |-> "check", customer |-> c, email |-> e]]
      BY <2>3 DEF UpdateEmailArrives, Goes
    <3> QED
      BY <1>2, <2>1, <3>1
  <2> QED
    BY <1>8, <2>2, <2>3
<1>9. ASSUME NEW r \in Requests, Break(r) \/ Victim(r)
      PROVE  Numbering'
  BY <1>2, <1>3, <1>9 DEF Break, Victim, Fail, Answer, Goes, Private, shop
<1> QED
  BY <1>1, <1>4, <1>5, <1>6, <1>7, <1>8, <1>9
     DEF StoreNext, Serve, CreateProduct, Refuse, Over, vars, shop

\* What the store keeps is inductive too.
THEOREM Keeping == StoreSpec => []Kept
<1>1. StoreInit => Kept
  <2> SUFFICES ASSUME StoreInit PROVE Kept
    OBVIOUS
  <2>1. Books /\ Numbering
    BY DEF StoreInit, Books, Drafted, Drafting, Numbering, InTransaction, Idle, At
  <2>2. Filed /\ OrdersComplete
    BY DEF StoreInit, Filed, OrdersComplete
  <2> QED
    BY <2>1, <2>2 DEF Kept
<1>2. IInv /\ Kept /\ [StoreNext]_vars => Kept'
  <2> SUFFICES ASSUME IInv, Kept, [StoreNext]_vars PROVE Kept'
    OBVIOUS
  <2> QED
    BY BooksStep, NumberingStep, FiledStep DEF IInv, Kept
<1> QED
  BY <1>1, <1>2, Invariance, PTL DEF StoreSpec

\* A stored order is the bill of what its client asked for, line by line and in
\* its total, however many statements it took and whatever ran beside them.
THEOREM CompleteOrders == StoreSpec => []OrdersComplete
BY Keeping, PTL DEF Kept

----------------------------------------------------------------------------
(* The store implements the Shop.                                          *)

\* Every step of a handler is a step of the Shop, or changes no table.
LEMMA StepImplements ==
    ASSUME IInv, Kept, [StoreNext]_vars
    PROVE  [Next]_shop
<1> USE DEF IInv, Kept
<1>1. ASSUME NEW r \in Requests, CommitOrder(r) PROVE Next
  <2> DEFINE q == req[r]
  <2>1. /\ q.id \in OrderIds /\ q.customer \in Customers /\ q.basket \in Baskets
        /\ Orderable(q.basket)
        /\ orders' = [orders EXCEPT ![q.id] = Bill(q.customer, q.basket)]
    BY <1>1, CommitIsBill
  <2>2. orders[q.id] = None
    BY <1>1 DEF Numbering, InTransaction, CommitOrder, At
  <2>3. promised' \in {promised, promised \cup {q.id}} /\ UNCHANGED <<email, prices>>
    BY <1>1 DEF CommitOrder
  <2>4. PlaceOrder(q.id, q.customer, q.basket)
    BY <2>1, <2>2, <2>3 DEF PlaceOrder
  <2> QED
    BY <2>1, <2>4 DEF Next
<1>2. ASSUME NEW r \in Requests, CommitEmail(r) PROVE Next
  <2> DEFINE q == req[r]
  <2>1. q \in EmailRequest /\ Consistent(q) /\ q.at = "commitEmail"
    BY <1>2, Kind DEF CommitEmail, At, Progress
  <2>2. q.customer \in Customers /\ q.email \in Emails
    BY <2>1 DEF Consistent, EmailRequest
  <2>3. \A d \in Customers \ {q.customer} : email[d] # q.email
    BY <2>1 DEF Claims, At
  <2>4. ChangeEmail(q.customer, q.email)
    BY <1>2, <2>3 DEF ChangeEmail, CommitEmail
  <2> QED
    BY <2>2, <2>4 DEF Next
<1>3. ASSUME NEW r \in Requests, CreateProduct(r) PROVE Next
  BY <1>3 DEF CreateProduct, AddProduct, Next
<1>4. ASSUME NEW r \in Requests, Serve(r), ~CommitOrder(r), ~CommitEmail(r)
      PROVE  UNCHANGED shop
  BY <1>4 DEF Serve, OrderStep, EmailStep, LookUp, InsertOrder, InsertItem,
     UpdateTotal, CheckEmail, LockRow, ClaimEmail, Victim, Fail, Private
<1>5. ASSUME NEW r \in Requests,
             PlaceOrderArrives(r) \/ UpdateEmailArrives(r) \/ Refuse(r) \/ Break(r)
      PROVE  UNCHANGED shop
  BY <1>5 DEF PlaceOrderArrives, UpdateEmailArrives, Refuse, Break, Fail, Private
<1>6. CASE Over \/ UNCHANGED vars
  BY <1>6 DEF Over, vars
<1> QED
  BY <1>1, <1>2, <1>3, <1>4, <1>5, <1>6 DEF StoreNext

\* Whatever the statements of concurrent handlers interleave to, the tables
\* change as if every request were served in one step.
THEOREM Serves == StoreSpec => ServesShop
<1>1. StoreInit => Init
  BY StoreAssumption DEF StoreInit, Init
<1>2. IInv /\ Kept /\ [StoreNext]_vars => [Next]_shop
  BY StepImplements
<1> QED
  BY <1>1, <1>2, Invariance, Keeping, PTL DEF StoreSpec, ServesShop, Spec
=============================================================================
