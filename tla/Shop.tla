-------------------------------- MODULE Shop --------------------------------
(***************************************************************************)
(* What the online store promises its clients, as if every request were    *)
(* served in one step: no two customers share an e-mail, and an order is   *)
(* stored whole, priced and added up, or not at all.  An order that was    *)
(* answered with 201 is in "promised"; one whose answer was lost need not  *)
(* be.                                                                     *)
(***************************************************************************)
EXTENDS Integers, Sequences, Folds

CONSTANTS
    Customers,   \* ids in table customers: nothing adds or removes one
    Emails,
    Prices,
    Baskets,     \* possible PlaceOrderRequest.Items: sequences of
                 \* [product, quantity]
    OrderIds,    \* what the sequence of table orders hands out
    None         \* no such row

VARIABLES
    email,       \* [Customers -> Emails]
    prices,      \* table products: the price of product 1, 2, ...
    orders,      \* [OrderIds -> Order or None]: orders with their items and
                 \* what the client had asked for
    promised     \* orders a client was told of

shop == <<email, prices, orders, promised>>

Item == [product : Nat, quantity : Int]
OrderLine == [product : Nat, quantity : Nat \ {0}, subtotal : Nat]
Order == [customer : Customers, asked : Baskets, lines : Seq(OrderLine), total : Nat]

\* One row of order_items, and the sum that becomes total_amount.
Line(it) == [product  |-> it.product, quantity |-> it.quantity,
             subtotal |-> prices[it.product] * it.quantity]

Total(lines) ==
    MapThenFoldSet(LAMBDA x, y : x + y, 0, LAMBDA i : lines[i].subtotal,
                   LAMBDA S : CHOOSE i \in S : TRUE, DOMAIN lines)

InStock(p) == p \in 1 .. Len(prices)

Orderable(basket) ==
    \A i \in DOMAIN basket : InStock(basket[i].product) /\ basket[i].quantity > 0

Bill(c, basket) ==
    LET lines == [i \in DOMAIN basket |-> Line(basket[i])] IN
    [customer |-> c, asked |-> basket, lines |-> lines, total |-> Total(lines)]

ChangeEmail(c, e) ==
    /\ \A d \in Customers \ {c} : email[d] # e
    /\ email' = [email EXCEPT ![c] = e]
    /\ UNCHANGED <<prices, orders, promised>>

AddProduct(price) ==
    /\ prices' = Append(prices, price)
    /\ UNCHANGED <<email, orders, promised>>

PlaceOrder(id, c, basket) ==
    /\ orders[id] = None
    /\ Orderable(basket)
    /\ orders' = [orders EXCEPT ![id] = Bill(c, basket)]
    /\ promised' \in {promised, promised \cup {id}}
    /\ UNCHANGED <<email, prices>>

Init ==
    /\ email \in [Customers -> Emails]
    /\ \A c, d \in Customers : email[c] = email[d] => c = d
    /\ prices \in Seq(Prices)
    /\ orders = [id \in OrderIds |-> None]
    /\ promised = {}

Next ==
    \/ \E c \in Customers, e \in Emails : ChangeEmail(c, e)
    \/ \E price \in Prices : AddProduct(price)
    \/ \E id \in OrderIds, c \in Customers, b \in Baskets : PlaceOrder(id, c, b)

Spec == Init /\ [][Next]_shop
=============================================================================
