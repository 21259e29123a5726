---------------------------- MODULE MCOnlineStore ---------------------------
EXTENDS OnlineStore, TLC
CONSTANTS c1, c2, e1, e2, e3, r1, r2, r3

MCBaskets == {<<[product |-> 1, quantity |-> 2], [product |-> 2, quantity |-> 1]>>,
              <<[product |-> 1, quantity |-> 0]>>}
MCOrderIds == 1 .. MaxRequests
MCStartEmail == c1 :> e1 @@ c2 :> e2
MCStartPrices == <<3>>
=============================================================================
