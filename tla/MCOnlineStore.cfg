CONSTANTS
    c1 = c1
    c2 = c2
    e1 = e1
    e2 = e2
    e3 = e3
    r1 = r1
    r2 = r2
    r3 = r3
    Customers = {c1, c2}
    Emails = {e1, e2, e3}
    Prices = {3}
    Baskets <- MCBaskets
    OrderIds <- MCOrderIds
    None = None
    Requests = {r1, r2, r3}
    MaxRequests = 4
    StartEmail <- MCStartEmail
    StartPrices <- MCStartPrices
SPECIFICATION FairStore
INVARIANTS TypeOK EmailsUnique OrdersComplete AnswersTrue
PROPERTIES ServesShop EveryRequestAnswered
