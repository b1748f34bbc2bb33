------------------------------ MODULE MCVenues ------------------------------
(* The venues for TLC: orders of every type around two prices, a feed of   *)
(* small events with and without order ids, and prices around a dollar for *)
(* the resting order.                                                      *)
EXTENDS Venues

Offer(side, type, qty, limit, stop, tif, expires) ==
    [side |-> side, type |-> type, qty |-> qty, limit |-> limit, stop |-> stop, tif |-> tif,
     expires |-> expires]

SomeOffers ==
    {Offer("BUY", "limit", 2, 2, None, "GTC", 1),
     Offer("BUY", "limit", 2, 2, None, "FOK", None),
     Offer("BUY", "market", 2, None, None, "GTC", None),
     Offer("BUY", "stop", 1, None, 1, "GTC", None),
     Offer("SELL", "stop_limit", 1, 2, 1, "GTC", None),
     Offer("SELL", "limit", 1, 1, None, "IOC", None)}

Event(type, levels, sizes, ids) ==
    {[type |-> type, side |-> l[1], price |-> l[2], size |-> s, id |-> k] :
        l \in levels, s \in sizes, k \in ids}

SomeEvents ==
    Event("ADD", {<<"BUY", 2>>, <<"SELL", 1>>, <<"SELL", 2>>}, {2}, {NoId, 1})
        \cup Event("CANCEL", {<<"BUY", 2>>, <<"SELL", 2>>}, {1}, {NoId, 1})
        \cup Event("MODIFY", {<<"BUY", 2>>}, {1, 3}, {NoId, 1})
        \cup Event("TRADE", {<<"BUY", 1>>, <<"BUY", 2>>, <<"SELL", 1>>}, {1, 3}, {NoId})

(* Unrounded below a dollar, rounded at and above it, cents apart *)
AroundADollar == {990, 999, 1000, 1010, 1014, 1016, 1020}

(* Two assets whose hashes collide *)
OneLock == <<1, 1>>
=============================================================================
