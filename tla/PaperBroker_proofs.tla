------------------------- MODULE PaperBroker_proofs -------------------------
(***************************************************************************)
(* Proofs about PaperBroker, for any number of requests, orders, keys and  *)
(* prices: the account's totals are those of its orders and fills, it is   *)
(* never overdrawn, and an idempotency key makes one order.                *)
(***************************************************************************)
EXTENDS PaperBroker, SumTheorems

-----------------------------------------------------------------------------
(* Amounts *)

(* A quantity times a price. *)
LEMMA TimesNat == ASSUME NEW a \in Nat, NEW b \in Nat PROVE a * b \in Nat
OBVIOUS

(* At a lower price the quantity costs less. *)
LEMMA TimesMonotone == ASSUME NEW q \in Nat, NEW a \in Nat, NEW b \in Nat, a <= b PROVE q * a <= q * b
OBVIOUS

(* What place_order has checked of the request. *)
LEMMA OrderFacts ==
    ASSUME NEW r \in Requests
    PROVE  /\ Order[r].side \in Sides /\ Order[r].type \in OrderTypes
           /\ Order[r].limit \in Nat /\ Order[r].stop \in Nat /\ Order[r].qty \in Nat
           /\ Order[r].key \in Keys \cup {NoKey}
           /\ Order[r].type \in {"limit", "stop_limit"} => Order[r].limit # NoPrice
           /\ Order[r].type \in {"stop", "stop_limit"} => Order[r].stop # NoPrice
<1>1. Order[r] \in [side : Sides, type : OrderTypes,
                    limit : Prices \cup {NoPrice}, stop : Prices \cup {NoPrice},
                    qty : Nat \ {0}, ioc : BOOLEAN, key : Keys \cup {NoKey}]
  BY BrokerAssumption
<1>2. Prices \cup {NoPrice} \subseteq Nat
  BY BrokerAssumption DEF NoPrice
<1>3. /\ Order[r].type \in {"limit", "stop_limit"} => Order[r].limit # NoPrice
      /\ Order[r].type \in {"stop", "stop_limit"} => Order[r].stop # NoPrice
  BY BrokerAssumption
<1> QED
  BY <1>1, <1>2, <1>3

(* What a resting order holds does not depend on the market. *)
LEMMA ReservationFacts ==
    ASSUME NEW r \in Requests, NEW type, NEW price \in Nat
    PROVE  /\ Reservation(r, type, price) \in Nat
           /\ type \in {"limit", "stop", "stop_limit"} =>
                 Reservation(r, type, price) = Reservation(r, type, 0)
           /\ Reservation(r, "limit", 0) = Reservation(r, "stop_limit", 0)
           /\ Order[r].side = "buy" /\ type \in {"limit", "stop_limit"} =>
                 Reservation(r, type, price) = Order[r].qty * Order[r].limit
           /\ Order[r].side = "buy" => Reservation(r, "market", price) = Order[r].qty * price
<1>1. PICK f : f = IF Order[r].side # "buy" THEN 0
                    ELSE IF type \in {"limit", "stop_limit"} THEN Order[r].limit
                    ELSE IF type = "stop" THEN Order[r].stop
                    ELSE price
  OBVIOUS
<1>2. f \in Nat
  BY <1>1, OrderFacts
<1>3. Reservation(r, type, price) = Order[r].qty * f
  BY <1>1 DEF Reservation
<1>4. Reservation(r, type, price) \in Nat
  BY <1>2, <1>3, OrderFacts, TimesNat
<1> QED
  BY <1>4 DEF Reservation

-----------------------------------------------------------------------------
(* Fill prices *)

(* Rounding to the cent does not pass a limit that is a number of cents. *)
LEMMA RoundedBelow ==
    ASSUME NEW p \in Nat, NEW c \in Rounded(p)
    PROVE  /\ c \in Nat
           /\ \A limit \in Nat : p <= limit /\ (limit < Dollar \/ limit % Cent = 0) => c <= limit
<1>1. CASE p < Dollar
  BY <1>1 DEF Rounded
<1>2. CASE p >= Dollar
  <2>1. c \in Int /\ p - 5 <= c /\ c <= p + 5 /\ c % 10 = 0
    BY <1>2 DEF Rounded, Cent, Dollar
  <2>2. c \in Nat
    BY <1>2, <2>1 DEF Dollar
  <2>3. ASSUME NEW limit \in Nat, p <= limit, limit % 10 = 0 PROVE c <= limit
    BY <2>1, <2>3
  <2> QED
    BY <1>2, <2>2, <2>3 DEF Dollar, Cent
<1> QED
  BY <1>1, <1>2 DEF Dollar

(* The fill prices are prices, and a buy with a limit in full cents never  *)
(* pays more than the limit.                                               *)
LEMMA FillPrices ==
    ASSUME NEW o, o.side \in Sides, o.type \in OrderTypes, o.limit \in Nat, o.stop \in Nat,
           NEW last \in Nat, NEW price \in SimulateFill(o, last)
    PROVE  /\ price \in Nat
           /\ o.type = "market" => price = last
           /\ /\ o.side = "buy" /\ o.type \in {"limit", "stop_limit"} /\ o.limit # NoPrice
              /\ o.limit < Dollar \/ o.limit % Cent = 0
              => price <= o.limit
<1>1. CASE o.type \in {"market", "stop"}
  BY <1>1 DEF SimulateFill
<1>2. CASE o.type \in {"limit", "stop_limit"}
  <2>1. CASE o.limit = NoPrice
    BY <1>2, <2>1 DEF SimulateFill
  <2>2. CASE o.limit # NoPrice
    <3>1. /\ Marketable(o.side, o.limit, last)
          /\ price \in Rounded(BetterPrice(o.side, o.limit, last))
      BY <1>2, <2>2 DEF SimulateFill
    <3>2. /\ BetterPrice(o.side, o.limit, last) \in Nat
          /\ o.side = "buy" => BetterPrice(o.side, o.limit, last) <= o.limit
      BY DEF BetterPrice, Lower, Higher
    <3> QED
      BY <1>2, <3>1, <3>2, RoundedBelow
  <2> QED
    BY <2>1, <2>2
<1> QED
  BY <1>1, <1>2 DEF OrderTypes

(* The same of the sweep. *)
LEMMA SweepPrices ==
    ASSUME NEW o, o.side \in Sides, o.type \in OrderTypes, o.limit \in Nat, o.stop \in Nat,
           NEW last \in Nat, NEW price \in SweepFill(o, last)
    PROVE  /\ price \in Nat
           /\ /\ o.side = "buy" /\ o.type \in {"limit", "stop_limit"}
              /\ o.limit # NoPrice /\ (o.type = "stop_limit" => o.stop # NoPrice)
              /\ o.limit < Dollar \/ o.limit % Cent = 0
              => price <= o.limit
<1>1. CASE HasLimit(o)
  <2>1. price \in Rounded(BetterPrice(o.side, o.limit, last))
    BY <1>1 DEF SweepFill, CheckPendingLimitFill
  <2>2. /\ BetterPrice(o.side, o.limit, last) \in Nat
        /\ o.side = "buy" => BetterPrice(o.side, o.limit, last) <= o.limit
    BY DEF BetterPrice, Lower, Higher
  <2> QED
    BY <2>1, <2>2, RoundedBelow
<1>2. CASE ~HasLimit(o) /\ HasStop(o)
  <2>1. price \in SimulateFill(o, last)
    BY <1>2 DEF SweepFill
  <2> QED
    BY <2>1, FillPrices
<1>3. CASE ~HasLimit(o) /\ ~HasStop(o)
  BY <1>3 DEF SweepFill, HasLimit, HasStop
<1> QED
  BY <1>1, <1>2, <1>3

-----------------------------------------------------------------------------
(* The holding *)

Latest(T, at) == CHOOSE r \in T : \A q \in T : at[q] <= at[r]

(* The holding after the fills s, given those after fewer. *)
Holding(it, s, at) ==
    IF s = {} THEN 0 ELSE Higher(0, it[s \ {Latest(s, at)}] + SignedQty(Latest(s, at)))

(* The function "it" is the holding after each set of fills. *)
FoldsUp(it, S, at) == it = [s \in SUBSET S |-> Holding(it, s, at)]

FoldsUpSmall(it, S, at, n) == \A s \in SUBSET S : Cardinality(s) <= n => it[s] = Holding(it, s, at)

(* held_quantity is the value of such a function, if there is one. *)
LEMMA HeldUnfolded ==
    ASSUME NEW S, NEW at
    PROVE  HeldQuantity(S, at) = (CHOOSE it : FoldsUp(it, S, at))[S]
BY DEF HeldQuantity, MapThenFoldSet, FoldsUp, Holding, Latest

(* One of the fills is the latest. *)
LEMMA LatestOne ==
    ASSUME NEW T \in SUBSET Requests, T # {}, NEW c \in Nat, NEW at \in [Requests -> Nat],
           \A q \in Requests : at[q] <= c
    PROVE  Latest(T, at) \in T
<1> DEFINE U == {c - at[q] : q \in T}
<1>1. U \subseteq Nat /\ U # {}
  OBVIOUS
<1>2. PICK n \in U : \A j \in U : n <= j
  <2> HIDE DEF U
  <2> QED
    BY <1>1, SmallestOne
<1>3. PICK r \in T : n = c - at[r]
  BY <1>2
<1>4. \A q \in T : at[q] <= at[r]
  <2> SUFFICES ASSUME NEW q \in T PROVE at[q] <= at[r]
    OBVIOUS
  <2>1. c - at[r] <= c - at[q]
    BY <1>2, <1>3
  <2>2. at[r] \in Nat /\ at[q] \in Nat
    OBVIOUS
  <2> HIDE DEF U
  <2> QED
    BY <2>1, <2>2
<1> QED
  BY <1>4 DEF Latest

(* The next holding is a natural number. *)
LEMMA HoldingStep ==
    ASSUME NEW S \in SUBSET Requests, NEW c \in Nat, NEW at \in [Requests -> Nat],
           \A q \in Requests : at[q] <= c,
           NEW it \in [SUBSET S -> Nat], NEW s \in SUBSET S
    PROVE  Holding(it, s, at) \in Nat
<1>1. CASE s = {}
  BY <1>1 DEF Holding
<1>2. CASE s # {}
  <2>1. PICK x : x = Latest(s, at)
    OBVIOUS
  <2>2. x \in s
    BY <1>2, <2>1, LatestOne
  <2>3. SignedQty(x) \in Int /\ it[s \ {x}] \in Nat
    BY <2>2, OrderFacts DEF SignedQty
  <2>4. Holding(it, s, at) = Higher(0, it[s \ {x}] + SignedQty(x))
    BY <1>2, <2>1 DEF Holding
  <2> QED
    BY <2>3, <2>4 DEF Higher
<1> QED
  BY <1>1, <1>2

(* For every size there is a function for the sets of that size. *)
LEMMA FoldsUpTo ==
    ASSUME NEW S \in SUBSET Requests, IsFiniteSet(S), NEW c \in Nat, NEW at \in [Requests -> Nat],
           \A q \in Requests : at[q] <= c, NEW n \in Nat
    PROVE  \E it \in [SUBSET S -> Nat] : FoldsUpSmall(it, S, at, n)
<1> DEFINE Ok(k) == \E it \in [SUBSET S -> Nat] : FoldsUpSmall(it, S, at, k)
           bad == {k \in Nat : ~Ok(k)}
<1>1. SUFFICES ASSUME bad # {} PROVE FALSE
  BY <1>1
<1>2. PICK m \in bad : \A j \in bad : m <= j
  <2>1. bad \subseteq Nat
    OBVIOUS
  <2> HIDE DEF bad
  <2> QED
    BY <1>1, <2>1, SmallestOne
<1>3. \A s \in SUBSET S : Cardinality(s) \in Nat /\ (Cardinality(s) = 0 <=> s = {})
  BY FS_Subset, FS_CardinalityType, FS_EmptySet
<1>4. m # 0
  <2>1. Ok(0)
    <3>1. [s \in SUBSET S |-> 0] \in [SUBSET S -> Nat]
      OBVIOUS
    <3>2. \A s \in SUBSET S : Cardinality(s) <= 0 => s = {}
      BY <1>3
    <3>3. \A s \in SUBSET S : Cardinality(s) <= 0 =>
             [t \in SUBSET S |-> 0][s] = Holding([t \in SUBSET S |-> 0], s, at)
      BY <3>2 DEF Holding
    <3> QED
      BY <3>1, <3>3 DEF FoldsUpSmall
  <2> QED
    BY <1>2, <2>1
<1>5. m - 1 \in Nat /\ m - 1 \notin bad /\ m \in Nat
  <2>1. m \in Nat
    BY <1>2
  <2> HIDE DEF bad
  <2> QED
    BY <1>2, <1>4, <2>1
<1>6. PICK old \in [SUBSET S -> Nat] : FoldsUpSmall(old, S, at, m - 1)
  BY <1>5
<1> DEFINE new == [s \in SUBSET S |-> Holding(old, s, at)]
<1>7. new \in [SUBSET S -> Nat]
  BY <1>6, HoldingStep
<1>8. ASSUME NEW s \in SUBSET S, Cardinality(s) <= m
      PROVE  new[s] = Holding(new, s, at)
  <2>1. CASE s = {}
    BY <2>1 DEF Holding
  <2>2. CASE s # {}
    <3>1. PICK x : x = Latest(s, at)
      OBVIOUS
    <3>2. x \in s /\ s \ {x} \in SUBSET S
      BY <2>2, <3>1, LatestOne
    <3>3. Cardinality(s \ {x}) <= m - 1
      <4>1. Cardinality(s \ {x}) = Cardinality(s) - 1 /\ Cardinality(s) \in Nat
        BY <3>2, OneLess
      <4> QED
        BY <1>5, <1>8, <4>1
    <3>4. old[s \ {x}] = Holding(old, s \ {x}, at)
      BY <1>6, <3>2, <3>3 DEF FoldsUpSmall
    <3>5. new[s \ {x}] = old[s \ {x}]
      BY <3>2, <3>4
    <3>6. new[s] = Holding(old, s, at)
      OBVIOUS
    <3> HIDE DEF new
    <3> QED
      BY <3>1, <3>5, <3>6 DEF Holding
  <2> QED
    BY <2>1, <2>2
<1>9. Ok(m)
  <2> HIDE DEF new
  <2>1. FoldsUpSmall(new, S, at, m)
    BY <1>8 DEF FoldsUpSmall
  <2> QED
    BY <1>7, <2>1
<1> QED
  BY <1>2, <1>9

(* Without fills nothing is held. *)
LEMMA HeldNothing == ASSUME NEW at PROVE HeldQuantity({}, at) = 0
<1> DEFINE none == [s \in SUBSET {} |-> 0]
<1>1. FoldsUp(none, {}, at)
  BY DEF FoldsUp, Holding
<1>2. PICK h : h = CHOOSE i : FoldsUp(i, {}, at)
  OBVIOUS
<1>3. FoldsUp(h, {}, at)
  BY <1>1, <1>2
<1>4. h[{}] = Holding(h, {}, at)
  BY <1>3 DEF FoldsUp
<1> QED
  BY <1>2, <1>4, HeldUnfolded DEF Holding

(* held_quantity never goes below zero. *)
LEMMA HoldingIsNat ==
    ASSUME NEW S \in SUBSET Requests, NEW c \in Nat, NEW at \in [Requests -> Nat],
           \A q \in Requests : at[q] <= c
    PROVE  HeldQuantity(S, at) \in Nat
<1>0. IsFiniteSet(S)
  BY BrokerAssumption, FS_Subset
<1>1. PICK n \in Nat : n = Cardinality(S)
  BY <1>0, FS_CardinalityType
<1>2. PICK it \in [SUBSET S -> Nat] : FoldsUpSmall(it, S, at, n)
  BY <1>0, FoldsUpTo
<1>3. \A s \in SUBSET S : Cardinality(s) <= n
  BY <1>0, <1>1, FS_Subset
<1>4. FoldsUp(it, S, at)
  BY <1>2, <1>3 DEF FoldsUp, FoldsUpSmall
<1>5. PICK h : h = CHOOSE i : FoldsUp(i, S, at)
  OBVIOUS
<1>6. FoldsUp(h, S, at)
  BY <1>4, <1>5
<1>7. HeldQuantity(S, at) = h[S]
  BY <1>5, HeldUnfolded
<1>8. h[S] \in Nat
  <2> DEFINE odd == {s \in SUBSET S : h[s] \notin Nat}
             sizes == {Cardinality(s) : s \in odd}
  <2>1. SUFFICES ASSUME odd # {} PROVE FALSE
    BY <2>1
  <2>2. sizes \subseteq Nat /\ sizes # {}
    BY <1>0, <2>1, FS_Subset, FS_CardinalityType
  <2>3. PICK m \in sizes : \A j \in sizes : m <= j
    <3> HIDE DEF sizes
    <3> QED
      BY <2>2, SmallestOne
  <2>4. PICK s \in odd : m = Cardinality(s)
    BY <2>3
  <2>5. s \in SUBSET S /\ h[s] \notin Nat /\ h[s] = Holding(h, s, at)
    BY <1>6 DEF FoldsUp
  <2>6. s # {}
    BY <2>5 DEF Holding
  <2>7. PICK x : x = Latest(s, at)
    OBVIOUS
  <2>8. x \in s
    BY <2>5, <2>6, <2>7, LatestOne
  <2>9. s \ {x} \in SUBSET S /\ Cardinality(s) \in Nat /\ Cardinality(s \ {x}) = Cardinality(s) - 1
    BY <1>0, <2>5, <2>8, OneLess
  <2>10. h[s \ {x}] \in Nat
    <3>1. SUFFICES ASSUME s \ {x} \in odd PROVE FALSE
      BY <2>9
    <3>2. Cardinality(s \ {x}) \in sizes
      BY <3>1
    <3> HIDE DEF sizes
    <3> QED
      BY <2>3, <2>4, <2>9, <3>2
  <2>11. SignedQty(x) \in Int
    BY <2>5, <2>8, OrderFacts DEF SignedQty
  <2>12. h[s] = Higher(0, h[s \ {x}] + SignedQty(x))
    BY <2>5, <2>6, <2>7 DEF Holding
  <2> QED
    BY <2>5, <2>10, <2>11, <2>12 DEF Higher
<1> QED
  BY <1>7, <1>8

-----------------------------------------------------------------------------
(* The totals of the account *)

Totals == NeverOverdrawn /\ ReservedIsOpenOrders /\ LedgerIsFills

(* The orders are finitely many. *)
LEMMA FewOrders == IsFiniteSet(OpenOrders) /\ IsFiniteSet(Filled)
BY BrokerAssumption, FS_Subset DEF OpenOrders, Filled

(* What each fill cost, or brought in. *)
LEMMA SpentType == TypeOK => Spent \in [Requests -> Int]
<1> SUFFICES ASSUME TypeOK PROVE Spent \in [Requests -> Int]
  OBVIOUS
<1>1. ASSUME NEW r \in Requests PROVE SignedQty(r) * filled_price[r] \in Int
  <2>1. SignedQty(r) \in Int /\ filled_price[r] \in Int
    BY OrderFacts DEF SignedQty, TypeOK
  <2> QED
    BY <2>1
<1> QED
  BY <1>1 DEF Spent

(* An open order's cash is part of what is reserved. *)
LEMMA HeldIsReserved ==
    ASSUME TypeOK, ReservedIsOpenOrders, NEW r \in OpenOrders
    PROVE  /\ held_cash[r] \in Nat /\ held_cash[r] <= reserved
           /\ Released(held_cash[r]) = reserved - held_cash[r]
           /\ reserved - held_cash[r] = SumFunctionOnSet(held_cash, OpenOrders \ {r})
<1>1. \A q \in OpenOrders : held_cash[q] \in Nat
  BY DEF TypeOK, OpenOrders
<1>2. held_cash[r] <= SumFunctionOnSet(held_cash, OpenOrders)
  BY <1>1, FewOrders, SumCovers
<1>3. SumFunctionOnSet(held_cash, OpenOrders)
         = held_cash[r] + SumFunctionOnSet(held_cash, OpenOrders \ {r})
  BY <1>1, FewOrders, SumWithout
<1>4. SumFunctionOnSet(held_cash, OpenOrders \ {r}) \in Int
  <2>1. IsFiniteSet(OpenOrders \ {r})
    BY FewOrders, FS_Subset
  <2> QED
    BY <1>1, <2>1, SumType
<1> QED
  BY <1>1, <1>2, <1>3, <1>4 DEF ReservedIsOpenOrders, Released, TypeOK

(* Whatever leaves the rows and the account alone. *)
LEMMA TotalsFrame ==
    ASSUME Totals, UNCHANGED <<ledger, status, filled_price, filled_at, held_cash>>
    PROVE  Totals'
BY DEF Totals, NeverOverdrawn, ReservedIsOpenOrders, LedgerIsFills, CashIsFills, PositionIsFills,
       OpenOrders, Filled, Spent, ledger, SignedQty

(* An order is accepted: it stays open. *)
LEMMA TotalsAccept ==
    ASSUME TypeOK, Totals, NEW r \in Requests, AcceptOrder(r),
           UNCHANGED <<ledger, filled_price, filled_at, held_cash>>
    PROVE  Totals'
<1>1. OpenOrders' = OpenOrders /\ Filled' = Filled
  BY DEF OpenOrders, Filled, AcceptOrder, TypeOK, OPEN_STATUSES
<1>2. Spent' = Spent
  BY DEF Spent, SignedQty
<1> QED
  BY <1>1, <1>2 DEF Totals, NeverOverdrawn, ReservedIsOpenOrders, LedgerIsFills, CashIsFills,
                    PositionIsFills, ledger

(* An order is closed and its cash released. *)
LEMMA TotalsClose ==
    ASSUME TypeOK, Totals, NEW r \in Requests, NEW to, to \notin OPEN_STATUSES, to # "FILLED",
           NEW amount, amount = held_cash[r], CloseOrder(r, to, amount)
    PROVE  Totals'
<1>1. r \in OpenOrders /\ OpenOrders' = OpenOrders \ {r} /\ Filled' = Filled
  BY DEF OpenOrders, Filled, CloseOrder, TypeOK, OPEN_STATUSES
<1>2. Spent' = Spent
  BY DEF Spent, SignedQty, CloseOrder
<1>3. reserved' = reserved - held_cash[r] /\ cash' = cash /\ held_cash' = held_cash
  BY <1>1, HeldIsReserved DEF CloseOrder, Totals
<1>4. NeverOverdrawn'
  <2>1. /\ held_cash[r] \in Nat /\ held_cash[r] <= reserved
        /\ cash \in Nat /\ reserved \in Nat /\ reserved <= cash
    BY <1>1, HeldIsReserved DEF NeverOverdrawn, Totals, TypeOK
  <2> QED
    BY <1>3, <2>1 DEF NeverOverdrawn
<1>5. ReservedIsOpenOrders'
  <2>1. reserved' = SumFunctionOnSet(held_cash, OpenOrders \ {r})
    BY <1>1, <1>3, HeldIsReserved DEF Totals
  <2> QED
    BY <1>1, <1>3, <2>1 DEF ReservedIsOpenOrders
<1>6. LedgerIsFills'
  BY <1>1, <1>2 DEF Totals, LedgerIsFills, CashIsFills, PositionIsFills, CloseOrder
<1> QED
  BY <1>4, <1>5, <1>6 DEF Totals

(* An order is placed and its cash reserved. *)
LEMMA TotalsPlace ==
    ASSUME TypeOK, Totals, NEW r \in Requests, status[r] = "none", NEW amount \in Nat,
           TryReserve(amount),
           status' = [status EXCEPT ![r] = "PENDING"],
           held_cash' = [held_cash EXCEPT ![r] = amount],
           UNCHANGED <<cash, position, filled_price, filled_at>>
    PROVE  Totals'
<1>1. r \notin OpenOrders /\ OpenOrders' = OpenOrders \cup {r} /\ Filled' = Filled
  BY DEF OpenOrders, Filled, TypeOK, OPEN_STATUSES
<1>2. Spent' = Spent
  BY DEF Spent, SignedQty
<1>3. \A q \in OpenOrders : held_cash[q] \in Int /\ held_cash'[q] = held_cash[q]
  BY <1>1 DEF TypeOK, OpenOrders
<1>4. held_cash'[r] = amount
  BY DEF TypeOK
<1>5. SumFunctionOnSet(held_cash', OpenOrders) = reserved
  <2>1. SumFunctionOnSet(held_cash', OpenOrders) = SumFunctionOnSet(held_cash, OpenOrders)
    BY <1>3, FewOrders, SumSame
  <2> QED
    BY <2>1 DEF Totals, ReservedIsOpenOrders
<1>6. SumFunctionOnSet(held_cash', OpenOrders \cup {r}) = amount + reserved
  <2>1. \A q \in OpenOrders \cup {r} : held_cash'[q] \in Int
    BY <1>3, <1>4
  <2>2. SumFunctionOnSet(held_cash', OpenOrders \cup {r})
           = held_cash'[r] + SumFunctionOnSet(held_cash', OpenOrders)
    BY <1>1, <2>1, FewOrders, SumWith
  <2> QED
    BY <1>4, <1>5, <2>2
<1>7. ReservedIsOpenOrders'
  BY <1>1, <1>6 DEF ReservedIsOpenOrders, TryReserve, TypeOK
<1>8. NeverOverdrawn'
  BY DEF NeverOverdrawn, Totals, TryReserve, TypeOK
<1>9. LedgerIsFills'
  BY <1>1, <1>2 DEF Totals, LedgerIsFills, CashIsFills, PositionIsFills
<1> QED
  BY <1>7, <1>8, <1>9 DEF Totals

(* A fill is settled: the cash moves and the order's hold ends. *)
LEMMA TotalsCommit ==
    ASSUME TypeOK, Totals, NEW r \in Requests, status[r] \in OPEN_STATUSES,
           Order[r].side = "buy" => FillReservation(r) = held_cash[r],
           Order[r].side = "sell" => held_cash[r] = 0,
           FillCommit(r)
    PROVE  Totals'
<1>1. /\ r \in OpenOrders /\ OpenOrders' = OpenOrders \ {r}
      /\ r \notin Filled /\ Filled' = Filled \cup {r}
  BY DEF OpenOrders, Filled, FillCommit, TypeOK, OPEN_STATUSES
<1>2. held_cash' = held_cash /\ Order[r].side \in {"buy", "sell"}
  BY OrderFacts DEF FillCommit, Sides
<1>3. PICK price \in Nat : price = filling[r].price
  BY DEF TypeOK
<1>4. PICK cost \in Nat : cost = Cost(r) /\ cost = Order[r].qty * price
  BY <1>3, TimesNat, OrderFacts DEF Cost
<1>5. reserved' = reserved - held_cash[r]
  <2>1. Released(held_cash[r]) = reserved - held_cash[r] /\ reserved \in Nat
    BY <1>1, HeldIsReserved DEF Totals, TypeOK
  <2> QED
    BY <1>2, <2>1 DEF FillCommit
<1>6. /\ Order[r].side = "buy" => cash' = cash - cost
      /\ Order[r].side = "sell" => cash' = cash + cost
  BY <1>4 DEF FillCommit
<1>7. NeverOverdrawn'
  <2>1. /\ held_cash[r] \in Nat /\ held_cash[r] <= reserved
        /\ Released(held_cash[r]) = reserved - held_cash[r]
    BY <1>1, HeldIsReserved DEF Totals
  <2>2. Order[r].side = "buy" => cash - cost >= reserved - held_cash[r]
    BY <1>4, <2>1 DEF FillCommit, Settles
  <2> QED
    BY <1>2, <1>5, <1>6, <2>1, <2>2 DEF NeverOverdrawn, Totals, TypeOK
<1>8. ReservedIsOpenOrders'
  <2>1. reserved' = SumFunctionOnSet(held_cash, OpenOrders \ {r})
    BY <1>1, <1>5, HeldIsReserved DEF Totals
  <2> QED
    BY <1>1, <1>2, <2>1 DEF ReservedIsOpenOrders
<1>9. CashIsFills'
  <2>1. filled_price'[r] = price /\ \A q \in Filled : filled_price'[q] = filled_price[q]
    BY <1>1, <1>3 DEF FillCommit, TypeOK, Filled
  <2>2. Spent'[r] = SignedQty(r) * price /\ \A q \in Filled : Spent'[q] = Spent[q]
    BY <2>1 DEF Spent, Filled, SignedQty
  <2>3. SignedQty(r) * price = IF Order[r].side = "buy" THEN cost ELSE -cost
    BY <1>2, <1>4, OrderFacts DEF SignedQty
  <2>4. \A q \in Filled : Spent[q] \in Int /\ Spent'[q] = Spent[q]
    BY <2>2, SpentType DEF Filled
  <2>5. SumFunctionOnSet(Spent', Filled) = SumFunctionOnSet(Spent, Filled)
    BY <2>4, FewOrders, SumSame
  <2>6. Spent'[r] \in Int
    BY <2>2, <2>3
  <2>7. SumFunctionOnSet(Spent', Filled \cup {r}) = Spent'[r] + SumFunctionOnSet(Spent', Filled)
    BY <1>1, <2>4, <2>6, FewOrders, SumWith
  <2>8. SumFunctionOnSet(Spent, Filled) \in Int /\ cash = InitialCash - SumFunctionOnSet(Spent, Filled)
    BY <2>4, FewOrders, SumType DEF Totals, LedgerIsFills, CashIsFills
  <2>9. cash' = InitialCash - SumFunctionOnSet(Spent', Filled \cup {r})
    BY <1>2, <1>6, <2>2, <2>3, <2>5, <2>7, <2>8, BrokerAssumption
  <2> QED
    BY <1>1, <2>9 DEF CashIsFills
<1>10. PositionIsFills'
  <2>1. position' = HeldQuantity(Filled \cup {r}, filled_at')
    BY DEF FillCommit, RebuiltPosition
  <2> QED
    BY <1>1, <2>1 DEF PositionIsFills
<1> QED
  BY <1>7, <1>8, <1>9, <1>10 DEF Totals, LedgerIsFills

-----------------------------------------------------------------------------
(* Types *)

(* Requests that move on without touching the account or the rows. *)
Moves(r) ==
    \/ Observe(r) \/ Admit(r) \/ RefuseUnadmitted(r) \/ ReserveKey(r) \/ PlaceFails(r)
    \/ ReleaseKey(r) \/ Report(r) \/ CompleteKey(r)

(* A key is one, or there is none. *)
LEMMA KeyFacts == ASSUME NEW r \in Requests PROVE Key(r) \in Keys \/ Key(r) = NoKey
BY OrderFacts DEF Key

(* A request forgets what it has seen. *)
LEMMA TypeForget ==
    ASSUME TypeOK, NEW r \in Requests, Forget(r)
    PROVE  seen' \in [Requests -> [price : Nat, live : BOOLEAN, held : Nat]]
<1>1. Unseen \in [price : Nat, live : BOOLEAN, held : Nat]
  BY DEF Unseen
<1>2. seen \in [Requests -> [price : Nat, live : BOOLEAN, held : Nat]]
  BY DEF TypeOK
<1> QED
  BY <1>1, <1>2 DEF Forget

(* The requests' own steps keep the types. *)
LEMMA TypeMoves == ASSUME TypeOK, NEW r \in Requests, Moves(r) PROVE TypeOK'
<1> USE DEF Goto, Refuse, Locations, Over, ledger, trades
<1>1. CASE Observe(r)
  <2>1. UNCHANGED <<ledger, trades, idem, filling, cancelling, sweeper, reports, clock, crashes>>
    BY <1>1 DEF Observe
  <2>2. pc' \in [Requests -> Locations]
    <3>1. PICK loc \in {"replayed", "refused", "observed"} : Goto(r, loc)
      BY <1>1 DEF Observe
    <3> QED
      BY <3>1 DEF TypeOK
  <2>3. seen' \in [Requests -> [price : Nat, live : BOOLEAN, held : Nat]]
    <3>1. CASE UNCHANGED seen
      BY <3>1 DEF TypeOK
    <3>2. CASE \E price \in Prices, live \in BOOLEAN :
                  seen' = [seen EXCEPT ![r] = [price |-> price, live |-> live, held |-> position]]
      BY <3>2, BrokerAssumption DEF TypeOK
    <3> QED
      BY <1>1, <3>1, <3>2 DEF Observe
  <2> QED
    BY <2>1, <2>2, <2>3 DEF TypeOK
<1>2. CASE Admit(r) \/ RefuseUnadmitted(r) \/ PlaceFails(r)
  <2>1. PICK loc \in {"admitted", "refused", "releasing"} : Goto(r, loc)
    BY <1>2 DEF Admit, RefuseUnadmitted, PlaceFails
  <2>2. pc' \in [Requests -> Locations]
    BY <2>1 DEF TypeOK
  <2>3. UNCHANGED seen \/ Forget(r)
    BY <1>2 DEF Admit, RefuseUnadmitted, PlaceFails
  <2>4. seen' \in [Requests -> [price : Nat, live : BOOLEAN, held : Nat]]
    <3>1. CASE UNCHANGED seen
      BY <3>1 DEF TypeOK
    <3>2. CASE Forget(r)
      BY <3>2, TypeForget
    <3> QED
      BY <2>3, <3>1, <3>2
  <2>5. UNCHANGED <<ledger, trades, idem, filling, cancelling, sweeper, reports, clock, crashes>>
    BY <1>2 DEF Admit, RefuseUnadmitted, PlaceFails
  <2> QED
    BY <2>2, <2>4, <2>5 DEF TypeOK
<1>3. CASE ReserveKey(r)
  BY <1>3, KeyFacts DEF ReserveKey, TypeOK
<1>4. CASE ReleaseKey(r)
  BY <1>4, KeyFacts DEF ReleaseKey, TypeOK
<1>5. CASE Report(r)
  <2>1. reports' \in [Requests -> SUBSET Statuses]
    BY <1>5 DEF Report, TypeOK
  <2>2. pc' \in [Requests -> Locations]
    BY <1>5 DEF Report, TypeOK
  <2>3. UNCHANGED <<ledger, trades, idem, seen, filling, cancelling, sweeper, clock, crashes>>
    BY <1>5 DEF Report
  <2> QED
    BY <2>1, <2>2, <2>3 DEF TypeOK
<1>6. CASE CompleteKey(r)
  <2>1. idem' \in [Keys -> {"free", "open", "done"}]
    BY <1>6, KeyFacts DEF CompleteKey, TypeOK
  <2>2. pc' \in [Requests -> Locations]
    BY <1>6 DEF CompleteKey, TypeOK
  <2>3. UNCHANGED <<ledger, trades, seen, filling, cancelling, sweeper, reports, clock, crashes>>
    BY <1>6 DEF CompleteKey
  <2> QED
    BY <2>1, <2>2, <2>3 DEF TypeOK
<1> QED
  BY <1>1, <1>2, <1>3, <1>4, <1>5, <1>6 DEF Moves

(* What is left reserved is a number. *)
LEMMA ReleasedType == ASSUME TypeOK, NEW amount \in Nat PROVE Released(amount) \in Nat
BY DEF TypeOK, Released

(* What is released for a resting order is a number. *)
LEMMA TradeReservationType == ASSUME NEW r \in Requests PROVE TradeReservation(r) \in Nat
<1>1. Reservation(r, order_type[r], 0) \in Nat
  BY ReservationFacts
<1> QED
  BY <1>1 DEF TradeReservation

(* A close keeps the types of the rows and the account. *)
LEMMA TypeClose ==
    ASSUME TypeOK, NEW r \in Requests, NEW to \in Statuses, NEW amount \in Nat,
           CloseOrder(r, to, amount)
    PROVE  /\ status' \in [Requests -> Statuses] /\ reserved' \in Nat
           /\ UNCHANGED <<cash, position, order_type, filled_price, filled_at, held_cash>>
<1>1. Released(amount) \in Nat
  BY ReleasedType
<1> QED
  BY <1>1 DEF TypeOK, CloseOrder

(* A fill that begins has a price and a stamp. *)
LEMMA TypeFillStart ==
    ASSUME TypeOK, NEW r \in Requests, NEW by \in {"request", "sweeper"}, NEW price \in Nat,
           FillStart(r, by, price)
    PROVE  /\ filling' \in [Requests -> [by : {"none", "request", "sweeper"}, price : Nat,
                                         stamp : Nat]]
           /\ clock' \in Nat
BY DEF TypeOK, FillStart

(* A new order fills at a price. *)
LEMMA ArrivalPrices ==
    ASSUME TypeOK, NEW r \in Requests, NEW price \in ArrivalFill(r)
    PROVE  /\ price \in Nat
           /\ order_type[r] = "market" => price = seen[r].price
           /\ /\ Order[r].side = "buy" /\ order_type[r] \in {"limit", "stop_limit"}
              /\ Order[r].limit # NoPrice
              /\ Order[r].limit < Dollar \/ Order[r].limit % Cent = 0
              => price <= Order[r].limit
<1>1. PICK o : o = Live(r)
  OBVIOUS
<1>2. /\ o.side = Order[r].side /\ o.type = order_type[r]
      /\ o.limit = Order[r].limit /\ o.stop = Order[r].stop
  BY <1>1 DEF Live
<1>3. o.side \in Sides /\ o.type \in OrderTypes /\ o.limit \in Nat /\ o.stop \in Nat
  BY <1>2, OrderFacts DEF TypeOK
<1>4. seen[r].price \in Nat /\ price \in SimulateFill(o, seen[r].price)
  BY <1>1 DEF ArrivalFill, TypeOK
<1> QED
  BY <1>2, <1>3, <1>4, FillPrices

(* A resting order fills at a price. *)
LEMMA RestingPrices ==
    ASSUME TypeOK, NEW r \in Requests, NEW price \in SweepFill(Live(r), sweeper.price)
    PROVE  /\ price \in Nat
           /\ /\ Order[r].side = "buy" /\ order_type[r] \in {"limit", "stop_limit"}
              /\ Order[r].limit # NoPrice /\ (order_type[r] = "stop_limit" => Order[r].stop # NoPrice)
              /\ Order[r].limit < Dollar \/ Order[r].limit % Cent = 0
              => price <= Order[r].limit
<1>1. PICK o : o = Live(r)
  OBVIOUS
<1>2. /\ o.side = Order[r].side /\ o.type = order_type[r]
      /\ o.limit = Order[r].limit /\ o.stop = Order[r].stop
  BY <1>1 DEF Live
<1>3. o.side \in Sides /\ o.type \in OrderTypes /\ o.limit \in Nat /\ o.stop \in Nat
  BY <1>2, OrderFacts DEF TypeOK
<1>4. sweeper.price \in Nat /\ price \in SweepFill(o, sweeper.price)
  BY <1>1 DEF TypeOK
<1> QED
  BY <1>2, <1>3, <1>4, SweepPrices

(* What a fill releases is a number. *)
LEMMA FillReservationType == ASSUME TypeOK, NEW r \in Requests PROVE FillReservation(r) \in Nat
BY TradeReservationType DEF FillReservation, TypeOK

(* A settled fill keeps the types. *)
LEMMA TypeCommit ==
    ASSUME BrokerInv, NEW r \in Requests, FillCommit(r)
    PROVE  /\ cash' \in Nat /\ reserved' \in Nat /\ position' \in Nat
           /\ status' \in [Requests -> Statuses] /\ filled_price' \in [Requests -> Nat]
           /\ filled_at' \in [Requests -> Nat]
           /\ filling' \in [Requests -> [by : {"none", "request", "sweeper"}, price : Nat,
                                         stamp : Nat]]
           /\ UNCHANGED <<order_type, held_cash>>
<1>1. TypeOK /\ \A q \in Requests : FillInv(q)
  BY DEF BrokerInv, OrdersInv
<1>2. filling[r].price \in Nat /\ filling[r].stamp \in Nat
  BY <1>1 DEF TypeOK
<1>3. /\ status' \in [Requests -> Statuses] /\ filled_price' \in [Requests -> Nat]
      /\ filled_at' \in [Requests -> Nat] /\ UNCHANGED <<order_type, held_cash>>
  BY <1>1, <1>2 DEF FillCommit, TypeOK, Statuses
<1>4. filling' \in [Requests -> [by : {"none", "request", "sweeper"}, price : Nat, stamp : Nat]]
  BY <1>1 DEF FillCommit, TypeOK, Unlock, NoFill
<1>5. PICK cost \in Nat : cost = Cost(r)
  BY <1>2, OrderFacts, TimesNat DEF Cost
<1>6. PICK rest \in Nat : rest = Released(FillReservation(r))
  BY <1>1, FillReservationType, ReleasedType
<1>7. Order[r].side = "buy" => cash - cost >= rest
  BY <1>5, <1>6 DEF FillCommit, Settles
<1>8. cash' \in Nat /\ reserved' \in Nat
  BY <1>1, <1>5, <1>6, <1>7 DEF FillCommit, TypeOK
<1>9. position' \in Nat
  <2>1. \A q \in Requests : filled_at'[q] <= clock
    BY <1>1 DEF FillCommit, FillInv, TypeOK
  <2>2. clock \in Nat /\ Filled \cup {r} \in SUBSET Requests
    BY <1>1 DEF TypeOK, Filled
  <2>3. HeldQuantity(Filled \cup {r}, filled_at') \in Nat
    BY <1>3, <2>1, <2>2, HoldingIsNat
  <2> QED
    BY <2>3 DEF FillCommit, RebuiltPosition
<1> QED
  BY <1>3, <1>4, <1>8, <1>9


(* Every step keeps the types. *)
LEMMA TypeStep == ASSUME BrokerInv, [Next]_vars PROVE TypeOK'
<1> USE DEF Goto, Locations, Over, ledger, trades, Statuses, OPEN_STATUSES
<1>0. TypeOK
  BY DEF BrokerInv
<1>1. ASSUME NEW r \in Requests, Moves(r) PROVE TypeOK'
  BY <1>0, <1>1, TypeMoves
<1>2. ASSUME NEW r \in Requests, Place(r) PROVE TypeOK'
  <2>1. PICK amount \in Nat : amount = Reservation(r, Order[r].type, seen[r].price)
    BY <1>0, ReservationFacts DEF TypeOK
  <2>2. reserved' \in Nat /\ held_cash' \in [Requests -> Nat]
    BY <1>0, <1>2, <2>1 DEF Place, TryReserve, TypeOK
  <2>3. pc' \in [Requests -> Locations] /\ status' \in [Requests -> Statuses]
    BY <1>0, <1>2 DEF Place, TypeOK
  <2>4. UNCHANGED <<cash, position, order_type, filled_price, filled_at, idem, seen, filling,
                    cancelling, sweeper, reports, clock, crashes>>
    BY <1>2 DEF Place
  <2> QED
    BY <1>0, <2>2, <2>3, <2>4 DEF TypeOK
<1>3. ASSUME NEW r \in Requests, StartFill(r) PROVE TypeOK'
  <2>1. PICK price \in ArrivalFill(r) : FillStart(r, "request", price)
    BY <1>3 DEF StartFill
  <2>2. price \in Nat
    BY <1>0, ArrivalPrices
  <2>3. /\ filling' \in [Requests -> [by : {"none", "request", "sweeper"}, price : Nat,
                                      stamp : Nat]]
        /\ clock' \in Nat
    BY <1>0, <2>1, <2>2, TypeFillStart
  <2>4. seen' \in [Requests -> [price : Nat, live : BOOLEAN, held : Nat]]
    BY <1>0, <1>3, TypeForget DEF StartFill
  <2>5. pc' \in [Requests -> Locations]
    BY <1>0, <1>3 DEF StartFill, TypeOK
  <2>6. UNCHANGED <<ledger, trades, idem, cancelling, sweeper, reports, crashes>>
    BY <1>3 DEF StartFill
  <2> QED
    BY <1>0, <2>3, <2>4, <2>5, <2>6 DEF TypeOK
<1>4. ASSUME NEW r \in Requests, Expire(r) \/ Reject(r) PROVE TypeOK'
  <2>1. PICK to \in {"EXPIRED", "REJECTED"} : CloseOrder(r, to, held_cash[r])
    BY <1>4 DEF Expire, Reject
  <2>2. held_cash[r] \in Nat
    BY <1>0 DEF TypeOK
  <2>3. /\ status' \in [Requests -> Statuses] /\ reserved' \in Nat
        /\ UNCHANGED <<cash, position, order_type, filled_price, filled_at, held_cash>>
    BY <1>0, <2>1, <2>2, TypeClose
  <2>4. seen' \in [Requests -> [price : Nat, live : BOOLEAN, held : Nat]]
    <3>1. UNCHANGED seen \/ Forget(r)
      BY <1>4 DEF Expire, Reject
    <3> QED
      BY <1>0, <3>1, TypeForget DEF TypeOK
  <2>5. pc' \in [Requests -> Locations]
    <3>1. Goto(r, "settled")
      BY <1>4 DEF Expire, Reject
    <3> QED
      BY <1>0, <3>1 DEF TypeOK
  <2>6. UNCHANGED <<idem, filling, cancelling, sweeper, reports, clock, crashes>>
    BY <1>4 DEF Expire, Reject
  <2> QED
    BY <1>0, <2>3, <2>4, <2>5, <2>6 DEF TypeOK
<1>5. ASSUME NEW r \in Requests, Convert(r) \/ Accept(r) PROVE TypeOK'
  <2>1. status' \in [Requests -> Statuses]
    <3>1. UNCHANGED status \/ status' = [status EXCEPT ![r] = "ACCEPTED"]
      BY <1>5 DEF Convert, Accept, AcceptOrder
    <3> QED
      BY <1>0, <3>1 DEF TypeOK, Statuses, OPEN_STATUSES
  <2>2. order_type' \in [Requests -> OrderTypes]
    BY <1>0, <1>5 DEF Convert, Accept, TypeOK, OrderTypes
  <2>3. seen' \in [Requests -> [price : Nat, live : BOOLEAN, held : Nat]]
    <3>1. Forget(r)
      BY <1>5 DEF Convert, Accept
    <3> QED
      BY <1>0, <3>1, TypeForget
  <2>4. pc' \in [Requests -> Locations]
    <3>1. PICK loc \in {"converted", "settled"} : Goto(r, loc)
      BY <1>5 DEF Convert, Accept
    <3> QED
      BY <1>0, <3>1 DEF TypeOK, Locations
  <2>5. UNCHANGED <<ledger, filled_price, filled_at, held_cash, idem, filling, cancelling, sweeper,
                    reports, clock, crashes>>
    BY <1>5 DEF Convert, Accept
  <2> QED
    BY <1>0, <2>1, <2>2, <2>3, <2>4, <2>5 DEF TypeOK
<1>6. ASSUME NEW r \in Requests, FinishFill(r) PROVE TypeOK'
  <2>1. pc' \in [Requests -> Locations]
    BY <1>0, <1>6 DEF FinishFill, TypeOK
  <2>2. UNCHANGED <<idem, seen, cancelling, sweeper, reports, clock, crashes>>
    BY <1>6 DEF FinishFill
  <2>3. CASE FillCommit(r)
    BY <1>0, <2>1, <2>2, <2>3, TypeCommit DEF TypeOK
  <2>4. CASE FillRollback(r)
    <3>1. filling' \in [Requests -> [by : {"none", "request", "sweeper"}, price : Nat, stamp : Nat]]
      BY <1>0, <2>4 DEF FillRollback, Unlock, NoFill, TypeOK
    <3>2. UNCHANGED <<ledger, trades>>
      BY <2>4 DEF FillRollback
    <3> QED
      BY <1>0, <2>1, <2>2, <3>1, <3>2 DEF TypeOK
  <2> QED
    BY <1>6, <2>3, <2>4 DEF FinishFill
<1>7. ASSUME NEW r \in Requests, Cancel(r) PROVE TypeOK'
  <2>1. /\ status' \in [Requests -> Statuses] /\ reserved' \in Nat
        /\ UNCHANGED <<cash, position, order_type, filled_price, filled_at, held_cash>>
    BY <1>0, <1>7, TypeClose, TradeReservationType DEF Cancel
  <2>2. cancelling' \subseteq Requests
    BY <1>0, <1>7 DEF Cancel, TypeOK
  <2>3. UNCHANGED <<idem, pc, seen, filling, sweeper, reports, clock, crashes>>
    BY <1>7 DEF Cancel
  <2> QED
    BY <1>0, <2>1, <2>2, <2>3 DEF TypeOK
<1>8. ASSUME NEW r \in Requests, CrashRequest(r) PROVE TypeOK'
  <2>1. pc' \in [Requests -> Locations] /\ crashes' \in 0..MaxCrashes
    BY <1>0, <1>8, BrokerAssumption DEF CrashRequest, TypeOK
  <2>2. seen' \in [Requests -> [price : Nat, live : BOOLEAN, held : Nat]]
    BY <1>0, <1>8, TypeForget DEF CrashRequest
  <2>3. filling' \in [Requests -> [by : {"none", "request", "sweeper"}, price : Nat, stamp : Nat]]
    BY <1>0, <1>8 DEF CrashRequest, NoFill, TypeOK
  <2>4. UNCHANGED <<ledger, trades, idem, cancelling, sweeper, reports, clock>>
    BY <1>8 DEF CrashRequest
  <2> QED
    BY <1>0, <2>1, <2>2, <2>3, <2>4 DEF TypeOK
<1>9. ASSUME CrashSweep PROVE TypeOK'
  <2>1. sweeper' \in [on : BOOLEAN, price : Nat, todo : SUBSET Requests,
                      rejecting : SUBSET Requests, settled : SUBSET Requests]
    BY <1>9 DEF CrashSweep, NotSweeping
  <2>2. crashes' \in 0..MaxCrashes
    BY <1>0, <1>9, BrokerAssumption DEF CrashSweep, TypeOK
  <2>3. filling' \in [Requests -> [by : {"none", "request", "sweeper"}, price : Nat, stamp : Nat]]
    BY <1>0, <1>9 DEF CrashSweep, NoFill, TypeOK
  <2>4. UNCHANGED <<ledger, trades, idem, pc, seen, cancelling, reports, clock>>
    BY <1>9 DEF CrashSweep
  <2> QED
    BY <1>0, <2>1, <2>2, <2>3, <2>4 DEF TypeOK
<1>10. ASSUME SweepStart \/ SweepEnd PROVE TypeOK'
  <2>1. sweeper' \in [on : BOOLEAN, price : Nat, todo : SUBSET Requests,
                      rejecting : SUBSET Requests, settled : SUBSET Requests]
    <3>1. CASE SweepEnd
      BY <3>1 DEF SweepEnd, NotSweeping
    <3>2. CASE SweepStart
      BY <3>2, BrokerAssumption, ZenonT(60) DEF SweepStart, NotSweeping
    <3> QED
      BY <1>10, <3>1, <3>2
  <2>2. UNCHANGED <<ledger, trades, filling, reports, clock, sweepFrame>>
    BY <1>10 DEF SweepStart, SweepEnd
  <2> QED
    BY <1>0, <2>1, <2>2 DEF TypeOK, sweepFrame
<1>11. ASSUME NEW r \in Requests, SweepConvert(r) \/ SweepSkip(r) \/ SweepReport(r) PROVE TypeOK'
  <2>1. sweeper' \in [on : BOOLEAN, price : Nat, todo : SUBSET Requests,
                      rejecting : SUBSET Requests, settled : SUBSET Requests]
    <3>1. \/ sweeper' = [sweeper EXCEPT !.todo = @ \ {r}]
          \/ sweeper' = [sweeper EXCEPT !.settled = @ \ {r}]
      BY <1>11 DEF SweepConvert, SweepSkip, SweepReport
    <3>2. CASE sweeper' = [sweeper EXCEPT !.todo = @ \ {r}]
      BY <1>0, <3>2 DEF TypeOK
    <3>3. CASE sweeper' = [sweeper EXCEPT !.settled = @ \ {r}]
      BY <1>0, <3>3 DEF TypeOK
    <3> QED
      BY <3>1, <3>2, <3>3
  <2>2. order_type' \in [Requests -> OrderTypes]
    BY <1>0, <1>11 DEF SweepConvert, SweepSkip, SweepReport, TypeOK, OrderTypes
  <2>3. reports' \in [Requests -> SUBSET Statuses]
    <3>1. \/ UNCHANGED reports
          \/ reports' = [reports EXCEPT ![r] = @ \cup {status[r]}]
      BY <1>11 DEF SweepConvert, SweepSkip, SweepReport
    <3>2. reports \in [Requests -> SUBSET Statuses] /\ status[r] \in Statuses
      BY <1>0 DEF TypeOK
    <3> QED
      BY <3>1, <3>2
  <2>4. UNCHANGED <<ledger, status, filled_price, filled_at, held_cash, filling, clock, sweepFrame>>
    BY <1>11 DEF SweepConvert, SweepSkip, SweepReport
  <2> QED
    BY <1>0, <2>1, <2>2, <2>3, <2>4 DEF TypeOK, sweepFrame
<1>12. ASSUME NEW r \in Requests, SweepFillStart(r) PROVE TypeOK'
  <2>1. PICK price \in SweepFill(Live(r), sweeper.price) : FillStart(r, "sweeper", price)
    BY <1>12 DEF SweepFillStart
  <2>2. price \in Nat
    BY <1>0, RestingPrices
  <2>3. /\ filling' \in [Requests -> [by : {"none", "request", "sweeper"}, price : Nat,
                                      stamp : Nat]]
        /\ clock' \in Nat
    BY <1>0, <2>1, <2>2, TypeFillStart
  <2>4. sweeper' \in [on : BOOLEAN, price : Nat, todo : SUBSET Requests,
                      rejecting : SUBSET Requests, settled : SUBSET Requests]
    BY <1>0, <1>12 DEF SweepFillStart, TypeOK
  <2>5. UNCHANGED <<ledger, trades, reports, sweepFrame>>
    BY <1>12 DEF SweepFillStart
  <2> QED
    BY <1>0, <2>3, <2>4, <2>5 DEF TypeOK, sweepFrame
<1>13. ASSUME NEW r \in Requests, SweepFillFinish(r) PROVE TypeOK'
  <2>1. sweeper' \in [on : BOOLEAN, price : Nat, todo : SUBSET Requests,
                      rejecting : SUBSET Requests, settled : SUBSET Requests]
    <3>1. \/ sweeper' = [sweeper EXCEPT !.settled = @ \cup {r}]
          \/ sweeper' = [sweeper EXCEPT !.rejecting = {r}]
      BY <1>13 DEF SweepFillFinish
    <3>2. CASE sweeper' = [sweeper EXCEPT !.settled = @ \cup {r}]
      BY <1>0, <3>2 DEF TypeOK
    <3>3. CASE sweeper' = [sweeper EXCEPT !.rejecting = {r}]
      BY <1>0, <3>3 DEF TypeOK
    <3> QED
      BY <3>1, <3>2, <3>3
  <2>2. UNCHANGED <<reports, clock, sweepFrame>>
    BY <1>13 DEF SweepFillFinish
  <2>3. CASE FillCommit(r)
    BY <1>0, <2>1, <2>2, <2>3, TypeCommit DEF TypeOK, sweepFrame
  <2>4. CASE FillRollback(r)
    <3>1. filling' \in [Requests -> [by : {"none", "request", "sweeper"}, price : Nat, stamp : Nat]]
      BY <1>0, <2>4 DEF FillRollback, Unlock, NoFill, TypeOK
    <3>2. UNCHANGED <<ledger, trades>>
      BY <2>4 DEF FillRollback
    <3> QED
      BY <1>0, <2>1, <2>2, <3>1, <3>2 DEF TypeOK, sweepFrame
  <2> QED
    BY <1>13, <2>3, <2>4 DEF SweepFillFinish
<1>14. ASSUME NEW r \in Requests, SweepReject(r) PROVE TypeOK'
  <2>1. sweeper' \in [on : BOOLEAN, price : Nat, todo : SUBSET Requests,
                      rejecting : SUBSET Requests, settled : SUBSET Requests]
    BY <1>0, <1>14 DEF SweepReject, TypeOK
  <2>2. UNCHANGED <<filling, reports, clock, sweepFrame>>
    BY <1>14 DEF SweepReject
  <2>3. CASE CloseOrder(r, "REJECTED", TradeReservation(r))
    <3>1. /\ status' \in [Requests -> Statuses] /\ reserved' \in Nat
          /\ UNCHANGED <<cash, position, order_type, filled_price, filled_at, held_cash>>
      BY <1>0, <2>3, TypeClose, TradeReservationType
    <3> QED
      BY <1>0, <2>1, <2>2, <3>1 DEF TypeOK, sweepFrame
  <2>4. CASE UNCHANGED <<ledger, trades>>
    BY <1>0, <2>1, <2>2, <2>4 DEF TypeOK, sweepFrame
  <2> QED
    BY <1>14, <2>3, <2>4 DEF SweepReject
<1>15. ASSUME NEW r \in Requests, CancelReport(r) \/ CrashCancel(r) PROVE TypeOK'
  <2>1. reports' \in [Requests -> SUBSET Statuses]
    <3>1. \/ UNCHANGED reports
          \/ reports' = [reports EXCEPT ![r] = @ \cup {"CANCELLED"}]
      BY <1>15 DEF CancelReport, CrashCancel
    <3>2. reports \in [Requests -> SUBSET Statuses] /\ "CANCELLED" \in Statuses
      BY <1>0 DEF TypeOK, Statuses
    <3> QED
      BY <3>1, <3>2
  <2>2. cancelling' \subseteq Requests /\ crashes' \in 0..MaxCrashes
    BY <1>0, <1>15, BrokerAssumption DEF CancelReport, CrashCancel, TypeOK
  <2>3. UNCHANGED <<ledger, trades, idem, pc, seen, filling, sweeper, clock>>
    BY <1>15 DEF CancelReport, CrashCancel
  <2> QED
    BY <1>0, <2>1, <2>2, <2>3 DEF TypeOK
<1>16. ASSUME UNCHANGED vars PROVE TypeOK'
  BY <1>0, <1>16 DEF TypeOK, vars
<1> QED
  BY <1>1, <1>2, <1>3, <1>4, <1>5, <1>6, <1>7, <1>8, <1>9, <1>10, <1>11, <1>12, <1>13, <1>14,
     <1>15, <1>16 DEF Next, Handle, SweepStep, Moves

-----------------------------------------------------------------------------
(* The orders *)

SweepsOf(r) ==
    \/ SweepConvert(r) \/ SweepFillStart(r) \/ SweepSkip(r)
    \/ SweepFillFinish(r) \/ SweepReject(r) \/ SweepReport(r)

(* A step about order r. *)
StepOf(r) == Handle(r) \/ Cancel(r) \/ CrashRequest(r) \/ SweepsOf(r)

Same(q) ==
    /\ pc'[q] = pc[q] /\ status'[q] = status[q] /\ order_type'[q] = order_type[q]
    /\ seen'[q] = seen[q] /\ held_cash'[q] = held_cash[q] /\ filling'[q] = filling[q]
    /\ filled_at'[q] = filled_at[q] /\ filled_price'[q] = filled_price[q]

(* A step about one order leaves the others' rows and requests alone. *)
LEMMA OthersStay ==
    ASSUME TypeOK, NEW r \in Requests, StepOf(r), NEW q \in Requests, q # r
    PROVE  Same(q)
<1> USE DEF Goto, Forget, ledger, trades
<1>1. pc'[q] = pc[q]
  <2>1. UNCHANGED pc \/ \E loc \in Locations : pc' = [pc EXCEPT ![r] = loc]
    <3>1. CASE Handle(r)
      BY <3>1 DEF Handle, Observe, Admit, RefuseUnadmitted, Refuse, ReserveKey, Place, PlaceFails,
             ReleaseKey, StartFill, Expire, Convert, Accept, FinishFill, Reject, Report, CompleteKey,
             Locations, Over
    <3>2. CASE Cancel(r) \/ CrashRequest(r) \/ SweepsOf(r)
      BY <3>2 DEF Cancel, CrashRequest, SweepsOf, SweepConvert, SweepFillStart, SweepSkip,
             SweepFillFinish, SweepReject, SweepReport, sweepFrame, Locations, Over
    <3> QED
      BY <3>1, <3>2 DEF StepOf
  <2> QED
    BY <2>1 DEF TypeOK
<1>2. status'[q] = status[q]
  <2>1. UNCHANGED status \/ \E to \in Statuses : status' = [status EXCEPT ![r] = to]
    <3> USE DEF CloseOrder, FillCommit, FillRollback, AcceptOrder, Statuses, OPEN_STATUSES
    <3>1. CASE Handle(r)
      BY <3>1 DEF Handle, Observe, Admit, RefuseUnadmitted, Refuse, ReserveKey, Place, PlaceFails,
             ReleaseKey, StartFill, Expire, Convert, Accept, FinishFill, Reject, Report, CompleteKey
    <3>2. CASE Cancel(r) \/ CrashRequest(r) \/ SweepsOf(r)
      BY <3>2 DEF Cancel, CrashRequest, SweepsOf, SweepConvert, SweepFillStart, SweepSkip,
             SweepFillFinish, SweepReject, SweepReport
    <3> QED
      BY <3>1, <3>2 DEF StepOf
  <2> QED
    BY <2>1 DEF TypeOK
<1>3. order_type'[q] = order_type[q]
  <2>1. UNCHANGED order_type \/ \E type \in OrderTypes : order_type' = [order_type EXCEPT ![r] = type]
    <3> USE DEF CloseOrder, FillCommit, FillRollback, OrderTypes
    <3>1. CASE Handle(r)
      BY <3>1 DEF Handle, Observe, Admit, RefuseUnadmitted, Refuse, ReserveKey, Place, PlaceFails,
             ReleaseKey, StartFill, Expire, Convert, Accept, FinishFill, Reject, Report, CompleteKey
    <3>2. CASE Cancel(r) \/ CrashRequest(r) \/ SweepsOf(r)
      BY <3>2 DEF Cancel, CrashRequest, SweepsOf, SweepConvert, SweepFillStart, SweepSkip,
             SweepFillFinish, SweepReject, SweepReport
    <3> QED
      BY <3>1, <3>2 DEF StepOf
  <2> QED
    BY <2>1 DEF TypeOK
<1>4. seen'[q] = seen[q]
  <2>1. UNCHANGED seen \/ \E v : seen' = [seen EXCEPT ![r] = v]
    <3>1. CASE Handle(r)
      BY <3>1 DEF Handle, Observe, Admit, RefuseUnadmitted, Refuse, ReserveKey, Place, PlaceFails,
             ReleaseKey, StartFill, Expire, Convert, Accept, FinishFill, Reject, Report, CompleteKey
    <3>2. CASE Cancel(r) \/ CrashRequest(r) \/ SweepsOf(r)
      BY <3>2 DEF Cancel, CrashRequest, SweepsOf, SweepConvert, SweepFillStart, SweepSkip,
             SweepFillFinish, SweepReject, SweepReport, sweepFrame
    <3> QED
      BY <3>1, <3>2 DEF StepOf
  <2> QED
    BY <2>1 DEF TypeOK
<1>5. held_cash'[q] = held_cash[q]
  <2>1. UNCHANGED held_cash \/ \E v : held_cash' = [held_cash EXCEPT ![r] = v]
    <3> USE DEF CloseOrder, FillCommit, FillRollback
    <3>1. CASE Handle(r)
      BY <3>1 DEF Handle, Observe, Admit, RefuseUnadmitted, Refuse, ReserveKey, Place, PlaceFails,
             ReleaseKey, StartFill, Expire, Convert, Accept, FinishFill, Reject, Report, CompleteKey
    <3>2. CASE Cancel(r) \/ CrashRequest(r) \/ SweepsOf(r)
      BY <3>2 DEF Cancel, CrashRequest, SweepsOf, SweepConvert, SweepFillStart, SweepSkip,
             SweepFillFinish, SweepReject, SweepReport
    <3> QED
      BY <3>1, <3>2 DEF StepOf
  <2> QED
    BY <2>1 DEF TypeOK
<1>6. filling'[q] = filling[q]
  <2>1. UNCHANGED filling \/ \E v : filling' = [filling EXCEPT ![r] = v]
    <3> USE DEF FillStart, FillCommit, FillRollback, Unlock
    <3>1. CASE Handle(r)
      BY <3>1 DEF Handle, Observe, Admit, RefuseUnadmitted, Refuse, ReserveKey, Place, PlaceFails,
             ReleaseKey, StartFill, Expire, Convert, Accept, FinishFill, Reject, Report, CompleteKey
    <3>2. CASE Cancel(r) \/ CrashRequest(r) \/ SweepsOf(r)
      BY <3>2 DEF Cancel, CrashRequest, SweepsOf, SweepConvert, SweepFillStart, SweepSkip,
             SweepFillFinish, SweepReject, SweepReport
    <3> QED
      BY <3>1, <3>2 DEF StepOf
  <2> QED
    BY <2>1 DEF TypeOK
<1>7. filled_at'[q] = filled_at[q] /\ filled_price'[q] = filled_price[q]
  <2>1. \/ UNCHANGED <<filled_at, filled_price>>
        \/ \E a, v : /\ filled_at' = [filled_at EXCEPT ![r] = a]
                     /\ filled_price' = [filled_price EXCEPT ![r] = v]
    <3> USE DEF CloseOrder, FillCommit, FillRollback
    <3>1. CASE Handle(r)
      BY <3>1 DEF Handle, Observe, Admit, RefuseUnadmitted, Refuse, ReserveKey, Place, PlaceFails,
             ReleaseKey, StartFill, Expire, Convert, Accept, FinishFill, Reject, Report, CompleteKey
    <3>2. CASE Cancel(r) \/ CrashRequest(r) \/ SweepsOf(r)
      BY <3>2 DEF Cancel, CrashRequest, SweepsOf, SweepConvert, SweepFillStart, SweepSkip,
             SweepFillFinish, SweepReject, SweepReport
    <3> QED
      BY <3>1, <3>2 DEF StepOf
  <2> QED
    BY <2>1 DEF TypeOK
<1> QED
  BY <1>1, <1>2, <1>3, <1>4, <1>5, <1>6, <1>7 DEF Same

(* It gives the sweep no other order to fill or reject. *)
LEMMA OthersUnswept ==
    ASSUME TypeOK, NEW r \in Requests, StepOf(r), NEW q \in Requests, q # r
    PROVE  /\ q \in sweeper'.todo => q \in sweeper.todo
           /\ q \in sweeper'.rejecting => q \in sweeper.rejecting
           /\ clock \in Nat /\ clock' \in Nat /\ clock <= clock'
<1>1. \/ UNCHANGED sweeper
      \/ sweeper' = [sweeper EXCEPT !.todo = @ \ {r}]
      \/ sweeper' = [sweeper EXCEPT !.settled = @ \cup {r}]
      \/ sweeper' = [sweeper EXCEPT !.rejecting = {r}]
      \/ sweeper' = [sweeper EXCEPT !.rejecting = {}, !.settled = @ \cup {r}]
      \/ sweeper' = [sweeper EXCEPT !.settled = @ \ {r}]
  <2>1. CASE Handle(r)
    BY <2>1 DEF Handle, Observe, Admit, RefuseUnadmitted, Refuse, ReserveKey, Place, PlaceFails,
           ReleaseKey, StartFill, Expire, Convert, Accept, FinishFill, Reject, Report, CompleteKey
  <2>2. CASE Cancel(r) \/ CrashRequest(r) \/ SweepsOf(r)
    BY <2>2 DEF Cancel, CrashRequest, SweepsOf, SweepConvert, SweepFillStart, SweepSkip,
           SweepFillFinish, SweepReject, SweepReport
  <2> QED
    BY <2>1, <2>2 DEF StepOf
<1>2. /\ q \in sweeper'.todo => q \in sweeper.todo
      /\ q \in sweeper'.rejecting => q \in sweeper.rejecting
  <2>1. sweeper \in [on : BOOLEAN, price : Nat, todo : SUBSET Requests,
                     rejecting : SUBSET Requests, settled : SUBSET Requests]
    BY DEF TypeOK
  <2>2. CASE UNCHANGED sweeper
    BY <2>2
  <2>3. CASE sweeper' = [sweeper EXCEPT !.todo = @ \ {r}]
    BY <2>1, <2>3
  <2>4. CASE \/ sweeper' = [sweeper EXCEPT !.settled = @ \cup {r}]
             \/ sweeper' = [sweeper EXCEPT !.settled = @ \ {r}]
    BY <2>1, <2>4
  <2>5. CASE sweeper' = [sweeper EXCEPT !.rejecting = {r}]
    BY <2>1, <2>5
  <2>6. CASE sweeper' = [sweeper EXCEPT !.rejecting = {}, !.settled = @ \cup {r}]
    BY <2>1, <2>6
  <2> QED
    BY <1>1, <2>2, <2>3, <2>4, <2>5, <2>6
<1>3. clock' = clock \/ clock' = clock + 1
  <2>1. CASE Handle(r)
    BY <2>1 DEF Handle, Observe, Admit, RefuseUnadmitted, Refuse, ReserveKey, Place, PlaceFails,
           ReleaseKey, StartFill, Expire, Convert, Accept, FinishFill, Reject, Report, CompleteKey,
           FillStart
  <2>2. CASE Cancel(r) \/ CrashRequest(r) \/ SweepsOf(r)
    BY <2>2 DEF Cancel, CrashRequest, SweepsOf, SweepConvert, SweepFillStart, SweepSkip,
           SweepFillFinish, SweepReject, SweepReport, FillStart
  <2> QED
    BY <2>1, <2>2 DEF StepOf
<1> QED
  BY <1>2, <1>3 DEF TypeOK


OrderInv(r) == RowInv(r) /\ HoldInv(r) /\ FillInv(r)

(* So what holds of the other orders is kept. *)
LEMMA OthersHold ==
    ASSUME TypeOK, NEW r \in Requests, StepOf(r), NEW q \in Requests, q # r, OrderInv(q)
    PROVE  OrderInv(q)'
<1>1. Same(q)
  BY OthersStay
<1>2. RowInv(q)'
  BY <1>1 DEF Same, RowInv, OrderInv
<1>3. HoldInv(q)'
  BY <1>1 DEF Same, HoldInv, OrderInv
<1>4. FillInv(q)'
  <2>1. filling[q].stamp \in Nat /\ filled_at[q] \in Nat
    BY DEF TypeOK
  <2>2. filling'[q].stamp <= clock' /\ filled_at'[q] <= clock'
    BY <1>1, <2>1, OthersUnswept DEF FillInv, OrderInv, Same
  <2>3. Cost(q)' = Cost(q)
    BY <1>1 DEF Cost, Same
  <2> QED
    BY <1>1, <2>2, <2>3, OthersUnswept DEF FillInv, OrderInv, Same, MayOverrun
<1> QED
  BY <1>2, <1>3, <1>4 DEF OrderInv

(* The account can always settle a buy that stays within its reservation.  *)
LEMMA WithinSettles ==
    ASSUME TypeOK, NeverOverdrawn, ReservedIsOpenOrders, NEW r \in Requests,
           status[r] \in OPEN_STATUSES, Order[r].side = "buy",
           FillReservation(r) = held_cash[r], Cost(r) <= held_cash[r]
    PROVE  Settles(r)
<1>1. r \in OpenOrders
  BY DEF OpenOrders
<1>2. PICK cost \in Nat : cost = Cost(r)
  BY OrderFacts, TimesNat DEF Cost, TypeOK
<1>3. /\ held_cash[r] \in Nat /\ held_cash[r] <= reserved
      /\ Released(held_cash[r]) = reserved - held_cash[r]
  BY <1>1, HeldIsReserved
<1>4. cash - cost >= reserved - held_cash[r]
  BY <1>2, <1>3 DEF NeverOverdrawn, TypeOK
<1> QED
  BY <1>2, <1>3, <1>4 DEF Settles

(* What is released with a fill, a close or a cancel is what was held. *)
LEMMA ReleasesHeld ==
    ASSUME TypeOK, NEW r \in Requests, OrderInv(r)
    PROVE  /\ status[r] # "none" /\ order_type[r] # "market" => TradeReservation(r) = held_cash[r]
           /\ filling[r].by # "none" => FillReservation(r) = held_cash[r]
           /\ status[r] # "none" /\ Order[r].side = "sell" => held_cash[r] = 0
<1>1. ASSUME status[r] # "none", order_type[r] # "market" PROVE TradeReservation(r) = held_cash[r]
  <2>1. Order[r].type # "market"
    BY <1>1 DEF OrderInv, RowInv
  <2>2. held_cash[r] = Reservation(r, Order[r].type, 0)
    BY <1>1, <2>1 DEF OrderInv, HoldInv
  <2>3. Reservation(r, order_type[r], 0) = Reservation(r, Order[r].type, 0)
    <3>1. \/ order_type[r] = Order[r].type
          \/ Order[r].type = "stop_limit" /\ order_type[r] = "limit"
      BY DEF OrderInv, RowInv
    <3>2. Reservation(r, "limit", 0) = Reservation(r, "stop_limit", 0)
      BY ReservationFacts
    <3> QED
      BY <3>1, <3>2
  <2> QED
    BY <1>1, <2>2, <2>3 DEF TradeReservation
<1>2. ASSUME filling[r].by # "none" PROVE FillReservation(r) = held_cash[r]
  <2>1. CASE filling[r].by = "request"
    BY <2>1 DEF FillReservation
  <2>2. CASE filling[r].by = "sweeper"
    <3>1. status[r] = "ACCEPTED" /\ order_type[r] # "market"
      BY <2>2 DEF OrderInv, RowInv, FillInv
    <3>2. TradeReservation(r) = held_cash[r]
      BY <1>1, <3>1
    <3> QED
      BY <2>2, <3>2 DEF FillReservation
  <2> QED
    BY <1>2, <2>1, <2>2 DEF TypeOK
<1>3. ASSUME status[r] # "none", Order[r].side = "sell" PROVE held_cash[r] = 0
  <2>1. held_cash[r] = Reservation(r, Order[r].type, 0)
    BY <1>3 DEF OrderInv, HoldInv
  <2>2. Reservation(r, Order[r].type, 0) = Order[r].qty * 0
    BY <1>3 DEF Reservation
  <2> QED
    BY <2>1, <2>2, OrderFacts
<1> QED
  BY <1>1, <1>2, <1>3

(* A fill under way is of an open order. *)
LEMMA FillsAreOpen ==
    ASSUME TypeOK, NEW r \in Requests, OrderInv(r), filling[r].by # "none"
    PROVE  status[r] \in OPEN_STATUSES
BY DEF TypeOK, OrderInv, RowInv, FillInv, OPEN_STATUSES

(* So a fill is rolled back only of a sell or of an order that overran. *)
LEMMA RollbackReason ==
    ASSUME TypeOK, NeverOverdrawn, ReservedIsOpenOrders, NEW r \in Requests, OrderInv(r),
           FillRollback(r)
    PROVE  Order[r].side = "sell" \/ MayOverrun(r)
<1> SUFFICES ASSUME Order[r].side = "buy", ~MayOverrun(r) PROVE FALSE
  BY OrderFacts DEF Sides
<1>1. filling[r].by # "none" /\ ~Settles(r)
  BY DEF FillRollback, RowFree
<1>2. Cost(r) <= held_cash[r]
  BY <1>1 DEF OrderInv, FillInv
<1> QED
  BY <1>1, <1>2, ReleasesHeld, FillsAreOpen, WithinSettles

(* The request's own steps keep what holds of its order. *)
LEMMA OwnMoves ==
    ASSUME TypeOK, NEW r \in Requests, OrderInv(r), Moves(r)
    PROVE  OrderInv(r)'
<1> USE DEF Goto, ledger, trades
<1>1. UNCHANGED <<ledger, trades, filling, sweeper, clock>>
  BY DEF Moves, Observe, Admit, RefuseUnadmitted, Refuse, ReserveKey, PlaceFails, ReleaseKey,
         Report, CompleteKey
<1>2. \/ pc'[r] = "replayed" /\ status[r] = "none"
      \/ pc'[r] = "refused" /\ status[r] = "none"
      \/ pc'[r] = "releasing" /\ status[r] = "none"
      \/ pc'[r] = "observed" /\ status[r] = "none" /\ (seen'[r].live \/ Order[r].type # "market")
      \/ /\ pc'[r] \in {"admitted", "keyed"} /\ status[r] = "none" /\ seen' = seen
         /\ pc[r] \in {"observed", "admitted"}
      \/ pc'[r] \in {"reported", "done"} /\ pc[r] \in {"settled", "reported"}
  <2>1. CASE Observe(r)
    <3>1. pc[r] = "new" /\ status[r] = "none"
      BY <2>1 DEF Observe, OrderInv, RowInv
    <3>2. CASE Goto(r, "replayed") \/ Goto(r, "refused")
      BY <3>1, <3>2 DEF TypeOK
    <3>3. CASE /\ Goto(r, "observed")
               /\ \E price \in Prices, live \in BOOLEAN :
                     /\ live \/ Order[r].type # "market"
                     /\ seen' = [seen EXCEPT ![r] = [price |-> price, live |-> live,
                                                     held |-> position]]
      <4>1. pc'[r] = "observed"
        BY <3>3 DEF TypeOK
      <4>2. seen'[r].live \/ Order[r].type # "market"
        BY <3>3 DEF TypeOK
      <4> QED
        BY <3>1, <4>1, <4>2
    <3> QED
      BY <2>1, <3>2, <3>3 DEF Observe
  <2>2. CASE Admit(r)
    BY <2>2 DEF Admit, TypeOK, OrderInv, RowInv
  <2>3. CASE RefuseUnadmitted(r) \/ PlaceFails(r)
    BY <2>3 DEF RefuseUnadmitted, Refuse, PlaceFails, TypeOK, OrderInv, RowInv
  <2>4. CASE ReserveKey(r)
    BY <2>4 DEF ReserveKey, TypeOK, OrderInv, RowInv
  <2>5. CASE ReleaseKey(r)
    BY <2>5 DEF ReleaseKey, TypeOK, OrderInv, RowInv
  <2>6. CASE Report(r) \/ CompleteKey(r)
    BY <2>6 DEF Report, CompleteKey, TypeOK
  <2> QED
    BY <2>1, <2>2, <2>3, <2>4, <2>5, <2>6 DEF Moves
<1>3. pc[r] # "filling" /\ pc[r] # "rejecting"
  BY DEF Moves, Observe, Admit, RefuseUnadmitted, Refuse, ReserveKey, PlaceFails, ReleaseKey,
         Report, CompleteKey
<1>4. RowInv(r)'
  BY <1>1, <1>2 DEF OrderInv, RowInv
<1>5. HoldInv(r)'
  BY <1>1, <1>2 DEF OrderInv, HoldInv
<1>6. FillInv(r)'
  BY <1>1, <1>2, <1>3 DEF OrderInv, FillInv, MayOverrun, Cost
<1> QED
  BY <1>4, <1>5, <1>6 DEF OrderInv


(* An order that cannot overrun, and that is filled by the fill rules,     *)
(* costs no more than it holds.                                            *)
LEMMA ArrivalWithin ==
    ASSUME TypeOK, NEW r \in Requests, OrderInv(r), pc[r] = "placed", NEW price \in ArrivalFill(r),
           Order[r].side = "buy", ~MayOverrun(r)
    PROVE  Order[r].qty * price <= held_cash[r]
<1>1. held_cash[r] = Reservation(r, Order[r].type, seen[r].price) /\ seen[r].price \in Nat
  BY DEF OrderInv, HoldInv, TypeOK
<1>2. price \in Nat
  BY ArrivalPrices
<1>3. CASE Order[r].type = "market"
  <2>1. price = seen[r].price
    BY <1>3, ArrivalPrices DEF OrderInv, RowInv
  <2>2. held_cash[r] = Order[r].qty * seen[r].price
    BY <1>1, <1>3, ReservationFacts
  <2>3. Order[r].qty * price \in Nat
    BY <1>2, OrderFacts, TimesNat
  <2> QED
    BY <2>1, <2>2, <2>3
<1>4. CASE Order[r].type \in {"limit", "stop_limit"}
  <2>1. held_cash[r] = Order[r].qty * Order[r].limit
    BY <1>1, <1>4, ReservationFacts
  <2>2. order_type[r] \in {"limit", "stop_limit"}
    BY <1>4 DEF OrderInv, RowInv
  <2>3. Order[r].limit < Dollar \/ Order[r].limit % Cent = 0
    BY <1>4, OrderFacts DEF MayOverrun, Dollar
  <2>4. price <= Order[r].limit
    BY <1>4, <2>2, <2>3, OrderFacts, ArrivalPrices
  <2> QED
    BY <1>2, <2>1, <2>4, OrderFacts, TimesMonotone
<1> QED
  BY <1>3, <1>4, OrderFacts DEF OrderTypes, MayOverrun

(* The same of a resting order. *)
LEMMA RestingWithin ==
    ASSUME TypeOK, NEW r \in Requests, OrderInv(r), status[r] = "ACCEPTED",
           NEW price \in SweepFill(Live(r), sweeper.price),
           Order[r].side = "buy", ~MayOverrun(r)
    PROVE  Order[r].qty * price <= held_cash[r]
<1>1. /\ Order[r].type \in {"limit", "stop_limit"} /\ order_type[r] \in {"limit", "stop_limit"}
      /\ order_type[r] = "stop_limit" => Order[r].type = "stop_limit"
  BY OrderFacts DEF OrderInv, RowInv, MayOverrun, OrderTypes
<1>2. held_cash[r] = Order[r].qty * Order[r].limit
  <2>1. held_cash[r] = Reservation(r, Order[r].type, 0)
    BY <1>1 DEF OrderInv, HoldInv
  <2> QED
    BY <1>1, <2>1, ReservationFacts
<1>3. Order[r].limit < Dollar \/ Order[r].limit % Cent = 0
  BY <1>1, OrderFacts DEF MayOverrun, Dollar
<1>4. price \in Nat /\ price <= Order[r].limit
  BY <1>1, <1>3, OrderFacts, RestingPrices
<1> QED
  BY <1>2, <1>4, OrderFacts, TimesMonotone

(* An order is placed. *)
LEMMA OwnPlace ==
    ASSUME TypeOK, NEW r \in Requests, OrderInv(r), Place(r)
    PROVE  OrderInv(r)'
<1> USE DEF Place, Goto
<1>1. pc[r] = "keyed" /\ status[r] = "none"
  BY DEF OrderInv, RowInv
<1>2. pc'[r] = "placed" /\ status'[r] = "PENDING"
  BY DEF TypeOK
<1>3. UNCHANGED <<order_type, filled_at, seen, filling, sweeper, clock>>
  OBVIOUS
<1>4. held_cash'[r] = Reservation(r, Order[r].type, seen[r].price)
  BY DEF TypeOK
<1>5. RowInv(r)'
  BY <1>1, <1>2, <1>3 DEF OrderInv, RowInv
<1>6. HoldInv(r)'
  <2>1. Order[r].side = "sell" \/ Order[r].type # "market" =>
           Reservation(r, Order[r].type, seen[r].price) = Reservation(r, Order[r].type, 0)
    <3>1. CASE Order[r].side = "sell"
      BY <3>1 DEF Reservation
    <3>2. CASE Order[r].type # "market"
      <4>1. seen[r].price \in Nat
        BY DEF TypeOK
      <4> QED
        BY <3>2, <4>1, OrderFacts, ReservationFacts DEF OrderTypes
    <3> QED
      BY <3>1, <3>2
  <2> QED
    BY <1>2, <1>3, <1>4, <2>1 DEF HoldInv
<1>7. FillInv(r)'
  <2>1. filling[r].by = "none"
    BY <1>1 DEF OrderInv, FillInv, TypeOK
  <2> QED
    BY <1>1, <1>2, <1>3, <2>1 DEF OrderInv, FillInv
<1> QED
  BY <1>5, <1>6, <1>7 DEF OrderInv

(* What a fill that begins leaves at the order. *)
LEMMA StartedFill ==
    ASSUME TypeOK, NEW r \in Requests, NEW by, NEW price, FillStart(r, by, price)
    PROVE  /\ filling'[r].by = by /\ filling'[r].price = price
           /\ filling'[r].stamp = clock' /\ clock <= clock' /\ clock' \in Nat
           /\ filling[r].by = "none" /\ status[r] \in OPEN_STATUSES
           /\ Cost(r)' = Order[r].qty * price
<1>1. filling'[r] = [by |-> by, price |-> price, stamp |-> clock + 1] /\ clock' = clock + 1
  BY DEF FillStart, TypeOK
<1> QED
  BY <1>1 DEF FillStart, TypeOK, RowFree, Cost

(* A fill of a new order begins. *)
LEMMA OwnStartFill ==
    ASSUME TypeOK, NEW r \in Requests, OrderInv(r), StartFill(r)
    PROVE  OrderInv(r)'
<1> USE DEF Goto, ledger, trades
<1>1. PICK price \in ArrivalFill(r) : FillStart(r, "request", price)
  BY DEF StartFill
<1>2. pc[r] = "placed" /\ status[r] = "PENDING" /\ pc'[r] = "filling"
  BY DEF StartFill, TypeOK, OrderInv, RowInv
<1>3. UNCHANGED <<status, order_type, filled_at, held_cash, sweeper>>
  BY DEF StartFill
<1>4. RowInv(r)'
  BY <1>2, <1>3 DEF OrderInv, RowInv
<1>5. HoldInv(r)'
  BY <1>2, <1>3 DEF OrderInv, HoldInv
<1>6. FillInv(r)'
  <2>1. Order[r].side = "buy" /\ ~MayOverrun(r) => Cost(r)' <= held_cash'[r]
    BY <1>1, <1>2, <1>3, ArrivalWithin, StartedFill
  <2>2. filling'[r].stamp <= clock' /\ filled_at'[r] <= clock'
    BY <1>1, <1>3, StartedFill DEF OrderInv, FillInv, TypeOK
  <2> QED
    BY <1>1, <1>2, <1>3, <2>1, <2>2, StartedFill DEF OrderInv, FillInv, MayOverrun
<1> QED
  BY <1>4, <1>5, <1>6 DEF OrderInv

(* A close of the order: it is out of the reach of fills. *)
LEMMA OwnClose ==
    ASSUME TypeOK, NEW r \in Requests, OrderInv(r), NEW to \in {"EXPIRED", "REJECTED", "CANCELLED"},
           NEW amount, CloseOrder(r, to, amount), UNCHANGED <<filling, clock>>,
           \/ pc'[r] = "settled"
           \/ pc'[r] = pc[r] /\ status[r] = "ACCEPTED",
           r \in sweeper'.rejecting => r \in sweeper.rejecting,
           r \in sweeper'.todo => r \in sweeper.todo
    PROVE  OrderInv(r)'
<1>1. /\ status[r] \in OPEN_STATUSES /\ filling[r].by = "none" /\ status'[r] = to
      /\ UNCHANGED <<order_type, filled_at, held_cash>>
  BY DEF CloseOrder, RowFree, TypeOK
<1>2. /\ status[r] = "ACCEPTED" => pc[r] \in {"settled", "reported", "done", "crashed"}
      /\ status[r] # "none"
  BY <1>1 DEF OrderInv, RowInv, TypeOK, Locations, Over, OPEN_STATUSES
<1>3. RowInv(r)'
  BY <1>1, <1>2 DEF OrderInv, RowInv
<1>4. HoldInv(r)'
  BY <1>1, <1>2 DEF OrderInv, HoldInv
<1>5. FillInv(r)'
  BY <1>1, <1>2 DEF OrderInv, FillInv, MayOverrun
<1> QED
  BY <1>3, <1>4, <1>5 DEF OrderInv

(* A settled fill: the order is out of the reach of fills. *)
LEMMA OwnCommit ==
    ASSUME TypeOK, NEW r \in Requests, OrderInv(r), FillCommit(r), UNCHANGED clock,
           \/ pc'[r] = "settled"
           \/ pc'[r] = pc[r] /\ status[r] = "ACCEPTED",
           r \in sweeper'.rejecting => r \in sweeper.rejecting,
           r \in sweeper'.todo => r \in sweeper.todo
    PROVE  OrderInv(r)'
<1>1. /\ filling[r].by # "none" /\ status'[r] = "FILLED" /\ filled_at'[r] = filling[r].stamp
      /\ UNCHANGED <<order_type, held_cash>>
  BY DEF FillCommit, RowFree, TypeOK
<1>2. filling'[r] = NoFill
  BY DEF FillCommit, Unlock, TypeOK
<1>3. filling'[r].by = "none" /\ filling'[r].stamp = 0
  BY <1>2 DEF NoFill
<1>4. status[r] \in OPEN_STATUSES
  BY <1>1, FillsAreOpen
<1>5. /\ status[r] = "ACCEPTED" => pc[r] \in {"settled", "reported", "done", "crashed"}
      /\ status[r] # "none"
  BY <1>4 DEF OrderInv, RowInv, TypeOK, Locations, Over, OPEN_STATUSES
<1>6. RowInv(r)'
  BY <1>1, <1>5 DEF OrderInv, RowInv
<1>7. HoldInv(r)'
  BY <1>1, <1>5 DEF OrderInv, HoldInv
<1>8. FillInv(r)'
  <2>1. filling'[r].stamp <= clock' /\ filled_at'[r] <= clock'
    BY <1>1, <1>3 DEF OrderInv, FillInv, TypeOK
  <2> QED
    BY <1>1, <1>3, <1>5, <2>1 DEF OrderInv, FillInv, MayOverrun
<1> QED
  BY <1>6, <1>7, <1>8 DEF OrderInv


(* The order is converted: it is a limit order now. *)
LEMMA OwnConvert ==
    ASSUME TypeOK, NEW r \in Requests, OrderInv(r), Convert(r)
    PROVE  OrderInv(r)'
<1> USE DEF Goto, ledger
<1>1. /\ pc[r] = "placed" /\ status'[r] = "PENDING" /\ pc'[r] = "converted"
      /\ order_type[r] = "stop_limit" /\ order_type'[r] = "limit"
  BY DEF Convert, TriggeredOnArrival, TypeOK, OrderInv, RowInv
<1>2. UNCHANGED <<status, filled_at, held_cash, filling, sweeper, clock>>
  BY DEF Convert
<1>3. RowInv(r)'
  BY <1>1 DEF OrderInv, RowInv
<1>4. HoldInv(r)'
  BY <1>1, <1>2 DEF OrderInv, HoldInv
<1>5. FillInv(r)'
  <2>1. filling[r].by = "none"
    BY <1>1, <1>2 DEF OrderInv, FillInv, TypeOK
  <2> QED
    BY <1>1, <1>2, <2>1 DEF OrderInv, FillInv, MayOverrun
<1> QED
  BY <1>3, <1>4, <1>5 DEF OrderInv

(* The order is accepted: it is not a market order, which fills at once. *)
LEMMA OwnAccept ==
    ASSUME TypeOK, NEW r \in Requests, OrderInv(r), Accept(r)
    PROVE  OrderInv(r)'
<1> USE DEF Goto, ledger
<1>1. /\ pc[r] \in {"placed", "converted"} /\ status[r] = "PENDING"
      /\ pc'[r] = "settled" /\ status'[r] = "ACCEPTED"
  BY DEF Accept, AcceptOrder, TypeOK, OrderInv, RowInv
<1>2. UNCHANGED <<filled_at, held_cash, filling, sweeper, clock>>
  BY DEF Accept
<1>3. UNCHANGED order_type
  BY DEF Accept
<1>4. order_type[r] # "market"
  <2> SUFFICES ASSUME order_type[r] = "market" PROVE FALSE
    OBVIOUS
  <2>0. pc[r] = "placed" /\ Rests(r)
    BY DEF Accept, OrderInv, RowInv
  <2>1. seen[r].live
    BY <2>0 DEF OrderInv, RowInv
  <2>2. Live(r).type = "market"
    BY DEF Live
  <2>3. seen[r].price \in ArrivalFill(r)
    BY <2>1, <2>2 DEF ArrivalFill, SimulateFill
  <2> QED
    BY <2>0, <2>3 DEF Rests
<1>5. RowInv(r)'
  BY <1>1, <1>3, <1>4 DEF OrderInv, RowInv
<1>6. HoldInv(r)'
  BY <1>1, <1>2 DEF OrderInv, HoldInv
<1>7. FillInv(r)'
  <2>1. filling[r].by = "none"
    BY <1>1 DEF OrderInv, FillInv, TypeOK
  <2> QED
    BY <1>1, <1>2, <2>1 DEF OrderInv, FillInv, MayOverrun
<1> QED
  BY <1>5, <1>6, <1>7 DEF OrderInv

(* A fill is rolled back. *)
LEMMA OwnRollback ==
    ASSUME TypeOK, NeverOverdrawn, ReservedIsOpenOrders, NEW r \in Requests, OrderInv(r),
           FillRollback(r), UNCHANGED <<seen, clock>>,
           \/ pc[r] = "filling" /\ pc'[r] = "rejecting" /\ UNCHANGED sweeper
           \/ /\ pc'[r] = pc[r] /\ filling[r].by = "sweeper"
              /\ r \in sweeper'.todo => r \in sweeper.todo
    PROVE  OrderInv(r)'
<1> USE DEF ledger, trades
<1>1. UNCHANGED <<status, order_type, filled_at, held_cash>>
  BY DEF FillRollback
<1>2. filling'[r] = NoFill
  BY DEF FillRollback, Unlock, TypeOK
<1>3. filling'[r].by = "none" /\ filling'[r].stamp = 0
  BY <1>2 DEF NoFill
<1>4. Order[r].side = "sell" \/ MayOverrun(r)
  BY RollbackReason
<1>5. filling[r].by = "sweeper" => status[r] = "ACCEPTED" /\ pc[r] # "filling"
  BY DEF OrderInv, FillInv
<1>6. RowInv(r)'
  BY <1>1 DEF OrderInv, RowInv
<1>7. HoldInv(r)'
  BY <1>1 DEF OrderInv, HoldInv
<1>8. FillInv(r)'
  <2>1. filling'[r].stamp <= clock' /\ filled_at'[r] <= clock'
    BY <1>1, <1>3 DEF OrderInv, FillInv, TypeOK
  <2> QED
    BY <1>1, <1>3, <1>4, <1>5, <2>1 DEF OrderInv, FillInv, MayOverrun
<1> QED
  BY <1>6, <1>7, <1>8 DEF OrderInv

(* The request's process dies. *)
LEMMA OwnCrash ==
    ASSUME TypeOK, NEW r \in Requests, OrderInv(r), CrashRequest(r)
    PROVE  OrderInv(r)'
<1> USE DEF ledger, trades, Goto
<1>1. UNCHANGED <<status, order_type, filled_at, held_cash, sweeper, clock>> /\ pc'[r] = "crashed"
  BY DEF CrashRequest, TypeOK
<1>2. \/ pc[r] = "filling" /\ filling'[r] = NoFill
      \/ pc[r] # "filling" /\ filling'[r] = filling[r]
  BY DEF CrashRequest, TypeOK
<1>3. RowInv(r)'
  BY <1>1 DEF OrderInv, RowInv
<1>4. HoldInv(r)'
  BY <1>1 DEF OrderInv, HoldInv
<1>5. FillInv(r)'
  <2>1. CASE pc[r] = "filling" /\ filling'[r] = NoFill
    <3>1. filling'[r].by = "none" /\ filling'[r].stamp = 0
      BY <2>1 DEF NoFill
    <3> QED
      BY <1>1, <2>1, <3>1 DEF OrderInv, FillInv, MayOverrun, TypeOK
  <2>2. CASE pc[r] # "filling" /\ filling'[r] = filling[r]
    BY <1>1, <2>2 DEF OrderInv, FillInv, MayOverrun, Cost
  <2> QED
    BY <1>2, <2>1, <2>2
<1> QED
  BY <1>3, <1>4, <1>5 DEF OrderInv

(* The sweep passes by the order, turns it into a limit order or reports it. *)
LEMMA OwnSweepQuiet ==
    ASSUME TypeOK, NEW r \in Requests, OrderInv(r), SweepConvert(r) \/ SweepSkip(r) \/ SweepReport(r)
    PROVE  OrderInv(r)'
<1> USE DEF ledger, trades, sweepFrame
<1>1. UNCHANGED <<status, filled_at, held_cash, filling, clock, pc, seen>>
  BY DEF SweepConvert, SweepSkip, SweepReport
<1>2. \/ order_type'[r] = order_type[r]
      \/ order_type[r] = "stop_limit" /\ order_type'[r] = "limit"
  BY DEF SweepConvert, SweepSkip, SweepReport, Converts, Live, TypeOK
<1>3. /\ r \in sweeper'.todo => r \in sweeper.todo
      /\ r \in sweeper'.rejecting => r \in sweeper.rejecting
  <2>1. \/ sweeper' = [sweeper EXCEPT !.todo = @ \ {r}]
        \/ sweeper' = [sweeper EXCEPT !.settled = @ \ {r}]
    BY DEF SweepConvert, SweepSkip, SweepReport
  <2>2. sweeper \in [on : BOOLEAN, price : Nat, todo : SUBSET Requests,
                     rejecting : SUBSET Requests, settled : SUBSET Requests]
    BY DEF TypeOK
  <2> QED
    BY <2>1, <2>2
<1>4. RowInv(r)'
  BY <1>1, <1>2 DEF OrderInv, RowInv
<1>5. HoldInv(r)'
  BY <1>1 DEF OrderInv, HoldInv
<1>6. FillInv(r)'
  BY <1>1, <1>3 DEF OrderInv, FillInv, MayOverrun, Cost
<1> QED
  BY <1>4, <1>5, <1>6 DEF OrderInv

(* The sweep begins to fill the order. *)
LEMMA OwnSweepFill ==
    ASSUME TypeOK, NEW r \in Requests, OrderInv(r), SweepFillStart(r)
    PROVE  OrderInv(r)'
<1> USE DEF ledger, trades, sweepFrame
<1>1. PICK price \in SweepFill(Live(r), sweeper.price) : FillStart(r, "sweeper", price)
  BY DEF SweepFillStart
<1>2. UNCHANGED <<status, order_type, filled_at, held_cash, pc, seen>>
  BY DEF SweepFillStart
<1>3. status[r] = "ACCEPTED"
  <2>1. r \in sweeper.todo /\ status[r] \in OPEN_STATUSES
    BY <1>1, StartedFill DEF SweepFillStart, AtOrder
  <2> QED
    BY <2>1 DEF OrderInv, FillInv, OPEN_STATUSES
<1>4. /\ r \in sweeper'.todo => r \in sweeper.todo
      /\ r \in sweeper'.rejecting => r \in sweeper.rejecting
  BY DEF SweepFillStart, TypeOK
<1>5. RowInv(r)'
  BY <1>2 DEF OrderInv, RowInv
<1>6. HoldInv(r)'
  BY <1>2 DEF OrderInv, HoldInv
<1>7. FillInv(r)'
  <2>1. Order[r].side = "buy" /\ ~MayOverrun(r) => Cost(r)' <= held_cash'[r]
    BY <1>1, <1>2, <1>3, RestingWithin, StartedFill
  <2>2. filling'[r].stamp <= clock' /\ filled_at'[r] <= clock'
    BY <1>1, <1>2, StartedFill DEF OrderInv, FillInv, TypeOK
  <2>3. pc[r] # "filling"
    BY <1>3 DEF OrderInv, RowInv
  <2> QED
    BY <1>1, <1>2, <1>3, <1>4, <2>1, <2>2, <2>3, StartedFill DEF OrderInv, FillInv, MayOverrun
<1> QED
  BY <1>5, <1>6, <1>7 DEF OrderInv

(* Every step about an order keeps what holds of it. *)
LEMMA OwnStep ==
    ASSUME BrokerInv, NEW r \in Requests, StepOf(r)
    PROVE  OrderInv(r)'
<1> USE DEF Goto, sweepFrame
<1>0. TypeOK /\ OrderInv(r) /\ NeverOverdrawn /\ ReservedIsOpenOrders
  BY DEF BrokerInv, OrdersInv, OrderInv, ReservationsHold
<1>1. CASE Expire(r) \/ Reject(r)
  <2>1. PICK to \in {"EXPIRED", "REJECTED", "CANCELLED"} : CloseOrder(r, to, held_cash[r])
    BY <1>1 DEF Expire, Reject
  <2>2. Goto(r, "settled") /\ UNCHANGED <<filling, sweeper, clock>>
    BY <1>1 DEF Expire, Reject
  <2>3. pc'[r] = "settled"
    BY <1>0, <2>2 DEF TypeOK
  <2> QED
    BY <1>0, <2>1, <2>2, <2>3, OwnClose
<1>2. CASE Cancel(r)
  <2>1. /\ CloseOrder(r, "CANCELLED", TradeReservation(r)) /\ status[r] = "ACCEPTED"
        /\ UNCHANGED <<pc, filling, sweeper, clock>>
    BY <1>2 DEF Cancel
  <2> QED
    BY <1>0, <2>1, OwnClose
<1>3. CASE FinishFill(r)
  <2>1. UNCHANGED <<seen, sweeper, clock>> /\ pc[r] = "filling"
    BY <1>3 DEF FinishFill
  <2>2. CASE FillCommit(r) /\ Goto(r, "settled")
    <3>1. pc'[r] = "settled"
      BY <1>0, <2>2 DEF TypeOK
    <3> QED
      BY <1>0, <2>1, <2>2, <3>1, OwnCommit
  <2>3. CASE FillRollback(r) /\ Goto(r, "rejecting")
    <3>1. pc'[r] = "rejecting"
      BY <1>0, <2>3 DEF TypeOK
    <3> QED
      BY <1>0, <2>1, <2>3, <3>1, OwnRollback
  <2> QED
    BY <1>3, <2>2, <2>3 DEF FinishFill
<1>4. CASE SweepFillFinish(r)
  <2>1. UNCHANGED <<pc, seen, clock>> /\ filling[r].by = "sweeper" /\ status[r] = "ACCEPTED"
    BY <1>0, <1>4 DEF SweepFillFinish, OrderInv, FillInv
  <2>2. CASE FillCommit(r) /\ sweeper' = [sweeper EXCEPT !.settled = @ \cup {r}]
    <3>1. /\ r \in sweeper'.todo => r \in sweeper.todo
          /\ r \in sweeper'.rejecting => r \in sweeper.rejecting
      BY <1>0, <2>2 DEF TypeOK
    <3> QED
      BY <1>0, <2>1, <2>2, <3>1, OwnCommit
  <2>3. CASE FillRollback(r) /\ sweeper' = [sweeper EXCEPT !.rejecting = {r}]
    <3>1. r \in sweeper'.todo => r \in sweeper.todo
      BY <1>0, <2>3 DEF TypeOK
    <3> QED
      BY <1>0, <2>1, <2>3, <3>1, OwnRollback
  <2> QED
    BY <1>4, <2>2, <2>3 DEF SweepFillFinish
<1>5. CASE SweepReject(r)
  <2>1. UNCHANGED <<pc, seen, filling, clock>> /\ r \in sweeper.rejecting
    BY <1>5 DEF SweepReject
  <2>2. /\ r \in sweeper'.todo => r \in sweeper.todo
        /\ r \in sweeper'.rejecting => r \in sweeper.rejecting
    BY <1>0, <1>5 DEF SweepReject, TypeOK
  <2>3. CASE CloseOrder(r, "REJECTED", TradeReservation(r))
    <3>1. status[r] = "ACCEPTED"
      BY <1>0, <2>1, <2>3 DEF CloseOrder, OrderInv, FillInv, OPEN_STATUSES
    <3> QED
      BY <1>0, <2>1, <2>2, <2>3, <3>1, OwnClose
  <2>4. CASE UNCHANGED <<ledger, trades>>
    <3>1. RowInv(r)' /\ HoldInv(r)'
      BY <1>0, <2>1, <2>4 DEF OrderInv, RowInv, HoldInv, trades
    <3>2. FillInv(r)'
      BY <1>0, <2>1, <2>2, <2>4 DEF OrderInv, FillInv, MayOverrun, Cost, trades
    <3> QED
      BY <3>1, <3>2 DEF OrderInv
  <2> QED
    BY <1>5, <2>3, <2>4 DEF SweepReject
<1>6. CASE Moves(r)
  BY <1>0, <1>6, OwnMoves
<1>7. CASE Place(r) \/ StartFill(r) \/ Convert(r) \/ Accept(r) \/ CrashRequest(r)
  BY <1>0, <1>7, OwnPlace, OwnStartFill, OwnConvert, OwnAccept, OwnCrash
<1>8. CASE SweepConvert(r) \/ SweepSkip(r) \/ SweepReport(r) \/ SweepFillStart(r)
  BY <1>0, <1>8, OwnSweepQuiet, OwnSweepFill
<1> QED
  BY <1>1, <1>2, <1>3, <1>4, <1>5, <1>6, <1>7, <1>8 DEF StepOf, Handle, Moves, SweepsOf

(* The audit of a cancel, or the crash before it, touches neither an order *)
(* nor a request nor the account.                                          *)
Aside == UNCHANGED <<ledger, trades, idem, pc, seen, filling, sweeper, clock>>

(* The sweep as a whole, and steps aside. *)
LEMMA SweepWhole ==
    ASSUME TypeOK, SweepStart \/ SweepEnd \/ CrashSweep \/ Aside,
           NEW q \in Requests, OrderInv(q)
    PROVE  OrderInv(q)'
<1> USE DEF ledger, trades, sweepFrame
<1>1. UNCHANGED <<ledger, trades, pc, seen, clock>>
  BY DEF SweepStart, SweepEnd, CrashSweep, Aside
<1>2. RowInv(q)' /\ HoldInv(q)'
  BY <1>1 DEF OrderInv, RowInv, HoldInv
<1>3. FillInv(q)'
  <2>1. CASE SweepStart
    <3>1. PICK price \in Prices : sweeper' = [NotSweeping EXCEPT !.on = TRUE, !.price = price,
             !.todo = {r \in Requests : status[r] = "ACCEPTED" /\ Actionable(Live(r), price)}]
      BY <2>1 DEF SweepStart
    <3>2. sweeper'.rejecting = {} /\ \A r \in sweeper'.todo : status[r] = "ACCEPTED"
      BY <3>1 DEF NotSweeping
    <3>3. UNCHANGED filling
      BY <2>1 DEF SweepStart
    <3> QED
      BY <1>1, <3>2, <3>3 DEF OrderInv, FillInv, MayOverrun, Cost
  <2>2. CASE SweepEnd
    <3>1. sweeper'.rejecting = {} /\ sweeper'.todo = {} /\ UNCHANGED filling
      BY <2>2 DEF SweepEnd, NotSweeping
    <3> QED
      BY <1>1, <3>1 DEF OrderInv, FillInv, MayOverrun, Cost
  <2>3. CASE CrashSweep
    <3>1. sweeper'.rejecting = {} /\ sweeper'.todo = {}
      BY <2>3 DEF CrashSweep, NotSweeping
    <3>2. \/ filling[q].by = "sweeper" /\ filling'[q] = NoFill
          \/ filling[q].by # "sweeper" /\ filling'[q] = filling[q]
      BY <2>3 DEF CrashSweep
    <3>3. CASE filling[q].by = "sweeper" /\ filling'[q] = NoFill
      <4>1. filling'[q].by = "none" /\ filling'[q].stamp = 0
        BY <3>3 DEF NoFill
      <4> QED
        BY <1>1, <3>1, <3>3, <4>1 DEF OrderInv, FillInv, MayOverrun, TypeOK
    <3>4. CASE filling'[q] = filling[q]
      BY <1>1, <3>1, <3>4 DEF OrderInv, FillInv, MayOverrun, Cost
    <3> QED
      BY <3>2, <3>3, <3>4
  <2>4. CASE Aside
    BY <2>4 DEF OrderInv, FillInv, MayOverrun, Cost, Aside
  <2> QED
    BY <2>1, <2>2, <2>3, <2>4
<1> QED
  BY <1>2, <1>3 DEF OrderInv

(* Every step is about one order, or about the sweep as a whole. *)
LEMMA StepKinds ==
    ASSUME [Next]_vars
    PROVE  \/ \E r \in Requests : StepOf(r)
           \/ SweepStart \/ SweepEnd \/ CrashSweep \/ Aside
BY DEF Next, SweepStep, StepOf, SweepsOf, CancelReport, CrashCancel, Aside, vars

(* Every step keeps what holds of the orders. *)
LEMMA OrdersStep == ASSUME BrokerInv, [Next]_vars PROVE OrdersInv'
<1>0. TypeOK /\ \A q \in Requests : OrderInv(q)
  BY DEF BrokerInv, OrdersInv, OrderInv
<1>1. ASSUME NEW r \in Requests, StepOf(r) PROVE \A q \in Requests : OrderInv(q)'
  BY <1>0, <1>1, OwnStep, OthersHold
<1>2. ASSUME SweepStart \/ SweepEnd \/ CrashSweep \/ Aside
      PROVE  \A q \in Requests : OrderInv(q)'
  BY <1>0, <1>2, SweepWhole
<1>3. \A q \in Requests : OrderInv(q)'
  BY <1>1, <1>2, StepKinds
<1> QED
  BY <1>3 DEF OrdersInv, OrderInv

-----------------------------------------------------------------------------
(* The account *)

Quiet == UNCHANGED <<ledger, status, filled_price, filled_at, held_cash>>

(* The steps that touch an order's row or the account. *)
LEMMA StepEffects ==
    ASSUME NEW r \in Requests, StepOf(r)
    PROVE  \/ Quiet
           \/ Place(r)
           \/ AcceptOrder(r) /\ UNCHANGED <<ledger, filled_price, filled_at, held_cash>>
           \/ Expire(r) \/ Reject(r) \/ Cancel(r)
           \/ FillCommit(r)
           \/ r \in sweeper.rejecting /\ CloseOrder(r, "REJECTED", TradeReservation(r))
<1> USE DEF Quiet, ledger, trades
<1>1. CASE Moves(r)
  BY <1>1 DEF Moves, Observe, Admit, RefuseUnadmitted, Refuse, ReserveKey, PlaceFails, ReleaseKey,
         Report, CompleteKey
<1>2. CASE StartFill(r) \/ Convert(r) \/ CrashRequest(r)
  BY <1>2 DEF StartFill, Convert, CrashRequest
<1>3. CASE Accept(r)
  BY <1>3 DEF Accept
<1>4. CASE FinishFill(r) \/ SweepFillFinish(r)
  BY <1>4 DEF FinishFill, SweepFillFinish, FillRollback
<1>5. CASE SweepConvert(r) \/ SweepSkip(r) \/ SweepReport(r) \/ SweepFillStart(r)
  BY <1>5 DEF SweepConvert, SweepSkip, SweepReport, SweepFillStart
<1>6. CASE SweepReject(r)
  BY <1>6 DEF SweepReject
<1> QED
  BY <1>1, <1>2, <1>3, <1>4, <1>5, <1>6 DEF StepOf, Handle, Moves, SweepsOf

(* Every step keeps the totals of the account. *)
LEMMA TotalsStep == ASSUME BrokerInv, [Next]_vars PROVE Totals'
<1>0. TypeOK /\ Totals /\ \A q \in Requests : OrderInv(q)
  BY DEF BrokerInv, Totals, ReservationsHold, OrdersInv, OrderInv
<1>1. ASSUME Quiet PROVE Totals'
  BY <1>0, <1>1, TotalsFrame DEF Quiet
<1>2. ASSUME NEW r \in Requests, Place(r) PROVE Totals'
  <2>1. PICK amount \in Nat : amount = Reservation(r, Order[r].type, seen[r].price)
    BY <1>0, ReservationFacts DEF TypeOK
  <2>2. status[r] = "none"
    BY <1>0, <1>2 DEF Place, OrderInv, RowInv
  <2>3. /\ TryReserve(amount) /\ status' = [status EXCEPT ![r] = "PENDING"]
        /\ held_cash' = [held_cash EXCEPT ![r] = amount]
        /\ UNCHANGED <<cash, position, filled_price, filled_at>>
    BY <1>2, <2>1 DEF Place
  <2> QED
    BY <1>0, <2>2, <2>3, TotalsPlace
<1>3. ASSUME NEW r \in Requests, AcceptOrder(r),
             UNCHANGED <<ledger, filled_price, filled_at, held_cash>>
      PROVE  Totals'
  BY <1>0, <1>3, TotalsAccept
<1>4. ASSUME NEW r \in Requests, NEW to \in {"EXPIRED", "REJECTED", "CANCELLED"}, NEW amount,
             amount = held_cash[r], CloseOrder(r, to, amount)
      PROVE  Totals'
  BY <1>0, <1>4, TotalsClose DEF OPEN_STATUSES
<1>5. ASSUME NEW r \in Requests, Expire(r) \/ Reject(r) PROVE Totals'
  BY <1>4, <1>5 DEF Expire, Reject
<1>6. ASSUME NEW r \in Requests, status[r] \notin {"none", "PENDING"},
             NEW to \in {"REJECTED", "CANCELLED"}, CloseOrder(r, to, TradeReservation(r))
      PROVE  Totals'
  <2>1. status[r] = "ACCEPTED"
    BY <1>6 DEF CloseOrder, OPEN_STATUSES
  <2>2. TradeReservation(r) = held_cash[r]
    BY <1>0, <2>1, ReleasesHeld DEF OrderInv, RowInv
  <2> QED
    BY <1>4, <1>6, <2>2
<1>7. ASSUME NEW r \in Requests, FillCommit(r) PROVE Totals'
  <2>1. filling[r].by # "none" /\ status[r] \in OPEN_STATUSES /\ status[r] # "none"
    BY <1>0, <1>7, FillsAreOpen DEF FillCommit, RowFree, OPEN_STATUSES
  <2> QED
    BY <1>0, <1>7, <2>1, ReleasesHeld, TotalsCommit
<1>8. ASSUME NEW r \in Requests, StepOf(r) PROVE Totals'
  <2>1. CASE Cancel(r)
    BY <1>6, <2>1 DEF Cancel
  <2>2. CASE r \in sweeper.rejecting /\ CloseOrder(r, "REJECTED", TradeReservation(r))
    BY <1>0, <1>6, <2>2 DEF OrderInv, FillInv
  <2> QED
    BY <1>1, <1>2, <1>3, <1>5, <1>7, <1>8, <2>1, <2>2, StepEffects
<1>9. ASSUME SweepStart \/ SweepEnd \/ CrashSweep \/ Aside PROVE Totals'
  BY <1>1, <1>9 DEF SweepStart, SweepEnd, CrashSweep, Aside, Quiet, ledger, trades
<1> QED
  BY <1>8, <1>9, StepKinds

(* How an order's status may change. *)
LEMMA StatusMoves ==
    ASSUME BrokerInv, NEW r \in Requests, StepOf(r)
    PROVE  \/ status'[r] = status[r] /\ filled_price'[r] = filled_price[r]
           \/ status[r] = "none" /\ status'[r] = "PENDING"
           \/ /\ status[r] \in OPEN_STATUSES /\ status'[r] # "none"
              /\ status'[r] = "REJECTED" => Order[r].side = "sell" \/ MayOverrun(r)
<1>0. TypeOK /\ OrderInv(r)
  BY DEF BrokerInv, OrdersInv, OrderInv
<1>1. CASE Quiet
  BY <1>1 DEF Quiet
<1>2. CASE Place(r)
  BY <1>0, <1>2 DEF Place, OrderInv, RowInv, TypeOK
<1>3. CASE AcceptOrder(r)
  BY <1>0, <1>3 DEF AcceptOrder, TypeOK, OPEN_STATUSES
<1>4. CASE Expire(r) \/ Cancel(r)
  BY <1>0, <1>4 DEF Expire, Cancel, CloseOrder, TypeOK
<1>5. CASE Reject(r)
  BY <1>0, <1>5 DEF Reject, CloseOrder, TypeOK, OrderInv, FillInv
<1>6. CASE r \in sweeper.rejecting /\ CloseOrder(r, "REJECTED", TradeReservation(r))
  BY <1>0, <1>6 DEF CloseOrder, TypeOK, OrderInv, FillInv
<1>7. CASE FillCommit(r)
  <2>1. status[r] \in OPEN_STATUSES
    BY <1>0, <1>7, FillsAreOpen DEF FillCommit, RowFree
  <2> QED
    BY <1>0, <1>7, <2>1 DEF FillCommit, TypeOK
<1> QED
  BY <1>1, <1>2, <1>3, <1>4, <1>5, <1>6, <1>7, StepEffects

(* The sweep as a whole changes no status. *)
LEMMA WholeKeepsStatus ==
    ASSUME SweepStart \/ SweepEnd \/ CrashSweep \/ Aside
    PROVE  UNCHANGED <<status, filled_price, pc, idem>>
BY DEF SweepStart, SweepEnd, CrashSweep, Aside, ledger, trades, sweepFrame

(* Every step rejects only buys that overran. *)
LEMMA RejectsStep == ASSUME BrokerInv, [Next]_vars PROVE OnlyOverrunsRejected'
<1>0. TypeOK /\ OnlyOverrunsRejected
  BY DEF BrokerInv, ReservationsHold
<1>1. ASSUME NEW r \in Requests, StepOf(r), NEW q \in Requests, status'[q] = "REJECTED",
             Order[q].side = "buy"
      PROVE  MayOverrun(q)
  <2>1. CASE q = r
    BY <1>0, <1>1, <2>1, StatusMoves DEF OnlyOverrunsRejected
  <2>2. CASE q # r
    BY <1>0, <1>1, <2>2, OthersStay DEF OnlyOverrunsRejected, Same
  <2> QED
    BY <2>1, <2>2
<1>2. ASSUME NEW r \in Requests, StepOf(r) PROVE OnlyOverrunsRejected'
  BY <1>1, <1>2 DEF OnlyOverrunsRejected, MayOverrun
<1>3. ASSUME SweepStart \/ SweepEnd \/ CrashSweep \/ Aside PROVE OnlyOverrunsRejected'
  BY <1>0, <1>3, WholeKeepsStatus DEF OnlyOverrunsRejected, MayOverrun
<1> QED
  BY <1>2, <1>3, StepKinds

-----------------------------------------------------------------------------
(* Idempotency keys *)

(* A request comes to claim its key only by reserving a free one. *)
LEMMA NewClaims ==
    ASSUME BrokerInv, NEW r \in Requests, StepOf(r), Claims(r)', ~Claims(r)
    PROVE  ReserveKey(r) /\ KeyState(r) = "free"
<1> USE DEF Goto, Claims
<1>0. TypeOK /\ OrderInv(r)
  BY DEF BrokerInv, OrdersInv, OrderInv
<1>1. /\ pc[r] \notin {"keyed", "placed", "converted", "filling", "rejecting", "settled", "reported",
                     "releasing"}
      /\ status[r] = "none"
  OBVIOUS
<1>2. CASE Moves(r)
  <2>1. status'[r] = "none"
    BY <1>1, <1>2 DEF Moves, Observe, Admit, RefuseUnadmitted, Refuse, ReserveKey, PlaceFails,
           ReleaseKey, Report, CompleteKey, trades
  <2>2. CASE Observe(r)
    <3>1. PICK loc \in {"replayed", "refused", "observed"} : Goto(r, loc)
      BY <2>2 DEF Observe
    <3>2. pc'[r] = loc
      BY <1>0, <3>1 DEF TypeOK
    <3> QED
      BY <2>1, <3>2
  <2>3. CASE Admit(r) \/ RefuseUnadmitted(r)
    <3>1. PICK loc \in {"admitted", "refused"} : Goto(r, loc)
      BY <2>3 DEF Admit, RefuseUnadmitted, Refuse
    <3>2. pc'[r] = loc
      BY <1>0, <3>1 DEF TypeOK
    <3> QED
      BY <2>1, <3>2
  <2>4. CASE ReserveKey(r)
    <3>1. \/ KeyState(r) = "free"
          \/ \E loc \in {"replayed", "refused"} : Goto(r, loc)
      BY <2>4 DEF ReserveKey
    <3>2. ASSUME NEW loc \in {"replayed", "refused"}, Goto(r, loc) PROVE FALSE
      <4>1. pc'[r] = loc
        BY <1>0, <3>2 DEF TypeOK
      <4> QED
        BY <2>1, <4>1
    <3> QED
      BY <2>4, <3>1, <3>2
  <2>5. CASE PlaceFails(r) \/ ReleaseKey(r) \/ Report(r) \/ CompleteKey(r)
    BY <1>1, <2>5 DEF PlaceFails, ReleaseKey, Report, CompleteKey
  <2> QED
    BY <1>2, <2>2, <2>3, <2>4, <2>5 DEF Moves
<1>3. CASE Handle(r) /\ ~Moves(r)
  BY <1>1, <1>3 DEF Handle, Moves, Place, StartFill, Expire, Convert, Accept, FinishFill, Reject
<1>4. CASE Cancel(r)
  BY <1>1, <1>4 DEF Cancel
<1>5. CASE CrashRequest(r)
  BY <1>0, <1>1, <1>5 DEF CrashRequest, TypeOK, trades
<1>6. CASE SweepsOf(r)
  <2>1. pc' = pc
    BY <1>6 DEF SweepsOf, SweepConvert, SweepSkip, SweepReport, SweepFillStart, SweepFillFinish,
           SweepReject, sweepFrame
  <2>2. status'[r] = "PENDING"
    BY <1>1, <2>1, StatusMoves DEF OPEN_STATUSES
  <2>3. \/ UNCHANGED status \/ CloseOrder(r, "REJECTED", TradeReservation(r)) \/ FillCommit(r)
    BY <1>6 DEF SweepsOf, SweepConvert, SweepSkip, SweepReport, SweepFillStart, SweepFillFinish,
           SweepReject, FillRollback, trades
  <2> QED
    BY <1>0, <1>1, <2>2, <2>3 DEF CloseOrder, FillCommit, TypeOK
<1> QED
  BY <1>2, <1>3, <1>4, <1>5, <1>6 DEF StepOf

(* How the records of the keys change. *)
LEMMA KeyMoves ==
    ASSUME TypeOK, NEW r \in Requests, StepOf(r)
    PROVE  \/ UNCHANGED idem
           \/ /\ ReserveKey(r) /\ KeyState(r) = "free" /\ Key(r) \in Keys
              /\ idem' = [idem EXCEPT ![Key(r)] = "open"]
           \/ /\ ReleaseKey(r) /\ Key(r) \in Keys
              /\ idem' = [idem EXCEPT ![Key(r)] = "free"]
           \/ /\ CompleteKey(r) /\ Key(r) \in Keys
              /\ idem' = [idem EXCEPT ![Key(r)] = "done"]
<1>1. CASE ReserveKey(r) \/ ReleaseKey(r) \/ CompleteKey(r)
  BY <1>1, KeyFacts DEF ReserveKey, ReleaseKey, CompleteKey
<1>2. CASE Handle(r) /\ ~(ReserveKey(r) \/ ReleaseKey(r) \/ CompleteKey(r))
  BY <1>2 DEF Handle, Observe, Admit, RefuseUnadmitted, Refuse, Place, PlaceFails, StartFill,
         Expire, Convert, Accept, FinishFill, Reject, Report
<1>3. CASE Cancel(r) \/ CrashRequest(r) \/ SweepsOf(r)
  BY <1>3 DEF Cancel, CrashRequest, SweepsOf, SweepConvert, SweepSkip, SweepReport,
         SweepFillStart, SweepFillFinish, SweepReject, sweepFrame
<1> QED
  BY <1>1, <1>2, <1>3 DEF StepOf

(* An order once made is never unmade. *)
LEMMA MadeStays ==
    ASSUME BrokerInv, NEW r \in Requests, StepOf(r), NEW q \in Requests, status[q] # "none"
    PROVE  status'[q] # "none"
<1>0. TypeOK
  BY DEF BrokerInv
<1>1. CASE q = r
  BY <1>1, StatusMoves
<1>2. CASE q # r
  BY <1>0, <1>2, OthersStay DEF Same
<1> QED
  BY <1>1, <1>2

(* Every step keeps what holds of the keys. *)
LEMMA KeysStep == ASSUME BrokerInv, [Next]_vars PROVE KeysInv'
<1>0. TypeOK /\ KeysInv /\ \A q \in Requests : OrderInv(q)
  BY DEF BrokerInv, OrdersInv, OrderInv
<1> DEFINE K1 == \A r, q \in Requests :
                    Key(r) \in Keys /\ Key(r) = Key(q) /\ Claims(r) /\ Claims(q) => r = q
           K2 == \A r \in Requests : Claims(r) /\ Key(r) \in Keys => idem[Key(r)] # "free"
           K3 == \A k \in Keys : idem[k] = "done" =>
                    \E q \in Requests : Key(q) = k /\ status[q] # "none"
           K4 == \A r \in Requests : pc[r] = "replayed" =>
                    \E q \in Requests : Key(q) = Key(r) /\ status[q] # "none"
<1>1. K1 /\ K2 /\ K3 /\ K4
  BY <1>0 DEF KeysInv
<1>2. ASSUME NEW s \in Requests, StepOf(s) PROVE KeysInv'
  <2>1. \A q \in Requests : q # s => (Claims(q)' <=> Claims(q))
    BY <1>0, <1>2, OthersStay DEF Claims, Same
  <2>2. Claims(s)' => Claims(s) \/ (ReserveKey(s) /\ KeyState(s) = "free")
    BY <1>2, NewClaims
  <2>3. \A q \in Requests : status[q] # "none" => status'[q] # "none"
    BY <1>2, MadeStays
  <2>4. ASSUME NEW q \in Requests, q # s, Key(s) \in Keys, Key(q) = Key(s), Claims(s)', Claims(q)
        PROVE  FALSE
    <3>1. CASE Claims(s)
      BY <1>1, <2>4, <3>1
    <3>2. CASE KeyState(s) = "free"
      <4>1. idem[Key(s)] = "free"
        BY <2>4, <3>2, BrokerAssumption DEF KeyState
      <4> QED
        BY <1>1, <2>4, <4>1
    <3> QED
      BY <2>2, <2>4, <3>1, <3>2
  <2>5. K1'
    <3> SUFFICES ASSUME NEW r \in Requests, NEW q \in Requests, Key(r) \in Keys, Key(r) = Key(q),
                        Claims(r)', Claims(q)', r # q
                 PROVE  FALSE
      BY DEF Key
    <3>1. CASE r = s
      BY <2>1, <2>4, <3>1
    <3>2. CASE q = s
      BY <2>1, <2>4, <3>2
    <3>3. CASE r # s /\ q # s
      BY <1>1, <2>1, <3>3
    <3> QED
      BY <3>1, <3>2, <3>3
  <2>6. K2'
    <3> SUFFICES ASSUME NEW r \in Requests, Claims(r)', Key(r) \in Keys
                 PROVE  idem'[Key(r)] # "free"
      BY DEF Key
    <3>1. Claims(r) => idem[Key(r)] # "free"
      BY <1>1
    <3>2. CASE UNCHANGED idem
      <4>1. CASE Claims(r)
        BY <3>1, <3>2, <4>1
      <4>2. CASE ~Claims(r)
        <5>1. r = s /\ ReserveKey(r)
          BY <2>1, <2>2, <4>2
        <5>2. KeyState(r) = "free" /\ Key(r) # NoKey
          BY <2>2, <4>2, <5>1, BrokerAssumption
        <5>3. \/ idem' = [idem EXCEPT ![Key(r)] = "open"]
              \/ KeyState(r) \in {"done", "open"}
          BY <5>1, <5>2 DEF ReserveKey
        <5>4. idem' = [idem EXCEPT ![Key(r)] = "open"]
          BY <5>2, <5>3
        <5>5. idem'[Key(r)] = "open"
          BY <1>0, <5>4 DEF TypeOK
        <5> QED
          BY <5>5
      <4> QED
        BY <4>1, <4>2
    <3>3. CASE /\ Key(s) \in Keys
               /\ \/ idem' = [idem EXCEPT ![Key(s)] = "open"]
                  \/ idem' = [idem EXCEPT ![Key(s)] = "done"]
      <4>1. CASE Key(r) = Key(s)
        BY <1>0, <3>3, <4>1 DEF TypeOK
      <4>2. CASE Key(r) # Key(s)
        <5>1. r # s /\ Claims(r)
          BY <2>1, <4>2
        <5>2. idem'[Key(r)] = idem[Key(r)]
          BY <1>0, <3>3, <4>2 DEF TypeOK
        <5> QED
          BY <3>1, <5>1, <5>2
      <4> QED
        BY <4>1, <4>2
    <3>4. CASE ReleaseKey(s) /\ Key(s) \in Keys /\ idem' = [idem EXCEPT ![Key(s)] = "free"]
      <4>1. pc[s] = "releasing" /\ status[s] = "none" /\ pc'[s] = "refused" /\ status' = status
        BY <1>0, <3>4 DEF ReleaseKey, OrderInv, RowInv, Goto, TypeOK, trades
      <4>2. r # s
        BY <4>1 DEF Claims
      <4>3. Claims(r) /\ Claims(s)
        BY <2>1, <4>1, <4>2 DEF Claims
      <4>4. Key(r) # Key(s)
        BY <1>1, <4>2, <4>3
      <4>5. idem'[Key(r)] = idem[Key(r)]
        BY <1>0, <3>4, <4>4 DEF TypeOK
      <4> QED
        BY <3>1, <4>3, <4>5
    <3> QED
      BY <1>0, <1>2, <3>2, <3>3, <3>4, KeyMoves
  <2>7. K3'
    <3> SUFFICES ASSUME NEW k \in Keys, idem'[k] = "done"
                 PROVE  \E q \in Requests : Key(q) = k /\ status'[q] # "none"
      BY DEF Key
    <3>1. CASE idem[k] = "done"
      BY <1>1, <2>3, <3>1
    <3>2. CASE idem[k] # "done"
      <4>1. CompleteKey(s) /\ Key(s) = k
        BY <1>0, <1>2, <3>2, KeyMoves DEF TypeOK
      <4>2. status[s] # "none"
        BY <1>0, <4>1 DEF CompleteKey, OrderInv, RowInv
      <4> QED
        BY <2>3, <4>1, <4>2
    <3> QED
      BY <3>1, <3>2
  <2>8. K4'
    <3> SUFFICES ASSUME NEW r \in Requests, pc'[r] = "replayed"
                 PROVE  \E q \in Requests : Key(q) = Key(r) /\ status'[q] # "none"
      BY DEF Key
    <3>1. CASE pc[r] = "replayed"
      BY <1>1, <2>3, <3>1
    <3>2. CASE pc[r] # "replayed"
      <4>1. r = s
        BY <1>0, <1>2, <3>2, OthersStay DEF Same
      <4>2. KeyState(r) = "done"
        <5> USE DEF Goto
        <5>1. CASE Observe(r)
          BY <1>0, <5>1 DEF Observe, TypeOK
        <5>2. CASE ReserveKey(r)
          BY <1>0, <5>2 DEF ReserveKey, TypeOK
        <5>3. CASE Handle(r) /\ ~Observe(r) /\ ~ReserveKey(r)
          <6>1. PICK loc \in Locations \ {"replayed"} : pc' = [pc EXCEPT ![r] = loc]
            BY <5>3 DEF Handle, Admit, RefuseUnadmitted, Refuse, Place, PlaceFails, ReleaseKey,
                   StartFill, Expire, Convert, Accept, FinishFill, Reject, Report, CompleteKey,
                   Locations, Over
          <6> QED
            BY <1>0, <6>1 DEF TypeOK
        <5>4. CASE CrashRequest(r)
          BY <1>0, <5>4 DEF CrashRequest, TypeOK
        <5>5. CASE Cancel(r) \/ SweepsOf(r)
          BY <3>2, <5>5 DEF Cancel, SweepsOf, SweepConvert, SweepSkip, SweepReport,
                 SweepFillStart, SweepFillFinish, SweepReject, sweepFrame
        <5> QED
          BY <1>2, <4>1, <5>1, <5>2, <5>3, <5>4, <5>5 DEF StepOf
      <4>3. Key(r) \in Keys /\ idem[Key(r)] = "done"
        BY <4>2, KeyFacts DEF KeyState
      <4> QED
        BY <1>1, <2>3, <4>3
    <3> QED
      BY <3>1, <3>2
  <2> QED
    BY <2>5, <2>6, <2>7, <2>8 DEF KeysInv
<1>3. ASSUME SweepStart \/ SweepEnd \/ CrashSweep \/ Aside PROVE KeysInv'
  <2>1. UNCHANGED <<status, pc, idem>>
    BY <1>3, WholeKeepsStatus
  <2>2. \A r \in Requests : Claims(r)' <=> Claims(r)
    BY <2>1 DEF Claims
  <2> QED
    BY <1>1, <2>1, <2>2 DEF KeysInv, Key
<1> QED
  BY <1>2, <1>3, StepKinds

-----------------------------------------------------------------------------
(* The theorems *)

(* The invariant holds of a new account. *)
LEMMA BrokerStart == ASSUME Init PROVE BrokerInv
<1> USE DEF Init
<1>1. TypeOK
  <2>1. order_type \in [Requests -> OrderTypes]
    BY OrderFacts
  <2>2. Unseen \in [price : Nat, live : BOOLEAN, held : Nat]
    BY DEF Unseen
  <2>3. NoFill \in [by : {"none", "request", "sweeper"}, price : Nat, stamp : Nat]
    BY DEF NoFill
  <2>4. NotSweeping \in [on : BOOLEAN, price : Nat, todo : SUBSET Requests,
                         rejecting : SUBSET Requests, settled : SUBSET Requests]
    BY DEF NotSweeping
  <2>5. /\ status \in [Requests -> Statuses] /\ pc \in [Requests -> Locations]
        /\ idem \in [Keys -> {"free", "open", "done"}]
        /\ reports \in [Requests -> SUBSET Statuses] /\ cancelling \subseteq Requests
    BY DEF Statuses, Locations
  <2>6. crashes \in 0..MaxCrashes /\ cash \in Nat /\ reserved \in Nat /\ position \in Nat
    BY BrokerAssumption
  <2>7. /\ filled_price \in [Requests -> Nat] /\ filled_at \in [Requests -> Nat]
        /\ held_cash \in [Requests -> Nat] /\ clock \in Nat
    OBVIOUS
  <2>8. /\ seen \in [Requests -> [price : Nat, live : BOOLEAN, held : Nat]]
        /\ filling \in [Requests -> [by : {"none", "request", "sweeper"}, price : Nat, stamp : Nat]]
    BY <2>2, <2>3
  <2> QED
    BY <2>1, <2>4, <2>5, <2>6, <2>7, <2>8 DEF TypeOK
<1>2. OrdersInv
  <2> SUFFICES ASSUME NEW r \in Requests PROVE RowInv(r) /\ HoldInv(r) /\ FillInv(r)
    BY DEF OrdersInv
  <2>1. pc[r] = "new" /\ status[r] = "none" /\ order_type[r] = Order[r].type
    OBVIOUS
  <2>2. filling[r].by = "none" /\ filling[r].stamp = 0
    BY DEF NoFill
  <2>3. sweeper.todo = {} /\ sweeper.rejecting = {}
    BY DEF NotSweeping
  <2>4. RowInv(r) /\ HoldInv(r)
    BY <2>1 DEF RowInv, HoldInv
  <2>5. FillInv(r)
    BY <2>1, <2>2, <2>3 DEF FillInv
  <2> QED
    BY <2>4, <2>5
<1>3. KeysInv
  BY DEF KeysInv, Claims
<1>4. OpenOrders = {} /\ Filled = {}
  BY DEF OpenOrders, Filled, OPEN_STATUSES
<1>5. SumFunctionOnSet(held_cash, {}) = 0 /\ SumFunctionOnSet(Spent, {}) = 0
  BY SumType, FS_EmptySet
<1>6. NeverOverdrawn /\ ReservedIsOpenOrders /\ CashIsFills
  BY <1>4, <1>5, BrokerAssumption DEF NeverOverdrawn, ReservedIsOpenOrders, CashIsFills
<1>7. OnlyOverrunsRejected
  BY DEF OnlyOverrunsRejected
<1>8. PositionIsFills
  <2>1. HeldQuantity({}, filled_at) = 0
    BY HeldNothing
  <2> QED
    BY <1>4, <2>1 DEF PositionIsFills
<1> QED
  BY <1>1, <1>2, <1>3, <1>6, <1>7, <1>8 DEF BrokerInv, ReservationsHold, LedgerIsFills

(* BrokerInv is an invariant of the paper broker: for any number of        *)
(* concurrent requests, cancels, sweeps and crashes, the rows, the holds   *)
(* and the fills under way agree with each other and with the account.     *)
THEOREM BrokerInvariant == Spec => []BrokerInv
<1>1. Init => BrokerInv
  BY BrokerStart
<1>2. BrokerInv /\ [Next]_vars => BrokerInv'
  <2> SUFFICES ASSUME BrokerInv, [Next]_vars PROVE BrokerInv'
    OBVIOUS
  <2>1. Totals'
    BY TotalsStep
  <2> QED
    BY <2>1, TypeStep, OrdersStep, KeysStep, RejectsStep DEF BrokerInv, Totals, ReservationsHold
<1> QED
  BY <1>1, <1>2, PTL DEF Spec

(* Every variable of the broker keeps its type; the position, which the    *)
(* fold of held_quantity computes, is never negative.                      *)
THEOREM BrokerTypes == Spec => []TypeOK
<1>1. BrokerInv => TypeOK
  BY DEF BrokerInv
<1> QED
  BY <1>1, BrokerInvariant, PTL

(* The account is never overdrawn, what is reserved is exactly the sum of  *)
(* what the open orders hold, and no buy is rejected for want of cash but  *)
(* a stop order or one with a limit in fractions of a cent.                *)
THEOREM ReservationsDoHold == Spec => []ReservationsHold
<1>1. BrokerInv => ReservationsHold
  BY DEF BrokerInv
<1> QED
  BY <1>1, BrokerInvariant, PTL

(* The cash is the initial cash less what the filled orders cost, each     *)
(* counted once, and the position is the one they make.                    *)
THEOREM LedgerStaysFills == Spec => []LedgerIsFills
<1>1. BrokerInv => LedgerIsFills
  BY DEF BrokerInv
<1> QED
  BY <1>1, BrokerInvariant, PTL

(* However often and however concurrently a request is retried, its        *)
(* idempotency key makes at most one order, and an answer is replayed only *)
(* of an order that was made.                                              *)
THEOREM KeysMakeOneOrder == Spec => []OneOrderPerKey
<1>1. BrokerInv => OneOrderPerKey
  <2> SUFFICES ASSUME BrokerInv, NEW k \in Keys
               PROVE  LET same == {r \in Requests : Key(r) = k}
                          made == {r \in same : status[r] # "none"}
                      IN /\ Cardinality(made) <= 1
                         /\ (\E r \in same : pc[r] = "replayed") => made # {}
    BY DEF OneOrderPerKey
  <2> DEFINE made == {r \in {q \in Requests : Key(q) = k} : status[r] # "none"}
  <2>1. KeysInv
    BY DEF BrokerInv
  <2>2. Cardinality(made) <= 1
    <3>1. CASE made = {}
      BY <3>1, FS_EmptySet
    <3>2. CASE made # {}
      <4>1. PICK r \in made : TRUE
        BY <3>2
      <4>2. made = {r}
        BY <2>1, <4>1 DEF KeysInv, Claims
      <4> QED
        BY <4>2, FS_Singleton
    <3> QED
      BY <3>1, <3>2
  <2>3. ASSUME NEW r \in Requests, Key(r) = k, pc[r] = "replayed" PROVE made # {}
    BY <2>1, <2>3 DEF KeysInv
  <2> QED
    BY <2>2, <2>3
<1> QED
  BY <1>1, BrokerInvariant, PTL

(* An order that is filled, rejected, expired or cancelled stays that way, *)
(* at the price it was filled at.                                          *)
THEOREM FinalStaysFinal == Spec => FinalIsFinal
<1>1. BrokerInv /\ [Next]_vars =>
         [\A r \in Requests : status[r] \notin OPEN_STATUSES \cup {"none"} =>
             status'[r] = status[r] /\ filled_price'[r] = filled_price[r]]_vars
  <2> SUFFICES ASSUME BrokerInv, [Next]_vars, NEW q \in Requests,
                      status[q] \notin OPEN_STATUSES \cup {"none"}
               PROVE  status'[q] = status[q] /\ filled_price'[q] = filled_price[q]
    OBVIOUS
  <2>1. TypeOK
    BY DEF BrokerInv
  <2>2. ASSUME NEW r \in Requests, StepOf(r)
        PROVE  status'[q] = status[q] /\ filled_price'[q] = filled_price[q]
    <3>1. CASE q = r
      BY <2>2, <3>1, StatusMoves
    <3>2. CASE q # r
      BY <2>1, <2>2, <3>2, OthersStay DEF Same
    <3> QED
      BY <3>1, <3>2
  <2> QED
    BY <2>2, StepKinds, WholeKeepsStatus
<1> QED
  BY <1>1, BrokerInvariant, PTL DEF Spec, FinalIsFinal
=============================================================================
