----------------------------- MODULE MCResearch -----------------------------
(* Instances of Research for TLC. *)
EXTENDS Research, TLC

CONSTANTS p1, p2, backtest, replay, aapl, gone

(* Requests 1 and 2 share a process; 3 and 4 ask for the same replay, in   *)
(* two processes.                                                          *)
Served == <<p1, p1, p1, p2>>
Asked  == <<backtest, backtest, replay, replay>>

(* Two families: a share that pays a dividend inside the period, and a     *)
(* fund that stopped trading before it.                                    *)
Families == (aapl :> "EQUITY") @@ (gone :> "FUND")
Lasts    == (aapl :> 9) @@ (gone :> 1)
Pays     == (aapl :> {3}) @@ (gone :> {})

(* Values of a nullable string column *)
Labels == {<< >>, <<0>>}
=============================================================================
