--------------------------- MODULE MCPaperBroker ----------------------------
(* Instances of PaperBroker for TLC. *)
EXTENDS PaperBroker

CONSTANTS k1

Req(side, type, limit, stop, qty, ioc, key) ==
    [side |-> side, type |-> type, limit |-> limit, stop |-> stop, qty |-> qty,
     ioc |-> ioc, key |-> key]

(* A market buy, a limit buy in fractions of a cent and a stop buy         *)
(* competing for the cash.                                                 *)
Buys ==
    <<Req("buy", "market", NoPrice, NoPrice, 1, FALSE, NoKey),
      Req("buy", "limit", 1006, NoPrice, 1, FALSE, NoKey),
      Req("buy", "stop", NoPrice, 1006, 1, FALSE, NoKey)>>

(* No step reads reports: what becomes of the cash does not depend on what *)
(* was audited.                                                            *)
Unaudited == <<ledger, trades, idem, pc, seen, filling, cancelling, sweeper, clock, crashes>>

(* A retried immediate-or-cancel buy, and a stop-limit sell of what it buys. *)
RoundTrip ==
    <<Req("buy", "limit", 2, NoPrice, 1, TRUE, k1),
      Req("buy", "limit", 2, NoPrice, 1, TRUE, k1),
      Req("sell", "stop_limit", 2, 2, 1, FALSE, NoKey)>>

(* Two sells of one holding, and two buys. *)
TwoSells ==
    <<Req("buy", "market", NoPrice, NoPrice, 1, FALSE, NoKey),
      Req("sell", "market", NoPrice, NoPrice, 1, FALSE, NoKey),
      Req("sell", "market", NoPrice, NoPrice, 1, FALSE, NoKey),
      Req("buy", "market", NoPrice, NoPrice, 1, FALSE, NoKey)>>

OneBuy == <<Req("buy", "market", NoPrice, NoPrice, 1, FALSE, k1)>>
=============================================================================
