------------------------------- MODULE Venues -------------------------------
(***************************************************************************)
(* The simulated markets: the research exchange called in any order        *)
(* (PaperExchange), the same exchange driven by a replay (L2Replay), one   *)
(* resting order of the paper broker (RestingOrder), and the quotes that   *)
(* broker fills at (Quotes). A behaviour is one of them, chosen at the     *)
(* start.                                                                  *)
(***************************************************************************)
EXTENDS L2Replay, RestingOrder, Quotes

VARIABLE part

venueVars == <<part, vars, replayVars, restVars, quoteVars>>

(* The other parts leave the resting order out. *)
NothingRests ==
    /\ order = [side |-> "buy", type |-> "market", limit |-> NoPrice, stop |-> NoPrice]
    /\ last = CHOOSE p \in Prices : TRUE
    /\ ioc = FALSE /\ status = "new" /\ fill = NoPrice /\ triggered = FALSE

VenueInit ==
    /\ part \in {"exchange", "replay", "resting", "quotes"}
    /\ Init /\ ReplayInit /\ QuotesInit
    /\ part # "replay" => style = "passive"
    /\ part \in {"resting", "quotes"} => latency = CHOOSE l \in Latencies : TRUE
    /\ IF part = "resting" THEN RestInit ELSE NothingRests

VenueNext ==
    /\ \/ part = "exchange" /\ Next       /\ UNCHANGED <<replayVars, restVars, quoteVars>>
       \/ part = "replay"   /\ ReplayNext /\ UNCHANGED <<restVars, quoteVars>>
       \/ part = "resting"  /\ RestNext   /\ UNCHANGED <<vars, replayVars, quoteVars>>
       \/ part = "quotes"   /\ QuotesNext /\ UNCHANGED <<vars, replayVars, restVars>>
    /\ UNCHANGED part

VenueSpec == VenueInit /\ [][VenueNext]_venueVars

-----------------------------------------------------------------------------
(* "BUY opens order_quantity when flat, SELL closes the position (long     *)
(* only)" (replay_session): whatever the latency, partial fills and        *)
(* cancels, what is held and what is on order never exceed one lot, and no *)
(* passive order outlives its CancelAfter events.                          *)
ReplayHoldsOneLot ==
    part = "replay" =>
        /\ x.position + SumOver(Working(x, "BUY"), LAMBDA n : Remaining(x, n))
              <= Max({InitialPosition, OrderQuantity})
        /\ \A p \in passive : x.orders[p[1]].status \in WORKING => events - p[2] <= CancelAfter

(* What the paper broker pays and charges: an order fills only by the      *)
(* rules of its type, at the price it was promised, and the price those    *)
(* rules are given is a recent trade, fetched once for all who ask.        *)
PricesAreHonest == FillsByTheRules /\ QuotesAreFresh
=============================================================================
