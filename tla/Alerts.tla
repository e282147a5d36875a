------------------------------- MODULE Alerts -------------------------------
(***************************************************************************)
(* Alerts: the job check_alerts compares the latest observations of one    *)
(* card, the collection and the refresh runs with the active rules, sends  *)
(* a message for what is new and commits the alert_events, all at the end. *)
(* Celery runs it after every refresh and people run it as a command; no   *)
(* lock keeps two checks apart.  The order of the messages of one rule     *)
(* type is free.                                                           *)
(***************************************************************************)
EXTENDS Integers, FiniteSets, Sequences

CONSTANTS Rules,    \* alert_rules
          RuleSets, \* bound: the sets of rules that are active together
          Markets,  \* what the database may say (fields: see Fires)
          Checks,   \* processes that run the job
          Window,   \* DEDUPE_WINDOW
          MaxTime,  \* bound
          MaxCalls, \* bound: checks, and changes of rules and of the market
          Unset     \* NULL

AlertsAssumption == RuleSets \subseteq SUBSET Rules /\ Window \in Nat /\ MaxTime \in Nat

VARIABLES
  active,  \* the active rules
  market,  \* observations, stock, refresh runs, collection items, snapshots
  now, calls,
  events,  \* the committed alert_events
  check,   \* checks under way
  told,    \* history: the times for which a message of each key was delivered
  lost     \* history: keys of messages that went out without a lasting record,
           \* or from two checks at once

vars == <<active, market, now, calls, events, check, told, lost>>

Floor == <<"snkrdunk", "floor">>
Sell == <<"yuyutei", "sell">>
Buy == <<"yuyutei", "buy">>

Last(s) == s[Len(s)]
Previous(s) == s[Len(s) - 1]

\* Is the change from the second last to the last at least pct per cent?  It
\* is 0 where the previous value is.
Rise(s, pct) == IF Previous(s) = 0 THEN 0 >= pct ELSE (Last(s) - Previous(s)) * 100 >= pct * Previous(s)
Drop(s, pct) == IF Previous(s) = 0 THEN 0 <= pct ELSE (Last(s) - Previous(s)) * 100 <= pct * Previous(s)

Pairs == {s \in DOMAIN market.prices : Len(market.prices[s]) >= 2}

PriceChange(r) ==
  {s \in Pairs :
     /\ r.source \in {Unset, s[1]} /\ r.price_type \in {Unset, s[2]}
     /\ IF r.threshold >= 0 THEN Rise(market.prices[s], r.threshold) ELSE Drop(market.prices[s], r.threshold)}

BuyChange(r) == {s \in Pairs \intersect {Buy} : Rise(market.prices[s], r.threshold)}

StockOut(r) ==
  {source \in DOMAIN market.stock :
     LET seen == market.stock[source] IN
     /\ r.source \in {Unset, source}
     /\ Len(seen) >= 2 /\ Previous(seen) = "in_stock" /\ Last(seen) = "out_of_stock"}

\* _resolve_current_value: the floor, else the retail price.
Values ==
  IF market.prices[Floor] # <<>> THEN {Last(market.prices[Floor])}
  ELSE IF market.prices[Sell] # <<>> THEN {Last(market.prices[Sell])} ELSE {}

AtTarget == {i \in DOMAIN market.items : market.items[i].target # Unset
                                         /\ \E v \in Values : v >= market.items[i].target}

BelowCost(r) ==
  {i \in DOMAIN market.items :
     LET cost == market.items[i].cost IN
     cost \notin {Unset, 0} /\ \E v \in Values : (cost - v) * 100 >= r.threshold * cost}

Moved(r) ==
  LET s == market.snapshots IN
  IF /\ Len(s) >= 2 /\ Last(s) # Unset /\ Previous(s) # Unset
     /\ Rise(s, r.threshold) \/ Drop(s, -r.threshold)
  THEN {Len(s)} ELSE {}

\* The rule types in the order in which they are checked, and what a rule
\* fires for.
Stages ==
  <<"price_change_pct", "yuyutei_buy_change_pct", "stock_status_change", "refresh_failed",
    "owned_card_above_target_sell", "owned_card_below_cost_basis", "portfolio_value_change_pct">>

\* Failed refresh runs that no event is about yet, of whichever rule.
Unalerted(rows) ==
  {run \in market.failed : ~\E e \in rows : e.key[1].type = "refresh_failed" /\ e.key[2] = run}

Fires(r, rows) ==
  CASE r.type = "refresh_failed" -> Unalerted(rows)
    [] r.type = "stock_status_change" -> StockOut(r)
    [] r.type = "owned_card_above_target_sell" -> AtTarget
    [] r.threshold = Unset -> {}
    [] r.type = "price_change_pct" -> PriceChange(r)
    [] r.type = "yuyutei_buy_change_pct" -> BuyChange(r)
    [] r.type = "owned_card_below_cost_basis" -> BelowCost(r)
    [] r.type = "portfolio_value_change_pct" -> Moved(r)

Statuses == {"pending", "sent", "failed", "skipped_duplicate"}
Idle == [open |-> FALSE, dry |-> FALSE, at |-> 0, rules |-> {}, stage |-> 0, todo |-> {}, rows |-> {}, alone |-> TRUE]

TypeOK ==
  /\ active \subseteq Rules /\ market \in Markets /\ now \in 0..MaxTime
  /\ \A e \in events : e.key[1] \in Rules /\ e.at \in 0..MaxTime /\ e.status \in Statuses \ {"pending"}
  /\ \A c \in Checks : check[c].stage \in 0..Len(Stages) /\ check[c].rules \subseteq Rules

Init ==
  /\ active \in RuleSets /\ market \in Markets
  /\ now = 0 /\ calls = 0 /\ events = {} /\ check = [c \in Checks |-> Idle]
  /\ told = {} /\ lost = {}

-----------------------------------------------------------------------------
Open == {c \in Checks : check[c].open}

Begin(c, dry) ==
  /\ ~check[c].open
  /\ calls < MaxCalls /\ calls' = calls + 1
  /\ check' = [d \in Checks |->
       IF d = c THEN [Idle EXCEPT !.open = TRUE, !.dry = dry, !.at = now, !.rules = active,
                                  !.alone = Open = {}]
       ELSE [check[d] EXCEPT !.alone = @ /\ ~check[d].open]]
  /\ UNCHANGED <<active, market, now, events, told, lost>>

\* The rule types still to come that have active rules.
Ahead(c) == {n \in DOMAIN Stages : n > check[c].stage /\ \E r \in check[c].rules : r.type = Stages[n]}

\* The next rule type: what is there to tell?
Examine(c) ==
  \E stage \in Ahead(c) :
    /\ check[c].open /\ check[c].todo = {} /\ \A n \in Ahead(c) : stage <= n
    /\ check' = [check EXCEPT ![c].stage = stage,
         ![c].todo = UNION {{<<r, about>> : about \in Fires(r, events \union check[c].rows)}
                            : r \in {q \in check[c].rules : q.type = Stages[stage]}}]
    /\ UNCHANGED <<active, market, now, calls, events, told, lost>>

\* Mutant: the window is open at its early end.
Recent_Open(c, key) ==
  \E e \in events \union check[c].rows : e.key = key /\ e.at > check[c].at - Window

\* _is_recent_duplicate: an event of any status counts.
Recent(c, key) ==
  \E e \in events \union check[c].rows : e.key = key /\ e.at >= check[c].at - Window

\* _record_event.  A message may get through although sending it raised.
Record(c, key, raised, delivered) ==
  LET sends == ~Recent(c, key) /\ ~check[c].dry
      status == IF Recent(c, key) THEN "skipped_duplicate"
                ELSE IF check[c].dry THEN "pending" ELSE IF raised THEN "failed" ELSE "sent" IN
  /\ check[c].open /\ key \in check[c].todo
  /\ sends /\ ~raised => delivered
  /\ ~sends => ~raised /\ ~delivered
  /\ check' = [check EXCEPT ![c].todo = @ \ {key},
                            ![c].rows = @ \union {[key |-> key, at |-> check[c].at, status |-> status]}]
  /\ told' = IF delivered THEN told \union {[key |-> key, at |-> check[c].at, nth |-> Cardinality(told)]} ELSE told
  /\ lost' = IF delivered /\ ~check[c].alone THEN lost \union {key} ELSE lost
  /\ UNCHANGED <<active, market, now, calls, events>>

Finish(c) ==
  /\ check[c].open /\ Ahead(c) = {} /\ check[c].todo = {}
  /\ events' = IF check[c].dry THEN events ELSE events \union check[c].rows
  /\ check' = [check EXCEPT ![c] = Idle]
  /\ UNCHANGED <<active, market, now, calls, told, lost>>

\* An exception, or the process dies, after messages have gone out.
Crash(c) ==
  /\ check[c].open
  /\ check' = [check EXCEPT ![c] = Idle]
  /\ lost' = lost \union {e.key : e \in check[c].rows}
  /\ UNCHANGED <<active, market, now, calls, events, told>>

\* The rest of the system: time, prices, PATCH /admin/alert-rules.
Tick ==
  /\ now < MaxTime
  /\ now' = now + 1
  /\ UNCHANGED <<active, market, calls, events, check, told, lost>>

Change ==
  /\ calls < MaxCalls /\ calls' = calls + 1
  /\ \/ market' \in Markets \ {market} /\ UNCHANGED active
     \/ active' \in RuleSets \ {active} /\ UNCHANGED market
  /\ UNCHANGED <<now, events, check, told, lost>>

Next ==
  \/ \E c \in Checks :
       \/ \E dry \in BOOLEAN : Begin(c, dry)
       \/ Examine(c) \/ Finish(c) \/ Crash(c)
       \/ \E key \in check[c].todo, raised, delivered \in BOOLEAN : Record(c, key, raised, delivered)
  \/ Tick \/ Change

Spec == Init /\ [][Next]_vars

-----------------------------------------------------------------------------
(***************************************************************************)
(* Properties                                                              *)
(***************************************************************************)

\* Nobody is told the same twice: of one rule and subject there is no second
\* message within 24 hours, and of a failed refresh run none ever ("one alert
\* per failed price_refresh_runs row, ever"), even if the first was delivered
\* though it failed, and however prices and rules change; unless a check died
\* after it had sent, or two checks ran at once.
NoRepeat ==
  \A s, t \in told :
    /\ s # t /\ s.key = t.key /\ s.key \notin lost
    => /\ s.at - t.at \notin -Window..Window
       /\ s.key[1].type # "refresh_failed"
=============================================================================
