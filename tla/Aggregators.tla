----------------------------- MODULE Aggregators -----------------------------
(***************************************************************************)
(* Phase 5 of a solve: the aggregator solver (solver/agg_solver.rs) asks   *)
(* every provider (liquidity/aggregator/) for a quote of each of the most  *)
(* valuable orders, one provider after another, and builds one solution.   *)
(*                                                                         *)
(* The phase is a future that the solver drops at its deadline, with all   *)
(* that it has found.  Within it a provider has Timeout for the wait at    *)
(* its limiter and for both of its requests.  Time is that since the phase *)
(* began, and moves from one event to the next.                            *)
(***************************************************************************)
EXTENDS Integers, Sequences, FiniteSetsExt, SequencesExt

CONSTANTS
    Orders,         \* the orders that an auction may hold
    Setups,         \* the environments: keys, chain and auctions to come
    Ref,            \* reference price of a token, over RefOne
    RefOne,         \* 10^18
    MinValue,       \* MIN_SELL_VALUE_WEI
    MaxOrders,      \* AGG_MAX_ORDERS
    Timeout,        \* best_quote's limit for a provider: the ticks of a second
    Remaining,      \* what the solve may have left for phase 5
    HourlyLimit,    \* ODOS_HOURLY_LIMIT
    Delays,         \* how long an answer takes
    Amounts,        \* what a provider may quote
    MaxAmount       \* 2^128 - 1

ASSUME AggregatorsAssumption ==
    /\ RefOne \in Nat \ {0} /\ Timeout \in Nat \ {0} /\ Remaining \subseteq Nat
    /\ Delays \subseteq Nat /\ Amounts \subseteq Nat /\ {HourlyLimit, MaxOrders, MaxAmount} \subseteq Nat

\* Amounts of an order are u128.
ASSUME OrdersAssumption ==
    /\ \A o \in Orders : o.sell \in Nat /\ o.limit \in Nat
    /\ \A env \in Setups : env.auctions \in Seq(Seq(Orders))

VARIABLES
    auctions,       \* auctions still to come
    providers,      \* the clients that build_from_env makes
    deadline,       \* when the phase is dropped
    picked,         \* valued_orders
    at,             \* the order that is quoted
    asking,         \* the provider that is asked
    stage,          \* where the future waits
    now,            \* time since the phase began
    began,          \* history: when the order was taken
    asked,          \* when the provider's turn began
    last,           \* RateLimiter.last_request by provider
    hits,           \* requests that Odos's BudgetLimiter has counted
    draft,          \* the quote whose calldata is being built
    best,           \* the best quote of the order
    solution,       \* trades, interactions and prices so far
    outcome         \* how the last phase ended

vars == <<auctions, providers, deadline, picked, at, asking, stage, now, began, asked, last, hits,
          draft, best, solution, outcome>>

turn == <<auctions, providers, deadline, picked, at, began>>

Empty == [trades |-> <<>>, calls |-> 0, prices |-> << >>]

NoDraft == 0

NoQuote == [buy |-> -1, calls |-> FALSE]

-----------------------------------------------------------------------------
(* The clients: how far apart their requests are, whether a second request *)
(* builds the calldata or asks another endpoint, whether a build may fail  *)
(* the quote, and whether requests are counted.                            *)

Ticks(ms) == (ms * Timeout + 999) \div 1000

Plain(ms) == [interval |-> Ticks(ms), second |-> "none", strictBuild |-> FALSE, counted |-> FALSE]

\* Mutant: a plan with one request in two seconds.
OneInchSlow == Plain(2000)

OneInch   == Plain(1000)

Okx       == Plain(500)

ZeroX     == Plain(250)

Odos      == [Plain(1000) EXCEPT !.second = "build", !.counted = TRUE]

Bebop     == [Plain(100) EXCEPT !.second = "fallback"]

Paraswap  == [Plain(500) EXCEPT !.second = "build", !.strictBuild = TRUE]

KyberSwap == [Plain(250) EXCEPT !.second = "build", !.strictBuild = TRUE]

OpenOcean == Plain(500)

Profile == [oneinch |-> OneInch, okx |-> Okx, zerox |-> ZeroX, odos |-> Odos, bebop |-> Bebop,
            paraswap |-> Paraswap, kyberswap |-> KyberSwap, openocean |-> OpenOcean]

When(wanted, p) == IF wanted THEN <<p>> ELSE <<>>

\* Two need their key; the others need Arbitrum, and one can be switched off.
BuildFromEnv(env) ==
    When("oneinch" \in env.keys, "oneinch") \o When("okx" \in env.keys, "okx")
        \o IF ~env.arbitrum THEN <<>>
           ELSE When(env.zerox, "zerox") \o <<"odos", "bebop", "paraswap", "kyberswap", "openocean">>

\* AGG_ENABLED switches all of them off.
Clients(env) == IF env.enabled THEN BuildFromEnv(env) ELSE <<>>

-----------------------------------------------------------------------------
(* The orders.                                                             *)

\* mul_div: what does not fit is replaced.
MulDiv(a, b, c, otherwise) ==
    LET parts == {(a \div c) * b, (a % c) * b, (a * b) \div c}
    IN  IF a * b <= MaxAmount \/ \A x \in parts : x <= MaxAmount THEN (a * b) \div c ELSE otherwise

Value(o) == MulDiv(o.sell, IF o.from \in DOMAIN Ref THEN Ref[o.from] ELSE 0, RefOne, 0)

\* Worth quoting, by value, the order of the auction among equals.
Picks(orders) ==
    LET worth == {i \in DOMAIN orders : orders[i].sell > 0 /\ Value(orders[i]) >= MinValue}
        Before(i, j) == \/ Value(orders[i]) > Value(orders[j])
                        \/ Value(orders[i]) = Value(orders[j]) /\ i < j
        n == Cardinality(worth)
        ranked == {p \in [1..n -> worth] : \A j, k \in 1..n : j < k => Before(p[j], p[k])}
    IN  {[k \in 1..Min({MaxOrders, n}) |-> orders[p[k]]] : p \in ranked}

\* One second is kept back, and the phase has ten at most.
SubTimeout(left) == Min({left - Timeout, 10 * Timeout})

\* Three seconds or less: the phase is left out.
SkipPhase ==
    /\ stage = "idle" /\ auctions # <<>>
    /\ \E t \in Remaining : t <= 3 * Timeout
    /\ auctions' = Tail(auctions) /\ outcome' = "skipped" /\ solution' = Empty
    /\ UNCHANGED <<providers, deadline, picked, at, asking, stage, now, began, asked, last, hits, draft,
                   best>>

\* build_from_env makes new clients: no limiter remembers an earlier auction.
Begin ==
    /\ stage = "idle" /\ auctions # <<>>
    /\ picked' \in Picks(Head(auctions))
    /\ auctions' = Tail(auctions)
    /\ \E t \in Remaining : t > 3 * Timeout /\ deadline' = SubTimeout(t)
    /\ last' = [p \in DOMAIN Profile |-> 0 - Profile[p].interval]
    /\ hits' = 0 /\ now' = 0 /\ at' = 1
    /\ solution' = Empty /\ outcome' = "running"
    /\ stage' = "order"
    /\ UNCHANGED <<providers, asking, began, asked, draft, best>>

TakeOrder ==
    /\ stage = "order" /\ at <= Len(picked) /\ providers # <<>> /\ now \div Timeout <= 20
    /\ picked[at].limit > 0
    /\ stage' = "turn" /\ asking' = 1 /\ began' = now /\ asked' = now /\ best' = NoQuote
    /\ UNCHANGED <<auctions, providers, deadline, picked, at, now, last, hits, draft, solution, outcome>>

SkipOrder ==
    /\ stage = "order" /\ at <= Len(picked) /\ providers # <<>> /\ now \div Timeout <= 20
    /\ picked[at].limit = 0
    /\ at' = at + 1
    /\ UNCHANGED <<auctions, providers, deadline, picked, asking, stage, now, began, asked, last, hits, draft,
                   best, solution, outcome>>

-----------------------------------------------------------------------------
(* One provider.                                                           *)

Provider == providers[asking]

Client == Profile[Provider]

\* Mutant: every wait has a second of its own.
EndsFromSlot == now + Timeout

Ends == asked + Timeout

\* best_quote: the first of the highest.
Better(quote) == IF quote.buy > best.buy THEN quote ELSE best

\* The turn passes to the next provider, or to the comparison of the quotes.
Pass(time, quote) ==
    /\ time <= deadline
    /\ now' = time /\ asked' = time /\ best' = Better(quote)
    /\ asking' = asking + 1 /\ draft' = NoDraft
    /\ stage' = IF asking = Len(providers) THEN "weigh" ELSE "turn"
    /\ UNCHANGED <<turn, solution, outcome>>

\* RateLimiter::wait: when the interval since the last request has passed.
Slot == Max({now, last[Provider] + Client.interval})

\* Odos counts the request before it waits, by the hour and by the day.
Exhausted ==
    /\ stage = "turn" /\ Client.counted /\ hits >= HourlyLimit
    /\ Pass(now, NoQuote)
    /\ UNCHANGED <<last, hits>>

\* A mark is set only after the wait: one cut short leaves none.
Request ==
    /\ \/ stage = "turn" /\ (Client.counted => hits < HourlyLimit)
       \/ stage = "fallback"
    /\ hits' = IF Client.counted THEN hits + 1 ELSE hits
    /\ IF Slot > Ends THEN Pass(Ends, NoQuote) /\ UNCHANGED last
       ELSE /\ Slot <= deadline
            /\ now' = Slot /\ last' = [last EXCEPT ![Provider] = Slot]
            /\ stage' = IF stage = "turn" THEN "quote" ELSE "fallback quote"
            /\ UNCHANGED <<turn, asking, asked, draft, best, solution, outcome>>

Quote(amount, calls) == [buy |-> amount, calls |-> calls]

\* No answer within the turn.
Silent ==
    /\ stage \in {"quote", "fallback quote", "build"}
    /\ Pass(Ends, NoQuote)
    /\ UNCHANGED <<last, hits>>

\* An error, or an amount of 0.  Bebop then asks its other endpoint.
Refusal ==
    /\ stage \in {"quote", "fallback quote"}
    /\ \E d \in Delays :
         /\ now + d <= Ends
         /\ IF Client.second = "fallback" /\ stage = "quote"
            THEN /\ now + d <= deadline
                 /\ now' = now + d /\ stage' = "fallback"
                 /\ UNCHANGED <<turn, asking, asked, draft, best, solution, outcome>>
            ELSE Pass(now + d, NoQuote)
    /\ UNCHANGED <<last, hits>>

\* An amount, 0 for one that does not parse, with calldata or without.  Some
\* clients build the calldata with a second request, held back by no limiter;
\* Odos only for an answer that names a path.
Answer ==
    /\ stage \in {"quote", "fallback quote"}
    /\ \E d \in Delays, amount \in Amounts \union {0}, calls \in BOOLEAN :
         /\ now + d <= Ends
         /\ stage = "quote" /\ Client.second = "fallback" => amount > 0
         /\ Client.strictBuild => calls
         /\ IF Client.second = "build" /\ calls
            THEN /\ now + d <= deadline
                 /\ now' = now + d /\ stage' = "build" /\ draft' = amount
                 /\ UNCHANGED <<turn, asking, asked, best, solution, outcome>>
            ELSE Pass(now + d, Quote(amount, calls))
    /\ UNCHANGED <<last, hits>>

\* A build that fails leaves a quote without calldata; one whose body does
\* not parse leaves none, but with Odos.
Build ==
    /\ stage = "build"
    /\ \E d \in Delays :
         /\ now + d <= Ends
         /\ \/ \E calls \in BOOLEAN : Pass(now + d, Quote(draft, calls))
            \/ Client.strictBuild /\ Pass(now + d, NoQuote)
    /\ UNCHANGED <<last, hits>>

-----------------------------------------------------------------------------
(* The solution.                                                           *)

With(prices, token, price) ==
    [t \in DOMAIN prices \union {token} |-> IF t = token THEN price ELSE prices[t]]

\* Mutant: each token gets the amount of its own side.
PricedSwapped(prices, o, buy) == With(With(prices, o.from, o.sell), o.to, buy)

\* Two new tokens get the amounts of each other; otherwise the other token
\* is scaled to the one that has a price, whatever price it may have had, and
\* not at all when the price is the amount itself.
Priced(prices, o, buy) ==
    IF o.from \in DOMAIN prices
    THEN IF prices[o.from] \in {0, buy} THEN prices
         ELSE With(prices, o.to, MulDiv(o.sell, prices[o.from], buy, o.sell))
    ELSE IF o.to \in DOMAIN prices
    THEN IF prices[o.to] \in {0, o.sell} THEN prices
         ELSE With(prices, o.from, MulDiv(buy, prices[o.to], o.sell, buy))
    ELSE With(With(prices, o.from, buy), o.to, o.sell)

Trade(o) == [order |-> o, executed |-> IF o.isSell THEN o.sell ELSE o.limit]

Weigh ==
    /\ stage = "weigh"
    /\ solution' =
         IF best.buy < picked[at].limit THEN solution
         ELSE [trades |-> Append(solution.trades, Trade(picked[at])),
               calls  |-> solution.calls + IF best.calls THEN 1 ELSE 0,
               prices |-> Priced(solution.prices, picked[at], best.buy)]
    /\ at' = at + 1 /\ stage' = "order"
    /\ UNCHANGED <<auctions, providers, deadline, picked, asking, now, began, asked, last, hits, draft, best, outcome>>

Finish ==
    /\ stage = "order"
    /\ at > Len(picked) \/ providers = <<>> \/ now \div Timeout > 20
    /\ outcome' = IF solution.trades = <<>> THEN "none" ELSE "solution"
    /\ stage' = "idle"
    /\ UNCHANGED <<turn, asking, now, asked, last, hits, draft, best, solution>>

\* The deadline comes while the future waits.
Expire ==
    /\ stage \in {"turn", "fallback", "quote", "fallback quote", "build"}
    /\ Ends >= deadline
    /\ now' = deadline /\ stage' = "idle" /\ outcome' = "dropped"
    /\ UNCHANGED <<turn, asking, asked, last, hits, draft, best, solution>>

Init ==
    /\ \E env \in Setups : auctions = env.auctions /\ providers = Clients(env)
    /\ deadline = 0 /\ picked = <<>> /\ at = 1 /\ asking = 1 /\ stage = "idle"
    /\ now = 0 /\ began = 0 /\ asked = 0 /\ last = [p \in DOMAIN Profile |-> 0 - Profile[p].interval] /\ hits = 0
    /\ draft = NoDraft /\ best = NoQuote /\ solution = Empty /\ outcome = "none"

Next ==
    \/ SkipPhase \/ Begin \/ TakeOrder \/ SkipOrder \/ Exhausted \/ Request \/ Silent \/ Refusal \/ Answer \/ Build
    \/ Weigh \/ Finish \/ Expire

Spec == Init /\ [][Next]_vars

-----------------------------------------------------------------------------
\* One order cannot eat the time of the others: waits at the limiter, refusals,
\* a second endpoint and a second request all fit in the second that each
\* provider has for it (best_quote), so an order is done with after a second
\* for each provider asked so far, and with it all the orders before it.
QuotingBounded ==
    stage # "idle" =>
        LET turns == IF stage = "order" THEN 0 ELSE IF stage = "weigh" THEN Len(providers) ELSE asking
        IN  /\ stage # "order" => now - began <= turns * Timeout
            /\ now <= ((at - 1) * Len(providers) + turns) * Timeout

\* No turn is lost to the limiter alone: whatever was asked for the orders
\* before, and however late, a provider whose budget lasts gets its first
\* request out before its second is over (RateLimiter::wait in best_quote).
TurnsReach ==
    stage = "turn" /\ (Client.counted => hits < HourlyLimit) => Slot <= Ends

\* mod.rs: "Query multiple aggregators in parallel", so that one that is silent
\* costs the others nothing of the order's second.
AskedAtOnce == stage = "turn" => asked = began

\* mod.rs: the "worst case is 10s -- within our budget": what is found is not
\* dropped for the time that later orders take.
WithinBudget == outcome = "dropped" => solution.trades = <<>>

\* mod.rs: "at most one request per `interval`": the second requests of a
\* client keep no distance from its first.
SecondsApart == stage = "build" => now >= last[Provider] + Client.interval

Tokens(t) == {t.order.from, t.order.to}

Received(t, prices) == (t.order.sell * prices[t.order.from]) \div prices[t.order.to]

\* A trade of two tokens that no other trade has receives at least its limit
\* at the prices of the solution.
RatesApart ==
    \A i \in DOMAIN solution.trades :
        LET t == solution.trades[i]
        IN  /\ t.order.from # t.order.to
            /\ \A j \in DOMAIN solution.trades : j # i => Tokens(t) \intersect Tokens(solution.trades[j]) = {}
            => Tokens(t) \subseteq DOMAIN solution.prices /\ Received(t, solution.prices) >= t.order.limit
==============================================================================
