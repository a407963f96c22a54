----------------------------- MODULE StablePools -----------------------------
(***************************************************************************)
(* Pools of several tokens: Curve (curve.rs), Balancer V2 (balancer_v2.rs) *)
(* and Wombat (wombat.rs).                                                 *)
(*                                                                         *)
(* Where the code iterates over floats the model takes the root that the   *)
(* iteration converges to, found among the values its result can have.     *)
(***************************************************************************)
EXTENDS PoolReads, SequencesExt, Listing

CONSTANTS
    Wei,            \* 10^18: PRECISION
    MaxRounds       \* MAX_STABLE_ITERATIONS (256)

ASSUME StableAssumption == Wei \in Nat \ {0} /\ MaxRounds \in Nat

Product(s) == FoldLeft(LAMBDA a, b : a * b, 1, s)
Others(s, j) == RemoveAt(s, j)

IndexOf(p, token) == IF token \in ToSet(p.tokens) THEN SelectInSeq(p.tokens, LAMBDA t : t = token) ELSE 0

-----------------------------------------------------------------------------
(* Curve.                                                                  *)

\* A token's decimals are those of a table; the rate lifts a raw amount to
\* 18 decimals, and dividing by PRECISION makes it whole tokens.
Whole(amount, rate) == (amount * rate) \div Wei

\* compute_d: the largest D with
\* D^(n+1) / (n^n * prod) + (Ann - 1) * D <= Ann * sum.
InvariantD(amp, xs) ==
    LET n == Len(xs)
        ann == amp * n ^ n
        scale == n ^ n * Product(xs)
    IN  IF Total(xs) = 0 THEN 0
        ELSE IF 0 \in ToSet(xs) THEN None
        ELSE Largest(0, Total(xs), LAMBDA d : d ^ (n + 1) + scale * (ann - 1) * d <= scale * ann * Total(xs))

\* get_y_f64 for two tokens, over Wei: the least y with
\* y * y + (x + D / Ann - D) * y >= D^3 / (4 * x * Ann).
BalanceY(amp, x, d) ==
    LET ann == amp * 4
        Short(y) == 4 * x * (ann * y * y + (ann * x + d - ann * d) * y * Wei) < d * d * d * Wei * Wei
    IN  IF x = 0 THEN None
        ELSE LET below == Largest(0, 2 * d * Wei, Short) IN IF below = None THEN 0 ELSE below + 1

\* Mutant: nothing is taken off the result.
CurveOutGenerous(p, i, j, dx) ==
    LET xs == [k \in DOMAIN p.tokens |-> Whole(p.balances[k], p.rates[k])]
        d == InvariantD(p.amp, xs)
        y == BalanceY(p.amp, Whole(p.balances[i] + dx, p.rates[i]), d)
        left == p.balances[j] * p.rates[j] - y
    IN  IF i = j \/ 0 \in {i, j, dx} THEN None
        ELSE IF d = None THEN None
        ELSE IF y = None \/ left <= 0 THEN None ELSE (left * (Bps - p.fee)) \div (p.rates[j] * Bps)

\* get_dy: the balances are whole tokens, and so is the 1 taken off the
\* result: an output of a token or less is no quote.
CurveOut(p, i, j, dx) ==
    LET xs == [k \in DOMAIN p.tokens |-> Whole(p.balances[k], p.rates[k])]
        d == InvariantD(p.amp, xs)
        sold == Whole(p.balances[i] + dx, p.rates[i])
        y == BalanceY(p.amp, sold, d)
        left == p.balances[j] * p.rates[j] - y - Wei
    IN  IF i = j \/ 0 \in {i, j, dx} THEN None
        ELSE IF d = None THEN None
        ELSE IF y = None \/ left <= 0 THEN None ELSE (left * (Bps - p.fee)) \div (p.rates[j] * Bps)

QuoteCurve(p, from, to, amount) == CurveOut(p, IndexOf(p, from), IndexOf(p, to), amount)

\* A pool of the configuration starts with zero balances.
CurveFromConfig(c) ==
    [kind |-> "curve", address |-> c.address, tokens |-> c.tokens, amp |-> c.amp, fee |-> c.fee,
     rates |-> c.rates, balances |-> [k \in DOMAIN c.tokens |-> 0]]

\* Token by token: a failed call leaves the balances already written, and one
\* that does not decode is zero.
SyncCurve(p, r) ==
    LET failed == {k \in DOMAIN p.tokens : r.balances[k] = Err}
        read == IF failed = {} THEN Len(p.tokens) ELSE Min(failed) - 1
        q == [p EXCEPT !.balances = [k \in DOMAIN @ |-> IF k <= read THEN DecodedOr(r.balances[k], 0)
                                                        ELSE @[k]]]
    IN  IF failed = {} THEN Synced(q) ELSE Stuck(q)

-----------------------------------------------------------------------------
(* Balancer V2.                                                            *)

\* weighted_swap_out: out <= B_out * (1 - (B_in / new)^(w_in / w_out)), with
\* whole weights and the fee over Bps.
WeightedOut(p, from, to, amount) ==
    LET i == IndexOf(p, from)
        j == IndexOf(p, to)
        new == p.balances[i] * Bps + amount * (Bps - p.fee)
        Pays(out) ==
            (p.balances[j] - out) ^ p.weights[j] * new ^ p.weights[i]
                >= p.balances[j] ^ p.weights[j] * (p.balances[i] * Bps) ^ p.weights[i]
    IN  IF 0 \in {i, j, amount} \/ i = j THEN None
        ELSE IF 0 \in {p.balances[i], p.balances[j], p.weights[i], p.weights[j]} THEN None
        ELSE IF p.fee >= Bps THEN None
        ELSE Largest(0, p.balances[j], Pays)

\* The power of D over the balances, divided at every step.
PowerOver(d, xs, n) ==
    FoldLeft(LAMBDA power, x : IF power = None \/ ~Fits(power * d) \/ ~Fits(x * n) THEN None
                               ELSE (power * d) \div (x * n), d, xs)

\* checked_div of two checked terms.
Quotient(a, b) == IF b <= 0 \/ ~Fits(a) \/ ~Fits(b) THEN None ELSE a \div b

\* Newton's method over integers, until two values are at most one apart; None
\* when a step overflows or the rounds run out.
Closer(r, next) ==
    IF r.ended THEN r ELSE [value |-> next, ended |-> next = None \/ next - r.value \in -1..1]

Result(r) == IF r.ended THEN r.value ELSE None

Newton(start, Next(_)) ==
    Result(FoldLeft(LAMBDA r, k : Closer(r, Next(r.value)), [value |-> start, ended |-> FALSE],
                    [k \in 1..MaxRounds |-> k]))

\* compute_stable_d, with ann = amp * n^n.
NextD(ann, n, sum, power, d) ==
    IF power = None THEN None ELSE Quotient((ann * sum + n * power) * d, (ann - 1) * d + (n + 1) * power)

StableD(amp, xs) ==
    LET n == Len(xs)
    IN  CASE ~Fits(Total(xs)) \/ ~Fits(amp * n ^ n) -> None
          [] Total(xs) = 0 -> 0
          [] 0 \in ToSet(xs) -> None
          [] OTHER -> Newton(Total(xs), LAMBDA d : NextD(amp * n ^ n, n, Total(xs), PowerOver(d, xs, n), d))

\* stable_get_y, with c = power * D / (ann * n) and b = sum + D / ann - D.
NextY(b, c, y) == Quotient(y * y + c, 2 * y + b)

StableY(ann, n, sum, power, d) ==
    IF power = None \/ Quotient(power * d, ann * n) = None THEN None
    ELSE Newton(d, LAMBDA y : NextY(sum + d \div ann - d, (power * d) \div (ann * n), y))

\* The balance of the other token among the rest, for the invariant d.
Balanced(amp, rest, d) ==
    LET n == Len(rest) + 1
    IN  IF d = None \/ 0 \in ToSet(rest) THEN None
        ELSE StableY(amp * n ^ n, n, Total(rest), PowerOver(d, rest, n), d)

Left(balance, kept) == IF kept = None \/ kept >= balance THEN None ELSE balance - kept

StableSwapOut(p, from, to, amount) ==
    LET i == IndexOf(p, from)
        j == IndexOf(p, to)
        fed == (amount * (Bps - p.fee)) \div Bps
        rest == Others([p.balances EXCEPT ![i] = @ + fed], j)
    IN  IF 0 \in {i, j, amount} \/ i = j \/ p.fee > Bps \/ ~Fits(amount * (Bps - p.fee)) THEN None
        ELSE Left(p.balances[j], Balanced(p.amp, rest, StableD(p.amp, p.balances)))

\* Zero balances, and no later refresh.
BalancerFromConfig(c) ==
    [kind |-> IF c.type = "stable" THEN "balancerStable" ELSE "balancerWeighted",
     address |-> c.address, tokens |-> c.tokens, fee |-> c.fee, amp |-> c.amp,
     weights |-> IF c.weights = <<>> THEN [k \in DOMAIN c.tokens |-> 1] ELSE c.weights,
     balances |-> [k \in DOMAIN c.tokens |-> 0]]

-----------------------------------------------------------------------------
(* Wombat: the value of a change of cash c of liability l by a is          *)
(* A * a + l * l / c - l * l / (c + a), A and the haircut being over Wei.  *)

\* What a sale is worth, as a fraction.
ValueIn(amp, cash, liability, a) ==
    <<amp * a * cash * (cash + a) + Wei * liability * liability * a, cash * (cash + a)>>

\* Paying o after the haircut, n / d before it, costs no more than the value.
Affords(p, j, o, value) ==
    LET n == o * Wei
        d == Wei - p.haircut
        left == p.cash[j] * d - n
    IN  /\ left > 0
        /\ (p.amp * n * p.cash[j] * left + Wei * p.liability[j] * p.liability[j] * n * d) * value[2]
               <= value[1] * d * p.cash[j] * left

WombatOut(p, i, j, amount) ==
    LET out == Largest(0, p.cash[j],
                       LAMBDA o : Affords(p, j, o, ValueIn(p.amp, p.cash[i], p.liability[i], amount)))
    IN  IF i = j \/ 0 \in {i, j, amount} THEN None
        ELSE IF 0 \in {p.liability[i], p.liability[j], p.cash[i], p.cash[j]} THEN None
        ELSE IF out < 1 THEN None ELSE out

WombatOutByTokens(p, from, to, amount) == WombatOut(p, IndexOf(p, from), IndexOf(p, to), amount)

\* A token without an asset is left out; parameters that do not decode are 0.
FetchWombat(address, tokens, r) ==
    LET with == Places({k \in DOMAIN tokens : r.assets[k] \notin {Bad, Zero}})
    IN  IF \/ AnyFailed(<<r.amp, r.haircut>> \o r.assets)
           \/ \E k \in ToSet(with) : AnyFailed(<<r.cash[k], r.liability[k], r.decimals[k]>>) THEN Failed
        ELSE IF with = <<>> THEN NotFound
        ELSE Found([kind |-> "wombat", address |-> address,
                    tokens |-> [k \in DOMAIN with |-> tokens[with[k]]],
                    cash |-> [k \in DOMAIN with |-> DecodedOr(r.cash[with[k]], 0)],
                    liability |-> [k \in DOMAIN with |-> DecodedOr(r.liability[with[k]], 0)],
                    amp |-> DecodedOr(r.amp, 0), haircut |-> DecodedOr(r.haircut, 0)])

\* Asset by asset: a failed call leaves the assets already written.
SyncWombat(p, r) ==
    LET failed == {k \in DOMAIN p.tokens : AnyFailed(<<r.assets[k], r.cash[k], r.liability[k]>>)}
        read == IF failed = {} THEN Len(p.tokens) ELSE Min(failed) - 1
        at(k) == k <= read /\ IsAddress(r.assets[k])
        q == [p EXCEPT !.cash = [k \in DOMAIN @ |-> IF at(k) THEN DecodedOr(r.cash[k], @[k]) ELSE @[k]],
                       !.liability = [k \in DOMAIN @ |-> IF at(k) THEN DecodedOr(r.liability[k], @[k])
                                                         ELSE @[k]]]
    IN  IF failed = {} THEN Synced(q) ELSE Stuck(q)
==============================================================================
