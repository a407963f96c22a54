-------------------------- MODULE AggregatorsProofs --------------------------
(***************************************************************************)
(* Theorems about Aggregators, for any environments, orders and delays:    *)
(* QuotingBounded follows from the bound on the time at which every turn   *)
(* begins and ends, TurnsReach from the limiters' marks, which are never   *)
(* ahead of the clock, RatesApart from what the prices of a trade were     *)
(* when it was added.                                                      *)
(***************************************************************************)
EXTENDS Aggregators, FiniteSetTheorems, TLAPS

USE DEF turn, vars

Turns == {"turn", "fallback", "quote", "fallback quote", "build"}

TypeOK ==
    /\ stage \in Turns \union {"idle", "order", "weigh"}
    /\ providers \in Seq(DOMAIN Profile)
    /\ {at, asking} \subseteq Nat \ {0}
    /\ {now, began, asked, deadline} \subseteq Int
    /\ last \in [DOMAIN Profile -> Int]

\* The turns given to providers before the one under way.
Given == (at - 1) * Len(providers)

Punctual ==
    /\ stage = "order" => now <= Given * Timeout
    /\ stage = "weigh" => now <= (Given + Len(providers)) * Timeout
    /\ stage \in Turns => /\ asking <= Len(providers)
                          /\ asked <= (Given + asking - 1) * Timeout
                          /\ now <= asked + Timeout
    /\ stage = "weigh" => now <= began + Len(providers) * Timeout
    /\ stage \in Turns => asked <= began + (asking - 1) * Timeout

\* A limiter's mark is the time of a request that has left.
Marked ==
    /\ stage # "idle" => \A p \in DOMAIN Profile : last[p] <= now
    /\ stage = "turn" => asked = now

LEMMA Constants ==
    Timeout \in Nat /\ Timeout >= 1 /\ \A d \in Delays : d \in Nat
BY AggregatorsAssumption

LEMMA Smallest == ASSUME NEW a \in Int, NEW b \in Int PROVE Min({a, b}) \in Int
<1>1. \E x \in {a, b} : \A y \in {a, b} : y >= x
  OBVIOUS
<1> QED
  BY <1>1 DEF Min

LEMMA Largest ==
    ASSUME NEW a \in Int, NEW b \in Int
    PROVE  Max({a, b}) \in Int /\ Max({a, b}) >= a /\ Max({a, b}) >= b
<1>1. \E x \in {a, b} : \A y \in {a, b} : x >= y
  OBVIOUS
<1> QED
  BY <1>1 DEF Max

LEMMA Intervals == \A p \in DOMAIN Profile : Profile[p].interval \in Nat
<1>1. \A ms \in Nat : Ticks(ms) \in Nat
  BY Constants DEF Ticks
<1>2. /\ OneInch.interval \in Nat /\ Okx.interval \in Nat /\ ZeroX.interval \in Nat
      /\ OpenOcean.interval \in Nat
  BY <1>1 DEF OneInch, Okx, ZeroX, OpenOcean, Plain
<1>3. /\ Odos.interval \in Nat /\ Bebop.interval \in Nat /\ Paraswap.interval \in Nat
      /\ KyberSwap.interval \in Nat
  BY <1>1 DEF Odos, Bebop, Paraswap, KyberSwap, Plain
<1>4. DOMAIN Profile = {"oneinch", "okx", "zerox", "odos", "bebop", "paraswap", "kyberswap", "openocean"}
  BY DEF Profile
<1>5. /\ Profile["oneinch"] = OneInch /\ Profile["okx"] = Okx /\ Profile["zerox"] = ZeroX
      /\ Profile["odos"] = Odos /\ Profile["bebop"] = Bebop /\ Profile["paraswap"] = Paraswap
      /\ Profile["kyberswap"] = KyberSwap /\ Profile["openocean"] = OpenOcean
  BY DEF Profile
<1> QED
  BY <1>2, <1>3, <1>4, <1>5

LEMMA Providers == \A env : Clients(env) \in Seq(DOMAIN Profile)
<1> DEFINE S == DOMAIN Profile
<1>1. \A p \in S : <<p>> \in Seq(S)
  OBVIOUS
<1>2. <<>> \in Seq(S)
  OBVIOUS
<1>3. {"oneinch", "okx", "zerox", "odos", "bebop", "paraswap", "kyberswap", "openocean"} \subseteq S
  BY DEF Profile
<1> HIDE DEF S
<1>4. <<"odos", "bebop", "paraswap", "kyberswap", "openocean">> \in Seq(S)
  BY <1>3
<1>5. \A s \in Seq(S), t \in Seq(S) : s \o t \in Seq(S)
  OBVIOUS
<1> SUFFICES ASSUME NEW env PROVE Clients(env) \in Seq(S)
  BY DEF S
<1>6. /\ When("oneinch" \in env.keys, "oneinch") \in Seq(S) /\ When("okx" \in env.keys, "okx") \in Seq(S)
      /\ When(env.zerox, "zerox") \in Seq(S)
  BY <1>1, <1>2, <1>3, Zenon DEF When
<1> QED
  BY <1>2, <1>4, <1>5, <1>6 DEF BuildFromEnv, Clients

\* A product grows with its factor.
LEMMA Times == ASSUME NEW m \in Int, NEW n \in Int, NEW t \in Nat
               PROVE  /\ m * t \in Int /\ (m + 1) * t = m * t + t /\ (m - 1) * t = m * t - t
                      /\ (m + n) * t = m * t + n * t
                      /\ m <= n => m * t <= n * t
OBVIOUS

LEMMA InitInv == Init => TypeOK /\ Punctual
BY Providers, Intervals DEF Init, TypeOK, Punctual, Turns

-----------------------------------------------------------------------------
LEMMA SlotType ==
    ASSUME TypeOK, Punctual, stage \in Turns
    PROVE  /\ Provider \in DOMAIN Profile
           /\ Slot \in Int /\ Slot >= now /\ Slot >= last[Provider] + Client.interval
<1>1. Provider \in DOMAIN Profile
  BY DEF TypeOK, Punctual, Provider
<1>2. now \in Int /\ last[Provider] + Client.interval \in Int
  BY <1>1, Intervals DEF TypeOK, Client
<1> QED
  BY <1>1, <1>2, Largest DEF Slot

LEMMA GivenType ==
    ASSUME TypeOK
    PROVE  /\ Len(providers) \in Nat /\ Given \in Int /\ at \in Nat /\ at >= 1 /\ asking \in Nat /\ asking >= 1
           /\ now \in Int /\ asked \in Int /\ began \in Int
<1>1. Len(providers) \in Nat /\ at - 1 \in Nat
  BY DEF TypeOK
<1> QED
  BY <1>1, Times DEF TypeOK, Given

\* A turn that ends in time ends before the next turn of the plan begins.
LEMMA PassStep ==
    ASSUME TypeOK, Punctual, stage \in Turns, NEW time \in Int, NEW quote, time <= Ends, Pass(time, quote),
           last' \in [DOMAIN Profile -> Int]
    PROVE  TypeOK' /\ Punctual'
<1> USE Constants
<1>1. providers' = providers /\ at' = at /\ now' = time /\ asked' = time /\ asking' = asking + 1
      /\ began' = began
  BY DEF Pass
<1>2. stage' = IF asking = Len(providers) THEN "weigh" ELSE "turn"
  BY DEF Pass
<1>3. TypeOK'
  <2>1. stage' \in Turns \union {"idle", "order", "weigh"}
    BY <1>2 DEF Turns
  <2>2. {at', asking'} \subseteq Nat \ {0} /\ {now', began', asked', deadline'} \subseteq Int
    BY <1>1, GivenType DEF Pass, TypeOK
  <2>3. providers' \in Seq(DOMAIN Profile)
    BY <1>1 DEF TypeOK
  <2> QED
    BY <2>1, <2>2, <2>3 DEF TypeOK
<1>4. asking <= Len(providers) /\ asked <= (Given + asking - 1) * Timeout
  BY DEF Punctual
<1>5. (Given + asking - 1) * Timeout + Timeout = (Given + asking) * Timeout
  <2>1. Given + asking - 1 \in Int /\ (Given + asking - 1) + 1 = Given + asking
    BY GivenType
  <2> QED
    BY <2>1, Times
<1>6. time <= (Given + asking) * Timeout
  <2>1. (Given + asking - 1) * Timeout \in Int
    BY GivenType, Times
  <2> QED
    BY <1>4, <1>5, <2>1, GivenType DEF Ends
<1>7. Given' = Given
  BY <1>1 DEF Given
<1>10. time <= began + asking * Timeout
  <2>1. asked <= began + (asking - 1) * Timeout
    BY DEF Punctual
  <2>2. (asking - 1) * Timeout + Timeout = asking * Timeout /\ (asking - 1) * Timeout \in Int
    BY GivenType, Times
  <2> QED
    BY <2>1, <2>2, GivenType DEF Ends
<1>8. CASE asking = Len(providers)
  BY <1>1, <1>2, <1>3, <1>6, <1>7, <1>8, <1>10 DEF Punctual, Turns
<1>9. CASE asking # Len(providers)
  <2>1. Given + asking' - 1 = Given + asking /\ asking' <= Len(providers)
    BY <1>1, <1>4, <1>9, GivenType
  <2>2. stage' = "turn" /\ asking' <= Len(providers')
    BY <1>1, <1>2, <1>9, <2>1
  <2>3. asked' <= (Given' + asking' - 1) * Timeout
    BY <1>1, <1>6, <1>7, <2>1
  <2>4. now' <= asked' + Timeout
    BY <1>1
  <2>5. asked' <= began' + (asking' - 1) * Timeout
    <3>1. asking' - 1 = asking
      BY <1>1, GivenType
    <3> QED
      BY <1>1, <1>10, <3>1
  <2> QED
    BY <1>3, <2>2, <2>3, <2>4, <2>5 DEF Punctual
<1> QED
  BY <1>3, <1>8, <1>9

LEMMA RequestStep == ASSUME TypeOK, Punctual, Request PROVE TypeOK' /\ Punctual'
<1> USE Constants
<1>1. stage \in Turns
  BY DEF Request, Turns
<1>2. Ends \in Int
  BY GivenType DEF Ends
<1>3. CASE Slot > Ends
  BY <1>1, <1>2, <1>3, PassStep DEF Request, TypeOK
<1>4. CASE ~(Slot > Ends)
  <2>1. now' = Slot /\ last' = [last EXCEPT ![Provider] = Slot] /\ stage' \in {"quote", "fallback quote"}
    BY <1>4 DEF Request
  <2>2. UNCHANGED <<providers, at, asking, began, asked, deadline>>
    BY <1>4 DEF Request
  <2>3. TypeOK'
    BY <1>1, <2>1, <2>2, SlotType DEF TypeOK, Turns
  <2>4. Slot <= Ends
    BY <1>1, <1>2, <1>4, SlotType
  <2> QED
    BY <1>1, <2>1, <2>2, <2>3, <2>4 DEF Punctual, Turns, Ends, Given
<1> QED
  BY <1>3, <1>4

\* Waiting for an answer: the turn passes in time, or the future goes on to
\* its next wait in time.
LEMMA AnswerStep ==
    ASSUME TypeOK, Punctual, Silent \/ Refusal \/ Answer \/ Build
    PROVE  TypeOK' /\ Punctual'
<1> USE Constants
<1>0. Ends \in Int
  BY GivenType DEF Ends
<1>1. stage \in Turns /\ last' = last
  BY DEF Silent, Refusal, Answer, Build, Turns
<1>2. ASSUME NEW time \in Int, NEW quote, time <= Ends, Pass(time, quote) PROVE TypeOK' /\ Punctual'
  BY <1>1, <1>2, PassStep DEF TypeOK
<1>3. ASSUME NEW d \in Delays, now + d <= Ends, now' = now + d, stage' \in {"fallback", "build"},
             UNCHANGED <<providers, at, asking, began, asked, deadline>>
      PROVE  TypeOK' /\ Punctual'
  <2>1. now + d \in Int
    BY GivenType
  <2>2. TypeOK'
    BY <1>1, <1>3, <2>1 DEF TypeOK, Turns
  <2> QED
    BY <1>1, <1>3, <2>2 DEF Punctual, Turns, Ends, Given
<1>4. \A d \in Delays : now + d \in Int
  BY GivenType
<1>5. CASE Silent
  <2>1. Pass(Ends, NoQuote)
    BY <1>5 DEF Silent
  <2>2. Ends <= Ends
    BY <1>0
  <2> QED
    BY <1>0, <1>2, <2>1, <2>2
<1>6. CASE Refusal
  <2>1. PICK d \in Delays : /\ now + d <= Ends
                            /\ \/ /\ now' = now + d /\ stage' = "fallback"
                                  /\ UNCHANGED <<turn, asking, asked, draft, best, solution, outcome>>
                               \/ Pass(now + d, NoQuote)
    BY <1>6 DEF Refusal
  <2> QED
    BY <1>2, <1>3, <1>4, <2>1
<1>7. CASE Answer
  <2>1. PICK d \in Delays, amount \in Amounts \union {0}, calls \in BOOLEAN :
               /\ now + d <= Ends
               /\ \/ /\ now' = now + d /\ stage' = "build"
                     /\ UNCHANGED <<turn, asking, asked, best, solution, outcome>>
                  \/ Pass(now + d, Quote(amount, calls))
    BY <1>7 DEF Answer
  <2> QED
    BY <1>2, <1>3, <1>4, <2>1
<1>8. CASE Build
  <2>1. PICK d \in Delays : now + d <= Ends /\ \E quote : Pass(now + d, quote)
    BY <1>8 DEF Build
  <2>2. PICK quote : Pass(now + d, quote)
    BY <2>1
  <2> QED
    BY <1>2, <1>4, <2>1, <2>2
<1> QED
  BY <1>5, <1>6, <1>7, <1>8

LEMMA TypesStep == ASSUME TypeOK, Punctual, [Next]_vars PROVE TypeOK' /\ Punctual'
<1> USE Constants
<1>0. Given \in Int /\ Given * Timeout \in Int
  BY GivenType, Times
<1>1. CASE SkipPhase \/ UNCHANGED vars
  BY <1>1 DEF SkipPhase, TypeOK, Punctual, Given, Turns
<1>2. CASE Begin
  <2>1. now' = 0 /\ at' = 1 /\ stage' = "order" /\ UNCHANGED <<providers, asking, began, asked>>
    BY <1>2 DEF Begin
  <2>0. deadline' \in Int
    <3>1. PICK t \in Remaining : deadline' = SubTimeout(t)
      BY <1>2 DEF Begin
    <3>2. t - Timeout \in Int /\ 10 * Timeout \in Int
      BY AggregatorsAssumption
    <3> QED
      BY <3>1, <3>2, Smallest DEF SubTimeout
  <2>2. last' \in [DOMAIN Profile -> Int]
    BY <1>2, Intervals DEF Begin
  <2>3. Given' = 0 /\ Given' * Timeout = 0
    BY <2>1, GivenType DEF Given
  <2>4. TypeOK'
    BY <2>0, <2>1, <2>2 DEF TypeOK
  <2>5. now' <= Given' * Timeout
    BY <2>1, <2>3
  <2> QED
    BY <2>1, <2>4, <2>5 DEF Punctual, Turns
<1>3. CASE TakeOrder
  <2>1. stage' = "turn" /\ asking' = 1 /\ asked' = now /\ began' = now /\ stage = "order"
        /\ UNCHANGED <<providers, at, now, last>>
    BY <1>3 DEF TakeOrder
  <2>2. Len(providers) >= 1
    BY <1>3 DEF TakeOrder, TypeOK
  <2>3. Given' + asking' - 1 = Given
    BY <1>0, <2>1 DEF Given
  <2>4. TypeOK'
    BY <1>3, <2>1 DEF TakeOrder, TypeOK, Turns
  <2>5. asked' <= (Given' + asking' - 1) * Timeout /\ now' <= asked' + Timeout
    BY <1>0, <2>1, <2>3, GivenType DEF Punctual
  <2>6. asked' <= began' + (asking' - 1) * Timeout
    <3>1. (asking' - 1) * Timeout = 0
      BY <2>1
    <3> QED
      BY <2>1, <3>1, GivenType
  <2> QED
    BY <2>1, <2>2, <2>4, <2>5, <2>6 DEF Punctual
<1>4. CASE SkipOrder \/ Weigh
  <2>1. stage' = "order" /\ at' = at + 1 /\ UNCHANGED <<providers, asking, began, asked, now, last>>
    BY <1>4 DEF SkipOrder, Weigh
  <2>2. Given' = Given + Len(providers)
    BY <2>1, GivenType, Times DEF Given
  <2>3. (Given + Len(providers)) * Timeout = Given * Timeout + Len(providers) * Timeout
    BY GivenType, Times
  <2>4. Len(providers) * Timeout \in Int /\ Len(providers) * Timeout >= 0
    BY GivenType
  <2>5. now <= (Given + Len(providers)) * Timeout
    <3>1. now <= Given * Timeout \/ now <= (Given + Len(providers)) * Timeout
      BY <1>4 DEF SkipOrder, Weigh, Punctual
    <3> QED
      BY <1>0, <2>3, <2>4, <3>1, GivenType
  <2>6. TypeOK'
    BY <1>4, <2>1, GivenType DEF SkipOrder, Weigh, TypeOK
  <2>7. now' <= Given' * Timeout
    BY <2>1, <2>2, <2>5
  <2> QED
    BY <2>1, <2>6, <2>7 DEF Punctual, Turns
<1>5. CASE Exhausted
  BY <1>5, PassStep, GivenType DEF Exhausted, Punctual, Turns, Ends, TypeOK
<1>6. CASE Finish \/ Expire
  BY <1>6 DEF Finish, Expire, TypeOK, Punctual, Turns
<1> QED
  BY <1>1, <1>2, <1>3, <1>4, <1>5, <1>6, RequestStep, AnswerStep DEF Next

\* Every variable that tells the time or the turn keeps its type.
THEOREM TypeCorrect == Spec => [](TypeOK /\ Punctual)
BY InitInv, TypesStep, PTL DEF Spec

-----------------------------------------------------------------------------
LEMMA MarkedInit == Init => Marked
BY Intervals DEF Init, Marked

\* The clock goes on, and no limiter is marked ahead of it.
LEMMA MarkedOn ==
    ASSUME TypeOK, Marked, stage \in Turns, NEW time \in Int, time >= now, now' = time,
           stage' = "turn" => asked' = time,
           \A p \in DOMAIN Profile : last'[p] = last[p] \/ last'[p] = time
    PROVE  Marked'
<1>1. \A p \in DOMAIN Profile : last[p] <= now /\ last[p] \in Int
  BY DEF Marked, TypeOK, Turns
<1>2. \A p \in DOMAIN Profile : last'[p] <= now'
  BY <1>1, GivenType
<1> QED
  BY <1>2 DEF Marked

LEMMA MarkedStep == ASSUME TypeOK, Punctual, Marked, [Next]_vars PROVE Marked'
<1> USE Constants
<1>0. now \in Int /\ asked \in Int /\ Ends \in Int
  BY GivenType DEF Ends
<1>1. CASE UNCHANGED vars \/ SkipPhase
  BY <1>1 DEF SkipPhase, Marked
<1>2. CASE Begin
  <2>1. now' = 0 /\ stage' = "order" /\ last' = [p \in DOMAIN Profile |-> 0 - Profile[p].interval]
    BY <1>2 DEF Begin
  <2>2. \A p \in DOMAIN Profile : last'[p] <= now'
    BY <2>1, Intervals
  <2> QED
    BY <2>1, <2>2 DEF Marked
<1>3. CASE TakeOrder
  BY <1>3 DEF TakeOrder, Marked
<1>4. CASE SkipOrder \/ Weigh
  BY <1>4 DEF SkipOrder, Weigh, Marked
<1>5. CASE Finish \/ Expire
  BY <1>5 DEF Finish, Expire, Marked
<1>6. ASSUME stage \in Turns, NEW time \in Int, time >= now, NEW quote, Pass(time, quote), last' = last
      PROVE  Marked'
  BY <1>6, MarkedOn DEF Pass
<1>7. ASSUME stage \in Turns PROVE Ends >= now
  BY <1>0, <1>7 DEF Punctual, Ends
<1>8. CASE Exhausted
  BY <1>0, <1>6, <1>8 DEF Exhausted, Turns
<1>9. CASE Request
  <2>1. stage \in Turns
    BY <1>9 DEF Request, Turns
  <2>2. CASE Slot > Ends
    BY <1>0, <1>6, <1>7, <1>9, <2>1, <2>2 DEF Request
  <2>3. CASE ~(Slot > Ends)
    <3>1. now' = Slot /\ last' = [last EXCEPT ![Provider] = Slot] /\ stage' \in {"quote", "fallback quote"}
      BY <1>9, <2>3 DEF Request
    <3>2. \A p \in DOMAIN Profile : last'[p] = last[p] \/ last'[p] = Slot
      BY <3>1 DEF TypeOK
    <3> QED
      BY <2>1, <3>1, <3>2, SlotType, MarkedOn
  <2> QED
    BY <2>2, <2>3
<1>10. ASSUME NEW d \in Delays, stage \in Turns, now' = now + d, stage' \in {"fallback", "build"}, last' = last
       PROVE  Marked'
  <2>1. now + d \in Int /\ now + d >= now
    BY <1>0
  <2> QED
    BY <1>10, <2>1, MarkedOn
<1>11. ASSUME NEW d \in Delays, stage \in Turns, NEW quote, Pass(now + d, quote), last' = last
       PROVE  Marked'
  <2>1. now + d \in Int /\ now + d >= now
    BY <1>0
  <2> QED
    BY <1>6, <1>11, <2>1
<1>12. CASE Silent
  <2>1. stage \in Turns /\ Pass(Ends, NoQuote) /\ last' = last
    BY <1>12 DEF Silent, Turns
  <2> QED
    BY <1>0, <1>6, <1>7, <2>1
<1>13. CASE Refusal
  <2>1. stage \in Turns /\ last' = last
    BY <1>13 DEF Refusal, Turns
  <2>2. PICK d \in Delays : (now' = now + d /\ stage' = "fallback") \/ Pass(now + d, NoQuote)
    BY <1>13 DEF Refusal
  <2> QED
    BY <1>10, <1>11, <2>1, <2>2
<1>14. CASE Answer
  <2>1. stage \in Turns /\ last' = last
    BY <1>14 DEF Answer, Turns
  <2>2. PICK d \in Delays, amount \in Amounts \union {0}, calls \in BOOLEAN :
             (now' = now + d /\ stage' = "build") \/ Pass(now + d, Quote(amount, calls))
    BY <1>14 DEF Answer
  <2> QED
    BY <1>10, <1>11, <2>1, <2>2
<1>15. CASE Build
  <2>1. stage \in Turns /\ last' = last
    BY <1>15 DEF Build, Turns
  <2>2. PICK d \in Delays : \E quote : Pass(now + d, quote)
    BY <1>15 DEF Build
  <2> QED
    BY <1>11, <2>1, <2>2
<1> QED
  BY <1>1, <1>2, <1>3, <1>4, <1>5, <1>8, <1>9, <1>12, <1>13, <1>14, <1>15 DEF Next

\* No client waits longer than a provider has.
LEMMA IntervalsFit == \A p \in DOMAIN Profile : Profile[p].interval <= Timeout
<1>0. Timeout \in Nat
  BY Constants
<1>1. \A ms \in {100, 250, 500, 1000} : Ticks(ms) <= Timeout
  BY Constants DEF Ticks
<1>2. /\ OneInch.interval <= Timeout /\ Okx.interval <= Timeout /\ ZeroX.interval <= Timeout
      /\ OpenOcean.interval <= Timeout
  BY <1>1 DEF OneInch, Okx, ZeroX, OpenOcean, Plain
<1>3. /\ Odos.interval <= Timeout /\ Bebop.interval <= Timeout /\ Paraswap.interval <= Timeout
      /\ KyberSwap.interval <= Timeout
  BY <1>1 DEF Odos, Bebop, Paraswap, KyberSwap, Plain
<1>4. DOMAIN Profile = {"oneinch", "okx", "zerox", "odos", "bebop", "paraswap", "kyberswap", "openocean"}
  BY DEF Profile
<1>5. /\ Profile["oneinch"] = OneInch /\ Profile["okx"] = Okx /\ Profile["zerox"] = ZeroX
      /\ Profile["odos"] = Odos /\ Profile["bebop"] = Bebop /\ Profile["paraswap"] = Paraswap
      /\ Profile["kyberswap"] = KyberSwap /\ Profile["openocean"] = OpenOcean
  BY DEF Profile
<1> QED
  BY <1>2, <1>3, <1>4, <1>5

\* No turn is lost to the limiter alone: a provider whose budget lasts gets
\* its first request out before its second is over, whatever was asked for
\* the orders before (RateLimiter::wait in best_quote).
THEOREM TurnsReachHolds == Spec => []TurnsReach
<1>1. ASSUME TypeOK, Punctual, Marked PROVE TurnsReach
  <2> SUFFICES ASSUME stage = "turn" PROVE Slot <= Ends
    BY DEF TurnsReach
  <2>1. Provider \in DOMAIN Profile
    BY <1>1, SlotType DEF Turns
  <2>2. PICK m \in Int, i \in Nat : m = last[Provider] /\ i = Client.interval /\ m <= now /\ i <= Timeout
    BY <1>1, <2>1, Intervals, IntervalsFit DEF TypeOK, Marked, Client
  <2>3. now \in Int /\ asked = now
    BY <1>1, GivenType DEF Marked
  <2>4. Slot \in {now, m + i}
    <3>1. \E x \in {now, m + i} : \A y \in {now, m + i} : x >= y
      BY <2>2, <2>3
    <3> QED
      BY <2>2, <3>1 DEF Slot, Max
  <2> QED
    BY <2>2, <2>3, <2>4, Constants DEF Ends
<1>2. Spec => []Marked
  BY MarkedInit, MarkedStep, TypeCorrect, PTL DEF Spec
<1> QED
  BY <1>1, <1>2, TypeCorrect, PTL

-----------------------------------------------------------------------------
\* An order takes no more than a second for each provider asked so far, with
\* every wait, refusal and second request in it, and so do all the orders
\* together (best_quote): none eats the time of the others.
THEOREM QuotingBoundedHolds == Spec => []QuotingBounded
<1>1. ASSUME TypeOK, Punctual PROVE QuotingBounded
  <2> SUFFICES ASSUME stage # "idle" PROVE QuotingBounded
    BY DEF QuotingBounded
  <2>1. CASE stage = "order"
    <3>1. Given + 0 = Given
      BY <1>1, GivenType
    <3>2. now <= Given * Timeout
      BY <1>1, <2>1 DEF Punctual
    <3> QED
      BY <2>1, <3>1, <3>2 DEF QuotingBounded, Given
  <2>2. CASE stage = "weigh"
    <3>1. now <= (Given + Len(providers)) * Timeout /\ now <= began + Len(providers) * Timeout
      BY <1>1, <2>2 DEF Punctual
    <3>2. now - began <= Len(providers) * Timeout
      <4>1. Len(providers) * Timeout \in Int
        BY <1>1, GivenType, Times, Constants
      <4> QED
        BY <1>1, <3>1, <4>1, GivenType
    <3> QED
      BY <2>2, <3>1, <3>2 DEF QuotingBounded, Given
  <2>3. CASE stage \in Turns
    <3>1. (Given + asking - 1) * Timeout + Timeout = (Given + asking) * Timeout
      <4>1. Given + asking - 1 \in Int /\ (Given + asking - 1) + 1 = Given + asking
        BY <1>1, GivenType
      <4> QED
        BY <4>1, Times, Constants
    <3>2. (Given + asking - 1) * Timeout \in Int
      BY <1>1, GivenType, Times, Constants
    <3>3. now <= (Given + asking) * Timeout
      BY <1>1, <2>3, <3>1, <3>2, GivenType, Constants DEF Punctual
    <3>4. now - began <= asking * Timeout
      <4>1. asked <= began + (asking - 1) * Timeout /\ now <= asked + Timeout
        BY <1>1, <2>3 DEF Punctual
      <4>2. (asking - 1) * Timeout + Timeout = asking * Timeout /\ (asking - 1) * Timeout \in Int
        BY <1>1, GivenType, Times, Constants
      <4> QED
        BY <1>1, <4>1, <4>2, GivenType, Constants
    <3> QED
      BY <2>3, <3>3, <3>4 DEF QuotingBounded, Turns, Given
  <2> QED
    BY <1>1, <2>1, <2>2, <2>3 DEF TypeOK
<1> QED
  BY TypeCorrect, <1>1, PTL

-----------------------------------------------------------------------------
(* RatesApart: a trade that shares no token keeps the prices it was given  *)
(* when it was added, the two amounts of its quote.                        *)

Quotable == {o \in Orders : o.sell > 0}

Trades == [order : Quotable, executed : Nat]

Alone(trades, i) ==
    /\ trades[i].order.from # trades[i].order.to
    /\ \A j \in DOMAIN trades : j # i => Tokens(trades[i]) \intersect Tokens(trades[j]) = {}

QuoteTypes ==
    /\ auctions \in Seq(Seq(Orders))
    /\ picked \in Seq(Quotable)
    /\ best \in [buy : Nat \union {-1}, calls : BOOLEAN]
    /\ draft \in Nat
    /\ solution.trades \in Seq(Trades)
    /\ stage \notin {"idle", "order"} => at <= Len(picked) /\ picked[at].limit > 0

\* What the solution has so far.
PricedApart(trades, prices) ==
    /\ \A x \in DOMAIN prices : \E i \in DOMAIN trades : x \in Tokens(trades[i])
    /\ \A i \in DOMAIN trades : Alone(trades, i) =>
         LET o == trades[i].order
         IN  /\ {o.from, o.to} \subseteq DOMAIN prices
             /\ prices[o.to] = o.sell /\ prices[o.from] \in Nat /\ prices[o.from] >= o.limit

RatesInv == QuoteTypes /\ PricedApart(solution.trades, solution.prices)

LEMMA PicksTypes ==
    ASSUME NEW orders \in Seq(Orders), NEW s \in Picks(orders)
    PROVE  s \in Seq(Quotable)
<1> DEFINE worth == {i \in DOMAIN orders : orders[i].sell > 0 /\ Value(orders[i]) >= MinValue}
           n     == Cardinality(worth)
           m     == Min({MaxOrders, n})
<1>1. n \in Nat
  <2>1. IsFiniteSet(1..Len(orders))
    BY FS_Interval
  <2>2. IsFiniteSet(worth)
    BY <2>1, FS_Subset
  <2> QED
    BY <2>2, FS_CardinalityType
<1>2. m \in Nat /\ m <= n
  <2>1. \E x \in {MaxOrders, n} : \A y \in {MaxOrders, n} : y >= x
    BY <1>1, AggregatorsAssumption
  <2> QED
    BY <1>1, <2>1, AggregatorsAssumption DEF Min
<1>3. PICK p \in [1..n -> worth] : s = [k \in 1..m |-> orders[p[k]]]
  BY DEF Picks
<1>4. \A k \in 1..m : orders[p[k]] \in Quotable
  BY <1>1, <1>2 DEF Quotable
<1> HIDE DEF m, worth
<1>5. DOMAIN s = 1..m /\ \A k \in 1..m : s[k] \in Quotable
  BY <1>3, <1>4
<1>6. s \in [1..m -> Quotable]
  BY <1>3, <1>5
<1> QED
  BY <1>2, <1>6

LEMMA QuoteTypesStep == ASSUME TypeOK, Punctual, QuoteTypes, [Next]_vars PROVE QuoteTypes'
<1> USE AggregatorsAssumption DEF QuoteTypes
<1>0. CASE UNCHANGED vars
  BY <1>0
<1>1. CASE SkipPhase
  <2>1. auctions' \in Seq(Seq(Orders))
    BY <1>1 DEF SkipPhase
  <2>2. solution'.trades \in Seq(Trades)
    BY <1>1 DEF SkipPhase, Empty
  <2>3. UNCHANGED <<picked, best, draft, at, stage>>
    BY <1>1 DEF SkipPhase
  <2> QED
    BY <2>1, <2>2, <2>3
<1>2. CASE Begin
  <2>1. Head(auctions) \in Seq(Orders) /\ auctions' \in Seq(Seq(Orders))
    BY <1>2 DEF Begin
  <2>2. picked' \in Seq(Quotable)
    BY <1>2, <2>1, PicksTypes DEF Begin
  <2> QED
    BY <1>2, <2>1, <2>2 DEF Begin, Empty
<1>3. CASE TakeOrder
  BY <1>3 DEF TakeOrder, NoQuote
<1>4. CASE SkipOrder \/ Finish \/ Expire
  BY <1>4 DEF SkipOrder, Finish, Expire
<1>5. ASSUME NEW time, NEW quote \in [buy : Nat \union {-1}, calls : BOOLEAN], stage \notin {"idle", "order"},
             Pass(time, quote)
      PROVE  QuoteTypes'
  <2>1. best' \in [buy : Nat \union {-1}, calls : BOOLEAN]
    BY <1>5 DEF Pass, Better
  <2> QED
    BY <1>5, <2>1 DEF Pass, NoDraft
<1>6. ASSUME stage \notin {"idle", "order"}, UNCHANGED <<turn, best, solution>>, draft' \in Nat PROVE QuoteTypes'
  BY <1>6
<1>7. NoQuote \in [buy : Nat \union {-1}, calls : BOOLEAN]
  BY DEF NoQuote
<1>8. \A b \in Nat, c \in BOOLEAN : Quote(b, c) \in [buy : Nat \union {-1}, calls : BOOLEAN]
  BY DEF Quote
<1>9. CASE Exhausted
  BY <1>5, <1>7, <1>9 DEF Exhausted
<1>10. CASE Request
  <2>1. stage \notin {"idle", "order"}
    BY <1>10 DEF Request
  <2>2. Pass(Ends, NoQuote) \/ UNCHANGED <<turn, best, solution, draft>>
    BY <1>10 DEF Request
  <2> QED
    BY <2>1, <2>2, <1>5, <1>6, <1>7
<1>11. CASE Silent
  BY <1>5, <1>7, <1>11 DEF Silent
<1>12. CASE Refusal
  <2>1. stage \notin {"idle", "order"}
    BY <1>12 DEF Refusal
  <2>2. UNCHANGED <<turn, best, solution, draft>> \/ \E d \in Delays : Pass(now + d, NoQuote)
    BY <1>12 DEF Refusal
  <2> QED
    BY <2>1, <2>2, <1>5, <1>6, <1>7
<1>13. CASE Answer
  <2>1. stage \notin {"idle", "order"}
    BY <1>13 DEF Answer
  <2>2. PICK d \in Delays, amount \in Amounts \union {0}, calls \in BOOLEAN :
             \/ draft' = amount /\ UNCHANGED <<turn, best, solution>>
             \/ Pass(now + d, Quote(amount, calls))
    BY <1>13 DEF Answer
  <2>3. amount \in Nat
    OBVIOUS
  <2> QED
    BY <2>1, <2>2, <2>3, <1>5, <1>6, <1>8
<1>14. CASE Build
  <2>1. stage \notin {"idle", "order"}
    BY <1>14 DEF Build
  <2>2. PICK d \in Delays : (\E calls \in BOOLEAN : Pass(now + d, Quote(draft, calls))) \/ Pass(now + d, NoQuote)
    BY <1>14 DEF Build
  <2> QED
    BY <2>1, <2>2, <1>5, <1>7, <1>8
<1>15. CASE Weigh
  <2>1. at \in 1..Len(picked) /\ picked[at] \in Quotable
    BY <1>15 DEF Weigh, TypeOK
  <2>2. Trade(picked[at]) \in Trades
    BY <2>1, OrdersAssumption DEF Trade, Trades, Quotable
  <2>3. solution'.trades \in {solution.trades, Append(solution.trades, Trade(picked[at]))}
    BY <1>15 DEF Weigh
  <2>4. solution'.trades \in Seq(Trades)
    <3>1. Append(solution.trades, Trade(picked[at])) \in Seq(Trades)
      BY <2>2
    <3> QED
      BY <2>3, <3>1
  <2>5. UNCHANGED <<auctions, picked, best, draft>> /\ stage' = "order"
    BY <1>15 DEF Weigh
  <2> QED
    BY <2>4, <2>5
<1> QED
  BY <1>0, <1>1, <1>2, <1>3, <1>4, <1>9, <1>10, <1>11, <1>12, <1>13, <1>14, <1>15 DEF Next

\* A trade added with a quote of its limit or more.
LEMMA AddedApart ==
    ASSUME NEW trades \in Seq(Trades), NEW prices, NEW o \in Quotable,
           NEW executed, NEW buy \in Nat, buy >= o.limit, PricedApart(trades, prices)
    PROVE  PricedApart(Append(trades, [order |-> o, executed |-> executed]), Priced(prices, o, buy))
<1> DEFINE t     == [order |-> o, executed |-> executed]
           n     == Len(trades) + 1
           added == Append(trades, t)
           after == Priced(prices, o, buy)
<1>1. /\ DOMAIN added = 1..n /\ added[n] = t /\ DOMAIN trades = 1..(n - 1) /\ n \in Nat
      /\ \A i \in DOMAIN trades : added[i] = trades[i] /\ i \in DOMAIN added /\ i # n
  OBVIOUS
<1>2. Tokens(t) = {o.from, o.to}
  BY DEF Tokens
<1>3. /\ DOMAIN after \subseteq DOMAIN prices \union {o.from, o.to}
      /\ DOMAIN prices \subseteq DOMAIN after
      /\ \A x \in DOMAIN prices : x \notin {o.from, o.to} => after[x] = prices[x]
  BY DEF Priced, With
<1> HIDE DEF after, added
<1>4. \A x \in DOMAIN after : \E i \in DOMAIN added : x \in Tokens(added[i])
  BY <1>1, <1>2, <1>3 DEF PricedApart
<1>5. ASSUME NEW i \in DOMAIN added, Alone(added, i)
      PROVE  LET u == added[i].order
             IN  /\ {u.from, u.to} \subseteq DOMAIN after
                 /\ after[u.to] = u.sell /\ after[u.from] \in Nat /\ after[u.from] >= u.limit
  <2>1. CASE i = n
    <3>1. added[i].order = o /\ o.from # o.to
      BY <1>1, <1>5, <2>1 DEF Alone
    <3>2. \A j \in DOMAIN trades : Tokens(t) \intersect Tokens(trades[j]) = {}
      BY <1>1, <1>5, <2>1 DEF Alone
    <3>3. o.from \notin DOMAIN prices /\ o.to \notin DOMAIN prices
      BY <1>2, <3>2 DEF PricedApart
    <3>4. after = With(With(prices, o.from, buy), o.to, o.sell)
      BY <3>3 DEF Priced, after
    <3>5. {o.from, o.to} \subseteq DOMAIN after /\ after[o.to] = o.sell /\ after[o.from] = buy
      BY <3>1, <3>4 DEF With
    <3> QED
      BY <3>1, <3>5
  <2>2. CASE i # n
    <3>1. i \in DOMAIN trades /\ added[i] = trades[i]
      BY <1>1, <2>2
    <3>2. Alone(trades, i)
      BY <1>1, <1>5, <3>1 DEF Alone
    <3>3. Tokens(trades[i]) \intersect Tokens(t) = {}
      BY <1>1, <1>5, <2>2, <3>1 DEF Alone
    <3> DEFINE u == trades[i].order
    <3>4. u.from \notin {o.from, o.to} /\ u.to \notin {o.from, o.to}
      BY <1>2, <3>3 DEF Tokens
    <3>5. /\ {u.from, u.to} \subseteq DOMAIN prices
          /\ prices[u.to] = u.sell /\ prices[u.from] \in Nat /\ prices[u.from] >= u.limit
      BY <3>1, <3>2 DEF PricedApart
    <3> QED
      BY <1>3, <3>1, <3>4, <3>5
  <2> QED
    BY <2>1, <2>2
<1> QED
  BY <1>4, <1>5 DEF PricedApart, added, after

LEMMA RatesStep == ASSUME TypeOK, Punctual, RatesInv, [Next]_vars PROVE RatesInv'
<1>1. QuoteTypes'
  BY QuoteTypesStep DEF RatesInv
<1>2. PricedApart(<<>>, << >>)
  BY DEF PricedApart
<1>3. CASE SkipPhase \/ Begin
  BY <1>1, <1>2, <1>3 DEF SkipPhase, Begin, Empty, RatesInv
<1>4. CASE Weigh
  <2>1. CASE best.buy < picked[at].limit
    BY <1>1, <1>4, <2>1 DEF Weigh, RatesInv
  <2>2. CASE ~(best.buy < picked[at].limit)
    <3> DEFINE o == picked[at]
    <3>1. o \in Quotable /\ o.limit > 0 /\ o.limit \in Nat
      BY <1>4, OrdersAssumption DEF Weigh, RatesInv, QuoteTypes, TypeOK, Quotable
    <3>2. best.buy \in Nat /\ best.buy >= o.limit
      BY <2>2, <3>1 DEF RatesInv, QuoteTypes
    <3>3. /\ solution'.trades = Append(solution.trades, Trade(o))
          /\ solution'.prices = Priced(solution.prices, o, best.buy)
      BY <1>4, <2>2 DEF Weigh
    <3>4. solution.trades \in Seq(Trades)
          /\ PricedApart(solution.trades, solution.prices)
      BY DEF RatesInv, QuoteTypes
    <3>5. PricedApart(solution'.trades, solution'.prices)
      BY <3>1, <3>2, <3>3, <3>4, AddedApart DEF Trade
    <3> QED
      BY <1>1, <3>5 DEF RatesInv
  <2> QED
    BY <2>1, <2>2
<1>5. CASE UNCHANGED solution
  BY <1>1, <1>5 DEF RatesInv
<1>6. CASE Exhausted \/ Request \/ Silent \/ Refusal \/ Answer \/ Build
  BY <1>5, <1>6 DEF Exhausted, Request, Silent, Refusal, Answer, Build, Pass
<1>7. CASE TakeOrder \/ SkipOrder \/ Finish \/ Expire \/ UNCHANGED vars
  BY <1>5, <1>7 DEF TakeOrder, SkipOrder, Finish, Expire
<1> QED
  BY <1>3, <1>4, <1>6, <1>7 DEF Next

LEMMA RatesInit == Init => RatesInv
<1> SUFFICES ASSUME Init PROVE RatesInv
  OBVIOUS
<1>1. auctions \in Seq(Seq(Orders))
  BY OrdersAssumption DEF Init
<1> QED
  BY <1>1 DEF Init, RatesInv, QuoteTypes, PricedApart, Empty, NoQuote, NoDraft

\* Multiplied and divided by the same amount.
LEMMA Quotient == ASSUME NEW a \in Nat, NEW b \in Nat, a > 0 PROVE (a * b) \div a = b
OBVIOUS

\* A trade of two tokens that no other trade has receives at least its limit
\* at the prices of the solution, for any auctions and answers (Priced, in
\* the third case of agg_solver.rs).
THEOREM RatesApartHolds == Spec => []RatesApart
<1>1. ASSUME RatesInv PROVE RatesApart
  <2> SUFFICES ASSUME NEW i \in DOMAIN solution.trades, Alone(solution.trades, i)
               PROVE  LET t == solution.trades[i]
                      IN  /\ Tokens(t) \subseteq DOMAIN solution.prices
                          /\ Received(t, solution.prices) >= t.order.limit
    BY DEF RatesApart, Alone
  <2> DEFINE o == solution.trades[i].order
  <2>1. /\ {o.from, o.to} \subseteq DOMAIN solution.prices /\ solution.prices[o.to] = o.sell
        /\ solution.prices[o.from] \in Nat /\ solution.prices[o.from] >= o.limit
    BY <1>1 DEF RatesInv, PricedApart
  <2>2. o.sell \in Nat /\ o.sell > 0
    <3>1. solution.trades[i] \in Trades
      BY <1>1 DEF RatesInv, QuoteTypes
    <3> QED
      BY <3>1, OrdersAssumption DEF Trades, Quotable
  <2>3. (o.sell * solution.prices[o.from]) \div o.sell = solution.prices[o.from]
    BY <2>1, <2>2, Quotient
  <2> QED
    BY <2>1, <2>3 DEF Tokens, Received
<1>2. Spec => []RatesInv
  BY RatesInit, RatesStep, TypeCorrect, PTL DEF Spec
<1> QED
  BY <1>1, <1>2, PTL
=============================================================================
