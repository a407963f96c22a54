------------------------------ MODULE PoolReads ------------------------------
(***************************************************************************)
(* What the modules of liquidity/ share: the answers of a contract call    *)
(* and u128 arithmetic that gives up on overflow.                          *)
(*                                                                         *)
(* An answer is the value the contract holds, Err when the call fails, or  *)
(* Bad when its bytes do not decode.  A quote is an amount or None.        *)
(***************************************************************************)
EXTENDS Integers, Sequences, FiniteSetsExt, Folds

CONSTANTS
    Err,        \* the RPC call returned an error
    Bad,        \* the call returned bytes that do not decode
    Zero,       \* the zero address a factory answers for a pair it lacks
    Absent,     \* Ok(None): there is no such pool
    U128,       \* the largest u128
    Bps,        \* 10_000: basis points in one
    Ppm         \* 1_000_000: millionths in one

ASSUME PoolReadsAssumption ==
    /\ U128 \in Nat /\ Bps \in Nat \ {0} /\ Ppm \in Nat \ {0}

None == -1

Fits(x) == x <= U128

Capped(x, cap) == IF x > cap THEN cap ELSE x

\* The largest n in lo..hi that a decreasing condition still admits, or None:
\* the value an iteration on a monotone function converges to.
Largest(lo, hi, Admits(_)) ==
    LET all == {n \in lo..hi : Admits(n)}
    IN  IF all = {} THEN None ELSE Max(all)

\* decode_address: the zero address and short bytes are no address.
IsAddress(a) == a \notin {Err, Bad, Zero}

\* unwrap_or: the value of an answer that decodes, else a default.
DecodedOr(a, default) == IF a = Bad THEN default ELSE a

\* try_join!: one failed call fails them all.
AnyFailed(calls) == \E c \in DOMAIN calls : calls[c] = Err

Found(pool)  == [ok |-> TRUE,  pool |-> pool]
NotFound     == [ok |-> TRUE,  pool |-> Absent]
Failed       == [ok |-> FALSE, pool |-> Absent]
Synced(pool) == [ok |-> TRUE,  pool |-> pool]
Stuck(pool)  == [ok |-> FALSE, pool |-> pool]
==============================================================================
