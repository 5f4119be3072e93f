----------------------------- MODULE TokenBucket -----------------------------
(***************************************************************************)
(* What the per-key rate limit of POST /predict promises: a token bucket   *)
(* that every request visits at one instant.  RateLimit models the code,   *)
(* which visits it in several steps.                                       *)
(*                                                                         *)
(* Tokens are counted in thousandths and time in milliseconds, so that a   *)
(* rate in tokens per second fills Rate thousandths per millisecond.  The  *)
(* code's doubles are exact on these values.                               *)
(***************************************************************************)
EXTENDS Integers

CONSTANTS Rate,     \* --rate, in tokens per second
          Burst,    \* --burst, in tokens
          MaxMs     \* bound: the last instant of the clock

ASSUME RateAssumption == Rate \in Nat /\ Burst \in Nat
ASSUME ClockAssumption == MaxMs \in Nat \ {0}

VARIABLES
  tokens,     \* bkt.tokens
  last,       \* bkt.last_ms, 0 until the first request of the key
  admitted,   \* history: how many requests were let through
  mark        \* history: last and admitted, at some earlier request

bvars == <<tokens, last, admitted, mark>>

\* What --burst leaves of x.
Cap(x) == IF x > 1000 * Burst THEN 1000 * Burst ELSE x
Start  == [at |-> 0, admitted |-> 0]

BInit == tokens = 0 /\ last = 0 /\ admitted = 0 /\ mark = Start

\* A request that read the clock at t.
Request(t) ==
  LET filled == Cap(tokens + Rate * (IF last = 0 THEN 0 ELSE t - last))
  IN  /\ t >= last
      /\ last' = t
      /\ \/ filled < 1000 /\ tokens' = filled /\ UNCHANGED admitted
         \/ filled >= 1000 /\ tokens' = filled - 1000 /\ admitted' = admitted + 1
      /\ UNCHANGED mark

\* An observer starts to count.
Mark == /\ mark' = [at |-> last, admitted |-> admitted]
        /\ UNCHANGED <<tokens, last, admitted>>

BNext == Mark \/ \E t \in 1..MaxMs : Request(t)

BSpec == BInit /\ [][BNext]_bvars

-----------------------------------------------------------------------------
BTypeOK == /\ tokens \in 0..(1000 * Burst)
           /\ last \in 0..MaxMs
           /\ admitted \in Nat
           /\ mark \in [at : 0..MaxMs, admitted : Nat]

\* Between any two requests of a key, the bucket lets through at most its size
\* and what the rate adds in the time between them.
RateBound ==
  1000 * (admitted - mark.admitted) <= 1000 * Burst + Rate * (last - mark.at)

\* The strengthening that is inductive: the tokens left are accounted for.
Conservation ==
  /\ mark.at <= last /\ mark.admitted <= admitted
  /\ 1000 * (admitted - mark.admitted) + tokens
       <= 1000 * Burst + Rate * (last - mark.at)

BInv == BTypeOK /\ Conservation
=============================================================================
