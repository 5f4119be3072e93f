---------------------------- MODULE RateLimitProof ----------------------------
(***************************************************************************)
(* The bound of the token bucket, for every rate, size and clock, and that *)
(* the code's steps are that bucket while one request of a key is handled  *)
(* at a time.                                                              *)
(***************************************************************************)
EXTENDS RateLimit, TLAPS

\* The fill rate distributes over consecutive intervals of time, and a
\* interval that does not run backwards adds no negative amount.
LEMMA FillAdds ==
  ASSUME NEW r \in Nat, NEW x \in Int, NEW y \in Int, NEW z \in Int, x <= y, y <= z
  PROVE  /\ r * (y - x) + r * (z - y) = r * (z - x)
         /\ r * (y - x) \in Nat
         /\ r * (z - y) \in Nat
BY SMT

\* --burst caps what a refill leaves in the bucket, and never adds to it.
LEMMA CapBounds ==
  ASSUME NEW x \in Nat
  PROVE  Cap(x) \in 0..(1000 * Burst) /\ Cap(x) <= x
BY RateAssumption DEF Cap

\* The bucket of a key starts empty, and its account balances (serve.cpp 343-346).
LEMMA BucketInit == BInit => BInv
BY RateAssumption, ClockAssumption DEF BInit, BInv, BTypeOK, Conservation, Start

\* A request, at any instant not before the last one, keeps the account of the
\* bucket: what it lets through and what it leaves is what was there and what
\* the rate added (serve.cpp 853-857).
LEMMA RequestStep ==
  ASSUME BInv, NEW t \in 1..MaxMs, Request(t)
  PROVE  BInv'
<1> DEFINE added  == Rate * (IF last = 0 THEN 0 ELSE t - last)
           filled == Cap(tokens + added)
<1>1. /\ tokens \in Nat /\ tokens <= 1000 * Burst
      /\ last \in Nat /\ admitted \in Nat
      /\ mark.at \in Nat /\ mark.admitted \in Nat
      /\ mark.at <= last /\ mark.admitted <= admitted
      /\ last \in 0..MaxMs /\ mark \in [at : 0..MaxMs, admitted : Nat]
  BY ClockAssumption, RateAssumption DEF BInv, BTypeOK, Conservation
<1>2. 1000 * (admitted - mark.admitted) + tokens
        <= 1000 * Burst + Rate * (last - mark.at)
  BY DEF BInv, Conservation
<1>3. t \in Nat /\ t <= MaxMs /\ last <= t
  BY ClockAssumption DEF Request
<1>4. /\ Rate * (last - mark.at) + Rate * (t - last) = Rate * (t - mark.at)
      /\ Rate * (t - last) \in Nat /\ Rate * (last - mark.at) \in Nat
  BY <1>1, <1>3, FillAdds, RateAssumption
<1>5. Rate * 0 = 0
  BY RateAssumption
<1>6. added \in Nat /\ added <= Rate * (t - last)
  BY <1>4, <1>5
<1>7. filled \in Nat /\ filled <= 1000 * Burst /\ filled <= tokens + added
  <2>1. tokens + added \in Nat
    BY <1>1, <1>6
  <2> QED
    BY <2>1, CapBounds, RateAssumption
<1>8. /\ last' = t /\ mark' = mark
      /\ \/ filled < 1000 /\ tokens' = filled /\ admitted' = admitted
         \/ filled >= 1000 /\ tokens' = filled - 1000 /\ admitted' = admitted + 1
  BY DEF Request
<1> HIDE DEF added, filled
<1>9. /\ tokens' \in Nat /\ tokens' <= 1000 * Burst
      /\ admitted' \in Nat /\ admitted' >= admitted
      /\ 1000 * (admitted' - admitted) + tokens' = filled
  BY <1>1, <1>7, <1>8, RateAssumption
<1>10. BTypeOK'
  BY <1>1, <1>3, <1>8, <1>9, RateAssumption, ClockAssumption DEF BTypeOK
<1>11. 1000 * (admitted' - mark.admitted) + tokens'
         <= 1000 * Burst + Rate * (t - mark.at)
  <2> DEFINE m == mark.admitted
             c == 1000 * Burst
             f == Rate * (last - mark.at)
             g == Rate * (t - last)
  <2>1. m \in Int /\ c \in Int /\ f \in Int /\ g \in Int
    BY <1>1, <1>4, RateAssumption
  <2>2. Rate * (t - mark.at) = f + g
    BY <1>4
  <2>3. 1000 * (admitted - m) + tokens <= c + f
    BY <1>2
  <2>4. filled <= tokens + g
    <3> HIDE DEF m, c, f
    <3>1. tokens + added <= tokens + g
      <4> HIDE DEF g
      <4>1. g \in Int /\ added \in Int /\ added <= g /\ tokens \in Int
        BY <1>1, <1>6, <2>1 DEF g
      <4> QED
        BY <4>1
    <3>2. tokens + g \in Int /\ tokens + added \in Int /\ filled \in Int
      BY <1>1, <1>4, <1>6, <1>7
    <3> QED
      BY <1>7, <3>1, <3>2
  <2> HIDE DEF m, c, f, g
  <2>5. /\ admitted \in Int /\ admitted' \in Int /\ tokens \in Int
        /\ tokens' \in Int /\ filled \in Int
    BY <1>1, <1>7, <1>9
  <2>6. 1000 * (admitted' - m) + tokens' <= c + (f + g)
    <3> DEFINE p == admitted'
               q == tokens'
    <3>1. p \in Int /\ q \in Int /\ 1000 * (p - admitted) + q = filled
      BY <1>9, <2>5
    <3> HIDE DEF p, q
    <3>2. 1000 * (p - m) + q <= c + (f + g)
      BY <2>1, <2>3, <2>4, <2>5, <3>1
    <3> QED
      BY <3>2 DEF p, q
  <2> QED
    BY <2>2, <2>6 DEF m, c
<1>12. Conservation'
  BY <1>1, <1>3, <1>8, <1>9, <1>11 DEF Conservation
<1> QED
  BY <1>10, <1>12 DEF BInv

\* An observer may start to count at any request.
LEMMA MarkStep ==
  ASSUME BInv, Mark
  PROVE  BInv'
<1>1. /\ tokens \in 0..(1000 * Burst) /\ last \in 0..MaxMs /\ admitted \in Nat
      /\ mark' = [at |-> last, admitted |-> admitted]
      /\ tokens' = tokens /\ last' = last /\ admitted' = admitted
  BY DEF BInv, BTypeOK, Mark
<1>2. BTypeOK'
  BY <1>1 DEF BTypeOK
<1>3. Rate * (last - last) = 0
  BY <1>1, RateAssumption, ClockAssumption
<1>4. Conservation'
  BY <1>1, <1>3, RateAssumption, ClockAssumption DEF Conservation
<1> QED
  BY <1>2, <1>4 DEF BInv

\* The account is an invariant of the bucket.
THEOREM BucketInvariant == BSpec => []BInv
<1>1. BInv /\ [BNext]_bvars => BInv'
  <2> SUFFICES ASSUME BInv, [BNext]_bvars PROVE BInv'
    OBVIOUS
  <2>1. CASE Mark
    BY <2>1, MarkStep
  <2>2. ASSUME NEW t \in 1..MaxMs, Request(t) PROVE BInv'
    BY <2>2, RequestStep
  <2>3. CASE UNCHANGED bvars
    BY <2>3 DEF bvars, BInv, BTypeOK, Conservation
  <2> QED
    BY <2>1, <2>2, <2>3 DEF BNext
<1> QED
  BY <1>1, BucketInit, PTL DEF BSpec

\* Between any two requests of a key, at most --burst requests and --rate per
\* second of the time between them are let through.
THEOREM BucketBound == BSpec => []RateBound
<1>1. BInv => RateBound
  <2> SUFFICES ASSUME BInv PROVE RateBound
    OBVIOUS
  <2> DEFINE f == Rate * (last - mark.at)
  <2>1. /\ tokens \in Nat /\ admitted \in Nat /\ mark.admitted \in Nat
        /\ last \in Int /\ mark.at \in Int
        /\ 1000 * (admitted - mark.admitted) + tokens <= 1000 * Burst + f
    BY ClockAssumption, RateAssumption DEF BInv, BTypeOK, Conservation
  <2>2. f \in Int
    BY <2>1, RateAssumption
  <2> HIDE DEF f
  <2>3. 1000 * (admitted - mark.admitted) <= 1000 * Burst + f
    BY <2>1, <2>2, RateAssumption
  <2> QED
    BY <2>3 DEF RateBound, f
<1> QED
  BY <1>1, BucketInvariant, PTL

-----------------------------------------------------------------------------
(* The code implements the bucket, one request at a time.                  *)

\* Where the one request is, and what it has read so far.
Visit(h) ==
  /\ pc[h] \in {"clock", "fresh", "elapsed", "stamp", "refill", "store", "check",
                "take"}
  /\ pc[h] # "clock" => now_ms[h] \in 1..now /\ last <= now_ms[h]
  /\ pc[h] \notin {"clock", "fresh"} => last # 0
  /\ pc[h] = "stamp" => elapsed[h] = now_ms[h] - last
  /\ pc[h] = "refill" => elapsed[h] \in Int
  /\ pc[h] = "store" => reg[h] \in Int
  /\ pc[h] \in {"check", "take"} => reg[h] = tokens
  /\ pc[h] = "take" => tokens >= 1000

RInv(h) ==
  /\ now \in 1..MaxMs /\ last \in 0..now
  /\ tokens \in Int /\ admitted \in Nat
  /\ last = 0 => tokens = 0
  /\ DOMAIN pc = Handlers /\ DOMAIN now_ms = Handlers
  /\ DOMAIN elapsed = Handlers /\ DOMAIN reg = Handlers
  /\ Visit(h)

\* The one request is the one InFlight names.
LEMMA TheOne ==
  ASSUME NEW h, Handlers = {h}
  PROVE  InFlight = h
BY DEF InFlight

\* The bucket begins empty, and no request has come.
LEMMA RInit ==
  ASSUME NEW h, Handlers = {h}, Init
  PROVE  RInv(h)
BY ClockAssumption DEF Init, BInit, RInv, Visit

\* The request's steps keep what it knows of the bucket.
LEMMA RStep ==
  ASSUME NEW h, Handlers = {h}, RInv(h), [Next]_vars
  PROVE  RInv(h)'
<1>1. CASE Tick
  BY <1>1, ClockAssumption DEF Tick, RInv, Visit, bucket, history
<1>2. CASE Observe
  BY <1>2 DEF Observe, RInv, Visit, bucket
<1>3. CASE Clock(h)
  BY <1>3, ClockAssumption DEF Clock, Goto, RInv, Visit, bucket, history
<1>4. CASE Fresh(h)
  BY <1>4, ClockAssumption DEF Fresh, Goto, RInv, Visit, history
<1>5. CASE Elapsed(h)
  BY <1>5 DEF Elapsed, Goto, RInv, Visit, bucket, history
<1>6. CASE Stamp(h)
  BY <1>6, ClockAssumption DEF Stamp, Goto, RInv, Visit, history
<1>7. CASE Refill(h)
  <2>1. Rate * elapsed[h] \in Int
    BY <1>7, RateAssumption DEF Refill, RInv, Visit
  <2>2. Cap(tokens + Rate * elapsed[h]) \in Int
    BY <2>1, RateAssumption DEF Cap, RInv
  <2> QED
    BY <1>7, <2>2 DEF Refill, Goto, RInv, Visit, bucket, history
<1>8. CASE Store(h)
  BY <1>8 DEF Store, Goto, RInv, Visit, history
<1>9. CASE Check(h)
  BY <1>9 DEF Check, Goto, RInv, Visit, bucket, history
<1>10. CASE Take(h)
  BY <1>10 DEF Take, Goto, RInv, Visit
<1>11. CASE UNCHANGED vars
  BY <1>11 DEF vars, RInv, Visit
<1> QED
  BY <1>1, <1>2, <1>3, <1>4, <1>5, <1>6, <1>7, <1>8, <1>9, <1>10, <1>11 DEF Next

\* Adding nothing, for the leaves that do no arithmetic.
LEMMA PlusZero == \A n \in Nat : n + 0 = n
OBVIOUS

\* Each step of the request is a request to the bucket or changes nothing of it:
\* creating the bucket and stamping it are the visits.
LEMMA BucketStep ==
  ASSUME NEW h, Handlers = {h}, RInv(h), RInv(h)', [Next]_vars
  PROVE  [Bucket!BNext]_(Bucket!bvars)
<1>0. InFlight = h
  BY TheOne
<1> DEFINE busy == {"refill", "store", "check", "take"}
<1>1. /\ pc[h] = "refill" => Decided = Cap(tokens + Rate * elapsed[h])
      /\ pc[h] = "store" => Decided = reg[h]
      /\ pc[h] \in {"check", "take"} => Decided = tokens
      /\ pc[h] \notin busy => Decided = 0
  BY <1>0, Zenon DEF Decided
<1>2. /\ pc'[h] = "refill" => Decided' = Cap(tokens' + Rate * elapsed'[h])
      /\ pc'[h] = "store" => Decided' = reg'[h]
      /\ pc'[h] \in {"check", "take"} => Decided' = tokens'
      /\ pc'[h] \notin busy => Decided' = 0
  BY <1>0, Zenon DEF Decided, Cap
<1>3. /\ BucketTokens = IF pc[h] \in busy
                        THEN Decided - IF Decided >= 1000 THEN 1000 ELSE 0 ELSE tokens
      /\ BucketAdmitted = admitted + IF Decided >= 1000 THEN 1 ELSE 0
  BY <1>0 DEF BucketTokens, BucketAdmitted, Admits
<1>4. /\ BucketTokens' = IF pc'[h] \in busy
                         THEN Decided' - IF Decided' >= 1000 THEN 1000 ELSE 0 ELSE tokens'
      /\ BucketAdmitted' = admitted' + IF Decided' >= 1000 THEN 1 ELSE 0
  BY <1>0 DEF BucketTokens, BucketAdmitted, Admits
<1>5. ASSUME pc[h] \notin busy PROVE BucketTokens = tokens /\ BucketAdmitted = admitted
  BY <1>1, <1>3, <1>5 DEF RInv
<1>6. ASSUME pc'[h] \notin busy
      PROVE  BucketTokens' = tokens' /\ BucketAdmitted' = admitted'
  <2>1. admitted' \in Nat
    BY DEF RInv
  <2>2. Decided' = 0
    BY <1>2, <1>6, Zenon
  <2>3. BucketTokens' = tokens'
    BY <1>4, <1>6, Zenon
  <2>4. admitted' + 0 = admitted'
    BY <2>1, PlusZero, Zenon
  <2>5. BucketAdmitted' = admitted' + 0
    BY <1>4, <2>2
  <2> QED
    BY <2>3, <2>4, <2>5, Zenon
<1>7. ASSUME UNCHANGED <<BucketTokens, last, BucketAdmitted, mark>>
      PROVE  [Bucket!BNext]_(Bucket!bvars)
  BY <1>7 DEF Bucket!bvars
<1>8. ASSUME UNCHANGED <<last, mark, admitted>>, pc[h] \in busy, pc'[h] \in busy,
             Decided' = Decided
      PROVE  [Bucket!BNext]_(Bucket!bvars)
  BY <1>3, <1>4, <1>7, <1>8
<1>9. CASE Tick \/ UNCHANGED vars
  <2>1. UNCHANGED <<tokens, last, admitted, mark, pc, elapsed, reg>>
    BY <1>9 DEF Tick, bucket, history, vars
  <2>2. Decided' = Decided
    BY <1>0, <2>1 DEF Decided, Cap
  <2>3. UNCHANGED <<BucketTokens, last, BucketAdmitted, mark>>
    BY <1>3, <1>4, <2>1, <2>2
  <2> QED
    BY <1>7, <2>3
<1>10. CASE Observe
  <2>1. /\ pc[h] = "clock" /\ pc' = pc /\ tokens' = tokens /\ admitted' = admitted
        /\ last' = last /\ mark' = [at |-> last, admitted |-> admitted]
    BY <1>10 DEF Observe, bucket
  <2>2. /\ BucketTokens = tokens /\ BucketAdmitted = admitted
        /\ BucketTokens' = tokens /\ BucketAdmitted' = admitted
    BY <1>5, <1>6, <2>1
  <2>3. Bucket!Mark
    BY <2>1, <2>2 DEF Bucket!Mark
  <2> QED
    BY <2>3 DEF Bucket!BNext
<1>11. CASE Clock(h) \/ Elapsed(h)
  <2>1. /\ pc[h] \in {"clock", "elapsed"} /\ pc'[h] \in {"fresh", "stamp"}
        /\ UNCHANGED <<tokens, last, admitted, mark>>
    BY <1>11 DEF Clock, Elapsed, Goto, bucket, history, RInv
  <2> QED
    BY <1>5, <1>6, <1>7, <2>1
\* a visit: what the bucket holds when a request reads it at t
<1>12. ASSUME NEW t \in 1..MaxMs, NEW added \in Int, t >= last, last' = t, mark' = mark,
              added = Rate * (IF last = 0 THEN 0 ELSE t - last),
              BucketTokens = tokens, BucketAdmitted = admitted,
              \/ /\ Cap(tokens + added) < 1000
                 /\ BucketTokens' = Cap(tokens + added) /\ BucketAdmitted' = admitted
              \/ /\ Cap(tokens + added) >= 1000
                 /\ BucketTokens' = Cap(tokens + added) - 1000
                 /\ BucketAdmitted' = admitted + 1
       PROVE  [Bucket!BNext]_(Bucket!bvars)
  <2>1. Bucket!Request(t)
    BY <1>12 DEF Bucket!Request, Bucket!Cap, Cap
  <2> QED
    BY <1>12, <2>1 DEF Bucket!BNext
<1>13. CASE Fresh(h)
  <2>1. /\ pc[h] = "fresh" /\ pc'[h] = "elapsed"
        /\ last' = IF last = 0 THEN now_ms[h] ELSE last
        /\ UNCHANGED <<tokens, admitted, mark>>
    BY <1>13 DEF Fresh, Goto, history, RInv
  <2>2. CASE last # 0
    BY <1>5, <1>6, <1>7, <2>1, <2>2
  <2>3. CASE last = 0
    <3>1. tokens = 0 /\ now_ms[h] \in 1..MaxMs /\ last' = now_ms[h]
      BY <2>1, <2>3, ClockAssumption DEF RInv, Visit
    <3>2. Rate * 0 = 0 /\ Cap(tokens + 0) = 0
      BY <3>1, RateAssumption DEF Cap
    <3> QED
      BY <1>5, <1>6, <1>12, <2>1, <2>3, <3>1, <3>2, ClockAssumption
  <2> QED
    BY <2>2, <2>3
<1>14. CASE Stamp(h)
  <2>1. /\ pc[h] = "stamp" /\ pc'[h] = "refill" /\ last' = now_ms[h]
        /\ UNCHANGED <<tokens, admitted, mark, elapsed>>
    BY <1>14 DEF Stamp, Goto, history, RInv
  <2>2. /\ last # 0 /\ now_ms[h] \in 1..MaxMs /\ now_ms[h] >= last
        /\ elapsed[h] = now_ms[h] - last /\ elapsed[h] \in Int
        /\ tokens \in Int /\ admitted \in Nat
    BY <2>1, ClockAssumption DEF RInv, Visit
  <2> DEFINE added == Rate * elapsed[h]
  <2>3. added \in Int /\ added = Rate * (IF last = 0 THEN 0 ELSE now_ms[h] - last)
    BY <2>2, RateAssumption
  <2>4. Decided' = Cap(tokens + added)
    BY <1>2, <2>1
  <2>5. Cap(tokens + added) \in Int
    BY <2>2, <2>3, RateAssumption DEF Cap
  <2> HIDE DEF added
  <2>6. \/ /\ Cap(tokens + added) < 1000
           /\ BucketTokens' = Cap(tokens + added) /\ BucketAdmitted' = admitted
        \/ /\ Cap(tokens + added) >= 1000
           /\ BucketTokens' = Cap(tokens + added) - 1000
           /\ BucketAdmitted' = admitted + 1
    BY <1>4, <2>1, <2>2, <2>4, <2>5
  <2>7. BucketTokens = tokens /\ BucketAdmitted = admitted
    BY <1>5, <2>1
  <2> QED
    BY <1>12, <2>1, <2>2, <2>3, <2>6, <2>7
<1>15. CASE Refill(h)
  <2>1. /\ pc[h] = "refill" /\ pc'[h] = "store"
        /\ reg'[h] = Cap(tokens + Rate * elapsed[h])
        /\ UNCHANGED <<last, mark, admitted>>
    BY <1>15 DEF Refill, Goto, bucket, history, RInv
  <2> QED
    BY <1>1, <1>2, <1>8, <2>1
<1>16. CASE Store(h)
  <2>1. /\ pc[h] = "store" /\ pc'[h] = "check" /\ tokens' = reg[h]
        /\ UNCHANGED <<last, mark, admitted>>
    BY <1>16 DEF Store, Goto, history, RInv
  <2> QED
    BY <1>1, <1>2, <1>8, <2>1
<1>17. CASE Check(h)
  <2>1. /\ pc[h] = "check" /\ UNCHANGED <<tokens, last, mark, admitted>>
        /\ reg[h] = tokens /\ tokens \in Int /\ admitted \in Nat
        /\ pc'[h] = IF tokens < 1000 THEN "clock" ELSE "take"
    BY <1>17 DEF Check, Goto, bucket, history, RInv, Visit
  <2>2. CASE tokens < 1000
    <3>1. BucketTokens = tokens /\ BucketAdmitted = admitted
      BY <1>1, <1>3, <2>1, <2>2
    <3> QED
      BY <1>6, <1>7, <2>1, <2>2, <3>1
  <2>3. CASE tokens >= 1000
    BY <1>1, <1>2, <1>8, <2>1, <2>3
  <2> QED
    BY <2>1, <2>2, <2>3
<1>18. CASE Take(h)
  <2>1. /\ pc[h] = "take" /\ pc'[h] = "clock" /\ tokens' = tokens - 1000
        /\ admitted' = admitted + 1 /\ UNCHANGED <<last, mark>>
        /\ tokens \in Int /\ tokens >= 1000
    BY <1>18 DEF Take, Goto, RInv, Visit
  <2>2. BucketTokens = tokens - 1000 /\ BucketAdmitted = admitted + 1
    BY <1>1, <1>3, <2>1
  <2> QED
    BY <1>6, <1>7, <2>1, <2>2
<1> QED
  BY <1>9, <1>10, <1>11, <1>13, <1>14, <1>15, <1>16, <1>17, <1>18 DEF Next

\* When a key's requests do not overlap, the code admits exactly those requests
\* that the bucket admits (serve.cpp 852-858).
THEOREM ImplementsBucket ==
  ASSUME NEW CONSTANT h, Handlers = {h}
  PROVE  Spec => BucketRefinement
<1>1. RInv(h) /\ [Next]_vars => RInv(h)'
  BY RStep
<1>2. Init => RInv(h)
  BY RInit
<1>3. Init => Bucket!BInit
  <2> SUFFICES ASSUME Init PROVE Bucket!BInit
    OBVIOUS
  <2>1. pc[InFlight] = "clock"
    BY TheOne DEF Init
  <2>2. Decided = 0
    BY <2>1, Zenon DEF Decided
  <2>3. BucketTokens = 0 /\ BucketAdmitted = 0
    BY <2>1, <2>2 DEF Init, BInit, BucketTokens, BucketAdmitted, Admits
  <2> QED
    BY <2>3 DEF Init, BInit, Start, Bucket!BInit, Bucket!Start
<1>4. RInv(h) /\ RInv(h)' /\ [Next]_vars => [Bucket!BNext]_(Bucket!bvars)
  BY BucketStep
<1> QED
  BY <1>1, <1>2, <1>3, <1>4, PTL DEF Spec, BucketRefinement, Bucket!BSpec

-----------------------------------------------------------------------------
(* The bound of the code, one request of a key at a time.                  *)

\* What the bucket will hold when the request in flight has stored its refill.
Held(h) == IF pc[h] = "refill" THEN Cap(tokens + Rate * elapsed[h])
           ELSE IF pc[h] = "store" THEN reg[h] ELSE tokens

\* The account of the bucket, with what is still to be stored.
Account(h) ==
  /\ Held(h) \in 0..(1000 * Burst)
  /\ mark.at \in 0..last /\ mark.admitted \in 0..admitted
  /\ 1000 * (admitted - mark.admitted) + Held(h) <= 1000 * Burst + Rate * (last - mark.at)

\* Over the time from l to k no more is added to the bucket than the rate gives.
LEMMA Balance ==
  ASSUME NEW n \in Int, NEW x \in Int, NEW y \in Int,
         NEW at \in Int, NEW l \in Int, NEW k \in Int, at <= l, l <= k,
         y <= x + Rate * (k - l), n + x <= 1000 * Burst + Rate * (l - at)
  PROVE  n + y <= 1000 * Burst + Rate * (k - at)
<1>1. /\ Rate * (l - at) + Rate * (k - l) = Rate * (k - at)
      /\ Rate * (l - at) \in Int /\ Rate * (k - l) \in Int
  BY FillAdds, RateAssumption
<1> DEFINE f == Rate * (l - at)
           g == Rate * (k - l)
           c == 1000 * Burst
<1>2. f \in Int /\ g \in Int /\ c \in Int /\ Rate * (k - at) = f + g
  BY <1>1, RateAssumption
<1>3. y <= x + g /\ n + x <= c + f
  OBVIOUS
<1> HIDE DEF f, g, c
<1>4. n + y <= c + (f + g)
  BY <1>2, <1>3
<1> QED
  BY <1>2, <1>4 DEF c

\* The steps of the request keep the account: stamping the bucket is when the
\* rate pays for the time since the last request.
LEMMA AccountStep ==
  ASSUME NEW h, Handlers = {h}, RInv(h), Account(h), [Next]_vars
  PROVE  Account(h)'
<1> DEFINE n == 1000 * (admitted - mark.admitted)
<1>1. /\ last \in Nat /\ admitted \in Nat /\ tokens \in Int
      /\ Held(h) \in Nat /\ Held(h) <= 1000 * Burst
      /\ mark.at \in Nat /\ mark.at <= last
      /\ mark.admitted \in Nat /\ mark.admitted <= admitted
      /\ n + Held(h) <= 1000 * Burst + Rate * (last - mark.at)
  BY RateAssumption, ClockAssumption DEF RInv, Account
<1>2. ASSUME Held(h)' = Held(h), UNCHANGED <<last, admitted, mark>> PROVE Account(h)'
  BY <1>2 DEF Account
<1>3. CASE Tick \/ UNCHANGED vars
  <2>1. Held(h)' = Held(h) /\ UNCHANGED <<last, admitted, mark>>
    BY <1>3 DEF Tick, bucket, history, vars, Held, Cap
  <2> QED
    BY <1>2, <2>1
<1>4. CASE Clock(h) \/ Elapsed(h) \/ Check(h)
  <2>1. /\ pc[h] \in {"clock", "elapsed", "check"}
        /\ pc'[h] \in {"clock", "fresh", "stamp", "take"}
        /\ UNCHANGED <<tokens, last, admitted, mark>>
    BY <1>4 DEF Clock, Elapsed, Check, Goto, bucket, history, RInv
  <2>2. Held(h)' = Held(h)
    BY <2>1 DEF Held
  <2> QED
    BY <1>2, <2>1, <2>2
<1>5. CASE Refill(h)
  <2>1. /\ pc[h] = "refill" /\ pc'[h] = "store"
        /\ reg'[h] = Cap(tokens + Rate * elapsed[h])
        /\ UNCHANGED <<tokens, last, admitted, mark>>
    BY <1>5 DEF Refill, Goto, bucket, history, RInv
  <2>2. Held(h)' = Held(h)
    BY <2>1 DEF Held
  <2> QED
    BY <1>2, <2>1, <2>2
<1>6. CASE Store(h)
  <2>1. /\ pc[h] = "store" /\ pc'[h] = "check" /\ tokens' = reg[h]
        /\ UNCHANGED <<last, admitted, mark>>
    BY <1>6 DEF Store, Goto, history, RInv
  <2>2. Held(h)' = Held(h)
    BY <2>1 DEF Held
  <2> QED
    BY <1>2, <2>1, <2>2
\* more time and as much in the bucket as the rate gives for it
<1>7. ASSUME NEW k \in Nat, last' = k, last <= k, UNCHANGED <<admitted, mark>>,
             Held(h)' \in 0..(1000 * Burst), Held(h)' <= Held(h) + Rate * (k - last)
      PROVE  Account(h)'
  <2>1. Held(h)' \in Int /\ n \in Int
    BY <1>1, <1>7, RateAssumption
  <2>2. n + Held(h)' <= 1000 * Burst + Rate * (k - mark.at)
    <3> DEFINE y == Held(h)'
    <3>1. y \in Int /\ y <= Held(h) + Rate * (k - last)
      BY <1>7, <2>1
    <3> HIDE DEF y, n
    <3>2. n + y <= 1000 * Burst + Rate * (k - mark.at)
      BY <1>1, <1>7, <2>1, <3>1, Balance
    <3> QED
      BY <3>2 DEF y
  <2>3. mark'.at \in 0..last' /\ mark'.admitted \in 0..admitted'
    BY <1>1, <1>7
  <2> QED
    BY <1>7, <2>2, <2>3 DEF Account
<1>8. CASE Fresh(h)
  <2> DEFINE k == IF last = 0 THEN now_ms[h] ELSE last
  <2>1. /\ pc[h] = "fresh" /\ pc'[h] = "elapsed" /\ last' = k
        /\ UNCHANGED <<tokens, admitted, mark>>
    BY <1>8 DEF Fresh, Goto, history, RInv
  <2>2. k \in Nat /\ last <= k
    BY <1>1, <2>1, ClockAssumption DEF RInv, Visit
  <2>3. Held(h)' = Held(h)
    BY <2>1 DEF Held
  <2>4. Rate * (k - last) \in Nat
    BY <1>1, <2>2, RateAssumption, FillAdds
  <2>5. Held(h)' \in 0..(1000 * Burst) /\ Held(h)' <= Held(h) + Rate * (k - last)
    <3> DEFINE g == Rate * (k - last)
    <3>1. g \in Nat
      BY <2>4
    <3> HIDE DEF g
    <3>2. Held(h) <= Held(h) + g
      BY <1>1, <3>1
    <3>3. Held(h) \in 0..(1000 * Burst)
      BY DEF Account
    <3> QED
      BY <2>3, <3>2, <3>3 DEF g
  <2> HIDE DEF k
  <2> QED
    BY <1>7, <2>1, <2>2, <2>5
<1>9. CASE Stamp(h)
  <2> DEFINE k == now_ms[h]
             g == Rate * (k - last)
  <2>1. /\ pc[h] = "stamp" /\ pc'[h] = "refill" /\ last' = k
        /\ UNCHANGED <<tokens, admitted, mark, elapsed>>
    BY <1>9 DEF Stamp, Goto, history, RInv
  <2>2. k \in Nat /\ last <= k /\ elapsed[h] = k - last
    BY <1>1, <2>1, ClockAssumption DEF RInv, Visit
  <2>3. Held(h) = tokens /\ Held(h)' = Cap(tokens + g)
    BY <2>1, <2>2 DEF Held, Cap
  <2>4. g \in Nat
    BY <1>1, <2>2, RateAssumption, FillAdds
  <2> HIDE DEF g
  <2>5. tokens + g \in Nat
    BY <1>1, <2>3, <2>4
  <2>6. Held(h)' \in 0..(1000 * Burst) /\ Held(h)' <= Held(h) + g
    BY <2>3, <2>5, CapBounds
  <2> HIDE DEF k
  <2> QED
    BY <1>7, <2>1, <2>2, <2>6 DEF g
<1>10. CASE Take(h)
  <2>1. /\ pc[h] = "take" /\ pc'[h] = "clock" /\ tokens' = tokens - 1000
        /\ admitted' = admitted + 1 /\ UNCHANGED <<last, mark>> /\ tokens >= 1000
    BY <1>10 DEF Take, Goto, RInv, Visit
  <2>2. Held(h) = tokens /\ Held(h)' = tokens - 1000
    BY <2>1 DEF Held
  <2>3. Held(h)' \in 0..(1000 * Burst)
    BY <1>1, <2>1, <2>2, RateAssumption
  <2>4. 1000 * (admitted' - mark.admitted) + Held(h)' = n + Held(h)
    BY <1>1, <2>1, <2>2
  <2>5. mark'.at \in 0..last' /\ mark'.admitted \in 0..admitted'
    BY <1>1, <2>1
  <2> QED
    BY <1>1, <2>1, <2>3, <2>4, <2>5 DEF Account
<1>11. CASE Observe
  <2>1. /\ pc[h] = "clock" /\ UNCHANGED <<pc, tokens, last, admitted, reg, elapsed>>
        /\ mark' = [at |-> last, admitted |-> admitted]
    BY <1>11 DEF Observe, bucket
  <2>2. Held(h)' = Held(h)
    BY <2>1 DEF Held
  <2>3. Rate * (last' - mark'.at) = 0 /\ 1000 * (admitted' - mark'.admitted) = 0
    BY <1>1, <2>1, RateAssumption
  <2>4. mark'.at \in 0..last' /\ mark'.admitted \in 0..admitted'
    BY <1>1, <2>1
  <2> QED
    BY <1>1, <2>2, <2>3, <2>4, RateAssumption DEF Account
<1> QED
  BY <1>3, <1>4, <1>5, <1>6, <1>8, <1>9, <1>10, <1>11 DEF Next

\* When a key's requests do not overlap, the code lets through at most --burst
\* requests and --rate per second between any two of them (serve.cpp 849-857).
THEOREM CodeBound ==
  ASSUME NEW CONSTANT h, Handlers = {h}
  PROVE  Spec => []RateBound
<1>1. RInv(h) /\ Account(h) /\ [Next]_vars => RInv(h)' /\ Account(h)'
  BY RStep, AccountStep
<1>2. Init => RInv(h) /\ Account(h)
  <2> SUFFICES ASSUME Init PROVE Account(h)
    BY RInit
  <2>1. /\ Held(h) = 0 /\ last = 0 /\ admitted = 0 /\ mark = Start
    BY DEF Init, BInit, Held
  <2>2. Rate * (0 - 0) = 0
    BY RateAssumption
  <2> QED
    BY <2>1, <2>2, RateAssumption DEF Account, Start
<1>3. RInv(h) /\ Account(h) => RateBound
  <2> SUFFICES ASSUME RInv(h), Account(h) PROVE RateBound
    OBVIOUS
  <2> DEFINE f == Rate * (last - mark.at)
             n == 1000 * (admitted - mark.admitted)
  <2>1. f \in Int /\ n \in Int /\ Held(h) \in Nat
    BY RateAssumption, ClockAssumption DEF RInv, Account
  <2>2. n + Held(h) <= 1000 * Burst + f
    BY DEF Account
  <2> HIDE DEF f, n
  <2>3. n <= 1000 * Burst + f
    BY <2>1, <2>2, RateAssumption
  <2> QED
    BY <2>3 DEF RateBound, f, n
<1> QED
  BY <1>1, <1>2, <1>3, PTL DEF Spec
=============================================================================
