------------------------------ MODULE RateLimit ------------------------------
(***************************************************************************)
(* The per-key token bucket of POST /predict as the handlers of nwx_serve  *)
(* run it: no lock protects the map of buckets, so that every read and     *)
(* write of a bucket is a step of its own.  One key; Handlers are the      *)
(* requests of it that may be in flight together, a slot being used again  *)
(* once its request is answered.                                           *)
(***************************************************************************)
EXTENDS TokenBucket

CONSTANTS Handlers,   \* requests of the key in flight at a time
          MaxAdmitted \* bound: requests admitted in a behaviour

ASSUME AdmittedAssumption == MaxAdmitted \in Nat

VARIABLES
  now,        \* the steady clock, in milliseconds
  pc,
  now_ms,     \* the clock as each request has read it
  elapsed,
  reg         \* bkt.tokens as each request has last computed it

bucket == <<tokens, last>>
history == <<admitted, mark>>
vars == <<now, tokens, last, admitted, mark, pc, now_ms, elapsed, reg>>

Init == /\ now = 1
        /\ BInit
        /\ pc = [h \in Handlers |-> "clock"]
        /\ now_ms = [h \in Handlers |-> 0]
        /\ elapsed = [h \in Handlers |-> 0]
        /\ reg = [h \in Handlers |-> 0]

Goto(h, l) == pc' = [pc EXCEPT ![h] = l]

Tick == /\ now < MaxMs
        /\ now' = now + 1
        /\ UNCHANGED <<bucket, history, pc, now_ms, elapsed, reg>>

\* The observer of TokenBucket, between requests.
Observe == /\ \A h \in Handlers : pc[h] = "clock"
           /\ mark' = [at |-> last, admitted |-> admitted]
           /\ UNCHANGED <<now, bucket, admitted, pc, now_ms, elapsed, reg>>

\* now_ms = clock_t::now()
Clock(h) == /\ pc[h] = "clock" /\ admitted < MaxAdmitted
            /\ now_ms' = [now_ms EXCEPT ![h] = now]
            /\ Goto(h, "fresh")
            /\ UNCHANGED <<now, bucket, history, elapsed, reg>>

\* if (bkt.last_ms == 0) bkt.last_ms = now_ms
Fresh(h) == /\ pc[h] = "fresh"
            /\ last' = IF last = 0 THEN now_ms[h] ELSE last
            /\ Goto(h, "elapsed")
            /\ UNCHANGED <<now, tokens, history, now_ms, elapsed, reg>>

\* elapsed = now_ms - bkt.last_ms
Elapsed(h) == /\ pc[h] = "elapsed"
              /\ elapsed' = [elapsed EXCEPT ![h] = now_ms[h] - last]
              /\ Goto(h, "stamp")
              /\ UNCHANGED <<now, bucket, history, now_ms, reg>>

\* Slip: last_ms is left at the first request of the key.
StampForgotten(h) == /\ pc[h] = "stamp"
                     /\ Goto(h, "refill")
                     /\ UNCHANGED <<now, bucket, history, now_ms, elapsed, reg>>

\* bkt.last_ms = now_ms
Stamp(h) == /\ pc[h] = "stamp"
            /\ last' = now_ms[h]
            /\ Goto(h, "refill")
            /\ UNCHANGED <<now, tokens, history, now_ms, elapsed, reg>>

\* Slip: the bucket has no size.
RefillUncapped(h) ==
  /\ pc[h] = "refill"
  /\ reg' = [reg EXCEPT ![h] = tokens + Rate * elapsed[h]]
  /\ Goto(h, "store")
  /\ UNCHANGED <<now, bucket, history, now_ms, elapsed>>

\* min(burst, bkt.tokens + rate * elapsed)
Refill(h) == /\ pc[h] = "refill"
             /\ reg' = [reg EXCEPT ![h] = Cap(tokens + Rate * elapsed[h])]
             /\ Goto(h, "store")
             /\ UNCHANGED <<now, bucket, history, now_ms, elapsed>>

\* bkt.tokens = ...
Store(h) == /\ pc[h] = "store"
            /\ tokens' = reg[h]
            /\ Goto(h, "check")
            /\ UNCHANGED <<now, last, history, now_ms, elapsed, reg>>

\* if (bkt.tokens < 1.0) 429.  The build may read the bucket again or keep what
\* it has just stored in it.
Check(h) == /\ pc[h] = "check"
            /\ \E x \in {tokens, reg[h]} :
                 /\ reg' = [reg EXCEPT ![h] = x]
                 /\ Goto(h, IF x < 1000 THEN "clock" ELSE "take")
            /\ UNCHANGED <<now, bucket, history, now_ms, elapsed>>

\* bkt.tokens -= 1.0, from the bucket or from what was read of it.
Take(h) == /\ pc[h] = "take"
           /\ \E x \in {tokens, reg[h]} : tokens' = x - 1000
           /\ admitted' = admitted + 1
           /\ Goto(h, "clock")
           /\ UNCHANGED <<now, last, mark, now_ms, elapsed, reg>>

Next == \/ Tick \/ Observe
        \/ \E h \in Handlers : \/ Clock(h) \/ Fresh(h) \/ Elapsed(h) \/ Stamp(h)
                               \/ Refill(h) \/ Store(h) \/ Check(h) \/ Take(h)

Spec == Init /\ [][Next]_vars

-----------------------------------------------------------------------------
\* From any request on, a key is let through at most --burst times and --rate
\* times per second since that request (SERVER.md:13).
KeyRateBound ==
  1000 * (admitted - mark.admitted) <= 1000 * Burst + Rate * (now - mark.at)

(* With one request of a key in flight at a time the code is the bucket of  *)
(* TokenBucket: a request visits it when it stamps the bucket, or when it   *)
(* creates it, and what it still has to store is already decided.           *)
InFlight == CHOOSE h \in Handlers : TRUE

Decided ==
  CASE pc[InFlight] = "refill" -> Cap(tokens + Rate * elapsed[InFlight])
    [] pc[InFlight] = "store"  -> reg[InFlight]
    [] pc[InFlight] = "check"  -> tokens
    [] pc[InFlight] = "take"   -> tokens
    [] OTHER                   -> 0

Admits == Decided >= 1000

BucketTokens ==
  IF pc[InFlight] \in {"refill", "store", "check", "take"}
  THEN Decided - IF Admits THEN 1000 ELSE 0
  ELSE tokens

BucketAdmitted == admitted + IF Admits THEN 1 ELSE 0

Bucket == INSTANCE TokenBucket
            WITH tokens <- BucketTokens, admitted <- BucketAdmitted

\* A request is admitted exactly when the atomic bucket admits it.
BucketRefinement == Bucket!BSpec
=============================================================================
