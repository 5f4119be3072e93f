------------------------------ MODULE RateWindow ------------------------------
(***************************************************************************)
(* The window limiter of NWX_RATELIMIT="LIMIT,WINDOW_SECONDS", which both  *)
(* prediction routes of nwx_serve pass first: a count and a reset time per *)
(* Authorization value, under rl_mtx.  The clock is read before the mutex  *)
(* is taken, so that a request may enter with the time of a moment ago.    *)
(* Handlers are the requests in flight at a time, each a slot that is used *)
(* again after its answer.                                                 *)
(***************************************************************************)
EXTENDS Integers, Sequences, FiniteSets

CONSTANTS Handlers,
          Keys,        \* the values of the Authorization header
          RL_LIMIT,
          RL_WINDOW,   \* in seconds
          MaxTime,     \* bound: the last second of the clock
          MaxStale,    \* bound: seconds between reading the clock and rl_mtx
          MaxCount     \* bound: requests of a key in a window

ASSUME LimitAssumption == RL_LIMIT \in Nat \ {0} /\ RL_WINDOW \in Nat \ {0}
ASSUME TimeAssumption == MaxTime \in Nat \ {0} /\ MaxStale \in Nat /\ MaxCount \in Nat

VARIABLES
  clock,
  rl_counts,  \* per key: how many requests came since the reset, next reset
  pc, key,
  now,        \* the clock as each request has read it
  remaining,  \* RateLimit-Remaining of the last answer of each slot
  window,     \* history: the window of that answer, by its reset time
  told,       \* history: the times that the Retry-After of a key has announced
  passed      \* history: the requests of each key that were let through, when
              \* and in which window

history == <<window, told, passed>>
vars == <<clock, rl_counts, pc, key, now, remaining, window, told, passed>>

Times == 1..MaxTime

Init == /\ clock = 1
        /\ rl_counts = [k \in Keys |-> [first |-> 0, second |-> 0]]
        /\ pc = [h \in Handlers |-> "idle"]
        /\ key \in [Handlers -> Keys]
        /\ now = [h \in Handlers |-> 0]
        /\ remaining = [h \in Handlers |-> 0]
        /\ window = [h \in Handlers |-> 0]
        /\ told = [k \in Keys |-> {}]
        /\ passed = [k \in Keys |-> <<>>]

Tick == /\ clock < MaxTime
        /\ \A h \in Handlers : pc[h] = "enter" => clock - now[h] < MaxStale
        /\ clock' = clock + 1
        /\ UNCHANGED <<rl_counts, pc, key, now, remaining, history>>

\* auto now = time(nullptr), by a request for either prediction route.
ReadClock(h) ==
  /\ pc[h] \in {"idle", "passed", "refused"}
  /\ \E k \in Keys : /\ rl_counts[k].second < clock \/ rl_counts[k].first < MaxCount
                     /\ key' = [key EXCEPT ![h] = k]
  /\ now' = [now EXCEPT ![h] = clock]
  /\ pc' = [pc EXCEPT ![h] = "enter"]
  /\ remaining' = [remaining EXCEPT ![h] = 0]
  /\ window' = [window EXCEPT ![h] = 0]
  /\ UNCHANGED <<clock, rl_counts, told, passed>>

\* Slip: the window begins anew with every request that finds it full.
OpenedByFull(e, t) ==
  IF e.second < t \/ e.first >= RL_LIMIT
  THEN [first |-> 0, second |-> t + RL_WINDOW] ELSE e

\* Slip: a new window keeps the count of the old one.
OpenedKeepsCount(e, t) ==
  IF e.second < t THEN [first |-> e.first, second |-> t + RL_WINDOW] ELSE e

\* if (ent.second < now) ent = {0, now + RL_WINDOW}
Opened(e, t) == IF e.second < t THEN [first |-> 0, second |-> t + RL_WINDOW] ELSE e

\* Slip: what remains is not clamped at 0, which the branch compares with.
LeftUnclamped(n) == RL_LIMIT - n

\* remaining = ent.first <= RL_LIMIT ? RL_LIMIT - ent.first : 0
Left(n) == IF n <= RL_LIMIT THEN RL_LIMIT - n ELSE 0

\* Slip: auto ent for auto& ent, so that the map is never written.
EnterCopy(h) ==
  LET k == key[h]
      e == Opened(rl_counts[k], now[h])
      n == e.first + 1
  IN  /\ pc[h] = "enter"
      /\ remaining' = [remaining EXCEPT ![h] = Left(n)]
      /\ window' = [window EXCEPT ![h] = e.second]
      /\ pc' = [pc EXCEPT ![h] = "passed"]
      /\ passed' = [passed EXCEPT ![k] = Append(@, [at |-> clock, ends |-> e.second])]
      /\ UNCHANGED <<clock, rl_counts, key, now, told>>

\* The block under rl_mtx and the branch after it: 429 with Retry-After when
\* nothing remains, the route's own work otherwise.
Enter(h) ==
  LET k == key[h]
      e == Opened(rl_counts[k], now[h])
      n == e.first + 1
  IN  /\ pc[h] = "enter"
      /\ rl_counts' = [rl_counts EXCEPT ![k] = [first |-> n, second |-> e.second]]
      /\ remaining' = [remaining EXCEPT ![h] = Left(n)]
      /\ window' = [window EXCEPT ![h] = e.second]
      /\ IF Left(n) = 0
         THEN /\ pc' = [pc EXCEPT ![h] = "refused"]
              /\ told' = [told EXCEPT ![k] = @ \cup {e.second}]
              /\ UNCHANGED passed
         ELSE /\ pc' = [pc EXCEPT ![h] = "passed"]
              /\ passed' = [passed EXCEPT ![k] = Append(@, [at |-> clock, ends |-> e.second])]
              /\ UNCHANGED told
      /\ UNCHANGED <<clock, key, now>>

\* The bound of the clock is reached.
TimeUp == clock = MaxTime /\ UNCHANGED vars

Next == Tick \/ TimeUp \/ \E h \in Handlers : ReadClock(h) \/ Enter(h)

Spec == Init /\ [][Next]_vars

-----------------------------------------------------------------------------
TypeOK ==
  /\ clock \in Times
  /\ rl_counts \in [Keys -> [first : Nat, second : 0..(MaxTime + RL_WINDOW)]]
  /\ pc \in [Handlers -> {"idle", "enter", "passed", "refused"}]
  /\ key \in [Handlers -> Keys]
  /\ now \in [Handlers -> 0..MaxTime]
  /\ remaining \in [Handlers -> 0..(RL_LIMIT - 1)]
  /\ window \in [Handlers -> 0..(MaxTime + RL_WINDOW)]
  /\ told \in [Keys -> SUBSET (0..(MaxTime + RL_WINDOW))]
  /\ passed \in [Keys -> Seq([at : Times, ends : 0..(MaxTime + RL_WINDOW)])]

PassedIn(k, S) == Cardinality({i \in DOMAIN passed[k] : passed[k][i].at \in S})

\* However requests and windows fall, RL_WINDOW + 2 seconds of the clock never
\* let through more than two windows' quotas; the staleness of the clocks that
\* the requests have read shortens the span.
SlidingBound ==
  \A k \in Keys, s \in Times :
    PassedIn(k, s..(s + RL_WINDOW + 1 - MaxStale)) <= 2 * (RL_LIMIT - 1)

\* No two requests of a key are told the same RateLimit-Remaining in a window,
\* unless it is 0: each of them took a slot of its own.
OwnSlot ==
  \A g, h \in Handlers :
    g # h /\ key[g] = key[h] /\ pc[g] = "passed" /\ pc[h] = "passed"
      /\ window[g] = window[h] => remaining[g] # remaining[h]

\* How many requests of k were let through later than a.
PassedAfter(k, a) == Cardinality({i \in DOMAIN passed[k] : passed[k][i].at > a})

\* What a Retry-After is worth.  A request later than a time its key was told to
\* retry at, however long ago, is refused only when others of its key have used up
\* a whole quota since: each window gives its whole quota anew (serve.cpp 781-785).
\* A request at the very second announced is too early: by ent.second < now the old
\* window is still open in its last second, so that it is refused again, to retry
\* after 0 seconds, unless another request has opened a later window since.  That is
\* not what the `Retry-After` of CHANGELOG.md:134 tells a client.
RetryHonoured ==
  [][\A h \in Handlers : pc[h] = "enter" =>
       \A a \in told[key[h]] :
         /\ pc'[h] = "refused" /\ now[h] > a => PassedAfter(key[h], a) >= RL_LIMIT - 1
         /\ pc'[h] = "passed" /\ now[h] = a => window'[h] > a + RL_WINDOW]_pc
=============================================================================
