---------------------------- MODULE RateWindowProof ----------------------------
(***************************************************************************)
(* The window limiter, for any limit, window and number of requests and    *)
(* however stale the clocks they have read: its types, the slots that      *)
(* requests take in a window, and the promise of Retry-After.              *)
(***************************************************************************)
EXTENDS RateWindow, FiniteSetTheorems, TLAPS

\* A request that was let through has counted in the window it names, and a
\* window that is over is never entered again.
Slots ==
  \A h \in Handlers :
    pc[h] = "passed" =>
      LET e == rl_counts[key[h]]
      IN  /\ window[h] <= e.second
          /\ window[h] = e.second => RL_LIMIT - e.first <= remaining[h]

WInv == TypeOK /\ Slots /\ OwnSlot

\* No request has come yet.
LEMMA WindowInit == Init => WInv
BY LimitAssumption, TimeAssumption
   DEF Init, WInv, TypeOK, Slots, OwnSlot, Times

\* The window a request counts in: the current one, or a later one with no count.
LEMMA OpenedType ==
  ASSUME NEW e \in [first : Nat, second : 0..(MaxTime + RL_WINDOW)],
         NEW t \in 0..MaxTime
  PROVE  /\ Opened(e, t) \in [first : Nat, second : 0..(MaxTime + RL_WINDOW)]
         /\ e.second <= Opened(e, t).second
         /\ Opened(e, t).second = e.second => Opened(e, t) = e
         /\ e.second < t => Opened(e, t).first = 0
BY LimitAssumption, TimeAssumption DEF Opened

\* What remains after a request has counted.
LEMMA LeftType ==
  ASSUME NEW n \in Nat \ {0}
  PROVE  /\ Left(n) \in 0..(RL_LIMIT - 1)
         /\ Left(n) # 0 => Left(n) = RL_LIMIT - n
BY LimitAssumption DEF Left

\* What a sequence over a set holds is in the set.
LEMMA ElementOf ==
  ASSUME NEW T, NEW s \in Seq(T), NEW i \in DOMAIN s
  PROVE  s[i] \in T
OBVIOUS

\* A sequence over a set stays one when an element of the set is appended.
LEMMA AppendType ==
  ASSUME NEW T, NEW s \in Seq(T), NEW x \in T
  PROVE  Append(s, x) \in Seq(T)
OBVIOUS

\* The block under rl_mtx and its branch.
LEMMA EnterStep ==
  ASSUME WInv, NEW h \in Handlers, Enter(h)
  PROVE  WInv'
<1> DEFINE k == key[h]
           e == Opened(rl_counts[k], now[h])
           n == e.first + 1
<1>1. /\ TypeOK /\ Slots /\ OwnSlot
      /\ k \in Keys /\ now[h] \in 0..MaxTime
      /\ rl_counts[k] \in [first : Nat, second : 0..(MaxTime + RL_WINDOW)]
  BY DEF WInv, TypeOK
<1>2. /\ e \in [first : Nat, second : 0..(MaxTime + RL_WINDOW)]
      /\ rl_counts[k].second <= e.second
      /\ e.second = rl_counts[k].second => e = rl_counts[k]
  BY <1>1, OpenedType
<1>3. n \in Nat \ {0} /\ Left(n) \in 0..(RL_LIMIT - 1)
      /\ (Left(n) # 0 => Left(n) = RL_LIMIT - n)
  BY <1>2, LeftType
<1>4. /\ pc[h] = "enter"
      /\ rl_counts' = [rl_counts EXCEPT ![k] = [first |-> n, second |-> e.second]]
      /\ remaining' = [remaining EXCEPT ![h] = Left(n)]
      /\ window' = [window EXCEPT ![h] = e.second]
      /\ \/ /\ Left(n) = 0 /\ pc' = [pc EXCEPT ![h] = "refused"]
            /\ told' = [told EXCEPT ![k] = @ \cup {e.second}] /\ passed' = passed
         \/ /\ Left(n) # 0 /\ pc' = [pc EXCEPT ![h] = "passed"]
            /\ told' = told
            /\ passed' = [passed EXCEPT ![k] = Append(@, [at |-> clock, ends |-> e.second])]
      /\ clock' = clock /\ key' = key /\ now' = now
  BY DEF Enter
<1> HIDE DEF k, e, n
<1>5. TypeOK'
  <2>1. rl_counts' \in [Keys -> [first : Nat, second : 0..(MaxTime + RL_WINDOW)]]
    <3>1. [first |-> n, second |-> e.second]
            \in [first : Nat, second : 0..(MaxTime + RL_WINDOW)]
      BY <1>2, <1>3
    <3> QED
      BY <1>1, <1>4, <3>1 DEF TypeOK
  <2>2. /\ remaining' \in [Handlers -> 0..(RL_LIMIT - 1)]
        /\ window' \in [Handlers -> 0..(MaxTime + RL_WINDOW)]
        /\ pc' \in [Handlers -> {"idle", "enter", "passed", "refused"}]
    BY <1>1, <1>2, <1>3, <1>4 DEF TypeOK
  <2>3. told' \in [Keys -> SUBSET (0..(MaxTime + RL_WINDOW))]
    <3>1. told \in [Keys -> SUBSET (0..(MaxTime + RL_WINDOW))]
      BY <1>1 DEF TypeOK
    <3>2. e.second \in 0..(MaxTime + RL_WINDOW)
      BY <1>2
    <3> QED
      BY <1>4, <3>1, <3>2
  <2>4. passed' \in [Keys -> Seq([at : Times, ends : 0..(MaxTime + RL_WINDOW)])]
    <3>1. [at |-> clock, ends |-> e.second] \in [at : Times, ends : 0..(MaxTime + RL_WINDOW)]
      BY <1>1, <1>2 DEF TypeOK
    <3>2. passed \in [Keys -> Seq([at : Times, ends : 0..(MaxTime + RL_WINDOW)])]
      BY <1>1 DEF TypeOK
    <3>3. Append(passed[k], [at |-> clock, ends |-> e.second])
            \in Seq([at : Times, ends : 0..(MaxTime + RL_WINDOW)])
      BY <1>1, <3>1, <3>2, AppendType
    <3> QED
      BY <1>1, <1>4, <3>2, <3>3
  <2> QED
    BY <1>1, <1>4, <2>1, <2>2, <2>3, <2>4 DEF TypeOK
<1>6. /\ rl_counts'[k].first = n /\ rl_counts'[k].second = e.second
      /\ \A j \in Keys \ {k} : rl_counts'[j] = rl_counts[j]
  BY <1>1, <1>4 DEF TypeOK
<1>7. /\ remaining'[h] = Left(n) /\ window'[h] = e.second
      /\ pc'[h] = "passed" => Left(n) # 0
      /\ \A g \in Handlers \ {h} : /\ remaining'[g] = remaining[g]
                                   /\ window'[g] = window[g] /\ pc'[g] = pc[g]
  BY <1>1, <1>4 DEF TypeOK
<1>8. ASSUME NEW g \in Handlers \ {h}, key[g] = k, pc'[g] = "passed",
             window'[g] = e.second
      PROVE  RL_LIMIT - n < remaining'[g]
  <2>1. /\ window[g] <= rl_counts[k].second
        /\ window[g] = rl_counts[k].second => RL_LIMIT - rl_counts[k].first <= remaining[g]
    BY <1>1, <1>7, <1>8 DEF Slots
  <2>2. window[g] \in Nat /\ remaining[g] \in Nat
    BY <1>1, LimitAssumption, TimeAssumption DEF TypeOK
  <2>3. rl_counts[k].second = e.second /\ e = rl_counts[k]
    BY <1>1, <1>2, <1>7, <1>8, <2>1, <2>2, LimitAssumption, TimeAssumption
  <2> QED
    BY <1>1, <1>7, <2>1, <2>2, <2>3, <1>8, LimitAssumption DEF n
<1>9. Slots'
  <2> SUFFICES ASSUME NEW g \in Handlers, pc'[g] = "passed"
               PROVE  /\ window'[g] <= rl_counts'[key[g]].second
                      /\ window'[g] = rl_counts'[key[g]].second =>
                           RL_LIMIT - rl_counts'[key[g]].first <= remaining'[g]
    BY <1>4 DEF Slots
  <2>1. CASE g = h
    <3>1. key[g] = k
      BY <2>1 DEF k
    <3> QED
      BY <1>2, <1>3, <1>6, <1>7, <2>1, <3>1, LimitAssumption, TimeAssumption
  <2>2. CASE g # h /\ key[g] = k
    <3>1. window[g] <= rl_counts[k].second /\ window[g] \in Nat
      BY <1>1, <1>7, <2>2, LimitAssumption, TimeAssumption DEF Slots, TypeOK
    <3>2. window'[g] <= e.second
      BY <1>1, <1>2, <1>7, <2>2, <3>1, LimitAssumption, TimeAssumption
    <3>3. window'[g] = e.second => RL_LIMIT - n < remaining'[g]
      BY <1>8, <2>2
    <3>4. remaining'[g] \in Nat
      BY <1>5, LimitAssumption DEF TypeOK
    <3> QED
      BY <1>3, <1>6, <2>2, <3>2, <3>3, <3>4, LimitAssumption
  <2>3. CASE key[g] # k
    <3>1. g # h /\ key[g] \in Keys
      BY <1>1, <2>3 DEF k, TypeOK
    <3>2. rl_counts'[key[g]] = rl_counts[key[g]]
      BY <1>6, <2>3, <3>1
    <3> QED
      BY <1>1, <1>7, <3>1, <3>2 DEF Slots
  <2> QED
    BY <2>1, <2>2, <2>3
<1>10. OwnSlot'
  <2>1. ASSUME NEW g \in Handlers \ {h}, key[g] = k, pc'[g] = "passed",
               pc'[h] = "passed", window'[g] = window'[h]
        PROVE  remaining'[g] # remaining'[h]
    <3>1. RL_LIMIT - n < remaining'[g]
      BY <1>7, <1>8, <2>1
    <3>2. remaining'[h] = RL_LIMIT - n
      BY <1>3, <1>7, <2>1
    <3>3. remaining'[g] \in Nat
      BY <1>5, LimitAssumption DEF TypeOK
    <3> QED
      BY <1>3, <3>1, <3>2, <3>3, LimitAssumption
  <2>2. ASSUME NEW f \in Handlers \ {h}, NEW g \in Handlers \ {h}, f # g,
               key[f] = key[g], pc'[f] = "passed", pc'[g] = "passed",
               window'[f] = window'[g]
        PROVE  remaining'[f] # remaining'[g]
    BY <1>1, <1>7, <2>2 DEF OwnSlot
  <2>3. key[h] = k /\ key' = key
    BY <1>4 DEF k
  <2> QED
    BY <2>1, <2>2, <2>3 DEF OwnSlot
<1> QED
  BY <1>5, <1>9, <1>10 DEF WInv

\* A request that reads the clock again gives up the slot of the one before.
LEMMA ReadClockStep ==
  ASSUME WInv, NEW h \in Handlers, ReadClock(h)
  PROVE  WInv'
<1>1. TypeOK /\ Slots /\ OwnSlot
  BY DEF WInv
<1>2. PICK k \in Keys : key' = [key EXCEPT ![h] = k]
  BY DEF ReadClock
<1>3. /\ now' = [now EXCEPT ![h] = clock] /\ pc' = [pc EXCEPT ![h] = "enter"]
      /\ remaining' = [remaining EXCEPT ![h] = 0]
      /\ window' = [window EXCEPT ![h] = 0]
      /\ UNCHANGED <<clock, rl_counts, told, passed>>
  BY DEF ReadClock
<1>4. TypeOK'
  <2>1. clock \in 0..MaxTime /\ 0 \in 0..(RL_LIMIT - 1) /\ 0 \in 0..(MaxTime + RL_WINDOW)
    BY <1>1, LimitAssumption, TimeAssumption DEF TypeOK, Times
  <2>2. /\ now' \in [Handlers -> 0..MaxTime]
        /\ remaining' \in [Handlers -> 0..(RL_LIMIT - 1)]
        /\ window' \in [Handlers -> 0..(MaxTime + RL_WINDOW)]
    BY <1>1, <1>3, <2>1 DEF TypeOK
  <2>3. /\ pc' \in [Handlers -> {"idle", "enter", "passed", "refused"}]
        /\ key' \in [Handlers -> Keys]
    BY <1>1, <1>2, <1>3 DEF TypeOK
  <2> QED
    BY <1>1, <1>3, <2>2, <2>3 DEF TypeOK
<1>5. /\ pc'[h] = "enter"
      /\ \A g \in Handlers \ {h} :
           /\ pc'[g] = pc[g] /\ key'[g] = key[g] /\ window'[g] = window[g]
           /\ remaining'[g] = remaining[g]
  BY <1>1, <1>2, <1>3 DEF TypeOK
<1>6. Slots'
  BY <1>1, <1>3, <1>5 DEF Slots
<1>7. OwnSlot'
  BY <1>1, <1>5 DEF OwnSlot
<1> QED
  BY <1>4, <1>6, <1>7 DEF WInv

\* The windows and their slots are an invariant of the limiter.
THEOREM WindowInvariant == Spec => []WInv
<1>1. WInv /\ [Next]_vars => WInv'
  <2> SUFFICES ASSUME WInv, [Next]_vars PROVE WInv'
    OBVIOUS
  <2>1. CASE Tick
    <3>1. /\ clock' = clock + 1 /\ clock < MaxTime
          /\ UNCHANGED <<rl_counts, pc, key, now, remaining, window, told, passed>>
      BY <2>1 DEF Tick, history
    <3>2. clock' \in Times
      BY <3>1, TimeAssumption DEF WInv, TypeOK, Times
    <3>3. TypeOK'
      BY <3>1, <3>2 DEF WInv, TypeOK, Times
    <3> QED
      BY <3>1, <3>3 DEF WInv, Slots, OwnSlot
  <2>2. CASE UNCHANGED vars
    BY <2>2 DEF vars, WInv, TypeOK, Slots, OwnSlot
  <2> QED
    BY <2>1, <2>2, ReadClockStep, EnterStep DEF Next, TimeUp
<1> QED
  BY <1>1, WindowInit, PTL DEF Spec

\* The variables of the limiter keep their types: what remains is never negative
\* and never the whole quota.
THEOREM TypeCorrect == Spec => []TypeOK
<1>1. WInv => TypeOK
  BY DEF WInv
<1> QED
  BY <1>1, WindowInvariant, PTL

\* Requests that are let through in one window are told different numbers of
\* remaining slots, however their handlers interleave (serve.cpp 779-783).
THEOREM SlotsDiffer == Spec => []OwnSlot
<1>1. WInv => OwnSlot
  BY DEF WInv
<1> QED
  BY <1>1, WindowInvariant, PTL

-----------------------------------------------------------------------------
(* The windows in which requests were let through lie apart, and each      *)
(* request close to its own.                                               *)

\* A request entering has read the clock at most MaxStale seconds ago, and no
\* window ends later than one that opens now.
ClockRead ==
  /\ \A h \in Handlers : pc[h] = "enter" => now[h] <= clock /\ clock <= now[h] + MaxStale
  /\ \A k \in Keys : rl_counts[k].second <= clock + RL_WINDOW

\* A request was let through while its window lasted, stale clocks allowed for.
WithinWindow ==
  \A k \in Keys : \A i \in DOMAIN passed[k] :
    LET p == passed[k][i]
    IN  p.at <= clock /\ p.ends <= p.at + RL_WINDOW /\ p.at <= p.ends + MaxStale

\* A window ended before the next one of its key began.
WindowsApart ==
  \A k \in Keys : \A i \in DOMAIN passed[k] :
    LET e == passed[k][i].ends
    IN  /\ e = rl_counts[k].second \/ e + RL_WINDOW < rl_counts[k].second
        /\ \A j \in DOMAIN passed[k] :
             LET d == passed[k][j].ends
             IN  d = e \/ d + RL_WINDOW < e \/ e + RL_WINDOW < d

\* The requests of a key that were let through in the window that ends at e.
InWindow(k, e) == {i \in DOMAIN passed[k] : passed[k][i].ends = e}

\* A window lets through less than the limit, and no more than it has counted.
Quota ==
  \A k \in Keys :
    /\ \A e \in Nat : Cardinality(InWindow(k, e)) <= RL_LIMIT - 1
    /\ Cardinality(InWindow(k, rl_counts[k].second)) <= rl_counts[k].first

SInv == TypeOK /\ ClockRead /\ WithinWindow /\ WindowsApart /\ Quota

\* No request has come yet.
LEMMA SlidingInit == Init => SInv
<1> SUFFICES ASSUME Init PROVE SInv
  OBVIOUS
<1>1. TypeOK
  BY WindowInit DEF WInv
<1>2. /\ \A k \in Keys : passed[k] = <<>> /\ rl_counts[k] = [first |-> 0, second |-> 0]
      /\ \A h \in Handlers : pc[h] = "idle"
      /\ clock = 1
  BY DEF Init
<1>3. \A k \in Keys : DOMAIN passed[k] = {}
  BY <1>2
<1>4. ClockRead /\ WithinWindow /\ WindowsApart
  BY <1>2, <1>3, LimitAssumption DEF ClockRead, WithinWindow, WindowsApart
<1>5. Quota
  <2>1. \A k \in Keys, e \in Nat : InWindow(k, e) = {}
    BY <1>3 DEF InWindow
  <2>2. Cardinality({}) = 0
    BY FS_EmptySet
  <2>3. 0 <= RL_LIMIT - 1 /\ \A k \in Keys : rl_counts[k].first = 0 /\ rl_counts[k].second \in Nat
    BY <1>2, LimitAssumption
  <2>4. ASSUME NEW k \in Keys
        PROVE  /\ \A e \in Nat : Cardinality(InWindow(k, e)) <= RL_LIMIT - 1
               /\ Cardinality(InWindow(k, rl_counts[k].second)) <= rl_counts[k].first
    <3>1. \A e \in Nat : Cardinality(InWindow(k, e)) = 0
      BY <2>1, <2>2, Zenon
    <3>2. 0 <= 0
      OBVIOUS
    <3> QED
      BY <2>3, <3>1, <3>2, Zenon
  <2> QED
    BY <2>4 DEF Quota
<1> QED
  BY <1>1, <1>4, <1>5 DEF SInv

\* The window a request is let through in is the current one, or one that begins
\* at the time the request has read, after the current one has ended.
LEMMA OpenedWindow ==
  ASSUME NEW e \in [first : Nat, second : 0..(MaxTime + RL_WINDOW)],
         NEW t \in 0..MaxTime
  PROVE  /\ t <= Opened(e, t).second
         /\ \/ Opened(e, t) = e
            \/ /\ e.second < t /\ Opened(e, t).second = t + RL_WINDOW
               /\ Opened(e, t).first = 0
BY LimitAssumption, TimeAssumption DEF Opened

\* The requests let through in a window are finitely many.
LEMMA InWindowFinite ==
  ASSUME TypeOK, NEW k \in Keys, NEW e
  PROVE  /\ IsFiniteSet(InWindow(k, e)) /\ Cardinality(InWindow(k, e)) \in Nat
         /\ IsFiniteSet(DOMAIN passed[k])
<1>1. passed[k] \in Seq([at : Times, ends : 0..(MaxTime + RL_WINDOW)])
  BY DEF TypeOK
<1>2. DOMAIN passed[k] = 1..Len(passed[k]) /\ Len(passed[k]) \in Nat
  BY <1>1
<1>3. IsFiniteSet(DOMAIN passed[k])
  BY <1>2, FS_Interval
<1>4. InWindow(k, e) \in SUBSET DOMAIN passed[k]
  BY DEF InWindow
<1> QED
  BY <1>3, <1>4, FS_Subset, FS_CardinalityType

\* The block under rl_mtx and its branch.
LEMMA SlidingEnter ==
  ASSUME SInv, TypeOK', NEW h \in Handlers, Enter(h)
  PROVE  SInv'
<1> DEFINE k == key[h]
           e == Opened(rl_counts[k], now[h])
           n == e.first + 1
           p == [at |-> clock, ends |-> e.second]
<1>1. /\ TypeOK /\ ClockRead /\ WithinWindow /\ WindowsApart /\ Quota
      /\ k \in Keys /\ now[h] \in 0..MaxTime
      /\ rl_counts[k] \in [first : Nat, second : 0..(MaxTime + RL_WINDOW)]
      /\ passed[k] \in Seq([at : Times, ends : 0..(MaxTime + RL_WINDOW)])
  BY DEF SInv, TypeOK
<1>2. /\ e \in [first : Nat, second : 0..(MaxTime + RL_WINDOW)]
      /\ now[h] <= e.second
      /\ \/ e = rl_counts[k]
         \/ /\ rl_counts[k].second < now[h] /\ e.second = now[h] + RL_WINDOW
            /\ e.first = 0
  BY <1>1, OpenedType, OpenedWindow
<1>3. n \in Nat \ {0} /\ (Left(n) # 0 => n <= RL_LIMIT - 1)
  <2>1. n \in Nat \ {0}
    BY <1>2
  <2>2. Left(n) \in 0..(RL_LIMIT - 1) /\ (Left(n) # 0 => Left(n) = RL_LIMIT - n)
    BY <2>1, LeftType
  <2> QED
    BY <2>1, <2>2, LimitAssumption
<1>4. /\ pc[h] = "enter"
      /\ rl_counts' = [rl_counts EXCEPT ![k] = [first |-> n, second |-> e.second]]
      /\ \/ pc' = [pc EXCEPT ![h] = "refused"] /\ passed' = passed
         \/ /\ Left(n) # 0 /\ pc' = [pc EXCEPT ![h] = "passed"]
            /\ passed' = [passed EXCEPT ![k] = Append(@, p)]
      /\ clock' = clock /\ now' = now
  BY DEF Enter
<1>5. p.at = clock /\ p.ends = e.second
  OBVIOUS
<1> HIDE DEF k, e, n, p
<1>6. clock \in Nat /\ rl_counts[k].second \in Nat /\ e.second \in Nat /\ now[h] \in Nat
  BY <1>1, <1>2, LimitAssumption, TimeAssumption DEF TypeOK, Times
<1>7. /\ rl_counts'[k].first = n /\ rl_counts'[k].second = e.second
      /\ \A j \in Keys \ {k} : rl_counts'[j] = rl_counts[j] /\ passed'[j] = passed[j]
      /\ rl_counts[k].second <= e.second
  <2>1. rl_counts[k].second <= e.second
    BY <1>2, <1>6, LimitAssumption
  <2>2. rl_counts' \in [Keys -> [first : Nat, second : 0..(MaxTime + RL_WINDOW)]]
    BY DEF TypeOK
  <2>3. DOMAIN rl_counts = Keys /\ DOMAIN passed = Keys
    BY <1>1 DEF TypeOK
  <2> QED
    BY <1>1, <1>4, <2>1, <2>3
\* One request at most is added to those of the key, in the window it counts in.
<1>8. \/ passed'[k] = passed[k]
      \/ n <= RL_LIMIT - 1 /\ passed'[k] = Append(passed[k], p)
  <2>1. DOMAIN passed = Keys
    BY <1>1 DEF TypeOK
  <2> QED
    BY <1>1, <1>3, <1>4, <2>1
<1> DEFINE m == Len(passed[k]) + 1
<1>9. /\ DOMAIN passed[k] = 1..(m - 1) /\ m \in Nat \ {0}
      /\ DOMAIN passed[k] \subseteq DOMAIN passed'[k]
      /\ DOMAIN passed'[k] \subseteq DOMAIN passed[k] \cup {m}
      /\ \A i \in DOMAIN passed[k] : passed'[k][i] = passed[k][i]
      /\ m \in DOMAIN passed'[k] => passed'[k][m] = p /\ n <= RL_LIMIT - 1
  <2>1. DOMAIN passed[k] = 1..Len(passed[k]) /\ Len(passed[k]) \in Nat
    BY <1>1
  <2>2. CASE passed'[k] = passed[k]
    BY <2>1, <2>2
  <2>3. CASE n <= RL_LIMIT - 1 /\ passed'[k] = Append(passed[k], p)
    <3>1. /\ DOMAIN Append(passed[k], p) = 1..(Len(passed[k]) + 1)
          /\ \A i \in 1..Len(passed[k]) : Append(passed[k], p)[i] = passed[k][i]
          /\ Append(passed[k], p)[m] = p
      BY <1>1, <2>1
    <3> QED
      BY <2>1, <2>3, <3>1
  <2> QED
    BY <1>8, <2>2, <2>3
<1> HIDE DEF m
<1>10. \A i \in DOMAIN passed[k] : passed[k][i].at \in Nat /\ passed[k][i].ends \in Nat
  <2>1. \A i \in DOMAIN passed[k] : passed[k][i] \in [at : Times, ends : 0..(MaxTime + RL_WINDOW)]
    BY <1>1, ElementOf
  <2> QED
    BY <2>1, LimitAssumption, TimeAssumption DEF Times
<1>11. now[h] <= clock /\ clock <= now[h] + MaxStale /\ rl_counts[k].second <= clock + RL_WINDOW
  BY <1>1, <1>4 DEF ClockRead
<1>12. e.second <= clock + RL_WINDOW
  BY <1>2, <1>6, <1>11, LimitAssumption
<1>13. ClockRead'
  <2>1. \A g \in Handlers : pc'[g] = "enter" => pc[g] = "enter"
    BY <1>1, <1>4 DEF TypeOK
  <2>2. \A j \in Keys : rl_counts'[j].second <= clock + RL_WINDOW
    BY <1>1, <1>7, <1>12 DEF ClockRead
  <2> QED
    BY <1>1, <1>4, <2>1, <2>2 DEF ClockRead
<1>14. WithinWindow'
  <2> SUFFICES ASSUME NEW j \in Keys, NEW i \in DOMAIN passed'[j]
               PROVE  /\ passed'[j][i].at <= clock
                      /\ passed'[j][i].ends <= passed'[j][i].at + RL_WINDOW
                      /\ passed'[j][i].at <= passed'[j][i].ends + MaxStale
    BY <1>4 DEF WithinWindow
  <2>1. CASE j # k
    BY <1>1, <1>7, <2>1 DEF WithinWindow
  <2>2. CASE j = k /\ i \in DOMAIN passed[k]
    BY <1>1, <1>9, <2>2 DEF WithinWindow
  <2>3. CASE j = k /\ i = m
    <3>1. clock <= e.second + MaxStale
      BY <1>2, <1>6, <1>11, TimeAssumption
    <3> QED
      BY <1>5, <1>6, <1>9, <1>12, <2>3, <3>1
  <2> QED
    BY <1>9, <2>1, <2>2, <2>3
\* A window the request opens begins after all others of its key.
<1>15. \A i \in DOMAIN passed[k] :
         passed[k][i].ends = e.second \/ passed[k][i].ends + RL_WINDOW < e.second
  <2> SUFFICES ASSUME NEW i \in DOMAIN passed[k]
               PROVE  passed[k][i].ends = e.second \/ passed[k][i].ends + RL_WINDOW < e.second
    OBVIOUS
  <2>1. \/ passed[k][i].ends = rl_counts[k].second
        \/ passed[k][i].ends + RL_WINDOW < rl_counts[k].second
    BY <1>1 DEF WindowsApart
  <2> QED
    BY <1>2, <1>6, <1>10, <2>1, LimitAssumption
<1>16. WindowsApart'
  <2> SUFFICES ASSUME NEW j \in Keys, NEW i \in DOMAIN passed'[j]
               PROVE  /\ \/ passed'[j][i].ends = rl_counts'[j].second
                         \/ passed'[j][i].ends + RL_WINDOW < rl_counts'[j].second
                      /\ \A l \in DOMAIN passed'[j] :
                           \/ passed'[j][l].ends = passed'[j][i].ends
                           \/ passed'[j][l].ends + RL_WINDOW < passed'[j][i].ends
                           \/ passed'[j][i].ends + RL_WINDOW < passed'[j][l].ends
    BY DEF WindowsApart
  <2>1. CASE j # k
    <3>1. j \in Keys \ {k}
      BY <2>1
    <3>2. rl_counts'[j] = rl_counts[j] /\ passed'[j] = passed[j]
      BY <1>7, <3>1
    <3> QED
      BY <1>1, <3>2 DEF WindowsApart
  <2>2. CASE j = k
    <3>1. \A l \in DOMAIN passed'[k] :
            \/ l \in DOMAIN passed[k] /\ passed'[k][l].ends = passed[k][l].ends
            \/ passed'[k][l].ends = e.second
      BY <1>5, <1>9
    <3>2. \A a, b \in DOMAIN passed[k] :
            \/ passed[k][b].ends = passed[k][a].ends
            \/ passed[k][b].ends + RL_WINDOW < passed[k][a].ends
            \/ passed[k][a].ends + RL_WINDOW < passed[k][b].ends
      BY <1>1 DEF WindowsApart
    <3> QED
      BY <1>7, <1>15, <2>2, <3>1, <3>2
  <2> QED
    BY <2>1, <2>2
<1> DEFINE After(j, d) == {i \in DOMAIN passed'[j] : passed'[j][i].ends = d}
<1>17. ASSUME NEW d \in Nat
       PROVE  /\ d # e.second => After(k, d) = InWindow(k, d)
              /\ After(k, e.second) \subseteq InWindow(k, e.second) \cup {m}
              /\ \/ After(k, e.second) = InWindow(k, e.second)
                 \/ n <= RL_LIMIT - 1
  <2>1. /\ \A i \in DOMAIN passed[k] : passed'[k][i].ends = passed[k][i].ends
        /\ m \in DOMAIN passed'[k] => passed'[k][m].ends = e.second
    BY <1>5, <1>9
  <2> QED
    BY <1>9, <2>1 DEF InWindow, After
<1> HIDE DEF After
\* What the window has counted before the request bounds what it let through.
<1>18. /\ IsFiniteSet(InWindow(k, e.second)) /\ Cardinality(InWindow(k, e.second)) \in Nat
       /\ Cardinality(InWindow(k, e.second)) <= n - 1
  <2>1. IsFiniteSet(InWindow(k, e.second)) /\ Cardinality(InWindow(k, e.second)) \in Nat
    BY <1>1, InWindowFinite
  <2>2. CASE e = rl_counts[k]
    BY <1>1, <1>2, <2>1, <2>2 DEF Quota, n
  <2>3. CASE rl_counts[k].second < now[h] /\ e.second = now[h] + RL_WINDOW /\ e.first = 0
    <3>1. \A i \in DOMAIN passed[k] : passed[k][i].ends # e.second
      <4> SUFFICES ASSUME NEW i \in DOMAIN passed[k] PROVE passed[k][i].ends # e.second
        OBVIOUS
      <4>1. passed[k][i].ends <= rl_counts[k].second
        <5>1. \/ passed[k][i].ends = rl_counts[k].second
              \/ passed[k][i].ends + RL_WINDOW < rl_counts[k].second
          BY <1>1 DEF WindowsApart
        <5> QED
          BY <1>6, <1>10, <5>1, LimitAssumption
      <4> QED
        BY <1>6, <1>10, <2>3, <4>1, LimitAssumption
    <3>2. InWindow(k, e.second) = {}
      BY <3>1 DEF InWindow
    <3> QED
      BY <2>1, <2>3, <3>2, FS_EmptySet DEF n
  <2> QED
    BY <1>2, <2>1, <2>2, <2>3
<1>19. Cardinality(After(k, e.second)) \in Nat /\ Cardinality(After(k, e.second)) <= n
  <2>1. /\ IsFiniteSet(InWindow(k, e.second) \cup {m})
        /\ Cardinality(InWindow(k, e.second) \cup {m}) <= Cardinality(InWindow(k, e.second)) + 1
    BY <1>18, FS_AddElement
  <2>2. After(k, e.second) \in SUBSET (InWindow(k, e.second) \cup {m})
    BY <1>6, <1>17
  <2>3. /\ IsFiniteSet(After(k, e.second))
        /\ Cardinality(After(k, e.second)) <= Cardinality(InWindow(k, e.second) \cup {m})
    BY <2>1, <2>2, FS_Subset
  <2>4. Cardinality(After(k, e.second)) \in Nat /\ Cardinality(InWindow(k, e.second) \cup {m}) \in Nat
    BY <2>1, <2>3, FS_CardinalityType
  <2> QED
    BY <1>3, <1>18, <2>1, <2>3, <2>4
<1>20. ASSUME NEW d \in Nat
       PROVE  Cardinality(After(k, d)) <= RL_LIMIT - 1
  <2>1. CASE After(k, d) = InWindow(k, d)
    BY <1>1, <2>1 DEF Quota
  <2>2. CASE d = e.second /\ n <= RL_LIMIT - 1
    BY <1>3, <1>19, <2>2, LimitAssumption
  <2> QED
    BY <1>17, <2>1, <2>2
<1>21. Quota'
  <2> SUFFICES ASSUME NEW j \in Keys
               PROVE  /\ \A d \in Nat : Cardinality(After(j, d)) <= RL_LIMIT - 1
                      /\ Cardinality(After(j, rl_counts'[j].second)) <= rl_counts'[j].first
    BY DEF Quota, InWindow, After
  <2>1. CASE j # k
    <3>1. rl_counts'[j] = rl_counts[j] /\ passed'[j] = passed[j]
      BY <1>7, <2>1
    <3>2. \A d : After(j, d) = InWindow(j, d)
      BY <3>1 DEF InWindow, After
    <3> QED
      BY <1>1, <3>1, <3>2 DEF Quota
  <2>2. CASE j = k
    BY <1>7, <1>19, <1>20, <2>2
  <2> QED
    BY <2>1, <2>2
<1> QED
  BY <1>13, <1>14, <1>16, <1>21 DEF SInv

\* The other steps let nobody through; what a request reads of the clock is the
\* present time, and the clock waits for the requests that have read it.
LEMMA SlidingOther ==
  ASSUME SInv, TypeOK', Tick \/ (\E h \in Handlers : ReadClock(h)) \/ UNCHANGED vars
  PROVE  SInv'
<1>1. TypeOK /\ ClockRead /\ WithinWindow /\ WindowsApart /\ Quota
  BY DEF SInv
<1>2. passed' = passed /\ rl_counts' = rl_counts /\ (clock' = clock \/ clock' = clock + 1)
  BY DEF Tick, ReadClock, vars, history
<1>3. WindowsApart' /\ Quota'
  BY <1>1, <1>2 DEF WindowsApart, Quota, InWindow
<1>4. /\ clock \in Nat
      /\ \A k \in Keys : rl_counts[k].second \in Nat
      /\ \A k \in Keys : \A i \in DOMAIN passed[k] : passed[k][i].at \in Nat
  <2>1. /\ \A k \in Keys : passed[k] \in Seq([at : Times, ends : 0..(MaxTime + RL_WINDOW)])
        /\ \A k \in Keys : rl_counts[k] \in [first : Nat, second : 0..(MaxTime + RL_WINDOW)]
        /\ clock \in Times
    BY <1>1 DEF TypeOK
  <2>2. \A k \in Keys : \A i \in DOMAIN passed[k] :
          passed[k][i] \in [at : Times, ends : 0..(MaxTime + RL_WINDOW)]
    BY <2>1, ElementOf
  <2> QED
    BY <2>1, <2>2, LimitAssumption, TimeAssumption DEF Times
<1>5. WithinWindow'
  BY <1>1, <1>2, <1>4 DEF WithinWindow
<1>6. \A k \in Keys : rl_counts'[k].second <= clock' + RL_WINDOW
  BY <1>1, <1>2, <1>4, LimitAssumption DEF ClockRead
<1>7. \A h \in Handlers : pc'[h] = "enter" => now'[h] <= clock' /\ clock' <= now'[h] + MaxStale
  <2>1. CASE Tick
    <3>1. /\ clock' = clock + 1 /\ pc' = pc /\ now' = now
          /\ \A h \in Handlers : pc[h] = "enter" => clock - now[h] < MaxStale
      BY <2>1 DEF Tick
    <3>2. \A h \in Handlers : now[h] \in Nat
      BY <1>1, TimeAssumption DEF TypeOK
    <3> QED
      BY <1>1, <1>4, <3>1, <3>2, TimeAssumption DEF ClockRead
  <2>2. CASE \E h \in Handlers : ReadClock(h)
    <3>1. PICK h \in Handlers : ReadClock(h)
      BY <2>2
    <3>2. /\ clock' = clock /\ pc' = [pc EXCEPT ![h] = "enter"]
          /\ now' = [now EXCEPT ![h] = clock]
      BY <3>1 DEF ReadClock
    <3>3. DOMAIN pc = Handlers /\ DOMAIN now = Handlers
      BY <1>1 DEF TypeOK
    <3> QED
      BY <1>1, <1>4, <3>2, <3>3, TimeAssumption DEF ClockRead
  <2>3. CASE UNCHANGED vars
    BY <1>1, <2>3 DEF vars, ClockRead
  <2> QED
    BY <2>1, <2>2, <2>3
<1> QED
  BY <1>3, <1>5, <1>6, <1>7 DEF SInv, ClockRead

\* Where requests were let through is an invariant of the limiter.
THEOREM SlidingInvariant == Spec => []SInv
<1>1. SInv /\ TypeOK' /\ [Next]_vars => SInv'
  <2> SUFFICES ASSUME SInv, TypeOK', [Next]_vars PROVE SInv'
    OBVIOUS
  <2> QED
    BY SlidingOther, SlidingEnter DEF Next, TimeUp
<1> QED
  BY <1>1, SlidingInit, TypeCorrect, PTL DEF Spec

\* Two windows at most let requests through in the span: of three, the first ended
\* more than a window before the last began.
LEMMA TwoWindows ==
  ASSUME SInv, NEW k \in Keys, NEW s \in Times
  PROVE  PassedIn(k, s..(s + RL_WINDOW + 1 - MaxStale)) <= 2 * (RL_LIMIT - 1)
<1> DEFINE I == {i \in DOMAIN passed[k] :
                   passed[k][i].at \in s..(s + RL_WINDOW + 1 - MaxStale)}
<1>1. /\ TypeOK /\ WithinWindow /\ WindowsApart
      /\ \A e \in Nat : Cardinality(InWindow(k, e)) <= RL_LIMIT - 1
  BY DEF SInv, Quota
<1>2. \A i \in DOMAIN passed[k] : passed[k][i].at \in Nat /\ passed[k][i].ends \in Nat
  <2>1. passed[k] \in Seq([at : Times, ends : 0..(MaxTime + RL_WINDOW)])
    BY <1>1 DEF TypeOK
  <2>2. \A i \in DOMAIN passed[k] : passed[k][i] \in [at : Times, ends : 0..(MaxTime + RL_WINDOW)]
    BY <2>1, ElementOf
  <2> QED
    BY <2>2, LimitAssumption, TimeAssumption DEF Times
<1>3. SUFFICES Cardinality(I) <= 2 * (RL_LIMIT - 1)
  BY DEF PassedIn
<1>4. \A i \in I : /\ s - MaxStale <= passed[k][i].ends
                   /\ passed[k][i].ends <= s + RL_WINDOW + 1 - MaxStale + RL_WINDOW
  <2> SUFFICES ASSUME NEW i \in I
               PROVE  /\ s - MaxStale <= passed[k][i].ends
                      /\ passed[k][i].ends <= s + RL_WINDOW + 1 - MaxStale + RL_WINDOW
    OBVIOUS
  <2>1. /\ passed[k][i].ends <= passed[k][i].at + RL_WINDOW
        /\ passed[k][i].at <= passed[k][i].ends + MaxStale
    BY <1>1 DEF WithinWindow
  <2>2. s <= passed[k][i].at /\ passed[k][i].at <= s + RL_WINDOW + 1 - MaxStale
    OBVIOUS
  <2> QED
    BY <1>2, <2>1, <2>2, LimitAssumption, TimeAssumption DEF Times
<1>5. \A i, j \in I : \/ passed[k][j].ends = passed[k][i].ends
                      \/ passed[k][j].ends + RL_WINDOW < passed[k][i].ends
                      \/ passed[k][i].ends + RL_WINDOW < passed[k][j].ends
  BY <1>1 DEF WindowsApart
<1>6. \A i \in I : passed[k][i].ends \in Nat /\ i \in DOMAIN passed[k]
  BY <1>2
<1>7. \E d, e \in Nat : I \subseteq InWindow(k, d) \cup InWindow(k, e)
  <2> HIDE DEF I
  <2>1. CASE I = {}
    <3>1. 0 \in Nat
      OBVIOUS
    <3> QED
      BY <2>1, <3>1
  <2>2. CASE \E i \in I : \A j \in I : passed[k][j].ends = passed[k][i].ends
    BY <1>6, <2>2 DEF InWindow
  <2>3. CASE \E i, j \in I : passed[k][j].ends # passed[k][i].ends
    <3>1. PICK i \in I, j \in I : passed[k][j].ends # passed[k][i].ends
      BY <2>3
    <3>2. \A l \in I : passed[k][l].ends \in {passed[k][i].ends, passed[k][j].ends}
      BY <1>4, <1>5, <1>6, <3>1, LimitAssumption, TimeAssumption DEF Times
    <3> QED
      BY <1>6, <3>2 DEF InWindow
  <2> QED
    BY <2>1, <2>2, <2>3
<1>8. PICK d \in Nat, e \in Nat : I \subseteq InWindow(k, d) \cup InWindow(k, e)
  BY <1>7
<1> HIDE DEF I
<1>9. /\ IsFiniteSet(InWindow(k, d)) /\ Cardinality(InWindow(k, d)) \in Nat
      /\ IsFiniteSet(InWindow(k, e)) /\ Cardinality(InWindow(k, e)) \in Nat
  BY <1>1, InWindowFinite
<1> DEFINE U == InWindow(k, d) \cup InWindow(k, e)
<1>10. IsFiniteSet(U) /\ Cardinality(U) <= Cardinality(InWindow(k, d)) + Cardinality(InWindow(k, e))
  <2>1. IsFiniteSet(U)
        /\ Cardinality(U) = Cardinality(InWindow(k, d)) + Cardinality(InWindow(k, e))
                              - Cardinality(InWindow(k, d) \cap InWindow(k, e))
    BY <1>9, FS_Union
  <2>2. Cardinality(InWindow(k, d) \cap InWindow(k, e)) \in Nat
    BY <1>9, FS_Intersection, FS_CardinalityType
  <2> QED
    BY <1>9, <2>1, <2>2
<1>11. Cardinality(I) <= Cardinality(U) /\ Cardinality(I) \in Nat /\ Cardinality(U) \in Nat
  <2> HIDE DEF U
  <2>1. I \in SUBSET U
    BY <1>8 DEF U
  <2> QED
    BY <1>10, <2>1, FS_Subset, FS_CardinalityType
<1> QED
  BY <1>1, <1>9, <1>10, <1>11, LimitAssumption

\* RL_WINDOW + 2 seconds, less the staleness of the clocks, never let through more
\* than two windows' quotas of a key, whatever its requests do (serve.cpp 774-785).
THEOREM SlidingBounded == Spec => []SlidingBound
<1>1. SInv => SlidingBound
  BY TwoWindows DEF SlidingBound
<1> QED
  BY <1>1, SlidingInvariant, PTL

-----------------------------------------------------------------------------
(* What Retry-After has announced.                                         *)

\* Every announced time is the end of the current window, whose quota is used up, or
\* of one that ended before the current one began.
Announced ==
  \A k \in Keys : \A a \in told[k] :
    \/ a = rl_counts[k].second /\ RL_LIMIT <= rl_counts[k].first
    \/ a + RL_WINDOW < rl_counts[k].second

\* How many requests the current window of k has let through.
LetThrough(k) == Cardinality(InWindow(k, rl_counts[k].second))

\* A window has let through every request that it counted, up to its quota.
Earned == \A k \in Keys : \/ rl_counts[k].first <= LetThrough(k)
                          \/ RL_LIMIT - 1 <= LetThrough(k)

RInv == SInv /\ Announced /\ Earned

\* Nothing was announced yet.
LEMMA RetryInit == Init => RInv
<1> SUFFICES ASSUME Init PROVE RInv
  OBVIOUS
<1>1. SInv
  BY SlidingInit
<1>2. /\ \A k \in Keys : told[k] = {} /\ rl_counts[k].first = 0
      /\ \A k \in Keys : LetThrough(k) \in Nat
  BY <1>1, InWindowFinite DEF Init, SInv, LetThrough
<1>3. Announced
  BY <1>2 DEF Announced
<1>4. Earned
  BY <1>2 DEF Earned
<1> QED
  BY <1>1, <1>3, <1>4 DEF RInv

\* A refused request announces the end of its window; one that is let through
\* counts among those of its window.
LEMMA RetryEnter ==
  ASSUME RInv, SInv', NEW h \in Handlers, Enter(h)
  PROVE  Announced' /\ Earned'
<1> DEFINE k == key[h]
           e == Opened(rl_counts[k], now[h])
           n == e.first + 1
           p == [at |-> clock, ends |-> e.second]
<1>1. /\ TypeOK /\ Announced /\ Earned /\ WindowsApart
      /\ k \in Keys /\ now[h] \in 0..MaxTime
      /\ rl_counts[k] \in [first : Nat, second : 0..(MaxTime + RL_WINDOW)]
      /\ passed[k] \in Seq([at : Times, ends : 0..(MaxTime + RL_WINDOW)])
  BY DEF RInv, SInv, TypeOK
<1>2. /\ e \in [first : Nat, second : 0..(MaxTime + RL_WINDOW)]
      /\ now[h] <= e.second
      /\ \/ e = rl_counts[k]
         \/ /\ rl_counts[k].second < now[h] /\ e.second = now[h] + RL_WINDOW
            /\ e.first = 0
  BY <1>1, OpenedType, OpenedWindow
<1>3. /\ n \in Nat \ {0} /\ n = e.first + 1
      /\ Left(n) # 0 => n <= RL_LIMIT - 1
      /\ Left(n) = 0 => RL_LIMIT <= n
  <2>1. n \in Nat \ {0} /\ n = e.first + 1
    BY <1>2
  <2>2. Left(n) \in 0..(RL_LIMIT - 1) /\ (Left(n) # 0 => Left(n) = RL_LIMIT - n)
    BY <2>1, LeftType
  <2>3. Left(n) = 0 => RL_LIMIT <= n
    BY <2>1, LimitAssumption DEF Left
  <2> QED
    BY <2>1, <2>2, <2>3, LimitAssumption
<1>4. /\ rl_counts' = [rl_counts EXCEPT ![k] = [first |-> n, second |-> e.second]]
      /\ \/ /\ Left(n) = 0 /\ passed' = passed
            /\ told' = [told EXCEPT ![k] = @ \cup {e.second}]
         \/ /\ Left(n) # 0 /\ told' = told
            /\ passed' = [passed EXCEPT ![k] = Append(@, p)]
  BY DEF Enter
<1>5. p.ends = e.second
  OBVIOUS
<1> HIDE DEF k, e, n, p
<1>6. /\ rl_counts[k].second \in Nat /\ e.second \in Nat /\ now[h] \in Nat
      /\ rl_counts[k].first \in Nat
      /\ DOMAIN rl_counts = Keys /\ DOMAIN passed = Keys /\ DOMAIN told = Keys
      /\ \A j \in Keys : told[j] \in SUBSET (0..(MaxTime + RL_WINDOW))
  BY <1>1, <1>2, LimitAssumption, TimeAssumption DEF TypeOK
<1>7. /\ rl_counts'[k].first = n /\ rl_counts'[k].second = e.second
      /\ \A j \in Keys \ {k} : /\ rl_counts'[j] = rl_counts[j] /\ passed'[j] = passed[j]
                               /\ told'[j] = told[j]
      /\ told'[k] \subseteq told[k] \cup {e.second}
  BY <1>1, <1>4, <1>6
<1>8. Announced'
  <2> SUFFICES ASSUME NEW j \in Keys, NEW a \in told'[j]
               PROVE  \/ a = rl_counts'[j].second /\ RL_LIMIT <= rl_counts'[j].first
                      \/ a + RL_WINDOW < rl_counts'[j].second
    BY DEF Announced
  <2>1. CASE j # k
    BY <1>1, <1>7, <2>1 DEF Announced
  <2>2. CASE j = k /\ a \notin told[k]
    <3>1. a = e.second /\ Left(n) = 0
      BY <1>4, <1>6, <1>7, <2>2
    <3> QED
      BY <1>3, <1>7, <2>2, <3>1
  <2>3. CASE j = k /\ a \in told[k]
    <3>1. /\ a \in Nat
          /\ \/ a = rl_counts[k].second /\ RL_LIMIT <= rl_counts[k].first
             \/ a + RL_WINDOW < rl_counts[k].second
      BY <1>1, <1>6, <2>3, LimitAssumption, TimeAssumption DEF Announced
    <3> QED
      BY <1>2, <1>3, <1>6, <1>7, <2>3, <3>1, LimitAssumption
  <2> QED
    BY <1>7, <2>1, <2>2, <2>3
<1> DEFINE C == Cardinality(InWindow(k, e.second))
           D == Cardinality({i \in DOMAIN passed'[k] : passed'[k][i].ends = e.second})
<1>9. C \in Nat
  BY <1>1, InWindowFinite
\* What the window let through before the request.
<1>10. e.first <= C \/ RL_LIMIT - 1 <= C
  <2>1. CASE e = rl_counts[k]
    BY <1>1, <2>1 DEF Earned, LetThrough
  <2>2. CASE e.first = 0
    BY <1>9, <2>2
  <2> QED
    BY <1>2, <2>1, <2>2
<1> HIDE DEF C
<1>13. ASSUME n <= D \/ RL_LIMIT - 1 <= D PROVE Earned'
  <2> SUFFICES ASSUME NEW j \in Keys
               PROVE  \/ rl_counts'[j].first <= LetThrough(j)'
                      \/ RL_LIMIT - 1 <= LetThrough(j)'
    BY DEF Earned
  <2>1. CASE j = k
    BY <1>7, <1>13, <2>1 DEF LetThrough, InWindow
  <2>2. CASE j # k
    <3>1. LetThrough(j)' = LetThrough(j) /\ rl_counts'[j] = rl_counts[j]
      BY <1>7, <2>2 DEF LetThrough, InWindow
    <3> QED
      BY <1>1, <3>1 DEF Earned
  <2> QED
    BY <2>1, <2>2
<1>11. CASE Left(n) = 0 /\ passed' = passed
  <2>1. D = C
    BY <1>11 DEF InWindow, C
  <2> HIDE DEF D
  <2>2. RL_LIMIT - 1 <= D
    BY <1>2, <1>3, <1>9, <1>10, <1>11, <2>1, LimitAssumption
  <2> QED
    BY <1>8, <1>13, <2>2 DEF D
<1>12. CASE Left(n) # 0 /\ passed' = [passed EXCEPT ![k] = Append(@, p)]
  <2> DEFINE m == Len(passed[k]) + 1
             S == InWindow(k, e.second)
  <2>1. passed'[k] = Append(passed[k], p)
    BY <1>1, <1>6, <1>12
  <2>2. /\ DOMAIN passed[k] = 1..Len(passed[k]) /\ Len(passed[k]) \in Nat
        /\ DOMAIN passed'[k] = 1..m
        /\ \A i \in 1..Len(passed[k]) : passed'[k][i] = passed[k][i]
        /\ passed'[k][m] = p
    BY <1>1, <2>1
  <2>3. {i \in DOMAIN passed'[k] : passed'[k][i].ends = e.second} = S \cup {m}
    <3>1. ASSUME NEW i \in 1..m
          PROVE  passed'[k][i].ends = e.second <=> i \in S \/ i = m
      <4>1. CASE i = m
        BY <1>5, <2>2, <4>1
      <4>2. CASE i # m
        <5>1. i \in 1..Len(passed[k]) /\ passed'[k][i] = passed[k][i]
          BY <2>2, <4>2
        <5> QED
          BY <2>2, <4>2, <5>1 DEF InWindow
      <4> QED
        BY <4>1, <4>2
    <3>2. S \cup {m} \subseteq 1..m
      BY <2>2 DEF InWindow
    <3>3. \A i : i \in DOMAIN passed'[k] <=> i \in 1..m
      BY <2>2
    <3> HIDE DEF S, m
    <3>4. \A i \in S \cup {m} : i \in DOMAIN passed'[k] /\ passed'[k][i].ends = e.second
      BY <3>1, <3>2, <3>3
    <3>5. \A i \in DOMAIN passed'[k] : passed'[k][i].ends = e.second => i \in S \cup {m}
      BY <3>1, <3>3
    <3> DEFINE W == {i \in DOMAIN passed'[k] : passed'[k][i].ends = e.second}
    <3>6. \A i : i \in W <=> i \in DOMAIN passed'[k] /\ passed'[k][i].ends = e.second
      OBVIOUS
    <3> HIDE DEF W
    <3>7. W = S \cup {m}
      BY <3>4, <3>5, <3>6
    <3> QED
      BY <3>7 DEF W
  <2>4. m \notin S /\ IsFiniteSet(S)
    <3>1. IsFiniteSet(S)
      BY <1>1, InWindowFinite
    <3>2. m \notin 1..Len(passed[k])
      BY <2>2
    <3>3. m \notin S
      BY <2>2, <3>2 DEF InWindow
    <3> QED
      BY <3>1, <3>3
  <2>5. D = C + 1
    <3>1. Cardinality(S \cup {m}) = Cardinality(S) + 1
      BY <2>4, FS_AddElement
    <3> QED
      BY <2>3, <3>1 DEF C
  <2> HIDE DEF D, S, m
  <2>6. n <= D \/ RL_LIMIT - 1 <= D
    BY <1>2, <1>3, <1>9, <1>10, <2>5, LimitAssumption
  <2> QED
    BY <1>8, <1>13, <2>6 DEF D
<1> QED
  BY <1>4, <1>11, <1>12

\* What was announced, and what was let through since, is an invariant.
THEOREM RetryInvariant == Spec => []RInv
<1>1. RInv /\ SInv' /\ [Next]_vars => RInv'
  <2> SUFFICES ASSUME RInv, SInv', [Next]_vars PROVE RInv'
    OBVIOUS
  <2>1. CASE Tick \/ (\E h \in Handlers : ReadClock(h)) \/ UNCHANGED vars
    <3>1. told' = told /\ rl_counts' = rl_counts /\ passed' = passed
      BY <2>1 DEF Tick, ReadClock, vars, history
    <3> QED
      BY <3>1 DEF RInv, Announced, Earned, LetThrough, InWindow
  <2>2. CASE \E h \in Handlers : Enter(h)
    BY <2>2, RetryEnter DEF RInv
  <2> QED
    BY <2>1, <2>2 DEF Next, TimeUp
<1> QED
  BY <1>1, RetryInit, SlidingInvariant, PTL DEF Spec

\* A request refused later than an announced time has a full window behind it that
\* began after that time.
LEMMA RefusedLate ==
  ASSUME RInv, [Next]_vars, NEW h \in Handlers, pc[h] = "enter", pc'[h] = "refused",
         NEW a \in told[key[h]], now[h] > a
  PROVE  PassedAfter(key[h], a) >= RL_LIMIT - 1
<1> DEFINE k == key[h]
           e == Opened(rl_counts[k], now[h])
           S == InWindow(k, rl_counts[k].second)
           T == {i \in DOMAIN passed[k] : passed[k][i].at > a}
<1>1. TypeOK /\ Announced /\ Earned /\ WithinWindow
  BY DEF RInv, SInv
<1>2. Enter(h)
  <2>1. pc \in [Handlers -> {"idle", "enter", "passed", "refused"}]
    BY <1>1 DEF TypeOK
  <2>2. ASSUME NEW g \in Handlers, Enter(g), g # h PROVE FALSE
    BY <2>1, <2>2 DEF Enter
  <2>3. ASSUME NEW g \in Handlers, ReadClock(g) PROVE FALSE
    BY <2>1, <2>3 DEF ReadClock
  <2>4. ~Tick /\ ~UNCHANGED vars
    BY DEF Tick, vars
  <2> QED
    BY <2>2, <2>3, <2>4 DEF Next, TimeUp
<1>0. a \in Nat
  <2>1. told[key[h]] \in SUBSET (0..(MaxTime + RL_WINDOW))
    BY <1>1 DEF TypeOK
  <2> QED
    BY <2>1, LimitAssumption, TimeAssumption
<1>3. /\ k \in Keys /\ now[h] \in Nat /\ now[h] \in 0..MaxTime /\ a \in Nat
      /\ rl_counts[k] \in [first : Nat, second : 0..(MaxTime + RL_WINDOW)]
      /\ rl_counts[k].second \in Nat /\ rl_counts[k].first \in Nat
      /\ passed[k] \in Seq([at : Times, ends : 0..(MaxTime + RL_WINDOW)])
  <2>1. k \in Keys /\ now[h] \in 0..MaxTime
    BY <1>1 DEF TypeOK
  <2> HIDE DEF k
  <2>2. /\ rl_counts[k] \in [first : Nat, second : 0..(MaxTime + RL_WINDOW)]
        /\ passed[k] \in Seq([at : Times, ends : 0..(MaxTime + RL_WINDOW)])
    BY <1>1, <2>1 DEF TypeOK
  <2> QED
    BY <1>0, <2>1, <2>2, LimitAssumption, TimeAssumption
<1>4. /\ e \in [first : Nat, second : 0..(MaxTime + RL_WINDOW)]
      /\ now[h] <= e.second
      /\ \/ e = rl_counts[k]
         \/ rl_counts[k].second < now[h] /\ e.first = 0
  BY <1>3, OpenedWindow, OpenedType
<1>5. Left(e.first + 1) = 0
  <2>1. pc' # [pc EXCEPT ![h] = "passed"]
    BY <1>1 DEF TypeOK
  <2> QED
    BY <1>2, <2>1 DEF Enter
<1>6. /\ IsFiniteSet(S) /\ Cardinality(S) \in Nat
      /\ IsFiniteSet(DOMAIN passed[k])
  BY <1>1, <1>3, InWindowFinite
<1>7. IsFiniteSet(T) /\ Cardinality(T) \in Nat
  <2>1. T \in SUBSET DOMAIN passed[k]
    OBVIOUS
  <2> HIDE DEF T
  <2> QED
    BY <1>6, <2>1, FS_Subset, FS_CardinalityType
<1> HIDE DEF k, e
<1>8. e.first \in Nat /\ RL_LIMIT <= e.first + 1
  BY <1>4, <1>5, LimitAssumption DEF Left
<1>9. CASE e.first = 0
  BY <1>7, <1>8, <1>9, LimitAssumption DEF PassedAfter, k
<1>10. CASE e = rl_counts[k] /\ e.first # 0 /\ ~(rl_counts[k].second < now[h])
  <2>1. a + RL_WINDOW < rl_counts[k].second
    BY <1>1, <1>3, <1>10 DEF Announced, k
  <2>2. Cardinality(S) >= RL_LIMIT - 1
    <3>1. rl_counts[k].first <= Cardinality(S) \/ RL_LIMIT - 1 <= Cardinality(S)
      BY <1>1, <1>3 DEF Earned, LetThrough
    <3> HIDE DEF S
    <3> QED
      BY <1>3, <1>6, <1>8, <1>10, <3>1, LimitAssumption
  <2>3. S \subseteq T
    <3> SUFFICES ASSUME NEW i \in S PROVE i \in T
      OBVIOUS
    <3>1. i \in DOMAIN passed[k] /\ passed[k][i].ends = rl_counts[k].second
      BY DEF InWindow
    <3>2. passed[k][i].ends <= passed[k][i].at + RL_WINDOW
      BY <1>1, <1>3, <3>1 DEF WithinWindow
    <3>3. passed[k][i] \in [at : Times, ends : 0..(MaxTime + RL_WINDOW)]
      BY <1>3, <3>1, ElementOf
    <3>4. passed[k][i].at \in Nat
      BY <3>3 DEF Times
    <3>5. passed[k][i].at > a
      BY <1>3, <2>1, <3>1, <3>2, <3>4, LimitAssumption
    <3> QED
      BY <3>1, <3>5
  <2>4. Cardinality(S) <= Cardinality(T)
    <3> HIDE DEF S, T
    <3> QED
      BY <1>7, <2>3, FS_Subset
  <2>5. PassedAfter(key[h], a) = Cardinality(T)
    BY DEF PassedAfter, k
  <2> HIDE DEF S, T
  <2> QED
    BY <1>6, <1>7, <2>2, <2>4, <2>5, LimitAssumption
<1>11. CASE e = rl_counts[k] /\ rl_counts[k].second < now[h]
  BY <1>3, <1>4, <1>11
<1> QED
  BY <1>3, <1>4, <1>9, <1>10, <1>11

\* A request let through at an announced time is let through by a later window than
\* the one that it would open itself.
LEMMA PassedAtAnnounced ==
  ASSUME RInv, [Next]_vars, NEW h \in Handlers, pc[h] = "enter", pc'[h] = "passed",
         now[h] \in told[key[h]]
  PROVE  window'[h] > now[h] + RL_WINDOW
<1> DEFINE k == key[h]
           e == Opened(rl_counts[k], now[h])
<1>1. TypeOK /\ Announced
  BY DEF RInv, SInv
<1>2. Enter(h)
  <2>1. pc \in [Handlers -> {"idle", "enter", "passed", "refused"}]
    BY <1>1 DEF TypeOK
  <2>2. ASSUME NEW g \in Handlers, Enter(g), g # h PROVE FALSE
    BY <2>1, <2>2 DEF Enter
  <2>3. ASSUME NEW g \in Handlers, ReadClock(g) PROVE FALSE
    BY <2>1, <2>3 DEF ReadClock
  <2>4. ~Tick /\ ~UNCHANGED vars
    BY DEF Tick, vars
  <2> QED
    BY <2>2, <2>3, <2>4 DEF Next, TimeUp
<1>3. k \in Keys /\ now[h] \in 0..MaxTime
  BY <1>1 DEF TypeOK
<1>4. rl_counts[k].first \in Nat /\ rl_counts[k].second \in Nat /\ now[h] \in Nat
  <2> HIDE DEF k
  <2>1. rl_counts[k] \in [first : Nat, second : 0..(MaxTime + RL_WINDOW)]
    BY <1>1, <1>3 DEF TypeOK
  <2> QED
    BY <1>3, <2>1, LimitAssumption, TimeAssumption
<1>5. \/ now[h] = rl_counts[k].second /\ RL_LIMIT <= rl_counts[k].first
      \/ now[h] + RL_WINDOW < rl_counts[k].second
  BY <1>1, <1>3 DEF Announced
<1>6. e = rl_counts[k]
  BY <1>4, <1>5, LimitAssumption DEF Opened
<1>7. Left(rl_counts[k].first + 1) # 0 /\ window'[h] = rl_counts[k].second
  <2>1. pc' # [pc EXCEPT ![h] = "refused"]
    BY <1>1 DEF TypeOK
  <2>2. window \in [Handlers -> 0..(MaxTime + RL_WINDOW)]
    BY <1>1 DEF TypeOK
  <2> QED
    BY <1>2, <1>6, <2>1, <2>2 DEF Enter
<1>8. ~(RL_LIMIT <= rl_counts[k].first)
  BY <1>4, <1>7, LimitAssumption DEF Left
<1> QED
  BY <1>4, <1>5, <1>7, <1>8

\* What Retry-After announces holds of every request that comes later, and of none
\* that comes at that second and would open a window, for any limit, window and
\* number of requests at a time, and however stale their clocks (serve.cpp 781-787).
THEOREM RetryAfterHonoured == Spec => RetryHonoured
<1>1. RInv /\ [Next]_vars =>
        [\A h \in Handlers : pc[h] = "enter" =>
           \A a \in told[key[h]] :
             /\ pc'[h] = "refused" /\ now[h] > a => PassedAfter(key[h], a) >= RL_LIMIT - 1
             /\ pc'[h] = "passed" /\ now[h] = a => window'[h] > a + RL_WINDOW]_pc
  BY RefusedLate, PassedAtAnnounced
<1> QED
  BY <1>1, RetryInvariant, PTL DEF Spec, RetryHonoured
=============================================================================
