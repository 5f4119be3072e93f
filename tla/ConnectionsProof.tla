--------------------------- MODULE ConnectionsProof ---------------------------
(***************************************************************************)
(* For any number of connections, descriptors and requests: the types, the *)
(* limit on the requests handled at a time, and, for requests whose branch *)
(* answers at most once, that each connection gets one answer, its own, or *)
(* one stream of events, although descriptor numbers are handed out again, *)
(* clients leave and the process is killed, and that the counters keep up  *)
(* with the answers.                                                       *)
(***************************************************************************)
EXTENDS Connections, SequenceTheorems, FiniteSetTheorems, TLAPS

\* A handler, and the accept loop when it checks, hold a descriptor number.
Numbered == /\ \A c \in Clients : pc[c] # "none" => fdOf[c] \in Fds
            /\ mpc = "check" => cur \in Clients /\ fdOf[cur] \in Fds

\* There is an answer to send.
Pending == \A c \in Clients : pc[c] \in {"send", "close"} => todo[c] # <<>>

\* active_conns is at least the number of threads that were ever started.
Counted == Cardinality({c \in Clients : pc[c] # "none"}) <= active_conns

Shape == TypeOK /\ Numbered /\ Pending /\ Counted

\* What a kind of request makes a branch do is a list of steps.
LEMMA ScriptType == \A k \in AllKinds : Scripts(k) \subseteq Seq(Steps)
<1> SUFFICES ASSUME NEW k \in AllKinds, NEW s \in Scripts(k) PROVE s \in Seq(Steps)
  OBVIOUS
<1>1. \A n \in 1..MaxEvents : Events(n) \in Seq(Steps)
  <2> SUFFICES ASSUME NEW n \in 1..MaxEvents PROVE Events(n) \in Seq(Steps)
    OBVIOUS
  <2>1. n \in Nat /\ Events(n) \in [1..n -> Steps]
    BY BoundsAssumption DEF Events, Steps
  <2> QED
    BY <2>1, SeqDef
<1>2. \A a \in Steps : <<a>> \in Seq(Steps)
  OBVIOUS
<1>3. \A a, b \in Steps : <<a, b>> \in Seq(Steps)
  OBVIOUS
<1>4. <<>> \in Seq(Steps)
  OBVIOUS
<1>5. {"ok", "err", "pred", "raw", "head", "beyond", "abort"} \subseteq Steps
  BY DEF Steps
<1>6. \A n \in 1..MaxEvents : /\ <<"head">> \o Events(n) \in Seq(Steps)
                              /\ <<"head", "beyond">> \o Events(n) \in Seq(Steps)
  BY <1>1, <1>2, <1>3, <1>5, ConcatProperties
<1> HIDE DEF Steps
<1>7. \/ s = <<>>
      \/ \E a \in Steps : s = <<a>>
      \/ \E a, b \in Steps : s = <<a, b>>
      \/ \E n \in 1..MaxEvents : \/ s = <<"head">> \o Events(n)
                                 \/ s = <<"head", "beyond">> \o Events(n)
  BY <1>5 DEF AllKinds, Scripts
<1> QED
  BY <1>2, <1>3, <1>4, <1>6, <1>7

\* What is sent goes to one connection, or to none.
LEMMA SendType ==
  ASSUME TypeOK, NEW f \in Fds, NEW from \in Clients \cup {Main},
         NEW what \in Answers, SendOn(f, from, what)
  PROVE  sent' \in [Clients -> Seq((Clients \cup {Main}) \X Answers)]
<1> DEFINE A == (Clients \cup {Main}) \X Answers
<1>1. table[f] \in Clients \cup {Free} /\ sent \in [Clients -> Seq(A)]
  BY DEF TypeOK
<1>2. <<from, what>> \in A
  OBVIOUS
<1> HIDE DEF A
<1>3. CASE table[f] = Free
  BY <1>1, <1>3 DEF SendOn, A
<1>4. CASE table[f] # Free
  <2>1. sent' = [sent EXCEPT ![table[f]] = Append(@, <<from, what>>)]
    BY <1>4 DEF SendOn
  <2>2. table[f] \in Clients /\ sent[table[f]] \in Seq(A)
    BY <1>1, <1>4
  <2>3. Append(sent[table[f]], <<from, what>>) \in Seq(A)
    BY <1>2, <2>2, AppendProperties
  <2>4. sent' \in [Clients -> Seq(A)]
    BY <1>1, <2>1, <2>3
  <2> QED
    BY <2>4 DEF A
<1> QED
  BY <1>3, <1>4

\* A closed descriptor is free.
LEMMA CloseType ==
  ASSUME TypeOK, NEW f \in Fds, CloseFd(f)
  PROVE  /\ table' \in [Fds -> Clients \cup {Free}]
         /\ sock' \in [Clients -> {"new", "queued", "open", "closed"}]
BY DEF CloseFd, TypeOK

\* The process starts without connections.
LEMMA ShapeInit == Init => Shape
<1> SUFFICES ASSUME Init PROVE Shape
  OBVIOUS
<1>1. <<>> \in Seq(Steps) /\ <<>> \in Seq((Clients \cup {Main}) \X Answers)
  OBVIOUS
<1>2. TypeOK
  <2>1. sent \in [Clients -> Seq((Clients \cup {Main}) \X Answers)]
    BY <1>1 DEF Init
  <2>2. todo \in [Clients -> Seq(Steps)]
    BY <1>1 DEF Init
  <2>3. /\ sock \in [Clients -> {"new", "queued", "open", "closed"}]
        /\ table \in [Fds -> Clients \cup {Free}]
        /\ fdOf \in [Clients -> 0..MaxFd]
        /\ pc \in [Clients -> {"none", "start", "count", "recv", "branch", "send",
                               "close", "done"}]
    BY BoundsAssumption DEF Init
  <2>4. /\ gone = {} /\ ignored = {}
        /\ mpc = "poll" /\ cur = Free /\ g_stop = FALSE /\ active_conns \in 0..MaxConc
        /\ {requests, total_requests, pred_requests, total_errors} \subseteq Nat
    BY BoundsAssumption DEF Init
  <2> QED
    BY <2>1, <2>2, <2>3, <2>4 DEF TypeOK
<1>3. Counted
  <2>1. {c \in Clients : pc[c] # "none"} = {}
    BY DEF Init
  <2> QED
    BY <2>1, FS_EmptySet DEF Init, Counted
<1> QED
  BY <1>2, <1>3 DEF Init, Shape, Numbered, Pending

\* What a step of a handler does, for the types: it moves on from a place that is
\* not "none", and leaves the accept loop and the descriptors' numbers alone.
LEMMA HandlerShape ==
  ASSUME Shape, NEW c \in Clients, pc[c] # "none",
         NEW p \in {"start", "count", "recv", "branch", "send", "close", "done"},
         pc' = [pc EXCEPT ![c] = p],
         UNCHANGED <<fdOf, mpc, cur, active_conns>>,
         p \in {"send", "close"} => todo'[c] # <<>>,
         \A d \in Clients \ {c} : todo'[d] = todo[d],
         TypeOK'
  PROVE  Shape'
<1>1. pc \in [Clients -> {"none", "start", "count", "recv", "branch", "send",
                          "close", "done"}]
  BY DEF Shape, TypeOK
<1>2. \A d \in Clients : pc'[d] = IF d = c THEN p ELSE pc[d]
  BY <1>1
<1>3. Numbered'
  BY <1>2 DEF Shape, Numbered
<1>4. Pending'
  BY <1>2 DEF Shape, Pending
<1>5. Counted'
  <2>1. {d \in Clients : pc'[d] # "none"} = {d \in Clients : pc[d] # "none"}
    BY <1>2
  <2> QED
    BY <2>1 DEF Shape, Counted
<1> QED
  BY <1>3, <1>4, <1>5 DEF Shape

\* The steps of a handler keep the shape of the state.
LEMMA HandlerStepShape ==
  ASSUME Shape, NEW c \in Clients, HandlerStep(c)
  PROVE  Shape'
<1>1. TypeOK /\ (pc[c] # "none" => fdOf[c] \in Fds)
  BY DEF Shape, Numbered
<1>2. /\ pc \in [Clients -> {"none", "start", "count", "recv", "branch", "send",
                             "close", "done"}]
      /\ todo \in [Clients -> Seq(Steps)]
      /\ requests \in Nat /\ total_requests \in Nat
      /\ pred_requests \in Nat /\ total_errors \in Nat
  BY <1>1 DEF TypeOK
<1>3. todo[c] # <<>> => /\ Head(todo[c]) \in Steps /\ Head(todo[c]) \in Answers
                        /\ Tail(todo[c]) \in Seq(Steps)
  BY <1>2, HeadTailProperties DEF Answers
<1>4. CASE Start(c)
  <2>1. TypeOK'
    BY <1>1, <1>2, <1>4 DEF Start, TypeOK, counters, outside
  <2> QED
    BY <1>4, <2>1, HandlerShape DEF Start
<1>5. CASE Count(c)
  <2>1. TypeOK'
    BY <1>1, <1>2, <1>5 DEF Count, TypeOK, counters, outside
  <2> QED
    BY <1>5, <2>1, HandlerShape DEF Count
<1>6. CASE Recv(c)
  <2>0. PICK k \in Kinds : \E s \in Scripts(k) : todo' = [todo EXCEPT ![c] = s]
    BY <1>6 DEF Recv
  <2>1. PICK s \in Scripts(k) : todo' = [todo EXCEPT ![c] = s]
    BY <2>0
  <2>2. s \in Seq(Steps)
    BY ScriptType, KindsAssumption
  <2>3. todo' \in [Clients -> Seq(Steps)]
    BY <1>2, <2>1, <2>2
  <2>4. gone' = gone /\ ignored' \in {ignored, ignored \cup {c}}
    BY <1>6 DEF Recv
  <2>5. TypeOK'
    BY <1>1, <1>2, <1>6, <2>3, <2>4 DEF Recv, TypeOK, counters
  <2>6. \A d \in Clients \ {c} : todo'[d] = todo[d]
    BY <1>2, <2>1
  <2> QED
    BY <1>6, <2>5, <2>6, HandlerShape DEF Recv
<1>7. CASE RecvFails(c)
  <2>1. pc[c] = "recv" /\ SendOn(fdOf[c], c, "bad") /\ CloseFd(fdOf[c])
        /\ pc' = [pc EXCEPT ![c] = "done"]
        /\ UNCHANGED <<fdOf, todo, mpc, cur, g_stop, active_conns, counters, outside>>
    BY <1>7 DEF RecvFails
  <2>2. sent' \in [Clients -> Seq((Clients \cup {Main}) \X Answers)]
    BY <1>1, <2>1, SendType DEF Answers
  <2>3. /\ table' \in [Fds -> Clients \cup {Free}]
        /\ sock' \in [Clients -> {"new", "queued", "open", "closed"}]
    BY <1>1, <2>1, CloseType
  <2>4. TypeOK'
    BY <1>1, <1>2, <2>1, <2>2, <2>3 DEF TypeOK, counters, outside
  <2> QED
    BY <2>1, <2>4, HandlerShape
<1>8. CASE Leave(c)
  <2>1. TypeOK'
    BY <1>1, <1>2, <1>8 DEF Leave, TypeOK, counters, outside
  <2> QED
    BY <1>8, <2>1, HandlerShape DEF Leave
<1>9. CASE SendDirect(c)
  <2>1. /\ pc[c] = "branch" /\ todo[c] # <<>> /\ SendOn(fdOf[c], c, Head(todo[c]))
        /\ todo' = [todo EXCEPT ![c] = Tail(@)]
        /\ UNCHANGED <<sock, table, fdOf, pc, mpc, cur, g_stop, active_conns,
                       counters, outside>>
    BY <1>9 DEF SendDirect, NextIn
  <2>2. sent' \in [Clients -> Seq((Clients \cup {Main}) \X Answers)]
    BY <1>1, <1>3, <2>1, SendType
  <2>3. TypeOK'
    BY <1>1, <1>2, <1>3, <2>1, <2>2 DEF TypeOK, counters, outside
  <2>4. pc' = [pc EXCEPT ![c] = "branch"]
    BY <1>2, <2>1
  <2> QED
    BY <1>2, <2>1, <2>3, <2>4, HandlerShape
<1>10. CASE Tally(c)
  <2>1. /\ pc[c] = "branch" /\ todo[c] # <<>> /\ todo' = todo
        /\ pc' = [pc EXCEPT ![c] = "send"]
        /\ UNCHANGED <<sock, table, fdOf, sent, mpc, cur, g_stop, active_conns,
                       requests, total_requests, outside>>
        /\ pred_requests' = pred_requests + IF Head(todo[c]) = "pred" THEN 1 ELSE 0
        /\ total_errors' = total_errors + IF Head(todo[c]) = "err" THEN 1 ELSE 0
    BY <1>10 DEF Tally, NextIn
  <2>2. pred_requests' \in Nat /\ total_errors' \in Nat
    BY <1>2, <2>1
  <2>3. TypeOK'
    BY <1>1, <1>2, <2>1, <2>2 DEF TypeOK, outside
  <2> QED
    BY <2>1, <2>3, HandlerShape
<1>11. CASE Send(c)
  <2>1. /\ pc[c] = "send" /\ SendOn(fdOf[c], c, Head(todo[c])) /\ todo' = todo
        /\ pc' = [pc EXCEPT ![c] = "close"] /\ todo[c] # <<>>
        /\ UNCHANGED <<sock, table, fdOf, mpc, cur, g_stop, active_conns, counters, outside>>
    BY <1>11 DEF Send, Shape, Pending
  <2>2. sent' \in [Clients -> Seq((Clients \cup {Main}) \X Answers)]
    BY <1>1, <1>3, <2>1, SendType
  <2>3. TypeOK'
    BY <1>1, <1>2, <2>1, <2>2 DEF TypeOK, counters, outside
  <2> QED
    BY <2>1, <2>3, HandlerShape
<1>12. CASE Close(c)
  <2>1. /\ pc[c] = "close" /\ CloseFd(fdOf[c]) /\ todo[c] # <<>>
        /\ todo' = [todo EXCEPT ![c] = Tail(@)]
        /\ pc' = [pc EXCEPT ![c] = "branch"]
        /\ UNCHANGED <<fdOf, sent, mpc, cur, g_stop, active_conns, counters, outside>>
    BY <1>12 DEF Close, Shape, Pending
  <2>2. /\ table' \in [Fds -> Clients \cup {Free}]
        /\ sock' \in [Clients -> {"new", "queued", "open", "closed"}]
    BY <1>1, <2>1, CloseType
  <2>3. TypeOK'
    BY <1>1, <1>2, <1>3, <2>1, <2>2 DEF TypeOK, counters, outside
  <2> QED
    BY <1>2, <2>1, <2>3, HandlerShape
<1>13. CASE GoOn(c)
  <2>1. /\ pc[c] = "branch" /\ todo[c] # <<>>
        /\ todo' = [todo EXCEPT ![c] = Tail(@)]
        /\ UNCHANGED <<sock, table, fdOf, sent, pc, mpc, cur, g_stop, active_conns,
                       counters, outside>>
    BY <1>13 DEF GoOn, NextIn
  <2>2. TypeOK'
    BY <1>1, <1>2, <1>3, <2>1 DEF TypeOK, counters, outside
  <2>3. pc' = [pc EXCEPT ![c] = "branch"]
    BY <1>2, <2>1
  <2> QED
    BY <1>2, <2>1, <2>2, <2>3, HandlerShape
<1> QED
  BY <1>4, <1>5, <1>6, <1>7, <1>8, <1>9, <1>10, <1>11, <1>12, <1>13 DEF HandlerStep

\* So do the steps of the clients and of the accept loop, and the end of the process.
LEMMA MainStepShape ==
  ASSUME Shape, \/ \E c \in Clients : Connect(c) \/ Hangup(c) \/ Accept(c)
                \/ Killed \/ Term \/ Poll \/ AcceptNone \/ Busy \/ Spawn \/ UNCHANGED vars
  PROVE  Shape'
<1>1. TypeOK /\ Numbered /\ Pending /\ Counted
  BY DEF Shape
<1>2. ASSUME UNCHANGED <<fdOf, pc, todo, active_conns>>, TypeOK',
             mpc' = "check" => mpc = "check" /\ cur' = cur
      PROVE  Shape'
  BY <1>1, <1>2 DEF Shape, Numbered, Pending, Counted
<1>3. ASSUME NEW c \in Clients, Connect(c) PROVE Shape'
  <2>1. TypeOK'
    BY <1>1, <1>3 DEF Connect, TypeOK, counters, outside
  <2> QED
    BY <1>2, <1>3, <2>1 DEF Connect
<1>4. ASSUME NEW c \in Clients, Accept(c) PROVE Shape'
  <2>1. PICK f \in Fds : /\ table' = [table EXCEPT ![f] = c]
                         /\ fdOf' = [fdOf EXCEPT ![c] = f]
    BY <1>4 DEF Accept
  <2>2. TypeOK'
    BY <1>1, <1>4, <2>1, BoundsAssumption DEF Accept, TypeOK, counters, outside, Fds
  <2>3. pc' = pc /\ todo' = todo /\ active_conns' = active_conns /\ cur' = c
    BY <1>4 DEF Accept
  <2>4. \A d \in Clients : fdOf'[d] = IF d = c THEN f ELSE fdOf[d]
    BY <1>1, <2>1 DEF TypeOK
  <2>5. Numbered'
    BY <1>1, <2>3, <2>4 DEF Numbered
  <2> QED
    BY <1>1, <2>2, <2>3, <2>5 DEF Shape, Pending, Counted
<1>5. CASE Term
  <2>1. TypeOK'
    BY <1>1, <1>5 DEF Term, TypeOK, counters, outside
  <2> QED
    BY <1>2, <1>5, <2>1 DEF Term
<1>6. CASE Poll \/ AcceptNone
  <2>1. TypeOK'
    BY <1>1, <1>6 DEF Poll, AcceptNone, TypeOK, counters, outside
  <2> QED
    BY <1>2, <1>6, <2>1 DEF Poll, AcceptNone
<1>7. CASE Busy
  <2>1. /\ mpc = "check" /\ SendOn(fdOf[cur], Main, "busy") /\ CloseFd(fdOf[cur])
        /\ mpc' = "poll" /\ cur' = Free
        /\ UNCHANGED <<fdOf, pc, todo, g_stop, active_conns, counters, outside>>
    BY <1>7 DEF Busy
  <2>2. fdOf[cur] \in Fds
    BY <1>1, <2>1 DEF Numbered
  <2>3. sent' \in [Clients -> Seq((Clients \cup {Main}) \X Answers)]
    BY <1>1, <2>1, <2>2, SendType DEF Answers
  <2>4. /\ table' \in [Fds -> Clients \cup {Free}]
        /\ sock' \in [Clients -> {"new", "queued", "open", "closed"}]
    BY <1>1, <2>1, <2>2, CloseType
  <2>5. TypeOK'
    BY <1>1, <2>1, <2>3, <2>4 DEF TypeOK, counters, outside
  <2> QED
    BY <1>2, <2>1, <2>5
<1>8. CASE Spawn
  <2>1. /\ mpc = "check" /\ active_conns < MaxConc
        /\ active_conns' = active_conns + 1
        /\ pc' = [pc EXCEPT ![cur] = "start"]
        /\ mpc' = "poll" /\ cur' = Free
        /\ UNCHANGED <<sock, table, fdOf, sent, todo, g_stop, counters, outside>>
    BY <1>8 DEF Spawn
  <2>2. cur \in Clients /\ fdOf[cur] \in Fds
    BY <1>1, <2>1 DEF Numbered
  <2>3. active_conns \in Nat /\ active_conns' \in 0..MaxConc
    BY <1>1, <2>1, BoundsAssumption DEF TypeOK
  <2>4. TypeOK'
    BY <1>1, <2>1, <2>2, <2>3 DEF TypeOK, counters, outside
  <2>5. \A d \in Clients : pc'[d] = IF d = cur THEN "start" ELSE pc[d]
    BY <1>1, <2>1 DEF TypeOK
  <2>6. Numbered' /\ Pending'
    BY <1>1, <2>1, <2>2, <2>5 DEF Numbered, Pending
  <2>7. Counted'
    <3> DEFINE S == {d \in Clients : pc[d] # "none"}
               T == {d \in Clients : pc'[d] # "none"}
    <3>1. T = S \cup {cur}
      BY <2>2, <2>5
    <3>2. IsFiniteSet(S)
      BY ClientsAssumption, FS_Subset
    <3>3. Cardinality(S) \in Nat
      BY <3>2, FS_CardinalityType
    <3>4. Cardinality(S \cup {cur}) = IF cur \in S THEN Cardinality(S)
                                      ELSE Cardinality(S) + 1
      BY <3>2, FS_AddElement
    <3>5. Cardinality(S) <= active_conns
      BY <1>1 DEF Counted
    <3> HIDE DEF S, T
    <3>6. Cardinality(T) <= active_conns'
      BY <2>1, <2>3, <3>1, <3>3, <3>4, <3>5
    <3> QED
      BY <3>6 DEF Counted, T
  <2> QED
    BY <2>4, <2>6, <2>7 DEF Shape
<1>9. CASE UNCHANGED vars
  <2>1. TypeOK'
    BY <1>1, <1>9 DEF vars, TypeOK
  <2> QED
    BY <1>2, <1>9, <2>1 DEF vars
<1>10. ASSUME NEW c \in Clients, Hangup(c) PROVE Shape'
  <2>1. TypeOK'
    BY <1>1, <1>10 DEF Hangup, TypeOK, counters
  <2> QED
    BY <1>2, <1>10, <2>1 DEF Hangup
<1>11. CASE Killed
  <2>1. TypeOK'
    BY <1>1, <1>11 DEF Killed, TypeOK, counters, outside
  <2> QED
    BY <1>2, <1>11, <2>1 DEF Killed
<1> QED
  BY <1>3, <1>4, <1>5, <1>6, <1>7, <1>8, <1>9, <1>10, <1>11

\* A crash ends the process, and so may a refusal.
LEMMA CrashKills ==
  /\ \A c \in Clients : Crash(c) => Killed
  /\ BusyKilled => Killed
BY DEF Crash, Abort, SigPipe, BusyKilled

\* The shape of the state is an invariant of the server.
THEOREM ShapeInvariant == Spec => []Shape
<1>1. Shape /\ [Next]_vars => Shape'
  BY HandlerStepShape, MainStepShape, CrashKills DEF Next, MainStep, Exited
<1> QED
  BY <1>1, ShapeInit, PTL DEF Spec

\* The variables of the connections keep their types.
THEOREM TypeCorrect == Spec => []TypeOK
<1>1. Shape => TypeOK
  BY DEF Shape
<1> QED
  BY <1>1, ShapeInvariant, PTL

\* At most --max_concurrency requests are handled at a time, however many
\* connect and however their threads are scheduled (serve.cpp 485-491).
THEOREM LimitHolds == Spec => []ConcurrencyLimit
<1>1. Shape => ConcurrencyLimit
  <2> SUFFICES ASSUME Shape PROVE ConcurrencyLimit
    OBVIOUS
  <2> DEFINE S == {c \in Clients : pc[c] # "none"}
  <2>1. IsFiniteSet(S) /\ InProgress \subseteq S
    BY ClientsAssumption, FS_Subset DEF InProgress
  <2>2. /\ Cardinality(InProgress) <= Cardinality(S)
        /\ IsFiniteSet(InProgress)
    BY <2>1, FS_Subset
  <2>3. Cardinality(S) \in Nat /\ Cardinality(InProgress) \in Nat
    BY <2>1, <2>2, FS_CardinalityType
  <2>4. Cardinality(S) <= active_conns /\ active_conns \in 0..MaxConc
    BY DEF Shape, Counted, TypeOK
  <2> HIDE DEF S
  <2> QED
    BY <2>2, <2>3, <2>4, BoundsAssumption DEF ConcurrencyLimit
<1> QED
  BY <1>1, ShapeInvariant, PTL

-----------------------------------------------------------------------------
(* Each connection gets one answer, and its own.                           *)

\* The kinds whose branch answers at most once, with a stream counted as one answer.
Single == {"get", "denied", "predict", "misfit", "badlength", "raw", "stream",
           "misfitstream", "silent"}

\* What may be left of a branch: the rest of a stream, which may be nothing, or all
\* of one answer.
Streaming(s) == \A i \in DOMAIN s : s[i] \in {"event", "beyond"}
Whole(s) == \/ s # <<>> /\ s[1] = "head"
              /\ \A i \in DOMAIN s : i > 1 => s[i] \in {"event", "beyond"}
            \/ \E a \in {"ok", "err", "pred", "raw", "abort"} : s = <<a>>
            \/ s = <<"beyond", "pred">>
Fits(s) == Streaming(s) \/ Whole(s)

AllFit == \A c \in Clients : Fits(todo[c])

\* A branch that answers at most once fits.
LEMMA ScriptFits == \A k \in Single : \A s \in Scripts(k) : Fits(s)
<1> SUFFICES ASSUME NEW k \in Single, NEW s \in Scripts(k) PROVE Fits(s)
  OBVIOUS
<1>1. \/ s = <<>>
      \/ \E a \in {"ok", "err", "pred", "raw", "abort"} : s = <<a>>
      \/ s = <<"beyond", "pred">>
      \/ \E n \in 1..MaxEvents : \/ s = <<"head">> \o Events(n)
                                 \/ s = <<"head", "beyond">> \o Events(n)
  BY DEF Single, Scripts
<1>2. CASE s = <<>>
  BY <1>2 DEF Fits, Streaming
<1>3. CASE \/ \E a \in {"ok", "err", "pred", "raw", "abort"} : s = <<a>>
           \/ s = <<"beyond", "pred">>
  BY <1>3 DEF Fits, Whole
<1>4. ASSUME NEW n \in 1..MaxEvents,
             \/ s = <<"head">> \o Events(n)
             \/ s = <<"head", "beyond">> \o Events(n)
      PROVE  Fits(s)
  <2>1. n \in Nat /\ Events(n) \in [1..n -> {"event"}]
    BY BoundsAssumption DEF Events
  <2>2. Events(n) \in Seq({"event", "head", "beyond"})
    BY <2>1, SeqDef
  <2>3. Len(Events(n)) \in Nat /\ \A i \in 1..Len(Events(n)) : Events(n)[i] = "event"
    BY <2>1, <2>2
  <2> DEFINE E == Events(n)
  <2> HIDE DEF E
  <2>4. /\ E \in Seq({"event", "head", "beyond"}) /\ Len(E) \in Nat
        /\ \A i \in 1..Len(E) : E[i] = "event"
        /\ s = <<"head">> \o E \/ s = <<"head", "beyond">> \o E
    BY <1>4, <2>2, <2>3 DEF E
  <2>5. CASE s = <<"head">> \o E
    <3>1. /\ s \in Seq({"event", "head", "beyond"}) /\ Len(s) = 1 + Len(E)
          /\ s[1] = "head" /\ \A i \in 1..Len(s) : i > 1 => s[i] = E[i - 1]
      BY <2>4, <2>5
    <3>2. \A i \in DOMAIN s : i > 1 => s[i] = "event"
      BY <2>4, <3>1
    <3> QED
      BY <3>1, <3>2 DEF Fits, Whole
  <2>6. CASE s = <<"head", "beyond">> \o E
    <3>1. /\ s \in Seq({"event", "head", "beyond"}) /\ Len(s) = 2 + Len(E)
          /\ s[1] = "head" /\ s[2] = "beyond"
          /\ \A i \in 1..Len(s) : i > 2 => s[i] = E[i - 2]
      BY <2>4, <2>6
    <3>2. \A i \in DOMAIN s : i > 1 => s[i] \in {"event", "beyond"}
      BY <2>4, <3>1
    <3> QED
      BY <3>1, <3>2 DEF Fits, Whole
  <2> QED
    BY <2>4, <2>5, <2>6
<1> QED
  BY <1>1, <1>2, <1>3, <1>4

\* No branch begins with an event.
LEMMA ScriptsBegin == \A k \in Single : \A s \in Scripts(k) : Streaming(s) => s = <<>>
<1> SUFFICES ASSUME NEW k \in Single, NEW s \in Scripts(k), Streaming(s), s # <<>>
             PROVE  FALSE
  OBVIOUS
<1>1. \/ \E a \in {"ok", "err", "pred", "raw", "abort"} : s = <<a>>
      \/ s = <<"beyond", "pred">>
      \/ \E n \in 1..MaxEvents : \/ s = <<"head">> \o Events(n)
                                 \/ s = <<"head", "beyond">> \o Events(n)
  BY DEF Single, Scripts
<1>2. ASSUME NEW a \in {"ok", "err", "pred", "raw", "abort"}, s = <<a>> PROVE FALSE
  <2>1. 1 \in DOMAIN s /\ s[1] = a
    BY <1>2
  <2> QED
    BY <2>1 DEF Streaming
<1>3. CASE s = <<"beyond", "pred">>
  <2>1. 2 \in DOMAIN s /\ s[2] = "pred"
    BY <1>3
  <2> QED
    BY <2>1 DEF Streaming
<1>4. ASSUME NEW n \in 1..MaxEvents,
             \/ s = <<"head">> \o Events(n)
             \/ s = <<"head", "beyond">> \o Events(n)
      PROVE  FALSE
  <2>1. n \in Nat /\ Events(n) \in [1..n -> {"event"}]
    BY BoundsAssumption DEF Events
  <2>2. Events(n) \in Seq({"event", "head", "beyond"})
    BY <2>1, SeqDef
  <2> DEFINE E == Events(n)
  <2> HIDE DEF E
  <2>3. /\ E \in Seq({"event", "head", "beyond"}) /\ Len(E) \in Nat
        /\ s = <<"head">> \o E \/ s = <<"head", "beyond">> \o E
    BY <1>4, <2>2 DEF E
  <2>4. 1 \in DOMAIN s /\ s[1] = "head"
    BY <2>3
  <2> QED
    BY <2>4 DEF Streaming
<1> QED
  BY <1>1, <1>2, <1>3, <1>4

\* What is left when a branch that fits has made a step.
LEMMA FitsTail ==
  ASSUME NEW s \in Seq(Steps), Fits(s), s # <<>>
  PROVE  /\ Fits(Tail(s))
         /\ Head(s) \in {"ok", "err", "pred"} => s = <<Head(s)>> /\ ~Streaming(s)
         /\ Head(s) \in {"ok", "err", "pred", "raw"} => Tail(s) = <<>> /\ ~Streaming(s)
         /\ Head(s) = "head" => Streaming(Tail(s)) /\ ~Streaming(s)
         /\ Head(s) = "event" => Streaming(Tail(s)) /\ Streaming(s)
         /\ Head(s) = "beyond" => (Streaming(Tail(s)) <=> Streaming(s))
<1>1. /\ Tail(s) \in Seq(Steps) /\ Len(s) \in Nat /\ Len(s) >= 1 /\ Head(s) = s[1]
      /\ Len(Tail(s)) = Len(s) - 1
      /\ \A i \in 1..Len(Tail(s)) : Tail(s)[i] = s[i + 1]
      /\ DOMAIN s = 1..Len(s) /\ DOMAIN Tail(s) = 1..Len(Tail(s))
  OBVIOUS
<1> DEFINE t == Tail(s)
<1> HIDE DEF t
<1>2. /\ Len(t) \in Nat /\ Len(t) = Len(s) - 1 /\ DOMAIN t = 1..Len(t)
      /\ \A i \in DOMAIN t : i + 1 \in DOMAIN s /\ i + 1 > 1 /\ t[i] = s[i + 1]
      /\ t \in Seq(Steps)
  BY <1>1 DEF t
<1>3. CASE Streaming(s)
  <2>1. Streaming(t)
    BY <1>2, <1>3 DEF Streaming
  <2>2. s[1] \in {"event", "beyond"}
    BY <1>1, <1>3 DEF Streaming
  <2> QED
    BY <1>1, <1>3, <2>1, <2>2 DEF Fits, t
<1>4. CASE s[1] = "head" /\ \A i \in DOMAIN s : i > 1 => s[i] \in {"event", "beyond"}
  <2>1. Streaming(t)
    BY <1>2, <1>4 DEF Streaming
  <2>2. ~Streaming(s)
    BY <1>1, <1>4 DEF Streaming
  <2> QED
    BY <1>1, <1>4, <2>1, <2>2 DEF Fits, t
<1>5. ASSUME NEW a \in {"ok", "err", "pred", "raw", "abort"}, s = <<a>>
      PROVE  /\ Fits(t) /\ t = <<>> /\ ~Streaming(s) /\ s[1] = a /\ s = <<s[1]>>
  <2>1. Len(s) = 1 /\ s[1] = a
    BY <1>5
  <2>2. t = <<>>
    BY <1>2, <2>1, EmptySeq
  <2>3. ~Streaming(s)
    BY <1>1, <2>1 DEF Streaming
  <2>4. Fits(<<>>)
    BY DEF Fits, Streaming
  <2> QED
    BY <1>5, <2>1, <2>2, <2>3, <2>4
<1>6. CASE s = <<"beyond", "pred">>
  <2>1. s[1] = "beyond" /\ s[2] = "pred" /\ Len(s) = 2
    BY <1>6
  <2>2. Len(t) = 1 /\ t[1] = "pred"
    BY <1>2, <2>1
  <2>3. t = <<"pred">>
    BY <1>6 DEF t
  <2>4. ~Streaming(s) /\ ~Streaming(t)
    BY <1>1, <1>2, <2>1, <2>2 DEF Streaming
  <2>5. Fits(t)
    BY <2>3 DEF Fits, Whole
  <2> QED
    BY <1>1, <2>1, <2>4, <2>5 DEF t
<1> QED
  BY <1>1, <1>3, <1>4, <1>5, <1>6 DEF Fits, Whole, t

\* The accept loop has c in its hands.
Checking(c) == mpc = "check" /\ cur = c

\* Someone will still use the descriptor of c.
Holds(c) == \/ Checking(c)
            \/ pc[c] \in {"start", "count", "recv", "send", "close"}
            \/ pc[c] = "branch" /\ todo[c] # <<>>

\* c is in the middle of a stream, or at the end of a branch.
Midway(c) == pc[c] = "branch" /\ Streaming(todo[c])

\* The answer of c is still to come.
Unanswered(c) == sock[c] \in {"new", "queued"}
                   \/ (Holds(c) /\ pc[c] # "close" /\ ~Midway(c))

\* The one answer of c, which was sent for it.
OwnAnswer(c) ==
  \A i \in DOMAIN sent[c] :
    /\ sent[c][i][1] \in {c, Main}
    /\ i > 1 => sent[c][i] = <<c, "event">> /\ sent[c][1] = <<c, "head">>

\* As long as the number of c is used, it names c, so that nobody else's answer
\* and nobody else's close reaches c.
Mine(c) == /\ Holds(c) => table[fdOf[c]] = c
           /\ Unanswered(c) => sent[c] = <<>>
           /\ Midway(c) /\ todo[c] # <<>> =>
                sent[c] # <<>> /\ sent[c][1] = <<c, "head">>
           /\ pc[c] \in {"send", "close"} =>
                todo[c] \in {<<"ok">>, <<"err">>, <<"pred">>}
           /\ sock[c] \in {"new", "queued"} => pc[c] = "none" /\ ~Checking(c)
           /\ Checking(c) => pc[c] = "none"
           /\ OwnAnswer(c)

Owned == AllFit /\ \A c \in Clients : Mine(c)

\* The process starts with nothing sent.
LEMMA OwnedInit == Init => Owned
BY DEF Init, Owned, AllFit, Fits, Streaming, Mine, Midway, Holds, Unanswered, Checking,
       OwnAnswer

\* A step that concerns another connection.
LEMMA Bystander ==
  ASSUME NEW d, Mine(d),
         pc'[d] = pc[d], todo'[d] = todo[d], sent'[d] = sent[d],
         fdOf'[d] = fdOf[d], sock'[d] = sock[d],
         Checking(d)' => Checking(d),
         table[fdOf[d]] = d => table'[fdOf[d]] = d
  PROVE  Mine(d)'
BY DEF Mine, Midway, Holds, Unanswered, Checking, OwnAnswer

\* What is sent on the descriptor of c reaches c, after what was sent before.
LEMMA SendToOwn ==
  ASSUME Shape, NEW c \in Clients, Mine(c), Holds(c),
         NEW from \in {c, Main}, NEW what \in Answers, SendOn(fdOf[c], from, what)
  PROVE  /\ sent'[c] = Append(sent[c], <<from, what>>)
         /\ Len(sent[c]) \in Nat /\ DOMAIN sent[c] = 1..Len(sent[c])
         /\ DOMAIN sent'[c] = 1..(Len(sent[c]) + 1)
         /\ sent'[c][Len(sent[c]) + 1] = <<from, what>>
         /\ \A i \in 1..Len(sent[c]) : sent'[c][i] = sent[c][i]
         /\ \A d \in Clients \ {c} : sent'[d] = sent[d]
<1>1. table[fdOf[c]] = c /\ c # Free
  BY ClientsAssumption DEF Mine
<1>2. sent' = [sent EXCEPT ![c] = Append(@, <<from, what>>)]
  BY <1>1 DEF SendOn
<1>3. DOMAIN sent = Clients /\ sent[c] \in Seq((Clients \cup {Main}) \X Answers)
  BY DEF Shape, TypeOK
<1>4. sent'[c] = Append(sent[c], <<from, what>>)
  BY <1>2, <1>3
<1>5. <<from, what>> \in (Clients \cup {Main}) \X Answers
  OBVIOUS
<1>6. \A d \in Clients \ {c} : sent'[d] = sent[d]
  BY <1>2, <1>3
<1> QED
  BY <1>3, <1>4, <1>5, <1>6, AppendProperties

\* The first thing sent is the answer of c.
LEMMA FirstOwn ==
  ASSUME Shape, NEW c \in Clients, Mine(c), Holds(c), sent[c] = <<>>,
         NEW from \in {c, Main}, NEW what \in Answers, SendOn(fdOf[c], from, what)
  PROVE  /\ OwnAnswer(c)' /\ sent'[c] = <<<<from, what>>>>
         /\ \A d \in Clients \ {c} : sent'[d] = sent[d]
<1>1. /\ sent'[c] = Append(sent[c], <<from, what>>)
      /\ \A d \in Clients \ {c} : sent'[d] = sent[d]
  BY SendToOwn
<1>2. sent'[c] = <<<<from, what>>>>
  BY <1>1
<1> QED
  BY <1>1, <1>2 DEF OwnAnswer

\* An event follows the header of its stream.
LEMMA EventOwn ==
  ASSUME Shape, NEW c \in Clients, Mine(c), Holds(c), sent[c] # <<>>,
         sent[c][1] = <<c, "head">>, SendOn(fdOf[c], c, "event")
  PROVE  /\ OwnAnswer(c)' /\ sent'[c] # <<>> /\ sent'[c][1] = <<c, "head">>
         /\ \A d \in Clients \ {c} : sent'[d] = sent[d]
<1>1. "event" \in Answers
  BY DEF Answers, Steps
<1>2. /\ sent'[c] = Append(sent[c], <<c, "event">>)
      /\ Len(sent[c]) \in Nat /\ DOMAIN sent[c] = 1..Len(sent[c])
      /\ DOMAIN sent'[c] = 1..(Len(sent[c]) + 1)
      /\ sent'[c][Len(sent[c]) + 1] = <<c, "event">>
      /\ \A i \in 1..Len(sent[c]) : sent'[c][i] = sent[c][i]
      /\ \A d \in Clients \ {c} : sent'[d] = sent[d]
  BY <1>1, SendToOwn
<1>3. Len(sent[c]) >= 1
  <2>1. sent[c] \in Seq((Clients \cup {Main}) \X Answers)
    BY DEF Shape, TypeOK
  <2> QED
    BY <1>2, <2>1, EmptySeq
<1>4. sent'[c][1] = <<c, "head">> /\ sent'[c] # <<>>
  BY <1>2, <1>3
<1>5. \A i \in 1..Len(sent[c]) :
        /\ sent[c][i][1] \in {c, Main}
        /\ i > 1 => sent[c][i] = <<c, "event">>
  BY <1>2 DEF Mine, OwnAnswer
<1>6. ASSUME NEW i \in DOMAIN sent'[c]
      PROVE  /\ sent'[c][i][1] \in {c, Main}
             /\ i > 1 => sent'[c][i] = <<c, "event">>
  <2>1. CASE i \in 1..Len(sent[c])
    <3>1. sent'[c][i] = sent[c][i]
      BY <1>2, <2>1
    <3>2. /\ sent[c][i][1] \in {c, Main}
          /\ i > 1 => sent[c][i] = <<c, "event">>
      BY <1>5, <2>1
    <3> QED
      BY <3>1, <3>2
  <2>2. CASE i = Len(sent[c]) + 1
    BY <1>2, <2>2
  <2> QED
    BY <1>2, <1>6, <2>1, <2>2
<1> QED
  BY <1>2, <1>4, <1>6 DEF OwnAnswer

\* The descriptor of c is closed: only c sees it.
LEMMA CloseOwn ==
  ASSUME Shape, NEW c \in Clients, fdOf[c] \in Fds, table[fdOf[c]] = c,
         CloseFd(fdOf[c])
  PROVE  /\ sock'[c] = "closed"
         /\ \A d \in Clients \ {c} :
              /\ sock'[d] = sock[d]
              /\ table[fdOf[d]] = d => table'[fdOf[d]] = d
<1>1. c # Free
  BY ClientsAssumption
<1>2. /\ table' = [table EXCEPT ![fdOf[c]] = Free]
      /\ sock' = [sock EXCEPT ![c] = "closed"]
  BY <1>1 DEF CloseFd
<1>3. DOMAIN sock = Clients /\ DOMAIN table = Fds
  BY DEF Shape, TypeOK
<1>4. sock'[c] = "closed" /\ \A d \in Clients \ {c} : sock'[d] = sock[d]
  BY <1>2, <1>3
<1>5. ASSUME NEW d \in Clients \ {c}, table[fdOf[d]] = d
      PROVE  table'[fdOf[d]] = d
  <2>1. fdOf[d] # fdOf[c]
    BY <1>5
  <2> QED
    BY <1>2, <1>5, <2>1
<1> QED
  BY <1>4, <1>5

\* The steps of a handler leave every connection with its own.
LEMMA HandlerOwned ==
  ASSUME Kinds \subseteq Single, Shape, Owned, NEW c \in Clients, HandlerStep(c)
  PROVE  Owned'
<1>1. Mine(c) /\ AllFit /\ \A d \in Clients : Mine(d)
  BY DEF Owned
<1>2. /\ DOMAIN pc = Clients /\ DOMAIN todo = Clients
      /\ pc[c] # "none" => fdOf[c] \in Fds
      /\ pc[c] \in {"send", "close"} => todo[c] # <<>>
      /\ todo[c] \in Seq(Steps)
  BY DEF Shape, TypeOK, Numbered, Pending
<1>3. todo[c] # <<>> =>
        /\ Fits(Tail(todo[c]))
        /\ Head(todo[c]) \in {"ok", "err", "pred"} =>
             todo[c] = <<Head(todo[c])>> /\ ~Streaming(todo[c])
        /\ Head(todo[c]) \in {"ok", "err", "pred", "raw"} =>
             Tail(todo[c]) = <<>> /\ ~Streaming(todo[c])
        /\ Head(todo[c]) = "head" => Streaming(Tail(todo[c])) /\ ~Streaming(todo[c])
        /\ Head(todo[c]) = "event" => Streaming(Tail(todo[c])) /\ Streaming(todo[c])
        /\ Head(todo[c]) = "beyond" =>
             (Streaming(Tail(todo[c])) <=> Streaming(todo[c]))
  BY <1>1, <1>2, FitsTail DEF AllFit
<1>4. pc[c] # "none"
  BY DEF HandlerStep, Start, Count, Recv, RecvFails, Leave, SendDirect, GoOn,
         Tally, Send, Close, NextIn
<1>5. sock[c] \notin {"new", "queued"} /\ ~Checking(c)
  BY <1>1, <1>4 DEF Mine
<1>6. fdOf' = fdOf /\ mpc' = mpc /\ cur' = cur
  BY DEF HandlerStep, Start, Count, Recv, RecvFails, Leave, SendDirect, GoOn,
         Tally, Send, Close, NextIn
<1>7. \A d \in Clients : Checking(d)' => Checking(d)
  BY <1>6 DEF Checking
<1>8. \A d \in Clients \ {c} : pc'[d] = pc[d] /\ todo'[d] = todo[d]
  BY <1>2 DEF HandlerStep, Start, Count, Recv, RecvFails, Leave, SendDirect,
              GoOn, Tally, Send, Close, NextIn
\* steps that send nothing and close nothing
<1>9. CASE Start(c) \/ Count(c) \/ Leave(c) \/ Tally(c)
  <2>1. /\ UNCHANGED <<sock, table, sent, todo>>
        /\ \/ pc[c] = "start" /\ pc'[c] = "count"
           \/ pc[c] = "count" /\ pc'[c] = "recv"
           \/ pc[c] = "branch" /\ todo[c] = <<>> /\ pc'[c] = "done"
           \/ /\ pc[c] = "branch" /\ todo[c] # <<>> /\ pc'[c] = "send"
              /\ Head(todo[c]) \in {"ok", "err", "pred"}
    BY <1>2, <1>9 DEF Start, Count, Leave, Tally, NextIn
  <2>2. Mine(c)'
    <3>1. CASE pc'[c] # "send"
      BY <1>1, <1>5, <1>6, <2>1, <3>1 DEF Mine, Midway, Holds, Unanswered, Checking, OwnAnswer
    <3>2. CASE pc'[c] = "send"
      <4>1. todo[c] \in {<<"ok">>, <<"err">>, <<"pred">>} /\ ~Streaming(todo[c])
        BY <1>3, <2>1, <3>2
      <4> QED
        BY <1>1, <1>5, <1>6, <2>1, <3>2, <4>1 DEF Mine, Midway, Holds, Unanswered, Checking, OwnAnswer
    <3> QED
      BY <3>1, <3>2
  <2>3. \A d \in Clients \ {c} : Mine(d)'
    BY <1>1, <1>6, <1>7, <1>8, <2>1, Bystander
  <2> QED
    BY <1>1, <2>1, <2>2, <2>3 DEF Owned, AllFit
<1>10. CASE Recv(c)
  <2>1. PICK k \in Kinds : \E s \in Scripts(k) : todo' = [todo EXCEPT ![c] = s]
    BY <1>10 DEF Recv
  <2>2. PICK s \in Scripts(k) : todo' = [todo EXCEPT ![c] = s]
    BY <2>1
  <2>3. Fits(s) /\ (Streaming(s) => s = <<>>)
    <3>1. k \in Single
      BY <2>1
    <3>2. Fits(s)
      BY <3>1, ScriptFits
    <3>3. Streaming(s) => s = <<>>
      BY <3>1, ScriptsBegin
    <3> QED
      BY <3>2, <3>3
  <2>4. /\ pc[c] = "recv" /\ pc'[c] = "branch" /\ todo'[c] = s
        /\ UNCHANGED <<sock, table, sent>>
    BY <1>2, <1>10, <2>2 DEF Recv
  <2>5. Mine(c)'
    BY <1>1, <1>5, <1>6, <2>3, <2>4 DEF Mine, Midway, Holds, Unanswered, Checking, OwnAnswer
  <2>6. \A d \in Clients \ {c} : Mine(d)'
    BY <1>1, <1>6, <1>7, <1>8, <2>4, Bystander
  <2>7. AllFit'
    BY <1>1, <1>8, <2>3, <2>4 DEF AllFit
  <2> QED
    BY <2>5, <2>6, <2>7 DEF Owned
<1>11. CASE RecvFails(c)
  <2>1. /\ pc[c] = "recv" /\ pc'[c] = "done" /\ todo' = todo
        /\ SendOn(fdOf[c], c, "bad") /\ CloseFd(fdOf[c])
    BY <1>2, <1>11 DEF RecvFails
  <2>2. Holds(c) /\ sent[c] = <<>> /\ table[fdOf[c]] = c
    BY <1>1, <2>1 DEF Mine, Midway, Holds, Unanswered
  <2>3. OwnAnswer(c)' /\ \A d \in Clients \ {c} : sent'[d] = sent[d]
    BY <1>1, <2>1, <2>2, FirstOwn DEF Answers
  <2>4. /\ sock'[c] = "closed"
        /\ \A d \in Clients \ {c} :
              /\ sock'[d] = sock[d]
              /\ table[fdOf[d]] = d => table'[fdOf[d]] = d
    BY <1>2, <1>4, <2>1, <2>2, CloseOwn
  <2>5. Mine(c)'
    BY <1>5, <1>7, <2>1, <2>3, <2>4 DEF Mine, Midway, Holds, Unanswered
  <2>6. \A d \in Clients \ {c} : Mine(d)'
    BY <1>1, <1>6, <1>7, <1>8, <2>3, <2>4, Bystander
  <2> QED
    BY <1>1, <2>1, <2>5, <2>6 DEF Owned, AllFit
<1>12. CASE SendDirect(c)
  <2>1. /\ pc[c] = "branch" /\ todo[c] # <<>> /\ pc' = pc
        /\ Head(todo[c]) \in {"raw", "head", "event"}
        /\ SendOn(fdOf[c], c, Head(todo[c])) /\ todo'[c] = Tail(todo[c])
        /\ UNCHANGED <<sock, table>>
    BY <1>2, <1>12 DEF SendDirect, NextIn, Direct
  <2>2. Holds(c) /\ Head(todo[c]) \in Answers
    BY <2>1 DEF Holds, Answers, Steps
  <2>3. ASSUME Head(todo[c]) = "raw"
        PROVE  Mine(c)' /\ \A d \in Clients \ {c} : sent'[d] = sent[d]
    <3>1. Tail(todo[c]) = <<>> /\ sent[c] = <<>>
      BY <1>1, <1>3, <2>1, <2>2, <2>3 DEF Mine, Midway, Unanswered
    <3>2. OwnAnswer(c)' /\ \A d \in Clients \ {c} : sent'[d] = sent[d]
      BY <1>1, <2>1, <2>2, <3>1, FirstOwn
    <3>3. Streaming(<<>>)
      BY DEF Streaming
    <3>4. Mine(c)'
      BY <1>5, <1>7, <2>1, <3>1, <3>2, <3>3 DEF Mine, Midway, Holds, Unanswered
    <3> QED
      BY <3>2, <3>4
  <2>4. ASSUME Head(todo[c]) = "head"
        PROVE  Mine(c)' /\ \A d \in Clients \ {c} : sent'[d] = sent[d]
    <3>1. Streaming(Tail(todo[c])) /\ sent[c] = <<>>
      BY <1>1, <1>3, <2>1, <2>2, <2>4 DEF Mine, Midway, Unanswered
    <3>2. /\ OwnAnswer(c)' /\ sent'[c] = <<<<c, "head">>>>
          /\ \A d \in Clients \ {c} : sent'[d] = sent[d]
      BY <1>1, <2>1, <2>2, <2>4, <3>1, FirstOwn
    <3>3. sent'[c] # <<>> /\ sent'[c][1] = <<c, "head">>
      BY <3>2
    <3>4. Holds(c)' => table'[fdOf'[c]] = c
      BY <1>1, <1>6, <2>1, <2>2 DEF Mine
    <3>5. Mine(c)'
      BY <1>5, <1>7, <2>1, <3>1, <3>2, <3>3, <3>4 DEF Mine, Midway, Unanswered
    <3> QED
      BY <3>2, <3>5
  <2>5. ASSUME Head(todo[c]) = "event"
        PROVE  Mine(c)' /\ \A d \in Clients \ {c} : sent'[d] = sent[d]
    <3>1. /\ Streaming(Tail(todo[c])) /\ Streaming(todo[c])
          /\ sent[c] # <<>> /\ sent[c][1] = <<c, "head">>
      BY <1>1, <1>3, <2>1, <2>5 DEF Mine, Midway
    <3>2. /\ OwnAnswer(c)' /\ sent'[c] # <<>> /\ sent'[c][1] = <<c, "head">>
          /\ \A d \in Clients \ {c} : sent'[d] = sent[d]
      BY <1>1, <2>1, <2>2, <2>5, <3>1, EventOwn
    <3>3. Holds(c)' => table'[fdOf'[c]] = c
      BY <1>1, <1>6, <2>1, <2>2 DEF Mine
    <3>4. Mine(c)'
      BY <1>5, <1>7, <2>1, <3>1, <3>2, <3>3 DEF Mine, Midway, Unanswered
    <3> QED
      BY <3>2, <3>4
  <2>6. Mine(c)' /\ \A d \in Clients \ {c} : sent'[d] = sent[d]
    BY <2>1, <2>3, <2>4, <2>5
  <2>7. \A d \in Clients \ {c} : Mine(d)'
    BY <1>1, <1>6, <1>7, <1>8, <2>1, <2>6, Bystander
  <2> QED
    BY <1>1, <1>3, <1>8, <2>1, <2>6, <2>7 DEF Owned, AllFit
<1>13. CASE Send(c)
  <2>1. /\ pc[c] = "send" /\ pc'[c] = "close" /\ todo' = todo
        /\ SendOn(fdOf[c], c, Head(todo[c])) /\ UNCHANGED <<sock, table>>
    BY <1>2, <1>13 DEF Send
  <2>2. Holds(c) /\ sent[c] = <<>> /\ table[fdOf[c]] = c
    BY <1>1, <2>1 DEF Mine, Midway, Holds, Unanswered
  <2>3. Head(todo[c]) \in Answers
    BY <1>1, <2>1 DEF Mine, Answers, Steps
  <2>4. OwnAnswer(c)' /\ \A d \in Clients \ {c} : sent'[d] = sent[d]
    BY <1>1, <2>1, <2>2, <2>3, FirstOwn
  <2>5. Mine(c)'
    BY <1>1, <1>5, <1>6, <1>7, <2>1, <2>2, <2>4 DEF Mine, Midway, Holds, Unanswered
  <2>6. \A d \in Clients \ {c} : Mine(d)'
    BY <1>1, <1>6, <1>7, <1>8, <2>1, <2>4, Bystander
  <2> QED
    BY <1>1, <2>1, <2>5, <2>6 DEF Owned, AllFit
<1>14. CASE Close(c)
  <2>1. /\ pc[c] = "close" /\ pc'[c] = "branch" /\ todo[c] # <<>>
        /\ todo'[c] = Tail(todo[c]) /\ CloseFd(fdOf[c]) /\ sent' = sent
    BY <1>2, <1>14 DEF Close
  <2>2. table[fdOf[c]] = c
    BY <1>1, <2>1 DEF Mine, Holds
  <2>3. /\ sock'[c] = "closed"
        /\ \A d \in Clients \ {c} :
              /\ sock'[d] = sock[d]
              /\ table[fdOf[d]] = d => table'[fdOf[d]] = d
    BY <1>2, <1>4, <2>1, <2>2, CloseOwn
  <2>4. Tail(todo[c]) = <<>>
    BY <1>1, <1>3, <2>1 DEF Mine
  <2>5. Mine(c)'
    BY <1>1, <1>5, <1>7, <2>1, <2>3, <2>4 DEF Mine, Midway, Holds, Unanswered, Checking, OwnAnswer
  <2>6. \A d \in Clients \ {c} : Mine(d)'
    BY <1>1, <1>6, <1>7, <1>8, <2>1, <2>3, Bystander
  <2> QED
    BY <1>1, <1>3, <1>8, <2>1, <2>5, <2>6 DEF Owned, AllFit
<1>15. CASE GoOn(c)
  <2>1. /\ pc[c] = "branch" /\ todo[c] # <<>> /\ Head(todo[c]) = "beyond"
        /\ pc' = pc /\ todo'[c] = Tail(todo[c]) /\ UNCHANGED <<sock, table, sent>>
    BY <1>2, <1>15 DEF GoOn, NextIn
  <2>2. Streaming(Tail(todo[c])) <=> Streaming(todo[c])
    BY <1>3, <2>1
  <2>3. Mine(c)'
    BY <1>1, <1>5, <1>6, <1>7, <2>1, <2>2 DEF Mine, Midway, Holds, Unanswered, Checking, OwnAnswer
  <2>4. \A d \in Clients \ {c} : Mine(d)'
    BY <1>1, <1>6, <1>7, <1>8, <2>1, Bystander
  <2> QED
    BY <1>1, <1>3, <1>8, <2>1, <2>3, <2>4 DEF Owned, AllFit
<1> QED
  BY <1>9, <1>10, <1>11, <1>12, <1>13, <1>14, <1>15 DEF HandlerStep

\* So do the clients, the accept loop and the end of the process.
LEMMA MainOwned ==
  ASSUME Shape, Owned,
         \/ \E c \in Clients : Connect(c) \/ Hangup(c) \/ Accept(c)
         \/ Killed \/ Term \/ Poll \/ AcceptNone \/ Busy \/ Spawn \/ UNCHANGED vars
  PROVE  Owned'
<1>1. AllFit /\ \A d \in Clients : Mine(d)
  BY DEF Owned
<1>2. /\ DOMAIN pc = Clients /\ DOMAIN sock = Clients /\ DOMAIN fdOf = Clients
      /\ DOMAIN table = Fds
      /\ mpc = "check" => cur \in Clients /\ fdOf[cur] \in Fds
      /\ Free \notin Clients
  BY ClientsAssumption DEF Shape, TypeOK, Numbered
<1>3. todo' = todo
  BY DEF Connect, Hangup, Killed, Accept, Term, Poll, AcceptNone, Busy, Spawn, vars
<1>4. AllFit'
  BY <1>1, <1>3 DEF AllFit
<1>5. ASSUME NEW c \in Clients, Connect(c) PROVE Owned'
  <2>1. /\ sock[c] = "new" /\ sock' = [sock EXCEPT ![c] = "queued"]
        /\ UNCHANGED <<table, fdOf, sent, pc, mpc, cur>>
    BY <1>5 DEF Connect
  <2>2. Mine(c)'
    BY <1>1, <1>2, <1>3, <2>1 DEF Mine, Midway, Holds, Unanswered, Checking, OwnAnswer
  <2>3. \A d \in Clients : Checking(d)' => Checking(d)
    BY <2>1 DEF Checking
  <2>4. \A d \in Clients \ {c} : Mine(d)'
    BY <1>1, <1>2, <1>3, <2>1, <2>3, Bystander
  <2> QED
    BY <1>4, <2>2, <2>4 DEF Owned
<1>6. ASSUME NEW c \in Clients, Accept(c) PROVE Owned'
  <2>1. PICK f \in Fds : /\ table[f] = Free /\ table' = [table EXCEPT ![f] = c]
                         /\ fdOf' = [fdOf EXCEPT ![c] = f]
    BY <1>6 DEF Accept, LowestFree
  <2>2. /\ sock[c] = "queued" /\ sock' = [sock EXCEPT ![c] = "open"]
        /\ mpc = "accept" /\ mpc' = "check" /\ cur' = c
        /\ UNCHANGED <<sent, pc>>
    BY <1>6 DEF Accept
  <2>3. pc[c] = "none" /\ sent[c] = <<>>
    BY <1>1, <2>2 DEF Mine, Unanswered
  <2>4. /\ fdOf'[c] = f /\ table'[f] = c /\ sock'[c] = "open"
        /\ \A d \in Clients \ {c} : fdOf'[d] = fdOf[d] /\ sock'[d] = sock[d]
    BY <1>2, <2>1, <2>2
  <2>5. Mine(c)'
    BY <1>1, <2>2, <2>3, <2>4 DEF Mine, Midway, Holds, Unanswered, Checking, OwnAnswer
  <2>6. \A d \in Clients \ {c} : ~Checking(d)'
    BY <2>2 DEF Checking
  <2>7. ASSUME NEW d \in Clients \ {c}, table[fdOf[d]] = d
        PROVE  table'[fdOf[d]] = d
    <3>1. fdOf[d] # f
      BY <1>2, <2>1, <2>7
    <3> QED
      BY <2>1, <2>7, <3>1
  <2>8. \A d \in Clients \ {c} : Mine(d)'
    BY <1>1, <1>3, <2>2, <2>4, <2>6, <2>7, Bystander
  <2> QED
    BY <1>4, <2>5, <2>8 DEF Owned
<1>7. CASE \/ Term \/ Poll \/ AcceptNone \/ Killed \/ UNCHANGED vars
           \/ \E c \in Clients : Hangup(c)
  <2>1. /\ UNCHANGED <<sock, table, fdOf, sent, pc, cur>>
        /\ mpc' = "check" => mpc = "check"
    BY <1>7 DEF Term, Poll, AcceptNone, Killed, Hangup, vars
  <2>2. \A d \in Clients : Checking(d)' => Checking(d)
    BY <2>1 DEF Checking
  <2>3. \A d \in Clients : Mine(d)'
    BY <1>1, <1>3, <2>1, <2>2, Bystander
  <2> QED
    BY <1>4, <2>3 DEF Owned
<1>8. CASE Busy
  <2>1. PICK c \in Clients : c = cur
    BY <1>2, <1>8 DEF Busy
  <2>2. /\ mpc = "check" /\ SendOn(fdOf[c], Main, "busy") /\ CloseFd(fdOf[c])
        /\ mpc' = "poll" /\ UNCHANGED <<fdOf, pc>> /\ fdOf[c] \in Fds
    BY <1>2, <1>8, <2>1 DEF Busy
  <2>3. /\ Mine(c) /\ Holds(c) /\ pc[c] = "none" /\ sent[c] = <<>>
        /\ table[fdOf[c]] = c
    BY <1>1, <2>1, <2>2 DEF Mine, Midway, Holds, Unanswered, Checking
  <2>4. OwnAnswer(c)' /\ \A d \in Clients \ {c} : sent'[d] = sent[d]
    BY <2>2, <2>3, FirstOwn DEF Answers
  <2>5. /\ sock'[c] = "closed"
        /\ \A d \in Clients \ {c} :
              /\ sock'[d] = sock[d]
              /\ table[fdOf[d]] = d => table'[fdOf[d]] = d
    BY <2>2, <2>3, CloseOwn
  <2>6. \A d \in Clients : ~Checking(d)'
    BY <2>2 DEF Checking
  <2>7. Mine(c)'
    BY <2>2, <2>3, <2>4, <2>5, <2>6 DEF Mine, Midway, Holds, Unanswered
  <2>8. \A d \in Clients \ {c} : Mine(d)'
    BY <1>1, <1>3, <2>2, <2>4, <2>5, <2>6, Bystander
  <2> QED
    BY <1>4, <2>7, <2>8 DEF Owned
<1>9. CASE Spawn
  <2>1. PICK c \in Clients : c = cur
    BY <1>2, <1>9 DEF Spawn
  <2>2. /\ mpc = "check" /\ mpc' = "poll" /\ pc' = [pc EXCEPT ![c] = "start"]
        /\ UNCHANGED <<sock, table, fdOf, sent>>
    BY <1>9, <2>1 DEF Spawn
  <2>3. Mine(c) /\ Checking(c)
    BY <1>1, <2>1, <2>2 DEF Checking
  <2>4. \A d \in Clients : ~Checking(d)'
    BY <2>2 DEF Checking
  <2>5. pc'[c] = "start" /\ \A d \in Clients \ {c} : pc'[d] = pc[d]
    BY <1>2, <2>2
  <2>6. Mine(c)'
    BY <2>2, <2>3, <2>4, <2>5 DEF Mine, Midway, Holds, Unanswered, OwnAnswer
  <2>7. \A d \in Clients \ {c} : Mine(d)'
    BY <1>1, <1>3, <2>2, <2>4, <2>5, Bystander
  <2> QED
    BY <1>4, <2>6, <2>7 DEF Owned
<1> QED
  BY <1>5, <1>6, <1>7, <1>8, <1>9

\* However connections, handlers and refusals interleave, whichever closed numbers
\* are handed out again, and whoever leaves, each connection gets at most one answer,
\* or one header and its events, and what was sent for it, as long as no request makes
\* its branch answer twice (serve.cpp 485, 608, 645-659, 798, 826).
THEOREM EachGetsItsOwn ==
  ASSUME Kinds \subseteq Single
  PROVE  Spec => []OneOwnAnswer
<1>1. Shape /\ Owned /\ [Next]_vars => Owned'
  BY HandlerOwned, MainOwned, CrashKills DEF Next, MainStep, Exited
<1>2. Owned => OneOwnAnswer
  BY DEF Owned, Mine, OwnAnswer, OneOwnAnswer
<1> QED
  BY <1>1, <1>2, OwnedInit, ShapeInvariant, PTL DEF Spec

-----------------------------------------------------------------------------
(* The counters.                                                           *)

\* The answer a has been counted for c: it is about to be sent, or it was.
CountedAs(c, a) == \/ pc[c] = "send" /\ Head(todo[c]) = a
                   \/ \E i \in DOMAIN sent[c] : sent[c][i][2] = a

Preds   == {c \in Clients : CountedAs(c, "pred")}
Errs    == {c \in Clients : CountedAs(c, "err")}
Spawned == {c \in Clients : pc[c] # "none"}
Begun   == {c \in Clients : pc[c] \notin {"none", "start"}}
Known   == {c \in Clients : pc[c] \notin {"none", "start", "count"}}

\* Each counter is the number of the connections it has counted.
Books == /\ pred_requests = Cardinality(Preds)
         /\ total_errors = Cardinality(Errs)
         /\ total_requests = Cardinality(Known)
         /\ requests = Cardinality(Begun)
         /\ active_conns = Cardinality(Spawned)
         /\ Preds \cup Errs \subseteq Known

\* One more connection is counted.
LEMMA OneMore ==
  ASSUME NEW S \in SUBSET Clients, NEW c \in Clients \ S
  PROVE  Cardinality(S \cup {c}) = Cardinality(S) + 1
<1>1. IsFiniteSet(S)
  BY ClientsAssumption, FS_Subset
<1> QED
  BY <1>1, FS_AddElement

\* The process starts with empty books.
LEMMA BooksInit == Init => Books
<1> SUFFICES ASSUME Init PROVE Books
  OBVIOUS
<1>1. Preds = {} /\ Errs = {} /\ Known = {} /\ Begun = {} /\ Spawned = {}
  BY DEF Init, Preds, Errs, Known, Begun, Spawned, CountedAs
<1> QED
  BY <1>1, FS_EmptySet DEF Init, Books

\* The steps of a handler keep the books.
LEMMA HandlerBooks ==
  ASSUME Shape, Owned, Books, NEW c \in Clients, HandlerStep(c)
  PROVE  Books'
<1>1. Mine(c) /\ AllFit
  BY DEF Owned
<1>2. /\ DOMAIN pc = Clients /\ DOMAIN todo = Clients /\ todo[c] \in Seq(Steps)
      /\ pc[c] # "none" => fdOf[c] \in Fds
      /\ requests \in Nat /\ total_requests \in Nat
      /\ pred_requests \in Nat /\ total_errors \in Nat
  BY DEF Shape, TypeOK, Numbered
<1>3. /\ active_conns' = active_conns
      /\ \A d \in Clients \ {c} : pc'[d] = pc[d] /\ todo'[d] = todo[d]
  BY <1>2 DEF HandlerStep, Start, Count, Recv, RecvFails, Leave, SendDirect,
              GoOn, Tally, Send, Close, NextIn
<1>4. CASE Start(c)
  <2>1. /\ pc[c] = "start" /\ pc'[c] = "count" /\ requests' = requests + 1
        /\ UNCHANGED <<sent, todo, total_requests, pred_requests, total_errors>>
    BY <1>2, <1>4 DEF Start
  <2>2. /\ Begun' = Begun \cup {c} /\ c \notin Begun
        /\ Known' = Known /\ Spawned' = Spawned
    BY <1>3, <2>1 DEF Begun, Known, Spawned
  <2>3. Preds' = Preds /\ Errs' = Errs
    BY <1>3, <2>1 DEF Preds, Errs, CountedAs
  <2>4. Cardinality(Begun \cup {c}) = Cardinality(Begun) + 1
    BY <2>2, OneMore DEF Begun
  <2> QED
    BY <1>3, <2>1, <2>2, <2>3, <2>4 DEF Books
<1>5. CASE Count(c)
  <2>1. /\ pc[c] = "count" /\ pc'[c] = "recv" /\ total_requests' = total_requests + 1
        /\ UNCHANGED <<sent, todo, requests, pred_requests, total_errors>>
    BY <1>2, <1>5 DEF Count
  <2>2. /\ Known' = Known \cup {c} /\ c \notin Known
        /\ Begun' = Begun /\ Spawned' = Spawned
    BY <1>3, <2>1 DEF Begun, Known, Spawned
  <2>3. Preds' = Preds /\ Errs' = Errs
    BY <1>3, <2>1 DEF Preds, Errs, CountedAs
  <2>4. Cardinality(Known \cup {c}) = Cardinality(Known) + 1
    BY <2>2, OneMore DEF Known
  <2> QED
    BY <1>3, <2>1, <2>2, <2>3, <2>4 DEF Books
\* the steps after the request is counted
<1>6. ASSUME pc[c] \notin {"none", "start", "count"},
             pc'[c] \notin {"none", "start", "count"}
      PROVE  Known' = Known /\ Begun' = Begun /\ Spawned' = Spawned /\ c \in Known
  BY <1>3, <1>6 DEF Known, Begun, Spawned
<1>7. CASE Recv(c) \/ Leave(c) \/ Close(c) \/ GoOn(c)
  <2>1. /\ pc[c] \in {"recv", "branch", "close"} /\ pc'[c] \in {"branch", "done"}
        /\ UNCHANGED <<sent, counters>>
    BY <1>2, <1>7 DEF Recv, Leave, Close, GoOn, NextIn
  <2>2. Preds' = Preds /\ Errs' = Errs
    BY <1>3, <2>1 DEF Preds, Errs, CountedAs
  <2> QED
    BY <1>3, <1>6, <2>1, <2>2 DEF Books, counters
<1>8. CASE RecvFails(c) \/ SendDirect(c)
  <2>1. PICK what \in {"bad", "raw", "head", "event"} : SendOn(fdOf[c], c, what)
    BY <1>8 DEF RecvFails, SendDirect, NextIn, Direct
  <2>2. /\ pc[c] \in {"recv", "branch"} /\ pc'[c] \in {"branch", "done"}
        /\ UNCHANGED counters /\ Holds(c)
    BY <1>2, <1>8 DEF RecvFails, SendDirect, NextIn, Holds
  <2>3. what \in Answers
    BY DEF Answers, Steps
  <2>4. /\ Len(sent[c]) \in Nat /\ DOMAIN sent[c] = 1..Len(sent[c])
        /\ DOMAIN sent'[c] = 1..(Len(sent[c]) + 1)
        /\ sent'[c][Len(sent[c]) + 1] = <<c, what>>
        /\ \A i \in 1..Len(sent[c]) : sent'[c][i] = sent[c][i]
        /\ \A d \in Clients \ {c} : sent'[d] = sent[d]
    BY <1>1, <2>1, <2>2, <2>3, SendToOwn
  <2>5. ASSUME NEW a \in {"pred", "err"}
        PROVE  CountedAs(c, a)' <=> CountedAs(c, a)
    <3>1. sent'[c][Len(sent[c]) + 1][2] # a
      BY <2>4
    <3>2. /\ CountedAs(c, a) <=> \E i \in DOMAIN sent[c] : sent[c][i][2] = a
          /\ CountedAs(c, a)' <=> \E i \in DOMAIN sent'[c] : sent'[c][i][2] = a
      BY <2>2 DEF CountedAs
    <3>3. ASSUME NEW i \in DOMAIN sent[c], sent[c][i][2] = a
          PROVE  \E k \in DOMAIN sent'[c] : sent'[c][k][2] = a
      <4>1. i \in DOMAIN sent'[c] /\ sent'[c][i] = sent[c][i]
        BY <2>4, <3>3
      <4> QED
        BY <3>3, <4>1
    <3>4. ASSUME NEW i \in DOMAIN sent'[c], sent'[c][i][2] = a
          PROVE  \E k \in DOMAIN sent[c] : sent[c][k][2] = a
      <4>1. i # Len(sent[c]) + 1
        BY <3>1, <3>4
      <4>2. i \in DOMAIN sent[c] /\ sent'[c][i] = sent[c][i]
        BY <2>4, <3>4, <4>1
      <4> QED
        BY <3>4, <4>2
    <3> QED
      BY <3>2, <3>3, <3>4
  <2>6. Preds' = Preds /\ Errs' = Errs
    <3>1. ASSUME NEW d \in Clients, NEW a \in {"pred", "err"}
          PROVE  CountedAs(d, a)' <=> CountedAs(d, a)
      <4>1. CASE d = c
        BY <2>5, <4>1
      <4>2. CASE d # c
        BY <1>3, <2>4, <4>2 DEF CountedAs
      <4> QED
        BY <4>1, <4>2
    <3>2. Preds' = Preds
      <4>1. \A d \in Clients : CountedAs(d, "pred")' <=> CountedAs(d, "pred")
        BY <3>1
      <4> QED
        BY <4>1 DEF Preds
    <3>3. Errs' = Errs
      <4>1. \A d \in Clients : CountedAs(d, "err")' <=> CountedAs(d, "err")
        BY <3>1
      <4> QED
        BY <4>1 DEF Errs
    <3> QED
      BY <3>2, <3>3
  <2> QED
    BY <1>3, <1>6, <2>2, <2>6 DEF Books, counters
<1>9. CASE Tally(c)
  <2>1. /\ pc[c] = "branch" /\ pc'[c] = "send" /\ todo[c] # <<>>
        /\ pred_requests' = pred_requests + IF Head(todo[c]) = "pred" THEN 1 ELSE 0
        /\ total_errors' = total_errors + IF Head(todo[c]) = "err" THEN 1 ELSE 0
        /\ UNCHANGED <<sent, todo, requests, total_requests>>
    BY <1>2, <1>9 DEF Tally, NextIn
  <2>2. sent[c] = <<>>
    <3>1. Head(todo[c]) \in {"ok", "err", "pred"}
      BY <1>9 DEF Tally, NextIn
    <3>2. ~Streaming(todo[c])
      BY <1>1, <1>2, <2>1, <3>1, FitsTail DEF AllFit
    <3> QED
      BY <1>1, <2>1, <3>2 DEF Mine, Midway, Unanswered, Holds
  <2>3. c \notin Preds /\ c \notin Errs
    BY <2>1, <2>2 DEF Preds, Errs, CountedAs
  <2>4. /\ Preds' = IF Head(todo[c]) = "pred" THEN Preds \cup {c} ELSE Preds
        /\ Errs' = IF Head(todo[c]) = "err" THEN Errs \cup {c} ELSE Errs
    BY <1>3, <2>1, <2>2, <2>3 DEF Preds, Errs, CountedAs
  <2>5. /\ Cardinality(Preds \cup {c}) = Cardinality(Preds) + 1
        /\ Cardinality(Errs \cup {c}) = Cardinality(Errs) + 1
    BY <2>3, OneMore DEF Preds, Errs
  <2>6. /\ pred_requests' = Cardinality(Preds') /\ total_errors' = Cardinality(Errs')
    BY <1>2, <2>1, <2>4, <2>5 DEF Books
  <2> QED
    BY <1>3, <1>6, <2>1, <2>4, <2>6 DEF Books
<1>10. CASE Send(c)
  <2>1. /\ pc[c] = "send" /\ pc'[c] = "close" /\ SendOn(fdOf[c], c, Head(todo[c]))
        /\ UNCHANGED counters /\ Holds(c)
    BY <1>2, <1>10 DEF Send, Holds
  <2>2. sent[c] = <<>> /\ Head(todo[c]) \in Answers
    BY <1>1, <2>1 DEF Mine, Midway, Unanswered, Answers, Steps
  <2>3. /\ sent'[c] = <<<<c, Head(todo[c])>>>>
        /\ \A d \in Clients \ {c} : sent'[d] = sent[d]
    BY <1>1, <2>1, <2>2, FirstOwn
  <2>4. /\ CountedAs(c, "pred")' <=> CountedAs(c, "pred")
        /\ CountedAs(c, "err")' <=> CountedAs(c, "err")
    BY <2>1, <2>2, <2>3 DEF CountedAs
  <2>5. Preds' = Preds /\ Errs' = Errs
    BY <1>3, <2>3, <2>4 DEF Preds, Errs, CountedAs
  <2> QED
    BY <1>3, <1>6, <2>1, <2>5 DEF Books, counters
<1> QED
  BY <1>4, <1>5, <1>7, <1>8, <1>9, <1>10 DEF HandlerStep

\* So do the clients, the accept loop and the end of the process.
LEMMA MainBooks ==
  ASSUME Shape, Owned, Books,
         \/ \E c \in Clients : Connect(c) \/ Hangup(c) \/ Accept(c)
         \/ Killed \/ Term \/ Poll \/ AcceptNone \/ Busy \/ Spawn \/ UNCHANGED vars
  PROVE  Books'
<1>1. /\ UNCHANGED counters /\ todo' = todo
      /\ mpc = "check" => cur \in Clients /\ fdOf[cur] \in Fds
      /\ DOMAIN pc = Clients /\ active_conns \in Nat
  BY BoundsAssumption DEF Connect, Hangup, Killed, Accept, Term, Poll, AcceptNone, Busy, Spawn, vars,
     counters, Shape, TypeOK, Numbered
<1>2. CASE UNCHANGED <<pc, sent, active_conns>>
  <2>1. /\ Preds' = Preds /\ Errs' = Errs /\ Known' = Known
        /\ Begun' = Begun /\ Spawned' = Spawned
    BY <1>1, <1>2 DEF Preds, Errs, Known, Begun, Spawned, CountedAs
  <2> QED
    BY <1>1, <1>2, <2>1 DEF Books, counters
<1>3. CASE Busy
  <2>1. PICK c \in Clients : c = cur
    BY <1>1, <1>3 DEF Busy
  <2>2. /\ SendOn(fdOf[c], Main, "busy") /\ UNCHANGED <<pc, active_conns>>
        /\ Mine(c) /\ Checking(c)
    BY <1>3, <2>1 DEF Busy, Owned, Checking
  <2>3. Holds(c) /\ sent[c] = <<>> /\ pc[c] = "none"
    BY <2>2 DEF Mine, Midway, Holds, Unanswered
  <2>4. /\ sent'[c] = <<<<Main, "busy">>>>
        /\ \A d \in Clients \ {c} : sent'[d] = sent[d]
    BY <2>2, <2>3, FirstOwn DEF Answers
  <2>5. /\ ~CountedAs(c, "pred") /\ ~CountedAs(c, "err")
        /\ ~CountedAs(c, "pred")' /\ ~CountedAs(c, "err")'
    BY <2>2, <2>3, <2>4 DEF CountedAs
  <2>6. Preds' = Preds /\ Errs' = Errs
    BY <1>1, <2>2, <2>4, <2>5 DEF Preds, Errs, CountedAs
  <2>7. Known' = Known /\ Begun' = Begun /\ Spawned' = Spawned
    BY <2>2 DEF Known, Begun, Spawned
  <2> QED
    BY <1>1, <2>2, <2>6, <2>7 DEF Books, counters
<1>4. CASE Spawn
  <2>1. PICK c \in Clients : c = cur
    BY <1>1, <1>4 DEF Spawn
  <2>2. /\ pc' = [pc EXCEPT ![c] = "start"] /\ active_conns' = active_conns + 1
        /\ sent' = sent /\ Mine(c) /\ Checking(c)
    BY <1>4, <2>1 DEF Spawn, Owned, Checking
  <2>3. pc[c] = "none" /\ pc'[c] = "start" /\ \A d \in Clients \ {c} : pc'[d] = pc[d]
    BY <1>1, <2>2 DEF Mine
  <2>4. /\ Spawned' = Spawned \cup {c} /\ c \notin Spawned
        /\ Known' = Known /\ Begun' = Begun
    BY <2>3 DEF Spawned, Known, Begun
  <2>5. Preds' = Preds /\ Errs' = Errs
    BY <1>1, <2>2, <2>3 DEF Preds, Errs, CountedAs
  <2>6. Cardinality(Spawned \cup {c}) = Cardinality(Spawned) + 1
    BY <2>4, OneMore DEF Spawned
  <2> QED
    BY <1>1, <2>2, <2>4, <2>5, <2>6 DEF Books, counters
<1> QED
  BY <1>2, <1>3, <1>4 DEF Connect, Hangup, Killed, Accept, Term, Poll, AcceptNone, vars

\* The counters never lag behind what clients have seen, and keep their order, for
\* any number of connections whose requests are answered at most once (serve.cpp
\* 559, 639, 702, 732-734, 927-928).
THEOREM CountersKeepUp ==
  ASSUME Kinds \subseteq Single
  PROVE  Spec => []AnswersCounted
<1>1. Shape /\ Owned /\ [Next]_vars => Owned'
  BY HandlerOwned, MainOwned, CrashKills DEF Next, MainStep, Exited
<1>2. Shape /\ Owned /\ Books /\ [Next]_vars => Books'
  BY HandlerBooks, MainBooks, CrashKills DEF Next, MainStep, Exited
<1>3. Shape /\ Owned /\ Books => AnswersCounted
  <2> SUFFICES ASSUME Shape, Owned, Books PROVE AnswersCounted
    OBVIOUS
  <2> DEFINE seen(a) == {c \in Clients : Received(c, a) > 0}
  <2>1. ASSUME NEW a, NEW c \in seen(a) PROVE c \in Clients /\ CountedAs(c, a)
    <3>1. {i \in DOMAIN sent[c] : sent[c][i][2] = a} # {}
      BY <2>1, FS_EmptySet DEF Received
    <3> QED
      BY <3>1 DEF CountedAs
  <2>2. /\ seen("pred") \subseteq Preds /\ seen("err") \subseteq Errs
        /\ Preds \cup Errs \subseteq Known /\ Known \subseteq Begun
        /\ Begun \subseteq Spawned /\ IsFiniteSet(Spawned)
    BY <2>1, ClientsAssumption, FS_Subset DEF Preds, Errs, Known, Begun, Spawned, Books
  <2>3. Preds \cap Errs = {}
    <3> SUFFICES ASSUME NEW c \in Clients, CountedAs(c, "pred"), CountedAs(c, "err")
                 PROVE  FALSE
      BY DEF Preds, Errs
    <3>1. Mine(c) /\ sent[c] \in Seq((Clients \cup {Main}) \X Answers)
      BY DEF Owned, Shape, TypeOK
    <3>2. CASE pc[c] = "send"
      <4>1. sent[c] = <<>>
        BY <3>1, <3>2 DEF Mine, Midway, Unanswered, Holds
      <4> QED
        BY <3>2, <4>1 DEF CountedAs
    <3>3. CASE pc[c] # "send"
      <4>1. PICK i \in DOMAIN sent[c] : sent[c][i][2] = "pred"
        BY <3>3 DEF CountedAs
      <4>2. PICK j \in DOMAIN sent[c] : sent[c][j][2] = "err"
        BY <3>3 DEF CountedAs
      <4>3. ~(i > 1) /\ ~(j > 1)
        BY <3>1, <4>1, <4>2 DEF Mine, OwnAnswer
      <4>4. i = 1 /\ j = 1
        BY <3>1, <4>3
      <4> QED
        BY <4>1, <4>2, <4>4
    <3> QED
      BY <3>2, <3>3
  <2>4. /\ IsFiniteSet(Begun) /\ IsFiniteSet(Known) /\ IsFiniteSet(Preds)
        /\ IsFiniteSet(Errs) /\ IsFiniteSet(Preds \cup Errs)
    BY <2>2, FS_Subset
  <2>5. /\ Cardinality(seen("pred")) <= Cardinality(Preds)
        /\ Cardinality(seen("err")) <= Cardinality(Errs)
        /\ Cardinality(Preds \cup Errs) <= Cardinality(Known)
        /\ Cardinality(Known) <= Cardinality(Begun)
        /\ Cardinality(Begun) <= Cardinality(Spawned)
    BY <2>2, <2>4, FS_Subset
  <2>6. Cardinality(Preds \cup Errs) = Cardinality(Preds) + Cardinality(Errs)
    <3>1. Cardinality(Preds \cup Errs)
            = Cardinality(Preds) + Cardinality(Errs) - Cardinality(Preds \cap Errs)
      BY <2>4, FS_Union
    <3>2. Cardinality(Preds \cap Errs) = 0
      BY <2>3, FS_EmptySet
    <3>3. Cardinality(Preds) \in Nat /\ Cardinality(Errs) \in Nat
      BY <2>4, FS_CardinalityType
    <3> HIDE DEF Preds, Errs
    <3> QED
      BY <3>1, <3>2, <3>3
  <2> QED
    BY <2>5, <2>6 DEF Books, AnswersCounted
<1> QED
  BY <1>1, <1>2, <1>3, OwnedInit, BooksInit, ShapeInvariant, PTL DEF Spec
=============================================================================
