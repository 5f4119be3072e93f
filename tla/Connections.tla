----------------------------- MODULE Connections -----------------------------
(***************************************************************************)
(* The life of a connection of nwx_serve: the accept loop with its         *)
(* capacity check, the detached thread that handles the one request of an  *)
(* admitted connection, the answers it sends, the descriptor it closes,    *)
(* the counters behind /stats and /metrics, and the end of the process,    *)
(* which a signal brings about, or a request, or a client that has left.   *)
(*                                                                         *)
(* A request is abstracted to its kind, and the code it runs to the list   *)
(* of steps its branch makes.  Descriptors are numbers of a kernel table   *)
(* that hands out the lowest free one, so that a number that was closed    *)
(* may name another connection.                                            *)
(***************************************************************************)
EXTENDS Integers, Sequences, FiniteSets

CONSTANTS Clients,   \* connections that may be attempted
          Main,      \* the accept loop, as the sender of an answer
          Free,      \* no connection
          MaxConc,   \* --max_concurrency
          MaxFd,     \* bound: descriptors are 1..MaxFd
          MaxEvents, \* bound: rows of a streamed prediction
          Kinds      \* the kinds of request the clients send

(* The kinds: the branch of the handler a request takes.                    *)
(*   get       /healthz, /stats, /metrics, a finished reload, the default   *)
(*   denied    any refusal before the body is parsed                        *)
(*   predict   a POST /predict whose rows fit the model                     *)
(*   misfit    one whose rows do not fit it, or each other                  *)
(*   badlength one whose Content-Length is no number                        *)
(*   longline  a CSV body with a line over 4096 bytes and a good line       *)
(*   longonly  a CSV body of one line over 4096 bytes                       *)
(*   raw       OPTIONS, /openapi.yaml: sent past respond, not closed        *)
(*   stream, misfitstream   the same as predict and misfit for POST         *)
(*             /predict/stream: a header and an event per row, not closed   *)
(*   badstream one whose body is refused after the header was sent          *)
(*   silent    a token of NWX_TOKENS or NWX_TOKEN that is not --token       *)
AllKinds == {"get", "denied", "predict", "misfit", "badlength", "longline",
             "longonly", "raw", "stream", "misfitstream", "badstream", "silent"}

ASSUME ClientsAssumption == IsFiniteSet(Clients) /\ Main \notin Clients /\ Free \notin Clients
ASSUME BoundsAssumption == MaxConc \in Nat \ {0} /\ MaxFd \in Nat \ {0} /\ MaxEvents \in Nat \ {0}
ASSUME KindsAssumption == Kinds \subseteq AllKinds

Events(n) == [i \in 1..n |-> "event"]

\* The steps a branch may make, in order: answers through respond ("ok", "err",
\* "pred"), direct sends ("raw", "head", "event"), and two that send nothing: an
\* exception nobody catches ("abort", line 863), and a product or a copy beyond
\* the end of a row ("beyond": the assertion of tensor.cpp:52 in a build that has
\* assertions, in others a read out of range, as at line 911 for a short row).
Scripts(k) ==
  CASE k = "get"          -> {<<"ok">>}
    [] k = "denied"       -> {<<"err">>}
    [] k = "predict"      -> {<<"pred">>}
    [] k = "misfit"       -> {<<"beyond", "pred">>}
    [] k = "badlength"    -> {<<"abort">>}
    [] k = "longline"     -> {<<"err", "pred">>}
    [] k = "longonly"     -> {<<"err", "err">>}
    [] k = "raw"          -> {<<"raw">>}
    [] k = "stream"       -> {<<"head">> \o Events(n) : n \in 1..MaxEvents}
    [] k = "misfitstream" -> {<<"head", "beyond">> \o Events(n) : n \in 1..MaxEvents}
    [] k = "badstream"    -> {<<"head", "err">>}
    [] k = "silent"       -> {<<>>}

Direct == {"raw", "head", "event"}

VARIABLES
  sock,      \* a connection as its client sees it
  table,     \* the kernel's descriptor table of the process
  fdOf,      \* the descriptor number the handler of a connection holds
  sent,      \* what was sent on a connection: <<sender, answer>>; its client
             \* reads all of it, as long as it has not left
  gone,      \* the clients that have left
  pc,        \* the program counter of each handler
  todo,      \* the steps its branch has still to make
  ignored,   \* history: the clients whose request took the silent branch
  mpc,       \* the program counter of main()
  cur,       \* the connection accept() has just returned
  g_stop,
  active_conns, requests, total_requests, pred_requests, total_errors

outside == <<gone, ignored>>
counters == <<requests, total_requests, pred_requests, total_errors>>
vars == <<sock, table, fdOf, sent, gone, pc, todo, ignored, mpc, cur, g_stop,
          active_conns, requests, total_requests, pred_requests, total_errors>>

Fds == 1..MaxFd

Init == /\ sock = [c \in Clients |-> "new"]
        /\ table = [f \in Fds |-> Free]
        /\ fdOf = [c \in Clients |-> 0]
        /\ sent = [c \in Clients |-> <<>>]
        /\ gone = {} /\ ignored = {}
        /\ pc = [c \in Clients |-> "none"]
        /\ todo = [c \in Clients |-> <<>>]
        /\ mpc = "poll" /\ cur = Free
        /\ g_stop = FALSE
        /\ active_conns = 0
        /\ requests = 0 /\ total_requests = 0
        /\ pred_requests = 0 /\ total_errors = 0

alive == mpc \notin {"exited", "killed"}

\* send() on descriptor f: the bytes go to whatever connection f names now, and
\* to nobody when it names none.  A send to a client that has left may end the
\* process instead (SigPipe, BusyKilled).
SendOn(f, from, what) ==
  sent' = IF table[f] = Free THEN sent
          ELSE [sent EXCEPT ![table[f]] = Append(@, <<from, what>>)]

\* close() on descriptor f; closing a free number fails and changes nothing.
CloseFd(f) ==
  /\ table' = [table EXCEPT ![f] = Free]
  /\ sock' = IF table[f] = Free THEN sock
             ELSE [sock EXCEPT ![table[f]] = "closed"]

-----------------------------------------------------------------------------
(* Clients and signals.                                                    *)

Connect(c) ==
  /\ alive /\ sock[c] = "new"
  /\ sock' = [sock EXCEPT ![c] = "queued"]
  /\ UNCHANGED <<table, fdOf, sent, pc, todo, mpc, cur, g_stop, active_conns,
                 counters, outside>>

\* The client of c closes its end, before or after the server has accepted it.
Hangup(c) ==
  /\ alive /\ sock[c] \in {"queued", "open"} /\ c \notin gone
  /\ gone' = gone \cup {c}
  /\ UNCHANGED <<sock, table, fdOf, sent, pc, todo, ignored, mpc, cur, g_stop,
                 active_conns, counters>>

\* The process is gone at once, with every thread.
Killed ==
  /\ mpc' = "killed"
  /\ UNCHANGED <<sock, table, fdOf, sent, pc, todo, cur, g_stop, active_conns,
                 counters, outside>>

Term ==
  /\ alive
  /\ g_stop' = TRUE
  /\ UNCHANGED <<sock, table, fdOf, sent, pc, todo, mpc, cur, active_conns,
                 counters, outside>>

-----------------------------------------------------------------------------
(* The accept loop.                                                        *)

Poll ==
  /\ mpc = "poll"
  /\ mpc' = IF g_stop THEN "exited" ELSE "accept"
  /\ UNCHANGED <<sock, table, fdOf, sent, pc, todo, cur, g_stop, active_conns,
                 counters, outside>>

\* accept() times out, is interrupted or finds no free descriptor.
AcceptNone ==
  /\ mpc = "accept"
  /\ mpc' = "poll"
  /\ UNCHANGED <<sock, table, fdOf, sent, pc, todo, cur, g_stop, active_conns,
                 counters, outside>>

LowestFree(f) == table[f] = Free /\ \A g \in 1..(f - 1) : table[g] # Free

Accept(c) ==
  /\ mpc = "accept" /\ sock[c] = "queued"
  /\ \E f \in Fds :
       /\ LowestFree(f)
       /\ table' = [table EXCEPT ![f] = c]
       /\ fdOf' = [fdOf EXCEPT ![c] = f]
  /\ sock' = [sock EXCEPT ![c] = "open"]
  /\ mpc' = "check" /\ cur' = c
  /\ UNCHANGED <<sent, pc, todo, g_stop, active_conns, counters, outside>>

\* Slip: the connection is closed before its 503 is sent.
BusyCloses ==
  /\ mpc = "check" /\ active_conns >= MaxConc
  /\ CloseFd(fdOf[cur])
  /\ mpc' = "poll" /\ cur' = Free
  /\ UNCHANGED <<fdOf, sent, pc, todo, g_stop, active_conns, counters, outside>>

\* The connection is refused: 503 busy, close.
Busy ==
  /\ mpc = "check" /\ active_conns >= MaxConc
  /\ SendOn(fdOf[cur], Main, "busy")
  /\ CloseFd(fdOf[cur])
  /\ mpc' = "poll" /\ cur' = Free
  /\ UNCHANGED <<fdOf, pc, todo, g_stop, active_conns, counters, outside>>

\* The same to a client that has left: SIGPIPE, which nothing handles.
BusyKilled ==
  /\ mpc = "check" /\ active_conns >= MaxConc
  /\ table[fdOf[cur]] \in gone
  /\ Killed

\* Slip: > for >= in the capacity check.
SpawnOneMore ==
  /\ mpc = "check" /\ active_conns <= MaxConc
  /\ active_conns' = active_conns + 1
  /\ pc' = [pc EXCEPT ![cur] = "start"]
  /\ mpc' = "poll" /\ cur' = Free
  /\ UNCHANGED <<sock, table, fdOf, sent, todo, g_stop, counters, outside>>

\* Slip: active_conns++ is left to the new thread, which has not run yet.
SpawnUncounted ==
  /\ mpc = "check" /\ active_conns < MaxConc
  /\ pc' = [pc EXCEPT ![cur] = "start"]
  /\ mpc' = "poll" /\ cur' = Free
  /\ UNCHANGED <<sock, table, fdOf, sent, todo, g_stop, active_conns, counters, outside>>

\* The connection is counted and handed to a new thread.
Spawn ==
  /\ mpc = "check" /\ active_conns < MaxConc
  /\ active_conns' = active_conns + 1
  /\ pc' = [pc EXCEPT ![cur] = "start"]
  /\ mpc' = "poll" /\ cur' = Free
  /\ UNCHANGED <<sock, table, fdOf, sent, todo, g_stop, counters, outside>>

MainStep == Poll \/ AcceptNone \/ Busy \/ BusyKilled \/ Spawn \/ \E c \in Clients : Accept(c)

-----------------------------------------------------------------------------
(* The handler of connection c.                                            *)

\* requests++
Start(c) ==
  /\ alive /\ pc[c] = "start"
  /\ requests' = requests + 1
  /\ pc' = [pc EXCEPT ![c] = "count"]
  /\ UNCHANGED <<sock, table, fdOf, sent, todo, mpc, cur, g_stop,
                 active_conns, total_requests, pred_requests, total_errors, outside>>

\* total_requests.fetch_add(1)
Count(c) ==
  /\ alive /\ pc[c] = "count"
  /\ total_requests' = total_requests + 1
  /\ pc' = [pc EXCEPT ![c] = "recv"]
  /\ UNCHANGED <<sock, table, fdOf, sent, todo, mpc, cur, g_stop,
                 active_conns, requests, pred_requests, total_errors, outside>>

\* recv() returns a request, and the branch it takes is known.
Recv(c) ==
  /\ alive /\ pc[c] = "recv"
  /\ \E k \in Kinds :
       /\ \E s \in Scripts(k) : todo' = [todo EXCEPT ![c] = s]
       /\ ignored' = IF k = "silent" THEN ignored \cup {c} ELSE ignored
  /\ pc' = [pc EXCEPT ![c] = "branch"]
  /\ UNCHANGED <<sock, table, fdOf, sent, gone, mpc, cur, g_stop, active_conns,
                 counters>>

\* Slip: no continue after the 400, so that the handler goes on to its branch.
RecvFailsGoesOn(c) ==
  /\ alive /\ pc[c] = "recv"
  /\ SendOn(fdOf[c], c, "bad")
  /\ CloseFd(fdOf[c])
  /\ todo' = [todo EXCEPT ![c] = <<"ok">>]
  /\ pc' = [pc EXCEPT ![c] = "branch"]
  /\ UNCHANGED <<fdOf, mpc, cur, g_stop, active_conns, counters, outside>>

\* recv() fails or times out: 400 bad_request, past respond.
RecvFails(c) ==
  /\ alive /\ pc[c] = "recv"
  /\ SendOn(fdOf[c], c, "bad")
  /\ CloseFd(fdOf[c])
  /\ pc' = [pc EXCEPT ![c] = "done"]
  /\ UNCHANGED <<fdOf, todo, mpc, cur, g_stop, active_conns, counters, outside>>

\* The branch ends: the thread ends without a further answer.
Leave(c) ==
  /\ alive /\ pc[c] = "branch" /\ todo[c] = <<>>
  /\ pc' = [pc EXCEPT ![c] = "done"]
  /\ UNCHANGED <<sock, table, fdOf, sent, todo, mpc, cur, g_stop,
                 active_conns, counters, outside>>

\* The next step of the branch of c is one of S.
NextIn(c, S) == alive /\ pc[c] = "branch" /\ todo[c] # <<>> /\ Head(todo[c]) \in S

\* A direct send: no error count, no close.
SendDirect(c) ==
  /\ NextIn(c, Direct)
  /\ SendOn(fdOf[c], c, Head(todo[c]))
  /\ todo' = [todo EXCEPT ![c] = Tail(@)]
  /\ UNCHANGED <<sock, table, fdOf, pc, mpc, cur, g_stop, active_conns,
                 counters, outside>>

\* What is read beyond a row is some number, and the branch goes on.
GoOn(c) ==
  /\ NextIn(c, {"beyond"})
  /\ todo' = [todo EXCEPT ![c] = Tail(@)]
  /\ UNCHANGED <<sock, table, fdOf, sent, pc, mpc, cur, g_stop, active_conns,
                 counters, outside>>

\* Slip: pred_requests++ is left until after the answer.
TallyLater(c) ==
  /\ NextIn(c, {"ok", "err", "pred"})
  /\ total_errors' = total_errors + IF Head(todo[c]) = "err" THEN 1 ELSE 0
  /\ pc' = [pc EXCEPT ![c] = "send"]
  /\ UNCHANGED <<sock, table, fdOf, sent, todo, mpc, cur, g_stop,
                 active_conns, requests, total_requests, pred_requests, outside>>

\* A prediction is counted before it is answered; respond counts an error
\* before it sends it.
Tally(c) ==
  /\ NextIn(c, {"ok", "err", "pred"})
  /\ pred_requests' = pred_requests + IF Head(todo[c]) = "pred" THEN 1 ELSE 0
  /\ total_errors' = total_errors + IF Head(todo[c]) = "err" THEN 1 ELSE 0
  /\ pc' = [pc EXCEPT ![c] = "send"]
  /\ UNCHANGED <<sock, table, fdOf, sent, todo, mpc, cur, g_stop,
                 active_conns, requests, total_requests, outside>>

Send(c) ==
  /\ alive /\ pc[c] = "send"
  /\ SendOn(fdOf[c], c, Head(todo[c]))
  /\ pc' = [pc EXCEPT ![c] = "close"]
  /\ UNCHANGED <<sock, table, fdOf, todo, mpc, cur, g_stop, active_conns,
                 counters, outside>>

Close(c) ==
  /\ alive /\ pc[c] = "close"
  /\ CloseFd(fdOf[c])
  /\ todo' = [todo EXCEPT ![c] = Tail(@)]
  /\ pc' = [pc EXCEPT ![c] = "branch"]
  /\ UNCHANGED <<fdOf, sent, mpc, cur, g_stop, active_conns, counters, outside>>

HandlerStep(c) == \/ Start(c) \/ Count(c) \/ Recv(c) \/ RecvFails(c) \/ Leave(c)
                  \/ SendDirect(c) \/ GoOn(c) \/ Tally(c) \/ Send(c) \/ Close(c)

\* An uncaught exception, a failed assertion or a fault.
Abort(c) == NextIn(c, {"abort", "beyond"}) /\ Killed

\* The handler sends to a client that has left: SIGPIPE, which nothing handles.
SigPipe(c) ==
  /\ alive /\ (pc[c] \in {"recv", "send"} \/ NextIn(c, Direct))
  /\ table[fdOf[c]] \in gone
  /\ Killed

Crash(c) == Abort(c) \/ SigPipe(c)

\* main() has returned, or the process was killed.
Exited == ~alive /\ UNCHANGED vars

Next == \/ \E c \in Clients : Connect(c) \/ Hangup(c) \/ HandlerStep(c) \/ Crash(c)
        \/ Term \/ MainStep \/ Exited

Spec == Init /\ [][Next]_vars

\* The loop comes back from accept() within its timeout and takes a waiting
\* connection rather than time out for ever; threads are scheduled.
Fairness == /\ WF_vars(MainStep)
            /\ \A c \in Clients : SF_vars(Accept(c)) /\ WF_vars(HandlerStep(c) \/ Crash(c))

FairSpec == Spec /\ Fairness

-----------------------------------------------------------------------------
Steps == {"ok", "err", "pred", "raw", "head", "event", "beyond", "abort"}
Answers == {"busy", "bad"} \cup Steps

TypeOK ==
  /\ sock \in [Clients -> {"new", "queued", "open", "closed"}]
  /\ table \in [Fds -> Clients \cup {Free}]
  /\ fdOf \in [Clients -> 0..MaxFd]
  /\ sent \in [Clients -> Seq((Clients \cup {Main}) \X Answers)]
  /\ pc \in [Clients -> {"none", "start", "count", "recv", "branch", "send",
                         "close", "done"}]
  /\ gone \subseteq Clients /\ ignored \subseteq Clients
  /\ todo \in [Clients -> Seq(Steps)]
  /\ mpc \in {"poll", "accept", "check", "exited", "killed"}
  /\ cur \in Clients \cup {Free}
  /\ g_stop \in BOOLEAN
  /\ active_conns \in 0..MaxConc
  /\ {requests, total_requests, pred_requests, total_errors} \subseteq Nat

InProgress == {c \in Clients : pc[c] \notin {"none", "done"}}

Received(c, a) == Cardinality({i \in DOMAIN sent[c] : sent[c][i][2] = a})

\* At most --max_concurrency requests are handled at a time: the check and the
\* increment are both done by the one accepting thread (serve.cpp 485-491).
ConcurrencyLimit == Cardinality(InProgress) <= MaxConc

\* A client is refused or handled, never both, and gets one answer, which was
\* sent for it: by the handler of its own connection, or by the accept loop that
\* refused it.  Whatever follows is an event of the stream that began with the
\* first send (serve.cpp 485, 608, 645-659, 798, 826).
OneOwnAnswer ==
  \A c \in Clients : \A i \in DOMAIN sent[c] :
    /\ sent[c][i][1] \in {c, Main}
    /\ i > 1 => sent[c][i] = <<c, "event">> /\ sent[c][1] = <<c, "head">>

\* /metrics and /stats never lag behind what clients have seen, and their
\* counters keep their order: a prediction and an error are counted after the
\* request and before the answer, and no request counts as both (serve.cpp 559,
\* 639, 702, 732-734, 927-928).
AnswersCounted ==
  LET seen(a) == {c \in Clients : Received(c, a) > 0}
  IN  /\ Cardinality(seen("pred")) <= pred_requests
      /\ Cardinality(seen("err")) <= total_errors
      /\ pred_requests + total_errors <= total_requests
      /\ total_requests <= requests /\ requests <= active_conns

\* A connection is refused only while --max_concurrency requests are being
\* handled (CHANGELOG.md:30).
BusyOnlyWhenFull ==
  [][\A c \in Clients : Received(c, "busy")' > Received(c, "busy")
       => Cardinality(InProgress) >= MaxConc]_sent

\* The answer of c has been sent, with every event of a stream.
Served(c) == sent[c] # <<>> /\ todo[c] = <<>>

\* Everyone who connects and stays gets a whole answer, refusals included, unless
\* the process ends or the request takes the silent branch (serve.cpp 846).  Each
\* of these lasts once it holds and connections are finitely many, so that this
\* is the same as that each is queued ~> one of them.  A server that is told to
\* stop answers nobody who is waiting (936), although CHANGELOG.md:24 speaks of
\* "graceful shutdown".
EveryoneAnswered ==
  <>[](\A c \in Clients : \/ sock[c] = "new" \/ Served(c)
                          \/ c \in gone \/ c \in ignored \/ g_stop \/ ~alive)

\* The same without the exception: a request with any of the tokens is answered,
\* for "`NWX_TOKENS` (comma-separated) accepted in addition to `--token` env"
\* (CHANGELOG.md:135).
EveryTokenAnswered ==
  <>[](\A c \in Clients : \/ sock[c] = "new" \/ Served(c)
                          \/ c \in gone \/ g_stop \/ ~alive)
=============================================================================
