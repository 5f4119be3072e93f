------------------------------ MODULE HotReload ------------------------------
(***************************************************************************)
(* The served model of nwx_serve: the accept loop of main(), the SIGHUP    *)
(* and SIGTERM flags, the mutex bmtx, POST /reload, and the handlers that  *)
(* copy the bundle b (POST /predict, POST /predict/stream, GET /signature).*)
(*                                                                         *)
(* A bundle is a pair of halves, the two ends of the file save_bundle      *)
(* writes and load_bundle reads in order; each half carries the version    *)
(* that wrote it, 0 for bytes that no finished save wrote.  A bundle is    *)
(* whole when both halves agree.  Reading, installing and copying a bundle *)
(* take two steps each, so that what bmtx excludes is visible.             *)
(***************************************************************************)
EXTENDS Integers

CONSTANTS Handlers,    \* connections, each served by one detached thread
          Main,        \* the thread that runs the accept loop
          NoThread,    \* bmtx is free
          MaxConc,     \* --max_concurrency
          MaxVersion,  \* bound: how many versions are ever deployed
          Encrypted    \* TRUE: the served path names a .enc file

Threads == Handlers \cup {Main}

ASSUME ThreadsAssumption == Main \notin Handlers /\ NoThread \notin Threads
ASSUME BoundsAssumption == MaxConc \in Nat \ {0} /\ MaxVersion \in Nat \ {0}
ASSUME EncryptedAssumption == Encrypted \in BOOLEAN

Versions == 0..MaxVersion
Bundle == [head : Versions, tail : Versions]
Whole(v) == [head |-> v, tail |-> v]
WithHead(x, v) == [head |-> v, tail |-> x.tail]
WithTail(x, v) == [head |-> x.head, tail |-> v]

VARIABLES
  inode,     \* the files that were ever deployed: contents per inode
  name,      \* the inode the served path names, 0 when there is no file
  latest,    \* the last version whose deployment has begun
  writer,    \* progress of a save_bundle onto the served path; "none" where
             \* bundles are deployed by rename of a finished file over it
  g_reload, g_stop,
  active_conns,
  bmtx, b,
  pc,
  fd,        \* the inode each loading thread has opened
  nb,        \* the local bundle of each thread: nb of a reload, lb of a copy
  route,     \* what the request of each connection asks for
  status,    \* the code answered, 0 before the answer
  seen,      \* history: the version deployed when the request was read
  newest,    \* history: the newest version any answered prediction used
  floor      \* history: newest, when the connection was accepted

diskVars == <<inode, name, latest, writer>>
history  == <<seen, newest, floor>>
vars == <<inode, name, latest, writer, g_reload, g_stop, active_conns, bmtx,
          b, pc, fd, nb, route, status, seen, newest, floor>>

MainPC    == {"poll", "exchange", "accept", "lock", "open", "read1", "read2",
              "set1", "set2", "fail", "exited"}
HandlerPC == {"idle", "recv", "lock", "open", "read1", "read2", "set1", "set2",
              "fail", "copy1", "copy2", "answer", "done"}
Routes == {"none", "snapshot", "reload", "other"}

Init == /\ inode = [i \in 1..MaxVersion |-> Whole(IF i = 1 THEN 1 ELSE 0)]
        /\ name = 1 /\ latest = 1 /\ writer \in {"none", "idle"}
        /\ g_reload = FALSE /\ g_stop = FALSE
        /\ active_conns = 0
        /\ bmtx = NoThread
        /\ b = Whole(1)
        /\ pc = [t \in Threads |-> IF t = Main THEN "poll" ELSE "idle"]
        /\ fd = [t \in Threads |-> 0]
        /\ nb = [t \in Threads |-> Whole(0)]
        /\ route = [h \in Handlers |-> "none"]
        /\ status = [h \in Handlers |-> 0]
        /\ seen = [h \in Handlers |-> 0]
        /\ newest = 0
        /\ floor = [h \in Handlers |-> 0]

\* main() has not returned: the process and its detached threads run.
alive == pc[Main] # "exited"

\* Whoever deploys renames finished files over the served path.
Renamed == writer = "none"

Goto(t, l) == pc' = [pc EXCEPT ![t] = l]

-----------------------------------------------------------------------------
(* The environment: whoever deploys bundles, and the signals.              *)

\* A finished file is renamed over the served path.
Deploy ==
  /\ Renamed
  /\ latest < MaxVersion
  /\ latest' = latest + 1
  /\ inode' = [inode EXCEPT ![latest'] = Whole(latest')]
  /\ name' = latest'
  /\ UNCHANGED <<writer, g_reload, g_stop, active_conns, bmtx, b, pc, fd, nb,
                 route, status, history>>

\* The served path is unlinked: load_bundle will not open it.
Unlink ==
  /\ Renamed
  /\ name # 0
  /\ name' = 0
  /\ UNCHANGED <<inode, latest, writer, g_reload, g_stop, active_conns, bmtx,
                 b, pc, fd, nb, route, status, history>>

\* save_bundle on the served path: ofstream truncates the file that is there
\* and writes it from its head to its tail.
SaveOpen ==
  /\ writer = "idle"
  /\ latest < MaxVersion
  /\ latest' = latest + 1
  /\ inode' = [inode EXCEPT ![name] = Whole(0)]
  /\ writer' = "head"
  /\ UNCHANGED <<name, g_reload, g_stop, active_conns, bmtx, b, pc, fd, nb,
                 route, status, history>>

SaveHead ==
  /\ writer = "head"
  /\ inode' = [inode EXCEPT ![name] = WithHead(inode[name], latest)]
  /\ writer' = "tail"
  /\ UNCHANGED <<name, latest, g_reload, g_stop, active_conns, bmtx, b, pc, fd,
                 nb, route, status, history>>

SaveTail ==
  /\ writer = "tail"
  /\ inode' = [inode EXCEPT ![name] = WithTail(inode[name], latest)]
  /\ writer' = "idle"
  /\ UNCHANGED <<name, latest, g_reload, g_stop, active_conns, bmtx, b, pc, fd,
                 nb, route, status, history>>

\* handle_hup and handle_term.
Hup ==
  /\ alive
  /\ g_reload' = TRUE
  /\ UNCHANGED <<diskVars, g_stop, active_conns, bmtx, b, pc, fd, nb, route,
                 status, history>>

Term ==
  /\ alive
  /\ g_stop' = TRUE
  /\ UNCHANGED <<diskVars, g_reload, active_conns, bmtx, b, pc, fd, nb, route,
                 status, history>>

-----------------------------------------------------------------------------
(* load_bundle and the assignment b = nb, by Main on SIGHUP and by the     *)
(* handler of POST /reload, both inside the lock_guard on bmtx.            *)

\* Slip: bmtx is not waited for.
LockWithoutWait(t) ==
  /\ alive /\ pc[t] = "lock"
  /\ bmtx' = t
  /\ Goto(t, IF t # Main /\ route[t] = "snapshot" THEN "copy1" ELSE "open")
  /\ UNCHANGED <<diskVars, g_reload, g_stop, active_conns, b, fd, nb, route,
                 status, history>>

Lock(t) ==
  /\ alive /\ pc[t] = "lock"
  /\ bmtx = NoThread
  /\ bmtx' = t
  /\ Goto(t, IF t # Main /\ route[t] = "snapshot" THEN "copy1" ELSE "open")
  /\ UNCHANGED <<diskVars, g_reload, g_stop, active_conns, b, fd, nb, route,
                 status, history>>

Open(t) ==
  /\ alive /\ pc[t] = "open"
  /\ fd' = [fd EXCEPT ![t] = name]
  /\ Goto(t, IF name = 0 THEN "fail" ELSE "read1")
  /\ UNCHANGED <<diskVars, g_reload, g_stop, active_conns, bmtx, b, nb, route,
                 status, history>>

\* What load_bundle makes of the stored bytes.  A reload reads the served
\* path itself, ciphertext if it was encrypted, and checks nothing it reads.
Bytes(v) == IF Encrypted THEN 0 ELSE v

Read1(t) ==
  /\ alive /\ pc[t] = "read1"
  /\ nb' = [nb EXCEPT ![t] = WithHead(nb[t], Bytes(inode[fd[t]].head))]
  /\ Goto(t, "read2")
  /\ UNCHANGED <<diskVars, g_reload, g_stop, active_conns, bmtx, b, fd, route,
                 status, history>>

\* Slip: the lock_guard's scope closes after load_bundle, before b = nb.
Read2Unlocks(t) ==
  /\ alive /\ pc[t] = "read2"
  /\ nb' = [nb EXCEPT ![t] = WithTail(nb[t], Bytes(inode[fd[t]].tail))]
  /\ bmtx' = NoThread
  /\ Goto(t, "set1")
  /\ UNCHANGED <<diskVars, g_reload, g_stop, active_conns, b, fd, route,
                 status, history>>

Read2(t) ==
  /\ alive /\ pc[t] = "read2"
  /\ nb' = [nb EXCEPT ![t] = WithTail(nb[t], Bytes(inode[fd[t]].tail))]
  /\ Goto(t, "set1")
  /\ UNCHANGED <<diskVars, g_reload, g_stop, active_conns, bmtx, b, fd, route,
                 status, history>>

Set1(t) ==
  /\ alive /\ pc[t] = "set1"
  /\ b' = WithHead(b, nb[t].head)
  /\ Goto(t, "set2")
  /\ UNCHANGED <<diskVars, g_reload, g_stop, active_conns, bmtx, fd, nb, route,
                 status, history>>

\* nb and its ifstream go out of scope.
Drop(t) == fd' = [fd EXCEPT ![t] = 0] /\ nb' = [nb EXCEPT ![t] = Whole(0)]

\* Slip: b = nb without the unlock that a lock_guard does by itself.
Set2KeepsLock(t) ==
  /\ alive /\ pc[t] = "set2"
  /\ b' = WithTail(b, nb[t].tail)
  /\ Goto(t, IF t = Main THEN "accept" ELSE "answer")
  /\ Drop(t)
  /\ UNCHANGED <<diskVars, g_reload, g_stop, active_conns, bmtx, route, status,
                 history>>

\* The last half is installed and the lock_guard goes out of scope; the
\* handler of /reload answers after that.
Set2(t) ==
  /\ alive /\ pc[t] = "set2"
  /\ b' = WithTail(b, nb[t].tail)
  /\ bmtx' = NoThread
  /\ Goto(t, IF t = Main THEN "accept" ELSE "answer")
  /\ Drop(t)
  /\ UNCHANGED <<diskVars, g_reload, g_stop, active_conns, route, status, history>>

\* Slip: the result of load_bundle is not tested before the 200.
FailAnswers200(t) ==
  /\ alive /\ pc[t] = "fail"
  /\ bmtx' = NoThread
  /\ Goto(t, IF t = Main THEN "accept" ELSE "done")
  /\ status' = IF t = Main THEN status ELSE [status EXCEPT ![t] = 200]
  /\ UNCHANGED <<diskVars, g_reload, g_stop, active_conns, b, fd, nb, route,
                 history>>

\* Slip: a hand-written unlock that the early return skips.
FailKeepsLock(t) ==
  /\ alive /\ pc[t] = "fail"
  /\ Goto(t, IF t = Main THEN "accept" ELSE "done")
  /\ status' = IF t = Main THEN status ELSE [status EXCEPT ![t] = 500]
  /\ UNCHANGED <<diskVars, g_reload, g_stop, active_conns, bmtx, b, fd, nb,
                 route, history>>

\* Slip: load_bundle reads into b itself, which a failure leaves empty.
FailForgets(t) ==
  /\ alive /\ pc[t] = "fail"
  /\ bmtx' = NoThread
  /\ b' = Whole(0)
  /\ Goto(t, IF t = Main THEN "accept" ELSE "done")
  /\ status' = IF t = Main THEN status ELSE [status EXCEPT ![t] = 500]
  /\ UNCHANGED <<diskVars, g_reload, g_stop, active_conns, fd, nb, route,
                 history>>

\* load_bundle returned false: the model is kept.  /reload answers 500 while
\* it still holds bmtx.
Fail(t) ==
  /\ alive /\ pc[t] = "fail"
  /\ bmtx' = NoThread
  /\ Goto(t, IF t = Main THEN "accept" ELSE "done")
  /\ status' = IF t = Main THEN status ELSE [status EXCEPT ![t] = 500]
  /\ UNCHANGED <<diskVars, g_reload, g_stop, active_conns, b, fd, nb, route,
                 history>>

Reload(t) == Open(t) \/ Read1(t) \/ Read2(t) \/ Set1(t) \/ Set2(t) \/ Fail(t)

-----------------------------------------------------------------------------
(* The accept loop.                                                        *)

Poll ==
  /\ pc[Main] = "poll"
  /\ Goto(Main, IF g_stop THEN "exited" ELSE "exchange")
  /\ UNCHANGED <<diskVars, g_reload, g_stop, active_conns, bmtx, b, fd, nb,
                 route, status, history>>

\* Slip: try_lock, so that a busy bmtx drops the reload just taken.
ExchangeTryLock ==
  /\ pc[Main] = "exchange"
  /\ g_reload' = FALSE
  /\ Goto(Main, IF g_reload /\ bmtx = NoThread THEN "lock" ELSE "accept")
  /\ UNCHANGED <<diskVars, g_stop, active_conns, bmtx, b, fd, nb, route, status,
                 history>>

Exchange ==
  /\ pc[Main] = "exchange"
  /\ g_reload' = FALSE
  /\ Goto(Main, IF g_reload THEN "lock" ELSE "accept")
  /\ UNCHANGED <<diskVars, g_stop, active_conns, bmtx, b, fd, nb, route, status,
                 history>>

\* accept() times out or is interrupted, or the connection is refused.
AcceptNone ==
  /\ pc[Main] = "accept"
  /\ Goto(Main, "poll")
  /\ UNCHANGED <<diskVars, g_reload, g_stop, active_conns, bmtx, b, fd, nb,
                 route, status, history>>

Accept(h) ==
  /\ pc[Main] = "accept" /\ pc[h] = "idle"
  /\ active_conns < MaxConc
  /\ active_conns' = active_conns + 1
  /\ pc' = [pc EXCEPT ![Main] = "poll", ![h] = "recv"]
  /\ floor' = [floor EXCEPT ![h] = newest]
  /\ UNCHANGED <<diskVars, g_reload, g_stop, bmtx, b, fd, nb, route, status,
                 seen, newest>>

MainStep == \/ Poll \/ Exchange \/ AcceptNone
            \/ \E h \in Handlers : Accept(h)
            \/ Lock(Main) \/ Reload(Main)

-----------------------------------------------------------------------------
(* The handlers.                                                           *)

\* Slip: active_conns++ in the thread as well as in the accept loop.
RecvCounts(h) ==
  /\ alive /\ pc[h] = "recv"
  /\ active_conns' = active_conns + 1
  /\ route' = [route EXCEPT ![h] = "other"]
  /\ Goto(h, "done")
  /\ seen' = [seen EXCEPT ![h] = name]
  /\ UNCHANGED <<diskVars, g_reload, g_stop, bmtx, b, fd, nb, status, newest,
                 floor>>

\* The request is read and routed; the routes that do not touch the bundle,
\* and the requests refused before they do, answer at once.
Recv(h) ==
  /\ alive /\ pc[h] = "recv"
  /\ \E r \in Routes \ {"none"} :
       /\ route' = [route EXCEPT ![h] = r]
       /\ Goto(h, IF r = "other" THEN "done" ELSE "lock")
  /\ seen' = [seen EXCEPT ![h] = name]
  /\ UNCHANGED <<diskVars, g_reload, g_stop, active_conns, bmtx, b, fd, nb,
                 status, newest, floor>>

\* Slip: the copy outlives the lock.
Copy1Unlocks(h) ==
  /\ alive /\ pc[h] = "copy1"
  /\ nb' = [nb EXCEPT ![h] = WithHead(nb[h], b.head)]
  /\ bmtx' = NoThread
  /\ Goto(h, "copy2")
  /\ UNCHANGED <<diskVars, g_reload, g_stop, active_conns, b, fd, route, status,
                 history>>

\* lb = b under the lock.
Copy1(h) ==
  /\ alive /\ pc[h] = "copy1"
  /\ nb' = [nb EXCEPT ![h] = WithHead(nb[h], b.head)]
  /\ Goto(h, "copy2")
  /\ UNCHANGED <<diskVars, g_reload, g_stop, active_conns, bmtx, b, fd, route,
                 status, history>>

Copy2(h) ==
  /\ alive /\ pc[h] = "copy2"
  /\ nb' = [nb EXCEPT ![h] = WithTail(nb[h], b.tail)]
  /\ bmtx' = NoThread
  /\ Goto(h, "answer")
  /\ UNCHANGED <<diskVars, g_reload, g_stop, active_conns, b, fd, route, status,
                 history>>

\* The forward pass over the copy, or the end of a reload, and the answer.
Answer(h) ==
  /\ alive /\ pc[h] = "answer"
  /\ status' = [status EXCEPT ![h] = 200]
  /\ newest' = IF route[h] = "snapshot" /\ nb[h].tail > newest
               THEN nb[h].tail ELSE newest
  /\ Goto(h, "done")
  /\ UNCHANGED <<diskVars, g_reload, g_stop, active_conns, bmtx, b, fd, nb,
                 route, seen, floor>>

HandlerStep(h) == \/ Recv(h) \/ Lock(h) \/ Reload(h)
                  \/ Copy1(h) \/ Copy2(h) \/ Answer(h)

-----------------------------------------------------------------------------
Environment == \/ Deploy \/ Unlink
               \/ SaveOpen \/ SaveHead \/ SaveTail
               \/ Hup \/ Term

\* main() has returned: nothing of the process is left to run.
Exited == ~alive /\ UNCHANGED vars

Next == \/ Environment
        \/ MainStep
        \/ \E h \in Handlers : HandlerStep(h)
        \/ Exited

Spec == Init /\ [][Next]_vars

\* accept() and recv() return within SO_RCVTIMEO and the scheduler runs every
\* thread, so each thread that can step does; a thread that waits for bmtx
\* while others take it and leave it gets it in the end.
Fairness == /\ WF_vars(MainStep)
            /\ \A h \in Handlers : WF_vars(HandlerStep(h)) /\ SF_vars(Lock(h))

FairSpec == Spec /\ Fairness

-----------------------------------------------------------------------------
TypeOK ==
  /\ inode \in [1..MaxVersion -> Bundle]
  /\ name \in Versions
  /\ latest \in 1..MaxVersion
  /\ writer \in {"none", "idle", "head", "tail"}
  /\ g_reload \in BOOLEAN /\ g_stop \in BOOLEAN
  /\ active_conns \in 0..MaxConc
  /\ bmtx \in Threads \cup {NoThread}
  /\ b \in Bundle
  /\ pc \in [Threads -> MainPC \cup HandlerPC]
  /\ fd \in [Threads -> Versions]
  /\ nb \in [Threads -> Bundle]
  /\ route \in [Handlers -> Routes]
  /\ status \in [Handlers -> {0, 200, 500}]
  /\ seen \in [Handlers -> Versions]
  /\ newest \in Versions
  /\ floor \in [Handlers -> Versions]

\* The connection h has its private copy of the model.
HasSnapshot(h) == route[h] = "snapshot" /\ pc[h] \in {"answer", "done"}

\* A prediction is computed from one whole bundle that some save finished,
\* whatever reloads run beside the copy (serve.cpp 912 against 741-743).  Like
\* the next four, this is about bundles deployed by rename: a file that is read
\* while it is saved in place gives a torn model, which is what HupRepairs is
\* about.
PredictionWhole ==
  Renamed => \A h \in Handlers :
               HasSnapshot(h) => \E v \in Versions \ {0} : nb[h] = Whole(v)

\* A 200 {"reloaded":true} means the served model is no older than the file
\* that was there when the request was read: no later reload puts an older
\* one back and no failed load is reported as done (serve.cpp 738-745).
ReloadFresh ==
  Renamed => \A h \in Handlers : route[h] = "reload" /\ status[h] = 200 =>
                                   b.head >= seen[h] /\ b.tail >= seen[h]

\* A client never sees the model go back: a prediction uses a version at least
\* as new as any prediction answered before its connection was accepted.
MonotonicReads ==
  Renamed => \A h \in Handlers : HasSnapshot(h) => nb[h].tail >= floor[h]

\* No step replaces the served model by an older one, although two reloads may
\* have opened the file in either order (serve.cpp 481 and 741-743).
NoRollback == [][Renamed => b'.head >= b.head /\ b'.tail >= b.tail]_b

\* The server is the register of ModelRegister: b.tail, the half written last,
\* is the published version, and a copy under bmtx is one atomic read of it.
SnapshotOf(h) ==
  IF ~Renamed \/ ~HasSnapshot(h) THEN 0
  ELSE IF nb[h].head = nb[h].tail THEN nb[h].tail ELSE -1

Register == INSTANCE ModelRegister
              WITH served <- IF Renamed THEN b.tail ELSE 1,
                   asked <- {h \in Handlers : Renamed /\ route[h] = "snapshot"},
                   snapshot <- [h \in Handlers |-> SnapshotOf(h)]

RegisterRefinement == Register!RSpec

\* A SIGHUP is not lost: once g_reload is set while version v is deployed, the
\* served model becomes at least v, unless the process stops or the file is
\* removed before it is read (serve.cpp 341, 481).
HupApplied ==
  \A v \in 2..MaxVersion :
    (g_reload /\ name = v) ~> (b.tail >= v \/ g_stop \/ name = 0)

\* A torn model does not stay: a SIGHUP that is pending when the last save onto
\* the served file has finished brings in what that save wrote, whole, even if
\* reloads have read the file while it was written (serve.cpp 341, 481).
HupRepairs ==
  (g_reload /\ writer = "idle" /\ latest = MaxVersion /\ name # 0)
    ~> (b = Whole(MaxVersion) \/ g_stop \/ name = 0)

\* No connection waits for ever: bmtx is released on every path, the early
\* return of a failed reload included.
Answered == \A h \in Handlers : (pc[h] = "recv") ~> (pc[h] = "done" \/ ~alive)

-----------------------------------------------------------------------------
(* The invariant the proofs need, for bundles deployed by rename.          *)

Holding == {"open", "read1", "read2", "set1", "set2", "fail", "copy1", "copy2"}
Loading == {"read1", "read2", "set1", "set2"}

\* bmtx is held by the one thread that is inside its critical section.
LockInv == \A t \in Threads : pc[t] \in Holding <=> bmtx = t

\* Every deployed file is whole.
DiskInv == /\ name \in {0, latest}
           /\ Renamed
           /\ \A i \in 1..latest : inode[i] = Whole(i)

\* The model is whole except between the two halves of an installation.
ModelInv == /\ b.head \in 1..latest /\ b.tail \in 1..latest
            /\ (\A t \in Threads : pc[t] # "set2") => b.head = b.tail
            /\ newest <= b.tail

\* A reload in progress has opened a file no older than the model.
LoadOK(t) ==
  /\ pc[t] \in Loading => /\ fd[t] \in 1..latest
                          /\ b.head <= fd[t] /\ b.tail <= fd[t]
  /\ pc[t] \in Loading \ {"read1"} => nb[t].head = fd[t]
  /\ pc[t] \in {"set1", "set2"} => nb[t].tail = fd[t]
  /\ pc[t] = "set2" => b.head = fd[t]

LoadInv == \A t \in Threads : LoadOK(t)

\* What the program counter of a handler says of its request.
RouteOK(h) ==
  /\ pc[h] \in HandlerPC
  /\ pc[h] \in {"idle", "recv"} => route[h] = "none"
  /\ pc[h] \in {"copy1", "copy2"} => route[h] = "snapshot"
  /\ pc[h] \in Loading \cup {"open", "fail"} => route[h] = "reload"
  /\ pc[h] = "lock" => route[h] \in {"snapshot", "reload"}
  /\ status[h] # 0 => pc[h] = "done"

RouteInv == \A h \in Handlers : RouteOK(h)

\* The history of a request against the model it is answered from.
HistoryOK(h) ==
  /\ seen[h] <= latest
  /\ floor[h] <= newest
  /\ pc[h] \in Loading => seen[h] <= fd[h]
  /\ route[h] = "reload" /\ (pc[h] = "answer" \/ status[h] = 200)
       => seen[h] <= b.head /\ seen[h] <= b.tail
  /\ pc[h] = "copy2" => nb[h].head = b.head
  /\ HasSnapshot(h) => /\ nb[h].head = nb[h].tail
                       /\ nb[h].tail \in 1..b.tail
                       /\ floor[h] <= nb[h].tail

HistoryInv == \A h \in Handlers : HistoryOK(h)

IInv == /\ TypeOK /\ pc[Main] \in MainPC
        /\ LockInv /\ DiskInv /\ ModelInv /\ LoadInv /\ RouteInv /\ HistoryInv
=============================================================================
