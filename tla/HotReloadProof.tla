--------------------------- MODULE HotReloadProof ---------------------------
(***************************************************************************)
(* Proofs about HotReload, for every set of connections, every number of   *)
(* deployed versions and every --max_concurrency.                          *)
(***************************************************************************)
EXTENDS HotReload, TLAPS

-----------------------------------------------------------------------------
(* Type correctness, in every deployment mode.                             *)

\* A thread that reads has opened an existing file.
OpenedInv == \A t \in Threads : pc[t] \in {"read1", "read2"} => fd[t] # 0

TypeInv == TypeOK /\ OpenedInv

LEMMA TypeInit == Init => TypeInv
<1> SUFFICES ASSUME Init PROVE TypeInv
  OBVIOUS
<1>1. Whole(0) \in Bundle /\ Whole(1) \in Bundle
  BY BoundsAssumption DEF Versions, Whole, Bundle
<1>2. inode \in [1..MaxVersion -> Bundle]
  BY <1>1 DEF Init
<1>3. pc \in [Threads -> MainPC \cup HandlerPC]
  BY DEF Init, MainPC, HandlerPC
<1>4. OpenedInv
  BY DEF Init, OpenedInv
<1>5. b \in Bundle /\ nb \in [Threads -> Bundle]
  BY <1>1 DEF Init
<1>6. /\ route \in [Handlers -> Routes]
      /\ status \in [Handlers -> {0, 200, 500}]
      /\ seen \in [Handlers -> Versions] /\ floor \in [Handlers -> Versions]
      /\ fd \in [Threads -> Versions]
  BY BoundsAssumption DEF Init, Routes, Versions
<1>7. /\ name \in Versions /\ latest \in 1..MaxVersion
      /\ writer \in {"none", "idle", "head", "tail"}
      /\ active_conns \in 0..MaxConc /\ newest \in Versions
  BY BoundsAssumption DEF Init, Versions
<1>8. g_reload \in BOOLEAN /\ g_stop \in BOOLEAN /\ bmtx \in Threads \cup {NoThread}
  BY DEF Init
<1> QED
  BY <1>2, <1>3, <1>4, <1>5, <1>6, <1>7, <1>8 DEF TypeInv, TypeOK

LEMMA TypeStep == TypeInv /\ [Next]_vars => TypeInv'
<1> SUFFICES ASSUME TypeInv, [Next]_vars PROVE TypeInv'
  OBVIOUS
<1> USE BoundsAssumption, ThreadsAssumption
        DEF TypeInv, TypeOK, OpenedInv, Versions, MainPC, HandlerPC, Threads,
            Goto, diskVars, history
<1>1. CASE Deploy
  <2>1. Whole(latest') \in Bundle
    BY <1>1 DEF Deploy, Whole, Bundle
  <2> QED BY <1>1, <2>1 DEF Deploy
<1>2. CASE Unlink
  BY <1>2 DEF Unlink
<1>3. CASE SaveOpen
  <2>1. Whole(0) \in Bundle
    BY DEF Whole, Bundle
  <2>2. inode' \in [1..MaxVersion -> Bundle]
    BY <1>3, <2>1 DEF SaveOpen
  <2> QED BY <1>3, <2>2 DEF SaveOpen
<1>4. CASE SaveHead
  <2>1. inode' = [inode EXCEPT ![name] = WithHead(inode[name], latest)]
    BY <1>4 DEF SaveHead
  <2>2. ASSUME NEW i \in 1..MaxVersion PROVE inode'[i] \in Bundle
    <3>1. CASE i = name
      BY <2>1, <3>1 DEF WithHead, Bundle
    <3>2. CASE i # name
      BY <2>1, <3>2
    <3> QED BY <3>1, <3>2
  <2>3. inode' \in [1..MaxVersion -> Bundle]
    BY <2>1, <2>2
  <2> QED BY <1>4, <2>3 DEF SaveHead
<1>5. CASE SaveTail
  <2>1. inode' = [inode EXCEPT ![name] = WithTail(inode[name], latest)]
    BY <1>5 DEF SaveTail
  <2>2. ASSUME NEW i \in 1..MaxVersion PROVE inode'[i] \in Bundle
    <3>1. CASE i = name
      BY <2>1, <3>1 DEF WithTail, Bundle
    <3>2. CASE i # name
      BY <2>1, <3>2
    <3> QED BY <3>1, <3>2
  <2>3. inode' \in [1..MaxVersion -> Bundle]
    BY <2>1, <2>2
  <2> QED BY <1>5, <2>3 DEF SaveTail
<1>6. CASE Hup
  BY <1>6 DEF Hup
<1>7. CASE Term
  BY <1>7 DEF Term
<1>8. ASSUME NEW t \in Threads, Lock(t) PROVE TypeInv'
  BY <1>8 DEF Lock
<1>9. ASSUME NEW t \in Threads, Open(t) PROVE TypeInv'
  BY <1>9 DEF Open
<1>10. ASSUME NEW t \in Threads, Read1(t) PROVE TypeInv'
  <2>1. inode[fd[t]] \in Bundle
    BY <1>10 DEF Read1
  <2>2. Bytes(inode[fd[t]].head) \in Versions
    BY <2>1 DEF Bytes, Bundle
  <2>3. WithHead(nb[t], Bytes(inode[fd[t]].head)) \in Bundle
    BY <2>2 DEF WithHead, Bundle
  <2> QED BY <1>10, <2>3 DEF Read1
<1>11. ASSUME NEW t \in Threads, Read2(t) PROVE TypeInv'
  <2>1. inode[fd[t]] \in Bundle
    BY <1>11 DEF Read2
  <2>2. Bytes(inode[fd[t]].tail) \in Versions
    BY <2>1 DEF Bytes, Bundle
  <2>3. WithTail(nb[t], Bytes(inode[fd[t]].tail)) \in Bundle
    BY <2>2 DEF WithTail, Bundle
  <2> QED BY <1>11, <2>3 DEF Read2
<1>12. ASSUME NEW t \in Threads, Set1(t) PROVE TypeInv'
  <2>1. b' \in Bundle
    BY <1>12 DEF Set1, WithHead, Bundle
  <2> QED BY <1>12, <2>1 DEF Set1
<1>13. ASSUME NEW t \in Threads, Set2(t) PROVE TypeInv'
  <2>1. b' \in Bundle
    BY <1>13 DEF Set2, WithTail, Bundle
  <2>2. Whole(0) \in Bundle
    BY BoundsAssumption DEF Whole, Bundle, Versions
  <2> QED BY <1>13, <2>1, <2>2, BoundsAssumption DEF Set2, Drop, Versions
<1>14. ASSUME NEW t \in Threads, Fail(t) PROVE TypeInv'
  BY <1>14 DEF Fail
<1>15. CASE Poll
  BY <1>15 DEF Poll
<1>16. CASE Exchange
  BY <1>16 DEF Exchange
<1>17. CASE AcceptNone
  BY <1>17 DEF AcceptNone
<1>18. ASSUME NEW h \in Handlers, Accept(h) PROVE TypeInv'
  BY <1>18 DEF Accept
<1>19. ASSUME NEW h \in Handlers, Recv(h) PROVE TypeInv'
  BY <1>19 DEF Recv
<1>20. ASSUME NEW h \in Handlers, Copy1(h) PROVE TypeInv'
  <2>1. nb' \in [Threads -> Bundle]
    BY <1>20 DEF Copy1, WithHead, Bundle
  <2> QED BY <1>20, <2>1 DEF Copy1
<1>21. ASSUME NEW h \in Handlers, Copy2(h) PROVE TypeInv'
  <2>1. nb' \in [Threads -> Bundle]
    BY <1>21 DEF Copy2, WithTail, Bundle
  <2> QED BY <1>21, <2>1 DEF Copy2
<1>22. ASSUME NEW h \in Handlers, Answer(h) PROVE TypeInv'
  <2>1. newest' \in Versions
    BY <1>22 DEF Answer, Bundle
  <2> QED BY <1>22, <2>1 DEF Answer
<1>23. CASE UNCHANGED vars
  BY <1>23 DEF vars
<1> QED
  BY <1>1, <1>2, <1>3, <1>4, <1>5, <1>6, <1>7, <1>8, <1>9, <1>10, <1>11,
     <1>12, <1>13, <1>14, <1>15, <1>16, <1>17, <1>18, <1>19, <1>20, <1>21,
     <1>22, <1>23
  DEF Next, Environment, MainStep, HandlerStep, Reload, Exited

\* Every variable keeps its type, however bundles are deployed.
THEOREM TypeCorrect == Spec => []TypeOK
<1>1. TypeInv => TypeOK
  BY DEF TypeInv
<1> QED
  BY <1>1, TypeInit, TypeStep, PTL DEF Spec

-----------------------------------------------------------------------------
(* Bundles deployed by rename over the served path.                      *)

LEMMA IInvStep ==
  ASSUME ~Encrypted, IInv, [Next]_vars
  PROVE  IInv'
<1> USE BoundsAssumption, ThreadsAssumption DEF Threads, diskVars, history, Renamed
<1>a. TypeOK /\ TypeOK'
  BY TypeStep DEF IInv, TypeInv, OpenedInv, LoadInv, LoadOK, Loading
<1>b. /\ latest \in Nat /\ latest' \in Nat /\ name \in Nat
      /\ newest \in Nat /\ newest' \in Nat
      /\ b.head \in Nat /\ b.tail \in Nat /\ b'.head \in Nat /\ b'.tail \in Nat
  BY <1>a DEF TypeOK, Versions, Bundle
<1>c. /\ \A u \in Threads : fd[u] \in Nat /\ fd'[u] \in Nat
      /\ \A u \in Threads : nb[u].head \in Nat /\ nb[u].tail \in Nat
  <2>1. fd \in [Threads -> Nat] /\ fd' \in [Threads -> Nat]
    <3>1. fd \in [Threads -> Versions] /\ fd' \in [Threads -> Versions]
      BY <1>a DEF TypeOK
    <3>2. \A v \in Versions : v \in Nat
      BY DEF Versions
    <3> HIDE DEF Threads
    <3> QED BY <3>1, <3>2
  <2>2. \A u \in Threads : nb[u] \in Bundle
    BY <1>a DEF TypeOK
  <2> QED BY <2>1, <2>2 DEF Bundle, Versions
<1>d. \A u \in Handlers : seen[u] \in Nat /\ seen'[u] \in Nat
                           /\ floor[u] \in Nat /\ floor'[u] \in Nat
  BY <1>a DEF TypeOK, Versions
<1>1. CASE Deploy
  <2>1. LockInv'
    BY <1>1 DEF Deploy, IInv, LockInv, Holding
  <2>2a. /\ latest' = latest + 1 /\ latest' \in 1..MaxVersion /\ name' = latest'
         /\ inode'[latest'] = Whole(latest')
         /\ \A i \in 1..latest : inode'[i] = inode[i]
    BY <1>a, <1>1 DEF Deploy, TypeOK
  <2>2. DiskInv'
    BY <1>b, <1>1, <2>2a DEF Deploy, IInv, DiskInv
  <2>3. ModelInv'
    BY <1>b, <1>c, <1>1, <2>2a DEF Deploy, IInv, ModelInv, LoadInv, LoadOK, HistoryInv, HistoryOK, HasSnapshot, Holding
  <2>4. LoadInv'
    <3> SUFFICES ASSUME NEW u \in Threads PROVE LoadOK(u)'
      BY DEF LoadInv
    <3>1. LoadOK(u)
      BY DEF IInv, LoadInv
    <3> QED BY <1>b, <1>c, <3>1, <1>1, <2>2a DEF Deploy, LoadOK, Loading, Holding, IInv, ModelInv, DiskInv
  <2>5. RouteInv'
    <3> SUFFICES ASSUME NEW u \in Handlers PROVE RouteOK(u)'
      BY DEF RouteInv
    <3>1. RouteOK(u)
      BY DEF IInv, RouteInv
    <3> QED BY <3>1, <1>1, <2>2a DEF Deploy, RouteOK, Loading, HandlerPC, Routes
  <2>6. HistoryInv'
    <3> SUFFICES ASSUME NEW u \in Handlers PROVE HistoryOK(u)'
      BY DEF HistoryInv
    <3>1. HistoryOK(u) /\ RouteOK(u)
      BY DEF IInv, HistoryInv, RouteInv
    <3> QED BY <1>b, <1>c, <1>d, <3>1, <1>1, <2>2a DEF Deploy, HistoryOK, RouteOK, HasSnapshot, Loading, Holding, IInv, ModelInv, DiskInv, LoadInv, LoadOK
  <2>7. pc'[Main] \in MainPC
    BY <1>1, <2>2a DEF Deploy, IInv, MainPC
  <2> QED BY <1>a, <2>1, <2>2, <2>3, <2>4, <2>5, <2>6, <2>7 DEF IInv
<1>2. CASE Unlink
  <2>1. LockInv'
    BY <1>2 DEF Unlink, IInv, LockInv, Holding
  <2>2. DiskInv'
    BY <1>b, <1>2 DEF Unlink, IInv, DiskInv
  <2>3. ModelInv'
    BY <1>b, <1>c, <1>2 DEF Unlink, IInv, ModelInv, LoadInv, LoadOK, HistoryInv, HistoryOK, HasSnapshot, Holding
  <2>4. LoadInv'
    <3> SUFFICES ASSUME NEW u \in Threads PROVE LoadOK(u)'
      BY DEF LoadInv
    <3>1. LoadOK(u)
      BY DEF IInv, LoadInv
    <3> QED BY <1>b, <1>c, <3>1, <1>2 DEF Unlink, LoadOK, Loading, Holding, IInv, ModelInv, DiskInv
  <2>5. RouteInv'
    <3> SUFFICES ASSUME NEW u \in Handlers PROVE RouteOK(u)'
      BY DEF RouteInv
    <3>1. RouteOK(u)
      BY DEF IInv, RouteInv
    <3> QED BY <3>1, <1>2 DEF Unlink, RouteOK, Loading, HandlerPC, Routes
  <2>6. HistoryInv'
    <3> SUFFICES ASSUME NEW u \in Handlers PROVE HistoryOK(u)'
      BY DEF HistoryInv
    <3>1. HistoryOK(u) /\ RouteOK(u)
      BY DEF IInv, HistoryInv, RouteInv
    <3> QED BY <1>b, <1>c, <1>d, <3>1, <1>2 DEF Unlink, HistoryOK, RouteOK, HasSnapshot, Loading, Holding, IInv, ModelInv, DiskInv, LoadInv, LoadOK
  <2>7. pc'[Main] \in MainPC
    BY <1>2 DEF Unlink, IInv, MainPC
  <2> QED BY <1>a, <2>1, <2>2, <2>3, <2>4, <2>5, <2>6, <2>7 DEF IInv
<1>3. CASE Hup
  <2>1. LockInv'
    BY <1>3 DEF Hup, IInv, LockInv, Holding
  <2>2. DiskInv'
    BY <1>b, <1>3 DEF Hup, IInv, DiskInv
  <2>3. ModelInv'
    BY <1>b, <1>c, <1>3 DEF Hup, IInv, ModelInv, LoadInv, LoadOK, HistoryInv, HistoryOK, HasSnapshot, Holding
  <2>4. LoadInv'
    <3> SUFFICES ASSUME NEW u \in Threads PROVE LoadOK(u)'
      BY DEF LoadInv
    <3>1. LoadOK(u)
      BY DEF IInv, LoadInv
    <3> QED BY <1>b, <1>c, <3>1, <1>3 DEF Hup, LoadOK, Loading, Holding, IInv, ModelInv, DiskInv
  <2>5. RouteInv'
    <3> SUFFICES ASSUME NEW u \in Handlers PROVE RouteOK(u)'
      BY DEF RouteInv
    <3>1. RouteOK(u)
      BY DEF IInv, RouteInv
    <3> QED BY <3>1, <1>3 DEF Hup, RouteOK, Loading, HandlerPC, Routes
  <2>6. HistoryInv'
    <3> SUFFICES ASSUME NEW u \in Handlers PROVE HistoryOK(u)'
      BY DEF HistoryInv
    <3>1. HistoryOK(u) /\ RouteOK(u)
      BY DEF IInv, HistoryInv, RouteInv
    <3> QED BY <1>b, <1>c, <1>d, <3>1, <1>3 DEF Hup, HistoryOK, RouteOK, HasSnapshot, Loading, Holding, IInv, ModelInv, DiskInv, LoadInv, LoadOK
  <2>7. pc'[Main] \in MainPC
    BY <1>3 DEF Hup, IInv, MainPC
  <2> QED BY <1>a, <2>1, <2>2, <2>3, <2>4, <2>5, <2>6, <2>7 DEF IInv
<1>4. CASE Term
  <2>1. LockInv'
    BY <1>4 DEF Term, IInv, LockInv, Holding
  <2>2. DiskInv'
    BY <1>b, <1>4 DEF Term, IInv, DiskInv
  <2>3. ModelInv'
    BY <1>b, <1>c, <1>4 DEF Term, IInv, ModelInv, LoadInv, LoadOK, HistoryInv, HistoryOK, HasSnapshot, Holding
  <2>4. LoadInv'
    <3> SUFFICES ASSUME NEW u \in Threads PROVE LoadOK(u)'
      BY DEF LoadInv
    <3>1. LoadOK(u)
      BY DEF IInv, LoadInv
    <3> QED BY <1>b, <1>c, <3>1, <1>4 DEF Term, LoadOK, Loading, Holding, IInv, ModelInv, DiskInv
  <2>5. RouteInv'
    <3> SUFFICES ASSUME NEW u \in Handlers PROVE RouteOK(u)'
      BY DEF RouteInv
    <3>1. RouteOK(u)
      BY DEF IInv, RouteInv
    <3> QED BY <3>1, <1>4 DEF Term, RouteOK, Loading, HandlerPC, Routes
  <2>6. HistoryInv'
    <3> SUFFICES ASSUME NEW u \in Handlers PROVE HistoryOK(u)'
      BY DEF HistoryInv
    <3>1. HistoryOK(u) /\ RouteOK(u)
      BY DEF IInv, HistoryInv, RouteInv
    <3> QED BY <1>b, <1>c, <1>d, <3>1, <1>4 DEF Term, HistoryOK, RouteOK, HasSnapshot, Loading, Holding, IInv, ModelInv, DiskInv, LoadInv, LoadOK
  <2>7. pc'[Main] \in MainPC
    BY <1>4 DEF Term, IInv, MainPC
  <2> QED BY <1>a, <2>1, <2>2, <2>3, <2>4, <2>5, <2>6, <2>7 DEF IInv
<1>5. ASSUME NEW t \in Threads, Lock(t) PROVE IInv'
  <2>a. /\ pc[t] = "lock"
        /\ pc'[t] = (IF t # Main /\ route[t] = "snapshot" THEN "copy1" ELSE "open")
        /\ \A u \in Threads \ {t} : pc'[u] = pc[u]
    BY <1>a, <1>5 DEF Lock, Goto, TypeOK
  <2>1. LockInv'
    BY <1>5, <2>a DEF Lock, IInv, LockInv, Holding
  <2>2. DiskInv'
    BY <1>b, <1>5, <2>a DEF Lock, IInv, DiskInv
  <2>3. ModelInv'
    BY <1>b, <1>c, <1>5, <2>a DEF Lock, IInv, ModelInv, LoadInv, LoadOK, HistoryInv, HistoryOK, HasSnapshot, Holding
  <2>4. LoadInv'
    <3> SUFFICES ASSUME NEW u \in Threads PROVE LoadOK(u)'
      BY DEF LoadInv
    <3>1. LoadOK(u)
      BY DEF IInv, LoadInv
    <3> QED BY <1>b, <1>c, <3>1, <1>5, <2>a DEF Lock, LoadOK, Loading, Holding, IInv, ModelInv, DiskInv
  <2>5. RouteInv'
    <3> SUFFICES ASSUME NEW u \in Handlers PROVE RouteOK(u)'
      BY DEF RouteInv
    <3>1. RouteOK(u)
      BY DEF IInv, RouteInv
    <3> QED BY <3>1, <1>5, <2>a DEF Lock, RouteOK, Loading, HandlerPC, Routes
  <2>6. HistoryInv'
    <3> SUFFICES ASSUME NEW u \in Handlers PROVE HistoryOK(u)'
      BY DEF HistoryInv
    <3>1. HistoryOK(u) /\ RouteOK(u)
      BY DEF IInv, HistoryInv, RouteInv
    <3> QED BY <1>b, <1>c, <1>d, <3>1, <1>5, <2>a DEF Lock, HistoryOK, RouteOK, HasSnapshot, Loading, Holding, IInv, ModelInv, DiskInv, LoadInv, LoadOK
  <2>7. pc'[Main] \in MainPC
    BY <1>5, <2>a DEF Lock, IInv, MainPC
  <2> QED BY <1>a, <2>1, <2>2, <2>3, <2>4, <2>5, <2>6, <2>7 DEF IInv
<1>6. ASSUME NEW t \in Threads, Open(t) PROVE IInv'
  <2>a. /\ pc[t] = "open"
        /\ pc'[t] = (IF name = 0 THEN "fail" ELSE "read1")
        /\ \A u \in Threads \ {t} : pc'[u] = pc[u]
    BY <1>a, <1>6 DEF Open, Goto, TypeOK
  <2>b. bmtx = t /\ \A u \in Threads \ {t} : pc[u] \notin Holding
    BY <2>a DEF IInv, LockInv, Holding
  <2>c. fd'[t] = name /\ \A u \in Threads \ {t} : fd'[u] = fd[u]
    BY <1>a, <1>6 DEF Open, TypeOK
  <2>1. LockInv'
    BY <1>6, <2>a, <2>b, <2>c DEF Open, IInv, LockInv, Holding
  <2>2. DiskInv'
    BY <1>b, <1>6, <2>a, <2>b, <2>c DEF Open, IInv, DiskInv
  <2>3. ModelInv'
    BY <1>b, <1>c, <1>6, <2>a, <2>b, <2>c DEF Open, IInv, ModelInv, LoadInv, LoadOK, HistoryInv, HistoryOK, HasSnapshot, Holding
  <2>4. LoadInv'
    <3> SUFFICES ASSUME NEW u \in Threads PROVE LoadOK(u)'
      BY DEF LoadInv
    <3>1. LoadOK(u)
      BY DEF IInv, LoadInv
    <3> QED BY <1>b, <1>c, <3>1, <1>6, <2>a, <2>b, <2>c DEF Open, LoadOK, Loading, Holding, IInv, ModelInv, DiskInv
  <2>5. RouteInv'
    <3> SUFFICES ASSUME NEW u \in Handlers PROVE RouteOK(u)'
      BY DEF RouteInv
    <3>1. RouteOK(u)
      BY DEF IInv, RouteInv
    <3> QED BY <3>1, <1>6, <2>a, <2>b, <2>c DEF Open, RouteOK, Loading, HandlerPC, Routes
  <2>6. HistoryInv'
    <3> SUFFICES ASSUME NEW u \in Handlers PROVE HistoryOK(u)'
      BY DEF HistoryInv
    <3>1. HistoryOK(u) /\ RouteOK(u)
      BY DEF IInv, HistoryInv, RouteInv
    <3> QED BY <1>b, <1>c, <1>d, <3>1, <1>6, <2>a, <2>b, <2>c DEF Open, HistoryOK, RouteOK, HasSnapshot, Loading, Holding, IInv, ModelInv, DiskInv, LoadInv, LoadOK
  <2>7. pc'[Main] \in MainPC
    BY <1>6, <2>a, <2>b, <2>c DEF Open, IInv, MainPC
  <2> QED BY <1>a, <2>1, <2>2, <2>3, <2>4, <2>5, <2>6, <2>7 DEF IInv
<1>7. ASSUME NEW t \in Threads, Read1(t) PROVE IInv'
  <2>a. /\ pc[t] = "read1"
        /\ pc'[t] = ("read2")
        /\ \A u \in Threads \ {t} : pc'[u] = pc[u]
    BY <1>a, <1>7 DEF Read1, Goto, TypeOK
  <2>b. bmtx = t /\ \A u \in Threads \ {t} : pc[u] \notin Holding
    BY <2>a DEF IInv, LockInv, Holding
  <2>c. \A u \in Threads \ {t} : nb'[u] = nb[u]
    BY <1>a, <1>7 DEF Read1, TypeOK
  <2>e. inode[fd[t]] = Whole(fd[t])
    BY <2>a DEF IInv, DiskInv, LoadInv, LoadOK, Loading
  <2>d. nb'[t].head = fd[t] /\ nb'[t].tail = nb[t].tail
    BY <1>a, <1>7, <2>e DEF Read1, WithHead, Bytes, Whole, TypeOK
  <2>1. LockInv'
    BY <1>7, <2>a, <2>b, <2>c, <2>d DEF Read1, IInv, LockInv, Holding
  <2>2. DiskInv'
    BY <1>b, <1>7, <2>a, <2>b, <2>c, <2>d DEF Read1, IInv, DiskInv
  <2>3. ModelInv'
    BY <1>b, <1>c, <1>7, <2>a, <2>b, <2>c, <2>d DEF Read1, IInv, ModelInv, LoadInv, LoadOK, HistoryInv, HistoryOK, HasSnapshot, Holding
  <2>4. LoadInv'
    <3> SUFFICES ASSUME NEW u \in Threads PROVE LoadOK(u)'
      BY DEF LoadInv
    <3>1. LoadOK(u)
      BY DEF IInv, LoadInv
    <3> QED BY <1>b, <1>c, <3>1, <1>7, <2>a, <2>b, <2>c, <2>d DEF Read1, LoadOK, Loading, Holding, IInv, ModelInv, DiskInv
  <2>5. RouteInv'
    <3> SUFFICES ASSUME NEW u \in Handlers PROVE RouteOK(u)'
      BY DEF RouteInv
    <3>1. RouteOK(u)
      BY DEF IInv, RouteInv
    <3> QED BY <3>1, <1>7, <2>a, <2>b, <2>c, <2>d DEF Read1, RouteOK, Loading, HandlerPC, Routes
  <2>6. HistoryInv'
    <3> SUFFICES ASSUME NEW u \in Handlers PROVE HistoryOK(u)'
      BY DEF HistoryInv
    <3>1. HistoryOK(u) /\ RouteOK(u)
      BY DEF IInv, HistoryInv, RouteInv
    <3> QED BY <1>b, <1>c, <1>d, <3>1, <1>7, <2>a, <2>b, <2>c, <2>d DEF Read1, HistoryOK, RouteOK, HasSnapshot, Loading, Holding, IInv, ModelInv, DiskInv, LoadInv, LoadOK
  <2>7. pc'[Main] \in MainPC
    BY <1>7, <2>a, <2>b, <2>c, <2>d DEF Read1, IInv, MainPC
  <2> QED BY <1>a, <2>1, <2>2, <2>3, <2>4, <2>5, <2>6, <2>7 DEF IInv
<1>8. ASSUME NEW t \in Threads, Read2(t) PROVE IInv'
  <2>a. /\ pc[t] = "read2"
        /\ pc'[t] = ("set1")
        /\ \A u \in Threads \ {t} : pc'[u] = pc[u]
    BY <1>a, <1>8 DEF Read2, Goto, TypeOK
  <2>b. bmtx = t /\ \A u \in Threads \ {t} : pc[u] \notin Holding
    BY <2>a DEF IInv, LockInv, Holding
  <2>c. \A u \in Threads \ {t} : nb'[u] = nb[u]
    BY <1>a, <1>8 DEF Read2, TypeOK
  <2>e. inode[fd[t]] = Whole(fd[t])
    BY <2>a DEF IInv, DiskInv, LoadInv, LoadOK, Loading
  <2>d. nb'[t].tail = fd[t] /\ nb'[t].head = nb[t].head
    BY <1>a, <1>8, <2>e DEF Read2, WithTail, Bytes, Whole, TypeOK
  <2>1. LockInv'
    BY <1>8, <2>a, <2>b, <2>c, <2>d DEF Read2, IInv, LockInv, Holding
  <2>2. DiskInv'
    BY <1>b, <1>8, <2>a, <2>b, <2>c, <2>d DEF Read2, IInv, DiskInv
  <2>3. ModelInv'
    BY <1>b, <1>c, <1>8, <2>a, <2>b, <2>c, <2>d DEF Read2, IInv, ModelInv, LoadInv, LoadOK, HistoryInv, HistoryOK, HasSnapshot, Holding
  <2>4. LoadInv'
    <3> SUFFICES ASSUME NEW u \in Threads PROVE LoadOK(u)'
      BY DEF LoadInv
    <3>1. LoadOK(u)
      BY DEF IInv, LoadInv
    <3> QED BY <1>b, <1>c, <3>1, <1>8, <2>a, <2>b, <2>c, <2>d DEF Read2, LoadOK, Loading, Holding, IInv, ModelInv, DiskInv
  <2>5. RouteInv'
    <3> SUFFICES ASSUME NEW u \in Handlers PROVE RouteOK(u)'
      BY DEF RouteInv
    <3>1. RouteOK(u)
      BY DEF IInv, RouteInv
    <3> QED BY <3>1, <1>8, <2>a, <2>b, <2>c, <2>d DEF Read2, RouteOK, Loading, HandlerPC, Routes
  <2>6. HistoryInv'
    <3> SUFFICES ASSUME NEW u \in Handlers PROVE HistoryOK(u)'
      BY DEF HistoryInv
    <3>1. HistoryOK(u) /\ RouteOK(u)
      BY DEF IInv, HistoryInv, RouteInv
    <3> QED BY <1>b, <1>c, <1>d, <3>1, <1>8, <2>a, <2>b, <2>c, <2>d DEF Read2, HistoryOK, RouteOK, HasSnapshot, Loading, Holding, IInv, ModelInv, DiskInv, LoadInv, LoadOK
  <2>7. pc'[Main] \in MainPC
    BY <1>8, <2>a, <2>b, <2>c, <2>d DEF Read2, IInv, MainPC
  <2> QED BY <1>a, <2>1, <2>2, <2>3, <2>4, <2>5, <2>6, <2>7 DEF IInv
<1>9. ASSUME NEW t \in Threads, Set1(t) PROVE IInv'
  <2>a. /\ pc[t] = "set1"
        /\ pc'[t] = ("set2")
        /\ \A u \in Threads \ {t} : pc'[u] = pc[u]
    BY <1>a, <1>9 DEF Set1, Goto, TypeOK
  <2>b. bmtx = t /\ \A u \in Threads \ {t} : pc[u] \notin Holding
    BY <2>a DEF IInv, LockInv, Holding
  <2>c. b'.head = nb[t].head /\ b'.tail = b.tail
    BY <1>9 DEF Set1, WithHead
  <2>d. fd[t] \in 1..latest /\ b.head <= fd[t] /\ b.tail <= fd[t]
        /\ nb[t].head = fd[t] /\ nb[t].tail = fd[t]
    BY <2>a DEF IInv, LoadInv, LoadOK, Loading
  <2>1. LockInv'
    BY <1>9, <2>a, <2>b, <2>c, <2>d DEF Set1, IInv, LockInv, Holding
  <2>2. DiskInv'
    BY <1>b, <1>9, <2>a, <2>b, <2>c, <2>d DEF Set1, IInv, DiskInv
  <2>3. ModelInv'
    BY <1>b, <1>c, <1>9, <2>a, <2>b, <2>c, <2>d DEF Set1, IInv, ModelInv, LoadInv, LoadOK, HistoryInv, HistoryOK, HasSnapshot, Holding
  <2>4. LoadInv'
    <3> SUFFICES ASSUME NEW u \in Threads PROVE LoadOK(u)'
      BY DEF LoadInv
    <3>1. LoadOK(u)
      BY DEF IInv, LoadInv
    <3> QED BY <1>b, <1>c, <3>1, <1>9, <2>a, <2>b, <2>c, <2>d DEF Set1, LoadOK, Loading, Holding, IInv, ModelInv, DiskInv
  <2>5. RouteInv'
    <3> SUFFICES ASSUME NEW u \in Handlers PROVE RouteOK(u)'
      BY DEF RouteInv
    <3>1. RouteOK(u)
      BY DEF IInv, RouteInv
    <3> QED BY <3>1, <1>9, <2>a, <2>b, <2>c, <2>d DEF Set1, RouteOK, Loading, HandlerPC, Routes
  <2>6. HistoryInv'
    <3> SUFFICES ASSUME NEW u \in Handlers PROVE HistoryOK(u)'
      BY DEF HistoryInv
    <3>1. HistoryOK(u) /\ RouteOK(u)
      BY DEF IInv, HistoryInv, RouteInv
    <3> QED BY <1>b, <1>c, <1>d, <3>1, <1>9, <2>a, <2>b, <2>c, <2>d DEF Set1, HistoryOK, RouteOK, HasSnapshot, Loading, Holding, IInv, ModelInv, DiskInv, LoadInv, LoadOK
  <2>7. pc'[Main] \in MainPC
    BY <1>9, <2>a, <2>b, <2>c, <2>d DEF Set1, IInv, MainPC
  <2> QED BY <1>a, <2>1, <2>2, <2>3, <2>4, <2>5, <2>6, <2>7 DEF IInv
<1>10. ASSUME NEW t \in Threads, Set2(t) PROVE IInv'
  <2>a. /\ pc[t] = "set2"
        /\ pc'[t] = (IF t = Main THEN "accept" ELSE "answer")
        /\ \A u \in Threads \ {t} : pc'[u] = pc[u]
    BY <1>a, <1>10 DEF Set2, Goto, TypeOK
  <2>b. bmtx = t /\ \A u \in Threads \ {t} : pc[u] \notin Holding
    BY <2>a DEF IInv, LockInv, Holding
  <2>c. b'.tail = nb[t].tail /\ b'.head = b.head
    BY <1>10 DEF Set2, WithTail
  <2>d. fd[t] \in 1..latest /\ b.head <= fd[t] /\ b.tail <= fd[t]
        /\ nb[t].head = fd[t] /\ nb[t].tail = fd[t]
    BY <2>a DEF IInv, LoadInv, LoadOK, Loading
  <2>e. \A u \in Threads \ {t} : nb'[u] = nb[u] /\ fd'[u] = fd[u]
    BY <1>10, ThreadsAssumption DEF Set2, Drop, IInv, TypeOK
  <2>1. LockInv'
    BY <1>10, <2>a, <2>b, <2>c, <2>d DEF Set2, IInv, LockInv, Holding
  <2>2. DiskInv'
    BY <1>b, <1>10, <2>a, <2>b, <2>c, <2>d DEF Set2, IInv, DiskInv
  <2>3. ModelInv'
    BY <1>b, <1>c, <1>10, <2>a, <2>b, <2>c, <2>d DEF Set2, IInv, ModelInv, LoadInv, LoadOK, HistoryInv, HistoryOK, HasSnapshot, Holding
  <2>4. LoadInv'
    <3> SUFFICES ASSUME NEW u \in Threads PROVE LoadOK(u)'
      BY DEF LoadInv
    <3>1. LoadOK(u)
      BY DEF IInv, LoadInv
    <3> QED BY <1>b, <1>c, <3>1, <1>10, <2>a, <2>b, <2>c, <2>d, <2>e DEF Set2, LoadOK, Loading, Holding, IInv, ModelInv, DiskInv
  <2>5. RouteInv'
    <3> SUFFICES ASSUME NEW u \in Handlers PROVE RouteOK(u)'
      BY DEF RouteInv
    <3>1. RouteOK(u)
      BY DEF IInv, RouteInv
    <3> QED BY <3>1, <1>10, <2>a, <2>b, <2>c, <2>d DEF Set2, RouteOK, Loading, HandlerPC, Routes
  <2>6. HistoryInv'
    <3> SUFFICES ASSUME NEW u \in Handlers PROVE HistoryOK(u)'
      BY DEF HistoryInv
    <3>1. HistoryOK(u) /\ RouteOK(u)
      BY DEF IInv, HistoryInv, RouteInv
    <3> QED BY <1>b, <1>c, <1>d, <3>1, <1>10, <2>a, <2>b, <2>c, <2>d, <2>e DEF Set2, HistoryOK, RouteOK, HasSnapshot, Loading, Holding, IInv, ModelInv, DiskInv, LoadInv, LoadOK
  <2>7. pc'[Main] \in MainPC
    BY <1>10, <2>a, <2>b, <2>c, <2>d DEF Set2, IInv, MainPC
  <2> QED BY <1>a, <2>1, <2>2, <2>3, <2>4, <2>5, <2>6, <2>7 DEF IInv
<1>11. ASSUME NEW t \in Threads, Fail(t) PROVE IInv'
  <2>a. /\ pc[t] = "fail"
        /\ pc'[t] = (IF t = Main THEN "accept" ELSE "done")
        /\ \A u \in Threads \ {t} : pc'[u] = pc[u]
    BY <1>a, <1>11 DEF Fail, Goto, TypeOK
  <2>b. bmtx = t /\ \A u \in Threads \ {t} : pc[u] \notin Holding
    BY <2>a DEF IInv, LockInv, Holding
  <2>c. \A u \in Handlers : status'[u] = IF u = t THEN 500 ELSE status[u]
    BY <1>a, <1>11, ThreadsAssumption DEF Fail, TypeOK
  <2>1. LockInv'
    BY <1>11, <2>a, <2>b, <2>c DEF Fail, IInv, LockInv, Holding
  <2>2. DiskInv'
    BY <1>b, <1>11, <2>a, <2>b, <2>c DEF Fail, IInv, DiskInv
  <2>3. ModelInv'
    BY <1>b, <1>c, <1>11, <2>a, <2>b, <2>c DEF Fail, IInv, ModelInv, LoadInv, LoadOK, HistoryInv, HistoryOK, HasSnapshot, Holding
  <2>4. LoadInv'
    <3> SUFFICES ASSUME NEW u \in Threads PROVE LoadOK(u)'
      BY DEF LoadInv
    <3>1. LoadOK(u)
      BY DEF IInv, LoadInv
    <3> QED BY <1>b, <1>c, <3>1, <1>11, <2>a, <2>b, <2>c DEF Fail, LoadOK, Loading, Holding, IInv, ModelInv, DiskInv
  <2>5. RouteInv'
    <3> SUFFICES ASSUME NEW u \in Handlers PROVE RouteOK(u)'
      BY DEF RouteInv
    <3>1. RouteOK(u)
      BY DEF IInv, RouteInv
    <3> QED BY <3>1, <1>11, <2>a, <2>b, <2>c DEF Fail, RouteOK, Loading, HandlerPC, Routes
  <2>6. HistoryInv'
    <3> SUFFICES ASSUME NEW u \in Handlers PROVE HistoryOK(u)'
      BY DEF HistoryInv
    <3>1. HistoryOK(u) /\ RouteOK(u)
      BY DEF IInv, HistoryInv, RouteInv
    <3> QED BY <1>b, <1>c, <1>d, <3>1, <1>11, <2>a, <2>b, <2>c DEF Fail, HistoryOK, RouteOK, HasSnapshot, Loading, Holding, IInv, ModelInv, DiskInv, LoadInv, LoadOK
  <2>7. pc'[Main] \in MainPC
    BY <1>11, <2>a, <2>b, <2>c DEF Fail, IInv, MainPC
  <2> QED BY <1>a, <2>1, <2>2, <2>3, <2>4, <2>5, <2>6, <2>7 DEF IInv
<1>12. CASE Poll
  <2>a. /\ pc[Main] = "poll"
        /\ pc'[Main] = (IF g_stop THEN "exited" ELSE "exchange")
        /\ \A u \in Threads \ {Main} : pc'[u] = pc[u]
    BY <1>a, <1>12 DEF Poll, Goto, TypeOK
  <2>1. LockInv'
    BY <1>12, <2>a DEF Poll, IInv, LockInv, Holding
  <2>2. DiskInv'
    BY <1>b, <1>12, <2>a DEF Poll, IInv, DiskInv
  <2>3. ModelInv'
    BY <1>b, <1>c, <1>12, <2>a DEF Poll, IInv, ModelInv, LoadInv, LoadOK, HistoryInv, HistoryOK, HasSnapshot, Holding
  <2>4. LoadInv'
    <3> SUFFICES ASSUME NEW u \in Threads PROVE LoadOK(u)'
      BY DEF LoadInv
    <3>1. LoadOK(u)
      BY DEF IInv, LoadInv
    <3> QED BY <1>b, <1>c, <3>1, <1>12, <2>a DEF Poll, LoadOK, Loading, Holding, IInv, ModelInv, DiskInv
  <2>5. RouteInv'
    <3> SUFFICES ASSUME NEW u \in Handlers PROVE RouteOK(u)'
      BY DEF RouteInv
    <3>1. RouteOK(u)
      BY DEF IInv, RouteInv
    <3> QED BY <3>1, <1>12, <2>a DEF Poll, RouteOK, Loading, HandlerPC, Routes
  <2>6. HistoryInv'
    <3> SUFFICES ASSUME NEW u \in Handlers PROVE HistoryOK(u)'
      BY DEF HistoryInv
    <3>1. HistoryOK(u) /\ RouteOK(u)
      BY DEF IInv, HistoryInv, RouteInv
    <3> QED BY <1>b, <1>c, <1>d, <3>1, <1>12, <2>a DEF Poll, HistoryOK, RouteOK, HasSnapshot, Loading, Holding, IInv, ModelInv, DiskInv, LoadInv, LoadOK
  <2>7. pc'[Main] \in MainPC
    BY <1>12, <2>a DEF Poll, IInv, MainPC
  <2> QED BY <1>a, <2>1, <2>2, <2>3, <2>4, <2>5, <2>6, <2>7 DEF IInv
<1>13. CASE Exchange
  <2>a. /\ pc[Main] = "exchange"
        /\ pc'[Main] = (IF g_reload THEN "lock" ELSE "accept")
        /\ \A u \in Threads \ {Main} : pc'[u] = pc[u]
    BY <1>a, <1>13 DEF Exchange, Goto, TypeOK
  <2>1. LockInv'
    BY <1>13, <2>a DEF Exchange, IInv, LockInv, Holding
  <2>2. DiskInv'
    BY <1>b, <1>13, <2>a DEF Exchange, IInv, DiskInv
  <2>3. ModelInv'
    BY <1>b, <1>c, <1>13, <2>a DEF Exchange, IInv, ModelInv, LoadInv, LoadOK, HistoryInv, HistoryOK, HasSnapshot, Holding
  <2>4. LoadInv'
    <3> SUFFICES ASSUME NEW u \in Threads PROVE LoadOK(u)'
      BY DEF LoadInv
    <3>1. LoadOK(u)
      BY DEF IInv, LoadInv
    <3> QED BY <1>b, <1>c, <3>1, <1>13, <2>a DEF Exchange, LoadOK, Loading, Holding, IInv, ModelInv, DiskInv
  <2>5. RouteInv'
    <3> SUFFICES ASSUME NEW u \in Handlers PROVE RouteOK(u)'
      BY DEF RouteInv
    <3>1. RouteOK(u)
      BY DEF IInv, RouteInv
    <3> QED BY <3>1, <1>13, <2>a DEF Exchange, RouteOK, Loading, HandlerPC, Routes
  <2>6. HistoryInv'
    <3> SUFFICES ASSUME NEW u \in Handlers PROVE HistoryOK(u)'
      BY DEF HistoryInv
    <3>1. HistoryOK(u) /\ RouteOK(u)
      BY DEF IInv, HistoryInv, RouteInv
    <3> QED BY <1>b, <1>c, <1>d, <3>1, <1>13, <2>a DEF Exchange, HistoryOK, RouteOK, HasSnapshot, Loading, Holding, IInv, ModelInv, DiskInv, LoadInv, LoadOK
  <2>7. pc'[Main] \in MainPC
    BY <1>13, <2>a DEF Exchange, IInv, MainPC
  <2> QED BY <1>a, <2>1, <2>2, <2>3, <2>4, <2>5, <2>6, <2>7 DEF IInv
<1>14. CASE AcceptNone
  <2>a. /\ pc[Main] = "accept"
        /\ pc'[Main] = ("poll")
        /\ \A u \in Threads \ {Main} : pc'[u] = pc[u]
    BY <1>a, <1>14 DEF AcceptNone, Goto, TypeOK
  <2>1. LockInv'
    BY <1>14, <2>a DEF AcceptNone, IInv, LockInv, Holding
  <2>2. DiskInv'
    BY <1>b, <1>14, <2>a DEF AcceptNone, IInv, DiskInv
  <2>3. ModelInv'
    BY <1>b, <1>c, <1>14, <2>a DEF AcceptNone, IInv, ModelInv, LoadInv, LoadOK, HistoryInv, HistoryOK, HasSnapshot, Holding
  <2>4. LoadInv'
    <3> SUFFICES ASSUME NEW u \in Threads PROVE LoadOK(u)'
      BY DEF LoadInv
    <3>1. LoadOK(u)
      BY DEF IInv, LoadInv
    <3> QED BY <1>b, <1>c, <3>1, <1>14, <2>a DEF AcceptNone, LoadOK, Loading, Holding, IInv, ModelInv, DiskInv
  <2>5. RouteInv'
    <3> SUFFICES ASSUME NEW u \in Handlers PROVE RouteOK(u)'
      BY DEF RouteInv
    <3>1. RouteOK(u)
      BY DEF IInv, RouteInv
    <3> QED BY <3>1, <1>14, <2>a DEF AcceptNone, RouteOK, Loading, HandlerPC, Routes
  <2>6. HistoryInv'
    <3> SUFFICES ASSUME NEW u \in Handlers PROVE HistoryOK(u)'
      BY DEF HistoryInv
    <3>1. HistoryOK(u) /\ RouteOK(u)
      BY DEF IInv, HistoryInv, RouteInv
    <3> QED BY <1>b, <1>c, <1>d, <3>1, <1>14, <2>a DEF AcceptNone, HistoryOK, RouteOK, HasSnapshot, Loading, Holding, IInv, ModelInv, DiskInv, LoadInv, LoadOK
  <2>7. pc'[Main] \in MainPC
    BY <1>14, <2>a DEF AcceptNone, IInv, MainPC
  <2> QED BY <1>a, <2>1, <2>2, <2>3, <2>4, <2>5, <2>6, <2>7 DEF IInv
<1>15. ASSUME NEW h \in Handlers, Accept(h) PROVE IInv'
  <2>a. /\ pc[Main] = "accept" /\ pc[h] = "idle" /\ h # Main
        /\ pc'[Main] = "poll" /\ pc'[h] = "recv"
        /\ \A u \in Threads \ {h, Main} : pc'[u] = pc[u]
    BY <1>a, <1>15 DEF Accept, TypeOK
  <2>c. floor'[h] = newest /\ \A u \in Handlers \ {h} : floor'[u] = floor[u]
    BY <1>a, <1>15 DEF Accept, TypeOK
  <2>1. LockInv'
    BY <1>15, <2>a, <2>c DEF Accept, IInv, LockInv, Holding
  <2>2. DiskInv'
    BY <1>b, <1>15, <2>a, <2>c DEF Accept, IInv, DiskInv
  <2>3. ModelInv'
    BY <1>b, <1>c, <1>15, <2>a, <2>c DEF Accept, IInv, ModelInv, LoadInv, LoadOK, HistoryInv, HistoryOK, HasSnapshot, Holding
  <2>4. LoadInv'
    <3> SUFFICES ASSUME NEW u \in Threads PROVE LoadOK(u)'
      BY DEF LoadInv
    <3>1. LoadOK(u)
      BY DEF IInv, LoadInv
    <3> QED BY <1>b, <1>c, <3>1, <1>15, <2>a, <2>c DEF Accept, LoadOK, Loading, Holding, IInv, ModelInv, DiskInv
  <2>5. RouteInv'
    <3> SUFFICES ASSUME NEW u \in Handlers PROVE RouteOK(u)'
      BY DEF RouteInv
    <3>1. RouteOK(u)
      BY DEF IInv, RouteInv
    <3> QED BY <3>1, <1>15, <2>a, <2>c DEF Accept, RouteOK, Loading, HandlerPC, Routes
  <2>6. HistoryInv'
    <3> SUFFICES ASSUME NEW u \in Handlers PROVE HistoryOK(u)'
      BY DEF HistoryInv
    <3>1. HistoryOK(u) /\ RouteOK(u)
      BY DEF IInv, HistoryInv, RouteInv
    <3>2. CASE u = h
      BY <1>b, <3>1, <3>2, <1>15, <2>a, <2>c
      DEF Accept, HistoryOK, RouteOK, HasSnapshot, Loading
    <3>3. CASE u # h
      <4>1. /\ pc'[u] = pc[u] /\ floor'[u] = floor[u]
            /\ UNCHANGED <<seen, newest, latest, b, nb, fd, route, status>>
        BY <3>3, <1>15, <2>a, <2>c DEF Accept
      <4> QED BY <3>1, <4>1 DEF HistoryOK, HasSnapshot
    <3> QED BY <3>2, <3>3
  <2>7. pc'[Main] \in MainPC
    BY <1>15, <2>a, <2>c DEF Accept, IInv, MainPC
  <2> QED BY <1>a, <2>1, <2>2, <2>3, <2>4, <2>5, <2>6, <2>7 DEF IInv
<1>16. ASSUME NEW h \in Handlers, Recv(h) PROVE IInv'
  <2>a. /\ pc[h] = "recv" /\ h # Main
        /\ pc'[h] = IF route'[h] = "other" THEN "done" ELSE "lock"
        /\ route'[h] \in Routes \ {"none"}
        /\ \A u \in Threads \ {h} : pc'[u] = pc[u]
        /\ \A u \in Handlers \ {h} : route'[u] = route[u]
    BY <1>a, <1>16 DEF Recv, Goto, TypeOK
  <2>c. seen'[h] = name /\ \A u \in Handlers \ {h} : seen'[u] = seen[u]
    BY <1>a, <1>16 DEF Recv, TypeOK
  <2>1. LockInv'
    BY <1>16, <2>a, <2>c DEF Recv, IInv, LockInv, Holding
  <2>2. DiskInv'
    BY <1>b, <1>16, <2>a, <2>c DEF Recv, IInv, DiskInv
  <2>3. ModelInv'
    BY <1>b, <1>c, <1>16, <2>a, <2>c DEF Recv, IInv, ModelInv, LoadInv, LoadOK, HistoryInv, HistoryOK, HasSnapshot, Holding
  <2>4. LoadInv'
    <3> SUFFICES ASSUME NEW u \in Threads PROVE LoadOK(u)'
      BY DEF LoadInv
    <3>1. LoadOK(u)
      BY DEF IInv, LoadInv
    <3> QED BY <1>b, <1>c, <3>1, <1>16, <2>a, <2>c DEF Recv, LoadOK, Loading, Holding, IInv, ModelInv, DiskInv
  <2>5. RouteInv'
    <3> SUFFICES ASSUME NEW u \in Handlers PROVE RouteOK(u)'
      BY DEF RouteInv
    <3>1. RouteOK(u)
      BY DEF IInv, RouteInv
    <3> QED BY <3>1, <1>16, <2>a, <2>c DEF Recv, RouteOK, Loading, HandlerPC, Routes
  <2>6. HistoryInv'
    <3> SUFFICES ASSUME NEW u \in Handlers PROVE HistoryOK(u)'
      BY DEF HistoryInv
    <3>1. HistoryOK(u) /\ RouteOK(u)
      BY DEF IInv, HistoryInv, RouteInv
    <3> QED BY <1>b, <1>c, <1>d, <3>1, <1>16, <2>a, <2>c DEF Recv, HistoryOK, RouteOK, HasSnapshot, Loading, Holding, IInv, ModelInv, DiskInv, LoadInv, LoadOK
  <2>7. pc'[Main] \in MainPC
    BY <1>16, <2>a, <2>c DEF Recv, IInv, MainPC
  <2> QED BY <1>a, <2>1, <2>2, <2>3, <2>4, <2>5, <2>6, <2>7 DEF IInv
<1>17. ASSUME NEW h \in Handlers, Copy1(h) PROVE IInv'
  <2>a. /\ pc[h] = "copy1"
        /\ pc'[h] = ("copy2")
        /\ \A u \in Threads \ {h} : pc'[u] = pc[u]
    BY <1>a, <1>17 DEF Copy1, Goto, TypeOK
  <2>b. bmtx = h /\ \A u \in Threads \ {h} : pc[u] \notin Holding
    BY <2>a DEF IInv, LockInv, Holding
  <2>c. \A u \in Threads \ {h} : nb'[u] = nb[u]
    BY <1>a, <1>17 DEF Copy1, TypeOK
  <2>d. nb'[h].head = b.head /\ nb'[h].tail = nb[h].tail
    BY <1>a, <1>17 DEF Copy1, WithHead, TypeOK
  <2>1. LockInv'
    BY <1>17, <2>a, <2>b, <2>c, <2>d DEF Copy1, IInv, LockInv, Holding
  <2>2. DiskInv'
    BY <1>b, <1>17, <2>a, <2>b, <2>c, <2>d DEF Copy1, IInv, DiskInv
  <2>3. ModelInv'
    BY <1>b, <1>c, <1>17, <2>a, <2>b, <2>c, <2>d DEF Copy1, IInv, ModelInv, LoadInv, LoadOK, HistoryInv, HistoryOK, HasSnapshot, Holding
  <2>4. LoadInv'
    <3> SUFFICES ASSUME NEW u \in Threads PROVE LoadOK(u)'
      BY DEF LoadInv
    <3>1. LoadOK(u)
      BY DEF IInv, LoadInv
    <3> QED BY <1>b, <1>c, <3>1, <1>17, <2>a, <2>b, <2>c, <2>d DEF Copy1, LoadOK, Loading, Holding, IInv, ModelInv, DiskInv
  <2>5. RouteInv'
    <3> SUFFICES ASSUME NEW u \in Handlers PROVE RouteOK(u)'
      BY DEF RouteInv
    <3>1. RouteOK(u)
      BY DEF IInv, RouteInv
    <3> QED BY <3>1, <1>17, <2>a, <2>b, <2>c, <2>d DEF Copy1, RouteOK, Loading, HandlerPC, Routes
  <2>6. HistoryInv'
    <3> SUFFICES ASSUME NEW u \in Handlers PROVE HistoryOK(u)'
      BY DEF HistoryInv
    <3>1. HistoryOK(u) /\ RouteOK(u)
      BY DEF IInv, HistoryInv, RouteInv
    <3> QED BY <1>b, <1>c, <1>d, <3>1, <1>17, <2>a, <2>b, <2>c, <2>d DEF Copy1, HistoryOK, RouteOK, HasSnapshot, Loading, Holding, IInv, ModelInv, DiskInv, LoadInv, LoadOK
  <2>7. pc'[Main] \in MainPC
    BY <1>17, <2>a, <2>b, <2>c, <2>d DEF Copy1, IInv, MainPC
  <2> QED BY <1>a, <2>1, <2>2, <2>3, <2>4, <2>5, <2>6, <2>7 DEF IInv
<1>18. ASSUME NEW h \in Handlers, Copy2(h) PROVE IInv'
  <2>a. /\ pc[h] = "copy2"
        /\ pc'[h] = ("answer")
        /\ \A u \in Threads \ {h} : pc'[u] = pc[u]
    BY <1>a, <1>18 DEF Copy2, Goto, TypeOK
  <2>b. bmtx = h /\ \A u \in Threads \ {h} : pc[u] \notin Holding
    BY <2>a DEF IInv, LockInv, Holding
  <2>c. \A u \in Threads \ {h} : nb'[u] = nb[u]
    BY <1>a, <1>18 DEF Copy2, TypeOK
  <2>d. nb'[h].tail = b.tail /\ nb'[h].head = nb[h].head
    BY <1>a, <1>18 DEF Copy2, WithTail, TypeOK
  <2>1. LockInv'
    BY <1>18, <2>a, <2>b, <2>c, <2>d DEF Copy2, IInv, LockInv, Holding
  <2>2. DiskInv'
    BY <1>b, <1>18, <2>a, <2>b, <2>c, <2>d DEF Copy2, IInv, DiskInv
  <2>3. ModelInv'
    BY <1>b, <1>c, <1>18, <2>a, <2>b, <2>c, <2>d DEF Copy2, IInv, ModelInv, LoadInv, LoadOK, HistoryInv, HistoryOK, HasSnapshot, Holding
  <2>4. LoadInv'
    <3> SUFFICES ASSUME NEW u \in Threads PROVE LoadOK(u)'
      BY DEF LoadInv
    <3>1. LoadOK(u)
      BY DEF IInv, LoadInv
    <3> QED BY <1>b, <1>c, <3>1, <1>18, <2>a, <2>b, <2>c, <2>d DEF Copy2, LoadOK, Loading, Holding, IInv, ModelInv, DiskInv
  <2>5. RouteInv'
    <3> SUFFICES ASSUME NEW u \in Handlers PROVE RouteOK(u)'
      BY DEF RouteInv
    <3>1. RouteOK(u)
      BY DEF IInv, RouteInv
    <3> QED BY <3>1, <1>18, <2>a, <2>b, <2>c, <2>d DEF Copy2, RouteOK, Loading, HandlerPC, Routes
  <2>6. HistoryInv'
    <3> SUFFICES ASSUME NEW u \in Handlers PROVE HistoryOK(u)'
      BY DEF HistoryInv
    <3>1. HistoryOK(u) /\ RouteOK(u)
      BY DEF IInv, HistoryInv, RouteInv
    <3> QED BY <1>b, <1>c, <1>d, <3>1, <1>18, <2>a, <2>b, <2>c, <2>d DEF Copy2, HistoryOK, RouteOK, HasSnapshot, Loading, Holding, IInv, ModelInv, DiskInv, LoadInv, LoadOK
  <2>7. pc'[Main] \in MainPC
    BY <1>18, <2>a, <2>b, <2>c, <2>d DEF Copy2, IInv, MainPC
  <2> QED BY <1>a, <2>1, <2>2, <2>3, <2>4, <2>5, <2>6, <2>7 DEF IInv
<1>19. ASSUME NEW h \in Handlers, Answer(h) PROVE IInv'
  <2>a. /\ pc[h] = "answer"
        /\ pc'[h] = ("done")
        /\ \A u \in Threads \ {h} : pc'[u] = pc[u]
    BY <1>a, <1>19 DEF Answer, Goto, TypeOK
  <2>c. \A u \in Handlers : status'[u] = IF u = h THEN 200 ELSE status[u]
    BY <1>a, <1>19 DEF Answer, TypeOK
  <2>d. newest' >= newest /\ (newest' = newest \/ (route[h] = "snapshot" /\ newest' = nb[h].tail))
    BY <1>b, <1>c, <1>19 DEF Answer
  <2>1. LockInv'
    BY <1>19, <2>a, <2>c, <2>d DEF Answer, IInv, LockInv, Holding
  <2>2. DiskInv'
    BY <1>b, <1>19, <2>a, <2>c, <2>d DEF Answer, IInv, DiskInv
  <2>3. ModelInv'
    BY <1>b, <1>c, <1>19, <2>a, <2>c, <2>d DEF Answer, IInv, ModelInv, LoadInv, LoadOK, HistoryInv, HistoryOK, HasSnapshot, Holding
  <2>4. LoadInv'
    <3> SUFFICES ASSUME NEW u \in Threads PROVE LoadOK(u)'
      BY DEF LoadInv
    <3>1. LoadOK(u)
      BY DEF IInv, LoadInv
    <3> QED BY <1>b, <1>c, <3>1, <1>19, <2>a, <2>c, <2>d DEF Answer, LoadOK, Loading, Holding, IInv, ModelInv, DiskInv
  <2>5. RouteInv'
    <3> SUFFICES ASSUME NEW u \in Handlers PROVE RouteOK(u)'
      BY DEF RouteInv
    <3>1. RouteOK(u)
      BY DEF IInv, RouteInv
    <3> QED BY <3>1, <1>19, <2>a, <2>c, <2>d DEF Answer, RouteOK, Loading, HandlerPC, Routes
  <2>6. HistoryInv'
    <3> SUFFICES ASSUME NEW u \in Handlers PROVE HistoryOK(u)'
      BY DEF HistoryInv
    <3>1. HistoryOK(u) /\ RouteOK(u)
      BY DEF IInv, HistoryInv, RouteInv
    <3> QED BY <1>b, <1>c, <1>d, <3>1, <1>19, <2>a, <2>c, <2>d DEF Answer, HistoryOK, RouteOK, HasSnapshot, Loading, Holding, IInv, ModelInv, DiskInv, LoadInv, LoadOK
  <2>7. pc'[Main] \in MainPC
    BY <1>19, <2>a, <2>c, <2>d DEF Answer, IInv, MainPC
  <2> QED BY <1>a, <2>1, <2>2, <2>3, <2>4, <2>5, <2>6, <2>7 DEF IInv
<1>20. CASE SaveOpen \/ SaveHead \/ SaveTail
  BY <1>20 DEF SaveOpen, SaveHead, SaveTail, IInv, DiskInv
<1>21. CASE UNCHANGED vars
  BY <1>21 DEF vars, IInv, TypeOK, LockInv, DiskInv, ModelInv, LoadInv, LoadOK, RouteInv, RouteOK, HistoryInv, HistoryOK, HasSnapshot
<1> QED
  BY <1>1, <1>2, <1>3, <1>4, <1>5, <1>6, <1>7, <1>8, <1>9, <1>10, <1>11, <1>12, <1>13, <1>14, <1>15, <1>16, <1>17, <1>18, <1>19, <1>20, <1>21
  DEF Next, Environment, MainStep, HandlerStep, Reload, Exited

LEMMA IInvInit == Init /\ Renamed => IInv
<1> SUFFICES ASSUME Init, Renamed PROVE IInv
  OBVIOUS
<1>1. TypeOK
  BY TypeInit DEF TypeInv
<1>2. pc[Main] = "poll" /\ \A h \in Handlers : pc[h] = "idle"
  BY ThreadsAssumption DEF Init, Threads
<1>3. LockInv /\ LoadInv
  BY <1>2, ThreadsAssumption
  DEF Init, LockInv, LoadInv, LoadOK, Holding, Loading, Threads
<1>4. DiskInv /\ ModelInv
  BY BoundsAssumption DEF Init, DiskInv, ModelInv, Whole
<1>5. RouteInv /\ HistoryInv
  BY <1>2 DEF Init, RouteInv, RouteOK, HistoryInv, HistoryOK, HasSnapshot,
              HandlerPC, Loading
<1> QED
  BY <1>1, <1>2, <1>3, <1>4, <1>5 DEF IInv, MainPC

\* Nobody changes the way bundles are deployed.
LEMMA DeploymentStep == [Next]_vars => Renamed' = Renamed
<1> SUFFICES ASSUME [Next]_vars PROVE Renamed' = Renamed
  OBVIOUS
<1>1. CASE SaveOpen \/ SaveHead \/ SaveTail
  BY <1>1 DEF SaveOpen, SaveHead, SaveTail, Renamed
<1>2. CASE ~(SaveOpen \/ SaveHead \/ SaveTail)
  <2>1. writer' = writer
    BY <1>2 DEF Next, Environment, MainStep, HandlerStep, Reload, Exited, vars,
       diskVars, Deploy, Unlink, Hup, Term, Lock, Open, Read1, Read2, Set1,
       Set2, Fail, Poll, Exchange, AcceptNone, Accept, Recv, Copy1, Copy2,
       Answer
  <2> QED BY <2>1 DEF Renamed
<1> QED
  BY <1>1, <1>2

\* The inductive invariant holds of every server whose bundles are replaced by
\* rename and served in the clear.
THEOREM Invariance ==
  ASSUME ~Encrypted
  PROVE  Spec => [](Renamed => IInv)
<1>1. (Renamed => IInv) /\ [Next]_vars => (Renamed => IInv)'
  <2> SUFFICES ASSUME Renamed => IInv, [Next]_vars, Renamed' PROVE IInv'
    OBVIOUS
  <2>1. Renamed
    BY DeploymentStep
  <2> QED BY <2>1, IInvStep
<1> QED
  BY <1>1, IInvInit, PTL DEF Spec

\* Every prediction uses one whole deployed bundle (serve.cpp 818, 912), for any
\* number of connections, reloads and deployments.
THEOREM PredictionsWhole ==
  ASSUME ~Encrypted
  PROVE  Spec => []PredictionWhole
<1>1. (Renamed => IInv) => PredictionWhole
  <2> SUFFICES ASSUME IInv, NEW h \in Handlers, HasSnapshot(h)
               PROVE  \E v \in Versions \ {0} : nb[h] = Whole(v)
    BY DEF PredictionWhole
  <2>1. nb[h].head = nb[h].tail /\ nb[h].tail \in 1..b.tail
    BY DEF IInv, HistoryInv, HistoryOK
  <2>2. nb[h] \in Bundle /\ b.tail \in Versions
    BY DEF IInv, TypeOK, Threads, Bundle, Versions
  <2>3. nb[h].tail \in Versions \ {0}
    BY <2>1, <2>2, BoundsAssumption DEF Versions
  <2>4. nb[h] = Whole(nb[h].tail)
    BY <2>1, <2>2 DEF Bundle, Whole
  <2> QED BY <2>3, <2>4
<1> QED
  BY <1>1, Invariance, PTL

\* Every acknowledged reload (738-745) has put in a bundle no older than the
\* file its request found.
THEOREM ReloadsFresh ==
  ASSUME ~Encrypted
  PROVE  Spec => []ReloadFresh
<1>1. (Renamed => IInv) => ReloadFresh
  <2> SUFFICES ASSUME IInv, NEW h \in Handlers, route[h] = "reload", status[h] = 200
               PROVE  b.head >= seen[h] /\ b.tail >= seen[h]
    BY DEF ReloadFresh
  <2>1. seen[h] <= b.head /\ seen[h] <= b.tail
    BY DEF IInv, HistoryInv, HistoryOK
  <2> QED BY <2>1 DEF IInv, TypeOK, Bundle, Versions
<1> QED
  BY <1>1, Invariance, PTL

\* No client sees the model go back (481, 738-745, 912).
THEOREM ReadsMonotonic ==
  ASSUME ~Encrypted
  PROVE  Spec => []MonotonicReads
<1>1. (Renamed => IInv) => MonotonicReads
  BY DEF IInv, HistoryInv, HistoryOK, MonotonicReads, TypeOK, Bundle, Versions, Threads
<1> QED
  BY <1>1, Invariance, PTL

\* What one step does to the served model.
LEMMA ModelStep ==
  ASSUME ~Encrypted, IInv, [Next]_vars
  PROVE  /\ b'.head >= b.head /\ b'.tail >= b.tail
         /\ b' # b => UNCHANGED route /\ bmtx # NoThread
<1>1. b.head \in Nat /\ b.tail \in Nat
  BY DEF IInv, ModelInv, TypeOK, Bundle, Versions
<1>2. ASSUME NEW t \in Threads, Set1(t)
      PROVE  b'.head >= b.head /\ b'.tail = b.tail /\ UNCHANGED route
             /\ bmtx # NoThread
  <2>1. pc[t] = "set1" /\ b' = WithHead(b, nb[t].head) /\ UNCHANGED route
    BY <1>2 DEF Set1
  <2>2. nb[t].head = fd[t] /\ b.head <= fd[t] /\ fd[t] \in 1..latest /\ bmtx = t
    BY <2>1 DEF IInv, LoadInv, LoadOK, Loading, LockInv, Holding
  <2>3. latest \in Nat
    BY BoundsAssumption DEF IInv, TypeOK
  <2> QED BY <1>1, <2>1, <2>2, <2>3, ThreadsAssumption DEF WithHead
<1>3. ASSUME NEW t \in Threads, Set2(t)
      PROVE  b'.head = b.head /\ b'.tail >= b.tail /\ UNCHANGED route
             /\ bmtx # NoThread
  <2>1. pc[t] = "set2" /\ b' = WithTail(b, nb[t].tail) /\ UNCHANGED route
    BY <1>3 DEF Set2
  <2>2. nb[t].tail = fd[t] /\ b.tail <= fd[t] /\ fd[t] \in 1..latest /\ bmtx = t
    BY <2>1 DEF IInv, LoadInv, LoadOK, Loading, LockInv, Holding
  <2>3. latest \in Nat
    BY BoundsAssumption DEF IInv, TypeOK
  <2> QED BY <1>1, <2>1, <2>2, <2>3, ThreadsAssumption DEF WithTail
<1>4. CASE \E t \in Threads : Set1(t) \/ Set2(t)
  BY <1>1, <1>2, <1>3, <1>4
<1>5. CASE ~(\E t \in Threads : Set1(t) \/ Set2(t))
  <2>1. b' = b
    BY <1>5 DEF Next, Environment, MainStep, HandlerStep, Reload, Exited, vars,
       Threads, Deploy, Unlink, SaveOpen, SaveHead, SaveTail, Hup, Term, Lock,
       Open, Read1, Read2, Fail, Poll, Exchange, AcceptNone, Accept, Recv,
       Copy1, Copy2, Answer
  <2> QED BY <1>1, <2>1
<1> QED
  BY <1>4, <1>5

\* No step puts an older model back, whatever the order in which reloads open
\* and install the file (serve.cpp 481 and 741-743).
THEOREM ModelNeverGoesBack ==
  ASSUME ~Encrypted
  PROVE  Spec => NoRollback
<1>1. (Renamed => IInv) /\ [Next]_vars
        => [Renamed => b'.head >= b.head /\ b'.tail >= b.tail]_b
  BY ModelStep
<1> QED
  BY <1>1, Invariance, PTL DEF Spec, NoRollback

-----------------------------------------------------------------------------
(* The register of ModelRegister.                                          *)

\* A step that moves thread t alone and leaves its snapshot undecided, or
\* leaves the copy it has taken, changes nothing the register can see.
LEMMA QuietStep ==
  ASSUME NEW t \in Threads, IInv, Renamed, Renamed',
         \A h \in Handlers \ {t} : pc'[h] = pc[h] /\ nb'[h] = nb[h],
         route' = route, b'.tail = b.tail,
         t \in Handlers => \/ ~HasSnapshot(t) /\ ~HasSnapshot(t)'
                           \/ HasSnapshot(t) /\ HasSnapshot(t)' /\ nb'[t] = nb[t]
  PROVE  UNCHANGED Register!rvars
<1>1. ASSUME NEW h \in Handlers PROVE SnapshotOf(h)' = SnapshotOf(h)
  <2>1. CASE h = t
    BY <2>1 DEF SnapshotOf
  <2>2. CASE h # t
    BY <2>2 DEF SnapshotOf, HasSnapshot
  <2> QED BY <2>1, <2>2
<1>2. [h \in Handlers |-> SnapshotOf(h)]' = [h \in Handlers |-> SnapshotOf(h)]
  BY <1>1
<1> QED
  BY <1>2 DEF Register!rvars

LEMMA RegisterInit == Init => Register!RInit
<1> SUFFICES ASSUME Init PROVE Register!RInit
  OBVIOUS
<1>1. b.tail = 1
  BY DEF Init, Whole
<1>2. \A h \in Handlers : route[h] = "none"
  BY DEF Init
<1>3. \A h \in Handlers : SnapshotOf(h) = 0
  BY <1>2 DEF SnapshotOf, HasSnapshot
<1> QED
  BY <1>1, <1>2, <1>3 DEF Register!RInit

LEMMA RegisterStep ==
  ASSUME ~Encrypted, Renamed, Renamed', IInv, IInv', [Next]_vars
  PROVE  [Register!RNext]_(Register!rvars)
<1> USE ThreadsAssumption DEF Threads, diskVars, history
<1>a. /\ pc \in [Threads -> MainPC \cup HandlerPC]
      /\ nb \in [Threads -> Bundle]
      /\ route \in [Handlers -> Routes]
  BY DEF IInv, TypeOK
<1>1. CASE Deploy \/ Unlink \/ SaveOpen \/ SaveHead \/ SaveTail \/ Hup \/ Term
           \/ UNCHANGED vars
  <2>1. UNCHANGED <<pc, nb, route, b>>
    BY <1>1 DEF Deploy, Unlink, SaveOpen, SaveHead, SaveTail, Hup, Term, vars
  <2> QED BY <2>1, QuietStep DEF HasSnapshot
<1>2. CASE Poll \/ Exchange \/ AcceptNone
  <2>1. UNCHANGED <<nb, route, b>> /\ \A h \in Handlers : pc'[h] = pc[h]
    BY <1>a, <1>2 DEF Poll, Exchange, AcceptNone, Goto
  <2> QED BY <2>1, QuietStep
<1>3. ASSUME NEW h \in Handlers, Accept(h) PROVE [Register!RNext]_(Register!rvars)
  <2>1. /\ UNCHANGED <<nb, route, b>>
        /\ pc[h] = "idle" /\ pc'[h] = "recv"
        /\ \A g \in Handlers \ {h} : pc'[g] = pc[g]
    BY <1>a, <1>3 DEF Accept
  <2> QED BY <2>1, QuietStep DEF HasSnapshot
<1>4. ASSUME NEW t \in Threads,
             Lock(t) \/ Open(t) \/ Read1(t) \/ Read2(t) \/ Set1(t) \/ Fail(t)
      PROVE  [Register!RNext]_(Register!rvars)
  <2>1. route' = route
    BY <1>4 DEF Lock, Open, Read1, Read2, Set1, Fail
  <2>2. b'.tail = b.tail
    BY <1>4 DEF Lock, Open, Read1, Read2, Set1, Fail, WithHead
  <2>3. \A h \in Handlers \ {t} : pc'[h] = pc[h] /\ nb'[h] = nb[h]
    BY <1>a, <1>4 DEF Lock, Open, Read1, Read2, Set1, Fail, Goto
  <2>4. /\ pc[t] \in {"lock", "open", "read1", "read2", "set1", "fail"}
        /\ pc'[t] \in {"answer", "done"} => t = Main \/ pc[t] = "fail"
    BY <1>a, <1>4 DEF Lock, Open, Read1, Read2, Set1, Fail, Goto
  <2>5. t \in Handlers /\ pc[t] = "fail" => route[t] = "reload"
    BY DEF IInv, RouteInv, RouteOK
  <2>6. t \in Handlers => ~HasSnapshot(t) /\ ~HasSnapshot(t)'
    BY <2>1, <2>4, <2>5 DEF HasSnapshot
  <2> QED BY <2>1, <2>2, <2>3, <2>6, QuietStep
<1>5. ASSUME NEW t \in Threads, Set2(t) PROVE [Register!RNext]_(Register!rvars)
  <2>0. b'.tail \in Nat
    BY BoundsAssumption DEF IInv, ModelInv, TypeOK
  <2>1. b'.tail \in Nat /\ b'.tail >= b.tail
    BY <2>0, ModelStep
  <2>2. /\ route' = route /\ pc[t] = "set2"
        /\ \A h \in Handlers \ {t} : pc'[h] = pc[h] /\ nb'[h] = nb[h]
    BY <1>a, <1>5 DEF Set2, Drop, Goto, IInv, TypeOK
  <2>3. t \in Handlers => route[t] = "reload"
    BY <2>2 DEF IInv, RouteInv, RouteOK, Loading
  <2>4. \A h \in Handlers : SnapshotOf(h)' = SnapshotOf(h)
    BY <2>2, <2>3 DEF SnapshotOf, HasSnapshot
  <2>5. Register!Publish
    BY <2>1, <2>2, <2>4 DEF Register!Publish
  <2> QED BY <2>5 DEF Register!RNext
<1>6. ASSUME NEW h \in Handlers, Recv(h) PROVE [Register!RNext]_(Register!rvars)
  <2>1. /\ UNCHANGED <<nb, b>> /\ pc[h] = "recv"
        /\ \A g \in Handlers \ {h} : pc'[g] = pc[g] /\ route'[g] = route[g]
        /\ pc'[h] = IF route'[h] = "other" THEN "done" ELSE "lock"
    BY <1>a, <1>6 DEF Recv, Goto
  <2>2. route[h] = "none"
    BY <2>1 DEF IInv, RouteInv, RouteOK
  <2>3. \A g \in Handlers : SnapshotOf(g)' = SnapshotOf(g)
    BY <2>1, <2>2 DEF SnapshotOf, HasSnapshot
  <2>4. CASE route'[h] = "snapshot"
    <3>1. Register!Ask(h)
      BY <2>1, <2>2, <2>3, <2>4 DEF Register!Ask
    <3> QED BY <3>1 DEF Register!RNext
  <2>5. CASE route'[h] # "snapshot"
    <3>1. UNCHANGED Register!rvars
      BY <2>1, <2>2, <2>3, <2>5 DEF Register!rvars
    <3> QED BY <3>1
  <2> QED BY <2>4, <2>5
<1>7. ASSUME NEW h \in Handlers, Copy1(h) PROVE [Register!RNext]_(Register!rvars)
  <2>1. /\ UNCHANGED <<route, b>>
        /\ pc[h] = "copy1" /\ pc'[h] = "copy2"
        /\ \A g \in Handlers \ {h} : pc'[g] = pc[g] /\ nb'[g] = nb[g]
    BY <1>a, <1>7 DEF Copy1, Goto
  <2> QED BY <2>1, QuietStep DEF HasSnapshot
<1>8. ASSUME NEW h \in Handlers, Copy2(h) PROVE [Register!RNext]_(Register!rvars)
  <2>1. /\ UNCHANGED <<route, b>>
        /\ pc[h] = "copy2" /\ pc'[h] = "answer"
        /\ \A g \in Handlers \ {h} : pc'[g] = pc[g] /\ nb'[g] = nb[g]
    BY <1>a, <1>8 DEF Copy2, Goto
  <2>2. nb'[h].tail = b.tail
    BY <1>a, <1>8 DEF Copy2, WithTail
  <2>3. route[h] = "snapshot"
    BY <2>1 DEF IInv, RouteInv, RouteOK
  <2>4. HasSnapshot(h)' /\ ~HasSnapshot(h)
    BY <2>1, <2>3 DEF HasSnapshot
  <2>5. nb'[h].head = nb'[h].tail
    BY <2>4 DEF IInv, HistoryInv, HistoryOK
  <2>6. SnapshotOf(h) = 0 /\ SnapshotOf(h)' = b.tail
    BY <2>2, <2>4, <2>5 DEF SnapshotOf
  <2>7. \A g \in Handlers \ {h} : SnapshotOf(g)' = SnapshotOf(g)
    BY <2>1 DEF SnapshotOf, HasSnapshot
  <2>8. Register!Take(h)
    BY <2>1, <2>3, <2>6, <2>7 DEF Register!Take
  <2> QED BY <2>8 DEF Register!RNext
<1>9. ASSUME NEW h \in Handlers, Answer(h) PROVE [Register!RNext]_(Register!rvars)
  <2>1. /\ UNCHANGED <<route, b, nb>>
        /\ pc[h] = "answer" /\ pc'[h] = "done"
        /\ \A g \in Handlers \ {h} : pc'[g] = pc[g]
    BY <1>a, <1>9 DEF Answer, Goto
  <2> QED BY <2>1, QuietStep DEF HasSnapshot
<1> QED
  BY <1>1, <1>2, <1>3, <1>4, <1>5, <1>6, <1>7, <1>8, <1>9
  DEF Next, Environment, MainStep, HandlerStep, Reload, Exited

\* The server implements the register: a prediction takes its model at one
\* instant after its request was read, and reloads only publish newer models
\* (serve.cpp 481, 703-706, 738-745, 818, 912).
THEOREM ImplementsRegister ==
  ASSUME ~Encrypted
  PROVE  Spec => RegisterRefinement
<1>1. (Renamed => IInv) /\ (Renamed => IInv)' /\ [Next]_vars
        => [Register!RNext]_(Register!rvars)
  <2> SUFFICES ASSUME Renamed => IInv, (Renamed => IInv)', [Next]_vars
               PROVE  [Register!RNext]_(Register!rvars)
    OBVIOUS
  <2>1. CASE Renamed
    <3>1. Renamed'
      BY <2>1, DeploymentStep
    <3> QED BY <2>1, <3>1, RegisterStep
  <2>2. CASE ~Renamed
    <3>1. ~Renamed'
      BY <2>2, DeploymentStep
    <3>2. \A h \in Handlers : SnapshotOf(h) = 0 /\ SnapshotOf(h)' = 0
      BY <2>2, <3>1 DEF SnapshotOf
    <3>3. UNCHANGED Register!rvars
      BY <2>2, <3>1, <3>2 DEF Register!rvars
    <3> QED BY <3>3
  <2> QED BY <2>1, <2>2
<1> QED
  BY <1>1, RegisterInit, Invariance, PTL
  DEF Spec, RegisterRefinement, Register!RSpec
=============================================================================
