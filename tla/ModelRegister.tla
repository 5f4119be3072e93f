---------------------------- MODULE ModelRegister ----------------------------
(***************************************************************************)
(* What the server promises about the model it serves: one register that   *)
(* holds the version of a bundle, replaced only by a version at least as   *)
(* new, and predictions that each read it once, at one instant between     *)
(* the arrival of the request and its answer.  HotReload implements it.    *)
(***************************************************************************)
EXTENDS Integers

CONSTANT Handlers     \* the connections the server may handle

VARIABLES served,     \* the version every prediction that starts now uses
          asked,      \* the connections whose request needs the model
          snapshot    \* the version each of them has read, 0 before it does

rvars == <<served, asked, snapshot>>

RInit == /\ served = 1
         /\ asked = {}
         /\ snapshot = [h \in Handlers |-> 0]

\* A reload, by SIGHUP or by POST /reload, replaces the model.
Publish == /\ served' \in Nat
           /\ served' >= served
           /\ UNCHANGED <<asked, snapshot>>

\* A request that needs the model has been read.
Ask(h) == /\ h \notin asked
          /\ asked' = asked \cup {h}
          /\ UNCHANGED <<served, snapshot>>

\* The request takes its one copy of the model.
Take(h) == /\ h \in asked /\ snapshot[h] = 0
           /\ snapshot' = [snapshot EXCEPT ![h] = served]
           /\ UNCHANGED <<served, asked>>

RNext == Publish \/ \E h \in Handlers : Ask(h) \/ Take(h)

RSpec == RInit /\ [][RNext]_rvars
=============================================================================
