---------------------------- MODULE SharedForward ----------------------------
(***************************************************************************)
(* MLP::forward and its callers.  forward leaves its intermediate results  *)
(* in the members x1, a1 and a2 of the model it is called on.  The HTTP    *)
(* handlers call it on a bundle of their own, copied under bmtx; the gRPC  *)
(* service calls it from every thread on its one bundle_, and a program    *)
(* that uses the C API from several threads on the bundle of its handle.   *)
(*                                                                         *)
(* A tensor is abstracted to the input it was computed from: a call and    *)
(* the position of its message.  A unary call has one message; a stream is *)
(* read and answered message by message.                                   *)
(***************************************************************************)
EXTENDS Naturals

CONSTANTS Calls,
          Messages,   \* per call, how many messages its client sends
          Private,    \* the calls that work on a copy of the model
          Service,    \* the name of the model the other calls share
          Nothing     \* an empty tensor

ASSUME CallsAssumption == Messages \in [Calls -> Nat] /\ Service \notin Calls
ASSUME PrivateAssumption == Private \subseteq Calls
ASSUME NothingAssumption == Nothing \notin Calls \X Nat

VARIABLES
  x1, a1, a2,  \* the members of each model
  pc,
  X,           \* the message a call is working on, and its input
  logits,      \* what forward returned
  sent,        \* how many answers a call has sent
  answer,      \* per call and position, the input its answer was computed from
  overlapped   \* history: the calls on the shared model that have run forward
               \* while another one did

layers == <<x1, a1, a2>>
vars == <<x1, a1, a2, pc, X, logits, sent, answer, overlapped>>

Models == Calls \cup {Service}
Inputs == (Calls \X Nat) \cup {Nothing}

\* Slip: the handler binds a reference to b where it copied it.
ModelByReference(c) == Service

\* The model a call computes on: lb of a handler, bundle_ of the service.
Model(c) == IF c \in Private THEN c ELSE Service

Init == /\ x1 = [m \in Models |-> Nothing]
        /\ a1 = [m \in Models |-> Nothing]
        /\ a2 = [m \in Models |-> Nothing]
        /\ pc = [c \in Calls |-> "read"]
        /\ X = [c \in Calls |-> Nothing]
        /\ logits = [c \in Calls |-> Nothing]
        /\ sent = [c \in Calls |-> 0]
        /\ answer = [c \in Calls |-> [i \in 1..Messages[c] |-> Nothing]]
        /\ overlapped = {}

Goto(c, l) == pc' = [pc EXCEPT ![c] = l]

\* The request of a unary call, or stream->Read, and the tensor made of it.
Read(c) ==
  /\ pc[c] = "read" /\ sent[c] < Messages[c]
  /\ X' = [X EXCEPT ![c] = <<c, sent[c] + 1>>]
  /\ Goto(c, "layer1")
  /\ UNCHANGED <<layers, logits, sent, answer, overlapped>>

\* A message without values is answered as it is, without a forward pass.
ReadEmpty(c) ==
  /\ pc[c] = "read" /\ sent[c] < Messages[c]
  /\ sent' = [sent EXCEPT ![c] = @ + 1]
  /\ UNCHANGED <<layers, pc, X, logits, answer, overlapped>>

\* The stream has ended, or the unary call has answered.
End(c) ==
  /\ pc[c] = "read" /\ sent[c] = Messages[c]
  /\ Goto(c, "done")
  /\ UNCHANGED <<layers, X, logits, sent, answer, overlapped>>

\* The calls that have begun a forward pass on the shared model.
Forwarding == {c \in Calls \ Private : pc[c] \in {"activate", "layer2", "return"}}

\* x1 = add_row(matmul(X, W1), b1)
Layer1(c) ==
  /\ pc[c] = "layer1"
  /\ x1' = [x1 EXCEPT ![Model(c)] = X[c]]
  /\ overlapped' = IF c \in Private \/ Forwarding = {} THEN overlapped
                   ELSE overlapped \cup Forwarding \cup {c}
  /\ Goto(c, "activate")
  /\ UNCHANGED <<a1, a2, X, logits, sent, answer>>

\* a1 = activate(x1, act)
Activate(c) ==
  /\ pc[c] = "activate"
  /\ a1' = [a1 EXCEPT ![Model(c)] = x1[Model(c)]]
  /\ Goto(c, "layer2")
  /\ UNCHANGED <<x1, a2, X, logits, sent, answer, overlapped>>

\* a2 = add_row(matmul(a1, W2), b2)
Layer2(c) ==
  /\ pc[c] = "layer2"
  /\ a2' = [a2 EXCEPT ![Model(c)] = a1[Model(c)]]
  /\ Goto(c, "return")
  /\ UNCHANGED <<x1, a1, X, logits, sent, answer, overlapped>>

\* return a2
Return(c) ==
  /\ pc[c] = "return"
  /\ logits' = [logits EXCEPT ![c] = a2[Model(c)]]
  /\ Goto(c, "write")
  /\ UNCHANGED <<layers, X, sent, answer, overlapped>>

\* softmax and the answer, in the response or by stream->Write.
Write(c) ==
  /\ pc[c] = "write"
  /\ answer' = [answer EXCEPT ![c][sent[c] + 1] = logits[c]]
  /\ sent' = [sent EXCEPT ![c] = @ + 1]
  /\ Goto(c, "read")
  /\ UNCHANGED <<layers, X, logits, overlapped>>

Step(c) == \/ Read(c) \/ ReadEmpty(c) \/ End(c)
           \/ Layer1(c) \/ Activate(c) \/ Layer2(c) \/ Return(c) \/ Write(c)

\* Every call has been answered.
Idle == (\A c \in Calls : pc[c] = "done") /\ UNCHANGED vars

Next == Idle \/ \E c \in Calls : Step(c)

Spec == Init /\ [][Next]_vars

-----------------------------------------------------------------------------
TypeOK ==
  /\ x1 \in [Models -> Inputs] /\ a1 \in [Models -> Inputs]
  /\ a2 \in [Models -> Inputs]
  /\ pc \in [Calls -> {"read", "layer1", "activate", "layer2", "return",
                       "write", "done"}]
  /\ X \in [Calls -> Inputs] /\ logits \in [Calls -> Inputs]
  /\ sent \in [Calls -> Nat]
  /\ \A c \in Calls : sent[c] <= Messages[c]
  /\ DOMAIN answer = Calls
  /\ \A c \in Calls : answer[c] \in [1..Messages[c] -> Inputs]
  /\ overlapped \subseteq Calls

\* What a call gets back at a position was computed from the rows it sent
\* there, and from nobody else's, whatever runs beside a call on a copy
\* (serve.cpp 912) and whatever ran before a call on the shared model
\* (serve_grpc.cpp 32 and 48, capi.cpp 30): forward writes each of its members
\* before it reads it (model.cpp 20-22).  Only calls that run forward on the
\* shared model at the same time are left out.
OwnRows ==
  \A c \in Calls \ overlapped : \A i \in 1..Messages[c] :
    answer[c][i] \in {Nothing, <<c, i>>}

\* The strengthening: forward passes on the shared model that are in progress
\* together are known to be, and the member that a call on its own reads next
\* was computed from the call's own rows.
Excluded ==
  \A c, d \in Forwarding : c # d => c \in overlapped

OwnLayers ==
  \A c \in Calls :
    /\ pc[c] \notin {"read", "done"} => X[c] = <<c, sent[c] + 1>> /\ sent[c] < Messages[c]
    /\ c \notin overlapped =>
         /\ pc[c] = "activate" => x1[Model(c)] = X[c]
         /\ pc[c] = "layer2" => a1[Model(c)] = X[c]
         /\ pc[c] = "return" => a2[Model(c)] = X[c]
         /\ pc[c] = "write" => logits[c] = X[c]

IInv == TypeOK /\ Excluded /\ OwnLayers /\ OwnRows
=============================================================================
