--------------------------- MODULE MCSharedForward ---------------------------
EXTENDS SharedForward
CONSTANTS h1, h2, g1, g2
\* Two requests of the HTTP server, a unary call and a stream of two messages.
MCCalls == {h1, h2, g1, g2}
MCMessages == [c \in MCCalls |-> IF c = g2 THEN 2 ELSE 1]
=============================================================================
