------------------------------ MODULE MCPipeline ------------------------------
EXTENDS Pipeline
CONSTANTS d1, d2
\* Two rows a dataset; the splits of the two generators differ for d1, and the
\* classes of d2 are too small for any row to be held out.
MCDatasets == {d1, d2}
MCHeldOut == [d \in MCDatasets |-> [g \in {"seeded", "drawn"} |->
                IF d = d2 THEN {} ELSE IF g = "seeded" THEN {1} ELSE {2}]]
=============================================================================
