----------------------------- MODULE MCTraining -----------------------------
EXTENDS Training, TLC
\* Five rows of two classes.
FiveRows == <<"a", "a", "a", "b", "b">>
\* Losses within the margin of each other and beyond it.
MCLosses == {4, 5, 6, NaN}
MCInf == 9
=============================================================================
