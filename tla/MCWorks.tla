------------------------------- MODULE MCWorks -------------------------------
\* Two works, three calls, every action of the human, and two failures.
EXTENDS Works

CONSTANTS s1, s2
TwoWorks == {s1, s2}
=============================================================================
