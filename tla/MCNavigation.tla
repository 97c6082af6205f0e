----------------------------- MODULE MCNavigation -----------------------------
\* Two requests and one client id, in a journal that holds two records.
EXTENDS Navigation

CONSTANTS c1, c2, o1
TwoRequests == {c1, c2}
OneId == {o1}
TwoArguments == {"a", "b"}
=============================================================================
