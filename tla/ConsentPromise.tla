--------------------------- MODULE ConsentPromise ---------------------------
(***************************************************************************)
(* What the service promises the human who answers a confirmation: every   *)
(* question is asked once and answered once; a yes pays for at most one    *)
(* action of the browser; it is handed back only if it has paid for none;  *)
(* and it can lapse at any time, but never comes back from that.           *)
(***************************************************************************)
CONSTANT Tokens

VARIABLES
    word,  \* where each question stands
    used   \* the tokens that paid for an action

promise == <<word, used>>

Words == {"unasked", "asked", "granted", "denied", "spent", "void"}

TypeOK == word \in [Tokens -> Words] /\ used \subseteq Tokens

Init ==
    /\ word = [t \in Tokens |-> "unasked"]
    /\ used = {}

\* The one way from one word to another, for a single token.
Moves(t, from, to) ==
    /\ word[t] = from
    /\ word' = [word EXCEPT ![t] = to]
    /\ UNCHANGED used

Ask(t)    == Moves(t, "unasked", "asked")
Grant(t)  == Moves(t, "asked", "granted")
Deny(t)   == Moves(t, "asked", "denied")
Spend(t)  == Moves(t, "granted", "spent")
Refund(t) == t \notin used /\ Moves(t, "spent", "granted")

\* A window closes, a human takes the session over, the session or the service ends.
Lapse(T) ==
    /\ \A t \in T : word[t] # "unasked"
    /\ word' = [t \in Tokens |-> IF t \in T THEN "void" ELSE word[t]]
    /\ UNCHANGED used

\* The browser does what the token paid for.
Act(t) ==
    /\ word[t] = "spent" /\ t \notin used
    /\ used' = used \cup {t}
    /\ UNCHANGED word

Next ==
    \/ \E t \in Tokens : Ask(t) \/ Grant(t) \/ Deny(t) \/ Spend(t) \/ Refund(t) \/ Act(t)
    \/ \E T \in SUBSET Tokens : Lapse(T)

Spec == Init /\ [][Next]_promise
=============================================================================
