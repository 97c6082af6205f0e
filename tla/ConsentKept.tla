----------------------------- MODULE ConsentKept -----------------------------
(***************************************************************************)
(* Consent implements ConsentPromise: where a question stands is read off  *)
(* the store, the session it belongs to and the command in flight.         *)
(***************************************************************************)
EXTENDS Consent

\* An approval record that the service would still act on.
Honoured(t) ==
    /\ Live(t)
    /\ approval[t].sid \in LiveSessions
    /\ approval[t].epoch = epoch[approval[t].sid]

InFlight(t) == cmd.stage \in {"dispatched", "completing"} /\ cmd.token = t

Standing == [pending |-> "asked", approved |-> "granted", denied |-> "denied",
             consumed |-> "spent"]

WordOf(t) ==
    IF answer[t].word = "unasked" THEN "unasked"
    ELSE IF InFlight(t) THEN "spent"
    ELSE IF Honoured(t) THEN Standing[approval[t].state]
    ELSE "void"

Promise == INSTANCE ConsentPromise
    WITH word <- [t \in Tokens |-> WordOf(t)],
         used <- {t \in Tokens : \E e \in effects : e.token = t}

\* Every behaviour of the service keeps the promise: each step of the code is
\* one step of the promise, or none.
PromiseKept == Promise!Spec
=============================================================================
