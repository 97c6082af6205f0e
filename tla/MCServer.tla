------------------------------ MODULE MCServer ------------------------------
(***************************************************************************)
(* Small instances of two parts that share no state in these models: the   *)
(* authorization server and public reading.  Every behaviour is one of one *)
(* part; the other stays in one initial state.                             *)
(***************************************************************************)
EXTENDS Grants, Reader, TLC

VARIABLE part  \* the part that this behaviour is about

\* Nonces, grants and tokens are drawn at random: their names mean nothing.
Pools == Permutations(Forms) \cup Permutations(GrantIds) \cup Permutations(Pairs)

ServerInit ==
    /\ part \in {"grants", "reader"} /\ Init /\ Init_Reader
    /\ part # "grants" => EmptyStore /\ resource = CHOOSE r \in Resources : TRUE

ServerNext ==
    \/ part = "grants" /\ Next /\ UNCHANGED <<part, readVars>>
    \/ part = "reader" /\ Next_Reader /\ UNCHANGED <<part, vars>>

ServerSpec == ServerInit /\ [][ServerNext]_<<part, vars, readVars>>
=============================================================================
