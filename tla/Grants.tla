------------------------------- MODULE Grants -------------------------------
(***************************************************************************)
(* The authorization server of oauth.py over the store: a form becomes a   *)
(* code when the administrator consents, a code becomes a grant with a     *)
(* first pair of tokens, a refresh token is exchanged for the next pair,   *)
(* and grants are revoked one by one or all at once.                       *)
(*                                                                         *)
(* Handlers run on one event loop, so one that awaits nothing runs alone.  *)
(* `running' is the handler that has made some of its writes: each write   *)
(* commits on its own unless a transaction holds them together, and        *)
(* between two of them the server may crash, the clock runs, and the       *)
(* command line's revoke-all, a process of its own, may delete grants.     *)
(*                                                                         *)
(* A row whose time has come is the same as none to every reader, so the   *)
(* store's periodic removal of such rows is not a step.  A form and the    *)
(* code it turns into have one name here; so have the access and the       *)
(* refresh token of one issue().                                           *)
(***************************************************************************)
EXTENDS Naturals

CONSTANTS
    Forms,       \* pool of authorization nonces, each random and used once
    GrantIds,    \* pool of grant ids, likewise
    Pairs,       \* pool of token pairs, likewise
    Resources,   \* what cfg.resource may be when the server starts
    NoForm, NoGrant, NoResource,
    FormTTL,     \* 300
    CodeTTL,     \* 60
    AccessTTL,   \* cfg.access_ttl
    RefreshTTL,  \* cfg.refresh_ttl: of a refresh token and, each time anew, of its grant
    GrantMaxTTL, \* cfg.grant_max_ttl: of a grant, from its creation
    MaxTime      \* bound: the clock

ASSUME GrantConstants ==
    /\ NoForm \notin Forms /\ NoGrant \notin GrantIds /\ NoResource \notin Resources
    /\ FormTTL \in Nat \ {0} /\ CodeTTL \in Nat \ {0} /\ AccessTTL \in Nat \ {0}
    /\ RefreshTTL \in Nat \ {0} /\ GrantMaxTTL \in Nat /\ RefreshTTL <= GrantMaxTTL
    /\ MaxTime \in Nat

VARIABLES
    now,       \* time.time()
    resource,  \* cfg.resource of the running server
    wanted,    \* forms: the resource the stored request names
    form,      \* store kind "authorize": when the row expires, 0 when there is none
    checking,  \* forms whose password is being verified in a thread
    code,      \* store kind "code": when the row expires
    grant,     \* store kind "grant"
    access,    \* store kind "access"
    refresh,   \* store kind "refresh"
    running,   \* the handler between two of its writes
    \* history; only the freshness of a name reads it
    consented, \* forms the administrator consented to
    origin,    \* grants: the form each descends from
    since,     \* grants: when each was first known to exist, MaxTime + 1 before that
    revoked    \* grants somebody revoked

vars == <<now, resource, wanted, form, checking, code, grant, access, refresh, running,
          consented, origin, since, revoked>>

tokens  == <<access, refresh>>
consent == <<wanted, form, checking, code, consented>>
lineage == <<origin, since, revoked>>

Unstamped == 0
NoRow     == [expires |-> 0, limit |-> Unstamped]
GrantRows == [expires : Nat, limit : Nat]
NoToken   == [grant |-> NoGrant, resource |-> NoResource, expires |-> 0]
TokenRows == [grant : GrantIds \cup {NoGrant}, resource : Resources \cup {NoResource},
              expires : Nat]
Resting   == [step |-> "none", form |-> NoForm, grant |-> NoGrant, remaining |-> 0]
Handlers  == [step : {"none", "grant", "access", "refresh"}, form : Forms \cup {NoForm},
              grant : GrantIds \cup {NoGrant}, remaining : Nat]
Never     == MaxTime + 1
-----------------------------------------------------------------------------
\* Reading the store

\* Store.get
Lives(row) == row > now

GrantLives(g) == g # NoGrant /\ Lives(grant[g].expires)

\* Auth.bearer: the token, its resource and its grant.
Accepted(p) ==
    /\ Lives(access[p].expires)
    /\ access[p].resource = resource
    /\ GrantLives(access[p].grant)

\* What the refresh branch of /token demands before it writes.
Renewable_NoGrant(p) == Lives(refresh[p].expires) /\ refresh[p].resource = resource
Renewable_AnyResource(p) == Lives(refresh[p].expires) /\ GrantLives(refresh[p].grant)
Renewable(p) ==
    /\ Lives(refresh[p].expires)
    /\ refresh[p].resource = resource
    /\ GrantLives(refresh[p].grant)

\* absolute_expires_at; a row from before the limit existed is stamped now.
LimitOf_Restarted(g) == now + GrantMaxTTL
LimitOf(g) == IF grant[g].limit = Unstamped THEN now + GrantMaxTTL ELSE grant[g].limit

\* How long the renewed grant lasts.
Remaining(g) ==
    LET left == IF LimitOf(g) > now THEN LimitOf(g) - now ELSE 0
    IN IF left < RefreshTTL THEN left ELSE RefreshTTL

Free == running.step = "none"
Fresh(p) == access[p].grant = NoGrant /\ refresh[p].grant = NoGrant
Deleted(G) == [g \in GrantIds |-> IF g \in G THEN NoRow ELSE grant[g]]
Known == {g \in GrantIds : since[g] # Never}
-----------------------------------------------------------------------------
\* A database without rows, or one whose single grant predates the limit.

Blank ==
    /\ form = [f \in Forms |-> 0] /\ code = [f \in Forms |-> 0] /\ checking = {}
    /\ now = 0 /\ resource \in Resources /\ running = Resting /\ revoked = {}

EmptyStore ==
    /\ wanted = [f \in Forms |-> NoResource] /\ consented = {}
    /\ grant = [g \in GrantIds |-> NoRow]
    /\ access = [p \in Pairs |-> NoToken] /\ refresh = [p \in Pairs |-> NoToken]
    /\ origin = [g \in GrantIds |-> NoForm] /\ since = [g \in GrantIds |-> Never]

OlderStore ==
    \E f \in Forms, g \in GrantIds, p \in Pairs :
        LET token(ttl) == [grant |-> g, resource |-> resource, expires |-> ttl]
        IN /\ wanted = [o \in Forms |-> IF o = f THEN resource ELSE NoResource]
           /\ consented = {f}
           /\ grant = [o \in GrantIds |->
                         IF o = g THEN [expires |-> RefreshTTL, limit |-> Unstamped] ELSE NoRow]
           /\ access = [o \in Pairs |-> IF o = p THEN token(AccessTTL) ELSE NoToken]
           /\ refresh = [o \in Pairs |-> IF o = p THEN token(RefreshTTL) ELSE NoToken]
           /\ origin = [o \in GrantIds |-> IF o = g THEN f ELSE NoForm]
           /\ since = [o \in GrantIds |-> IF o = g THEN 0 ELSE Never]

Init == Blank /\ (EmptyStore \/ OlderStore)
-----------------------------------------------------------------------------
\* Consent: /authorize

\* The form is shown; the request it stands for is stored.
Authorize(f) ==
    /\ Free /\ wanted[f] = NoResource
    /\ wanted' = [wanted EXCEPT ![f] = resource]
    /\ form' = [form EXCEPT ![f] = now + FormTTL]
    /\ UNCHANGED <<now, resource, checking, code, grant, tokens, running, consented, lineage>>

\* The form comes back and is used up; its password is checked in a thread.
Submit(f) ==
    /\ Free /\ Lives(form[f])
    /\ form' = [form EXCEPT ![f] = 0]
    /\ checking' = IF wanted[f] = resource THEN checking \cup {f} ELSE checking
    /\ UNCHANGED <<now, resource, wanted, code, grant, tokens, running, consented, lineage>>

\* The password, or the passkey's proof, was right.
Consent(f) ==
    /\ Free /\ f \in checking
    /\ checking' = checking \ {f}
    /\ code' = [code EXCEPT ![f] = now + CodeTTL]
    /\ consented' = consented \cup {f}
    /\ UNCHANGED <<now, resource, wanted, form, grant, tokens, running, lineage>>

\* It was wrong; there is no second try with this form.
Refuse(f) ==
    /\ Free /\ f \in checking
    /\ checking' = checking \ {f}
    /\ UNCHANGED <<now, resource, wanted, form, code, grant, tokens, running, consented,
                   lineage>>
-----------------------------------------------------------------------------
\* Tokens: /token

\* The code is used up, whether or not the verifier and the redirect match.
Popped_Kept(f) == code
Popped(f) == [code EXCEPT ![f] = 0]

RedeemCode(f) ==
    /\ Free /\ Lives(code[f]) /\ wanted[f] = resource
    /\ code' = Popped(f)
    /\ running' = [Resting EXCEPT !.step = "grant", !.form = f, !.remaining = RefreshTTL]
    /\ UNCHANGED <<now, resource, wanted, form, checking, grant, tokens, consented, lineage>>

WasteCode(f) ==
    /\ Free /\ Lives(code[f])
    /\ code' = Popped(f)
    /\ UNCHANGED <<now, resource, wanted, form, checking, grant, tokens, running, consented,
                   lineage>>

CreateGrant(g) ==
    /\ running.step = "grant" /\ since[g] = Never
    /\ grant' = [grant EXCEPT ![g] = [expires |-> now + RefreshTTL, limit |-> now + GrantMaxTTL]]
    /\ origin' = [origin EXCEPT ![g] = running.form]
    /\ since' = [since EXCEPT ![g] = now]
    /\ running' = [running EXCEPT !.step = "access", !.grant = g]
    /\ UNCHANGED <<now, resource, consent, tokens, revoked>>

\* Consuming the old token and renewing the grant are one transaction.
Consumed_Kept(p) == refresh
Consumed(p) == [refresh EXCEPT ![p].expires = 0]

Renew(p) ==
    LET g == refresh[p].grant
    IN /\ Free /\ Renewable(p) /\ Remaining(g) > 0
       /\ refresh' = Consumed(p)
       /\ grant' = [grant EXCEPT ![g] = [expires |-> now + Remaining(g), limit |-> LimitOf(g)]]
       /\ since' = [since EXCEPT ![g] = IF grant[g].limit = Unstamped THEN now ELSE @]
       /\ running' = [Resting EXCEPT !.step = "access", !.grant = g, !.remaining = Remaining(g)]
       /\ UNCHANGED <<now, resource, consent, access, origin, revoked>>

\* issue(): first the access token,
IssueAccess(p) ==
    /\ running.step = "access" /\ Fresh(p)
    /\ access' = [access EXCEPT ![p] = [grant |-> running.grant, resource |-> resource,
                                        expires |-> now + AccessTTL]]
    /\ running' = [running EXCEPT !.step = "refresh"]
    /\ UNCHANGED <<now, resource, consent, grant, refresh, lineage>>

\* then the refresh token of the same answer.
IssueRefresh(p) ==
    /\ running.step = "refresh"
    /\ access[p].grant = running.grant /\ refresh[p].grant = NoGrant
    /\ refresh' = [refresh EXCEPT ![p] = [grant |-> running.grant, resource |-> resource,
                                          expires |-> now + running.remaining]]
    /\ running' = Resting
    /\ UNCHANGED <<now, resource, consent, grant, access, lineage>>
-----------------------------------------------------------------------------
\* Revocation

\* The grant of a token, if the store still knows the token.
Holder(p) == IF Lives(access[p].expires) THEN access[p].grant
             ELSE IF Lives(refresh[p].expires) THEN refresh[p].grant ELSE NoGrant

Revoke_Unknown(p) ==
    /\ Free
    /\ grant' = Deleted({Holder(p)})
    /\ revoked' = revoked \cup {Holder(p)}
    /\ UNCHANGED <<now, resource, consent, tokens, running, origin, since>>

Revoke(p) ==
    /\ Free /\ Holder(p) # NoGrant
    /\ grant' = Deleted({Holder(p)})
    /\ revoked' = revoked \cup {Holder(p)}
    /\ UNCHANGED <<now, resource, consent, tokens, running, origin, since>>

\* The console's button, and the command line beside the server at any moment.
RevokeAll ==
    /\ Known # {}
    /\ grant' = Deleted(GrantIds)
    /\ revoked' = revoked \cup Known
    /\ UNCHANGED <<now, resource, consent, tokens, running, origin, since>>
-----------------------------------------------------------------------------
\* The environment

Tick ==
    /\ now < MaxTime
    /\ now' = now + 1
    /\ UNCHANGED <<resource, consent, grant, tokens, running, lineage>>

\* The server stops anywhere and starts, perhaps under another origin or prefix.
Restart ==
    /\ resource' \in Resources
    /\ running' = Resting /\ checking' = {}
    /\ UNCHANGED <<now, wanted, form, code, consented, grant, tokens, lineage>>

Next ==
    \/ \E f \in Forms : \/ Authorize(f) \/ Submit(f) \/ Consent(f) \/ Refuse(f)
                        \/ RedeemCode(f) \/ WasteCode(f)
    \/ \E g \in GrantIds : CreateGrant(g)
    \/ \E p \in Pairs : Renew(p) \/ IssueAccess(p) \/ IssueRefresh(p) \/ Revoke(p)
    \/ RevokeAll
    \/ Tick
    \/ Restart

Spec == Init /\ [][Next]_vars
-----------------------------------------------------------------------------
\* Properties

\* Each variable has its kind of value.
TypeOK ==
    /\ now \in Nat /\ resource \in Resources
    /\ wanted \in [Forms -> Resources \cup {NoResource}]
    /\ form \in [Forms -> Nat] /\ code \in [Forms -> Nat]
    /\ checking \subseteq Forms /\ consented \subseteq Forms
    /\ grant \in [GrantIds -> GrantRows]
    /\ access \in [Pairs -> TokenRows] /\ refresh \in [Pairs -> TokenRows]
    /\ running \in Handlers
    /\ origin \in [GrantIds -> Forms \cup {NoForm}]
    /\ since \in [GrantIds -> Nat] /\ revoked \subseteq GrantIds

\* A revoked grant neither admits a request nor is renewed, though a renewal or
\* an issue was under way when it was revoked (the transaction in token).
RevokedForGood ==
    \A p \in Pairs :
        /\ Accepted(p) => access[p].grant \notin revoked
        /\ Renewable(p) => refresh[p].grant \notin revoked

\* A grant has one usable refresh token, or one is about to be issued for it: a
\* token presented twice, at once or later, continues the connection once.
OneContinuation ==
    \A p, q \in Pairs :
        Lives(refresh[p].expires) =>
            /\ running.step \in {"access", "refresh"} => refresh[p].grant # running.grant
            /\ Lives(refresh[q].expires) /\ refresh[p].grant = refresh[q].grant => p = q

\* Each grant is the only one of a form the administrator consented to.
OneGrantPerConsent ==
    \A g \in Known : /\ origin[g] \in consented
                     /\ \A h \in Known : origin[g] = origin[h] => g = h

\* However often it is renewed, a grant admits no request past its absolute limit
\* (docs/OPERATIONS.md: an absolute 90-day limit from the grant's creation).
NeverPastLimit ==
    \A p \in Pairs : Accepted(p) => now < since[access[p].grant] + GrantMaxTTL

\* A token is accepted only where its grant's consent was asked for: no sequence
\* of renewals and restarts moves a connection to another resource.
SameAudience ==
    \A p \in Pairs : Accepted(p) => wanted[origin[access[p].grant]] = resource
=============================================================================
