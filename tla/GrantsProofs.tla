---------------------------- MODULE GrantsProofs ----------------------------
(***************************************************************************)
(* The safety properties of Grants, for any number of forms, grants,       *)
(* tokens and resources and any lifetimes.                                 *)
(*                                                                         *)
(* A form passes through its places in order and is in one at a time       *)
(* (FormsInv); tokens name grants that exist and carry the resource the    *)
(* grant's form was shown for (TokensInv); a row never outlasts its limit  *)
(* nor a revocation (LimitInv, RevokedInv).                                *)
(***************************************************************************)
EXTENDS Grants, TLAPS

\* Issuing is under way for a grant that exists.
Issuing == running.step \in {"access", "refresh"}

FrameInv ==
    /\ now <= MaxTime
    /\ running.step = "grant" => running.form \in Forms
    /\ Issuing => running.grant \in Known

\* A form that led to a grant, or is about to.
Redeemed(f) ==
    \/ \E g \in Known : origin[g] = f
    \/ running.step = "grant" /\ running.form = f

\* No form is in two places; one in the last place was consented to.
FormsInv ==
    /\ \A f \in Forms :
         /\ wanted[f] = NoResource => form[f] = 0 /\ f \notin checking /\ code[f] = 0
         /\ form[f] # 0 => f \notin checking /\ code[f] = 0
         /\ f \in checking => code[f] = 0
         /\ Redeemed(f) => /\ wanted[f] # NoResource /\ f \in consented
                           /\ form[f] = 0 /\ f \notin checking /\ code[f] = 0
         /\ code[f] # 0 => f \in consented
    /\ \A g \in Known : /\ origin[g] \in Forms
                        /\ running.step = "grant" => origin[g] # running.form
                        /\ \A h \in Known : origin[g] = origin[h] => g = h

\* The resource a grant's form was shown for.
Audience(g) == wanted[origin[g]]

TokensInv ==
    /\ \A p \in Pairs :
         /\ access[p].grant # NoGrant => /\ access[p].grant \in Known
                                         /\ access[p].resource = Audience(access[p].grant)
         /\ refresh[p].grant # NoGrant => /\ refresh[p].grant \in Known
                                          /\ refresh[p].resource = Audience(refresh[p].grant)
         /\ refresh[p].grant = NoGrant => refresh[p].expires = 0
    /\ running.step = "grant" => wanted[running.form] = resource
    /\ Issuing => Audience(running.grant) = resource

\* No row outlasts the limit that runs from its grant's birth.
LimitInv ==
    \A g \in GrantIds :
        /\ grant[g].expires <= since[g] + GrantMaxTTL
        /\ grant[g].limit # Unstamped => grant[g].limit = since[g] + GrantMaxTTL

\* Only what exists is revoked, and it has no row.
RevokedInv == \A g \in revoked : g \in Known /\ grant[g].expires = 0

SafeInv ==
    TypeOK /\ FrameInv /\ FormsInv /\ TokensInv /\ LimitInv /\ RevokedInv /\ OneContinuation
-----------------------------------------------------------------------------
\* What the renewed grant's time is bounded by.
LEMMA RemainingFacts ==
    ASSUME TypeOK, NEW g \in GrantIds
    PROVE  /\ LimitOf(g) \in Nat /\ Remaining(g) \in Nat
           /\ Remaining(g) > 0 => now + Remaining(g) <= LimitOf(g)
<1>1. grant[g].limit \in Nat /\ now \in Nat
  BY DEF TypeOK, GrantRows
<1> QED
  BY <1>1, GrantConstants DEF LimitOf, Remaining

\* A handler between two of its writes is one of the handlers.
LEMMA HandlerTypes ==
    ASSUME TypeOK
    PROVE  /\ Resting \in Handlers
           /\ \A f \in Forms :
                [Resting EXCEPT !.step = "grant", !.form = f, !.remaining = RefreshTTL]
                    \in Handlers
           /\ \A g \in GrantIds :
                /\ [running EXCEPT !.step = "access", !.grant = g] \in Handlers
                /\ [Resting EXCEPT !.step = "access", !.grant = g, !.remaining = Remaining(g)]
                       \in Handlers
           /\ [running EXCEPT !.step = "refresh"] \in Handlers
  BY GrantConstants, RemainingFacts DEF TypeOK, Handlers, Resting

\* The blank row is a row, and so is one written with a time.
LEMMA BlankRow == NoRow \in GrantRows
  BY DEF NoRow, GrantRows, Unstamped

LEMMA RowTypes ==
    ASSUME TypeOK
    PROVE  /\ \A t, l \in Nat : [expires |-> t, limit |-> l] \in GrantRows
           /\ \A t \in Nat : [grant |-> running.grant, resource |-> resource, expires |-> t]
                                 \in TokenRows
           /\ \A p \in Pairs : [refresh[p] EXCEPT !.expires = 0] \in TokenRows
<1>1. \A t, l \in Nat : [expires |-> t, limit |-> l] \in GrantRows
  BY DEF GrantRows
<1>2. \A t \in Nat : [grant |-> running.grant, resource |-> resource, expires |-> t]
                       \in TokenRows
  BY DEF TypeOK, TokenRows, Handlers
<1>3. \A p \in Pairs : [refresh[p] EXCEPT !.expires = 0] \in TokenRows
  BY DEF TypeOK, TokenRows
<1> QED
  BY <1>1, <1>2, <1>3

\* Every step keeps the types.
LEMMA TypeStep == ASSUME TypeOK, [Next]_vars PROVE TypeOK'
<1> USE DEF TypeOK, tokens, consent, lineage
<1>1. ASSUME NEW f \in Forms, Authorize(f) PROVE TypeOK'
  BY <1>1, GrantConstants DEF Authorize
<1>2. ASSUME NEW f \in Forms, Submit(f) PROVE TypeOK'
  BY <1>2 DEF Submit
<1>3. ASSUME NEW f \in Forms, Consent(f) PROVE TypeOK'
  BY <1>3, GrantConstants DEF Consent
<1>4. ASSUME NEW f \in Forms, Refuse(f) PROVE TypeOK'
  BY <1>4 DEF Refuse
<1>5. ASSUME NEW f \in Forms, RedeemCode(f) PROVE TypeOK'
  BY <1>5, HandlerTypes, GrantConstants DEF RedeemCode, Popped
<1>6. ASSUME NEW f \in Forms, WasteCode(f) PROVE TypeOK'
  BY <1>6 DEF WasteCode, Popped
<1>7. ASSUME NEW g \in GrantIds, CreateGrant(g) PROVE TypeOK'
  <2>1. now + RefreshTTL \in Nat /\ now + GrantMaxTTL \in Nat
    BY GrantConstants
  <2>2. grant' \in [GrantIds -> GrantRows]
    BY <1>7, <2>1, RowTypes DEF CreateGrant
  <2>3. running' \in Handlers
    BY <1>7, HandlerTypes DEF CreateGrant
  <2>4. origin' \in [GrantIds -> Forms \cup {NoForm}] /\ since' \in [GrantIds -> Nat]
    BY <1>7 DEF CreateGrant, Handlers
  <2> QED
    BY <1>7, <2>2, <2>3, <2>4 DEF CreateGrant
<1>8. ASSUME NEW p \in Pairs, Renew(p) PROVE TypeOK'
  <2> DEFINE g == refresh[p].grant
  <2>1. g \in GrantIds
    BY <1>8, GrantConstants DEF Renew, Renewable, GrantLives, TokenRows
  <2>2. now + Remaining(g) \in Nat /\ LimitOf(g) \in Nat
    BY <2>1, RemainingFacts
  <2>3. refresh' \in [Pairs -> TokenRows]
    BY <1>8, RowTypes DEF Renew, Consumed
  <2>4. grant' \in [GrantIds -> GrantRows] /\ running' \in Handlers
    BY <1>8, <2>1, <2>2, RowTypes, HandlerTypes DEF Renew
  <2> QED
    BY <1>8, <2>1, <2>3, <2>4 DEF Renew
<1>9. ASSUME NEW p \in Pairs, IssueAccess(p) PROVE TypeOK'
  <2>1. now + AccessTTL \in Nat
    BY GrantConstants
  <2>2. access' \in [Pairs -> TokenRows]
    BY <1>9, <2>1, RowTypes DEF IssueAccess
  <2>3. running' \in Handlers
    BY <1>9, HandlerTypes DEF IssueAccess
  <2> QED
    BY <1>9, <2>2, <2>3 DEF IssueAccess
<1>10. ASSUME NEW p \in Pairs, IssueRefresh(p) PROVE TypeOK'
  <2>1. now + running.remaining \in Nat
    BY DEF Handlers
  <2>2. refresh' \in [Pairs -> TokenRows]
    BY <1>10, <2>1, RowTypes DEF IssueRefresh
  <2>3. running' \in Handlers
    BY <1>10, HandlerTypes DEF IssueRefresh
  <2> QED
    BY <1>10, <2>2, <2>3 DEF IssueRefresh
<1>11. ASSUME NEW p \in Pairs, Revoke(p) PROVE TypeOK'
  <2>1. Holder(p) \in GrantIds
    BY <1>11 DEF Revoke, Holder, TokenRows
  <2> QED
    BY <1>11, <2>1, BlankRow DEF Revoke, Deleted
<1>12. CASE RevokeAll
  BY <1>12, BlankRow DEF RevokeAll, Deleted, Known
<1>13. CASE Tick
  BY <1>13 DEF Tick
<1>14. CASE Restart
  BY <1>14, HandlerTypes DEF Restart
<1>15. CASE UNCHANGED vars
  BY <1>15 DEF vars
<1> QED
  BY <1>1, <1>2, <1>3, <1>4, <1>5, <1>6, <1>7, <1>8, <1>9, <1>10, <1>11, <1>12, <1>13, <1>14,
     <1>15 DEF Next
-----------------------------------------------------------------------------
\* Which grants exist changes by CreateGrant only: a renewal stamps one that does.
LEMMA RenewedIsKnown ==
    ASSUME TypeOK, FrameInv, TokensInv, NEW p \in Pairs, Renew(p)
    PROVE  refresh[p].grant \in Known /\ Known' = Known
<1>1. refresh[p].grant # NoGrant /\ refresh[p].grant \in Known
  BY DEF Renew, Renewable, GrantLives, TokensInv
<1>2. now \in Nat /\ now # Never
  BY GrantConstants DEF TypeOK, FrameInv, Never
<1> QED
  BY <1>1, <1>2 DEF Renew, Known, TypeOK

LEMMA CreatedIsKnown ==
    ASSUME TypeOK, FrameInv, NEW g \in GrantIds, CreateGrant(g)
    PROVE  /\ g \notin Known /\ Known' = Known \cup {g}
           /\ origin' = [origin EXCEPT ![g] = running.form] /\ origin'[g] = running.form
           /\ since'[g] = now
<1>1. now \in Nat /\ now # Never
  BY GrantConstants DEF TypeOK, FrameInv, Never
<1> QED
  BY <1>1 DEF CreateGrant, Known, TypeOK

\* Every step keeps the handler's frame.
LEMMA FrameStep == ASSUME TypeOK, FrameInv, TokensInv, [Next]_vars PROVE FrameInv'
<1> USE DEF FrameInv, Issuing, tokens, consent, lineage
<1>1. ASSUME NEW f \in Forms,
             Authorize(f) \/ Submit(f) \/ Consent(f) \/ Refuse(f) \/ WasteCode(f)
      PROVE  FrameInv'
  BY <1>1 DEF Authorize, Submit, Consent, Refuse, WasteCode, Known
<1>2. ASSUME NEW f \in Forms, RedeemCode(f) PROVE FrameInv'
  BY <1>2 DEF RedeemCode, Resting
<1>3. ASSUME NEW g \in GrantIds, CreateGrant(g) PROVE FrameInv'
  <2>1. running'.step = "access" /\ running'.grant = g /\ now' = now
    BY <1>3 DEF CreateGrant, TypeOK, Handlers
  <2> QED
    BY <1>3, <2>1, CreatedIsKnown
<1>4. ASSUME NEW p \in Pairs, Renew(p) PROVE FrameInv'
  <2>1. running'.step = "access" /\ running'.grant = refresh[p].grant /\ now' = now
    BY <1>4 DEF Renew, Resting
  <2> QED
    BY <1>4, <2>1, RenewedIsKnown
<1>5. ASSUME NEW p \in Pairs, IssueAccess(p) PROVE FrameInv'
  BY <1>5 DEF IssueAccess, Known, TypeOK, Handlers
<1>6. ASSUME NEW p \in Pairs, IssueRefresh(p) PROVE FrameInv'
  BY <1>6 DEF IssueRefresh, Resting
<1>7. ASSUME (\E p \in Pairs : Revoke(p)) \/ RevokeAll PROVE FrameInv'
  BY <1>7 DEF Revoke, RevokeAll, Known
<1>8. CASE Tick
  BY <1>8, GrantConstants DEF Tick, TypeOK, Known
<1>9. CASE Restart
  BY <1>9 DEF Restart, Resting
<1>10. CASE UNCHANGED vars
  BY <1>10 DEF vars, Known
<1> QED
  BY <1>1, <1>2, <1>3, <1>4, <1>5, <1>6, <1>7, <1>8, <1>9, <1>10 DEF Next
-----------------------------------------------------------------------------
\* A step that moves no form, redeems none and creates no grant keeps FormsInv.
LEMMA FormsStay ==
    ASSUME FormsInv, UNCHANGED <<wanted, form, checking, code, consented, origin>>,
           Known' = Known, running'.step = "grant" => running' = running
    PROVE  FormsInv'
  BY DEF FormsInv, Redeemed

\* Every step keeps each form in one place.
LEMMA FormsStep == ASSUME TypeOK, FrameInv, TokensInv, FormsInv, [Next]_vars PROVE FormsInv'
<1> USE DEF tokens, consent, lineage
<1>1. ASSUME NEW f \in Forms, Authorize(f) PROVE FormsInv'
  BY <1>1, GrantConstants DEF Authorize, FormsInv, Redeemed, Known, TypeOK
<1>2. ASSUME NEW f \in Forms, Submit(f) PROVE FormsInv'
  BY <1>2 DEF Submit, FormsInv, Redeemed, Known, TypeOK, Lives
<1>3. ASSUME NEW f \in Forms, Consent(f) PROVE FormsInv'
  BY <1>3, GrantConstants DEF Consent, FormsInv, Redeemed, Known, TypeOK
<1>4. ASSUME NEW f \in Forms, Refuse(f) PROVE FormsInv'
  BY <1>4 DEF Refuse, FormsInv, Redeemed, Known, TypeOK
<1>5. ASSUME NEW f \in Forms, RedeemCode(f) PROVE FormsInv'
  <2>1. code[f] # 0
    BY <1>5 DEF RedeemCode, Lives, TypeOK
  <2>2. running'.step = "grant" /\ running'.form = f /\ Free
    BY <1>5 DEF RedeemCode, Resting
  <2> QED
    BY <1>5, <2>1, <2>2 DEF RedeemCode, Popped, FormsInv, Redeemed, Known, TypeOK, Free
<1>6. ASSUME NEW f \in Forms, WasteCode(f) PROVE FormsInv'
  BY <1>6 DEF WasteCode, Popped, FormsInv, Redeemed, Known, TypeOK
<1>7. ASSUME NEW g \in GrantIds, CreateGrant(g) PROVE FormsInv'
  <2>1. /\ running.step = "grant" /\ running'.step = "access"
        /\ UNCHANGED <<wanted, form, checking, code, consented>>
    BY <1>7 DEF CreateGrant, TypeOK, Handlers
  <2>2. running.form \in Forms /\ Redeemed(running.form)
    BY <2>1 DEF FrameInv, Redeemed
  <2>3. \A h \in Known : origin'[h] = origin[h] /\ origin[h] # running.form /\ h \in GrantIds
    BY <1>7, <2>1, CreatedIsKnown DEF FormsInv, Known, TypeOK
  <2>4. \A f \in Forms : Redeemed(f)' => Redeemed(f)
    BY <1>7, <2>1, <2>2, <2>3, CreatedIsKnown DEF Redeemed
  <2>5. \A h \in Known' : /\ origin'[h] \in Forms
                          /\ \A k \in Known' : origin'[h] = origin'[k] => h = k
    BY <1>7, <2>2, <2>3, CreatedIsKnown DEF FormsInv
  <2> QED
    BY <2>1, <2>4, <2>5 DEF FormsInv
<1>8. ASSUME NEW p \in Pairs, Renew(p) PROVE FormsInv'
  BY <1>8, RenewedIsKnown, FormsStay DEF Renew, Resting
<1>9. ASSUME NEW p \in Pairs, IssueAccess(p) PROVE FormsInv'
  <2>1. running'.step = "refresh" /\ Known' = Known
    BY <1>9 DEF IssueAccess, TypeOK, Handlers, Known
  <2> QED
    BY <1>9, <2>1, FormsStay DEF IssueAccess
<1>10. ASSUME NEW p \in Pairs, IssueRefresh(p) PROVE FormsInv'
  BY <1>10, FormsStay DEF IssueRefresh, Resting, Known
<1>11. ASSUME (\E p \in Pairs : Revoke(p)) \/ RevokeAll PROVE FormsInv'
  BY <1>11, FormsStay DEF Revoke, RevokeAll, Known
<1>12. CASE Tick
  BY <1>12, FormsStay DEF Tick, Known
<1>13. CASE Restart
  BY <1>13 DEF Restart, Resting, FormsInv, Redeemed, Known
<1>14. CASE UNCHANGED vars
  BY <1>14, FormsStay DEF vars, Known
<1> QED
  BY <1>1, <1>2, <1>3, <1>4, <1>5, <1>6, <1>7, <1>8, <1>9, <1>10, <1>11, <1>12, <1>13, <1>14
     DEF Next
-----------------------------------------------------------------------------
\* A known grant keeps its form, and the form the resource it was shown for.
LEMMA AudienceStays ==
    ASSUME TypeOK, FrameInv, TokensInv, FormsInv, [Next]_vars, NEW g \in Known
    PROVE  g \in Known' /\ Audience(g)' = Audience(g)
<1> USE DEF tokens, consent, lineage
<1>1. origin[g] \in Forms /\ wanted[origin[g]] # NoResource
  BY DEF FormsInv, Redeemed
<1>2. CASE \E f \in Forms : Authorize(f)
  BY <1>1, <1>2 DEF Authorize, Audience, Known, TypeOK
<1>3. CASE \E h \in GrantIds : CreateGrant(h)
  BY <1>3, CreatedIsKnown DEF CreateGrant, Audience, Known, TypeOK
<1>4. CASE \E p \in Pairs : Renew(p)
  BY <1>4, RenewedIsKnown DEF Renew, Audience
<1>5. CASE UNCHANGED <<wanted, origin, since>>
  BY <1>5 DEF Audience, Known
<1> QED
  BY <1>2, <1>3, <1>4, <1>5
     DEF Next, Submit, Consent, Refuse, RedeemCode, WasteCode, IssueAccess, IssueRefresh,
         Revoke, RevokeAll, Tick, Restart, vars

\* A step that issues no token and starts no handler keeps TokensInv.
LEMMA TokensStay ==
    ASSUME TypeOK, FrameInv, TokensInv, FormsInv, [Next]_vars, UNCHANGED <<tokens, resource>>,
           running' = running \/ running' = Resting
    PROVE  TokensInv'
<1>1. running'.step = "grant" => wanted'[running'.form] = resource
  <2> SUFFICES ASSUME running'.step = "grant" PROVE wanted'[running'.form] = resource
    OBVIOUS
  <2>1. running' = running /\ running.form \in Forms
    BY DEF Resting, FrameInv
  <2>2. wanted[running.form] # NoResource /\ wanted[running.form] = resource
    BY <2>1 DEF FormsInv, Redeemed, TokensInv
  <2>3. ~Free
    BY <2>1 DEF Free
  <2> QED
    BY <2>1, <2>2, <2>3
       DEF Next, Authorize, Submit, Consent, Refuse, RedeemCode, WasteCode, CreateGrant,
           Renew, IssueAccess, IssueRefresh, Revoke, RevokeAll, Tick, Restart, vars, TypeOK,
           consent
<1>2. Issuing' => Audience(running.grant)' = resource /\ running' = running
  BY AudienceStays DEF Issuing, Resting, FrameInv, TokensInv
<1> QED
  BY <1>1, <1>2, AudienceStays DEF TokensInv, tokens, Issuing

\* Every step keeps what the tokens say of their grants.
LEMMA TokensStep == ASSUME TypeOK, FrameInv, TokensInv, FormsInv, [Next]_vars PROVE TokensInv'
<1> USE DEF tokens, consent, lineage
<1>1. ASSUME NEW f \in Forms,
             Authorize(f) \/ Submit(f) \/ Consent(f) \/ Refuse(f) \/ WasteCode(f)
      PROVE  TokensInv'
  BY <1>1, TokensStay DEF Authorize, Submit, Consent, Refuse, WasteCode
<1>2. ASSUME NEW f \in Forms, RedeemCode(f) PROVE TokensInv'
  <2>1. running'.step = "grant" /\ running'.form = f /\ wanted'[f] = resource'
    BY <1>2 DEF RedeemCode, Resting
  <2> QED
    BY <1>2, <2>1, AudienceStays DEF RedeemCode, TokensInv, Issuing
<1>3. ASSUME NEW g \in GrantIds, CreateGrant(g) PROVE TokensInv'
  <2>1. /\ running.step = "grant" /\ running'.step = "access" /\ running'.grant = g
        /\ UNCHANGED <<wanted, resource, tokens>>
    BY <1>3 DEF CreateGrant, TypeOK, Handlers
  <2>2. Audience(g)' = resource'
    BY <1>3, <2>1, CreatedIsKnown DEF Audience, TokensInv
  <2> QED
    BY <2>1, <2>2, AudienceStays DEF TokensInv, Issuing
<1>4. ASSUME NEW p \in Pairs, Renew(p) PROVE TokensInv'
  <2>1. /\ running'.step = "access" /\ running'.grant = refresh[p].grant
        /\ UNCHANGED <<resource, access>> /\ refresh[p].resource = resource
        /\ refresh' = [refresh EXCEPT ![p].expires = 0]
    BY <1>4 DEF Renew, Renewable, Resting, Consumed
  <2>2. refresh[p].grant \in Known /\ Audience(refresh[p].grant) = resource
    BY <1>4, <2>1, RenewedIsKnown, GrantConstants DEF TokensInv, Known
  <2>3. \A q \in Pairs : /\ refresh'[q].grant = refresh[q].grant
                         /\ refresh'[q].resource = refresh[q].resource
                         /\ refresh'[q].expires \in {0, refresh[q].expires}
    BY <2>1 DEF TypeOK, TokenRows
  <2> QED
    BY <2>1, <2>2, <2>3, AudienceStays DEF TokensInv, Issuing
<1>5. ASSUME NEW p \in Pairs, IssueAccess(p) PROVE TokensInv'
  <2>1. /\ running.step = "access" /\ running'.step = "refresh"
        /\ running'.grant = running.grant /\ UNCHANGED <<resource, refresh>>
    BY <1>5 DEF IssueAccess, TypeOK, Handlers
  <2>2. running.grant \in Known /\ Audience(running.grant)' = resource
    BY <2>1, AudienceStays DEF FrameInv, TokensInv, Issuing
  <2>3. \A q \in Pairs : \/ access'[q] = access[q]
                         \/ access'[q].grant = running.grant /\ access'[q].resource = resource
    BY <1>5 DEF IssueAccess, TypeOK
  <2> QED
    BY <2>1, <2>2, <2>3, AudienceStays DEF TokensInv, Issuing
<1>6. ASSUME NEW p \in Pairs, IssueRefresh(p) PROVE TokensInv'
  <2>1. running.step = "refresh" /\ running'.step = "none" /\ UNCHANGED <<resource, access>>
    BY <1>6 DEF IssueRefresh, Resting
  <2>2. PICK g \in Known : running.grant = g /\ Audience(g) = resource
    BY <2>1 DEF FrameInv, TokensInv, Issuing
  <2>3. g # NoGrant
    BY GrantConstants DEF Known
  <2>4. \A q \in Pairs : \/ refresh'[q] = refresh[q]
                         \/ refresh'[q].grant = g /\ refresh'[q].resource = resource
    BY <1>6, <2>2 DEF IssueRefresh, TypeOK
  <2> QED
    BY <2>1, <2>2, <2>3, <2>4, AudienceStays DEF TokensInv, Issuing
<1>7. ASSUME (\E p \in Pairs : Revoke(p)) \/ RevokeAll \/ Tick \/ UNCHANGED vars
      PROVE  TokensInv'
  BY <1>7, TokensStay DEF Revoke, RevokeAll, Tick, vars
<1>8. CASE Restart
  <2>1. running'.step = "none" /\ UNCHANGED tokens
    BY <1>8 DEF Restart, Resting
  <2> QED
    BY <2>1, AudienceStays DEF TokensInv, Issuing
<1> QED
  BY <1>1, <1>2, <1>3, <1>4, <1>5, <1>6, <1>7, <1>8 DEF Next
-----------------------------------------------------------------------------
\* Every step keeps each row within its limit.
LEMMA LimitStep == ASSUME TypeOK, FrameInv, TokensInv, LimitInv, [Next]_vars PROVE LimitInv'
<1> USE DEF LimitInv, tokens, consent, lineage
<1>1. ASSUME NEW g \in GrantIds, CreateGrant(g) PROVE LimitInv'
  <2>1. /\ grant' = [grant EXCEPT ![g] = [expires |-> now + RefreshTTL,
                                          limit |-> now + GrantMaxTTL]]
        /\ since' = [since EXCEPT ![g] = now]
    BY <1>1 DEF CreateGrant
  <2>2. now + RefreshTTL <= now + GrantMaxTTL
    BY GrantConstants DEF TypeOK
  <2> QED
    BY <2>1, <2>2 DEF TypeOK
<1>2. ASSUME NEW p \in Pairs, Renew(p) PROVE LimitInv'
  <2> DEFINE g == refresh[p].grant
  <2>1. g \in GrantIds /\ Remaining(g) > 0
    BY <1>2, RenewedIsKnown DEF Renew, Known
  <2>2. /\ now + Remaining(g) <= LimitOf(g) /\ now + Remaining(g) \in Nat
        /\ LimitOf(g) \in Nat /\ now \in Nat
    BY <2>1, RemainingFacts DEF TypeOK
  <2>3. /\ grant' = [grant EXCEPT ![g] = [expires |-> now + Remaining(g),
                                          limit |-> LimitOf(g)]]
        /\ since' = [since EXCEPT ![g] = IF grant[g].limit = Unstamped THEN now ELSE @]
    BY <1>2 DEF Renew
  <2>4. LimitOf(g) = since'[g] + GrantMaxTTL
    BY <2>1, <2>3 DEF LimitOf, TypeOK
  <2>5. \A h \in GrantIds : h # g => grant'[h] = grant[h] /\ since'[h] = since[h]
    BY <2>3 DEF TypeOK
  <2>6. grant'[g].expires <= since'[g] + GrantMaxTTL /\ grant'[g].limit = since'[g] + GrantMaxTTL
    BY <2>1, <2>2, <2>3, <2>4 DEF TypeOK
  <2> QED
    BY <2>5, <2>6
<1>3. ASSUME (\E p \in Pairs : Revoke(p)) \/ RevokeAll PROVE LimitInv'
  <2>1. since' = since /\ \A g \in GrantIds : grant'[g] \in {NoRow, grant[g]}
    BY <1>3 DEF Revoke, RevokeAll, Deleted
  <2> QED
    BY <2>1, GrantConstants DEF NoRow, TypeOK
<1>4. CASE UNCHANGED <<grant, since>>
  BY <1>4
<1> QED
  BY <1>1, <1>2, <1>3, <1>4
     DEF Next, Authorize, Submit, Consent, Refuse, RedeemCode, WasteCode, IssueAccess,
         IssueRefresh, Tick, Restart, vars

\* Every step leaves the revoked grants without a row.
LEMMA RevokedStep ==
    ASSUME TypeOK, FrameInv, TokensInv, RevokedInv, [Next]_vars
    PROVE  RevokedInv'
<1> USE DEF RevokedInv, tokens, consent, lineage
<1>1. ASSUME NEW g \in GrantIds, CreateGrant(g) PROVE RevokedInv'
  <2>1. revoked' = revoked /\ \A h \in revoked : h # g /\ h \in GrantIds
    BY <1>1, CreatedIsKnown DEF CreateGrant, Known
  <2>2. \A h \in revoked : grant'[h] = grant[h]
    BY <1>1, <2>1 DEF CreateGrant, TypeOK
  <2> QED
    BY <1>1, <2>1, <2>2, CreatedIsKnown
<1>2. ASSUME NEW p \in Pairs, Renew(p) PROVE RevokedInv'
  <2>1. revoked' = revoked /\ refresh[p].grant \notin revoked
    BY <1>2 DEF Renew, Renewable, GrantLives, Lives, TypeOK
  <2>2. \A h \in revoked : grant'[h] = grant[h]
    BY <1>2, <2>1 DEF Renew, TypeOK
  <2> QED
    BY <1>2, <2>1, <2>2, RenewedIsKnown
<1>3. ASSUME NEW p \in Pairs, Revoke(p) PROVE RevokedInv'
  <2>1. Holder(p) \in Known
    BY <1>3 DEF Revoke, Holder, TokensInv
  <2> QED
    BY <1>3, <2>1 DEF Revoke, Deleted, NoRow, Known
<1>4. CASE RevokeAll
  BY <1>4 DEF RevokeAll, Deleted, NoRow, Known
<1>5. CASE UNCHANGED <<grant, since, revoked>>
  BY <1>5 DEF Known
<1> QED
  BY <1>1, <1>2, <1>3, <1>4, <1>5
     DEF Next, Authorize, Submit, Consent, Refuse, RedeemCode, WasteCode, IssueAccess,
         IssueRefresh, Tick, Restart, vars

\* Every step leaves a grant one continuation.
LEMMA ContinuationStep ==
    ASSUME TypeOK, FrameInv, TokensInv, OneContinuation, [Next]_vars
    PROVE  OneContinuation'
<1> USE DEF OneContinuation, Lives, tokens, consent, lineage
<1>1. ASSUME NEW f \in Forms, RedeemCode(f) PROVE OneContinuation'
  BY <1>1 DEF RedeemCode, Resting
<1>2. ASSUME NEW g \in GrantIds, CreateGrant(g) PROVE OneContinuation'
  <2>1. /\ running'.step = "access" /\ running'.grant = g
        /\ now' = now /\ refresh' = refresh /\ g \notin Known
    BY <1>2, CreatedIsKnown DEF CreateGrant, TypeOK, Handlers
  <2>2. \A p \in Pairs : refresh[p].expires > now => refresh[p].grant # g
    BY <2>1, GrantConstants DEF TokensInv, TypeOK
  <2> QED
    BY <2>1, <2>2
<1>3. ASSUME NEW p \in Pairs, Renew(p) PROVE OneContinuation'
  <2>1. /\ running'.step = "access" /\ running'.grant = refresh[p].grant
        /\ now' = now /\ refresh[p].expires > now
        /\ refresh' = [refresh EXCEPT ![p].expires = 0]
    BY <1>3 DEF Renew, Renewable, Resting, Consumed
  <2>2. /\ ~(refresh'[p].expires > now)
        /\ \A q \in Pairs : q # p => refresh'[q] = refresh[q]
    BY <2>1 DEF TypeOK, TokenRows
  <2> QED
    BY <2>1, <2>2
<1>4. ASSUME NEW p \in Pairs, IssueAccess(p) PROVE OneContinuation'
  BY <1>4 DEF IssueAccess, TypeOK, Handlers
<1>5. ASSUME NEW p \in Pairs, IssueRefresh(p) PROVE OneContinuation'
  <2>1. /\ running.step = "refresh" /\ running'.step = "none" /\ now' = now
        /\ refresh'[p].grant = running.grant
        /\ \A q \in Pairs : q # p => refresh'[q] = refresh[q]
    BY <1>5 DEF IssueRefresh, Resting, TypeOK
  <2> QED
    BY <2>1
<1>6. CASE Tick
  <2>1. \A p \in Pairs : refresh[p].expires \in Nat
    BY DEF TypeOK, TokenRows
  <2> QED
    BY <1>6, <2>1 DEF Tick, TypeOK
<1>7. CASE Restart
  BY <1>7 DEF Restart, Resting
<1>8. CASE UNCHANGED <<now, refresh, running>>
  BY <1>8
<1> QED
  BY <1>1, <1>2, <1>3, <1>4, <1>5, <1>6, <1>7, <1>8
     DEF Next, Authorize, Submit, Consent, Refuse, WasteCode, Revoke, RevokeAll, vars
-----------------------------------------------------------------------------
\* The invariant holds in both kinds of initial state.
LEMMA SafeInit == Init => SafeInv
<1> SUFFICES ASSUME Init PROVE SafeInv
  OBVIOUS
<1> USE GrantConstants DEF Init, Blank, Unstamped
<1>1. now \in Nat /\ now # Never /\ Never \in Nat /\ running \in Handlers
      /\ running.step = "none" /\ NoRow \in GrantRows /\ NoToken \in TokenRows
  BY DEF Never, Handlers, Resting, NoRow, GrantRows, NoToken, TokenRows
<1>2. CASE EmptyStore
  <2>1. TypeOK
    BY <1>1, <1>2 DEF EmptyStore, TypeOK
  <2>2. FrameInv /\ FormsInv /\ RevokedInv
    BY <1>1, <1>2
       DEF EmptyStore, FrameInv, FormsInv, Issuing, Redeemed, RevokedInv, Known
  <2>3. TokensInv /\ OneContinuation
    BY <1>1, <1>2 DEF EmptyStore, TokensInv, OneContinuation, Issuing, NoToken, Lives
  <2>4. LimitInv
    BY <1>1, <1>2 DEF EmptyStore, LimitInv, NoRow
  <2> QED
    BY <2>1, <2>2, <2>3, <2>4 DEF SafeInv
<1>3. CASE OlderStore
  <2> DEFINE token(g, ttl) == [grant |-> g, resource |-> resource, expires |-> ttl]
  <2>1. PICK f \in Forms, g \in GrantIds, p \in Pairs :
          /\ wanted = [o \in Forms |-> IF o = f THEN resource ELSE NoResource]
          /\ consented = {f}
          /\ grant = [o \in GrantIds |->
                        IF o = g THEN [expires |-> RefreshTTL, limit |-> Unstamped] ELSE NoRow]
          /\ access = [o \in Pairs |-> IF o = p THEN token(g, AccessTTL) ELSE NoToken]
          /\ refresh = [o \in Pairs |-> IF o = p THEN token(g, RefreshTTL) ELSE NoToken]
          /\ origin = [o \in GrantIds |-> IF o = g THEN f ELSE NoForm]
          /\ since = [o \in GrantIds |-> IF o = g THEN 0 ELSE Never]
    BY <1>3 DEF OlderStore
  <2>2. /\ token(g, AccessTTL) \in TokenRows /\ token(g, RefreshTTL) \in TokenRows
        /\ [expires |-> RefreshTTL, limit |-> Unstamped] \in GrantRows
    BY DEF TokenRows, GrantRows
  <2>3. TypeOK
    BY <1>1, <2>1, <2>2 DEF TypeOK
  <2>4. Known = {g}
    BY <1>1, <2>1 DEF Known
  <2>5. FrameInv /\ FormsInv /\ RevokedInv
    BY <1>1, <2>1, <2>4 DEF FrameInv, FormsInv, Issuing, Redeemed, RevokedInv
  <2>6. TokensInv /\ OneContinuation
    BY <1>1, <2>1, <2>4 DEF TokensInv, OneContinuation, Issuing, NoToken, Lives, Audience
  <2>7. LimitInv
    BY <1>1, <2>1 DEF LimitInv, NoRow
  <2> QED
    BY <2>3, <2>5, <2>6, <2>7 DEF SafeInv
<1> QED
  BY <1>2, <1>3

\* The invariant holds always.
LEMMA Safe == Spec => []SafeInv
<1>1. SafeInv /\ [Next]_vars => SafeInv'
  BY TypeStep, FrameStep, FormsStep, TokensStep, LimitStep, RevokedStep, ContinuationStep
     DEF SafeInv
<1> QED
  BY SafeInit, <1>1, PTL DEF Spec

\* Each variable keeps its kind of value.
THEOREM GrantsTypeCorrect == Spec => []TypeOK
<1>1. SafeInv => TypeOK
  BY DEF SafeInv
<1> QED
  BY Safe, <1>1, PTL

\* A revoked grant never admits a request and is never renewed (token's transaction).
THEOREM RevocationIsFinal == Spec => []RevokedForGood
<1>1. SafeInv => RevokedForGood
  BY DEF SafeInv, RevokedInv, RevokedForGood, Accepted, Renewable, GrantLives, Lives, TypeOK
<1> QED
  BY Safe, <1>1, PTL

\* Of all the refresh tokens of a grant one at most continues it.
THEOREM ContinuedOnce == Spec => []OneContinuation
<1>1. SafeInv => OneContinuation
  BY DEF SafeInv
<1> QED
  BY Safe, <1>1, PTL

\* One consent makes one grant.
THEOREM ConsentSpentOnce == Spec => []OneGrantPerConsent
<1>1. SafeInv => OneGrantPerConsent
  BY DEF SafeInv, FormsInv, Redeemed, OneGrantPerConsent
<1> QED
  BY Safe, <1>1, PTL

\* Renewals never carry a connection past the limit set when its grant was made.
THEOREM LimitIsAbsolute == Spec => []NeverPastLimit
<1>1. SafeInv => NeverPastLimit
  <2> SUFFICES ASSUME SafeInv, NEW p \in Pairs, Accepted(p)
               PROVE  now < since[access[p].grant] + GrantMaxTTL
    BY DEF NeverPastLimit
  <2>1. access[p].grant \in GrantIds /\ grant[access[p].grant].expires > now
    BY DEF SafeInv, TypeOK, TokenRows, Accepted, GrantLives, Lives
  <2> QED
    BY <2>1, GrantConstants DEF SafeInv, LimitInv, TypeOK, GrantRows
<1> QED
  BY Safe, <1>1, PTL

\* No renewal, restart or issue under way moves a connection to another resource.
THEOREM AudienceIsFixed == Spec => []SameAudience
<1>1. SafeInv => SameAudience
  BY DEF SafeInv, TokensInv, Audience, SameAudience, Accepted, GrantLives
<1> QED
  BY Safe, <1>1, PTL
=============================================================================
