-------------------------- MODULE NavigationProofs --------------------------
(***************************************************************************)
(* Theorems about Navigation, for any number of calls, any operation ids   *)
(* and any capacity of the journal.                                        *)
(***************************************************************************)
EXTENDS Navigation, FiniteSetTheorems, TLAPS

\* The records under which a navigation is found.
RecordsOf(c) == ({request[c].op} \cap OpIds) \cup {c}

\* Whoever has the lock is in a stage of its own kind, and a request that has it is held.
HolderOK ==
    /\ \A c \in Requests : request[c].at = "held" <=> holder.who = c
    /\ holder.who \in Requests => holder.at \in {"open", "begin", "losing"} /\ current = NoOp
    /\ holder.who = "drive" => holder.at \in {"poll", "losing"}
    /\ holder.who = "cancel" => holder.at \in {"stop", "losing"}
    /\ holder.who = "none" => holder.at = "none"
    /\ holder.at \in {"poll", "stop"} => current # NoOp
    /\ holder.at = "losing" => ~alive
    /\ holder.at \in {"open", "begin"} => alive

\* The navigation under way is the one whose caller hangs, and its keys are its records.
CurrentOK ==
    /\ current # NoOp => /\ alive /\ request[current].at = "hanging" /\ current \notin ended
                         /\ keys = RecordsOf(current)
    /\ \A c \in Requests : /\ request[c].at = "hanging" /\ c \notin ended => c = current
                           /\ c \in ended => request[c].at \in {"hanging", "over"}

\* Nothing was dispatched while the context is empty, and who was told so is over or
\* abandoned.
ContextOK ==
    \A c \in Requests :
        /\ request[c].context = "none" => request[c].at \in {"none", "queued", "over"} /\ c \notin sent
        /\ request[c].at \in {"none", "queued"} => request[c].context = "none"
        /\ told[c] = "pending" => request[c].context # "none"
        /\ told[c] = "busy" =>
             c \notin sent /\ (request[c].at = "over" \/ (request[c].at = "queued" /\ request[c].abandoned))

\* A request that went past the reservation has claimed its operation id: the record is
\* kept or was evicted, and while it is kept nobody else claims the id.
Claims(c) == request[c].at \in {"queued", "held", "hanging"} \/ c \in sent
ClaimsOK ==
    \A c \in Requests : Claims(c) /\ request[c].op \in OpIds \ evicted =>
        /\ journal[request[c].op].state # "none"
        /\ \A d \in Requests \ {c} : Claims(d) => request[d].op # request[c].op

\* What is under way has running records, which nobody else can complete: a request that
\* waits shares no operation id with it.  When the work is gone, those that wait will be
\* refused, and their records may have been completed by the end of an older navigation.
UnderWay(c) ==
    \/ request[c].at = "held" \/ (request[c].at = "hanging" /\ c \notin ended)
    \/ request[c].at = "queued" /\ alive
RunningOK ==
    \A c \in Requests : UnderWay(c) =>
        /\ request[c].op \in OpIds => journal[request[c].op].state = "running"
        /\ request[c].at # "queued" => journal[c].state = "running"
        /\ \A d \in Requests \ {c} :
             request[d].at = "queued" \/ UnderWay(d) => request[d].op = NoOp \/ request[d].op # request[c].op

CapacityOK == IsFiniteSet(Entries) /\ Cardinality(Entries) <= MaxEntries

NavInv ==
    NavigationTypeOK /\ HolderOK /\ CurrentOK /\ ContextOK /\ ClaimsOK /\ RunningOK /\ CapacityOK
-----------------------------------------------------------------------------
\* Facts about the state and the operators

RequestType ==
    [at : {"none", "queued", "held", "hanging", "over"}, op : OpIds \cup {NoOp},
     digest : Arguments \cup {"none"}, context : {"none", "provisional", "result"}, abandoned : BOOLEAN]
RecordType ==
    [state : {"none", "running", "completed"}, digest : Arguments \cup {"none", "initialization"},
     result : Results \cup {"none"}]

\* Only where a call is and what its context holds change.
Moved(c, at, context) ==
    /\ request' \in [Requests -> RequestType]
    /\ \A d \in Requests : /\ request'[d].at = (IF d = c THEN at ELSE request[d].at)
                           /\ request'[d].context = (IF d = c THEN context ELSE request[d].context)
                           /\ request'[d].op = request[d].op
                           /\ request'[d].abandoned = request[d].abandoned

\* Some records are completed.
Completes(K) ==
    /\ journal' \in [JournalKeys -> RecordType]
    /\ \A k \in JournalKeys :
         journal'[k].state = (IF k \in K /\ journal[k].state # "none" THEN "completed" ELSE journal[k].state)

\* A client hears at most once.
Told(c, how) == \A d \in Requests :
    told'[d] = (IF d = c /\ told[d] = "nothing" THEN how ELSE told[d])

\* Two fields of a call's record change.
LEMMA CallUpdate ==
    ASSUME NEW A, NEW O, NEW G, NEW X, NEW B, NEW a \in A, NEW x \in X,
           NEW r \in [at : A, op : O, digest : G, context : X, abandoned : B]
    PROVE  LET q == [r EXCEPT !.at = a, !.context = x] IN
           /\ q \in [at : A, op : O, digest : G, context : X, abandoned : B]
           /\ q.at = a /\ q.context = x /\ q.op = r.op /\ q.abandoned = r.abandoned
OBVIOUS

\* Three fields of a call's record change.
LEMMA AskUpdate ==
    ASSUME NEW A, NEW O, NEW G, NEW X, NEW B, NEW a \in A, NEW o \in O, NEW g \in G,
           NEW r \in [at : A, op : O, digest : G, context : X, abandoned : B]
    PROVE  LET q == [r EXCEPT !.at = a, !.op = o, !.digest = g] IN
           /\ q \in [at : A, op : O, digest : G, context : X, abandoned : B]
           /\ q.at = a /\ q.op = o /\ q.context = r.context /\ q.abandoned = r.abandoned
OBVIOUS

\* Two fields of the journal's record change.
LEMMA RecordUpdate ==
    ASSUME NEW A, NEW G, NEW R, NEW a \in A, NEW x \in R, NEW r \in [state : A, digest : G, result : R]
    PROVE  LET q == [r EXCEPT !.state = a, !.result = x] IN
           q \in [state : A, digest : G, result : R] /\ q.state = a
OBVIOUS

\* What the update of a call's record does to its fields.
LEMMA MovedFacts ==
    ASSUME NavigationTypeOK, NEW c \in Requests,
           NEW at \in {"none", "queued", "held", "hanging", "over"}, NEW context \in {"none", "provisional", "result"},
           request' = [request EXCEPT ![c].at = at, ![c].context = context]
    PROVE  Moved(c, at, context)
<1>1. request \in [Requests -> RequestType]
  BY DEF NavigationTypeOK, RequestType
<1>2. \A d \in Requests : request'[d] = IF d = c THEN [request[d] EXCEPT !.at = at, !.context = context]
                                         ELSE request[d]
  BY <1>1
<1>3. request' = [d \in Requests |-> request'[d]]
  BY <1>1
<1>4. request[c] \in RequestType
  BY <1>1
<1>5. LET q == [request[c] EXCEPT !.at = at, !.context = context] IN
      /\ q \in RequestType
      /\ q.at = at /\ q.context = context /\ q.op = request[c].op /\ q.abandoned = request[c].abandoned
  BY <1>4, CallUpdate DEF RequestType
<1>6. \A d \in Requests : request'[d] \in RequestType
  BY <1>1, <1>2, <1>5
<1>7. request' \in [Requests -> RequestType]
  BY <1>3, <1>6
<1> QED
  BY <1>2, <1>5, <1>7 DEF Moved

\* What completing records does to the journal.
LEMMA CompletedFacts ==
    ASSUME NavigationTypeOK, NEW K, NEW result \in Results, journal' = Completed(journal, K, result)
    PROVE  Completes(K)
<1>1. journal \in [JournalKeys -> RecordType]
  BY DEF NavigationTypeOK, RecordType
<1>2. \A r \in RecordType : LET q == [r EXCEPT !.state = "completed", !.result = result] IN
                            q \in RecordType /\ q.state = "completed"
  BY RecordUpdate DEF RecordType
<1>3. \A k \in JournalKeys : journal'[k] = IF k \in K /\ journal[k].state # "none"
                           THEN [journal[k] EXCEPT !.state = "completed", !.result = result] ELSE journal[k]
  BY DEF Completed
<1>4. \A k \in JournalKeys : journal'[k] \in RecordType
  BY <1>1, <1>2, <1>3
<1>5. journal' \in [JournalKeys -> RecordType]
  BY <1>4 DEF Completed
<1>6. \A k \in JournalKeys :
        journal'[k].state = (IF k \in K /\ journal[k].state # "none" THEN "completed" ELSE journal[k].state)
  <2> SUFFICES ASSUME NEW k \in JournalKeys
               PROVE  journal'[k].state =
                        (IF k \in K /\ journal[k].state # "none" THEN "completed" ELSE journal[k].state)
    OBVIOUS
  <2>1. journal[k] \in RecordType
    BY <1>1
  <2>2. LET q == [journal[k] EXCEPT !.state = "completed", !.result = result] IN q.state = "completed"
    BY <1>2, <2>1
  <2> QED
    BY <1>3, <2>2
<1> QED
  BY <1>5, <1>6 DEF Completes

\* What an answer does to what the clients were told.
LEMMA ToldFacts ==
    ASSUME NavigationTypeOK, NEW c \in Requests,
           NEW how \in {"busy", "pending", "final", "replay", "conflict"}, Answered(c, how)
    PROVE  /\ Told(c, how)
           /\ told' \in [Requests -> {"nothing", "busy", "pending", "final", "replay", "conflict"}]
BY DEF NavigationTypeOK, Answered, Told

\* Completing records leaves the journal as large as it was.
LEMMA CompletesKeepsSize ==
    ASSUME CapacityOK, NEW K, Completes(K)
    PROVE  CapacityOK'
<1>1. Entries' = Entries
  BY DEF Entries, Completes
<1> QED
  BY <1>1 DEF CapacityOK

\* The records that make room are completed ones, and there is room then.
LEMMA Room ==
    ASSUME CapacityOK, NEW needed \in 1..2, NEW S \in Evictions(needed)
    PROVE  /\ S \subseteq JournalKeys /\ \A k \in S : journal[k].state = "completed"
           /\ IsFiniteSet(Entries \ S) /\ Cardinality(Entries \ S) + needed <= MaxEntries
<1>1. S \subseteq Entries /\ \A k \in S : journal[k].state = "completed"
  BY DEF Evictions
<1>2. IsFiniteSet(Entries \ S)
  BY FS_Difference DEF CapacityOK
<1>3. Cardinality(Entries \ S) \in Nat
  BY <1>2, FS_CardinalityType
<1>4. CASE S = {} /\ Cardinality(Entries) + needed <= MaxEntries
  <2>1. Entries \ S = Entries
    BY <1>4
  <2> QED
    BY <1>1, <1>2, <1>4, <2>1 DEF Entries
<1>5. CASE Cardinality(Entries \ S) + needed = MaxEntries
  BY <1>1, <1>2, <1>3, <1>5, NavigationConstants DEF Entries
<1> QED
  BY <1>4, <1>5 DEF Evictions

\* Nobody's record that runs is evicted; one more record fits into the room that was made.
LEMMA RoomKept ==
    ASSUME CapacityOK, NEW needed \in 1..2, NEW S \in Evictions(needed), NEW k \in JournalKeys,
           Entries' \subseteq (Entries \ S) \cup {k}
    PROVE  CapacityOK'
<1>1. IsFiniteSet(Entries \ S) /\ Cardinality(Entries \ S) + needed <= MaxEntries
  BY Room
<1>2. /\ IsFiniteSet((Entries \ S) \cup {k})
      /\ Cardinality((Entries \ S) \cup {k}) \in {Cardinality(Entries \ S), Cardinality(Entries \ S) + 1}
  BY <1>1, FS_AddElement
<1>3. IsFiniteSet(Entries') /\ Cardinality(Entries') <= Cardinality((Entries \ S) \cup {k})
  BY <1>2, FS_Subset
<1>4. /\ Cardinality(Entries \ S) \in Nat /\ Cardinality((Entries \ S) \cup {k}) \in Nat
      /\ Cardinality(Entries') \in Nat
  BY <1>1, <1>2, <1>3, FS_CardinalityType
<1> QED
  BY <1>1, <1>2, <1>3, <1>4, NavigationConstants DEF CapacityOK
-----------------------------------------------------------------------------
\* One lemma per kind of step

\* What the first step of a call does to its record.
LEMMA AskedFacts ==
    ASSUME NavigationTypeOK, NEW c \in Requests, NEW op \in OpIds \cup {NoOp}, NEW digest \in Arguments,
           NEW at \in {"queued", "over"},
           request' = [request EXCEPT ![c] = [Unasked EXCEPT !.at = at, !.op = op, !.digest = digest]]
    PROVE  /\ request' \in [Requests -> RequestType]
           /\ \A d \in Requests \ {c} : request'[d] = request[d]
           /\ request'[c].at = at /\ request'[c].op = op
           /\ request'[c].context = "none" /\ ~request'[c].abandoned
<1>1. request \in [Requests -> RequestType]
  BY DEF NavigationTypeOK, RequestType
<1>2. Unasked \in RequestType /\ Unasked.context = "none" /\ ~Unasked.abandoned
  BY DEF Unasked, RequestType
<1>3. LET q == [Unasked EXCEPT !.at = at, !.op = op, !.digest = digest] IN
      q \in RequestType /\ q.at = at /\ q.op = op /\ q.context = "none" /\ ~q.abandoned
  BY <1>2, AskUpdate DEF RequestType
<1> QED
  BY <1>1, <1>3

\* A call that is answered at once, from the journal or for want of room.
LEMMA AnsweredAtOnce ==
    ASSUME NavInv, NEW c \in Requests, NEW op \in OpIds \cup {NoOp}, NEW digest \in Arguments,
           Replay(c, op, digest) \/ TurnAway(c, op, digest)
    PROVE  NavInv'
<1>0. NavigationTypeOK /\ current \in Requests \cup {NoOp}
  BY DEF NavInv, NavigationTypeOK
<1>1. /\ request' \in [Requests -> RequestType]
      /\ \A d \in Requests \ {c} : request'[d] = request[d]
      /\ request'[c].at = "over" /\ request'[c].op = op
      /\ request'[c].context = "none" /\ ~request'[c].abandoned
  <2>1. request' = [request EXCEPT ![c] = [Unasked EXCEPT !.at = "over", !.op = op, !.digest = digest]]
    BY DEF Replay, TurnAway
  <2> QED
    BY <1>0, <2>1, AskedFacts
<1>2. PICK how \in {"final", "replay", "conflict"} :
        /\ Told(c, how)
        /\ told' \in [Requests -> {"nothing", "busy", "pending", "final", "replay", "conflict"}]
  BY <1>0, ToldFacts DEF Replay, TurnAway
<1>3. request[c].at = "none" /\ request[c].context = "none"
  BY DEF Replay, TurnAway, Unasked
<1>4. UNCHANGED <<journal, current, keys, holder, alive, controlled, sent, ended, evicted, navFaults>>
  BY DEF Replay, TurnAway
<1>5. NavigationTypeOK'
  BY <1>0, <1>1, <1>2, <1>4 DEF NavigationTypeOK, RequestType
<1>6. HolderOK' /\ CurrentOK'
  BY <1>0, <1>1, <1>3, <1>4 DEF NavInv, HolderOK, CurrentOK, RecordsOf
<1>7. ContextOK'
  BY <1>1, <1>2, <1>3, <1>4 DEF NavInv, ContextOK, Told
<1>8. c \notin sent
  BY <1>3 DEF NavInv, ContextOK
<1>9. ClaimsOK'
  BY <1>1, <1>3, <1>4, <1>8 DEF NavInv, ClaimsOK, Claims
<1>10. RunningOK'
  BY <1>1, <1>3, <1>4 DEF NavInv, RunningOK, UnderWay
<1>11. CapacityOK'
  BY <1>4 DEF NavInv, CapacityOK, Entries
<1> QED
  BY <1>5, <1>6, <1>7, <1>9, <1>10, <1>11 DEF NavInv

\* A call's time is up: what it has not dispatched by then it never will.
LEMMA TimeIsUp ==
    ASSUME NavInv, NEW c \in Requests, TimeUp(c) PROVE NavInv'
<1>0. NavigationTypeOK /\ current \in Requests \cup {NoOp}
  BY DEF NavInv, NavigationTypeOK
<1>1. /\ request' \in [Requests -> RequestType]
      /\ \A d \in Requests : /\ request'[d].at = request[d].at /\ request'[d].op = request[d].op
                             /\ request'[d].context = request[d].context
      /\ \A d \in Requests \ {c} : request'[d].abandoned = request[d].abandoned
      /\ request'[c].abandoned = (request[c].context = "none")
  <2>1. request \in [Requests -> RequestType]
    BY <1>0 DEF NavigationTypeOK, RequestType
  <2>2. request' = [request EXCEPT ![c].abandoned = request[c].context = "none"]
    BY DEF TimeUp
  <2>3. \A d \in Requests : request'[d] = IF d = c
          THEN [request[d] EXCEPT !.abandoned = request[c].context = "none"] ELSE request[d]
    BY <2>1, <2>2
  <2>4. LET q == [request[c] EXCEPT !.abandoned = request[c].context = "none"] IN
        /\ q \in RequestType /\ q.at = request[c].at /\ q.op = request[c].op
        /\ q.context = request[c].context /\ q.abandoned = (request[c].context = "none")
    BY <2>1 DEF RequestType
  <2>5. request' \in [Requests -> RequestType]
    BY <2>1, <2>2, <2>4
  <2> QED
    BY <2>3, <2>4, <2>5
<1>2. PICK how \in {"busy", "pending"} :
        /\ how = IF request[c].context = "none" THEN "busy" ELSE "pending"
        /\ Told(c, how)
        /\ told' \in [Requests -> {"nothing", "busy", "pending", "final", "replay", "conflict"}]
  BY <1>0, ToldFacts DEF TimeUp
<1>3. UNCHANGED <<journal, current, keys, holder, alive, controlled, sent, ended, evicted, navFaults>>
  BY DEF TimeUp
<1>4. request[c].at # "none" /\ told[c] = "nothing"
  BY DEF TimeUp
<1>5. NavigationTypeOK'
  BY <1>0, <1>1, <1>2, <1>3 DEF NavigationTypeOK, RequestType
<1>6. HolderOK' /\ CurrentOK'
  BY <1>0, <1>1, <1>3 DEF NavInv, HolderOK, CurrentOK, RecordsOf
<1>7. ContextOK'
  <2> SUFFICES ASSUME NEW d \in Requests
               PROVE /\ request[d].context = "none" => request[d].at \in {"none", "queued", "over"} /\ d \notin sent
                     /\ request[d].at \in {"none", "queued"} => request[d].context = "none"
                     /\ told'[d] = "pending" => request[d].context # "none"
                     /\ told'[d] = "busy" => d \notin sent /\ (request[d].at = "over"
                                            \/ (request[d].at = "queued" /\ request'[d].abandoned))
    BY <1>1, <1>3 DEF ContextOK
  <2>1. CASE d = c
    BY <1>1, <1>2, <1>4, <2>1 DEF NavInv, ContextOK, Told
  <2>2. CASE d # c
    BY <1>1, <1>2, <2>2 DEF NavInv, ContextOK, Told
  <2> QED
    BY <2>1, <2>2
<1>8. ClaimsOK' /\ RunningOK'
  BY <1>1, <1>3 DEF NavInv, ClaimsOK, Claims, RunningOK, UnderWay
<1>9. CapacityOK'
  BY <1>3 DEF NavInv, CapacityOK, Entries
<1> QED
  BY <1>5, <1>6, <1>7, <1>8, <1>9 DEF NavInv

\* A call that waits, or that has the lock, ends with a result of its own.
LEMMA EndsAlone ==
    ASSUME NavInv, NEW c \in Requests, NEW result \in Results, Concludes(c, result),
           \/ request[c].at = "queued" /\ holder' = holder
           \/ holder.who = c /\ holder' = NoHolder,
           UNCHANGED <<current, keys, alive, controlled, sent, ended, evicted, navFaults>>
    PROVE  NavInv'
<1>0. NavigationTypeOK /\ current \in Requests \cup {NoOp}
  BY DEF NavInv, NavigationTypeOK
<1>1. Moved(c, "over", "result")
  BY <1>0, MovedFacts DEF Concludes
<1>2. Completes(RecordsOf(c))
  BY <1>0, CompletedFacts DEF Concludes, RecordsOf
<1>3. /\ Told(c, "final")
      /\ told' \in [Requests -> {"nothing", "busy", "pending", "final", "replay", "conflict"}]
  BY <1>0, ToldFacts DEF Concludes
<1>4. request[c].at \in {"queued", "held"} /\ (request[c].at = "queued" => holder' = holder)
  BY NavigationConstants DEF NavInv, HolderOK
<1>5. NavigationTypeOK'
  BY <1>0, <1>1, <1>2, <1>3 DEF NavigationTypeOK, RequestType, RecordType, Moved, Completes, NoHolder
<1>6. HolderOK'
  BY <1>1, <1>4, NavigationConstants DEF NavInv, HolderOK, Moved, NoHolder
<1>7. CurrentOK'
  BY <1>0, <1>1, <1>4 DEF NavInv, CurrentOK, Moved, RecordsOf
<1>8. ContextOK'
  BY <1>1, <1>3, <1>4 DEF NavInv, ContextOK, Moved, Told
<1>9. ClaimsOK'
  <2>1. \A d \in Requests : Claims(d)' => Claims(d)
    BY <1>1 DEF Claims, Moved
  <2>2. \A k \in OpIds : journal[k].state # "none" => journal'[k].state # "none"
    BY <1>2 DEF Completes, JournalKeys
  <2> QED
    BY <1>1, <2>1, <2>2 DEF NavInv, ClaimsOK, Moved
<1>10. RunningOK'
  <2>1. \A d \in Requests : UnderWay(d)' => d # c /\ UnderWay(d)
    BY <1>1 DEF UnderWay, Moved
  <2>2. \A d \in Requests \ {c} : UnderWay(d) => request[d].op = NoOp \/ request[d].op # request[c].op
    BY <1>4 DEF NavInv, RunningOK, UnderWay
  <2>3. \A d \in Requests \ {c} : UnderWay(d) /\ request[d].op \in OpIds => request[d].op \notin RecordsOf(c)
    BY <2>2, NavigationConstants DEF RecordsOf
  <2>4. \A d \in Requests \ {c} : d \notin RecordsOf(c)
    BY NavigationConstants DEF RecordsOf
  <2>5. \A k \in JournalKeys \ RecordsOf(c) : journal'[k].state = journal[k].state
    BY <1>2 DEF Completes
  <2>6. \A d \in Requests : request'[d].at = "queued" => d # c /\ request[d].at = "queued"
    BY <1>1 DEF Moved
  <2> QED
    BY <1>1, <2>1, <2>3, <2>4, <2>5, <2>6 DEF NavInv, RunningOK, JournalKeys, Moved
<1>11. CapacityOK'
  BY <1>2, CompletesKeepsSize DEF NavInv
<1> QED
  BY <1>5, <1>6, <1>7, <1>8, <1>9, <1>10, <1>11 DEF NavInv
\* What a record that begins after room was made does to the journal.
LEMMA RoomUsed ==
    ASSUME NavigationTypeOK, NEW S, NEW k \in JournalKeys, NEW digest \in Arguments \cup {"initialization"},
           journal' = [Without(S) EXCEPT ![k] = Running(digest)]
    PROVE  /\ journal' \in [JournalKeys -> RecordType]
           /\ \A j \in JournalKeys :
                journal'[j].state = (IF j = k THEN "running" ELSE IF j \in S THEN "none" ELSE journal[j].state)
<1>1. journal \in [JournalKeys -> RecordType]
  BY DEF NavigationTypeOK, RecordType
<1>2. Running(digest) \in RecordType /\ Running(digest).state = "running"
  BY DEF Running, RecordType
<1>3. NoRecord \in RecordType /\ NoRecord.state = "none"
  BY DEF NoRecord, RecordType
<1> QED
  BY <1>1, <1>2, <1>3 DEF Without

\* What making room alone does to the journal.
LEMMA RoomLeft ==
    ASSUME NavigationTypeOK, NEW S, journal' = Without(S)
    PROVE  /\ journal' \in [JournalKeys -> RecordType]
           /\ \A j \in JournalKeys : journal'[j].state = (IF j \in S THEN "none" ELSE journal[j].state)
<1>1. journal \in [JournalKeys -> RecordType]
  BY DEF NavigationTypeOK, RecordType
<1>2. NoRecord \in RecordType /\ NoRecord.state = "none"
  BY DEF NoRecord, RecordType
<1> QED
  BY <1>1, <1>2 DEF Without

\* A new call reserves its records: what others claim and run stays as it is, unless it
\* is completed and makes room.
LEMMA CallEnters ==
    ASSUME NavInv, NEW c \in Requests, NEW op \in OpIds \cup {NoOp}, NEW digest \in Arguments,
           Enter(c, op, digest)
    PROVE  NavInv'
<1>0. NavigationTypeOK /\ current \in Requests \cup {NoOp}
  BY DEF NavInv, NavigationTypeOK
<1>1. /\ request' \in [Requests -> RequestType]
      /\ \A d \in Requests \ {c} : request'[d] = request[d]
      /\ request'[c].at = "queued" /\ request'[c].op = op
      /\ request'[c].context = "none" /\ ~request'[c].abandoned
  <2>1. request' = [request EXCEPT ![c] = [Unasked EXCEPT !.at = "queued", !.op = op, !.digest = digest]]
    BY DEF Enter
  <2> QED
    BY <1>0, <2>1, AskedFacts
<1>2. /\ request[c].at = "none" /\ request[c].context = "none"
      /\ op \in OpIds => journal[op].state = "none"
  BY DEF Enter, Unasked, Reuse
<1>3. UNCHANGED <<told, current, keys, holder, alive, controlled, sent, ended, navFaults>>
  BY DEF Enter
<1>needed. PICK needed \in 1..2 : needed = IF op = NoOp THEN 1 ELSE 2
  OBVIOUS
<1>4. PICK S \in Evictions(needed) :
        /\ journal' = IF op = NoOp THEN Without(S) ELSE [Without(S) EXCEPT ![op] = Running(digest)]
        /\ evicted' = evicted \cup (S \cap OpIds)
  BY <1>needed DEF Enter
<1>5. S \subseteq JournalKeys /\ \A k \in S : journal[k].state = "completed"
  BY Room DEF NavInv
<1>6. /\ journal' \in [JournalKeys -> RecordType]
      /\ \A k \in JournalKeys : journal'[k].state =
           (IF k = op THEN "running" ELSE IF k \in S THEN "none" ELSE journal[k].state)
  <2>1. CASE op = NoOp
    BY <1>0, <1>4, <2>1, RoomLeft, NavigationConstants DEF JournalKeys
  <2>2. CASE op # NoOp
    BY <1>0, <1>4, <2>2, RoomUsed DEF JournalKeys
  <2> QED
    BY <2>1, <2>2
<1>7. NavigationTypeOK'
  BY <1>0, <1>1, <1>3, <1>4, <1>6 DEF NavigationTypeOK, RequestType, RecordType
<1>8. HolderOK' /\ CurrentOK'
  BY <1>0, <1>1, <1>2, <1>3 DEF NavInv, HolderOK, CurrentOK, RecordsOf
<1>9. c \notin sent /\ told[c] \notin {"pending", "busy"}
  BY <1>2 DEF NavInv, ContextOK
<1>10. ContextOK'
  BY <1>1, <1>2, <1>3, <1>9 DEF NavInv, ContextOK
<1>11. ClaimsOK'
  <2>1. \A d \in Requests \ {c} : Claims(d)' = Claims(d)
    BY <1>1, <1>3 DEF Claims
  <2>2. \A d \in Requests \ {c} : Claims(d) /\ op \in OpIds \ evicted' => request[d].op # op
    BY <1>2, <1>4 DEF NavInv, ClaimsOK
  <2>3. \A d \in Requests \ {c} : Claims(d) /\ request[d].op \in OpIds \ evicted' =>
          journal'[request[d].op].state # "none"
    BY <1>4, <1>6 DEF NavInv, ClaimsOK, JournalKeys
  <2>4. op \in OpIds => journal'[op].state # "none"
    BY <1>6 DEF JournalKeys
  <2>5. \A d \in Requests \ {c} : Claims(d) /\ request[d].op \in OpIds \ evicted' =>
          \A e \in Requests \ {c, d} : Claims(e) => request[e].op # request[d].op
    BY <1>4 DEF NavInv, ClaimsOK
  <2> QED
    BY <1>1, <2>1, <2>2, <2>3, <2>4, <2>5 DEF ClaimsOK
<1>12. RunningOK'
  <2>1. \A d \in Requests \ {c} : UnderWay(d)' = UnderWay(d)
    BY <1>1, <1>3 DEF UnderWay
  <2>2. UnderWay(c)' => alive
    BY <1>1, <1>3 DEF UnderWay
  <2>3. \A d \in Requests \ {c} : UnderWay(d) => request[d].op # op \/ op = NoOp
    BY <1>2 DEF NavInv, RunningOK
  <2>4. \A d \in Requests \ {c} : request[d].at = "queued" /\ alive => UnderWay(d)
    BY DEF UnderWay
  <2>5. \A k \in JournalKeys : journal[k].state = "running" => journal'[k].state = "running"
    BY <1>5, <1>6
  <2>6. op \in OpIds => journal'[op].state = "running"
    BY <1>6 DEF JournalKeys
  <2>7. ASSUME NEW d \in Requests \ {c}, UnderWay(d)
        PROVE  /\ request[d].op \in OpIds => journal'[request[d].op].state = "running"
               /\ request[d].at # "queued" => journal'[d].state = "running"
               /\ \A e \in Requests \ {d} : request'[e].at = "queued" \/ UnderWay(e)' =>
                    request[d].op = NoOp \/ request'[e].op # request[d].op
    BY <1>1, <2>1, <2>3, <2>5, <2>7 DEF NavInv, RunningOK, JournalKeys
  <2> QED
    BY <1>1, <2>1, <2>2, <2>3, <2>4, <2>6, <2>7 DEF RunningOK
<1>13. CapacityOK'
  <2>1. CASE op = NoOp
    <3>1. Entries' \subseteq (Entries \ S) \cup {c}
      BY <1>6, <2>1, NavigationConstants DEF Entries, JournalKeys
    <3> QED
      BY <3>1, RoomKept DEF NavInv, JournalKeys
  <2>2. CASE op # NoOp
    <3>1. Entries' \subseteq (Entries \ S) \cup {op}
      BY <1>6, <2>2 DEF Entries
    <3> QED
      BY <2>2, <3>1, RoomKept DEF NavInv, JournalKeys
  <2> QED
    BY <2>1, <2>2
<1> QED
  BY <1>7, <1>8, <1>10, <1>11, <1>12, <1>13 DEF NavInv

\* A call has the lock and goes ahead, under a provisional record of its own.
LEMMA CallDispatches ==
    ASSUME NavInv, NEW c \in Requests, Dispatch(c) PROVE NavInv'
<1>0. NavigationTypeOK /\ current = NoOp /\ alive /\ holder.who = "none"
  BY DEF NavInv, NavigationTypeOK, Dispatch, LockFree, NoHolder
<1>1. Moved(c, "held", "provisional")
  BY <1>0, MovedFacts DEF Dispatch
<1>2. request[c].at = "queued" /\ ~request[c].abandoned
  BY DEF Dispatch
<1>3. UNCHANGED <<told, current, keys, alive, controlled, sent, ended, navFaults>>
  BY DEF Dispatch
<1>4. PICK S \in Evictions(1) :
        /\ journal' = [Without(S) EXCEPT ![c] = Running("initialization")]
        /\ evicted' = evicted \cup (S \cap OpIds)
  BY DEF Dispatch
<1>5. S \subseteq JournalKeys /\ \A k \in S : journal[k].state = "completed"
  <2>1. 1 \in 1..2 /\ CapacityOK
    BY DEF NavInv
  <2> QED
    BY <2>1, Room
<1>6. /\ journal' \in [JournalKeys -> RecordType]
      /\ \A k \in JournalKeys : journal'[k].state =
           (IF k = c THEN "running" ELSE IF k \in S THEN "none" ELSE journal[k].state)
  BY <1>0, <1>4, RoomUsed DEF JournalKeys
<1>7. PICK at \in {"open", "begin"} : holder' = [who |-> c, at |-> at]
  BY DEF Dispatch
<1>8. NavigationTypeOK'
  BY <1>0, <1>1, <1>3, <1>4, <1>6, <1>7 DEF NavigationTypeOK, RequestType, RecordType, Moved
<1>9. HolderOK'
  BY <1>0, <1>1, <1>2, <1>3, <1>7, NavigationConstants DEF NavInv, HolderOK, Moved
<1>10. CurrentOK'
  BY <1>0, <1>1, <1>2, <1>3 DEF NavInv, CurrentOK, Moved, RecordsOf
<1>11. ContextOK'
  BY <1>1, <1>2, <1>3 DEF NavInv, ContextOK, Moved
<1>12. ClaimsOK'
  <2>1. \A d \in Requests : Claims(d)' = Claims(d)
    BY <1>1, <1>2, <1>3 DEF Claims, Moved
  <2>2. \A k \in OpIds : k \notin evicted' /\ journal[k].state # "none" => journal'[k].state # "none"
    BY <1>4, <1>6 DEF JournalKeys
  <2> QED
    BY <1>1, <1>4, <2>1, <2>2 DEF NavInv, ClaimsOK, Moved
<1>13. RunningOK'
  <2>1. \A d \in Requests : UnderWay(d)' = UnderWay(d)
    BY <1>0, <1>1, <1>2, <1>3 DEF UnderWay, Moved
  <2>2. \A k \in JournalKeys : journal[k].state = "running" \/ k = c => journal'[k].state = "running"
    BY <1>5, <1>6
  <2> QED
    BY <1>0, <1>1, <2>1, <2>2 DEF NavInv, RunningOK, Moved, JournalKeys
<1>14. CapacityOK'
  <2>1. Entries' \subseteq (Entries \ S) \cup {c}
    BY <1>6 DEF Entries
  <2> QED
    BY <2>1, RoomKept DEF NavInv, JournalKeys
<1> QED
  BY <1>8, <1>9, <1>10, <1>11, <1>12, <1>13, <1>14 DEF NavInv
\* The adapter has opened the tab: the call goes on to the navigation.
LEMMA TabIsOpen ==
    ASSUME NavInv, NEW c \in Requests, TabOpened(c) PROVE NavInv'
<1>0. NavigationTypeOK /\ current \in Requests \cup {NoOp}
  BY DEF NavInv, NavigationTypeOK
<1>1. UNCHANGED <<request, told, journal, current, keys, alive, controlled, sent, ended, evicted, navFaults>>
  BY DEF TabOpened
<1>2. holder = [who |-> c, at |-> "open"] /\ holder' = [who |-> c, at |-> "begin"]
  BY DEF TabOpened
<1>3. NavigationTypeOK'
  BY <1>0, <1>1, <1>2 DEF NavigationTypeOK
<1>4. HolderOK'
  BY <1>1, <1>2, NavigationConstants DEF NavInv, HolderOK
<1>5. CurrentOK' /\ ContextOK' /\ ClaimsOK' /\ RunningOK' /\ CapacityOK'
  BY <1>1 DEF NavInv, CurrentOK, RecordsOf, ContextOK, ClaimsOK, Claims, RunningOK, UnderWay, CapacityOK, Entries
<1> QED
  BY <1>3, <1>4, <1>5 DEF NavInv

\* The page command is sent: the records of the call become the keys of the navigation.
LEMMA NavigationBegins ==
    ASSUME NavInv, NEW c \in Requests, Begun(c) PROVE NavInv'
<1>0. NavigationTypeOK
  BY DEF NavInv
<1>1. Moved(c, "hanging", "result")
  BY <1>0, MovedFacts DEF Begun
<1>2. holder.who = c /\ holder.at = "begin" /\ holder' = NoHolder
  BY DEF Begun
<1>3. request[c].at = "held" /\ current = NoOp /\ alive /\ request[c].op \in OpIds \cup {NoOp}
  BY <1>0, <1>2 DEF NavInv, HolderOK, NavigationTypeOK
<1>4. /\ current' = c /\ keys' = RecordsOf(c) /\ sent' = sent \cup {c}
      /\ UNCHANGED <<told, alive, controlled, ended, evicted, navFaults>>
  BY DEF Begun, RecordsOf
<1>5. /\ journal' \in [JournalKeys -> RecordType]
      /\ \A k \in JournalKeys :
           journal'[k].state = (IF k \in RecordsOf(c) THEN "running" ELSE journal[k].state)
  <2>1. journal \in [JournalKeys -> RecordType]
    BY <1>0 DEF NavigationTypeOK, RecordType
  <2>2. request[c].digest \in Arguments \cup {"none"}
    BY <1>0 DEF NavigationTypeOK
  <2>3. Running(request[c].digest) \in RecordType /\ Running(request[c].digest).state = "running"
    BY <2>2 DEF Running, RecordType
  <2>4. journal' = [k \in JournalKeys |-> IF k \in RecordsOf(c) THEN Running(request[c].digest)
                                          ELSE journal[k]]
    BY <1>4 DEF Begun
  <2> QED
    BY <2>1, <2>3, <2>4
<1>6. RecordsOf(c) \subseteq JournalKeys /\ \A k \in RecordsOf(c) : journal[k].state = "running"
  BY <1>3 DEF NavInv, RunningOK, UnderWay, RecordsOf, JournalKeys
<1>7. \A k \in JournalKeys : journal'[k].state = journal[k].state
  BY <1>5, <1>6
<1>8. NavigationTypeOK'
  BY <1>0, <1>1, <1>2, <1>4, <1>5, <1>6
     DEF NavigationTypeOK, RequestType, RecordType, Moved, NoHolder
<1>9. c \notin ended
  BY <1>3 DEF NavInv, CurrentOK
<1>10. HolderOK'
  BY <1>1, <1>2, <1>3, <1>4, NavigationConstants DEF NavInv, HolderOK, Moved, NoHolder
<1>11. CurrentOK'
  <2>1. RecordsOf(c)' = RecordsOf(c)
    BY <1>1 DEF RecordsOf, Moved
  <2> QED
    BY <1>1, <1>3, <1>4, <1>9, <2>1, NavigationConstants DEF NavInv, CurrentOK, Moved, RecordsOf
<1>12. ContextOK'
  BY <1>1, <1>3, <1>4 DEF NavInv, ContextOK, Moved
<1>13. \A d \in Requests : Claims(d)' = Claims(d) /\ UnderWay(d)' = UnderWay(d)
  BY <1>1, <1>3, <1>4, <1>9 DEF Claims, UnderWay, Moved
<1>14. ClaimsOK'
  BY <1>1, <1>4, <1>7, <1>13 DEF NavInv, ClaimsOK, Moved, JournalKeys
<1>15. RunningOK'
  <2>1. \A d \in Requests : request'[d].at = "queued" <=> request[d].at = "queued"
    BY <1>1, <1>3 DEF Moved
  <2>2. \A d \in Requests : UnderWay(d) /\ request'[d].at # "queued" => journal[d].state = "running"
    BY <2>1 DEF NavInv, RunningOK
  <2> QED
    BY <1>1, <1>7, <1>13, <2>1, <2>2 DEF NavInv, RunningOK, Moved, JournalKeys
<1>16. CapacityOK'
  <2>1. Entries' = Entries
    BY <1>7 DEF Entries
  <2> QED
    BY <2>1 DEF NavInv, CapacityOK
<1> QED
  BY <1>8, <1>10, <1>11, <1>12, <1>14, <1>15, <1>16 DEF NavInv

\* The caller of a navigation that is over goes on.
LEMMA CallerHears ==
    ASSUME NavInv, NEW c \in Requests, Hear(c) PROVE NavInv'
<1>0. NavigationTypeOK /\ current \in Requests \cup {NoOp}
  BY DEF NavInv, NavigationTypeOK
<1>1. request[c].at = "hanging" /\ c \in ended
  BY DEF Hear
<1>2. /\ request' \in [Requests -> RequestType]
      /\ \A d \in Requests : /\ request'[d].at = (IF d = c THEN "over" ELSE request[d].at)
                             /\ request'[d].context = request[d].context
                             /\ request'[d].op = request[d].op /\ request'[d].abandoned = request[d].abandoned
  <2>1. request \in [Requests -> RequestType] /\ request[c] \in RequestType
    BY <1>0 DEF NavigationTypeOK, RequestType
  <2>2. LET q == [request[c] EXCEPT !.at = "over"] IN
        /\ q \in RequestType /\ q.at = "over" /\ q.op = request[c].op
        /\ q.context = request[c].context /\ q.abandoned = request[c].abandoned
    BY <2>1 DEF RequestType
  <2>3. request' = [request EXCEPT ![c] = [request[c] EXCEPT !.at = "over"]]
    BY <2>1 DEF Hear
  <2> QED
    BY <2>1, <2>2, <2>3
<1>3. /\ Told(c, "final")
      /\ told' \in [Requests -> {"nothing", "busy", "pending", "final", "replay", "conflict"}]
  BY <1>0, ToldFacts DEF Hear
<1>4. UNCHANGED <<journal, current, keys, holder, alive, controlled, sent, ended, evicted, navFaults>>
  BY DEF Hear
<1>5. NavigationTypeOK'
  BY <1>0, <1>2, <1>3, <1>4 DEF NavigationTypeOK, RequestType
<1>6. HolderOK' /\ CurrentOK'
  BY <1>0, <1>1, <1>2, <1>4 DEF NavInv, HolderOK, CurrentOK, RecordsOf
<1>7. ContextOK'
  BY <1>1, <1>2, <1>3, <1>4 DEF NavInv, ContextOK, Told
<1>8. \A d \in Requests : (Claims(d)' => Claims(d)) /\ (UnderWay(d)' => UnderWay(d))
  BY <1>1, <1>2, <1>4 DEF Claims, UnderWay
<1>9. ClaimsOK'
  BY <1>2, <1>4, <1>8 DEF NavInv, ClaimsOK
<1>10. RunningOK'
  BY <1>1, <1>2, <1>4, <1>8 DEF NavInv, RunningOK, UnderWay
<1>11. CapacityOK'
  BY <1>4 DEF NavInv, CapacityOK, Entries
<1> QED
  BY <1>5, <1>6, <1>7, <1>9, <1>10, <1>11 DEF NavInv

\* The lock is taken or given up for a probe or a cancellation that ends nothing.
LEMMA OnlyTheLock ==
    ASSUME NavInv, Probe \/ Cancel \/ StillPending \/ CancelRefused PROVE NavInv'
<1>0. NavigationTypeOK /\ current \in Requests \cup {NoOp}
  BY DEF NavInv, NavigationTypeOK
<1>1. UNCHANGED <<request, told, journal, current, keys, alive, controlled, sent, ended, evicted>>
  BY DEF Probe, Cancel, StillPending, CancelRefused
<1>2. navFaults' \in 0..NavFaults
  BY <1>0, NavigationConstants DEF NavigationTypeOK, Probe, Cancel, StillPending, CancelRefused, CanFail, Failing
<1>3. /\ holder.who \notin Requests
      /\ \/ holder' = [who |-> "drive", at |-> "poll"] /\ current # NoOp
         \/ holder' = [who |-> "cancel", at |-> "stop"] /\ current # NoOp
         \/ holder' = NoHolder
  BY NavigationConstants DEF Probe, Cancel, StillPending, CancelRefused, LockFree, NoHolder
<1>4. NavigationTypeOK'
  BY <1>0, <1>1, <1>2, <1>3 DEF NavigationTypeOK, NoHolder
<1>5. HolderOK'
  BY <1>1, <1>3, NavigationConstants DEF NavInv, HolderOK, NoHolder
<1>6. CurrentOK' /\ ContextOK' /\ ClaimsOK' /\ RunningOK' /\ CapacityOK'
  BY <1>1 DEF NavInv, CurrentOK, RecordsOf, ContextOK, ClaimsOK, Claims, RunningOK, UnderWay, CapacityOK, Entries
<1> QED
  BY <1>4, <1>5, <1>6 DEF NavInv

\* A human takes or gives back a desktop.
LEMMA ControlIsOther ==
    ASSUME NavInv, ControlMoves PROVE NavInv'
<1>1. UNCHANGED <<request, told, journal, current, keys, holder, alive, sent, ended, evicted, navFaults>>
      /\ controlled' \in BOOLEAN
  BY DEF ControlMoves
<1> QED
  BY <1>1 DEF NavInv, NavigationTypeOK, HolderOK, CurrentOK, RecordsOf, ContextOK, ClaimsOK, Claims,
     RunningOK, UnderWay, CapacityOK, Entries

\* A navigation ends: its records are completed, and no others that run.
LEMMA NavigationEnds ==
    ASSUME NavInv, current # NoOp, NEW result \in Results, Finish(current, keys, result),
           alive' \in BOOLEAN, controlled' \in BOOLEAN, navFaults' \in 0..NavFaults,
           \/ holder' = NoHolder
           \/ holder' = [holder EXCEPT !.at = "losing"] /\ holder.who # "none" /\ ~alive',
           UNCHANGED <<request, told, keys, sent, evicted>>
    PROVE  NavInv'
<1>0. NavigationTypeOK /\ current \in Requests
  BY DEF NavInv, NavigationTypeOK
<1>1. Completes(keys) /\ ended' = ended \cup {current} /\ current' = NoOp
  BY <1>0, CompletedFacts DEF Finish
<1>2. alive /\ request[current].at = "hanging" /\ current \notin ended /\ keys = RecordsOf(current)
  BY DEF NavInv, CurrentOK
<1>3. holder.who \notin Requests
  BY DEF NavInv, HolderOK
<1>4. /\ holder'.who \notin Requests
      /\ holder' \in [who : Requests \cup {"none", "drive", "cancel"},
                      at : {"none", "open", "begin", "poll", "stop", "losing"}]
      /\ holder'.who = "none" => holder'.at = "none"
      /\ holder'.at \in {"none", "losing"} /\ (holder'.at = "losing" => ~alive')
      /\ holder'.who \in {"drive", "cancel"} => holder'.at = "losing"
  BY <1>0, <1>3, NavigationConstants DEF NavigationTypeOK, NoHolder
<1>5. NavigationTypeOK'
  BY <1>0, <1>1, <1>4 DEF NavigationTypeOK, Completes, RecordType
<1>6. HolderOK'
  BY <1>1, <1>3, <1>4 DEF NavInv, HolderOK
<1>7. CurrentOK'
  BY <1>1, <1>2 DEF NavInv, CurrentOK
<1>8. ContextOK'
  BY DEF NavInv, ContextOK
<1>9. ClaimsOK'
  <2>1. \A k \in OpIds : journal[k].state # "none" => journal'[k].state # "none"
    BY <1>1 DEF Completes, JournalKeys
  <2> QED
    BY <2>1 DEF NavInv, ClaimsOK, Claims
<1>10. RunningOK'
  <2>1. \A d \in Requests : UnderWay(d)' => d # current /\ UnderWay(d)
    BY <1>1, <1>2 DEF UnderWay
  <2>2. UnderWay(current)
    BY <1>2 DEF UnderWay
  <2>3. \A d \in Requests \ {current} : UnderWay(d) /\ request[d].op \in OpIds => request[d].op \notin keys
    BY <1>0, <1>2, <2>2, NavigationConstants DEF NavInv, RunningOK, RecordsOf
  <2>4. \A d \in Requests \ {current} : d \notin keys
    BY <1>2, NavigationConstants DEF RecordsOf
  <2>5. \A k \in JournalKeys \ keys : journal'[k].state = journal[k].state
    BY <1>1 DEF Completes
  <2> QED
    BY <2>1, <2>3, <2>4, <2>5 DEF NavInv, RunningOK, JournalKeys
<1>11. CapacityOK'
  BY <1>1, CompletesKeepsSize DEF NavInv
<1> QED
  BY <1>5, <1>6, <1>7, <1>8, <1>9, <1>10, <1>11 DEF NavInv

\* A probe finds the end, a cancellation succeeds, or the browser turns out to be gone.
LEMMA EndIsSeen ==
    ASSUME NavInv, Over \/ CancelDone \/ WorkGone PROVE NavInv'
<1>1. current # NoOp /\ NavigationTypeOK
  BY DEF NavInv, HolderOK, Over, CancelDone, WorkGone
<1>2. PICK result \in Results : Finish(current, keys, result)
  BY DEF Over, CancelDone, WorkGone, Results
<1>3. holder' = NoHolder /\ UNCHANGED <<request, told, keys, sent, evicted>>
  BY DEF Over, CancelDone, WorkGone
<1>4. alive' \in BOOLEAN /\ controlled' \in BOOLEAN
  BY <1>1 DEF NavigationTypeOK, Over, CancelDone, WorkGone
<1>5. navFaults' \in 0..NavFaults
  BY <1>1, NavigationConstants DEF NavigationTypeOK, Over, CancelDone, WorkGone, CanFail, Failing
<1> QED
  BY <1>1, <1>2, <1>3, <1>4, <1>5, NavigationEnds

\* The worker fails: a navigation that is under way ends with it.
LEMMA WorkerIsLost ==
    ASSUME NavInv, WorkerFails PROVE NavInv'
<1>0. NavigationTypeOK
  BY DEF NavInv
<1>1. /\ ~alive' /\ alive' \in BOOLEAN /\ controlled' \in BOOLEAN /\ holder' = [holder EXCEPT !.at = "losing"]
      /\ UNCHANGED <<request, told, keys, evicted>>
  BY DEF WorkerFails
<1>2. navFaults' \in 0..NavFaults
  BY <1>0, NavigationConstants DEF NavigationTypeOK, WorkerFails, CanFail, Failing
<1>3. holder.who # "none"
  <2>1. holder \in [who : Requests \cup {"none", "drive", "cancel"},
                    at : {"none", "open", "begin", "poll", "stop", "losing"}]
    BY <1>0 DEF NavigationTypeOK
  <2>2. holder.who = "none" => holder.at = "none"
    BY DEF NavInv, HolderOK
  <2> QED
    BY <2>1, <2>2 DEF WorkerFails, LockFree, NoHolder
<1>4. CASE current # NoOp
  <2>1. holder.at # "begin"
    BY <1>0, <1>4 DEF NavInv, HolderOK, NavigationTypeOK
  <2>2. sent' = sent /\ Finish(current, keys, "worker")
    BY <1>4, <2>1 DEF WorkerFails
  <2> QED
    BY <1>1, <1>2, <1>3, <1>4, <2>2, NavigationEnds DEF Results
<1>5. CASE current = NoOp
  <2>1. UNCHANGED <<journal, ended, current>>
    BY <1>5 DEF WorkerFails
  <2>2. /\ holder' \in [who : Requests \cup {"none", "drive", "cancel"},
                        at : {"none", "open", "begin", "poll", "stop", "losing"}]
        /\ holder'.who = holder.who /\ holder'.at = "losing"
    BY <1>0, <1>1 DEF NavigationTypeOK
  <2>3. /\ sent' \subseteq Requests /\ sent \subseteq sent'
        /\ \A c \in sent' \ sent : request[c].at = "held"
    BY <1>0, NavigationConstants DEF NavigationTypeOK, NavInv, HolderOK, WorkerFails
  <2>4. NavigationTypeOK'
    BY <1>0, <1>1, <1>2, <2>1, <2>2, <2>3 DEF NavigationTypeOK
  <2>5. HolderOK' /\ CurrentOK'
    BY <1>1, <1>3, <1>5, <2>1, <2>2 DEF NavInv, HolderOK, CurrentOK
  <2>6. ContextOK'
    BY <1>1, <2>3 DEF NavInv, ContextOK
  <2>7. ClaimsOK'
    BY <1>1, <2>1, <2>3 DEF NavInv, ClaimsOK, Claims
  <2>8. RunningOK'
    BY <1>1, <2>1 DEF NavInv, RunningOK, UnderWay
  <2>9. CapacityOK'
    BY <2>1 DEF NavInv, CapacityOK, Entries
  <2> QED
    BY <2>4, <2>5, <2>6, <2>7, <2>8, <2>9 DEF NavInv
<1> QED
  BY <1>4, <1>5

\* The worker is down and whoever had the lock goes on.  What a probe or a cancellation
\* completes then was the navigation's, and nothing is under way any more.
LEMMA AfterTheWorker ==
    ASSUME NavInv, WorkerDown PROVE NavInv'
<1>0. /\ NavigationTypeOK /\ ~alive /\ holder.at = "losing" /\ holder' = NoHolder
      /\ UNCHANGED <<current, keys, alive, controlled, sent, ended, evicted, navFaults>>
  BY DEF NavInv, HolderOK, WorkerDown
<1>1. CASE holder.who \in Requests
  <2>1. Concludes(holder.who, "refused")
    BY <1>1, NavigationConstants DEF WorkerDown
  <2> QED
    BY <1>0, <1>1, <2>1, EndsAlone DEF Results
<1>2. CASE holder.who \notin Requests
  <2>1. PICK K : Completes(K)
    <3>1. CASE \E result \in Results : journal' = Completed(journal, keys, result)
      BY <1>0, <3>1, CompletedFacts
    <3>2. CASE journal' = journal
      <4>1. Completes({})
        BY <1>0, <3>2 DEF Completes, NavigationTypeOK, RecordType
      <4> QED
        BY <4>1
    <3> QED
      BY <1>2, <3>1, <3>2 DEF WorkerDown, Results
  <2>2. UNCHANGED <<request, told>>
    BY <1>2 DEF WorkerDown
  <2>3. current = NoOp
    BY <1>0 DEF NavInv, CurrentOK
  <2>4. NavigationTypeOK'
    BY <1>0, <2>1, <2>2 DEF NavigationTypeOK, Completes, RecordType, NoHolder
  <2>5. HolderOK' /\ CurrentOK'
    BY <1>0, <1>2, <2>2, <2>3, NavigationConstants DEF NavInv, HolderOK, CurrentOK, NoHolder
  <2>6. ContextOK'
    BY <1>0, <2>2 DEF NavInv, ContextOK
  <2>7. ClaimsOK'
    <3>1. \A k \in OpIds : journal[k].state # "none" => journal'[k].state # "none"
      BY <2>1 DEF Completes, JournalKeys
    <3> QED
      BY <1>0, <2>2, <3>1 DEF NavInv, ClaimsOK, Claims
  <2>8. RunningOK'
    <3>1. \A d \in Requests : ~UnderWay(d)'
      BY <1>0, <1>2, <2>2, <2>3, NavigationConstants DEF NavInv, HolderOK, CurrentOK, UnderWay
    <3> QED
      BY <3>1 DEF RunningOK
  <2>9. CapacityOK'
    BY <2>1, CompletesKeepsSize DEF NavInv
  <2> QED
    BY <2>4, <2>5, <2>6, <2>7, <2>8, <2>9 DEF NavInv
<1> QED
  BY <1>1, <1>2
-----------------------------------------------------------------------------
\* The invariant

\* Nothing was asked for yet: the journal is empty and the lock free.
LEMMA NavigationStarts == Init_Navigation => NavInv
<1> SUFFICES ASSUME Init_Navigation PROVE NavInv
  OBVIOUS
<1>1. /\ \A c \in Requests : request[c] = Unasked /\ told[c] = "nothing"
      /\ \A k \in JournalKeys : journal[k] = NoRecord
      /\ current = NoOp /\ keys = {} /\ holder = NoHolder /\ alive = TRUE
      /\ controlled = FALSE /\ sent = {} /\ ended = {} /\ evicted = {} /\ navFaults = 0
  BY DEF Init_Navigation
<1>2. NavigationTypeOK
  <2>1. request \in [Requests -> RequestType] /\ journal \in [JournalKeys -> RecordType]
    BY DEF Init_Navigation, Unasked, NoRecord, RequestType, RecordType
  <2>2. told \in [Requests -> {"nothing", "busy", "pending", "final", "replay", "conflict"}]
    BY DEF Init_Navigation
  <2>3. /\ current \in Requests \cup {NoOp} /\ keys \subseteq JournalKeys
        /\ alive \in BOOLEAN /\ controlled \in BOOLEAN
        /\ sent \subseteq Requests /\ ended \subseteq Requests /\ evicted \subseteq OpIds
    BY <1>1
  <2>4. /\ holder \in [who : Requests \cup {"none", "drive", "cancel"},
                       at : {"none", "open", "begin", "poll", "stop", "losing"}]
        /\ navFaults \in 0..NavFaults
    BY <1>1, NavigationConstants DEF NoHolder
  <2> QED
    BY <2>1, <2>2, <2>3, <2>4 DEF NavigationTypeOK, RequestType, RecordType
<1>3. HolderOK /\ CurrentOK /\ ContextOK
  BY <1>1, NavigationConstants DEF HolderOK, CurrentOK, ContextOK, Unasked, NoHolder
<1>4. ClaimsOK /\ RunningOK
  BY <1>1 DEF ClaimsOK, Claims, RunningOK, UnderWay, Unasked
<1>5. CapacityOK
  <2>1. Entries = {}
    BY <1>1 DEF Entries, NoRecord
  <2> QED
    BY <2>1, FS_EmptySet, NavigationConstants DEF CapacityOK
<1> QED
  BY <1>2, <1>3, <1>4, <1>5 DEF NavInv

\* Every step of a call, of a probe, of a cancellation and of a failure keeps the invariant.
LEMMA NavigationSteps == NavInv /\ [Next_Navigation]_navVars => NavInv'
<1> SUFFICES ASSUME NavInv, [Next_Navigation]_navVars PROVE NavInv'
  OBVIOUS
<1>1. CASE \E c \in Requests, op \in OpIds \cup {NoOp}, d \in Arguments :
             Replay(c, op, d) \/ Enter(c, op, d) \/ TurnAway(c, op, d)
  BY <1>1, AnsweredAtOnce, CallEnters
<1>2. CASE \E c \in Requests : TimeUp(c)
  BY <1>2, TimeIsUp
<1>3. ASSUME NEW c \in Requests, Undispatched(c) \/ Refuse(c) PROVE NavInv'
  <2>1. /\ request[c].at = "queued" /\ holder' = holder /\ Concludes(c, "refused")
        /\ UNCHANGED <<current, keys, alive, controlled, sent, ended, evicted, navFaults>>
    BY <1>3 DEF Undispatched, Refuse
  <2> QED
    BY <2>1, EndsAlone DEF Results
<1>4. ASSUME NEW c \in Requests, NothingBegun(c) PROVE NavInv'
  <2>1. /\ holder.who = c /\ holder' = NoHolder /\ \E result \in Results : Concludes(c, result)
        /\ UNCHANGED <<current, keys, alive, controlled, sent, ended, evicted, navFaults>>
    BY <1>4 DEF NothingBegun, Results
  <2> QED
    BY <2>1, EndsAlone
<1>5. CASE \E c \in Requests : Dispatch(c) \/ TabOpened(c) \/ Begun(c) \/ Hear(c)
  BY <1>5, CallDispatches, TabIsOpen, NavigationBegins, CallerHears
<1>6. CASE Probe \/ StillPending \/ Cancel \/ CancelRefused
  BY <1>6, OnlyTheLock
<1>7. CASE Over \/ CancelDone \/ WorkGone
  BY <1>7, EndIsSeen
<1>8. CASE WorkerFails \/ WorkerDown \/ ControlMoves
  BY <1>8, WorkerIsLost, AfterTheWorker, ControlIsOther
<1>9. CASE UNCHANGED navVars
  BY <1>9 DEF navVars, NavInv, NavigationTypeOK, HolderOK, CurrentOK, RecordsOf, ContextOK, ClaimsOK, Claims,
     RunningOK, UnderWay, CapacityOK, Entries
<1> QED
  BY <1>1, <1>2, <1>3, <1>4, <1>5, <1>6, <1>7, <1>8, <1>9 DEF Next_Navigation, Moves

\* The invariant holds in every state of every run.
THEOREM NavigationInvariant == Spec_Navigation => []NavInv
<1>1. Init_Navigation => NavInv
  BY NavigationStarts
<1>2. NavInv /\ [Next_Navigation]_navVars => NavInv'
  BY NavigationSteps
<1> QED
  BY <1>1, <1>2, PTL DEF Spec_Navigation

\* The calls, the journal and the lock only ever hold what the code puts there.
THEOREM NavigationTypeCorrect == Spec_Navigation => []NavigationTypeOK
<1>1. NavInv => NavigationTypeOK
  BY DEF NavInv
<1> QED
  BY <1>1, NavigationInvariant, PTL

\* A client that was told that nothing was dispatched is right for ever.
THEOREM NotDispatchedIsFinal == Spec_Navigation => []BusyIsFinal
<1>1. NavInv => BusyIsFinal
  BY DEF NavInv, NavigationTypeOK, ContextOK, BusyIsFinal
<1> QED
  BY <1>1, NavigationInvariant, PTL

\* While its record is kept, an operation id is good for one page command.
THEOREM RepetitionIsSafe == Spec_Navigation => []OneDispatchPerOperation
<1>1. NavInv => OneDispatchPerOperation
  <2> SUFFICES ASSUME NavInv, NEW op \in OpIds \ evicted
               PROVE  Cardinality({c \in sent : request[c].op = op}) <= 1
    BY DEF OneDispatchPerOperation
  <2>1. sent \subseteq Requests
    BY DEF NavInv, NavigationTypeOK
  <2>2. \A c, d \in {e \in sent : request[e].op = op} : c = d
    BY <2>1 DEF NavInv, ClaimsOK, Claims
  <2> DEFINE Sent == {e \in sent : request[e].op = op}
  <2>3. \A c, d \in Sent : c = d
    BY <2>2
  <2> HIDE DEF Sent
  <2>4. CASE Sent = {}
    <3>1. Cardinality(Sent) = 0
      BY <2>4, FS_EmptySet
    <3> QED
      BY <3>1 DEF Sent
  <2>5. CASE Sent # {}
    <3>1. PICK c : Sent = {c}
      BY <2>3, <2>5
    <3>2. Cardinality(Sent) = 1
      BY <3>1, FS_Singleton
    <3> QED
      BY <3>2 DEF Sent
  <2> QED
    BY <2>4, <2>5
<1> QED
  BY <1>1, NavigationInvariant, PTL

\* The journal stays within its bound and keeps the record of what is under way.
THEOREM RunningIsKept == Spec_Navigation => []JournalKeepsRunning
<1>1. NavInv => JournalKeepsRunning
  <2> SUFFICES ASSUME NavInv PROVE JournalKeepsRunning
    OBVIOUS
  <2>1. \A c \in Requests : /\ request[c].at \in {"none", "queued", "held", "hanging", "over"}
                            /\ request[c].op \in OpIds \cup {NoOp}
    BY DEF NavInv, NavigationTypeOK
  <2>2. ASSUME NEW c \in Requests, request[c].at \in {"held", "hanging"}, c \notin ended
        PROVE  /\ journal[c].state = "running"
               /\ \A k \in {c, request[c].op} \ {NoOp} : journal[k].state = "running"
    BY <2>1, <2>2 DEF NavInv, RunningOK, UnderWay
  <2>3. ASSUME NEW c \in Requests, told[c] = "pending", journal[c].state = "none"
        PROVE  request[c].at = "over" \/ c \in ended
    <3>1. request[c].at \in {"held", "hanging", "over"}
      BY <2>1, <2>3 DEF NavInv, ContextOK
    <3> QED
      BY <2>2, <2>3, <3>1
  <2> QED
    BY <2>2, <2>3 DEF NavInv, CapacityOK, JournalKeepsRunning
<1> QED
  BY <1>1, NavigationInvariant, PTL
=============================================================================
