---------------------------- MODULE PacingProofs ----------------------------
(***************************************************************************)
(* Theorems about NavigationPacing: turns, the pace of every host, and     *)
(* what is remembered of a host, for any number of callers and hosts and   *)
(* for all limits.                                                         *)
(*                                                                         *)
(* Most actions end with expire(), which goes over all hosts.  So the      *)
(* invariant is stated of records, hosts, frames, logs and a time as       *)
(* parameters: it holds of what an action leaves, and expire() keeps it.   *)
(***************************************************************************)
EXTENDS NavigationPacing, SequenceTheorems, FiniteSetTheorems, WellFoundedInduction, TLAPS

Entries == [sent : Nat, noted : Nat]
RecordSet == [dispatches : Seq(Nat), users : Nat, locked : BOOLEAN, waiters : Seq(Callers)]
FrameSet == [at : Stages, host : Hosts \cup {NoHost}, record : Records \cup {NoRecord},
             deadline : Nat, timed : BOOLEAN, wake : Nat]

UsersOf(K, r) == {c \in Callers : K[c].record = r}
DispatchesOf(R, H, h) == IF H[h] = NoRecord THEN <<>> ELSE R[H[h]].dispatches

Typed(R, H, K, L, t) ==
    /\ t \in 0..(MaxTime + Budget)
    /\ R \in [Records -> RecordSet] /\ H \in [Hosts -> Records \cup {NoRecord}]
    /\ K \in [Callers -> FrameSet] /\ L \in [Hosts -> Seq(Entries)]
    /\ \A r \in Records : \A i \in 1..Len(R[r].dispatches) : R[r].dispatches[i] <= t

\* Whoever is in pace() has a host, and the record that the table has of it.
Known(H, K) ==
    \A c \in Callers :
        IF K[c].at = "away" THEN K[c] = Away
        ELSE K[c].host \in Hosts /\ K[c].record \in Records /\ H[K[c].host] = K[c].record

Apart(H) == \A h, o \in Hosts : H[h] = H[o] /\ H[h] # NoRecord => h = o

\* users counts the callers that hold the record.
Counted(R, K) ==
    \A r \in Records : IsFiniteSet(UsersOf(K, r)) /\ R[r].users = Cardinality(UsersOf(K, r))

\* Who has a turn has the lock, and has it alone.
Held(R, K) ==
    \A c \in Callers : K[c].at \in Turn =>
        /\ R[K[c].record].locked
        /\ \A o \in Callers : K[o].at \in Turn /\ K[o].record = K[c].record => o = c

\* The dispatches d of a host end like its log l, and what d has no more is a minute old.
Matches(d, l, t) ==
    /\ Len(l) <= PerMinute + 1
    /\ Len(d) > 0 => Len(l) > 0
    /\ \A i \in 1..Len(d) : Len(l) - Len(d) + i >= 1 => d[i] = l[Len(l) - Len(d) + i].noted
    /\ Len(l) > Len(d) => l[Len(l) - Len(d)].noted + Minute <= t
    /\ \A i \in 1..Len(l) : l[i].noted <= t
    /\ \A i, j \in 1..Len(l) : i <= j => l[i].noted <= l[j].noted
History(R, H, L, t) == \A h \in Hosts : Matches(DispatchesOf(R, H, h), L[h], t)

\* At time w a navigation keeps its distance and the rate.
InTime(l, w) ==
    /\ Len(l) > 0 => l[Len(l)].noted + MinInterval <= w
    /\ Len(l) >= PerMinute => l[Len(l) - PerMinute + 1].noted + Minute <= w
Timely(K, L, t) ==
    \A c \in Callers : K[c].at \in Turn =>
        /\ InTime(L[K[c].host], IF K[c].at = "entering" THEN t ELSE K[c].wake)
        /\ K[c].at = "sent" => K[c].wake <= t

Core(R, H, K, L, t) ==
    /\ Typed(R, H, K, L, t) /\ Known(H, K) /\ Apart(H) /\ Counted(R, K) /\ Held(R, K)
    /\ History(R, H, L, t) /\ Timely(K, L, t)

\* Who queues is among the waiters.
Waits(R, K, c) ==
    K[c].at = "queued" => \E i \in 1..Len(R[K[c].record].waiters) : R[K[c].record].waiters[i] = c

\* Of the callers C, those in s are also in u.
Keeps(s, u, C) ==
    \A c \in C : (\E i \in 1..Len(s) : s[i] = c) => \E i \in 1..Len(u) : u[i] = c

Good(R, H, K, L, t) == Core(R, H, K, L, t) /\ \A c \in Callers : Waits(R, K, c)

Remembered(R, H) == \A h \in Hosts : H[h] # NoRecord => ~Unused(R[H[h]])

PacingInv == Good(record, hosts, caller, log, now) /\ Remembered(record, hosts) /\ PaceKept
-----------------------------------------------------------------------------
\* What expire() leaves of a record's dispatches

\* A set of numbers that is not empty has a least one.
LEMMA LeastNumber ==
    ASSUME NEW S, S \subseteq Nat, S # {}
    PROVE  \E x \in S : \A y \in S : x <= y
<1>1. PICK x \in S : \A y \in S : ~(<<y, x>> \in OpToRel(<, Nat))
  BY WFMin, NatLessThanWellFounded
<1>2. \A y \in S : ~(y < x)
  BY <1>1, Zenon DEF OpToRel
<1> QED
  BY <1>2

\* Young drops the old from the left, up to the first that is not.
LEMMA YoungIs ==
    ASSUME NEW d \in Seq(Nat), now \in Nat
    PROVE  \E k \in 0..Len(d) :
             /\ \A i \in 1..k : d[i] + Minute <= now
             /\ k < Len(d) => d[k + 1] + Minute > now
             /\ Young(d) \in Seq(Nat) /\ Len(Young(d)) = Len(d) - k
             /\ \A i \in 1..Len(Young(d)) : Young(d)[i] = d[k + i]
<1> DEFINE Ends(k) == /\ \A i \in 1..k : d[i] + Minute <= now
                      /\ k < Len(d) => d[k + 1] + Minute > now
           old == CHOOSE k \in 1..Len(d) : Ends(k)
<1>1. Len(d) \in Nat /\ \A i \in 1..Len(d) : d[i] \in Nat
  BY ElementOfSeq, LenProperties
<1>2. CASE d = <<>> \/ d[1] + Minute > now
  <2>1. Young(d) = d
    BY <1>2 DEF Young
  <2>2. Len(d) > 0 => d[1] + Minute > now
    BY <1>1, <1>2, EmptySeq
  <2> WITNESS 0 \in 0..Len(d)
  <2> QED
    BY <1>1, <2>1, <2>2
<1>3. CASE d # <<>> /\ ~(d[1] + Minute > now)
  <2>1. Len(d) > 0
    BY <1>1, <1>3, EmptySeq
  <2> DEFINE Stops == {i \in 1..Len(d) + 1 : i <= Len(d) => d[i] + Minute > now}
  <2>2. PICK x \in Stops : \A y \in Stops : x <= y
    <3>1. Len(d) + 1 \in Stops /\ Stops \subseteq Nat
      BY <1>1
    <3> HIDE DEF Stops
    <3> QED
      BY <3>1, LeastNumber
  <2>3. x \in 2..Len(d) + 1
    BY <1>1, <1>3, <2>1, <2>2
  <2>4. x - 1 \in 1..Len(d) /\ Ends(x - 1)
    <3>1. ASSUME NEW i \in 1..x - 1 PROVE d[i] + Minute <= now
      <4>1. i \in 1..Len(d) + 1 /\ i <= Len(d) /\ i \notin Stops
        BY <1>1, <2>2, <2>3
      <4> QED
        BY <1>1, <4>1, PacingConstants
    <3> QED
      BY <1>1, <2>2, <2>3, <3>1
  <2>5. PICK k \in 1..Len(d) : k = old /\ Ends(k)
    BY <2>4
  <2>6. Young(d) = SubSeq(d, k + 1, Len(d))
    BY <1>3, <2>5 DEF Young
  <2>7. /\ Young(d) \in Seq(Nat) /\ Len(Young(d)) = Len(d) - k
        /\ \A i \in 1..Len(Young(d)) : Young(d)[i] = d[k + i]
    BY <1>1, <2>6, SubSeqProperties
  <2> HIDE DEF old
  <2> WITNESS k \in 0..Len(d)
  <2> QED
    BY <2>5, <2>7
<1> QED
  BY <1>2, <1>3
-----------------------------------------------------------------------------
\* Dispatches and the log of a host

LEMMA DispatchFacts ==
    ASSUME NEW d \in Seq(Nat)
    PROVE  Len(d) \in Nat /\ \A i \in 1..Len(d) : d[i] \in Nat
BY LenProperties, ElementOfSeq

LEMMA LogFacts ==
    ASSUME NEW l \in Seq(Entries)
    PROVE  /\ Len(l) \in Nat
           /\ \A i \in 1..Len(l) : l[i] \in Entries /\ l[i].noted \in Nat /\ l[i].sent \in Nat
<1>1. Len(l) \in Nat /\ \A i \in 1..Len(l) : l[i] \in Entries
  BY LenProperties, ElementOfSeq
<1> QED
  BY <1>1 DEF Entries

\* What was matched stays matched when time passes.
LEMMA MatchesLater ==
    ASSUME NEW d \in Seq(Nat), NEW l \in Seq(Entries), NEW t \in Nat, NEW u \in Nat, t <= u,
           Matches(d, l, t)
    PROVE  Matches(d, l, u)
<1>1. Len(d) \in Nat /\ Len(l) \in Nat /\ \A i \in 1..Len(l) : l[i].noted \in Nat
  BY DispatchFacts, LogFacts
<1> QED
  BY <1>1, PacingConstants DEF Matches

\* So does what expire() leaves of it.
LEMMA MatchesYoung ==
    ASSUME NEW d \in Seq(Nat), NEW l \in Seq(Entries), now \in Nat, Matches(d, l, now)
    PROVE  Young(d) \in Seq(Nat) /\ Matches(Young(d), l, now)
<1>1. /\ Len(d) \in Nat /\ \A i \in 1..Len(d) : d[i] \in Nat
      /\ Len(l) \in Nat /\ \A i \in 1..Len(l) : l[i].noted \in Nat
  BY DispatchFacts, LogFacts
<1>2. PICK k \in 0..Len(d) :
        /\ \A i \in 1..k : d[i] + Minute <= now
        /\ Young(d) \in Seq(Nat) /\ Len(Young(d)) = Len(d) - k
        /\ \A i \in 1..Len(Young(d)) : Young(d)[i] = d[k + i]
  BY YoungIs
<1> DEFINE y == Young(d)
<1>3. y \in Seq(Nat) /\ Len(y) = Len(d) - k /\ Len(y) \in Nat /\ \A i \in 1..Len(y) : y[i] = d[k + i]
  BY <1>1, <1>2
<1> HIDE DEF y
<1>4. \A i \in 1..Len(y) : Len(l) - Len(y) + i >= 1 => y[i] = l[Len(l) - Len(y) + i].noted
  <2> TAKE i \in 1..Len(y)
  <2>1. k + i \in 1..Len(d) /\ Len(l) - Len(y) + i = Len(l) - Len(d) + (k + i)
    BY <1>1, <1>3
  <2> QED
    BY <1>3, <2>1 DEF Matches
<1>5. ASSUME Len(l) > Len(y) PROVE l[Len(l) - Len(y)].noted + Minute <= now
  <2>1. CASE k = 0
    BY <1>1, <1>3, <1>5, <2>1 DEF Matches
  <2>2. CASE k > 0
    <3>1. k \in 1..Len(d) /\ d[k] + Minute <= now
      BY <1>1, <1>2, <2>2
    <3>2. Len(l) - Len(y) = Len(l) - Len(d) + k /\ Len(l) - Len(d) + k >= 1
      BY <1>1, <1>3, <1>5
    <3>3. d[k] = l[Len(l) - Len(d) + k].noted
      BY <3>1, <3>2 DEF Matches
    <3> QED
      BY <3>1, <3>2, <3>3
  <2> QED
    BY <1>1, <2>1, <2>2
<1>6. Matches(y, l, now)
  BY <1>1, <1>3, <1>4, <1>5 DEF Matches
<1> QED
  BY <1>3, <1>6 DEF y

\* Who finds fewer dispatches than are allowed, and waits as long as is due, is in time.
LEMMA WaitIsEnough ==
    ASSUME NEW d \in Seq(Nat), NEW l \in Seq(Entries), now \in Nat, Matches(d, l, now),
           Len(d) < PerMinute, NEW w \in Nat, w >= now, w >= Due(d)
    PROVE  InTime(l, w)
<1>1. /\ Len(d) \in Nat /\ \A i \in 1..Len(d) : d[i] \in Nat
      /\ Len(l) \in Nat /\ \A i \in 1..Len(l) : l[i].noted \in Nat
  BY DispatchFacts, LogFacts
<1>2. ASSUME Len(l) > 0 PROVE l[Len(l)].noted + MinInterval <= w
  <2>1. CASE Len(d) = 0
    BY <1>1, <1>2, <2>1, PacingConstants DEF Matches
  <2>2. CASE Len(d) > 0
    <3>1. d # <<>> /\ d[Len(d)] = l[Len(l)].noted
      <4>1. Len(d) \in 1..Len(d) /\ Len(l) - Len(d) + Len(d) = Len(l)
        BY <1>1, <2>2
      <4>2. d # <<>>
        BY <2>2, EmptySeq
      <4> QED
        BY <1>1, <1>2, <4>1, <4>2 DEF Matches
    <3> QED
      BY <3>1 DEF Due
  <2> QED
    BY <1>1, <2>1, <2>2
<1>3. ASSUME Len(l) >= PerMinute PROVE l[Len(l) - PerMinute + 1].noted + Minute <= w
  <2>1. /\ Len(l) > Len(d) /\ Len(l) - PerMinute + 1 \in 1..Len(l) /\ Len(l) - Len(d) \in 1..Len(l)
        /\ Len(l) - PerMinute + 1 <= Len(l) - Len(d)
    BY <1>1, <1>3, PacingConstants
  <2>2. l[Len(l) - PerMinute + 1].noted <= l[Len(l) - Len(d)].noted
    BY <2>1 DEF Matches
  <2>3. l[Len(l) - Len(d)].noted + Minute <= now
    BY <2>1 DEF Matches
  <2>4. l[Len(l) - PerMinute + 1].noted \in Nat /\ l[Len(l) - Len(d)].noted \in Nat
    BY <1>1, <2>1
  <2>5. Minute \in Nat /\ now <= w
    BY PacingConstants
  <2> DEFINE first == l[Len(l) - PerMinute + 1].noted
             last == l[Len(l) - Len(d)].noted
  <2>6. first \in Nat /\ last \in Nat /\ first <= last /\ last + Minute <= now
    BY <2>2, <2>3, <2>4
  <2>7. first + Minute <= w
    <3> HIDE DEF first, last
    <3> QED
      BY <2>5, <2>6
  <2> QED
    BY <2>7
<1> QED
  BY <1>2, <1>3 DEF InTime

\* Counted from the end, a place in a sequence moves on with its length.
LEMMA Shifted ==
    ASSUME NEW p \in Nat, NEW n \in Nat, NEW i \in 1..n, p - n + i >= 1
    PROVE  p - n + i \in 1..p /\ p - n + i + 1 = p + 1 - n + i /\ p + 1 - n + i >= 1
OBVIOUS

\* What is in time stays in time.
LEMMA InTimeLater ==
    ASSUME NEW l \in Seq(Entries), NEW w \in Nat, NEW t \in Nat, w <= t, InTime(l, w)
    PROVE  InTime(l, t)
<1>1. Len(l) \in Nat /\ \A i \in 1..Len(l) : l[i].noted \in Nat
  BY LogFacts
<1>2. ASSUME Len(l) > 0 PROVE l[Len(l)].noted + MinInterval <= t
  <2>1. l[Len(l)].noted \in Nat
    BY <1>1, <1>2
  <2> QED
    BY <1>2, <2>1, PacingConstants DEF InTime
<1>3. ASSUME Len(l) >= PerMinute PROVE l[Len(l) - PerMinute + 1].noted + Minute <= t
  <2>1. Len(l) - PerMinute + 1 \in 1..Len(l)
    BY <1>1, <1>3, PacingConstants
  <2>2. l[Len(l) - PerMinute + 1].noted \in Nat
    BY <1>1, <2>1
  <2> QED
    BY <1>3, <2>2, PacingConstants DEF InTime
<1> QED
  BY <1>2, <1>3 DEF InTime

\* The pace of one host.
PacedLog(l) ==
    /\ \A i \in 1..Len(l) - 1 : l[i + 1].sent >= l[i].noted + MinInterval
    /\ Len(l) = PerMinute + 1 => l[PerMinute + 1].sent >= l[1].noted + Minute

\* A navigation that was sent in time can be noted: the log keeps the pace.
LEMMA NotedInTime ==
    ASSUME NEW d \in Seq(Nat), NEW l \in Seq(Entries), now \in Nat, Matches(d, l, now),
           PacedLog(l), NEW w \in Nat, w <= now, InTime(l, w),
           NEW m, m = Last(Append(l, [sent |-> w, noted |-> now]))
    PROVE  /\ m \in Seq(Entries) /\ Append(d, now) \in Seq(Nat)
           /\ Matches(Append(d, now), m, now) /\ PacedLog(m)
<1> DEFINE e == [sent |-> w, noted |-> now]
           a == Append(l, e)
           x == Append(d, now)
<1>1. /\ Len(d) \in Nat /\ \A i \in 1..Len(d) : d[i] \in Nat
      /\ Len(l) \in Nat /\ \A i \in 1..Len(l) : l[i] \in Entries /\ l[i].noted \in Nat
  BY DispatchFacts, LogFacts
<1>2. e \in Entries /\ e.sent = w /\ e.noted = now
  BY DEF Entries
<1>3. /\ a \in Seq(Entries) /\ a # <<>> /\ Len(a) = Len(l) + 1 /\ a[Len(l) + 1] = e
      /\ \A i \in 1..Len(l) : a[i] = l[i]
  BY <1>2, AppendProperties
<1>4. /\ x \in Seq(Nat) /\ Len(x) = Len(d) + 1 /\ x[Len(d) + 1] = now
      /\ \A i \in 1..Len(d) : x[i] = d[i]
  BY AppendProperties
<1> HIDE DEF e, a, x
<1>5. /\ \A i \in 1..Len(a) : a[i].noted <= now /\ a[i].noted \in Nat
      /\ \A i, j \in 1..Len(a) : i <= j => a[i].noted <= a[j].noted
  <2>1. \A i \in 1..Len(a) : i = Len(l) + 1 \/ i \in 1..Len(l)
    BY <1>1, <1>3
  <2>2. \A i \in 1..Len(l) : a[i].noted = l[i].noted /\ l[i].noted \in Nat /\ l[i].noted <= now
    BY <1>1, <1>3 DEF Matches
  <2>3. a[Len(l) + 1].noted = now
    BY <1>2, <1>3
  <2>4. ASSUME NEW i \in 1..Len(a), NEW j \in 1..Len(a), i <= j
        PROVE  a[i].noted <= a[j].noted
    <3>1. CASE i \in 1..Len(l) /\ j \in 1..Len(l)
      <4>1. l[i].noted <= l[j].noted
        BY <2>4, <3>1 DEF Matches
      <4> QED
        BY <2>2, <3>1, <4>1
    <3>2. CASE j = Len(l) + 1
      <4>1. a[j].noted = now /\ a[i].noted <= now
        BY <2>1, <2>2, <2>3, <3>2
      <4> QED
        BY <4>1
    <3> QED
      BY <1>1, <2>1, <2>4, <3>1, <3>2
  <2> QED
    BY <2>1, <2>2, <2>3, <2>4
<1>6. \A i \in 1..Len(x) : Len(a) - Len(x) + i >= 1 => x[i] = a[Len(a) - Len(x) + i].noted
  <2> TAKE i \in 1..Len(x)
  <2>1. CASE i = Len(d) + 1
    BY <1>1, <1>2, <1>3, <1>4, <2>1
  <2>2. CASE i \in 1..Len(d)
    <3>1. Len(a) - Len(x) + i = Len(l) - Len(d) + i /\ Len(l) - Len(d) + i <= Len(l)
      BY <1>1, <1>3, <1>4, <2>2
    <3>2. Len(l) - Len(d) + i >= 1 => d[i] = l[Len(l) - Len(d) + i].noted
      BY <2>2 DEF Matches
    <3>3. Len(l) - Len(d) + i >= 1 => a[Len(l) - Len(d) + i] = l[Len(l) - Len(d) + i]
      <4> HAVE Len(l) - Len(d) + i >= 1
      <4>1. Len(l) - Len(d) + i \in 1..Len(l)
        BY <1>1, <2>2, <3>1
      <4> QED
        BY <1>3, <4>1
    <3> QED
      BY <1>4, <2>2, <3>1, <3>2, <3>3
  <2> QED
    BY <1>1, <1>4, <2>1, <2>2
<1>7. Len(a) > Len(x) => a[Len(a) - Len(x)].noted + Minute <= now
  <2> HAVE Len(a) > Len(x)
  <2>1. Len(l) > Len(d) /\ Len(a) - Len(x) = Len(l) - Len(d) /\ Len(l) - Len(d) \in 1..Len(l)
    BY <1>1, <1>3, <1>4
  <2>2. l[Len(l) - Len(d)].noted + Minute <= now
    BY <2>1 DEF Matches
  <2> QED
    BY <1>3, <2>1, <2>2
<1>8. \A i \in 1..Len(a) - 1 : a[i + 1].sent >= a[i].noted + MinInterval
  <2> TAKE i \in 1..Len(a) - 1
  <2>1. CASE i = Len(l)
    BY <1>1, <1>2, <1>3, <2>1 DEF InTime
  <2>2. CASE i \in 1..Len(l) - 1
    <3>1. i \in 1..Len(l) /\ i + 1 \in 1..Len(l)
      BY <1>1, <2>2
    <3> QED
      BY <1>3, <2>2, <3>1 DEF PacedLog
  <2> QED
    BY <1>1, <1>3, <2>1, <2>2
<1>9. Len(l) >= PerMinute => /\ a[Len(a)].sent >= a[Len(a) - PerMinute].noted + Minute
                            /\ Len(a) - PerMinute \in 1..Len(a)
  <2> SUFFICES ASSUME Len(l) >= PerMinute
               PROVE  /\ a[Len(a)].sent >= a[Len(a) - PerMinute].noted + Minute
                      /\ Len(a) - PerMinute \in 1..Len(a)
    OBVIOUS
  <2>1. Len(l) - PerMinute + 1 \in 1..Len(l) /\ Len(a) - PerMinute = Len(l) - PerMinute + 1
    BY <1>1, <1>3, PacingConstants
  <2> QED
    BY <1>1, <1>2, <1>3, <2>1 DEF InTime
<1>10. CASE Len(l) <= PerMinute
  <2>1. m = a
    BY <1>1, <1>3, <1>10, PacingConstants DEF Last, a, e
  <2>2. Matches(x, a, now)
    BY <1>1, <1>3, <1>4, <1>5, <1>6, <1>7, <1>10, PacingConstants DEF Matches
  <2>3. PacedLog(a)
    BY <1>1, <1>3, <1>8, <1>9, <1>10, PacingConstants DEF PacedLog
  <2> QED
    BY <1>3, <1>4, <2>1, <2>2, <2>3 DEF x
<1>11. CASE Len(l) = PerMinute + 1
  <2>1. m = Tail(a)
    BY <1>1, <1>3, <1>11, PacingConstants DEF Last, a, e
  <2>2. m \in Seq(Entries) /\ Len(m) = PerMinute + 1 /\ \A i \in 1..Len(m) : m[i] = a[i + 1]
    <3>1. /\ Tail(a) \in Seq(Entries) /\ Len(Tail(a)) = Len(a) - 1
          /\ \A i \in 1..Len(Tail(a)) : Tail(a)[i] = a[i + 1]
      BY <1>3, HeadTailProperties
    <3>2. Len(Tail(a)) = PerMinute + 1
      BY <1>1, <1>3, <1>11, <3>1, PacingConstants
    <3> QED
      BY <2>1, <3>1, <3>2
  <2>3. \A i \in 1..Len(m) : i + 1 \in 1..Len(a)
    BY <1>1, <1>3, <1>11, <2>2
  <2>0. Len(m) \in Nat /\ Len(a) = Len(m) + 1 /\ Len(x) \in Nat
    BY <1>1, <1>3, <1>4, <1>11, <2>2, PacingConstants
  <2>4. \A i \in 1..Len(x) : Len(m) - Len(x) + i >= 1 => x[i] = m[Len(m) - Len(x) + i].noted
    <3> TAKE i \in 1..Len(x)
    <3> HAVE Len(m) - Len(x) + i >= 1
    <3>1. /\ Len(m) - Len(x) + i \in 1..Len(m)
          /\ Len(m) - Len(x) + i + 1 = Len(a) - Len(x) + i
          /\ Len(a) - Len(x) + i >= 1
      BY <2>0, Shifted
    <3>2. x[i] = a[Len(a) - Len(x) + i].noted
      BY <1>6, <3>1
    <3>3. m[Len(m) - Len(x) + i] = a[Len(m) - Len(x) + i + 1]
      BY <2>2, <3>1
    <3> QED
      BY <3>1, <3>2, <3>3
  <2>5. Len(m) > Len(x) => m[Len(m) - Len(x)].noted + Minute <= now
    <3> HAVE Len(m) > Len(x)
    <3>1. /\ Len(m) - Len(x) \in 1..Len(m) /\ Len(m) - Len(x) + 1 = Len(a) - Len(x)
          /\ Len(a) > Len(x)
      BY <1>1, <1>3, <1>4, <1>11, <2>2, PacingConstants
    <3>2. m[Len(m) - Len(x)] = a[Len(m) - Len(x) + 1]
      BY <2>2, <3>1
    <3> QED
      BY <1>7, <3>1, <3>2
  <2>6. Matches(x, m, now)
    <3>1. \A i \in 1..Len(m) : m[i].noted <= now
      BY <1>5, <2>2, <2>3
    <3>2. \A i, j \in 1..Len(m) : i <= j => m[i].noted <= m[j].noted
      <4> TAKE i, j \in 1..Len(m)
      <4> HAVE i <= j
      <4>1. i + 1 \in 1..Len(a) /\ j + 1 \in 1..Len(a) /\ i + 1 <= j + 1
        BY <2>2, <2>3, PacingConstants
      <4>2. a[i + 1].noted <= a[j + 1].noted
        BY <1>5, <4>1
      <4> QED
        BY <2>2, <4>2
    <3>3. Len(m) <= PerMinute + 1 /\ Len(m) > 0
      BY <2>2, PacingConstants
    <3> QED
      BY <2>4, <2>5, <3>1, <3>2, <3>3 DEF Matches
  <2>7. \A i \in 1..Len(m) - 1 : m[i + 1].sent >= m[i].noted + MinInterval
    <3> TAKE i \in 1..Len(m) - 1
    <3>1. i \in 1..Len(m) /\ i + 1 \in 1..Len(m) /\ i + 1 \in 1..Len(a) - 1
      BY <1>1, <1>3, <1>11, <2>2, PacingConstants
    <3> QED
      BY <1>8, <2>2, <3>1
  <2>8. m[PerMinute + 1].sent >= m[1].noted + Minute
    <3>1. /\ PerMinute + 1 \in 1..Len(m) /\ 1 \in 1..Len(m) /\ Len(a) = PerMinute + 2
          /\ Len(a) - PerMinute = 1 + 1 /\ Len(l) >= PerMinute
      BY <1>1, <1>3, <1>11, <2>2, PacingConstants
    <3>2. m[PerMinute + 1] = a[Len(a)] /\ m[1] = a[Len(a) - PerMinute]
      BY <2>2, <3>1, PacingConstants
    <3> QED
      BY <1>9, <3>1, <3>2
  <2> QED
    BY <1>4, <2>2, <2>6, <2>7, <2>8 DEF PacedLog, x
<1>12. Len(l) <= PerMinute \/ Len(l) = PerMinute + 1
  <2>1. Len(l) <= PerMinute + 1
    BY DEF Matches
  <2> QED
    BY <1>1, <2>1, PacingConstants
<1> QED
  BY <1>10, <1>11, <1>12 DEF x
-----------------------------------------------------------------------------
\* What expire() keeps, whatever it is called with

LEMMA YoungBelow ==
    ASSUME NEW d \in Seq(Nat), now \in Nat, \A i \in 1..Len(d) : d[i] <= now
    PROVE  Young(d) \in Seq(Nat) /\ \A i \in 1..Len(Young(d)) : Young(d)[i] <= now
<1>1. PICK k \in 0..Len(d) :
        /\ Young(d) \in Seq(Nat) /\ Len(Young(d)) = Len(d) - k
        /\ \A i \in 1..Len(Young(d)) : Young(d)[i] = d[k + i]
  BY YoungIs
<1>2. Len(d) \in Nat
  BY LenProperties
<1>3. ASSUME NEW i \in 1..Len(Young(d)) PROVE Young(d)[i] <= now
  <2>1. k + i \in 1..Len(d) /\ Young(d)[i] = d[k + i]
    BY <1>1, <1>2
  <2> QED
    BY <2>1
<1> QED
  BY <1>1, <1>3

LEMMA ExpireKeeps ==
    ASSUME NEW R, NEW H, NEW K, NEW L, Good(R, H, K, L, now), Expire(R, H)
    PROVE  Good(record', hosts', K, L, now) /\ Remembered(record', hosts')
<1>1. Typed(R, H, K, L, now) /\ Known(H, K) /\ Apart(H) /\ Counted(R, K) /\ Held(R, K)
      /\ History(R, H, L, now) /\ Timely(K, L, now) /\ \A c \in Callers : Waits(R, K, c)
  BY DEF Good, Core
<1>2. now \in Nat /\ NoRecord \notin Records
  BY <1>1, PacingConstants DEF Typed
<1> DEFINE S == record'
<1>3. ASSUME NEW r \in Records
      PROVE  /\ S[r] \in RecordSet /\ S[r].users = R[r].users /\ S[r].locked = R[r].locked
             /\ S[r].waiters = R[r].waiters
             /\ \A i \in 1..Len(S[r].dispatches) : S[r].dispatches[i] <= now
             /\ \A h \in Hosts : H[h] = r => S[r].dispatches = Young(R[r].dispatches)
  <2>1. R[r] \in RecordSet /\ R[r].dispatches \in Seq(Nat)
        /\ \A i \in 1..Len(R[r].dispatches) : R[r].dispatches[i] <= now
    BY <1>1 DEF Typed, RecordSet
  <2>2. Young(R[r].dispatches) \in Seq(Nat)
        /\ \A i \in 1..Len(Young(R[r].dispatches)) : Young(R[r].dispatches)[i] <= now
    BY <1>2, <2>1, YoungBelow
  <2>3. S[r] = IF \E h \in Hosts : H[h] = r
               THEN [R[r] EXCEPT !.dispatches = Young(R[r].dispatches)] ELSE R[r]
    BY DEF Expire
  <2> HIDE DEF S
  <2>4. CASE \E h \in Hosts : H[h] = r
    <3>1. S[r] = [R[r] EXCEPT !.dispatches = Young(R[r].dispatches)]
      BY <2>3, <2>4
    <3>2. S[r].dispatches = Young(R[r].dispatches) /\ S[r] \in RecordSet
          /\ S[r].users = R[r].users /\ S[r].locked = R[r].locked /\ S[r].waiters = R[r].waiters
      BY <2>1, <2>2, <3>1 DEF RecordSet
    <3> QED
      BY <2>2, <3>2
  <2>5. CASE ~\E h \in Hosts : H[h] = r
    BY <2>1, <2>3, <2>5
  <2> QED
    BY <2>4, <2>5
<1>4. ASSUME NEW h \in Hosts
      PROVE  hosts'[h] = IF H[h] # NoRecord /\ Unused(S[H[h]]) THEN NoRecord ELSE H[h]
  BY DEF Expire
<1>5. S \in [Records -> RecordSet] /\ hosts' \in [Hosts -> Records \cup {NoRecord}]
  <2>1. DOMAIN S = Records /\ S = [r \in Records |-> S[r]]
    BY DEF Expire
  <2>2. hosts' = [h \in Hosts |-> hosts'[h]]
    BY DEF Expire
  <2>3. \A h \in Hosts : H[h] \in Records \cup {NoRecord}
    BY <1>1 DEF Typed
  <2>4. S \in [Records -> RecordSet]
    BY <1>3, <2>1
  <2>5. \A h \in Hosts : hosts'[h] \in Records \cup {NoRecord}
    BY <1>4, <2>3
  <2> QED
    BY <2>2, <2>4, <2>5
<1> HIDE DEF S
<1>6. Typed(S, hosts', K, L, now)
  BY <1>1, <1>3, <1>5 DEF Typed
<1>7. Known(hosts', K)
  <2> SUFFICES ASSUME NEW c \in Callers, K[c].at # "away"
               PROVE  hosts'[K[c].host] = H[K[c].host]
    BY <1>1 DEF Known
  <2>1. K[c].host \in Hosts /\ K[c].record \in Records /\ H[K[c].host] = K[c].record
    BY <1>1 DEF Known
  <2>2. c \in UsersOf(K, K[c].record)
    BY DEF UsersOf
  <2>3. R[K[c].record].users # 0
    <3>1. IsFiniteSet(UsersOf(K, K[c].record))
          /\ R[K[c].record].users = Cardinality(UsersOf(K, K[c].record))
      BY <1>1, <2>1 DEF Counted
    <3> QED
      BY <2>2, <3>1, FS_EmptySet
  <2>4. ~Unused(S[K[c].record])
    BY <1>3, <2>1, <2>3 DEF Unused
  <2> QED
    BY <1>4, <2>1, <2>4
<1>8. Apart(hosts')
  BY <1>1, <1>4 DEF Apart
<1>9. Counted(S, K)
  BY <1>1, <1>3 DEF Counted
<1>10. ASSUME NEW c \in Callers, K[c].at # "away"
       PROVE  /\ K[c].record \in Records
              /\ S[K[c].record].locked = R[K[c].record].locked
              /\ S[K[c].record].waiters = R[K[c].record].waiters
  BY <1>1, <1>3, <1>10 DEF Known
<1>11. Held(S, K)
  <2>1. \A c \in Callers : K[c].at \in Turn => K[c].at # "away"
    BY DEF Turn
  <2> QED
    BY <1>1, <1>10, <2>1 DEF Held
<1>12. History(S, hosts', L, now)
  <2> SUFFICES ASSUME NEW h \in Hosts PROVE Matches(DispatchesOf(S, hosts', h), L[h], now)
    BY DEF History
  <2>1. L[h] \in Seq(Entries) /\ Matches(DispatchesOf(R, H, h), L[h], now)
    BY <1>1 DEF History, Typed
  <2>2. CASE H[h] = NoRecord
    BY <1>4, <2>1, <2>2 DEF DispatchesOf
  <2>3. CASE H[h] # NoRecord
    <3>1. H[h] \in Records /\ R[H[h]].dispatches \in Seq(Nat)
      BY <1>1, <2>3 DEF Typed, RecordSet
    <3>2. Matches(Young(R[H[h]].dispatches), L[h], now)
      BY <1>2, <2>1, <2>3, <3>1, MatchesYoung DEF DispatchesOf
    <3>3. S[H[h]].dispatches = Young(R[H[h]].dispatches)
      BY <1>3, <3>1
    <3>4. DispatchesOf(S, hosts', h) = S[H[h]].dispatches
      BY <1>2, <1>4, <2>3, <3>1 DEF DispatchesOf, Unused
    <3> QED
      BY <3>2, <3>3, <3>4
  <2> QED
    BY <2>2, <2>3
<1>13. ASSUME NEW c \in Callers PROVE Waits(S, K, c)
  BY <1>1, <1>10 DEF Waits
<1>14. Remembered(S, hosts')
  BY <1>4 DEF Remembered
<1> QED
  BY <1>1, <1>6, <1>7, <1>8, <1>9, <1>11, <1>12, <1>13, <1>14 DEF Good, Core, S
-----------------------------------------------------------------------------
\* A caller goes, comes, and takes the turn

\* Who is in pace() holds a record that has a user.
LEMMA Uses ==
    ASSUME NEW R, NEW H, NEW K, Known(H, K), Counted(R, K),
           NEW c \in Callers, K[c].at # "away"
    PROVE  /\ K[c].host \in Hosts /\ K[c].record \in Records /\ H[K[c].host] = K[c].record
           /\ c \in UsersOf(K, K[c].record) /\ IsFiniteSet(UsersOf(K, K[c].record))
           /\ R[K[c].record].users = Cardinality(UsersOf(K, K[c].record))
           /\ R[K[c].record].users # 0
<1>1. K[c].host \in Hosts /\ K[c].record \in Records /\ H[K[c].host] = K[c].record
  BY DEF Known
<1>2. c \in UsersOf(K, K[c].record)
  BY DEF UsersOf
<1>3. IsFiniteSet(UsersOf(K, K[c].record))
      /\ R[K[c].record].users = Cardinality(UsersOf(K, K[c].record))
  BY <1>1 DEF Counted
<1> QED
  BY <1>1, <1>2, <1>3, FS_EmptySet

\* Of the records R nothing but the users, the lock and the waiters of r is changed in Q.
Rebooked(R, Q, r, users) ==
    /\ Q \in [Records -> RecordSet] /\ \A p \in Records \ {r} : Q[p] = R[p]
    /\ Q[r].dispatches = R[r].dispatches /\ Q[r].users = users

\* A caller that goes leaves its record to the others; the lock stays as it was, unless
\* nobody else has the turn.
LEMMA GoesAway ==
    ASSUME NEW R, NEW H, NEW K, NEW L, NEW t, NEW c \in Callers, NEW Q,
           Core(R, H, K, L, t), \A o \in Callers \ {c} : Waits(R, K, o),
           K[c].at # "away", NEW r, r = K[c].record,
           Rebooked(R, Q, r, R[r].users - 1),
           Q[r].locked = R[r].locked
             \/ \A o \in Callers \ {c} : K[o].record = r => K[o].at \notin Turn,
           Keeps(R[r].waiters, Q[r].waiters, Callers \ {c})
    PROVE  Good(Q, H, [K EXCEPT ![c] = Away], L, t)
<1> DEFINE J == [K EXCEPT ![c] = Away]
<1>0. /\ Q \in [Records -> RecordSet] /\ \A p \in Records \ {r} : Q[p] = R[p]
      /\ Q[r].dispatches = R[r].dispatches /\ Q[r].users = R[r].users - 1
  BY DEF Rebooked
<1>1. Typed(R, H, K, L, t) /\ Known(H, K) /\ Apart(H) /\ Counted(R, K) /\ Held(R, K)
      /\ History(R, H, L, t) /\ Timely(K, L, t)
  BY DEF Core
<1>2. K \in [Callers -> FrameSet] /\ Away \in FrameSet /\ Away.at = "away"
      /\ Away.record = NoRecord /\ NoRecord \notin Records
  BY <1>1, PacingConstants DEF Typed, Away, FrameSet, Stages
<1>3. J \in [Callers -> FrameSet] /\ J[c] = Away /\ \A o \in Callers \ {c} : J[o] = K[o]
  BY <1>2
<1> HIDE DEF J
<1>4. r \in Records /\ c \in UsersOf(K, r)
  BY <1>1, Uses
<1>5. \A p \in Records : Q[p].dispatches = R[p].dispatches
  BY <1>0, <1>4
<1>6. Typed(Q, H, J, L, t)
  BY <1>0, <1>1, <1>3, <1>5 DEF Typed
<1>7. Known(H, J)
  BY <1>1, <1>2, <1>3 DEF Known
<1>8. Counted(Q, J)
  <2> SUFFICES ASSUME NEW p \in Records
               PROVE  IsFiniteSet(UsersOf(J, p)) /\ Q[p].users = Cardinality(UsersOf(J, p))
    BY DEF Counted
  <2>1. IsFiniteSet(UsersOf(K, p)) /\ R[p].users = Cardinality(UsersOf(K, p))
    BY <1>1 DEF Counted
  <2>2. UsersOf(J, p) = UsersOf(K, p) \ {c}
    BY <1>2, <1>3 DEF UsersOf
  <2>3. CASE p = r
    <3>1. IsFiniteSet(UsersOf(J, p)) /\ Cardinality(UsersOf(J, p)) = Cardinality(UsersOf(K, p)) - 1
      BY <1>4, <2>1, <2>2, <2>3, FS_RemoveElement
    <3> QED
      BY <1>0, <2>1, <2>3, <3>1
  <2>4. CASE p # r
    <3>1. c \notin UsersOf(K, p)
      BY <2>4 DEF UsersOf
    <3>2. UsersOf(J, p) = UsersOf(K, p)
      BY <2>2, <3>1
    <3> QED
      BY <1>0, <2>1, <2>4, <3>2
  <2> QED
    BY <2>3, <2>4
<1>9. \A o \in Callers : J[o].at \in Turn => o # c /\ K[o].at \in Turn /\ J[o] = K[o]
  BY <1>2, <1>3 DEF Turn
<1>10. Held(Q, J)
  <2> SUFFICES ASSUME NEW o \in Callers, J[o].at \in Turn
               PROVE  /\ Q[J[o].record].locked
                      /\ \A p \in Callers : J[p].at \in Turn /\ J[p].record = J[o].record => p = o
    BY DEF Held
  <2>1. o # c /\ K[o].at \in Turn /\ J[o] = K[o] /\ K[o].at # "away"
    BY <1>9 DEF Turn
  <2>2. K[o].record \in Records /\ R[K[o].record].locked
    BY <1>1, <2>1 DEF Held, Known
  <2>3. Q[K[o].record].locked
    BY <1>0, <2>1, <2>2
  <2> QED
    BY <1>1, <1>9, <2>1, <2>3 DEF Held
<1>11. History(Q, H, L, t)
  <2>1. \A h \in Hosts : H[h] \in Records \cup {NoRecord}
    BY <1>1 DEF Typed
  <2>2. \A h \in Hosts : DispatchesOf(Q, H, h) = DispatchesOf(R, H, h)
    BY <1>5, <2>1 DEF DispatchesOf
  <2> QED
    BY <1>1, <2>2 DEF History
<1>12. Timely(J, L, t)
  BY <1>1, <1>9 DEF Timely
<1>13. ASSUME NEW o \in Callers PROVE Waits(Q, J, o)
  <2> SUFFICES ASSUME J[o].at = "queued"
               PROVE  \E i \in 1..Len(Q[J[o].record].waiters) : Q[J[o].record].waiters[i] = o
    BY DEF Waits
  <2>1. o # c /\ J[o] = K[o] /\ K[o].at = "queued"
    BY <1>2, <1>3
  <2>2. K[o].record \in Records
    BY <1>1, <2>1 DEF Known
  <2>3. \E i \in 1..Len(R[K[o].record].waiters) : R[K[o].record].waiters[i] = o
    BY <2>1 DEF Waits
  <2>4. CASE K[o].record = r
    BY <2>1, <2>3, <2>4 DEF Keeps
  <2>5. CASE K[o].record # r
    BY <1>0, <2>1, <2>2, <2>3, <2>5
  <2> QED
    BY <2>4, <2>5
<1> QED
  BY <1>1, <1>6, <1>7, <1>8, <1>10, <1>11, <1>12, <1>13 DEF Good, Core, J

\* The record of a host is the one in use, or a blank one that nobody holds.
LEMMA NewRecord ==
    ASSUME Good(record, hosts, caller, log, now), NEW h \in Hosts, NEW r \in Records, Found(h, r)
    PROVE  Good(Rows(h, r), [hosts EXCEPT ![h] = r], caller, log, now)
<1> DEFINE G == [hosts EXCEPT ![h] = r]
           S == Rows(h, r)
<1>1. /\ Typed(record, hosts, caller, log, now) /\ Known(hosts, caller) /\ Apart(hosts)
      /\ Counted(record, caller) /\ Held(record, caller) /\ History(record, hosts, log, now)
      /\ Timely(caller, log, now) /\ \A c \in Callers : Waits(record, caller, c)
  BY DEF Good, Core
<1>2. /\ record \in [Records -> RecordSet] /\ hosts \in [Hosts -> Records \cup {NoRecord}]
      /\ now \in Nat /\ NoRecord \notin Records
  BY <1>1, PacingConstants DEF Typed
<1>3. G \in [Hosts -> Records \cup {NoRecord}] /\ G[h] = r /\ \A o \in Hosts \ {h} : G[o] = hosts[o]
  BY <1>2
<1>4. CASE Kept(h)
  <2>1. G = hosts /\ S = record
    BY <1>2, <1>4 DEF Found, Rows
  <2> QED
    BY <2>1
<1>5. CASE ~Kept(h)
  <2>1. r \in Free(h)
    BY <1>5 DEF Found
  <2>2. (\A c \in Callers : caller[c].record # r) /\ \A o \in Hosts \ {h} : hosts[o] # r
    BY <2>1 DEF Free
  <2>3. Blank \in RecordSet /\ Blank.dispatches = <<>> /\ Blank.users = 0
    BY DEF Blank, RecordSet
  <2>4. S \in [Records -> RecordSet] /\ S[r] = Blank /\ \A p \in Records \ {r} : S[p] = record[p]
    BY <1>2, <1>5, <2>3 DEF Rows
  <2> HIDE DEF G, S
  <2>5. Typed(S, G, caller, log, now)
    <3>1. \A p \in Records : \A i \in 1..Len(S[p].dispatches) : S[p].dispatches[i] <= now
      <4>1. Len(<<>>) = 0
        OBVIOUS
      <4>2. \A i \in 1..Len(S[r].dispatches) : S[r].dispatches[i] <= now
        BY <2>3, <2>4, <4>1
      <4> QED
        BY <1>1, <2>4, <4>2 DEF Typed
    <3> QED
      BY <1>1, <1>3, <2>4, <3>1 DEF Typed
  <2>6. ASSUME NEW c \in Callers, caller[c].at # "away"
        PROVE  G[caller[c].host] = caller[c].record /\ S[caller[c].record] = record[caller[c].record]
    <3>1. /\ caller[c].host \in Hosts /\ caller[c].record \in Records
          /\ hosts[caller[c].host] = caller[c].record /\ record[caller[c].record].users # 0
      BY <1>1, <2>6, Uses
    <3>2. CASE caller[c].host = h
      <4> DEFINE row == [record[hosts[h]] EXCEPT !.dispatches = Recent(hosts[h])]
      <4>1. row.users # 0
        BY <1>2, <3>1, <3>2 DEF RecordSet
      <4>2. hosts[h] # NoRecord
        BY <1>2, <3>1, <3>2
      <4> QED
        BY <1>5, <4>1, <4>2 DEF Kept, Unused
    <3>3. CASE caller[c].host # h
      BY <1>3, <2>2, <2>4, <3>1, <3>3
    <3> QED
      BY <3>2, <3>3
  <2>7. Known(G, caller)
    BY <1>1, <2>6 DEF Known
  <2>8. Apart(G)
    BY <1>1, <1>3, <2>2 DEF Apart
  <2>9. Counted(S, caller)
    <3> SUFFICES ASSUME NEW p \in Records
                 PROVE  IsFiniteSet(UsersOf(caller, p)) /\ S[p].users = Cardinality(UsersOf(caller, p))
      BY DEF Counted
    <3>1. CASE p = r
      <4>1. UsersOf(caller, p) = {}
        BY <2>2, <3>1 DEF UsersOf
      <4> QED
        BY <2>3, <2>4, <3>1, <4>1, FS_EmptySet
    <3>2. CASE p # r
      BY <1>1, <2>4, <3>2 DEF Counted
    <3> QED
      BY <3>1, <3>2
  <2>10. Held(S, caller)
    <3>1. \A c \in Callers : caller[c].at \in Turn => caller[c].at # "away"
      BY DEF Turn
    <3> QED
      BY <1>1, <2>6, <3>1 DEF Held
  <2>11. History(S, G, log, now)
    <3> SUFFICES ASSUME NEW o \in Hosts PROVE Matches(DispatchesOf(S, G, o), log[o], now)
      BY DEF History
    <3>1. log[o] \in Seq(Entries) /\ Matches(DispatchesOf(record, hosts, o), log[o], now)
      BY <1>1 DEF History, Typed
    <3>2. CASE o # h
      <4>1. G[o] = hosts[o] /\ hosts[o] # r /\ hosts[o] \in Records \cup {NoRecord}
        BY <1>2, <1>3, <2>2, <3>2
      <4>2. DispatchesOf(S, G, o) = DispatchesOf(record, hosts, o)
        BY <2>4, <4>1 DEF DispatchesOf
      <4> QED
        BY <3>1, <4>2
    <3>3. CASE o = h
      <4>1. DispatchesOf(S, G, o) = <<>>
        BY <1>2, <1>3, <2>3, <2>4, <3>3 DEF DispatchesOf
      <4>2. CASE hosts[h] = NoRecord
        BY <3>1, <3>3, <4>1, <4>2 DEF DispatchesOf
      <4>3. CASE hosts[h] # NoRecord
        <5>1. hosts[h] \in Records /\ record[hosts[h]] \in RecordSet
              /\ record[hosts[h]].dispatches \in Seq(Nat)
          BY <1>2, <4>3 DEF RecordSet
        <5>2. Recent(hosts[h]) = <<>>
          BY <1>5, <4>3, <5>1 DEF Kept, Unused, RecordSet
        <5>3. Matches(Young(record[hosts[h]].dispatches), log[h], now)
          BY <1>2, <3>1, <3>3, <4>3, <5>1, MatchesYoung DEF DispatchesOf
        <5> QED
          BY <3>3, <4>1, <5>2, <5>3 DEF Recent
      <4> QED
        BY <4>2, <4>3
    <3> QED
      BY <3>2, <3>3
  <2>12. ASSUME NEW c \in Callers PROVE Waits(S, caller, c)
    BY <1>1, <2>6 DEF Waits
  <2> QED
    BY <1>1, <2>5, <2>7, <2>8, <2>9, <2>10, <2>11, <2>12 DEF Good, Core, G, S
<1> QED
  BY <1>4, <1>5

\* A caller that comes is one more user of the record.
LEMMA Joins ==
    ASSUME NEW R, NEW H, NEW K, NEW L, NEW t, NEW c \in Callers, NEW Q, NEW f \in FrameSet,
           Good(R, H, K, L, t), K[c].at = "away", f.at = "queued",
           f.host \in Hosts, NEW r \in Records, f.record = r, H[f.host] = r,
           Rebooked(R, Q, r, R[r].users + 1),
           Q[r].locked = R[r].locked,
           Keeps(R[r].waiters, Q[r].waiters, Callers)
    PROVE  /\ Core(Q, H, [K EXCEPT ![c] = f], L, t)
           /\ \A o \in Callers \ {c} : Waits(Q, [K EXCEPT ![c] = f], o)
<1> DEFINE J == [K EXCEPT ![c] = f]
<1>0. /\ Q \in [Records -> RecordSet] /\ \A p \in Records \ {r} : Q[p] = R[p]
      /\ Q[r].dispatches = R[r].dispatches /\ Q[r].users = R[r].users + 1
  BY DEF Rebooked
<1>1. Typed(R, H, K, L, t) /\ Known(H, K) /\ Apart(H) /\ Counted(R, K) /\ Held(R, K)
      /\ History(R, H, L, t) /\ Timely(K, L, t) /\ \A o \in Callers : Waits(R, K, o)
  BY DEF Good, Core
<1>2. K \in [Callers -> FrameSet] /\ K[c].record = NoRecord /\ NoRecord \notin Records
  BY <1>1, PacingConstants DEF Typed, Known, Away
<1>3. J \in [Callers -> FrameSet] /\ J[c] = f /\ \A o \in Callers \ {c} : J[o] = K[o]
  BY <1>2
<1> HIDE DEF J
<1>5. \A p \in Records : Q[p].dispatches = R[p].dispatches /\ Q[p].locked = R[p].locked
  BY <1>0
<1>6. Typed(Q, H, J, L, t)
  BY <1>0, <1>1, <1>3, <1>5 DEF Typed
<1>7. Known(H, J)
  BY <1>1, <1>3 DEF Known
<1>8. Counted(Q, J)
  <2> SUFFICES ASSUME NEW p \in Records
               PROVE  IsFiniteSet(UsersOf(J, p)) /\ Q[p].users = Cardinality(UsersOf(J, p))
    BY DEF Counted
  <2>1. IsFiniteSet(UsersOf(K, p)) /\ R[p].users = Cardinality(UsersOf(K, p)) /\ c \notin UsersOf(K, p)
    BY <1>1, <1>2 DEF Counted, UsersOf
  <2>3. CASE p = r
    <3>1. UsersOf(J, p) = UsersOf(K, p) \cup {c}
      BY <1>3, <2>3 DEF UsersOf
    <3>2. IsFiniteSet(UsersOf(J, p)) /\ Cardinality(UsersOf(J, p)) = Cardinality(UsersOf(K, p)) + 1
      BY <2>1, <3>1, FS_AddElement
    <3> QED
      BY <1>0, <2>1, <2>3, <3>2
  <2>4. CASE p # r
    <3>1. UsersOf(J, p) = UsersOf(K, p)
      BY <1>2, <1>3, <2>4 DEF UsersOf
    <3> QED
      BY <1>0, <2>1, <2>4, <3>1
  <2> QED
    BY <2>3, <2>4
<1>9. \A o \in Callers : J[o].at \in Turn => o # c /\ K[o].at \in Turn /\ J[o] = K[o]
  BY <1>3 DEF Turn
<1>10. Held(Q, J)
  <2>1. \A o \in Callers : K[o].at \in Turn => K[o].record \in Records
    BY <1>1 DEF Known, Turn
  <2> QED
    BY <1>1, <1>5, <1>9, <2>1 DEF Held
<1>11. History(Q, H, L, t)
  <2>1. \A h \in Hosts : H[h] \in Records \cup {NoRecord}
    BY <1>1 DEF Typed
  <2>2. \A h \in Hosts : DispatchesOf(Q, H, h) = DispatchesOf(R, H, h)
    BY <1>5, <2>1 DEF DispatchesOf
  <2> QED
    BY <1>1, <2>2 DEF History
<1>12. Timely(J, L, t)
  BY <1>1, <1>9 DEF Timely
<1>13. ASSUME NEW o \in Callers \ {c} PROVE Waits(Q, J, o)
  <2> SUFFICES ASSUME K[o].at = "queued"
               PROVE  \E i \in 1..Len(Q[K[o].record].waiters) : Q[K[o].record].waiters[i] = o
    BY <1>3 DEF Waits
  <2>2. K[o].record \in Records
    BY <1>1 DEF Known
  <2>3. \E i \in 1..Len(R[K[o].record].waiters) : R[K[o].record].waiters[i] = o
    BY <1>1 DEF Waits
  <2>4. CASE K[o].record = r
    BY <2>3, <2>4 DEF Keeps
  <2>5. CASE K[o].record # r
    BY <1>0, <2>2, <2>3, <2>5
  <2> QED
    BY <2>4, <2>5
<1> QED
  BY <1>1, <1>6, <1>7, <1>8, <1>10, <1>11, <1>12, <1>13 DEF Core, J

\* Who queues may take the turn of an open lock.
LEMMA HasTurn ==
    ASSUME NEW R, NEW H, NEW K, NEW L, NEW t, NEW c \in Callers, NEW f \in FrameSet,
           Core(R, H, K, L, t), \A o \in Callers \ {c} : Waits(R, K, o),
           K[c].at = "queued", NEW r, r = K[c].record, ~R[r].locked,
           f.at \in {"sleeping", "entering"}, f.host = K[c].host, f.record = r,
           InTime(L[f.host], IF f.at = "entering" THEN t ELSE f.wake)
    PROVE  Good([R EXCEPT ![r].locked = TRUE], H, [K EXCEPT ![c] = f], L, t)
<1> DEFINE J == [K EXCEPT ![c] = f]
           Q == [R EXCEPT ![r].locked = TRUE]
<1>1. Typed(R, H, K, L, t) /\ Known(H, K) /\ Apart(H) /\ Counted(R, K) /\ Held(R, K)
      /\ History(R, H, L, t) /\ Timely(K, L, t)
  BY DEF Core
<1>2. K \in [Callers -> FrameSet] /\ R \in [Records -> RecordSet] /\ NoRecord \notin Records
  BY <1>1, PacingConstants DEF Typed
<1>3. J \in [Callers -> FrameSet] /\ J[c] = f /\ \A o \in Callers \ {c} : J[o] = K[o]
  BY <1>2
<1>4. r \in Records /\ f.host \in Hosts /\ H[f.host] = r
  BY <1>1, Uses
<1>5. Q \in [Records -> RecordSet] /\ Q[r].locked /\ \A p \in Records :
        /\ Q[p].dispatches = R[p].dispatches /\ Q[p].users = R[p].users
        /\ Q[p].waiters = R[p].waiters
        /\ R[p].locked => Q[p].locked
  BY <1>2, <1>4 DEF RecordSet
<1> HIDE DEF J, Q
<1>6. Typed(Q, H, J, L, t)
  BY <1>1, <1>3, <1>5 DEF Typed
<1>7. Known(H, J)
  BY <1>1, <1>3, <1>4 DEF Known
<1>8. Counted(Q, J)
  <2>1. \A p \in Records : UsersOf(J, p) = UsersOf(K, p)
    BY <1>3 DEF UsersOf
  <2> QED
    BY <1>1, <1>5, <2>1 DEF Counted
<1>10. Held(Q, J)
  <2>1. \A o \in Callers : K[o].at \in Turn => K[o].record \in Records /\ K[o].record # r
    BY <1>1 DEF Known, Turn, Held
  <2>2. \A o \in Callers \ {c} : J[o].at \in Turn => J[o].record \in Records /\ J[o].record # r
    BY <1>3, <2>1
  <2> QED
    BY <1>1, <1>3, <1>5, <2>2 DEF Held
<1>11. History(Q, H, L, t)
  <2>1. \A h \in Hosts : H[h] \in Records \cup {NoRecord}
    BY <1>1 DEF Typed
  <2>2. \A h \in Hosts : DispatchesOf(Q, H, h) = DispatchesOf(R, H, h)
    BY <1>5, <2>1 DEF DispatchesOf
  <2> QED
    BY <1>1, <2>2 DEF History
<1>12. Timely(J, L, t)
  BY <1>1, <1>3 DEF Timely
<1>13. ASSUME NEW o \in Callers PROVE Waits(Q, J, o)
  <2> SUFFICES ASSUME J[o].at = "queued"
               PROVE  \E i \in 1..Len(Q[J[o].record].waiters) : Q[J[o].record].waiters[i] = o
    BY DEF Waits
  <2>1. o # c /\ J[o] = K[o]
    BY <1>3
  <2>2. K[o].record \in Records /\ Q[K[o].record].waiters = R[K[o].record].waiters
    BY <1>1, <1>5, <2>1 DEF Known
  <2> QED
    BY <2>1, <2>2 DEF Waits
<1> QED
  BY <1>1, <1>6, <1>7, <1>8, <1>10, <1>11, <1>12, <1>13 DEF Good, Core, J, Q

\* The records when a user left, and when it gave the turn up as well.
LEMMA LeftIs ==
    ASSUME NEW R \in [Records -> RecordSet], NEW r \in Records, R[r].users # 0
    PROVE  /\ Left(R, r) \in [Records -> RecordSet]
           /\ \A p \in Records \ {r} : Left(R, r)[p] = R[p]
           /\ Left(R, r)[r].dispatches = R[r].dispatches
           /\ Left(R, r)[r].users = R[r].users - 1 /\ Left(R, r)[r].locked = R[r].locked
           /\ Left(R, r)[r].waiters = R[r].waiters
<1>1. R[r] \in RecordSet /\ R[r].users - 1 \in Nat
  BY DEF RecordSet
<1> DEFINE row == [R[r] EXCEPT !.users = R[r].users - 1]
<1>2. /\ row \in RecordSet /\ row.dispatches = R[r].dispatches /\ row.users = R[r].users - 1
      /\ row.locked = R[r].locked /\ row.waiters = R[r].waiters
  BY <1>1 DEF RecordSet
<1>3. Left(R, r) = [R EXCEPT ![r] = row]
  BY DEF Left
<1> HIDE DEF row
<1> QED
  BY <1>2, <1>3

LEMMA ReleasedIs ==
    ASSUME NEW R \in [Records -> RecordSet], NEW r \in Records, R[r].users # 0
    PROVE  /\ Released(R, r) \in [Records -> RecordSet]
           /\ \A p \in Records \ {r} : Released(R, r)[p] = R[p]
           /\ Released(R, r)[r].dispatches = R[r].dispatches
           /\ Released(R, r)[r].users = R[r].users - 1 /\ Released(R, r)[r].locked = FALSE
           /\ Released(R, r)[r].waiters = R[r].waiters
<1>1. R[r] \in RecordSet /\ R[r].users - 1 \in Nat
  BY DEF RecordSet
<1> DEFINE row == [R[r] EXCEPT !.users = R[r].users - 1, !.locked = FALSE]
<1>2. /\ row \in RecordSet /\ row.dispatches = R[r].dispatches /\ row.users = R[r].users - 1
      /\ row.locked = FALSE /\ row.waiters = R[r].waiters
  BY <1>1 DEF RecordSet
<1>3. Released(R, r) = [R EXCEPT ![r] = row]
  BY <1>1 DEF Released, RecordSet
<1> HIDE DEF row
<1> QED
  BY <1>2, <1>3

\* The caller that has the lock is refused or gets the turn; then expire() runs.
LEMMA TakesTurn ==
    ASSUME NEW R, NEW H, NEW c \in Callers, NEW k \in FrameSet, caller \in [Callers -> FrameSet],
           NEW K \in [Callers -> FrameSet], \A o \in Callers \ {c} : K[o] = caller[o],
           K[c].at = "queued", K[c].host = k.host, K[c].record = k.record,
           Core(R, H, K, log, now), \A o \in Callers \ {c} : Waits(R, K, o),
           ~R[k.record].locked, TakeTurn(c, k, R, H)
    PROVE  Good(record', hosts', caller', log, now) /\ Remembered(record', hosts')
<1> DEFINE r == k.record
           d == Young(R[r].dispatches)
           due == Due(d)
           l == log[k.host]
<1>1. K \in [Callers -> FrameSet] /\ K[c].at = "queued" /\ K[c].host = k.host /\ K[c].record = r
  OBVIOUS
<1>2. /\ r \in Records /\ k.host \in Hosts /\ H[k.host] = r
      /\ R[r].users = Cardinality(UsersOf(K, r)) /\ R[r].users # 0
  <2>1. Known(H, K) /\ Counted(R, K) /\ K[c].at # "away"
    BY <1>1 DEF Core
  <2>2. /\ K[c].host \in Hosts /\ K[c].record \in Records /\ H[K[c].host] = K[c].record
        /\ R[K[c].record].users = Cardinality(UsersOf(K, K[c].record))
        /\ R[K[c].record].users # 0
    BY <2>1, Uses
  <2> QED
    BY <1>1, <2>2
<1>3. /\ R \in [Records -> RecordSet] /\ R[r].dispatches \in Seq(Nat) /\ l \in Seq(Entries)
      /\ now \in Nat /\ NoRecord \notin Records
  <2>1. Typed(R, H, K, log, now)
    BY DEF Core
  <2> QED
    BY <1>2, <2>1, PacingConstants DEF Typed, RecordSet
<1>4. d \in Seq(Nat) /\ Matches(d, l, now)
  <2>1. Matches(R[r].dispatches, l, now)
    BY <1>2, <1>3 DEF Core, History, DispatchesOf
  <2> QED
    BY <1>3, <2>1, MatchesYoung
<1>5. due \in Nat
  <2>1. CASE d = <<>>
    BY <1>3, <2>1 DEF Due
  <2>2. CASE d # <<>>
    <3>1. Len(d) \in 1..Len(d) /\ \A i \in 1..Len(d) : d[i] \in Nat
      BY <1>4, <2>2, EmptySeq, DispatchFacts
    <3> QED
      BY <2>2, <3>1, PacingConstants DEF Due
  <2> QED
    BY <2>1, <2>2
<1>6. ASSUME NEW w \in Nat, w >= now, w >= due, ~Crowded(d) PROVE InTime(l, w)
  <2>1. Len(d) < PerMinute
    BY <1>4, <1>6, DispatchFacts, PacingConstants DEF Crowded
  <2> QED
    BY <1>3, <1>4, <1>6, <2>1, WaitIsEnough
<1>7. ASSUME NEW Q, NEW J, Expire(Q, H), caller' = J, Good(Q, H, J, log, now)
      PROVE  Good(record', hosts', caller', log, now) /\ Remembered(record', hosts')
  BY <1>7, ExpireKeeps
<1>8. \/ /\ Expire(Released(R, r), H)
         /\ caller' = [caller EXCEPT ![c] = Away]
      \/ /\ ~Crowded(d) /\ due > now
         /\ Expire([R EXCEPT ![r].locked = TRUE], H)
         /\ caller' = [caller EXCEPT ![c] = [k EXCEPT !.at = "sleeping", !.timed = FALSE,
                                                      !.wake = due]]
      \/ /\ ~Crowded(d) /\ due <= now
         /\ Expire([R EXCEPT ![r].locked = TRUE], H)
         /\ caller' = [caller EXCEPT ![c] = [k EXCEPT !.at = "entering", !.timed = FALSE]]
  BY DEF TakeTurn
<1> HIDE DEF r, d, due, l
<1>9. ASSUME NEW f, [caller EXCEPT ![c] = f] = caller' PROVE caller' = [K EXCEPT ![c] = f]
  <2>1. DOMAIN caller = Callers /\ DOMAIN K = Callers
    OBVIOUS
  <2>2. \A o \in Callers : [caller EXCEPT ![c] = f][o] = [K EXCEPT ![c] = f][o]
    BY <2>1
  <2> QED
    BY <1>9, <2>1, <2>2
<1>10. CASE Expire(Released(R, r), H) /\ caller' = [caller EXCEPT ![c] = Away]
  <2>1. caller' = [K EXCEPT ![c] = Away]
    BY <1>9, <1>10
  <2> DEFINE Q == Released(R, r)
  <2>2. /\ Q \in [Records -> RecordSet] /\ \A p \in Records \ {r} : Q[p] = R[p]
        /\ Q[r].dispatches = R[r].dispatches /\ Q[r].users = R[r].users - 1
        /\ Q[r].locked = FALSE /\ Q[r].waiters = R[r].waiters
    BY <1>2, <1>3, ReleasedIs
  <2>3. R[r].locked = FALSE
    BY <1>2, <1>3 DEF RecordSet, r
  <2> HIDE DEF Q
  <2>4. Good(Q, H, [K EXCEPT ![c] = Away], log, now)
    <3>1. /\ K[c].at # "away" /\ r = K[c].record /\ Q[r].locked = R[r].locked
          /\ Keeps(R[r].waiters, Q[r].waiters, Callers \ {c})
      BY <1>1, <2>2, <2>3 DEF Keeps
    <3>2. Rebooked(R, Q, r, R[r].users - 1)
      BY <2>2 DEF Rebooked
    <3> QED
      BY <3>1, <3>2, GoesAway
  <2> QED
    BY <1>7, <1>10, <2>1, <2>4 DEF Q
<1>11. ASSUME NEW f \in FrameSet, f.at \in {"sleeping", "entering"}, f.host = k.host, f.record = r,
              InTime(l, IF f.at = "entering" THEN now ELSE f.wake),
              caller' = [caller EXCEPT ![c] = f], Expire([R EXCEPT ![r].locked = TRUE], H)
       PROVE  Good(record', hosts', caller', log, now) /\ Remembered(record', hosts')
  <2>1. caller' = [K EXCEPT ![c] = f]
    BY <1>9, <1>11
  <2>2. Good([R EXCEPT ![r].locked = TRUE], H, [K EXCEPT ![c] = f], log, now)
    <3>1. InTime(log[f.host], IF f.at = "entering" THEN now ELSE f.wake)
      BY <1>11 DEF l
    <3>2. f.host = K[c].host /\ r = K[c].record /\ ~R[r].locked
      BY <1>1, <1>11 DEF r
    <3> QED
      BY <1>1, <1>11, <3>1, <3>2, HasTurn
  <2> QED
    BY <1>7, <1>11, <2>1, <2>2
<1>12. ASSUME ~Crowded(d), due > now, Expire([R EXCEPT ![r].locked = TRUE], H),
              caller' = [caller EXCEPT ![c] = [k EXCEPT !.at = "sleeping", !.timed = FALSE,
                                                        !.wake = due]]
       PROVE  Good(record', hosts', caller', log, now) /\ Remembered(record', hosts')
  <2> DEFINE f == [k EXCEPT !.at = "sleeping", !.timed = FALSE, !.wake = due]
  <2>1. /\ f \in FrameSet /\ f.at = "sleeping" /\ f.host = k.host /\ f.record = r
        /\ f.wake = due
    BY <1>5 DEF FrameSet, Stages, r
  <2>2. InTime(l, due)
    BY <1>3, <1>5, <1>6, <1>12
  <2> HIDE DEF f
  <2>3. caller' = [caller EXCEPT ![c] = f]
    BY <1>12 DEF f
  <2> QED
    BY <1>11, <1>12, <2>1, <2>2, <2>3
<1>13. ASSUME ~Crowded(d), due <= now, Expire([R EXCEPT ![r].locked = TRUE], H),
              caller' = [caller EXCEPT ![c] = [k EXCEPT !.at = "entering", !.timed = FALSE]]
       PROVE  Good(record', hosts', caller', log, now) /\ Remembered(record', hosts')
  <2> DEFINE f == [k EXCEPT !.at = "entering", !.timed = FALSE]
  <2>1. f \in FrameSet /\ f.at = "entering" /\ f.host = k.host /\ f.record = r
    BY DEF FrameSet, Stages, r
  <2>2. InTime(l, now)
    BY <1>3, <1>5, <1>6, <1>13
  <2> HIDE DEF f
  <2>3. caller' = [caller EXCEPT ![c] = f]
    BY <1>13 DEF f
  <2> QED
    BY <1>11, <1>13, <2>1, <2>2, <2>3
<1> QED
  BY <1>8, <1>10, <1>12, <1>13

\* The waiters that are left when one gives up.
LEMMA WithoutKeeps ==
    ASSUME NEW s \in Seq(Callers), NEW c, \E i \in 1..Len(s) : s[i] = c
    PROVE  /\ Without(s, c) \in Seq(Callers)
           /\ Keeps(s, Without(s, c), Callers \ {c})
<1>1. Len(s) \in Nat /\ DOMAIN s = 1..Len(s)
  BY LenProperties
<1> DEFINE at == CHOOSE i \in DOMAIN s : s[i] = c
<1>2. PICK n \in 1..Len(s) : n = at /\ s[n] = c
  BY <1>1
<1> DEFINE a == SubSeq(s, 1, n - 1)
           b == SubSeq(s, n + 1, Len(s))
<1>3. Without(s, c) = a \o b
  BY <1>2 DEF Without
<1>4. /\ a \in Seq(Callers) /\ Len(a) = n - 1 /\ \A i \in 1..n - 1 : a[i] = s[i]
  <2>1. n - 1 \in Nat /\ n - 1 <= Len(s)
    BY <1>1
  <2> QED
    BY <1>1, <2>1, SubSeqProperties
<1>5. /\ b \in Seq(Callers) /\ Len(b) = Len(s) - n
      /\ \A i \in 1..Len(s) - n : b[i] = s[n + i]
  <2>1. /\ n + 1 \in Int /\ Len(s) \in Int /\ Len(s) - (n + 1) + 1 = Len(s) - n
        /\ \A i \in n + 1..Len(s) : s[i] \in Callers
    BY <1>1, ElementOfSeq
  <2>2. /\ b \in Seq(Callers) /\ Len(b) = IF n + 1 <= Len(s) THEN Len(s) - (n + 1) + 1 ELSE 0
        /\ \A i \in 1..Len(s) - (n + 1) + 1 : b[i] = s[n + 1 + i - 1]
    BY <2>1, SubSeqProperties
  <2>3. \A i \in 1..Len(s) - n : n + 1 + i - 1 = n + i
    OBVIOUS
  <2> HIDE DEF b
  <2>4. Len(b) = Len(s) - n
    <3> DEFINE z == Len(s)
    <3>1. z \in Nat /\ n \in 1..z /\ Len(b) = IF n + 1 <= z THEN z - (n + 1) + 1 ELSE 0
      BY <1>1, <2>2
    <3> HIDE DEF z
    <3>2. Len(b) = z - n
      BY <3>1
    <3> QED
      BY <3>2 DEF z
  <2>5. ASSUME NEW i \in 1..Len(s) - n PROVE b[i] = s[n + i]
    BY <2>1, <2>2, <2>3
  <2> QED
    BY <2>2, <2>4, <2>5
<1> HIDE DEF at, a, b
<1>6. /\ a \o b \in Seq(Callers) /\ Len(a \o b) = Len(s) - 1
      /\ \A i \in 1..n - 1 : (a \o b)[i] = a[i]
      /\ \A i \in n..Len(s) - 1 : (a \o b)[i] = b[i - (n - 1)]
  <2>1. /\ a \o b \in Seq(Callers) /\ Len(a \o b) = Len(a) + Len(b)
        /\ \A i \in 1..Len(a) + Len(b) :
             (a \o b)[i] = IF i <= Len(a) THEN a[i] ELSE b[i - Len(a)]
    BY <1>4, <1>5, ConcatProperties
  <2>2. Len(a) + Len(b) = Len(s) - 1
    BY <1>1, <1>4, <1>5
  <2>3. ASSUME NEW i \in 1..n - 1 PROVE (a \o b)[i] = a[i]
    <3>1. i \in 1..Len(a) + Len(b) /\ i <= Len(a)
      BY <1>1, <1>4, <2>2
    <3> QED
      BY <2>1, <3>1
  <2>4. ASSUME NEW i \in n..Len(s) - 1 PROVE (a \o b)[i] = b[i - (n - 1)]
    <3>1. i \in 1..Len(a) + Len(b) /\ ~(i <= Len(a)) /\ Len(a) = n - 1
      BY <1>1, <1>4, <2>2
    <3> QED
      BY <2>1, <3>1
  <2> QED
    BY <2>1, <2>2, <2>3, <2>4
<1>7. ASSUME NEW o \in Callers \ {c}, NEW i \in 1..Len(s), s[i] = o
      PROVE  \E j \in 1..Len(a \o b) : (a \o b)[j] = o
  <2>1. i # n
    BY <1>2, <1>7
  <2>2. CASE i < n
    <3>1. i \in 1..n - 1 /\ i \in 1..Len(a \o b)
      BY <1>1, <1>6, <2>2
    <3> QED
      BY <1>4, <1>6, <1>7, <3>1
  <2>3. CASE i > n
    <3>1. /\ i - 1 \in 1..Len(a \o b) /\ i - 1 \in n..Len(s) - 1
          /\ i - 1 - (n - 1) = i - n /\ i - n \in 1..Len(s) - n /\ n + (i - n) = i
      BY <1>1, <1>6, <2>3
    <3>2. (a \o b)[i - 1] = b[i - n] /\ b[i - n] = s[n + (i - n)]
      BY <1>5, <1>6, <3>1
    <3> QED
      BY <1>7, <3>1, <3>2
  <2> QED
    BY <1>1, <2>1, <2>2, <2>3
<1> QED
  BY <1>3, <1>6, <1>7 DEF Keeps
-----------------------------------------------------------------------------
\* The actions

After == Good(record', hosts', caller', log', now') /\ Remembered(record', hosts')

\* What the records, the table and the frames are.
LEMMA Kinds ==
    ASSUME Good(record, hosts, caller, log, now)
    PROVE  /\ record \in [Records -> RecordSet] /\ hosts \in [Hosts -> Records \cup {NoRecord}]
           /\ caller \in [Callers -> FrameSet] /\ log \in [Hosts -> Seq(Entries)]
           /\ now \in Nat /\ NoRecord \notin Records
           /\ Known(hosts, caller) /\ Counted(record, caller) /\ Held(record, caller)
           /\ Core(record, hosts, caller, log, now)
           /\ \A c \in Callers : Waits(record, caller, c)
BY PacingConstants DEF Good, Core, Typed

\* A record when a user comes.
LEMMA CameIs ==
    ASSUME NEW R \in [Records -> RecordSet], NEW r \in Records, NEW Q,
           Q = [R EXCEPT ![r].users = @ + 1]
    PROVE  /\ Rebooked(R, Q, r, R[r].users + 1) /\ Q[r].locked = R[r].locked
           /\ Q[r].waiters = R[r].waiters
<1>1. R[r] \in RecordSet /\ R[r].users + 1 \in Nat
  BY DEF RecordSet
<1> DEFINE row == [R[r] EXCEPT !.users = R[r].users + 1]
<1>2. /\ row \in RecordSet /\ row.dispatches = R[r].dispatches /\ row.users = R[r].users + 1
      /\ row.locked = R[r].locked /\ row.waiters = R[r].waiters
  BY <1>1 DEF RecordSet
<1>3. Q = [R EXCEPT ![r] = row]
  OBVIOUS
<1> HIDE DEF row
<1> QED
  BY <1>2, <1>3 DEF Rebooked

\* A caller that comes and queues is the last of the waiters.
LEMMA Queues ==
    ASSUME NEW R, NEW H, NEW c \in Callers, NEW f \in FrameSet, NEW r \in Records,
           Good(R, H, caller, log, now), caller[c].at = "away", f.at = "queued",
           f.host \in Hosts, f.record = r, H[f.host] = r, NEW Q,
           Q = [[R EXCEPT ![r].users = @ + 1] EXCEPT ![r].waiters = Append(@, c)]
    PROVE  Good(Q, H, [caller EXCEPT ![c] = f], log, now)
<1>1. R \in [Records -> RecordSet] /\ R[r] \in RecordSet /\ caller \in [Callers -> FrameSet]
  BY DEF Good, Core, Typed
<1> DEFINE u == Append(R[r].waiters, c)
<1>2. /\ R[r].waiters \in Seq(Callers) /\ u \in Seq(Callers)
      /\ Len(u) = Len(R[r].waiters) + 1 /\ Len(R[r].waiters) \in Nat
      /\ u[Len(R[r].waiters) + 1] = c /\ \A i \in 1..Len(R[r].waiters) : u[i] = R[r].waiters[i]
  BY <1>1, AppendProperties, LenProperties DEF RecordSet
<1> HIDE DEF u
<1> DEFINE row == [R[r] EXCEPT !.users = R[r].users + 1, !.waiters = u]
<1>3. /\ row \in RecordSet /\ row.dispatches = R[r].dispatches /\ row.users = R[r].users + 1
      /\ row.locked = R[r].locked /\ row.waiters = u
  BY <1>1, <1>2 DEF RecordSet
<1>4. Q = [R EXCEPT ![r] = row]
  BY <1>1 DEF RecordSet, u
<1> HIDE DEF row
<1>5. Rebooked(R, Q, r, R[r].users + 1) /\ Q[r].locked = R[r].locked /\ Q[r].waiters = u
  BY <1>1, <1>3, <1>4 DEF Rebooked
<1>6. Keeps(R[r].waiters, Q[r].waiters, Callers)
  BY <1>2, <1>5 DEF Keeps
<1>7. /\ Core(Q, H, [caller EXCEPT ![c] = f], log, now)
      /\ \A o \in Callers \ {c} : Waits(Q, [caller EXCEPT ![c] = f], o)
  BY <1>5, <1>6, Joins
<1>8. Waits(Q, [caller EXCEPT ![c] = f], c)
  BY <1>1, <1>2, <1>5 DEF Waits
<1> QED
  BY <1>7, <1>8 DEF Good

\* A caller that comes where nobody waits is a user of the record like those who queue.
LEMMA Comes ==
    ASSUME NEW R, NEW H, NEW c \in Callers, NEW f \in FrameSet, NEW r \in Records,
           Good(R, H, caller, log, now), caller[c].at = "away", f.at = "queued",
           f.host \in Hosts, f.record = r, H[f.host] = r
    PROVE  /\ Core([R EXCEPT ![r].users = @ + 1], H, [caller EXCEPT ![c] = f], log, now)
           /\ \A o \in Callers \ {c} :
                Waits([R EXCEPT ![r].users = @ + 1], [caller EXCEPT ![c] = f], o)
<1>1. R \in [Records -> RecordSet]
  BY DEF Good, Core, Typed
<1>2. PICK Q : Q = [R EXCEPT ![r].users = @ + 1]
  OBVIOUS
<1>3. /\ Rebooked(R, Q, r, R[r].users + 1) /\ Q[r].locked = R[r].locked
      /\ Q[r].waiters = R[r].waiters
  BY <1>1, <1>2, CameIs
<1>4. Keeps(R[r].waiters, Q[r].waiters, Callers)
  BY <1>3 DEF Keeps
<1>5. /\ Core(Q, H, [caller EXCEPT ![c] = f], log, now)
      /\ \A o \in Callers \ {c} : Waits(Q, [caller EXCEPT ![c] = f], o)
  BY <1>3, <1>4, Joins
<1> QED
  BY <1>2, <1>5

LEMMA ArriveStep ==
    ASSUME PacingInv, NEW c \in Callers, NEW h \in Hosts, NEW r \in Records,
           NEW budget \in 0..Budget, Arrive(c, h, r, budget)
    PROVE  After
<1> DEFINE k == [Away EXCEPT !.host = h, !.record = r, !.deadline = now + budget]
           S == Rows(h, r)
           R == [S EXCEPT ![r].users = @ + 1]
           H == [hosts EXCEPT ![h] = r]
           q == [k EXCEPT !.at = "queued"]
<1>1. Good(record, hosts, caller, log, now) /\ budget \in Nat /\ now' = now /\ log' = log
  BY PacingConstants DEF PacingInv, Arrive
<1>2. caller[c].at = "away" /\ Found(h, r)
  BY DEF Arrive
<1>3. Good(S, H, caller, log, now)
  BY <1>1, <1>2, NewRecord
<1>4. hosts \in [Hosts -> Records \cup {NoRecord}] /\ caller \in [Callers -> FrameSet]
      /\ now \in Nat
  BY <1>1, Kinds
<1>5. H[h] = r
  BY <1>4
<1>6. /\ k \in FrameSet /\ k.host = h /\ k.record = r
      /\ q \in FrameSet /\ q.at = "queued" /\ q.host = h /\ q.record = r
  <2>1. k \in FrameSet /\ k.host = h /\ k.record = r
    <3>1. now + budget \in Nat
      BY <1>1, <1>4
    <3>2. Away \in FrameSet
      BY DEF Away, FrameSet, Stages
    <3> QED
      BY <3>1, <3>2 DEF FrameSet
  <2> HIDE DEF k
  <2> QED
    BY <2>1 DEF FrameSet, Stages
<1>7. [k EXCEPT !.at = "queued", !.timed = TRUE] \in FrameSet
      /\ [k EXCEPT !.at = "queued", !.timed = TRUE].at = "queued"
      /\ [k EXCEPT !.at = "queued", !.timed = TRUE].host = h
      /\ [k EXCEPT !.at = "queued", !.timed = TRUE].record = r
  <2> HIDE DEF k
  <2> QED
    BY <1>6 DEF FrameSet, Stages
<1>8. \/ Expire(S, H) /\ caller' = caller
      \/ /\ Expire([R EXCEPT ![r].waiters = Append(@, c)], H)
         /\ caller' = [caller EXCEPT ![c] = [k EXCEPT !.at = "queued", !.timed = TRUE]]
      \/ /\ Expire([R EXCEPT ![r].waiters = Append(@, c)], H)
         /\ caller' = [caller EXCEPT ![c] = q]
      \/ ~R[r].locked /\ TakeTurn(c, k, R, H)
  BY DEF Arrive
<1> HIDE DEF k, S, H, q
<1>9. CASE Expire(S, H) /\ caller' = caller
  BY <1>1, <1>3, <1>9, ExpireKeeps DEF After
<1>10. ASSUME NEW f \in FrameSet, f.at = "queued", f.host = h, f.record = r,
              Expire([R EXCEPT ![r].waiters = Append(@, c)], H),
              caller' = [caller EXCEPT ![c] = f]
       PROVE  After
  <2>1. Good([R EXCEPT ![r].waiters = Append(@, c)], H, [caller EXCEPT ![c] = f], log, now)
    BY <1>2, <1>3, <1>5, <1>10, Queues
  <2> QED
    BY <1>1, <1>10, <2>1, ExpireKeeps DEF After
<1>11. CASE ~R[r].locked /\ TakeTurn(c, k, R, H)
  <2> DEFINE J == [caller EXCEPT ![c] = q]
  <2>4. Core(R, H, J, log, now) /\ \A o \in Callers \ {c} : Waits(R, J, o)
    <3>1. q.host \in Hosts /\ H[q.host] = r
      BY <1>5, <1>6
    <3> QED
      BY <1>2, <1>3, <1>6, <3>1, Comes
  <2> HIDE DEF R
  <2>5. /\ J \in [Callers -> FrameSet] /\ (\A o \in Callers \ {c} : J[o] = caller[o])
        /\ J[c].at = "queued" /\ J[c].host = k.host /\ J[c].record = k.record
    BY <1>4, <1>6
  <2> HIDE DEF J
  <2>6. ~R[k.record].locked
    BY <1>6, <1>11
  <2>7. Good(record', hosts', caller', log, now) /\ Remembered(record', hosts')
    BY <1>4, <1>6, <1>11, <2>4, <2>5, <2>6, TakesTurn
  <2> QED
    BY <1>1, <2>7 DEF After
<1> QED
  BY <1>6, <1>7, <1>8, <1>9, <1>10, <1>11

LEMMA AwakeStep ==
    ASSUME PacingInv, NEW c \in Callers, Awake(c)
    PROVE  After
<1> DEFINE r == caller[c].record
           Q == [record EXCEPT ![r].waiters = Tail(@)]
<1>1. Good(record, hosts, caller, log, now) /\ now' = now /\ log' = log
  BY DEF PacingInv, Awake
<1>2. /\ caller[c].at = "queued" /\ ~record[r].locked
      /\ record[r].waiters # <<>> /\ Head(record[r].waiters) = c
      /\ TakeTurn(c, caller[c], Q, hosts)
  BY DEF Awake
<1>3. /\ record \in [Records -> RecordSet] /\ caller \in [Callers -> FrameSet]
      /\ Known(hosts, caller) /\ r \in Records
      /\ Core(record, hosts, caller, log, now) /\ \A o \in Callers : Waits(record, caller, o)
  BY <1>1, <1>2, Kinds DEF Known
<1> DEFINE s == record[r].waiters
           u == Tail(s)
<1>4. /\ s \in Seq(Callers) /\ u \in Seq(Callers) /\ Len(s) \in Nat /\ Len(u) = Len(s) - 1
      /\ s[1] = c /\ \A i \in 1..Len(u) : u[i] = s[i + 1]
  <2>1. s \in Seq(Callers) /\ s # <<>> /\ Head(s) = c
    BY <1>2, <1>3 DEF RecordSet
  <2> HIDE DEF s
  <2> QED
    BY <2>1, HeadTailProperties, LenProperties
<1>5. Keeps(s, u, Callers \ {c})
  <2> HIDE DEF s, u
  <2> SUFFICES ASSUME NEW o \in Callers \ {c}, NEW i \in 1..Len(s), s[i] = o
               PROVE  \E j \in 1..Len(u) : u[j] = o
    BY DEF Keeps
  <2>1. i # 1
    BY <1>4
  <2>2. i - 1 \in 1..Len(u) /\ i - 1 + 1 = i
    BY <1>4, <2>1
  <2>3. u[i - 1] = o
    BY <1>4, <2>2
  <2> QED
    BY <2>2, <2>3
<1> HIDE DEF u
<1> DEFINE row == [record[r] EXCEPT !.waiters = u]
<1>6. /\ row \in RecordSet /\ row.dispatches = record[r].dispatches
      /\ row.users = record[r].users /\ row.locked = record[r].locked /\ row.waiters = u
  BY <1>3, <1>4 DEF RecordSet
<1>7. Q = [record EXCEPT ![r] = row]
  BY <1>3 DEF u
<1> HIDE DEF row
<1>8. /\ Q \in [Records -> RecordSet] /\ \A p \in Records :
            /\ Q[p].dispatches = record[p].dispatches /\ Q[p].users = record[p].users
            /\ Q[p].locked = record[p].locked
      /\ (\A p \in Records \ {r} : Q[p] = record[p]) /\ Q[r].waiters = u
  BY <1>3, <1>6, <1>7
<1> HIDE DEF Q, s
<1>9. Core(Q, hosts, caller, log, now)
  <2>1. /\ Typed(record, hosts, caller, log, now) /\ Counted(record, caller)
        /\ Held(record, caller) /\ History(record, hosts, log, now)
    BY <1>3 DEF Core
  <2>2. Typed(Q, hosts, caller, log, now)
    BY <1>8, <2>1 DEF Typed
  <2>3. Counted(Q, caller)
    BY <1>8, <2>1 DEF Counted
  <2>4. Held(Q, caller)
    <3>1. \A o \in Callers : caller[o].at \in Turn => caller[o].record \in Records
      BY <1>3 DEF Known, Turn
    <3> QED
      BY <1>8, <2>1, <3>1 DEF Held
  <2>5. History(Q, hosts, log, now)
    <3>1. \A h \in Hosts : hosts[h] \in Records \cup {NoRecord}
      BY <2>1 DEF Typed
    <3>2. \A h \in Hosts : DispatchesOf(Q, hosts, h) = DispatchesOf(record, hosts, h)
      BY <1>8, <3>1 DEF DispatchesOf
    <3> QED
      BY <2>1, <3>2 DEF History
  <2> QED
    BY <1>3, <2>2, <2>3, <2>4, <2>5 DEF Core
<1>10. ASSUME NEW o \in Callers \ {c} PROVE Waits(Q, caller, o)
  <2> SUFFICES ASSUME caller[o].at = "queued"
               PROVE  \E i \in 1..Len(Q[caller[o].record].waiters) :
                        Q[caller[o].record].waiters[i] = o
    BY DEF Waits
  <2>1. caller[o].record \in Records
    BY <1>3 DEF Known
  <2>2. \E i \in 1..Len(record[caller[o].record].waiters) : record[caller[o].record].waiters[i] = o
    BY <1>3 DEF Waits
  <2>3. CASE caller[o].record = r
    BY <1>5, <1>8, <2>2, <2>3 DEF Keeps, s
  <2>4. CASE caller[o].record # r
    BY <1>8, <2>1, <2>2, <2>4
  <2> QED
    BY <2>3, <2>4
<1>11. caller[c] \in FrameSet /\ ~Q[caller[c].record].locked
  BY <1>2, <1>3, <1>8
<1>12. Good(record', hosts', caller', log, now) /\ Remembered(record', hosts')
  BY <1>2, <1>3, <1>9, <1>10, <1>11, TakesTurn
<1> QED
  BY <1>1, <1>12 DEF After

\* A caller that goes with what it held: its use of the record, its place among the
\* waiters, or its turn.
LEMMA GoneStep ==
    ASSUME PacingInv, NEW c \in Callers, caller[c].at # "away", NEW Q,
           Rebooked(record, Q, caller[c].record, record[caller[c].record].users - 1),
           Q[caller[c].record].locked = record[caller[c].record].locked \/ caller[c].at \in Turn,
           Keeps(record[caller[c].record].waiters, Q[caller[c].record].waiters, Callers \ {c}),
           Expire(Q, hosts), caller' = [caller EXCEPT ![c] = Away], UNCHANGED <<now, log>>
    PROVE  After
<1>1. /\ Core(record, hosts, caller, log, now) /\ \A o \in Callers : Waits(record, caller, o)
      /\ Held(record, caller)
  BY DEF PacingInv, Good, Core
<1>2. PICK r : r = caller[c].record
  OBVIOUS
<1>3. Q[r].locked = record[r].locked
        \/ \A o \in Callers \ {c} : caller[o].record = r => caller[o].at \notin Turn
  BY <1>1, <1>2 DEF Held
<1>4. Rebooked(record, Q, r, record[r].users - 1)
      /\ Keeps(record[r].waiters, Q[r].waiters, Callers \ {c})
  BY <1>2
<1>5. Good(Q, hosts, [caller EXCEPT ![c] = Away], log, now)
  BY <1>1, <1>2, <1>3, <1>4, GoesAway
<1> QED
  BY <1>5, ExpireKeeps DEF After

\* The record of a caller in pace().
LEMMA HoldsRecord ==
    ASSUME PacingInv, NEW c \in Callers, caller[c].at # "away"
    PROVE  /\ record \in [Records -> RecordSet] /\ caller[c].record \in Records
           /\ caller[c].host \in Hosts /\ hosts[caller[c].host] = caller[c].record
           /\ record[caller[c].record] \in RecordSet /\ record[caller[c].record].users # 0
<1>1. record \in [Records -> RecordSet] /\ Known(hosts, caller) /\ Counted(record, caller)
  BY Kinds DEF PacingInv
<1> QED
  BY <1>1, Uses

LEMMA GiveUpStep ==
    ASSUME PacingInv, NEW c \in Callers, GiveUp(c)
    PROVE  After
<1> DEFINE r == caller[c].record
           u == Without(record[r].waiters, c)
           Q == [Left(record, r) EXCEPT ![r].waiters = Without(@, c)]
<1>1. /\ caller[c].at = "queued" /\ Expire(Q, hosts)
      /\ caller' = [caller EXCEPT ![c] = Away] /\ UNCHANGED <<now, log>>
  BY DEF GiveUp
<1>2. /\ record \in [Records -> RecordSet] /\ r \in Records /\ record[r] \in RecordSet
      /\ record[r].users # 0
  BY <1>1, HoldsRecord
<1>3. Waits(record, caller, c)
  BY DEF PacingInv, Good
<1>4. u \in Seq(Callers) /\ Keeps(record[r].waiters, u, Callers \ {c})
  <2>1. record[r].waiters \in Seq(Callers)
    BY <1>2 DEF RecordSet
  <2>2. \E i \in 1..Len(record[r].waiters) : record[r].waiters[i] = c
    BY <1>1, <1>3 DEF Waits
  <2> QED
    BY <2>1, <2>2, WithoutKeeps
<1> HIDE DEF u
<1> DEFINE row == [record[r] EXCEPT !.users = record[r].users - 1, !.waiters = u]
<1>5. record[r].users - 1 \in Nat
  BY <1>2 DEF RecordSet
<1>6. /\ row \in RecordSet /\ row.dispatches = record[r].dispatches
      /\ row.users = record[r].users - 1 /\ row.locked = record[r].locked /\ row.waiters = u
  BY <1>2, <1>4, <1>5 DEF RecordSet
<1>7. Q = [record EXCEPT ![r] = row]
  BY <1>2 DEF Left, RecordSet, u
<1> HIDE DEF row
<1>8. /\ Rebooked(record, Q, r, record[r].users - 1) /\ Q[r].locked = record[r].locked
      /\ Q[r].waiters = u
  BY <1>2, <1>6, <1>7 DEF Rebooked
<1> HIDE DEF Q
<1>9. Keeps(record[r].waiters, Q[r].waiters, Callers \ {c})
  BY <1>4, <1>8
<1> QED
  BY <1>1, <1>8, <1>9, GoneStep

\* Refused, or without an answer: the turn is given up.
LEMMA ReleasedStep ==
    ASSUME PacingInv, NEW c \in Callers, Refused(c) \/ Unanswered(c)
    PROVE  After
<1> DEFINE r == caller[c].record
           Q == Released(record, r)
<1>1. /\ caller[c].at \in Turn /\ caller[c].at # "away" /\ Expire(Q, hosts)
      /\ caller' = [caller EXCEPT ![c] = Away] /\ UNCHANGED <<now, log>>
  BY DEF Refused, Unanswered, Turn
<1>2. record \in [Records -> RecordSet] /\ r \in Records /\ record[r].users # 0
  BY <1>1, HoldsRecord
<1>3. Rebooked(record, Q, r, record[r].users - 1) /\ Q[r].waiters = record[r].waiters
  BY <1>2, ReleasedIs DEF Rebooked
<1> HIDE DEF Q
<1>4. Keeps(record[r].waiters, Q[r].waiters, Callers \ {c})
  BY <1>3 DEF Keeps
<1> QED
  BY <1>1, <1>3, <1>4, GoneStep

LEMMA LeaveStep ==
    ASSUME PacingInv, NEW c \in Callers, Leave(c)
    PROVE  After
<1> DEFINE r == caller[c].record
           Q == Left(record, r)
<1>1. /\ caller[c].at # "away" /\ Expire(Q, hosts)
      /\ caller' = [caller EXCEPT ![c] = Away] /\ UNCHANGED <<now, log>>
  BY DEF Leave
<1>2. /\ record \in [Records -> RecordSet] /\ r \in Records /\ record[r] \in RecordSet
      /\ record[r].users # 0
  BY <1>1, HoldsRecord
<1>3. /\ Rebooked(record, Q, r, record[r].users - 1) /\ Q[r].waiters = record[r].waiters
      /\ Q[r].locked = record[r].locked
  BY <1>2, LeftIs DEF Rebooked
<1> HIDE DEF Q
<1>4. Keeps(record[r].waiters, Q[r].waiters, Callers \ {c})
  BY <1>3 DEF Keeps
<1> QED
  BY <1>1, <1>3, <1>4, GoneStep

LEMMA SweepStep ==
    ASSUME PacingInv, Sweep
    PROVE  After
<1>1. Good(record, hosts, caller, log, now) /\ Expire(record, hosts) /\ UNCHANGED <<now, caller, log>>
  BY DEF PacingInv, Sweep
<1> QED
  BY <1>1, ExpireKeeps DEF After

\* A caller that has the turn goes on to the next stage of it.
LEMMA GoesOn ==
    ASSUME PacingInv, NEW c \in Callers, caller[c].at \in Turn, NEW f \in FrameSet,
           f.at \in {"entering", "sent"}, f.host = caller[c].host, f.record = caller[c].record,
           InTime(log[f.host], now), f.at = "sent" => f.wake = now,
           caller' = [caller EXCEPT ![c] = f], UNCHANGED <<now, hosts, record, log>>
    PROVE  After
<1>1. /\ Typed(record, hosts, caller, log, now) /\ Known(hosts, caller) /\ Apart(hosts)
      /\ Counted(record, caller) /\ Held(record, caller) /\ History(record, hosts, log, now)
      /\ Timely(caller, log, now) /\ \A o \in Callers : Waits(record, caller, o)
  BY DEF PacingInv, Good, Core
<1> DEFINE J == caller'
<1>2. caller \in [Callers -> FrameSet] /\ now \in Nat /\ caller[c].at # "away"
  BY <1>1, PacingConstants DEF Typed, Turn
<1>3. J \in [Callers -> FrameSet] /\ J[c] = f /\ \A o \in Callers \ {c} : J[o] = caller[o]
  BY <1>2
<1> HIDE DEF J
<1>4. Typed(record, hosts, J, log, now)
  BY <1>1, <1>3 DEF Typed
<1>5. Known(hosts, J)
  BY <1>1, <1>2, <1>3 DEF Known
<1>6. Counted(record, J)
  <2>1. \A p \in Records : UsersOf(J, p) = UsersOf(caller, p)
    BY <1>3 DEF UsersOf
  <2> QED
    BY <1>1, <2>1 DEF Counted
<1>7. Held(record, J)
  <2>1. \A o \in Callers : J[o].at \in Turn => caller[o].at \in Turn /\ J[o].record = caller[o].record
    BY <1>3
  <2> QED
    BY <1>1, <2>1 DEF Held
<1>8. Timely(J, log, now)
  <2> SUFFICES ASSUME NEW o \in Callers, J[o].at \in Turn
               PROVE  /\ InTime(log[J[o].host], IF J[o].at = "entering" THEN now ELSE J[o].wake)
                      /\ J[o].at = "sent" => J[o].wake <= now
    BY DEF Timely
  <2>1. CASE o = c
    BY <1>2, <1>3, <2>1
  <2>2. CASE o # c
    BY <1>1, <1>3, <2>2 DEF Timely
  <2> QED
    BY <2>1, <2>2
<1>9. \A o \in Callers : Waits(record, J, o)
  BY <1>1, <1>3 DEF Waits
<1>10. Good(record, hosts, J, log, now)
  BY <1>1, <1>4, <1>5, <1>6, <1>7, <1>8, <1>9 DEF Good, Core
<1> QED
  BY <1>10 DEF After, PacingInv, J

LEMMA WakeUpStep ==
    ASSUME PacingInv, NEW c \in Callers, WakeUp(c)
    PROVE  After
<1> DEFINE f == [caller[c] EXCEPT !.at = "entering"]
<1>1. /\ caller[c].at = "sleeping" /\ now >= caller[c].wake
      /\ caller' = [caller EXCEPT ![c] = f] /\ UNCHANGED <<now, hosts, record, log>>
  BY DEF WakeUp
<1>2. caller[c] \in FrameSet /\ caller[c].at \in Turn /\ now \in Nat
      /\ log[caller[c].host] \in Seq(Entries)
  BY <1>1, Kinds DEF PacingInv, Turn, Known
<1>3. f \in FrameSet /\ f.at = "entering" /\ f.host = caller[c].host /\ f.record = caller[c].record
  BY <1>2 DEF FrameSet, Stages
<1>4. InTime(log[caller[c].host], caller[c].wake)
  BY <1>1, <1>2 DEF PacingInv, Good, Core, Timely
<1>5. InTime(log[caller[c].host], now)
  <2>1. caller[c].wake \in Nat /\ caller[c].wake <= now
    BY <1>1, <1>2 DEF FrameSet
  <2> QED
    BY <1>2, <1>4, <2>1, InTimeLater
<1> HIDE DEF f
<1> QED
  BY <1>1, <1>2, <1>3, <1>5, GoesOn

LEMMA SendStep ==
    ASSUME PacingInv, NEW c \in Callers, Send(c)
    PROVE  After
<1> DEFINE f == [caller[c] EXCEPT !.at = "sent", !.wake = now]
<1>2. /\ caller[c] \in FrameSet /\ caller[c].at = "entering" /\ caller[c].at \in Turn
      /\ caller \in [Callers -> FrameSet] /\ now \in Nat
  BY Kinds DEF PacingInv, Send, Turn
<1>1. caller' = [caller EXCEPT ![c] = f] /\ UNCHANGED <<now, hosts, record, log>>
  BY <1>2 DEF Send, FrameSet
<1>3. /\ f \in FrameSet /\ f.at = "sent" /\ f.host = caller[c].host
      /\ f.record = caller[c].record /\ f.wake = now
  BY <1>2 DEF FrameSet, Stages
<1>4. InTime(log[caller[c].host], now)
  BY <1>2 DEF PacingInv, Good, Core, Timely
<1> HIDE DEF f
<1> QED
  BY <1>1, <1>2, <1>3, <1>4, GoesOn

\* The last entry of the pace, host by host.
LEMMA PaceOfHosts == PaceKept <=> \A h \in Hosts : PacedLog(log[h])
BY DEF PaceKept, Spaced, RateKept, PacedLog

LEMMA DispatchedStep ==
    ASSUME PacingInv, NEW c \in Callers, Dispatched(c)
    PROVE  After /\ PaceKept'
<1> DEFINE r == caller[c].record
           h == caller[c].host
           w == caller[c].wake
           d == record[r].dispatches
           m == Last(Append(log[h], [sent |-> w, noted |-> now]))
           x == Append(d, now)
           f == [caller[c] EXCEPT !.at = "loading"]
           row == [record[r] EXCEPT !.dispatches = x, !.locked = FALSE]
<1>1. /\ Typed(record, hosts, caller, log, now) /\ Known(hosts, caller) /\ Apart(hosts)
      /\ Counted(record, caller) /\ Held(record, caller) /\ History(record, hosts, log, now)
      /\ Timely(caller, log, now) /\ (\A o \in Callers : Waits(record, caller, o))
      /\ Remembered(record, hosts) /\ \A o \in Hosts : PacedLog(log[o])
  BY PaceOfHosts DEF PacingInv, Good, Core
<1>2. /\ record \in [Records -> RecordSet] /\ hosts \in [Hosts -> Records \cup {NoRecord}]
      /\ caller \in [Callers -> FrameSet] /\ log \in [Hosts -> Seq(Entries)]
      /\ now \in Nat /\ NoRecord \notin Records
  BY Kinds DEF PacingInv
<1>3. caller[c].at = "sent" /\ caller[c].at \in Turn /\ caller[c].at # "away"
  BY DEF Dispatched, Turn
<1>4. r \in Records /\ h \in Hosts /\ hosts[h] = r /\ record[r] \in RecordSet /\ caller[c] \in FrameSet
  BY <1>2, <1>3, HoldsRecord
<1>5. /\ d \in Seq(Nat) /\ log[h] \in Seq(Entries) /\ w \in Nat /\ w <= now /\ InTime(log[h], w)
      /\ Matches(d, log[h], now) /\ PacedLog(log[h])
  <2>1. d \in Seq(Nat) /\ log[h] \in Seq(Entries) /\ w \in Nat /\ PacedLog(log[h])
    BY <1>1, <1>2, <1>4 DEF RecordSet, FrameSet
  <2>2. w <= now /\ InTime(log[h], w)
    BY <1>1, <1>3 DEF Timely
  <2>3. Matches(d, log[h], now)
    BY <1>1, <1>2, <1>4 DEF History, DispatchesOf
  <2> QED
    BY <2>1, <2>2, <2>3
<1>6. /\ m \in Seq(Entries) /\ x \in Seq(Nat) /\ Matches(x, m, now) /\ PacedLog(m)
  BY <1>2, <1>5, NotedInTime
<1>7. x # <<>> /\ \A i \in 1..Len(x) : x[i] <= now
  <2>1. /\ Len(d) \in Nat /\ Len(x) = Len(d) + 1 /\ x[Len(d) + 1] = now
        /\ \A i \in 1..Len(d) : x[i] = d[i]
    BY <1>2, <1>5, AppendProperties, LenProperties
  <2>2. \A i \in 1..Len(d) : d[i] <= now
    BY <1>1, <1>4 DEF Typed
  <2>3. \A i \in 1..Len(x) : i = Len(d) + 1 \/ i \in 1..Len(d)
    BY <2>1
  <2>4. x # <<>>
    <3>1. x \in Seq(Nat)
      BY <1>6
    <3> HIDE DEF x, d
    <3>2. Len(x) # 0
      BY <2>1
    <3> QED
      BY <3>1, <3>2, EmptySeq
  <2> HIDE DEF x, d
  <2> QED
    BY <1>2, <2>1, <2>2, <2>3, <2>4
<1>8. /\ record' = [record EXCEPT ![r].dispatches = Append(@, now), ![r].locked = FALSE]
      /\ caller' = [caller EXCEPT ![c] = f] /\ log' = [log EXCEPT ![h] = m]
      /\ now' = now /\ hosts' = hosts
  BY DEF Dispatched
<1> HIDE DEF m, x
<1>9. /\ row \in RecordSet /\ row.dispatches = x /\ row.users = record[r].users
      /\ row.locked = FALSE /\ row.waiters = record[r].waiters
  BY <1>4, <1>6 DEF RecordSet
<1>10. record' = [record EXCEPT ![r] = row]
  BY <1>2, <1>4, <1>8 DEF RecordSet, x
<1>11. f \in FrameSet /\ f.at = "loading" /\ f.host = h /\ f.record = r
  BY <1>4 DEF FrameSet, Stages
<1> HIDE DEF row, f, d
<1> DEFINE Q == record'
           J == caller'
           L == log'
<1>12. /\ Q \in [Records -> RecordSet] /\ Q[r] = row /\ \A p \in Records \ {r} : Q[p] = record[p]
  BY <1>2, <1>4, <1>9, <1>10
<1>13. /\ J \in [Callers -> FrameSet] /\ J[c] = f /\ \A o \in Callers \ {c} : J[o] = caller[o]
  BY <1>2, <1>8, <1>11
<1>14. /\ L \in [Hosts -> Seq(Entries)] /\ L[h] = m /\ \A o \in Hosts \ {h} : L[o] = log[o]
  BY <1>2, <1>4, <1>6, <1>8
<1> HIDE DEF Q, J, L
<1>15. Typed(Q, hosts, J, L, now)
  <2>1. \A p \in Records : \A i \in 1..Len(Q[p].dispatches) : Q[p].dispatches[i] <= now
    BY <1>1, <1>7, <1>9, <1>12 DEF Typed
  <2> QED
    BY <1>1, <1>12, <1>13, <1>14, <2>1 DEF Typed
<1>16. Known(hosts, J)
  BY <1>1, <1>4, <1>11, <1>13 DEF Known
<1>17. Counted(Q, J)
  <2>1. \A p \in Records : UsersOf(J, p) = UsersOf(caller, p)
    BY <1>11, <1>13 DEF UsersOf
  <2>2. \A p \in Records : Q[p].users = record[p].users
    BY <1>9, <1>12
  <2> QED
    BY <1>1, <2>1, <2>2 DEF Counted
<1>18. ASSUME NEW o \in Callers, J[o].at \in Turn
       PROVE  /\ o # c /\ J[o] = caller[o] /\ caller[o].at \in Turn
              /\ caller[o].record # r /\ caller[o].record \in Records
              /\ caller[o].host \in Hosts /\ caller[o].host # h
  <2>1. o # c /\ J[o] = caller[o] /\ caller[o].at \in Turn /\ caller[o].at # "away"
    BY <1>11, <1>13, <1>18 DEF Turn
  <2>2. caller[o].record # r
    BY <1>1, <1>3, <2>1 DEF Held
  <2>3. /\ caller[o].record \in Records /\ caller[o].host \in Hosts
        /\ hosts[caller[o].host] = caller[o].record
    BY <1>1, <2>1 DEF Known
  <2> QED
    BY <1>4, <2>1, <2>2, <2>3
<1>19. Held(Q, J)
  BY <1>1, <1>12, <1>18 DEF Held
<1>20. History(Q, hosts, L, now)
  <2> SUFFICES ASSUME NEW o \in Hosts PROVE Matches(DispatchesOf(Q, hosts, o), L[o], now)
    BY DEF History
  <2>1. CASE o = h
    <3>1. DispatchesOf(Q, hosts, o) = x
      BY <1>2, <1>4, <1>9, <1>12, <2>1 DEF DispatchesOf
    <3> QED
      BY <1>6, <1>14, <2>1, <3>1
  <2>2. CASE o # h
    <3>1. hosts[o] # r /\ hosts[o] \in Records \cup {NoRecord}
      BY <1>1, <1>2, <1>4, <2>2 DEF Apart
    <3>2. DispatchesOf(Q, hosts, o) = DispatchesOf(record, hosts, o)
      BY <1>12, <3>1 DEF DispatchesOf
    <3> QED
      BY <1>1, <1>14, <2>2, <3>2 DEF History
  <2> QED
    BY <2>1, <2>2
<1>21. Timely(J, L, now)
  BY <1>1, <1>14, <1>18 DEF Timely
<1>22. ASSUME NEW o \in Callers PROVE Waits(Q, J, o)
  <2> SUFFICES ASSUME J[o].at = "queued"
               PROVE  \E i \in 1..Len(Q[J[o].record].waiters) : Q[J[o].record].waiters[i] = o
    BY DEF Waits
  <2>1. J[o] = caller[o] /\ caller[o].at = "queued" /\ caller[o].record \in Records
    BY <1>1, <1>11, <1>13 DEF Known
  <2>2. Q[caller[o].record].waiters = record[caller[o].record].waiters
    BY <1>9, <1>12, <2>1
  <2> QED
    BY <1>1, <2>1, <2>2 DEF Waits
<1>23. Remembered(Q, hosts)
  <2> SUFFICES ASSUME NEW o \in Hosts, hosts[o] # NoRecord PROVE ~Unused(Q[hosts[o]])
    BY DEF Remembered
  <2>1. CASE hosts[o] = r
    BY <1>7, <1>9, <1>12, <2>1 DEF Unused
  <2>2. CASE hosts[o] # r
    BY <1>1, <1>2, <1>12, <2>2 DEF Remembered
  <2> QED
    BY <2>1, <2>2
<1>24. \A o \in Hosts : PacedLog(L[o])
  BY <1>1, <1>6, <1>14
<1>25. Good(Q, hosts, J, L, now)
  BY <1>1, <1>15, <1>16, <1>17, <1>19, <1>20, <1>21, <1>22 DEF Good, Core
<1>26. After
  BY <1>8, <1>23, <1>25 DEF After, Q, J, L
<1>27. PaceKept'
  BY <1>24 DEF PaceKept, Spaced, RateKept, PacedLog, L
<1> QED
  BY <1>26, <1>27

LEMMA TickStep ==
    ASSUME PacingInv, Tick
    PROVE  After
<1>1. /\ Typed(record, hosts, caller, log, now) /\ Known(hosts, caller) /\ Apart(hosts)
      /\ Counted(record, caller) /\ Held(record, caller) /\ History(record, hosts, log, now)
      /\ Timely(caller, log, now) /\ (\A o \in Callers : Waits(record, caller, o))
      /\ Remembered(record, hosts)
  BY DEF PacingInv, Good, Core
<1>2. /\ now < MaxTime + Budget /\ now' = now + 1 /\ \A c \in Callers : ~Overdue(c)
      /\ record' = record /\ hosts' = hosts /\ caller' = caller /\ log' = log
  BY DEF Tick
<1>3. /\ record \in [Records -> RecordSet] /\ hosts \in [Hosts -> Records \cup {NoRecord}]
      /\ caller \in [Callers -> FrameSet] /\ log \in [Hosts -> Seq(Entries)]
      /\ now \in Nat /\ NoRecord \notin Records
  BY Kinds DEF PacingInv
<1> DEFINE t == now + 1
<1>4. t \in 0..MaxTime + Budget /\ t \in Nat /\ now <= t
  BY <1>2, <1>3, PacingConstants
<1> HIDE DEF t
<1>5. Typed(record, hosts, caller, log, t)
  <2>1. \A r \in Records : \A i \in 1..Len(record[r].dispatches) : record[r].dispatches[i] <= t
    <3> TAKE r \in Records
    <3>1. record[r].dispatches \in Seq(Nat)
      BY <1>3 DEF RecordSet
    <3>2. \A i \in 1..Len(record[r].dispatches) :
            record[r].dispatches[i] \in Nat /\ record[r].dispatches[i] <= now
      BY <1>1, <3>1, DispatchFacts DEF Typed
    <3> QED
      BY <1>3, <1>4, <3>2
  <2> QED
    BY <1>1, <1>4, <2>1 DEF Typed
<1>6. History(record, hosts, log, t)
  <2> SUFFICES ASSUME NEW h \in Hosts PROVE Matches(DispatchesOf(record, hosts, h), log[h], t)
    BY DEF History
  <2>1. DispatchesOf(record, hosts, h) \in Seq(Nat) /\ log[h] \in Seq(Entries)
    BY <1>3, EmptySeq DEF DispatchesOf, RecordSet
  <2>2. Matches(DispatchesOf(record, hosts, h), log[h], now)
    BY <1>1 DEF History
  <2> QED
    BY <1>3, <1>4, <2>1, <2>2, MatchesLater
<1>7. Timely(caller, log, t)
  <2> SUFFICES ASSUME NEW c \in Callers, caller[c].at \in Turn
               PROVE  /\ InTime(log[caller[c].host],
                                IF caller[c].at = "entering" THEN t ELSE caller[c].wake)
                      /\ caller[c].at = "sent" => caller[c].wake <= t
    BY DEF Timely
  <2>1. /\ InTime(log[caller[c].host], IF caller[c].at = "entering" THEN now ELSE caller[c].wake)
        /\ caller[c].at = "sent" => caller[c].wake <= now
    BY <1>1 DEF Timely
  <2>2. log[caller[c].host] \in Seq(Entries) /\ caller[c].wake \in Nat
    BY <1>1, <1>3 DEF Known, Turn, FrameSet
  <2>3. InTime(log[caller[c].host], now) => InTime(log[caller[c].host], t)
    BY <1>3, <1>4, <2>2, InTimeLater
  <2> QED
    BY <1>3, <1>4, <2>1, <2>2, <2>3
<1>8. Good(record, hosts, caller, log, t)
  BY <1>1, <1>5, <1>6, <1>7 DEF Good, Core
<1> QED
  BY <1>1, <1>2, <1>8 DEF After, t

LEMMA InitGood == Init => PacingInv
<1> SUFFICES ASSUME Init PROVE PacingInv
  OBVIOUS
<1>1. /\ now = 0 /\ hosts = [h \in Hosts |-> NoRecord] /\ record = [r \in Records |-> Blank]
      /\ caller = [c \in Callers |-> Away] /\ log = [h \in Hosts |-> <<>>]
  BY DEF Init
<1>2. /\ Blank \in RecordSet /\ Blank.dispatches = <<>> /\ Blank.users = 0
      /\ Away \in FrameSet /\ Away.at = "away" /\ Away.record = NoRecord
      /\ NoRecord \notin Records
  BY PacingConstants DEF Blank, RecordSet, Away, FrameSet, Stages
<1>3. Len(<<>>) = 0 /\ <<>> \in Seq(Entries)
  OBVIOUS
<1>4. Typed(record, hosts, caller, log, now)
  <2>1. now \in 0..(MaxTime + Budget)
    BY <1>1, PacingConstants
  <2>2. record \in [Records -> RecordSet] /\ hosts \in [Hosts -> Records \cup {NoRecord}]
        /\ caller \in [Callers -> FrameSet] /\ log \in [Hosts -> Seq(Entries)]
    BY <1>1, <1>2, <1>3
  <2>3. \A r \in Records : \A i \in 1..Len(record[r].dispatches) : record[r].dispatches[i] <= now
    BY <1>1, <1>2, <1>3
  <2> QED
    BY <2>1, <2>2, <2>3 DEF Typed
<1>5. Known(hosts, caller) /\ Apart(hosts) /\ Held(record, caller) /\ Timely(caller, log, now)
      /\ \A c \in Callers : Waits(record, caller, c)
  BY <1>1, <1>2 DEF Known, Apart, Held, Timely, Waits, Turn
<1>6. Counted(record, caller)
  <2>1. \A r \in Records : UsersOf(caller, r) = {} /\ record[r].users = 0
    BY <1>1, <1>2 DEF UsersOf
  <2> QED
    BY <2>1, FS_EmptySet DEF Counted
<1>7. History(record, hosts, log, now)
  <2>1. Matches(<<>>, <<>>, now)
    BY <1>3, PacingConstants DEF Matches
  <2> QED
    BY <1>1, <2>1 DEF History, DispatchesOf
<1>8. PaceKept
  <2>1. \A h \in Hosts : Len(log[h]) = 0
    BY <1>1, <1>3
  <2>2. \A h \in Hosts : PacedLog(log[h])
    BY <2>1, PacingConstants DEF PacedLog
  <2> QED
    BY <2>2, PaceOfHosts
<1>9. Remembered(record, hosts)
  BY <1>1 DEF Remembered
<1> QED
  BY <1>4, <1>5, <1>6, <1>7, <1>8, <1>9 DEF PacingInv, Good, Core

\* The log is written by Dispatched only.
LEMMA PaceStays ==
    ASSUME PaceKept, UNCHANGED log
    PROVE  PaceKept'
BY DEF PaceKept, Spaced, RateKept

LEMMA AfterInv ==
    ASSUME After, PaceKept'
    PROVE  PacingInv'
BY DEF After, PacingInv

LEMMA StepGood == PacingInv /\ [Next]_vars => PacingInv'
<1> SUFFICES ASSUME PacingInv, [Next]_vars PROVE PacingInv'
  OBVIOUS
<1>0. PaceKept
  BY DEF PacingInv
<1>1. ASSUME NEW c \in Callers, NEW h \in Hosts, NEW r \in Records, NEW budget \in 0..Budget,
             Arrive(c, h, r, budget)
      PROVE  PacingInv'
  BY <1>0, <1>1, ArriveStep, PaceStays, AfterInv DEF Arrive
<1>2. ASSUME NEW c \in Callers, Awake(c) PROVE PacingInv'
  BY <1>0, <1>2, AwakeStep, PaceStays, AfterInv DEF Awake
<1>3. ASSUME NEW c \in Callers, GiveUp(c) PROVE PacingInv'
  BY <1>0, <1>3, GiveUpStep, PaceStays, AfterInv DEF GiveUp
<1>4. ASSUME NEW c \in Callers, WakeUp(c) PROVE PacingInv'
  BY <1>0, <1>4, WakeUpStep, PaceStays, AfterInv DEF WakeUp
<1>5. ASSUME NEW c \in Callers, Refused(c) \/ Unanswered(c) PROVE PacingInv'
  BY <1>0, <1>5, ReleasedStep, PaceStays, AfterInv DEF Refused, Unanswered
<1>6. ASSUME NEW c \in Callers, Send(c) PROVE PacingInv'
  BY <1>0, <1>6, SendStep, PaceStays, AfterInv DEF Send
<1>7. ASSUME NEW c \in Callers, Dispatched(c) PROVE PacingInv'
  BY <1>7, DispatchedStep, AfterInv
<1>8. ASSUME NEW c \in Callers, Leave(c) PROVE PacingInv'
  BY <1>0, <1>8, LeaveStep, PaceStays, AfterInv DEF Leave
<1>9. CASE Sweep
  BY <1>0, <1>9, SweepStep, PaceStays, AfterInv DEF Sweep
<1>10. CASE Tick
  BY <1>0, <1>10, TickStep, PaceStays, AfterInv DEF Tick
<1>11. CASE UNCHANGED vars
  <2>1. UNCHANGED <<now, hosts, record, caller, log>>
    BY <1>11 DEF vars
  <2>2. After
    BY <2>1 DEF After, PacingInv
  <2> QED
    BY <1>0, <2>1, <2>2, PaceStays, AfterInv
<1> QED
  BY <1>1, <1>2, <1>3, <1>4, <1>5, <1>6, <1>7, <1>8, <1>9, <1>10, <1>11 DEF Next

LEMMA PacingInvHolds == Spec => []PacingInv
BY InitGood, StepGood, PTL DEF Spec

-----------------------------------------------------------------------------
\* What the invariant says

\* Each variable of the pacer keeps its kind of value; no dispatch is of the future.
THEOREM PacingTypeCorrect == Spec => []TypeOK
<1>1. PacingInv => TypeOK
  <2> SUFFICES ASSUME PacingInv PROVE TypeOK
    OBVIOUS
  <2>1. Typed(record, hosts, caller, log, now)
    BY DEF PacingInv, Good, Core
  <2>2. ASSUME NEW r \in Records
        PROVE  /\ DOMAIN record[r] = DOMAIN Blank
               /\ record[r].users \in Nat /\ record[r].locked \in BOOLEAN
               /\ \A i \in DOMAIN record[r].dispatches : record[r].dispatches[i] \in 0..now
               /\ \A i \in DOMAIN record[r].waiters : record[r].waiters[i] \in Callers
    <3>1. record[r] \in RecordSet
      BY <2>1 DEF Typed
    <3>2. DOMAIN record[r] = DOMAIN Blank
      BY <3>1 DEF RecordSet, Blank
    <3>3. /\ record[r].dispatches \in Seq(Nat) /\ record[r].users \in Nat
          /\ record[r].locked \in BOOLEAN /\ record[r].waiters \in Seq(Callers)
      BY <3>1 DEF RecordSet
    <3>4. \A i \in DOMAIN record[r].waiters : record[r].waiters[i] \in Callers
      BY <3>3, ElementOfSeq, LenProperties
    <3>5. ASSUME NEW i \in DOMAIN record[r].dispatches
          PROVE  record[r].dispatches[i] \in 0..now
      <4>1. i \in 1..Len(record[r].dispatches)
        BY <3>3, LenProperties
      <4>2. record[r].dispatches[i] \in Nat /\ record[r].dispatches[i] <= now
        BY <2>1, <3>3, <4>1, DispatchFacts DEF Typed
      <4>3. now \in Nat
        BY <2>1, PacingConstants DEF Typed
      <4> QED
        BY <4>2, <4>3
    <3> QED
      BY <3>2, <3>3, <3>4, <3>5
  <2> QED
    BY <2>1, <2>2 DEF TypeOK, Typed, FrameSet
<1> QED
  BY <1>1, PacingInvHolds, PTL

\* However callers come, give up and are refused, and whenever the record of a host is
\* dropped and made again, no two have the turn of one host.
THEOREM TurnsExclude == Spec => []OneTurn
<1>1. PacingInv => OneTurn
  <2> SUFFICES ASSUME PacingInv, NEW c \in Callers, NEW o \in Callers,
                      caller[c].at \in Turn, caller[o].at \in Turn,
                      caller[c].host = caller[o].host
               PROVE  c = o
    BY DEF OneTurn
  <2>1. Held(record, caller) /\ Known(hosts, caller)
    BY DEF PacingInv, Good, Core
  <2>2. caller[c].at # "away" /\ caller[o].at # "away"
    BY DEF Turn
  <2>3. caller[c].record = caller[o].record
    BY <2>1, <2>2 DEF Known
  <2> QED
    BY <2>1, <2>3 DEF Held
<1> QED
  BY <1>1, PacingInvHolds, PTL

\* Navigations to a host keep their distance and their rate, over all the records the
\* host has had: what a record has forgotten is old enough.
THEOREM PaceIsKept == Spec => []PaceKept
<1>1. PacingInv => PaceKept
  BY DEF PacingInv
<1> QED
  BY <1>1, PacingInvHolds, PTL

\* A host in the table has dispatches that are not a minute old, or a caller.
THEOREM HostsAreForgotten == Spec => []HostsForgotten
<1>1. PacingInv => HostsForgotten
  <2> SUFFICES ASSUME PacingInv, NEW h \in Hosts, hosts[h] # NoRecord,
                      record[hosts[h]].dispatches = <<>>
               PROVE  \E c \in Callers : caller[c].host = h
    BY DEF HostsForgotten
  <2> DEFINE r == hosts[h]
  <2>1. /\ Known(hosts, caller) /\ Apart(hosts) /\ Counted(record, caller)
        /\ r \in Records
    BY DEF PacingInv, Good, Core, Typed
  <2>2. record[r].users # 0
    BY DEF PacingInv, Remembered, Unused
  <2>3. UsersOf(caller, r) # {}
    BY <2>1, <2>2, FS_EmptySet DEF Counted
  <2>4. PICK c \in Callers : caller[c].record = r
    BY <2>3 DEF UsersOf
  <2>5. caller[c].at # "away"
    BY <2>1, <2>4, PacingConstants DEF Known, Away
  <2>6. caller[c].host \in Hosts /\ hosts[caller[c].host] = hosts[h]
    BY <2>1, <2>4, <2>5 DEF Known
  <2>7. caller[c].host = h
    BY <2>1, <2>6 DEF Apart
  <2> QED
    BY <2>7
<1> QED
  BY <1>1, PacingInvHolds, PTL
=============================================================================
