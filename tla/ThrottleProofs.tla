--------------------------- MODULE ThrottleProofs ---------------------------
(***************************************************************************)
(* Proofs about module Throttle, for any requests, windows and limits.     *)
(*                                                                         *)
(* A row counts at least the attempts that were allowed in its window, as  *)
(* long as a call may still come that counts in it.  A row is pruned two   *)
(* windows after it starts, when the delay of such a call is over.         *)
(***************************************************************************)
EXTENDS Throttle, TLAPS, FiniteSetTheorems

\* The row that an attempt is counted in.
KeyOf(t) == [action |-> t.action, subject |-> t.subject, start |-> Start(t.action, t.at)]

\* The attempts allowed in the window of a row.
AllowedIn(k) == {t \in tries : t.allowed /\ KeyOf(t) = k}

\* A call under way has read the clock at most MaxDelay ago.
CallsAreRecent ==
    \A r \in Request : req[r].at # None => req[r].at <= now /\ now <= req[r].at + MaxDelay

\* A row counts at least what was allowed in its window, and that is no more than
\* the limit.
RowsCount ==
    \A k \in Key :
      /\ Cardinality(AllowedIn(k)) <= Limit(k.action)
      /\ k \in DOMAIN rows => Cardinality(AllowedIn(k)) <= rows[k]

\* A window with an attempt but no row has been over for another window.
PrunedAreOver ==
    \A k \in Key :
      AllowedIn(k) # {} /\ k \notin DOMAIN rows => k.start + 2 * Seconds(k.action) < now

\* The inductive invariant.
ThrottleInv ==
    /\ ThrottleTypeOK
    /\ IsFiniteSet(tries)
    /\ CallsAreRecent
    /\ RowsCount
    /\ PrunedAreOver

-----------------------------------------------------------------------------

\* The windows and the limits are numbers; a delay is at most any window.
LEMMA WindowFacts ==
  ASSUME NEW action \in Action
  PROVE  /\ Seconds(action) \in Nat \ {0}
         /\ Limit(action) \in Nat
         /\ MaxDelay \in Nat /\ MaxDelay <= Seconds(action)
  BY WindowAssumption, DelayAssumption DEF Seconds, Limit, Action

\* A reading of the clock falls in the window that it is counted in.
LEMMA StartFacts ==
  ASSUME NEW action \in Action, NEW time \in Nat
  PROVE  /\ Start(action, time) \in Nat
         /\ Start(action, time) <= time
         /\ time < Start(action, time) + Seconds(action)
<1> DEFINE s == Seconds(action)
           q == time \div s
<1>1. s \in Nat /\ s > 0
  BY WindowFacts
<1> HIDE DEF s
<1>2. q \in Nat /\ s * q <= time /\ time < s * q + s
  BY <1>1, Z3
<1>3. q * s = s * q /\ q * s \in Nat
  BY <1>1, <1>2
<1>4. Start(action, time) = q * s
  BY DEF Start, s
<1> QED BY <1>1, <1>2, <1>3, <1>4 DEF s

\* One more element is at most one more.
LEMMA AddOne ==
  ASSUME NEW S, IsFiniteSet(S), NEW x
  PROVE  /\ IsFiniteSet(S \cup {x})
         /\ Cardinality(S \cup {x}) <= Cardinality(S) + 1
<1>1. Cardinality(S) \in Nat
  BY FS_CardinalityType
<1>2. /\ IsFiniteSet(S \cup {x})
      /\ \/ Cardinality(S \cup {x}) = Cardinality(S)
         \/ Cardinality(S \cup {x}) = Cardinality(S) + 1
  <2>1. CASE x \in S
    <3>1. S \cup {x} = S
      BY <2>1
    <3> QED BY <3>1
  <2>2. CASE x \notin S
    BY <2>2, FS_AddElement
  <2> QED BY <2>1, <2>2
<1> QED BY <1>1, <1>2

\* The allowed attempts are finitely many, like all of them.
LEMMA AllowedFinite ==
  ASSUME IsFiniteSet(tries), NEW k
  PROVE  IsFiniteSet(AllowedIn(k)) /\ Cardinality(AllowedIn(k)) \in Nat
<1>1. AllowedIn(k) \subseteq tries
  BY DEF AllowedIn
<1> QED BY <1>1, FS_Subset, FS_CardinalityType

\* A pending request makes one of the calls of its kind.
LEMMA CallFacts ==
  ASSUME ThrottleTypeOK, NEW r \in Request, Pending(r)
  PROVE  /\ Called(r) \in Action
         /\ Subject(r) \in Address \cup Peer
         /\ req[r].done + 1 \in 0 .. 3
<1>1. req[r] \in Handler
  BY DEF ThrottleTypeOK
<1>2. req[r].kind \in {"request", "confirm"} /\ req[r].done \in 0 .. 3
  BY <1>1 DEF Handler, Calls
<1>3. CASE req[r].kind = "request"
  <2>1. Calls[req[r].kind] = <<"request-ip", "request-email", "request-cooldown">>
    BY <1>3 DEF Calls
  <2>2. req[r].done \in 0 .. 2
    BY <1>2, <2>1 DEF Pending
  <2>3. Called(r) \in Action
    BY <2>1, <2>2 DEF Called, Action
  <2> QED BY <1>1, <2>2, <2>3 DEF Subject, Handler
<1>4. CASE req[r].kind = "confirm"
  <2>1. Calls[req[r].kind] = <<"confirm-ip">>
    BY <1>4 DEF Calls
  <2>2. req[r].done = 0
    BY <1>2, <2>1 DEF Pending
  <2>3. Called(r) \in Action
    BY <2>1, <2>2 DEF Called, Action
  <2> QED BY <1>1, <2>2, <2>3 DEF Subject, Handler
<1> QED BY <1>2, <1>3, <1>4

-----------------------------------------------------------------------------

\* Nothing is counted at first.
LEMMA InitThrottle == ThrottleInit => ThrottleInv
<1> SUFFICES ASSUME ThrottleInit PROVE ThrottleInv
  OBVIOUS
<1>1. ThrottleTypeOK
  BY WindowAssumption DEF ThrottleInit, ThrottleTypeOK, Time
<1>2. IsFiniteSet(tries)
  BY FS_EmptySet DEF ThrottleInit
<1>3. CallsAreRecent
  BY DEF ThrottleInit, CallsAreRecent
<1>4. \A k : AllowedIn(k) = {}
  BY DEF ThrottleInit, AllowedIn
<1>5. RowsCount
  <2> SUFFICES ASSUME NEW k \in Key
               PROVE  Cardinality(AllowedIn(k)) <= Limit(k.action) /\ k \notin DOMAIN rows
    BY DEF RowsCount
  <2>1. Cardinality(AllowedIn(k)) = 0
    BY <1>4, FS_EmptySet
  <2>2. k.action \in Action
    BY DEF Key
  <2>3. DOMAIN rows = {}
    BY DEF ThrottleInit
  <2> QED BY <2>1, <2>2, <2>3, WindowFacts
<1>6. PrunedAreOver
  BY <1>4 DEF PrunedAreOver
<1> QED BY <1>1, <1>2, <1>3, <1>5, <1>6 DEF ThrottleInv

-----------------------------------------------------------------------------

\* Reading the clock counts nothing.
LEMMA ReadKeeps ==
  ASSUME ThrottleInv, NEW r \in Request, Read(r)
  PROVE  ThrottleInv'
<1> USE DEF ThrottleInv
<1>1. ThrottleTypeOK'
  <2>1. req[r] \in Handler /\ now \in Time \cup {None}
    BY DEF ThrottleTypeOK
  <2>2. [req[r] EXCEPT !.at = now] \in Handler
    BY <2>1 DEF Handler
  <2>3. req' = [req EXCEPT ![r] = [req[r] EXCEPT !.at = now]]
    BY DEF Read
  <2> QED BY <2>2, <2>3 DEF ThrottleTypeOK, Read
<1>2. CallsAreRecent'
  <2> SUFFICES ASSUME NEW q \in Request, req'[q].at # None
               PROVE  req'[q].at <= now' /\ now' <= req'[q].at + MaxDelay
    BY DEF CallsAreRecent
  <2>1. now' = now /\ now \in Nat /\ MaxDelay \in Nat
    BY WindowAssumption, DelayAssumption DEF Read, ThrottleTypeOK, Time
  <2>2. CASE q = r
    <3>1. req[r] \in Handler /\ req'[r].at = now
      BY DEF Read, ThrottleTypeOK, Handler
    <3> QED BY <2>1, <2>2, <3>1
  <2>3. CASE q # r
    <3>1. req'[q] = req[q]
      BY <2>3 DEF Read, ThrottleTypeOK
    <3> QED BY <2>1, <3>1 DEF CallsAreRecent
  <2> QED BY <2>2, <2>3
<1>3. RowsCount' /\ PrunedAreOver' /\ IsFiniteSet(tries)'
  BY DEF Read, RowsCount, PrunedAreOver, AllowedIn
<1> QED BY <1>1, <1>2, <1>3

\* Time passes, and what has been over stays over.
LEMMA TickKeeps ==
  ASSUME ThrottleInv, Tick
  PROVE  ThrottleInv'
<1> USE DEF ThrottleInv
<1>1. now' = now + 1 /\ now \in Nat /\ now' \in Time
  BY WindowAssumption DEF Tick, ThrottleTypeOK, Time
<1>2. ThrottleTypeOK'
  BY <1>1 DEF Tick, ThrottleTypeOK
<1>3. CallsAreRecent'
  <2> SUFFICES ASSUME NEW r \in Request, req[r].at # None
               PROVE  req[r].at <= now + 1 /\ now + 1 <= req[r].at + MaxDelay
    BY <1>1 DEF CallsAreRecent, Tick
  <2>1. req[r].at \in Nat
    BY WindowAssumption DEF ThrottleTypeOK, Handler, Time
  <2>2. req[r].at <= now /\ now < req[r].at + MaxDelay
    BY DEF CallsAreRecent, Tick
  <2> QED BY <1>1, <2>1, <2>2, DelayAssumption, WindowAssumption
<1>4. RowsCount' /\ IsFiniteSet(tries)'
  BY DEF Tick, RowsCount, AllowedIn
<1>5. PrunedAreOver'
  <2> SUFFICES ASSUME NEW k \in Key, AllowedIn(k) # {}, k \notin DOMAIN rows
               PROVE  k.start + 2 * Seconds(k.action) < now + 1
    BY <1>1 DEF PrunedAreOver, AllowedIn, Tick
  <2>1. k.start \in Nat /\ Seconds(k.action) \in Nat
    BY WindowFacts, WindowAssumption DEF Key, Time
  <2> QED BY <1>1, <2>1 DEF PrunedAreOver
<1> QED BY <1>2, <1>3, <1>4, <1>5

\* A call counts.  If its row is gone, no attempt of its window was counted.
LEMMA CountKeeps ==
  ASSUME ThrottleInv, NEW r \in Request, Count(r)
  PROVE  ThrottleInv'
<1> USE DEF ThrottleInv
<1> DEFINE at == req[r].at
           action == Called(r)
           key == [action |-> action, subject |-> Subject(r), start |-> Start(action, at)]
           kept == {k \in DOMAIN rows : ~Expired(k, at)}
           count == IF key \in kept THEN rows[key] + 1 ELSE 1
           try == [request |-> r, action |-> action, subject |-> Subject(r), at |-> at,
                   allowed |-> count <= Limit(action)]
<1>1. /\ Pending(r)
      /\ rows' = [k \in kept \cup {key} |-> IF k = key THEN count ELSE rows[k]]
      /\ tries' = tries \cup {try}
      /\ req' = [req EXCEPT ![r].at = None, ![r].done = @ + 1]
      /\ now' = now
  BY DEF Count
<1>2. /\ at \in Time /\ at \in Nat /\ now \in Nat
      /\ at <= now /\ now <= at + MaxDelay
  BY WindowAssumption DEF Count, ThrottleTypeOK, Handler, Time, CallsAreRecent
<1>3. action \in Action /\ Subject(r) \in Address \cup Peer /\ req[r].done + 1 \in 0 .. 3
  BY <1>1, CallFacts
<1>4. /\ Start(action, at) \in Nat
      /\ Start(action, at) <= at
      /\ at < Start(action, at) + Seconds(action)
      /\ Seconds(action) \in Nat /\ MaxDelay \in Nat /\ MaxDelay <= Seconds(action)
      /\ Limit(action) \in Nat
  BY <1>2, <1>3, StartFacts, WindowFacts
<1>5. Start(action, at) \in Time
  BY <1>2, <1>4, WindowAssumption DEF Time
<1>6. key \in Key
  BY <1>3, <1>5 DEF Key
<1>7. count \in Nat \ {0} /\ \A k \in kept : k \in Key /\ rows[k] \in Nat \ {0}
  BY DEF ThrottleTypeOK
<1>8. try \in Try /\ KeyOf(try) = key
  BY <1>2, <1>3 DEF Try, KeyOf
<1> HIDE DEF key, count, kept, try, at, action
<1>9. ThrottleTypeOK'
  <2>1. req' \in [Request -> Handler]
    <3>1. req[r] \in Handler
      BY DEF ThrottleTypeOK
    <3>2. [req[r] EXCEPT !.at = None, !.done = @ + 1] \in Handler
      BY <3>1, <1>3 DEF Handler
    <3>3. req' = [req EXCEPT ![r] = [req[r] EXCEPT !.at = None, !.done = @ + 1]]
      BY <1>1
    <3> QED BY <3>2, <3>3 DEF ThrottleTypeOK
  <2>2. \A k \in DOMAIN rows' : k \in Key /\ rows'[k] \in Nat \ {0}
    BY <1>1, <1>6, <1>7
  <2> QED BY <2>1, <2>2, <1>1, <1>8 DEF ThrottleTypeOK
<1>10. IsFiniteSet(tries)'
  BY <1>1, AddOne
<1>11. CallsAreRecent'
  <2> SUFFICES ASSUME NEW q \in Request, req'[q].at # None
               PROVE  req'[q].at <= now' /\ now' <= req'[q].at + MaxDelay
    BY DEF CallsAreRecent
  <2>1. CASE q = r
    <3>1. req[r] \in Handler /\ req'[r].at = None
      BY <1>1 DEF ThrottleTypeOK, Handler
    <3> QED BY <2>1, <3>1
  <2>2. CASE q # r
    <3>1. req'[q] = req[q]
      BY <1>1, <2>2 DEF ThrottleTypeOK
    <3> QED BY <1>1, <3>1 DEF CallsAreRecent
  <2> QED BY <2>1, <2>2
<1>12. \A k : k # key => AllowedIn(k)' = AllowedIn(k)
  BY <1>1, <1>8 DEF AllowedIn, KeyOf
<1>13. \A k : k = key =>
         /\ AllowedIn(k)' \subseteq AllowedIn(k) \cup {try}
         /\ ~(count <= Limit(action)) => AllowedIn(k)' = AllowedIn(k)
  <2>1. try.allowed <=> count <= Limit(action)
    BY DEF try
  <2> QED BY <1>1, <1>8, <2>1 DEF AllowedIn, KeyOf
<1>14. \A k \in Key : k = key /\ k \notin kept => AllowedIn(k) = {}
  <2> SUFFICES ASSUME NEW k \in Key, k = key, k \notin kept, AllowedIn(k) # {}
               PROVE  FALSE
    OBVIOUS
  <2>1. k.start = Start(action, at) /\ k.action = action
    BY DEF key
  <2>2. CASE k \in DOMAIN rows
    <3>1. k.start + 2 * Seconds(k.action) < at
      BY <2>2 DEF kept, Expired
    <3> QED BY <1>2, <1>4, <2>1, <3>1
  <2>3. CASE k \notin DOMAIN rows
    <3>1. k.start + 2 * Seconds(k.action) < now
      BY <2>3 DEF PrunedAreOver
    <3> QED BY <1>2, <1>4, <2>1, <3>1
  <2> QED BY <2>2, <2>3
<1>15. RowsCount'
  <2> SUFFICES ASSUME NEW k \in Key
               PROVE  /\ Cardinality(AllowedIn(k)') <= Limit(k.action)
                      /\ k \in DOMAIN rows' => Cardinality(AllowedIn(k)') <= rows'[k]
    BY DEF RowsCount, Limit
  <2>1. CASE k # key
    <3>1. k \in DOMAIN rows' => k \in DOMAIN rows /\ rows'[k] = rows[k]
      BY <1>1, <2>1 DEF kept
    <3> QED BY <1>12, <2>1, <3>1 DEF RowsCount
  <2>2. CASE k = key
    <3>1. k.action = action /\ rows'[k] = count
      BY <1>1, <2>2 DEF key
    <3>2. /\ IsFiniteSet(AllowedIn(k) \cup {try})
          /\ Cardinality(AllowedIn(k) \cup {try}) <= Cardinality(AllowedIn(k)) + 1
          /\ Cardinality(AllowedIn(k)) \in Nat
      BY AllowedFinite, AddOne
    <3>3. /\ Cardinality(AllowedIn(k)') \in Nat
          /\ Cardinality(AllowedIn(k)') <= Cardinality(AllowedIn(k)) + 1
      <4>1. /\ IsFiniteSet(AllowedIn(k)')
            /\ Cardinality(AllowedIn(k)') <= Cardinality(AllowedIn(k) \cup {try})
        BY <1>13, <2>2, <3>2, FS_Subset
      <4> QED BY <4>1, <3>2, FS_CardinalityType
    <3>4. Cardinality(AllowedIn(k)) + 1 <= count
      <4>1. CASE k \in kept
        BY <4>1, <2>2, <3>2, <1>7 DEF RowsCount, count, kept
      <4>2. CASE k \notin kept
        <5>1. Cardinality(AllowedIn(k)) = 0
          BY <4>2, <2>2, <1>14, FS_EmptySet
        <5> QED BY <5>1, <1>7
      <4> QED BY <4>1, <4>2
    <3>5. Cardinality(AllowedIn(k)') <= Limit(action)
      <4>1. CASE count <= Limit(action)
        BY <4>1, <3>2, <3>3, <3>4, <1>4, <1>7
      <4>2. CASE ~(count <= Limit(action))
        <5>1. Cardinality(AllowedIn(k)) <= Limit(k.action)
          BY DEF RowsCount
        <5> QED BY <5>1, <4>2, <1>13, <2>2, <3>1
      <4> QED BY <4>1, <4>2
    <3> QED BY <3>1, <3>2, <3>3, <3>4, <3>5, <1>7
  <2> QED BY <2>1, <2>2
<1>16. PrunedAreOver'
  <2> SUFFICES ASSUME NEW k \in Key, AllowedIn(k)' # {}, k \notin DOMAIN rows'
               PROVE  k.start + 2 * Seconds(k.action) < now
    BY <1>1 DEF PrunedAreOver, Seconds
  <2>1. k # key /\ k \notin kept /\ AllowedIn(k) # {}
    BY <1>1, <1>12
  <2>2. CASE k \in DOMAIN rows
    <3>1. k.start + 2 * Seconds(k.action) < at
      BY <2>1, <2>2 DEF kept, Expired
    <3>2. k.start \in Nat /\ Seconds(k.action) \in Nat
      BY WindowFacts, WindowAssumption DEF Key, Time
    <3> QED BY <3>1, <3>2, <1>2
  <2>3. CASE k \notin DOMAIN rows
    BY <2>1, <2>3 DEF PrunedAreOver
  <2> QED BY <2>2, <2>3
<1> QED BY <1>9, <1>10, <1>11, <1>15, <1>16

LEMMA ThrottleStep == ThrottleInv /\ [ThrottleNext]_throttleVars => ThrottleInv'
<1> SUFFICES ASSUME ThrottleInv, [ThrottleNext]_throttleVars PROVE ThrottleInv'
  OBVIOUS
<1>1. ASSUME NEW r \in Request, Read(r) PROVE ThrottleInv'
  BY <1>1, ReadKeeps
<1>2. ASSUME NEW r \in Request, Count(r) PROVE ThrottleInv'
  BY <1>2, CountKeeps
<1>3. CASE Tick
  BY <1>3, TickKeeps
<1>4. CASE UNCHANGED throttleVars
  BY <1>4 DEF throttleVars, ThrottleInv, ThrottleTypeOK, CallsAreRecent, RowsCount,
              PrunedAreOver, AllowedIn
<1> QED BY <1>1, <1>2, <1>3, <1>4 DEF ThrottleNext

\* What a request was granted it was allowed, and counted in one row.
LEMMA RowsLimit == ThrottleInv => WithinLimits
<1> SUFFICES ASSUME ThrottleInv, NEW action \in Action, NEW subject \in Address \cup Peer,
                    NEW start \in Time
             PROVE  Cardinality({t \in GrantedTries(action, subject) :
                                   Start(action, t.at) = start}) <= Limit(action)
  BY DEF WithinLimits
<1> DEFINE k == [action |-> action, subject |-> subject, start |-> start]
           granted == {t \in GrantedTries(action, subject) : Start(action, t.at) = start}
<1>1. k \in Key /\ k.action = action
  BY DEF Key
<1>2. granted \subseteq AllowedIn(k)
  BY DEF GrantedTries, Granted, TriesOf, AllowedIn, KeyOf
<1>3. IsFiniteSet(AllowedIn(k)) /\ Cardinality(AllowedIn(k)) \in Nat
  BY AllowedFinite DEF ThrottleInv
<1>4. Cardinality(AllowedIn(k)) <= Limit(action)
  BY <1>1 DEF ThrottleInv, RowsCount
<1> HIDE DEF k, granted
<1>5. Cardinality(granted) <= Cardinality(AllowedIn(k)) /\ Cardinality(granted) \in Nat
  BY <1>2, <1>3, FS_Subset, FS_CardinalityType
<1>6. Limit(action) \in Nat
  BY WindowFacts
<1>7. Cardinality(granted) <= Limit(action)
  BY <1>3, <1>4, <1>5, <1>6
<1> QED BY <1>7 DEF granted

-----------------------------------------------------------------------------

THEOREM ThrottleInvariant == ThrottleSpec => []ThrottleInv
BY InitThrottle, ThrottleStep, PTL DEF ThrottleSpec

\* The tables are well-typed in every reachable state (account.py:84-117).
THEOREM ThrottleTyped == ThrottleSpec => []ThrottleTypeOK
<1>1. ThrottleInv => ThrottleTypeOK
  BY DEF ThrottleInv
<1> QED BY <1>1, ThrottleInvariant, PTL

\* However many requests there are, and however their calls overlap, come late
\* or prune one another's rows, no window grants more than its limit, provided
\* that no call is delayed for longer than the shortest window
\* (account.py:84-117, auth_api.py:167-173).
THEOREM LimitsHold == ThrottleSpec => []WithinLimits
BY ThrottleInvariant, RowsLimit, PTL
=============================================================================
