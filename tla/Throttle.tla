------------------------------ MODULE Throttle ------------------------------
(***************************************************************************)
(* The counters that limit password recovery: one row per action, subject  *)
(* and aligned window of time, in the database, shared by all processes.   *)
(* A handler makes its throttle calls one after another; a call reads the  *)
(* clock of the process, then prunes and counts in a transaction of its    *)
(* own, so that calls of several handlers overlap.                         *)
(*                                                                         *)
(* Time is counted in ticks.  The clocks agree.  "Faulty" definitions are  *)
(* part of no behaviour (see Accounts).                                    *)
(***************************************************************************)
EXTENDS Integers, FiniteSets, Sequences

CONSTANTS
    Request,        \* requests ever made
    Address, Peer,  \* normalized email addresses, client hosts
    Minute, Hour,   \* the two windows, in ticks
    PerHour,        \* RESET_REQUESTS_PER_HOUR
    PerPeer,        \* attempts an hour of a host (30 and 60 in the code)
    MaxDelay,       \* bound: ticks from the clock's reading to the count
    MaxTime,        \* bound: ticks
    None

ASSUME WindowAssumption ==
    /\ Minute \in Nat \ {0} /\ Hour \in Nat \ {0} /\ Minute <= Hour
    /\ PerHour \in Nat /\ PerPeer \in Nat /\ MaxTime \in Nat /\ None \notin Nat

\* A call that takes longer than the shortest window may find its row pruned.
ASSUME DelayAssumption == MaxDelay \in 0 .. Minute

Action == {"request-ip", "request-email", "request-cooldown", "confirm-ip"}

Seconds(action) == IF action = "request-cooldown" THEN Minute ELSE Hour

Limit(action) ==
    IF action = "request-cooldown" THEN 1
    ELSE IF action = "request-email" THEN PerHour ELSE PerPeer

\* The throttle calls of request_password_reset and confirm_password_reset.
Calls == [request |-> <<"request-ip", "request-email", "request-cooldown">>,
          confirm |-> <<"confirm-ip">>]

VARIABLES
    now,    \* the time
    req,    \* what each request asks and how far its handler is
    rows,   \* the recovery_throttles table: key -> count
    tries   \* history: the attempts counted, and the answer of each

throttleVars == <<now, req, rows, tries>>

Time == 0 .. MaxTime
Key == [action: Action, subject: Address \cup Peer, start: Time]
Handler == [kind: DOMAIN Calls, address: Address, peer: Peer,
            done: 0 .. 3, at: Time \cup {None}]
Try == [request: Request, action: Action, subject: Address \cup Peer, at: Time,
        allowed: BOOLEAN]

ThrottleTypeOK ==
    /\ now \in Time
    /\ req \in [Request -> Handler]
    /\ \A k \in DOMAIN rows : k \in Key /\ rows[k] \in Nat \ {0}
    /\ tries \subseteq Try

ThrottleInit ==
    /\ now = 0
    /\ req \in [Request -> {h \in Handler : h.done = 0 /\ h.at = None}]
    /\ rows = [k \in {} |-> 1]
    /\ tries = {}

-----------------------------------------------------------------------------

Pending(r) == req[r].done < Len(Calls[req[r].kind])

\* The action and the subject of the call that r makes next.
Called(r) == Calls[req[r].kind][req[r].done + 1]

Subject(r) ==
    IF Called(r) \in {"request-ip", "confirm-ip"} THEN req[r].peer ELSE req[r].address

\* Faulty Start: the window is named by its end.
StartOfNext(action, time) == (time \div Seconds(action) + 1) * Seconds(action)

\* The window that a reading of the clock falls in: int(now) // seconds * seconds.
Start(action, time) == (time \div Seconds(action)) * Seconds(action)

\* Faulty Expired: a row lives as long as its window.
ExpiredAtOnce(k, time) == k.start + Seconds(k.action) < time

\* expires_at < now.
Expired(k, time) == k.start + 2 * Seconds(k.action) < time

\* throttle reads the clock.
Read(r) ==
    /\ Pending(r)
    /\ req[r].at = None
    /\ req' = [req EXCEPT ![r].at = now]
    /\ UNCHANGED <<now, rows, tries>>

\* The delete and the upsert, which commit together, and the answer.
Count(r) ==
    /\ Pending(r)
    /\ req[r].at # None
    /\ LET at == req[r].at
           key == [action |-> Called(r), subject |-> Subject(r), start |-> Start(Called(r), at)]
           kept == {k \in DOMAIN rows : ~Expired(k, at)}
           count == IF key \in kept THEN rows[key] + 1 ELSE 1
       IN  /\ rows' = [k \in kept \cup {key} |-> IF k = key THEN count ELSE rows[k]]
           /\ tries' = tries \cup {[request |-> r, action |-> Called(r),
                                    subject |-> Subject(r), at |-> at,
                                    allowed |-> count <= Limit(Called(r))]}
    /\ req' = [req EXCEPT ![r].at = None, ![r].done = @ + 1]
    /\ UNCHANGED now

\* Time passes; a call under way is counted before MaxDelay is over.
Tick ==
    /\ now < MaxTime
    /\ \A r \in Request : req[r].at # None => now < req[r].at + MaxDelay
    /\ now' = now + 1
    /\ UNCHANGED <<req, rows, tries>>

ThrottleNext ==
    \/ \E r \in Request : Read(r) \/ Count(r)
    \/ Tick

ThrottleSpec == ThrottleInit /\ [][ThrottleNext]_throttleVars

-----------------------------------------------------------------------------
(* Properties.                                                             *)

TriesOf(r) == {t \in tries : t.request = r}

\* The handler goes on to issue a link or to set the password.
Granted(r) ==
    /\ ~Pending(r)
    /\ \A t \in TriesOf(r) : t.allowed

GrantedTries(action, subject) ==
    {t \in tries : t.action = action /\ t.subject = subject /\ Granted(t.request)}

\* In no window do more requests go through than its limit, whatever calls
\* overlap, come late or prune one another's rows (account.py:84-117,
\* auth_api.py:167-173).
WithinLimits ==
    \A action \in Action, subject \in Address \cup Peer :
      \A start \in Time :
        Cardinality({t \in GrantedTries(action, subject) : Start(action, t.at) = start})
          <= Limit(action)
=============================================================================
