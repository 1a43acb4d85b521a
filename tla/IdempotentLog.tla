--------------------------- MODULE IdempotentLog ---------------------------
(***************************************************************************)
(* What the mutation protocol of the API promises its clients: each        *)
(* account is a log of mutations, and every request that changes or reads  *)
(* it acts in one indivisible step.  A key enters a log at most once; an   *)
(* answer to a mutation is its position in the log, the same for every     *)
(* retry; an answer to a read is the length of the log it shows.           *)
(***************************************************************************)
EXTENDS Naturals, Sequences

CONSTANTS User, Key, Request, None

VARIABLES
    log,        \* the mutations applied to each account, None without account
    answer      \* what each request was answered, None while it has no answer

vars == <<log, answer>>

Init == /\ log = [u \in User |-> None]
        /\ answer = [r \in Request |-> None]

Position(r, n) == answer' = [answer EXCEPT ![r] = n]

\* A new key is applied at the end of the log.
Apply(r, u, k) ==
    /\ log[u] # None
    /\ \A n \in DOMAIN log[u] : log[u][n] # k
    /\ log' = [log EXCEPT ![u] = Append(@, k)]
    /\ Position(r, Len(log[u]) + 1)

\* A key that is in the log is answered with its place in it.
Replay(r, u, k) ==
    /\ log[u] # None
    /\ \E n \in DOMAIN log[u] : log[u][n] = k /\ Position(r, n)
    /\ UNCHANGED log

Read(r, u) ==
    /\ log[u] # None
    /\ Position(r, Len(log[u]))
    /\ UNCHANGED log

\* A new request in the slot r.
Ask(r) == Position(r, None) /\ UNCHANGED log

Create(u) == log[u] = None /\ log' = [log EXCEPT ![u] = <<>>] /\ UNCHANGED answer

Erase(u) == log[u] # None /\ log' = [log EXCEPT ![u] = None] /\ UNCHANGED answer

Next ==
    \/ \E r \in Request :
         \/ Ask(r)
         \/ \E u \in User : Read(r, u)
         \/ \E u \in User, k \in Key : Apply(r, u, k) \/ Replay(r, u, k)
    \/ \E u \in User : Create(u) \/ Erase(u)

Spec == Init /\ [][Next]_vars
=============================================================================
