------------------------------ MODULE Accounts ------------------------------
(***************************************************************************)
(* Identity and serialization of one Grocea backend: accounts, sessions,   *)
(* password-reset links and the transaction every HTTP request runs.       *)
(*                                                                         *)
(* A request is a PostgreSQL transaction at READ COMMITTED.  It first      *)
(* finds its User row without a lock, then takes the row lock (SELECT ...  *)
(* FOR UPDATE), reads again what it relies on, and commits.  Between two   *)
(* steps of a request any other request may run; a crash or a disconnect   *)
(* may end it anywhere before its commit.                                  *)
(*                                                                         *)
(* The kitchen data of an account is abstracted to its journal, the        *)
(* sequence of mutations whose effect the tables hold: a domain operation  *)
(* reads the tables (ReadMutation) and writes them back (CommitMutation),  *)
(* a read of the state takes several statements (ReadTables, ReadState).   *)
(* A password is abstracted to a number: the n-th password set on the      *)
(* account.  Whoever presents n knows the n-th password.                   *)
(*                                                                         *)
(* Definitions marked "Faulty" are part of no behaviour: each is a bug the *)
(* definition after it could have, used to show that a property notices.   *)
(***************************************************************************)
EXTENDS Integers, Sequences, FiniteSets

CONSTANTS
    User,           \* ids of User rows, never reused
    Email,          \* normalized email addresses
    Session,        \* ids (and cookies) of AuthSession rows, never reused
    Token,          \* password-reset tokens, never reused
    Key,            \* (X-Device-ID, Idempotency-Key) pairs
    MutationType,   \* the mutation_type strings handlers pass
    GuardedType,    \* the types whose handler insists on an expected revision
    Request,        \* slots of concurrent requests
    Calls,          \* the calls clients make: a subset of Call
    MaxRevision,    \* bound: the largest revision a client may expect
    MaxPassword,    \* bound: no password change starts beyond this password
    None

Password == 1 .. MaxPassword + 1

MutateCall == [op: {"mutate"}, session: Session, account: User \cup {None},
               key: Key, type: MutationType,
               expected: 0 .. MaxRevision \cup {None}]
PlainCall  == [op: {"read", "logout"}, session: Session,
               account: User \cup {None}]
SecretCall == [op: {"password", "delete"}, session: Session,
               account: User \cup {None}, password: Password]
LoginCall  == [op: {"login"}, email: Email, password: Password]
MailCall   == [op: {"forgot", "register"}, email: Email]
ResetCall  == [op: {"confirm"}, token: Token]
Call == MutateCall \cup PlainCall \cup SecretCall \cup LoginCall
            \cup MailCall \cup ResetCall

ASSUME NoneAssumption ==
    None \notin User \cup Email \cup Request \cup Session \cup Token \cup Nat
                  \cup Seq(Key)
\* Both are drawn at random, so none is ever the other.
ASSUME SecretAssumption == Session \cap Token = {}
ASSUME BoundAssumption == MaxRevision \in Nat /\ MaxPassword \in Nat
ASSUME CallAssumption == Calls \subseteq Call /\ GuardedType \subseteq MutationType

VARIABLES
    account,    \* the users and processed_mutations tables, and the kitchen data
    session,    \* the auth_sessions table
    token,      \* the password_reset_tokens table and the mail of each token
    lock,       \* the request that holds each User row's lock, or None
    pc,         \* where each request is
    call,       \* what each request was asked
    tx,         \* what each request has read
    reply       \* what each request answered last

vars == <<account, session, token, lock, pc, call, tx, reply>>

-----------------------------------------------------------------------------
(* Rows.                                                                   *)

Mutation == [key: Key, type: MutationType, revision: Nat]

Account == [state: {"absent", "open", "deleted"},
            email: Email \cup {None},
            password: Nat,
            revision: Nat,
            journal: Seq(Key),
            processed: SUBSET Mutation]

Absent == [state |-> "absent", email |-> None, password |-> 0, revision |-> 0,
           journal |-> <<>>, processed |-> {}]

Fresh(e) == [Absent EXCEPT !.state = "open", !.email = e, !.password = 1]

\* since: the password that was current when the credential was issued
SessionRow == [state: {"unissued", "live", "expired", "pruned", "revoked"},
               user: User \cup {None}, since: Nat]

TokenRow == [state: {"unissued", "live", "expired", "revoked"},
             mail: {"none", "queued", "sent"},
             user: User \cup {None}, since: Nat]

NoTx == [user |-> None, password |-> 0, revision |-> 0, journal |-> <<>>,
         fresh |-> None]

Tx == [user: User \cup {None}, password: Nat, revision: Nat,
       journal: Seq(Key), fresh: Session \cup Token \cup {None}]

\* revision is the X-State-Revision header, seen what the body shows.
Reply == [status: {"none", "ok", "replay"},
          user: User \cup {None}, revision: Nat, seen: Nat]

NoReply == [status |-> "none", user |-> None, revision |-> 0, seen |-> 0]
Done(u) == [NoReply EXCEPT !.status = "ok", !.user = u]

TypeOK ==
    /\ account \in [User -> Account]
    /\ session \in [Session -> SessionRow]
    /\ token \in [Token -> TokenRow]
    /\ lock \in [User -> Request \cup {None}]
    /\ pc \in [Request -> {"idle", "begun", "resolved", "locked", "ready",
                           "applied"}]
    /\ call \in [Request -> Calls \cup {None}]
    /\ tx \in [Request -> Tx]
    /\ reply \in [Request -> Reply]

Init ==
    /\ account = [u \in User |-> Absent]
    /\ session = [s \in Session |->
                    [state |-> "unissued", user |-> None, since |-> 0]]
    /\ token = [t \in Token |-> [state |-> "unissued", mail |-> "none",
                                 user |-> None, since |-> 0]]
    /\ lock = [u \in User |-> None]
    /\ pc = [r \in Request |-> "idle"]
    /\ call = [r \in Request |-> None]
    /\ tx = [r \in Request |-> NoTx]
    /\ reply = [r \in Request |-> NoReply]

Open(u) == account[u].state = "open"

-----------------------------------------------------------------------------
(* Beginning and ending a request.                                         *)

InFlight(r) == pc[r] # "idle"

\* A session or reset token that no request has been given yet.
Unused == ({s \in Session : session[s].state = "unissued"}
               \cup {t \in Token : token[t].state = "unissued"})
          \ {tx[r].fresh : r \in {q \in Request : InFlight(q)}}

\* The bounds of the model: what a client may ask for next.
Possible(c) ==
    /\ c.op \in {"password", "confirm"} =>
         \A u \in User : account[u].password < MaxPassword
    /\ c.op = "register" =>
         Cardinality({u \in User : account[u].state = "absent"})
           > Cardinality({r \in Request : InFlight(r) /\ call[r].op = "register"})
    /\ c.op = "confirm" => token[c.token].mail = "sent"

\* A client sends request r.  The secret it may be issued is drawn here.
Start(r) ==
    /\ pc[r] = "idle"
    /\ \E c \in Calls :
         /\ Possible(c)
         /\ call' = [call EXCEPT ![r] = c]
         /\ \E f \in CASE c.op \in {"login", "register", "password"} ->
                             Unused \cap Session
                       [] c.op = "forgot" -> Unused \cap Token
                       [] OTHER -> {None} :
              tx' = [tx EXCEPT ![r] = [NoTx EXCEPT !.fresh = f]]
    /\ pc' = [pc EXCEPT ![r] = "begun"]
    /\ reply' = [reply EXCEPT ![r] = NoReply]
    /\ UNCHANGED <<account, session, token, lock>>

\* Faulty End: the connection goes back with its transaction still open.
EndKeepingLock(r, answer) ==
    /\ pc' = [pc EXCEPT ![r] = "idle"]
    /\ tx' = [tx EXCEPT ![r] = NoTx]
    /\ reply' = [reply EXCEPT ![r] = answer]
    /\ UNCHANGED lock

\* The transaction ends, by commit or rollback, and its row lock with it.
End(r, answer) ==
    /\ pc' = [pc EXCEPT ![r] = "idle"]
    /\ tx' = [tx EXCEPT ![r] = NoTx]
    /\ reply' = [reply EXCEPT ![r] = answer]
    /\ lock' = [u \in User |-> IF lock[u] = r THEN None ELSE lock[u]]

Answer(r, answer) == End(r, answer) /\ UNCHANGED call

\* An error answer, or none: rolled back, and the client may ask again.
Refuse(r) ==
    /\ End(r, NoReply)
    /\ call' = [call EXCEPT ![r] = None]
    /\ UNCHANGED <<account, session, token>>

\* A crash, a lost connection or a failing statement before the commit.
Abort(r) ==
    /\ InFlight(r)
    /\ Refuse(r)

-----------------------------------------------------------------------------
(* Authentication: get_current_auth.                                       *)

Authenticated == {"mutate", "read", "logout", "password", "delete"}

\* resolve_session: the cookie's session and its account, read without a lock.
Resolve(r) ==
    /\ pc[r] = "begun"
    /\ call[r].op \in Authenticated
    /\ LET s == call[r].session
       IN  IF session[s].state = "live" /\ Open(session[s].user)
           THEN /\ pc' = [pc EXCEPT ![r] = "resolved"]
                /\ tx' = [tx EXCEPT ![r].user = session[s].user]
                /\ UNCHANGED <<account, session, token, lock, call, reply>>
           ELSE Refuse(r)

\* Faulty Take: the row is read without FOR UPDATE.
TakeUnlocked(r, u) ==
    /\ UNCHANGED lock
    /\ tx' = [tx EXCEPT ![r].user = u,
                        ![r].password = account[u].password,
                        ![r].revision = account[u].revision]

\* What SELECT User ... FOR UPDATE returns: the row as it is once locked.
Take(r, u) ==
    /\ lock[u] = None
    /\ lock' = [lock EXCEPT ![u] = r]
    /\ tx' = [tx EXCEPT ![r].user = u,
                        ![r].password = account[u].password,
                        ![r].revision = account[u].revision]

\* The account lock by user id.  It waits for the holder; a row deleted
\* meanwhile is not found.
LockUser(r) ==
    /\ pc[r] = "resolved"
    /\ LET u == tx[r].user
       IN  \/ /\ Open(u)
              /\ Take(r, u)
              /\ pc' = [pc EXCEPT ![r] = "locked"]
              /\ UNCHANGED <<account, session, token, call, reply>>
           \/ /\ ~Open(u)
              /\ lock[u] = None
              /\ Refuse(r)

\* Faulty Revalidate: what was read before the wait is trusted.
RevalidateNothing(r) ==
    /\ pc[r] = "locked"
    /\ call[r].op \in Authenticated
    /\ pc' = [pc EXCEPT ![r] = "ready"]
    /\ UNCHANGED <<account, session, token, lock, call, tx, reply>>

\* The session read again under the lock, then the X-Account-ID check.
Revalidate(r) ==
    /\ pc[r] = "locked"
    /\ call[r].op \in Authenticated
    /\ IF /\ session[call[r].session].state = "live"
          /\ call[r].account \in {None, tx[r].user}
       THEN /\ pc' = [pc EXCEPT ![r] = "ready"]
            /\ UNCHANGED <<account, session, token, lock, call, tx, reply>>
       ELSE Refuse(r)

-----------------------------------------------------------------------------
(* Mutations and reads of the kitchen: apply_mutation and read_state.      *)

Cached(u, k) == {m \in account[u].processed : m.key = k}

\* The handler wants an expected revision and has none (bulk stock).
Unguarded(c) == c.type \in GuardedType /\ c.expected = None

\* Faulty Stale: the header is ignored.
StaleNever(r) == FALSE

\* The account has changed since the revision the client expects.
Stale(r) == call[r].expected \notin {None, tx[r].revision}

\* Faulty Stored: a replay is labelled with the account's present revision.
StoredNow(r, m) == [status |-> "replay", user |-> tx[r].user,
                    revision |-> tx[r].revision, seen |-> tx[r].revision]

\* The stored answer of a mutation that was applied before.
Stored(r, m) == [status |-> "replay", user |-> tx[r].user,
                 revision |-> m.revision, seen |-> m.revision]

\* The replay lookup, the revision check and the operation's reads.
ReadMutation(r) ==
    /\ pc[r] = "ready"
    /\ call[r].op = "mutate"
    /\ LET cached == Cached(tx[r].user, call[r].key)
       IN  \/ /\ Unguarded(call[r])
              /\ Refuse(r)
           \/ /\ ~Unguarded(call[r])
              /\ \E m \in cached :
                   IF m.type = call[r].type
                   THEN /\ Answer(r, Stored(r, m))
                        /\ UNCHANGED <<account, session, token>>
                   ELSE Refuse(r)
           \/ /\ ~Unguarded(call[r])
              /\ cached = {}
              /\ Stale(r)
              /\ Refuse(r)
           \/ /\ ~Unguarded(call[r])
              /\ cached = {}
              /\ ~Stale(r)
              /\ pc' = [pc EXCEPT ![r] = "applied"]
              /\ tx' = [tx EXCEPT ![r].journal = account[tx[r].user].journal]
              /\ UNCHANGED <<account, session, token, lock, call, reply>>

\* Faulty NextRevision: counts down.
PreviousRevision(r) == tx[r].revision - 1

NextRevision(r) == tx[r].revision + 1

\* Faulty Record: the revision is stored before it is incremented.
RecordEarly(r) == [key |-> call[r].key, type |-> call[r].type,
                   revision |-> tx[r].revision]

\* The ProcessedMutation row.
Record(r) == [key |-> call[r].key, type |-> call[r].type,
              revision |-> NextRevision(r)]

\* The operation's writes, the revision, the ProcessedMutation row: one commit.
CommitMutation(r) ==
    /\ pc[r] = "applied"
    /\ call[r].op = "mutate"
    /\ LET u == tx[r].user
           n == NextRevision(r)
       IN  /\ \A m \in account[u].processed : m.key # call[r].key
           /\ account' =
                [account EXCEPT
                   ![u].revision = n,
                   ![u].journal = Append(tx[r].journal, call[r].key),
                   ![u].processed = @ \cup {Record(r)}]
           /\ Answer(r, [status |-> "ok", user |-> u, revision |-> n, seen |-> n])
    /\ UNCHANGED <<session, token>>

\* Faulty FailMutation: what was written before the error is committed.
FailKeepingRows(r) ==
    /\ pc[r] = "applied"
    /\ call[r].op = "mutate"
    /\ account' = [account EXCEPT ![tx[r].user].journal =
                     Append(tx[r].journal, call[r].key)]
    /\ Answer(r, NoReply)
    /\ UNCHANGED <<session, token>>

\* The operation raises: not found, conflict or invalid.  All is rolled back.
FailMutation(r) ==
    /\ pc[r] = "applied"
    /\ call[r].op = "mutate"
    /\ Refuse(r)

\* GET /state and the export: the first of the statements that read the tables.
ReadTables(r) ==
    /\ pc[r] = "ready"
    /\ call[r].op = "read"
    /\ pc' = [pc EXCEPT ![r] = "applied"]
    /\ tx' = [tx EXCEPT ![r].journal = account[tx[r].user].journal]
    /\ UNCHANGED <<account, session, token, lock, call, reply>>

\* The last statement, and the answer: the revision is that of the locked row,
\* a table shows what it held when the first statement ran or when the last did.
ReadState(r) ==
    /\ pc[r] = "applied"
    /\ call[r].op = "read"
    /\ LET u == tx[r].user
       IN  \E shown \in {tx[r].journal, account[u].journal} :
             Answer(r, [status |-> "ok", user |-> u, revision |-> tx[r].revision,
                        seen |-> Len(shown)])
    /\ UNCHANGED <<account, session, token>>

-----------------------------------------------------------------------------
(* Sessions and passwords.                                                 *)

\* _new_session: expired rows of every account go, one session is added.
\* kept is the table once the caller has revoked what it revokes.
NewSession(r, u, password, kept) ==
    session' = [s \in Session |->
                  IF s = tx[r].fresh
                  THEN [state |-> "live", user |-> u, since |-> password]
                  ELSE IF kept[s].state = "expired"
                  THEN [kept[s] EXCEPT !.state = "pruned"]
                  ELSE kept[s]]

RevokeSessions(u) ==
    [s \in Session |->
       IF session[s].user = u /\ session[s].state \in {"live", "expired"}
       THEN [session[s] EXCEPT !.state = "revoked"] ELSE session[s]]

RevokeTokens(u) ==
    [t \in Token |->
       IF token[t].user = u /\ token[t].state \in {"live", "expired"}
       THEN [token[t] EXCEPT !.state = "revoked"] ELSE token[t]]

\* POST /register: the unique email index decides between concurrent inserts.
Register(r) ==
    /\ pc[r] = "begun"
    /\ call[r].op = "register"
    /\ LET e == call[r].email
       IN  \/ /\ \E u \in User : Open(u) /\ account[u].email = e
              /\ Refuse(r)
           \/ /\ \A u \in User : Open(u) => account[u].email # e
              /\ \E u \in User :
                   /\ account[u].state = "absent"
                   /\ account' = [account EXCEPT ![u] = Fresh(e)]
                   /\ NewSession(r, u, 1, session)
                   /\ Answer(r, Done(u))
              /\ UNCHANGED token

\* Faulty LockByEmail: login reads the account without its lock.
FindByEmail(r) ==
    /\ pc[r] = "begun"
    /\ call[r].op \in {"login", "forgot"}
    /\ \E u \in User :
         /\ Open(u) /\ account[u].email = call[r].email
         /\ TakeUnlocked(r, u)
         /\ pc' = [pc EXCEPT ![r] = "ready"]
         /\ UNCHANGED <<account, session, token, call, reply>>

\* login and issue_reset find and lock the account by its email.
LockByEmail(r) ==
    /\ pc[r] = "begun"
    /\ call[r].op \in {"login", "forgot"}
    /\ LET owners == {u \in User : Open(u) /\ account[u].email = call[r].email}
       IN  \/ /\ owners = {}
              /\ Refuse(r)
           \/ \E u \in owners :
                /\ Take(r, u)
                /\ pc' = [pc EXCEPT ![r] = "ready"]
                /\ UNCHANGED <<account, session, token, call, reply>>

\* authenticate: the password is checked against the locked row.
Login(r) ==
    /\ pc[r] = "ready"
    /\ call[r].op = "login"
    /\ LET u == tx[r].user
       IN  IF call[r].password = tx[r].password
           THEN /\ NewSession(r, u, tx[r].password, session)
                /\ Answer(r, Done(u))
                /\ UNCHANGED <<account, token>>
           ELSE Refuse(r)

Logout(r) ==
    /\ pc[r] = "ready"
    /\ call[r].op = "logout"
    /\ session' = [session EXCEPT ![call[r].session].state = "revoked"]
    /\ Answer(r, Done(tx[r].user))
    /\ UNCHANGED <<account, token>>

\* change_password: every reset link and session of the account is replaced
\* by one new session.
ChangePassword(r) ==
    /\ pc[r] = "ready"
    /\ call[r].op = "password"
    /\ LET u == tx[r].user
           new == tx[r].password + 1
       IN  IF call[r].password = tx[r].password
           THEN /\ account' = [account EXCEPT ![u].password = new]
                /\ token' = RevokeTokens(u)
                /\ NewSession(r, u, new, RevokeSessions(u))
                /\ Answer(r, Done(u))
           ELSE Refuse(r)

\* delete_account: the row and everything it owns, in one commit.
DeleteAccount(r) ==
    /\ pc[r] = "ready"
    /\ call[r].op = "delete"
    /\ LET u == tx[r].user
       IN  IF call[r].password = tx[r].password
           THEN /\ account' = [account EXCEPT ![u] =
                                 [Absent EXCEPT !.state = "deleted"]]
                /\ token' = RevokeTokens(u)
                /\ session' = RevokeSessions(u)
                /\ Answer(r, Done(u))
           ELSE Refuse(r)

-----------------------------------------------------------------------------
(* Password recovery.                                                      *)

\* issue_reset: expired links go, one is added; older live links stay.
IssueReset(r) ==
    /\ pc[r] = "ready"
    /\ call[r].op = "forgot"
    /\ LET u == tx[r].user
       IN  /\ token' = [t \in Token |->
                          IF t = tx[r].fresh
                          THEN [state |-> "live", mail |-> "queued", user |-> u,
                                since |-> tx[r].password]
                          ELSE IF token[t].user = u /\ token[t].state = "expired"
                          THEN [token[t] EXCEPT !.state = "revoked"]
                          ELSE token[t]]
           /\ Answer(r, Done(u))
    /\ UNCHANGED <<account, session>>

\* deliver_reset, after the response: the link is checked again, then mailed.
Deliver(t) ==
    /\ token[t].mail = "queued"
    /\ token' = [token EXCEPT ![t].mail =
                   IF token[t].state = "live" THEN "sent" ELSE "none"]
    /\ UNCHANGED <<account, session, lock, pc, call, tx, reply>>

\* The process ends before its background task, or the mail is not accepted.
MailLost(t) ==
    /\ token[t].mail = "queued"
    /\ token' = [token EXCEPT ![t].mail = "none"]
    /\ UNCHANGED <<account, session, lock, pc, call, tx, reply>>

\* reset_password: the token's account, read without a lock.
LookUpToken(r) ==
    /\ pc[r] = "begun"
    /\ call[r].op = "confirm"
    /\ LET t == call[r].token
       IN  IF token[t].state \in {"live", "expired"}
           THEN /\ pc' = [pc EXCEPT ![r] = "resolved"]
                /\ tx' = [tx EXCEPT ![r].user = token[t].user]
                /\ UNCHANGED <<account, session, token, lock, call, reply>>
           ELSE Refuse(r)

\* reset_password under the lock: the token is read again, then used.
ConfirmReset(r) ==
    /\ pc[r] = "locked"
    /\ call[r].op = "confirm"
    /\ LET u == tx[r].user
       IN  IF token[call[r].token].state = "live"
           THEN /\ account' = [account EXCEPT ![u].password = tx[r].password + 1]
                /\ session' = RevokeSessions(u)
                /\ token' = RevokeTokens(u)
                /\ Answer(r, Done(u))
           ELSE Refuse(r)

-----------------------------------------------------------------------------
(* Time, and the whole system.                                             *)

SessionExpires(s) ==
    /\ session[s].state = "live"
    /\ session' = [session EXCEPT ![s].state = "expired"]
    /\ UNCHANGED <<account, token, lock, pc, call, tx, reply>>

TokenExpires(t) ==
    /\ token[t].state = "live"
    /\ token' = [token EXCEPT ![t].state = "expired"]
    /\ UNCHANGED <<account, session, lock, pc, call, tx, reply>>

Lookup(r) == Resolve(r) \/ LookUpToken(r) \/ Register(r)
Lock(r)   == LockUser(r) \/ LockByEmail(r)
Handle(r) == \/ Revalidate(r) \/ ReadMutation(r) \/ CommitMutation(r)
             \/ FailMutation(r) \/ ReadTables(r) \/ ReadState(r) \/ Login(r)
             \/ Logout(r) \/ ChangePassword(r) \/ DeleteAccount(r)
             \/ IssueReset(r) \/ ConfirmReset(r)

Next ==
    \/ \E r \in Request :
         Start(r) \/ Lookup(r) \/ Lock(r) \/ Handle(r) \/ Abort(r)
    \/ \E s \in Session : SessionExpires(s)
    \/ \E t \in Token : TokenExpires(t) \/ Deliver(t) \/ MailLost(t)

Spec == Init /\ [][Next]_vars

\* The server runs every request it has begun, and PostgreSQL queues the
\* waiters of a row lock, so a request that keeps finding the lock free in
\* turn does get it.
Fairness ==
    \A r \in Request : /\ WF_vars(Lookup(r)) /\ WF_vars(Handle(r))
                       /\ SF_vars(Lock(r))

FairSpec == Spec /\ Fairness

-----------------------------------------------------------------------------
(* Properties.                                                             *)

\* Every session that can still sign a request in, and every reset link that
\* can still set a password, was issued under the account's present password:
\* a login racing a password change, a reset or a deletion (auth.py:117-156,
\* account.py:202-227) never leaves a credential that outlives it.
CredentialsMatchPassword ==
    /\ \A s \in Session : session[s].state \in {"live", "expired"} =>
         Open(session[s].user) /\ session[s].since = account[session[s].user].password
    /\ \A t \in Token : token[t].state \in {"live", "expired"} =>
         Open(token[t].user) /\ token[t].since = account[token[t].user].password

\* An account's kitchen data, its revision and its replay records tell one
\* story: the n-th mutation applied has revision n, has a replay record under
\* its key and no key is applied twice, however requests interleave, fail or
\* are retried (api.py:120-177).
ExactlyOnce ==
    \A u \in User :
      LET a == account[u]
      IN  /\ a.revision = Len(a.journal)
          /\ \A m \in a.processed :
               m.revision \in 1 .. Len(a.journal) /\ a.journal[m.revision] = m.key
          /\ \A n \in 1 .. Len(a.journal) :
               \E m \in a.processed : m.revision = n
          /\ \A m, p \in a.processed : m.key = p.key => m = p

\* A success or a replay names the revision at which the client's own mutation
\* is in the data, and a state or export shows exactly the mutations of the
\* revision it is labelled with (api.py:145-177, full_services.py:854-878).
RepliesAreTrue ==
    \A r \in Request :
      LET a == reply[r]
      IN  pc[r] = "idle" /\ a.status \in {"ok", "replay"} =>
            /\ call[r].op = "mutate" /\ Open(a.user) =>
                 /\ a.revision \in 1 .. Len(account[a.user].journal)
                 /\ account[a.user].journal[a.revision] = call[r].key
            /\ call[r].op = "read" => a.revision = a.seen

\* A request that passed the check under the lock keeps its session until it
\* ends: no logout, password change, reset or deletion that revokes the session
\* falls between the check and the commit (dependencies.py:46-57).
RevokedStaysOut ==
    \A r \in Request :
      pc[r] \in {"ready", "applied"} /\ call[r].op \in Authenticated =>
        session[call[r].session].state \notin {"unissued", "revoked"}

\* A mutation sent with X-Expected-State-Revision is applied only on top of
\* that revision, and a bulk stock edit never without one (api.py:148-157,
\* api.py:518-521).
AppliedAtExpectedRevision ==
    [][\A r \in Request, u \in User :
         (/\ pc[r] = "applied" /\ call[r].op = "mutate"
          /\ pc'[r] = "idle" /\ reply'[r].status = "ok"
          /\ tx[r].user = u) =>
           /\ call[r].expected = None => call[r].type \notin GuardedType
           /\ call[r].expected # None =>
                /\ Len(account[u].journal) = call[r].expected
                /\ account'[u].journal = Append(account[u].journal, call[r].key)]_vars

\* Every request the server accepts is answered: no path leaves a row lock
\* behind that another request waits for forever.
EveryRequestEnds == \A r \in Request : pc[r] = "begun" ~> pc[r] = "idle"

\* The interleaved, failing and retried transactions are indistinguishable to
\* clients from the atomic log of IdempotentLog.
Log == INSTANCE IdempotentLog WITH
         log <- [u \in User |-> IF Open(u) THEN account[u].journal ELSE None],
         answer <- [r \in Request |->
                      IF /\ pc[r] = "idle" /\ reply[r].status # "none"
                         /\ call[r].op \in {"mutate", "read"}
                      THEN reply[r].revision ELSE None]

ImplementsLog == Log!Spec

=============================================================================
