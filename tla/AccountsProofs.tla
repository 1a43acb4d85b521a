--------------------------- MODULE AccountsProofs ---------------------------
(***************************************************************************)
(* Proofs about Accounts, for any number of users, sessions, tokens, keys  *)
(* and concurrent requests: types, isolation, credentials, mutations and   *)
(* revocation.  What clients are told is in AccountsLogProofs.             *)
(***************************************************************************)
EXTENDS Accounts, TLAPS

-----------------------------------------------------------------------------
(* Type correctness.                                                       *)

Bound(r) == pc[r] \in {"resolved", "locked", "ready", "applied"}

\* A request past its lookup, a session and a reset link name a real user.
UsersKnown ==
    /\ \A r \in Request : Bound(r) => tx[r].user \in User
    /\ \A s \in Session : session[s].state \in {"live", "expired"} =>
         session[s].user \in User
    /\ \A t \in Token : token[t].state \in {"live", "expired"} =>
         token[t].user \in User

\* A request in flight has a call, and only a mutation or a read of the state
\* has read the tables.
CallsKnown ==
    \A r \in Request : /\ pc[r] # "idle" => call[r] \in Calls
                       /\ pc[r] = "applied" => call[r].op \in {"mutate", "read"}

Typed == TypeOK /\ UsersKnown /\ CallsKnown

\* Ending a request, whatever it answers, keeps the types of what it touches.
LEMMA EndTyped ==
    ASSUME Typed, NEW r \in Request, NEW a \in Reply, End(r, a)
    PROVE  /\ pc' \in [Request -> {"idle", "begun", "resolved", "locked",
                                   "ready", "applied"}]
           /\ tx' \in [Request -> Tx]
           /\ reply' \in [Request -> Reply]
           /\ lock' \in [User -> Request \cup {None}]
           /\ \A q \in Request \ {r} : pc'[q] = pc[q] /\ tx'[q] = tx[q]
           /\ pc'[r] = "idle"
<1>1. NoTx \in Tx
  BY DEF NoTx, Tx
<1> QED
  BY <1>1 DEF End, Typed, TypeOK

LEMMA RefuseTyped ==
    ASSUME Typed, NEW r \in Request, Refuse(r)
    PROVE  Typed'
<1>1. NoReply \in Reply
  BY DEF NoReply, Reply
<1>2. End(r, NoReply)
  BY DEF Refuse
<1> QED
  BY <1>1, <1>2, EndTyped DEF Refuse, Typed, TypeOK, UsersKnown, CallsKnown, Bound

\* The rows written into the sessions table.
LEMMA NewSessionTyped ==
    ASSUME NEW r \in Request, NEW u \in User, NEW n \in Nat,
           NEW kept \in [Session -> SessionRow], NewSession(r, u, n, kept),
           \A s \in Session : kept[s].state \in {"live", "expired"} =>
             kept[s].user \in User
    PROVE  /\ session' \in [Session -> SessionRow]
           /\ \A s \in Session : session'[s].state \in {"live", "expired"} =>
                session'[s].user \in User
  BY DEF NewSession, SessionRow

LEMMA RevokeTyped ==
    ASSUME Typed, NEW u \in User
    PROVE  /\ RevokeSessions(u) \in [Session -> SessionRow]
           /\ RevokeTokens(u) \in [Token -> TokenRow]
           /\ \A s \in Session :
                RevokeSessions(u)[s].state \in {"live", "expired"} =>
                  RevokeSessions(u)[s].user \in User
           /\ \A t \in Token :
                RevokeTokens(u)[t].state \in {"live", "expired"} =>
                  RevokeTokens(u)[t].user \in User
  BY DEF Typed, TypeOK, UsersKnown, RevokeSessions, RevokeTokens, SessionRow,
         TokenRow

LEMMA StartTyped == ASSUME Typed, NEW r \in Request, Start(r) PROVE Typed'
<1>1. PICK c \in Calls, f \in Session \cup Token \cup {None} :
        /\ call' = [call EXCEPT ![r] = c]
        /\ tx' = [tx EXCEPT ![r] = [NoTx EXCEPT !.fresh = f]]
  BY DEF Start, Unused
<1>2. [NoTx EXCEPT !.fresh = f] \in Tx
  <2>1. NoTx \in Tx
    BY DEF NoTx, Tx
  <2> QED
    BY <2>1 DEF Tx
<1>3. NoReply \in Reply
  BY DEF NoReply, Reply
<1> QED
  BY <1>1, <1>2, <1>3 DEF Start, Typed, TypeOK, UsersKnown, CallsKnown, Bound

\* A request that goes on with its transaction, having read a little more, and
\* writes nothing keeps the types.
LEMMA AdvanceTyped ==
    ASSUME Typed, NEW r \in Request, NEW x \in Tx,
           NEW stage \in {"resolved", "locked", "ready", "applied"},
           pc[r] # "idle", x.user \in User,
           stage = "applied" => call[r].op \in {"mutate", "read"},
           pc' = [pc EXCEPT ![r] = stage],
           tx' = [tx EXCEPT ![r] = x],
           UNCHANGED <<account, session, token, lock, call, reply>>
    PROVE  Typed'
<1>1. TypeOK'
  BY DEF Typed, TypeOK
<1>2. UsersKnown'
  BY DEF Typed, TypeOK, UsersKnown, Bound
<1>3. CallsKnown'
  BY DEF Typed, TypeOK, CallsKnown
<1> QED
  BY <1>1, <1>2, <1>3 DEF Typed

LEMMA ResolveTyped == ASSUME Typed, NEW r \in Request, Resolve(r) PROVE Typed'
<1>1. CASE Refuse(r)
  BY <1>1, RefuseTyped
<1>2. CASE ~Refuse(r)
  <2> DEFINE s == call[r].session
  <2>1. /\ session[s].state = "live"
        /\ pc' = [pc EXCEPT ![r] = "resolved"]
        /\ tx' = [tx EXCEPT ![r].user = session[s].user]
        /\ UNCHANGED <<account, session, token, lock, call, reply>>
        /\ pc[r] = "begun" /\ call[r].op \in Authenticated
    BY <1>2 DEF Resolve
  <2>2. s \in Session
    BY <2>1, CallAssumption
       DEF Typed, CallsKnown, Authenticated, Call, MutateCall, PlainCall,
           SecretCall, LoginCall, MailCall, ResetCall
  <2>3. session[s].user \in User
    BY <2>1, <2>2 DEF Typed, UsersKnown
  <2>4. [tx[r] EXCEPT !.user = session[s].user] \in Tx
    BY <2>3 DEF Typed, TypeOK, Tx
  <2>5. [tx[r] EXCEPT !.user = session[s].user].user = session[s].user
    BY DEF Typed, TypeOK, Tx
  <2> QED
    BY <2>1, <2>3, <2>4, <2>5, AdvanceTyped
<1> QED
  BY <1>1, <1>2

LEMMA LookUpTokenTyped ==
    ASSUME Typed, NEW r \in Request, LookUpToken(r) PROVE Typed'
<1>1. CASE Refuse(r)
  BY <1>1, RefuseTyped
<1>2. CASE ~Refuse(r)
  <2> DEFINE t == call[r].token
  <2>1. /\ token[t].state \in {"live", "expired"}
        /\ pc' = [pc EXCEPT ![r] = "resolved"]
        /\ tx' = [tx EXCEPT ![r].user = token[t].user]
        /\ UNCHANGED <<account, session, token, lock, call, reply>>
        /\ pc[r] = "begun" /\ call[r].op = "confirm"
    BY <1>2 DEF LookUpToken
  <2>2. t \in Token
    BY <2>1, CallAssumption
       DEF Typed, CallsKnown, Call, MutateCall, PlainCall, SecretCall,
           LoginCall, MailCall, ResetCall
  <2>3. token[t].user \in User
    BY <2>1, <2>2 DEF Typed, UsersKnown
  <2>4. [tx[r] EXCEPT !.user = token[t].user] \in Tx
    BY <2>3 DEF Typed, TypeOK, Tx
  <2>5. [tx[r] EXCEPT !.user = token[t].user].user = token[t].user
    BY DEF Typed, TypeOK, Tx
  <2> QED
    BY <2>1, <2>3, <2>4, <2>5, AdvanceTyped
<1> QED
  BY <1>1, <1>2

LEMMA TakeTyped ==
    ASSUME Typed, NEW r \in Request, NEW u \in User, Take(r, u)
    PROVE  /\ lock' \in [User -> Request \cup {None}]
           /\ tx' \in [Request -> Tx]
           /\ tx'[r] = [tx[r] EXCEPT !.user = u,
                                    !.password = account[u].password,
                                    !.revision = account[u].revision]
           /\ tx'[r].user = u /\ tx'[r].fresh = tx[r].fresh
           /\ \A q \in Request \ {r} : tx'[q] = tx[q]
<1> DEFINE new == [tx[r] EXCEPT !.user = u, !.password = account[u].password,
                                !.revision = account[u].revision]
<1>1. tx \in [Request -> Tx] /\ lock \in [User -> Request \cup {None}]
  BY DEF Typed, TypeOK
<1>2. account[u].password \in Nat /\ account[u].revision \in Nat
  BY DEF Typed, TypeOK, Account
<1>3. new \in Tx /\ new.user = u /\ new.fresh = tx[r].fresh
  BY <1>1, <1>2 DEF Tx
<1>4. tx' = [tx EXCEPT ![r] = new] /\ lock' = [lock EXCEPT ![u] = r]
  BY <1>1 DEF Take
<1> QED
  BY <1>1, <1>3, <1>4

LEMMA LockTyped == ASSUME Typed, NEW r \in Request, Lock(r) PROVE Typed'
<1>1. CASE Refuse(r)
  BY <1>1, RefuseTyped
<1>2. CASE ~Refuse(r)
  <2>1. PICK u \in User :
          /\ Take(r, u)
          /\ pc' \in {[pc EXCEPT ![r] = "locked"], [pc EXCEPT ![r] = "ready"]}
          /\ UNCHANGED <<account, session, token, call, reply>>
          /\ pc[r] \in {"resolved", "begun"}
    BY <1>2 DEF Lock, LockUser, LockByEmail, Typed, UsersKnown, Bound
  <2>2. /\ lock' \in [User -> Request \cup {None}]
        /\ tx' \in [Request -> Tx]
        /\ tx'[r].user = u
        /\ \A q \in Request \ {r} : tx'[q] = tx[q]
    BY <2>1, TakeTyped
  <2>3. /\ pc' \in [Request -> {"idle", "begun", "resolved", "locked",
                               "ready", "applied"}]
        /\ pc'[r] \in {"locked", "ready"}
        /\ \A q \in Request \ {r} : pc'[q] = pc[q]
    BY <2>1 DEF Typed, TypeOK
  <2>4. TypeOK'
    BY <2>1, <2>2, <2>3 DEF Typed, TypeOK
  <2>5. UsersKnown'
    BY <2>1, <2>2, <2>3 DEF Typed, UsersKnown, Bound
  <2>6. CallsKnown'
    BY <2>1, <2>3 DEF Typed, CallsKnown
  <2> QED
    BY <2>4, <2>5, <2>6 DEF Typed
<1> QED
  BY <1>1, <1>2

LEMMA RevalidateTyped ==
    ASSUME Typed, NEW r \in Request, Revalidate(r) PROVE Typed'
<1>1. CASE Refuse(r)
  BY <1>1, RefuseTyped
<1>2. CASE ~Refuse(r)
  BY <1>2 DEF Revalidate, Typed, TypeOK, UsersKnown, CallsKnown, Bound
<1> QED
  BY <1>1, <1>2

\* An answered request leaves the types of the tables it did not touch.
LEMMA AnswerTyped ==
    ASSUME Typed, NEW r \in Request, NEW a \in Reply, Answer(r, a),
           account' \in [User -> Account],
           session' \in [Session -> SessionRow],
           token' \in [Token -> TokenRow],
           \A s \in Session : session'[s].state \in {"live", "expired"} =>
             session'[s].user \in User,
           \A t \in Token : token'[t].state \in {"live", "expired"} =>
             token'[t].user \in User
    PROVE  Typed'
<1>1. End(r, a) /\ UNCHANGED call
  BY DEF Answer
<1> QED
  BY <1>1, EndTyped DEF Typed, TypeOK, UsersKnown, CallsKnown, Bound

LEMMA DoneTyped == ASSUME NEW u \in User PROVE Done(u) \in Reply
  BY DEF Done, NoReply, Reply

LEMMA ReadMutationTyped ==
    ASSUME Typed, NEW r \in Request, ReadMutation(r) PROVE Typed'
<1> DEFINE u == tx[r].user
<1>1. u \in User /\ pc[r] = "ready" /\ call[r].op = "mutate"
  BY DEF ReadMutation, Typed, UsersKnown, Bound
<1>2. account[u].journal \in Seq(Key) /\ account[u].processed \subseteq Mutation
  BY <1>1 DEF Typed, TypeOK, Account
<1>3. CASE Refuse(r)
  BY <1>3, RefuseTyped
<1>4. ASSUME NEW m \in Cached(u, call[r].key), Answer(r, Stored(r, m)),
             UNCHANGED <<account, session, token>>
      PROVE Typed'
  <2>1. Stored(r, m) \in Reply
    BY <1>1, <1>2, <1>4 DEF Stored, Cached, Mutation, Reply
  <2> QED
    BY <1>4, <2>1, AnswerTyped DEF Typed, TypeOK, UsersKnown
<1>5. ASSUME pc' = [pc EXCEPT ![r] = "applied"],
             tx' = [tx EXCEPT ![r].journal = account[u].journal],
             UNCHANGED <<account, session, token, lock, call, reply>>
      PROVE Typed'
  <2>1. [tx[r] EXCEPT !.journal = account[u].journal] \in Tx
    BY <1>2 DEF Typed, TypeOK, Tx
  <2>2. [tx[r] EXCEPT !.journal = account[u].journal].user = u
    BY DEF Typed, TypeOK, Tx
  <2> QED
    BY <1>1, <1>5, <2>1, <2>2, AdvanceTyped
<1> QED
  BY <1>3, <1>4, <1>5 DEF ReadMutation

LEMMA CommitMutationTyped ==
    ASSUME Typed, NEW r \in Request, CommitMutation(r) PROVE Typed'
<1> DEFINE u == tx[r].user
           n == NextRevision(r)
           a == [status |-> "ok", user |-> u, revision |-> n, seen |-> n]
<1>1. u \in User /\ n \in Nat /\ tx[r].journal \in Seq(Key)
  BY DEF CommitMutation, Typed, TypeOK, UsersKnown, Bound, Tx, NextRevision
<1>2. call[r].key \in Key /\ call[r].type \in MutationType
  BY CallAssumption
     DEF CommitMutation, Typed, CallsKnown, Call, MutateCall, PlainCall,
         SecretCall, LoginCall, MailCall, ResetCall
<1>3. Record(r) \in Mutation
  BY <1>1, <1>2 DEF Record, Mutation
<1>4. account' \in [User -> Account]
  <2>1. account'= [account EXCEPT ![u].revision = n,
                     ![u].journal = Append(tx[r].journal, call[r].key),
                     ![u].processed = @ \cup {Record(r)}]
    BY DEF CommitMutation
  <2>2. Append(tx[r].journal, call[r].key) \in Seq(Key)
    BY <1>1, <1>2
  <2>3. account \in [User -> Account]
    BY DEF Typed, TypeOK
  <2>4. account[u].processed \cup {Record(r)} \in SUBSET Mutation
    BY <1>1, <1>3, <2>3 DEF Account
  <2> DEFINE row == [account[u] EXCEPT
                       !.revision = n,
                       !.journal = Append(tx[r].journal, call[r].key),
                       !.processed = @ \cup {Record(r)}]
  <2>5. row \in Account
    BY <1>1, <2>2, <2>3, <2>4 DEF Account
  <2>6. account' = [account EXCEPT ![u] = row]
    BY <2>1, <2>3, <1>1
  <2> QED
    BY <2>3, <2>5, <2>6
<1>5. a \in Reply
  BY <1>1 DEF Reply
<1>6. Answer(r, a) /\ UNCHANGED <<session, token>>
  BY DEF CommitMutation
<1> QED
  BY <1>4, <1>5, <1>6, AnswerTyped DEF Typed, TypeOK, UsersKnown

LEMMA ReadTablesTyped ==
    ASSUME Typed, NEW r \in Request, ReadTables(r) PROVE Typed'
<1> DEFINE x == [tx[r] EXCEPT !.journal = account[tx[r].user].journal]
<1>1. tx[r].user \in User /\ tx[r] \in Tx
  BY DEF ReadTables, Typed, TypeOK, UsersKnown, Bound
<1>2. account[tx[r].user].journal \in Seq(Key)
  BY <1>1 DEF Typed, TypeOK, Account
<1>3. x \in Tx /\ x.user \in User
  BY <1>1, <1>2 DEF Tx
<1>4. tx' = [tx EXCEPT ![r] = x]
  BY DEF ReadTables
<1>5. /\ pc[r] # "idle" /\ pc' = [pc EXCEPT ![r] = "applied"]
      /\ call[r].op \in {"mutate", "read"}
      /\ UNCHANGED <<account, session, token, lock, call, reply>>
  BY DEF ReadTables
<1> HIDE DEF x
<1> QED
  BY <1>3, <1>4, <1>5, AdvanceTyped

LEMMA ReadStateTyped ==
    ASSUME Typed, NEW r \in Request, ReadState(r) PROVE Typed'
<1> DEFINE u == tx[r].user
<1>0. PICK shown \in {tx[r].journal, account[u].journal} :
        Answer(r, [status |-> "ok", user |-> u, revision |-> tx[r].revision,
                   seen |-> Len(shown)])
  BY DEF ReadState
<1> DEFINE a == [status |-> "ok", user |-> u, revision |-> tx[r].revision,
                 seen |-> Len(shown)]
<1>1. u \in User
  BY DEF ReadState, Typed, UsersKnown, Bound
<1>2. shown \in Seq(Key) /\ tx[r].revision \in Nat
  BY <1>1 DEF Typed, TypeOK, Account, Tx
<1>3. a \in Reply
  BY <1>1, <1>2 DEF Reply
<1>4. Answer(r, a) /\ UNCHANGED <<account, session, token>>
  BY <1>0 DEF ReadState
<1> QED
  BY <1>3, <1>4, AnswerTyped DEF Typed, TypeOK, UsersKnown

LEMMA RegisterTyped ==
    ASSUME Typed, NEW r \in Request, Register(r) PROVE Typed'
<1>1. CASE Refuse(r)
  BY <1>1, RefuseTyped
<1>2. CASE ~Refuse(r)
  <2> DEFINE e == call[r].email
  <2>1. PICK u \in User :
          /\ account' = [account EXCEPT ![u] = Fresh(e)]
          /\ NewSession(r, u, 1, session)
          /\ Answer(r, Done(u))
          /\ UNCHANGED token
    BY <1>2 DEF Register
  <2>2. e \in Email
    BY CallAssumption
       DEF Register, Typed, CallsKnown, Call, MutateCall, PlainCall,
           SecretCall, LoginCall, MailCall, ResetCall
  <2>3. Fresh(e) \in Account
    <3>1. Absent \in Account
      BY DEF Absent, Account
    <3> QED
      BY <2>2, <3>1 DEF Fresh, Account
  <2>4. account' \in [User -> Account]
    BY <2>1, <2>3 DEF Typed, TypeOK
  <2> QED
    BY <2>1, <2>4, DoneTyped, AnswerTyped, NewSessionTyped
       DEF Typed, TypeOK, UsersKnown
<1> QED
  BY <1>1, <1>2

LEMMA LoginTyped == ASSUME Typed, NEW r \in Request, Login(r) PROVE Typed'
<1> DEFINE u == tx[r].user
<1>1. u \in User /\ tx[r].password \in Nat
  BY DEF Login, Typed, TypeOK, UsersKnown, Bound, Tx
<1>2. CASE Refuse(r)
  BY <1>2, RefuseTyped
<1>3. CASE ~Refuse(r)
  <2>1. /\ NewSession(r, u, tx[r].password, session)
        /\ Answer(r, Done(u))
        /\ UNCHANGED <<account, token>>
    BY <1>3 DEF Login
  <2> QED
    BY <1>1, <2>1, DoneTyped, AnswerTyped, NewSessionTyped
       DEF Typed, TypeOK, UsersKnown
<1> QED
  BY <1>2, <1>3

LEMMA LogoutTyped == ASSUME Typed, NEW r \in Request, Logout(r) PROVE Typed'
<1> DEFINE s == call[r].session
<1>1. tx[r].user \in User
  BY DEF Logout, Typed, UsersKnown, Bound
<1>2. /\ session' = [session EXCEPT ![s].state = "revoked"]
      /\ Answer(r, Done(tx[r].user))
      /\ UNCHANGED <<account, token>>
  BY DEF Logout
<1> HIDE DEF s
<1>3. /\ session' \in [Session -> SessionRow]
      /\ \A q \in Session :
           \/ session'[q] = session[q]
           \/ session'[q].user = session[q].user /\ session'[q].state = "revoked"
  <2>1. session \in [Session -> SessionRow]
    BY DEF Typed, TypeOK
  <2>2. PICK row : row = [session[s] EXCEPT !.state = "revoked"]
    OBVIOUS
  <2>3. s \in Session =>
          row \in SessionRow /\ row.user = session[s].user /\ row.state = "revoked"
    BY <2>1, <2>2 DEF SessionRow
  <2>4. session' = [session EXCEPT ![s] = row]
    BY <1>2, <2>1, <2>2
  <2> QED BY <2>1, <2>3, <2>4
<1>4. \A q \in Session : session'[q].state \in {"live", "expired"} =>
        session'[q].user \in User
  BY <1>3 DEF Typed, UsersKnown
<1> QED
  BY <1>1, <1>2, <1>3, <1>4, DoneTyped, AnswerTyped DEF Typed, TypeOK, UsersKnown

LEMMA PasswordTyped ==
    ASSUME Typed, NEW u \in User, NEW n \in Nat
    PROVE  [account EXCEPT ![u].password = n] \in [User -> Account]
<1>1. account \in [User -> Account]
  BY DEF Typed, TypeOK
<1>2. [account[u] EXCEPT !.password = n] \in Account
  BY <1>1 DEF Account
<1> QED BY <1>1, <1>2

LEMMA ChangePasswordTyped ==
    ASSUME Typed, NEW r \in Request, ChangePassword(r) PROVE Typed'
<1> DEFINE u == tx[r].user
           n == tx[r].password + 1
<1>1. u \in User /\ n \in Nat
  BY DEF ChangePassword, Typed, TypeOK, UsersKnown, Bound, Tx
<1>2. CASE Refuse(r)
  BY <1>2, RefuseTyped
<1>3. CASE ~Refuse(r)
  <2>1. /\ account' = [account EXCEPT ![u].password = n]
        /\ token' = RevokeTokens(u)
        /\ NewSession(r, u, n, RevokeSessions(u))
        /\ Answer(r, Done(u))
    BY <1>3 DEF ChangePassword
  <2>2. account' \in [User -> Account]
    BY <1>1, <2>1, PasswordTyped
  <2>3. /\ session' \in [Session -> SessionRow]
        /\ \A s \in Session : session'[s].state \in {"live", "expired"} =>
             session'[s].user \in User
    BY <1>1, <2>1, RevokeTyped, NewSessionTyped
  <2> QED
    BY <1>1, <2>1, <2>2, <2>3, DoneTyped, AnswerTyped, RevokeTyped
<1> QED
  BY <1>2, <1>3

LEMMA DeleteAccountTyped ==
    ASSUME Typed, NEW r \in Request, DeleteAccount(r) PROVE Typed'
<1> DEFINE u == tx[r].user
           row == [Absent EXCEPT !.state = "deleted"]
<1>1. u \in User
  BY DEF DeleteAccount, Typed, UsersKnown, Bound
<1>2. CASE Refuse(r)
  BY <1>2, RefuseTyped
<1>3. CASE ~Refuse(r)
  <2>1. /\ account' = [account EXCEPT ![u] = row]
        /\ token' = RevokeTokens(u)
        /\ session' = RevokeSessions(u)
        /\ Answer(r, Done(u))
    BY <1>3 DEF DeleteAccount
  <2>2. row \in Account
    <3>1. Absent \in Account
      BY DEF Absent, Account
    <3> QED
      BY <3>1 DEF Account
  <2>3. account' \in [User -> Account]
    BY <1>1, <2>1, <2>2 DEF Typed, TypeOK
  <2> QED
    BY <1>1, <2>1, <2>3, DoneTyped, AnswerTyped, RevokeTyped
<1> QED
  BY <1>2, <1>3

LEMMA ConfirmResetTyped ==
    ASSUME Typed, NEW r \in Request, ConfirmReset(r) PROVE Typed'
<1> DEFINE u == tx[r].user
           n == tx[r].password + 1
<1>1. u \in User /\ n \in Nat
  BY DEF ConfirmReset, Typed, TypeOK, UsersKnown, Bound, Tx
<1>2. CASE Refuse(r)
  BY <1>2, RefuseTyped
<1>3. CASE ~Refuse(r)
  <2>1. /\ account' = [account EXCEPT ![u].password = n]
        /\ session' = RevokeSessions(u)
        /\ token' = RevokeTokens(u)
        /\ Answer(r, Done(u))
    BY <1>3 DEF ConfirmReset
  <2> QED
    BY <1>1, <2>1, PasswordTyped, DoneTyped, AnswerTyped, RevokeTyped
<1> QED
  BY <1>2, <1>3

LEMMA IssueResetTyped ==
    ASSUME Typed, NEW r \in Request, IssueReset(r) PROVE Typed'
<1> DEFINE u == tx[r].user
<1>1. u \in User /\ tx[r].password \in Nat
  BY DEF IssueReset, Typed, TypeOK, UsersKnown, Bound, Tx
<1>2. ASSUME NEW t \in Token
      PROVE  /\ token'[t] \in TokenRow
             /\ token'[t].state \in {"live", "expired"} => token'[t].user \in User
  <2>1. token[t] \in TokenRow
    BY DEF Typed, TypeOK
  <2>2. token[t].state \in {"live", "expired"} => token[t].user \in User
    BY DEF Typed, UsersKnown
  <2>3. CASE t = tx[r].fresh
    BY <1>1, <2>3 DEF IssueReset, TokenRow
  <2>4. CASE t # tx[r].fresh
    <3>1. \/ token'[t] = token[t]
          \/ token'[t] = [token[t] EXCEPT !.state = "revoked"]
      BY <2>4 DEF IssueReset
    <3> QED BY <2>1, <2>2, <3>1 DEF TokenRow
  <2> QED BY <2>3, <2>4
<1>4. token' = [t \in Token |-> token'[t]]
  BY DEF IssueReset
<1>3. Answer(r, Done(u)) /\ UNCHANGED <<account, session>>
  BY DEF IssueReset
<1>5. token' \in [Token -> TokenRow]
  BY <1>2, <1>4
<1> QED
  BY <1>1, <1>2, <1>3, <1>5, DoneTyped, AnswerTyped DEF Typed, TypeOK, UsersKnown

LEMMA ClockTyped ==
    ASSUME Typed,
           \/ \E s \in Session : SessionExpires(s)
           \/ \E t \in Token : TokenExpires(t) \/ Deliver(t) \/ MailLost(t)
    PROVE  Typed'
<1>1. CASE \E s \in Session : SessionExpires(s)
  BY <1>1 DEF SessionExpires, Typed, TypeOK, UsersKnown, CallsKnown, Bound,
              SessionRow
<1>2. ASSUME NEW t \in Token, TokenExpires(t) \/ Deliver(t) \/ MailLost(t)
      PROVE  Typed'
  <2>1. /\ token' \in [Token -> TokenRow]
        /\ \A q \in Token : /\ token'[q].user = token[q].user
                            /\ token'[q].state \in {"live", "expired"} =>
                                 token[q].state \in {"live", "expired"}
    BY <1>2 DEF TokenExpires, Deliver, MailLost, Typed, TypeOK, TokenRow
  <2>2. UNCHANGED <<account, session, lock, pc, call, tx, reply>>
    BY <1>2 DEF TokenExpires, Deliver, MailLost
  <2> QED
    BY <2>1, <2>2 DEF Typed, TypeOK, UsersKnown, CallsKnown, Bound
<1> QED
  BY <1>1, <1>2

\* Every step keeps the types, one lemma per action.
LEMMA TypedStep == Typed /\ [Next]_vars => Typed'
<1> SUFFICES ASSUME Typed, [Next]_vars PROVE Typed'
  OBVIOUS
<1>1. CASE UNCHANGED vars
  BY <1>1 DEF vars, Typed, TypeOK, UsersKnown, CallsKnown, Bound
<1>2. ASSUME NEW r \in Request,
             Start(r) \/ Lookup(r) \/ Lock(r) \/ Handle(r) \/ Abort(r)
      PROVE  Typed'
  <2>1. CASE Start(r) \/ Lock(r)
    BY <2>1, StartTyped, LockTyped
  <2>2. CASE Lookup(r)
    BY <2>2, ResolveTyped, LookUpTokenTyped, RegisterTyped DEF Lookup
  <2>3. CASE Abort(r) \/ FailMutation(r)
    BY <2>3, RefuseTyped DEF Abort, FailMutation
  <2>4. CASE Revalidate(r) \/ ReadMutation(r) \/ CommitMutation(r)
               \/ ReadTables(r) \/ ReadState(r)
    BY <2>4, RevalidateTyped, ReadMutationTyped, CommitMutationTyped,
       ReadTablesTyped, ReadStateTyped
  <2>5. CASE Login(r) \/ Logout(r) \/ ChangePassword(r) \/ DeleteAccount(r)
               \/ IssueReset(r) \/ ConfirmReset(r)
    BY <2>5, LoginTyped, LogoutTyped, ChangePasswordTyped, DeleteAccountTyped,
       IssueResetTyped, ConfirmResetTyped
  <2> QED
    BY <1>2, <2>1, <2>2, <2>3, <2>4, <2>5 DEF Handle
<1>3. CASE \/ \E s \in Session : SessionExpires(s)
           \/ \E t \in Token : TokenExpires(t) \/ Deliver(t) \/ MailLost(t)
  BY <1>3, ClockTyped
<1> QED
  BY <1>1, <1>2, <1>3 DEF Next

LEMMA TypedInit == Init => Typed
<1> SUFFICES ASSUME Init PROVE Typed
  OBVIOUS
<1>1. Absent \in Account
  BY DEF Absent, Account
<1>2. NoTx \in Tx
  BY DEF NoTx, Tx
<1>3. NoReply \in Reply
  BY DEF NoReply, Reply
<1> QED
  BY <1>1, <1>2, <1>3
     DEF Init, Typed, TypeOK, UsersKnown, CallsKnown, Bound, SessionRow, TokenRow

\* Every variable keeps its type, and every live credential and request past
\* its lookup names an account.
THEOREM TypeCorrect == Spec => []TypeOK
<1>1. Typed => TypeOK
  BY DEF Typed
<1> QED
  BY <1>1, TypedInit, TypedStep, PTL DEF Spec

-----------------------------------------------------------------------------
(* Isolation: what a request read under the account lock stays true until  *)
(* it ends.  This is what every promise below rests on.                    *)

Holds(r) == pc[r] \in {"locked", "ready", "applied"}

\* One holder per account.
LockHeld == \A r \in Request : Holds(r) => lock[tx[r].user] = r

\* The row as the holder read it is the row as it is.
SnapshotCurrent ==
    \A r \in Request : Holds(r) =>
      LET a == account[tx[r].user]
      IN  /\ a.state = "open"
          /\ tx[r].password = a.password
          /\ tx[r].revision = a.revision
          /\ pc[r] = "applied" => tx[r].journal = a.journal

Isolated == LockHeld /\ SnapshotCurrent

\* A request that ends disturbs no other holder, provided it wrote only the
\* account it held, or one that nobody can hold.
LEMMA EndIsolated ==
    ASSUME Typed, Isolated, NEW r \in Request, NEW a, End(r, a),
           \A v \in User : \/ account'[v] = account[v]
                          \/ ~Open(v)
                          \/ (Holds(r) /\ v = tx[r].user)
    PROVE  Isolated'
<1>1. /\ \A q \in Request \ {r} : pc'[q] = pc[q] /\ tx'[q] = tx[q]
      /\ ~Holds(r)'
  BY DEF End, Holds, Typed, TypeOK
<1>2. \A v \in User : lock[v] # r => lock'[v] = lock[v]
  BY DEF End
<1>3. \A q \in Request \ {r} : Holds(q) =>
        /\ tx[q].user \in User
        /\ lock'[tx[q].user] = q
        /\ account'[tx[q].user] = account[tx[q].user]
  <2> SUFFICES ASSUME NEW q \in Request \ {r}, Holds(q)
               PROVE  /\ tx[q].user \in User
                      /\ lock'[tx[q].user] = q
                      /\ account'[tx[q].user] = account[tx[q].user]
    OBVIOUS
  <2>1. tx[q].user \in User
    BY DEF Typed, UsersKnown, Bound, Holds
  <2>2. lock[tx[q].user] = q /\ Open(tx[q].user)
    BY DEF Isolated, LockHeld, SnapshotCurrent, Open
  <2>3. ~(Holds(r) /\ tx[q].user = tx[r].user)
    BY <2>2 DEF Isolated, LockHeld
  <2> QED
    BY <1>2, <2>1, <2>2, <2>3
<1>4. \A q \in Request : Holds(q)' =>
        q # r /\ Holds(q) /\ tx'[q] = tx[q] /\ pc'[q] = pc[q]
  BY <1>1 DEF Holds
<1>5. LockHeld'
  BY <1>3, <1>4 DEF LockHeld
<1>6. SnapshotCurrent'
  <2> SUFFICES ASSUME NEW q \in Request, Holds(q)'
               PROVE  LET b == account'[tx'[q].user]
                      IN  /\ b.state = "open"
                          /\ tx'[q].password = b.password
                          /\ tx'[q].revision = b.revision
                          /\ pc'[q] = "applied" => tx'[q].journal = b.journal
    BY DEF SnapshotCurrent
  <2>1. /\ Holds(q) /\ tx'[q] = tx[q] /\ pc'[q] = pc[q]
        /\ account'[tx[q].user] = account[tx[q].user]
    BY <1>3, <1>4
  <2> QED
    BY <2>1 DEF Isolated, SnapshotCurrent
<1> QED
  BY <1>5, <1>6 DEF Isolated

\* In particular a request that ends and wrote no account at all.
LEMMA ReadOnlyIsolated ==
    ASSUME Typed, Isolated, NEW r \in Request, NEW a, End(r, a),
           UNCHANGED account
    PROVE  Isolated'
<1>1. \A v \in User : \/ account'[v] = account[v]
                     \/ ~Open(v)
                     \/ (Holds(r) /\ v = tx[r].user)
  OBVIOUS
<1> QED
  BY <1>1, EndIsolated

LEMMA RefuseIsolated ==
    ASSUME Typed, Isolated, NEW r \in Request, Refuse(r) PROVE Isolated'
<1>1. End(r, NoReply) /\ UNCHANGED account
  BY DEF Refuse
<1> QED
  BY <1>1, ReadOnlyIsolated

\* A request that takes a free lock is its only holder.
LEMMA LockIsolated ==
    ASSUME Typed, Isolated, NEW r \in Request, Lock(r) PROVE Isolated'
<1>1. CASE Refuse(r)
  BY <1>1, RefuseIsolated
<1>2. CASE ~Refuse(r)
  <2>1. PICK u \in User :
          /\ Take(r, u) /\ Open(u)
          /\ pc' \in {[pc EXCEPT ![r] = "locked"], [pc EXCEPT ![r] = "ready"]}
          /\ UNCHANGED <<account, session, token, call, reply>>
          /\ pc[r] \in {"resolved", "begun"}
    BY <1>2 DEF Lock, LockUser, LockByEmail, Typed, UsersKnown, Bound
  <2>2. /\ tx'[r] = [tx[r] EXCEPT !.user = u,
                                 !.password = account[u].password,
                                 !.revision = account[u].revision]
        /\ \A q \in Request \ {r} : tx'[q] = tx[q]
    BY <2>1, TakeTyped
  <2>3. /\ tx'[r].user = u
        /\ tx'[r].password = account[u].password
        /\ tx'[r].revision = account[u].revision
    BY <2>2 DEF Typed, TypeOK, Tx
  <2>4. /\ pc'[r] \in {"locked", "ready"}
        /\ \A q \in Request \ {r} : pc'[q] = pc[q]
    BY <2>1 DEF Typed, TypeOK
  <2>5. /\ lock'[u] = r /\ lock[u] = None
        /\ \A v \in User \ {u} : lock'[v] = lock[v]
    BY <2>1 DEF Take, Typed, TypeOK
  <2>6. \A q \in Request \ {r} : Holds(q) => tx[q].user \in User \ {u}
    BY <2>5, NoneAssumption DEF Isolated, LockHeld, Typed, UsersKnown, Bound, Holds
  <2>7. \A q \in Request \ {r} : Holds(q)' =>
          Holds(q) /\ tx'[q] = tx[q] /\ pc'[q] = pc[q]
    BY <2>2, <2>4 DEF Holds
  <2>8. LockHeld'
    <3> SUFFICES ASSUME NEW q \in Request, Holds(q)'
                 PROVE  lock'[tx'[q].user] = q
      BY DEF LockHeld
    <3>1. CASE q = r
      BY <3>1, <2>3, <2>5
    <3>2. CASE q # r
      BY <3>2, <2>5, <2>6, <2>7 DEF Isolated, LockHeld
    <3> QED
      BY <3>1, <3>2
  <2>9. SnapshotCurrent'
    <3> SUFFICES ASSUME NEW q \in Request, Holds(q)'
                 PROVE  LET b == account'[tx'[q].user]
                        IN  /\ b.state = "open"
                            /\ tx'[q].password = b.password
                            /\ tx'[q].revision = b.revision
                            /\ pc'[q] = "applied" => tx'[q].journal = b.journal
      BY DEF SnapshotCurrent
    <3>1. CASE q = r
      BY <3>1, <2>1, <2>3, <2>4 DEF Open
    <3>2. CASE q # r
      BY <3>2, <2>1, <2>7 DEF Isolated, SnapshotCurrent
    <3> QED
      BY <3>1, <3>2
  <2> QED
    BY <2>8, <2>9 DEF Isolated
<1> QED
  BY <1>1, <1>2

\* A step of r that writes no account and no lock and leaves r without the
\* lock, or with what it had read.
LEMMA StepIsolated ==
    ASSUME Typed, Isolated, NEW r \in Request, UNCHANGED <<account, lock>>,
           \A q \in Request \ {r} : pc'[q] = pc[q] /\ tx'[q] = tx[q],
           Holds(r)' => /\ Holds(r)
                        /\ tx'[r].user = tx[r].user
                        /\ tx'[r].password = tx[r].password
                        /\ tx'[r].revision = tx[r].revision
                        /\ pc'[r] = "applied" =>
                             tx'[r].journal = account[tx[r].user].journal
    PROVE  Isolated'
<1>1. \A q \in Request : Holds(q)' => Holds(q) /\ tx'[q].user = tx[q].user
  BY DEF Holds
<1>2. LockHeld'
  BY <1>1 DEF Isolated, LockHeld
<1>3. SnapshotCurrent'
  <2> SUFFICES ASSUME NEW q \in Request, Holds(q)'
               PROVE  LET b == account'[tx'[q].user]
                      IN  /\ b.state = "open"
                          /\ tx'[q].password = b.password
                          /\ tx'[q].revision = b.revision
                          /\ pc'[q] = "applied" => tx'[q].journal = b.journal
    BY DEF SnapshotCurrent
  <2>1. CASE q = r
    BY <2>1 DEF Isolated, SnapshotCurrent
  <2>2. CASE q # r
    BY <2>2, <1>1 DEF Isolated, SnapshotCurrent
  <2> QED
    BY <2>1, <2>2
<1> QED
  BY <1>2, <1>3 DEF Isolated

\* Steps of one request that neither lock nor write.
LEMMA QuietIsolated ==
    ASSUME Typed, Isolated, NEW r \in Request,
           Start(r) \/ Resolve(r) \/ LookUpToken(r) \/ Revalidate(r)
             \/ ReadMutation(r) \/ ReadTables(r)
    PROVE  Isolated'
<1>1. CASE Refuse(r)
  BY <1>1, RefuseIsolated
<1>2. CASE Start(r)
  <2>1. /\ pc'[r] = "begun"
        /\ \A q \in Request \ {r} : pc'[q] = pc[q] /\ tx'[q] = tx[q]
        /\ UNCHANGED <<account, lock>>
    BY <1>2 DEF Start, Typed, TypeOK
  <2> QED
    BY <2>1, StepIsolated DEF Holds
<1>3. CASE ~Refuse(r) /\ (Resolve(r) \/ LookUpToken(r))
  <2>1. /\ pc'[r] = "resolved"
        /\ \A q \in Request \ {r} : pc'[q] = pc[q] /\ tx'[q] = tx[q]
        /\ UNCHANGED <<account, lock>>
    BY <1>3 DEF Resolve, LookUpToken, Typed, TypeOK
  <2> QED
    BY <2>1, StepIsolated DEF Holds
<1>4. CASE ~Refuse(r) /\ Revalidate(r)
  <2>1. /\ pc[r] = "locked" /\ pc' = [pc EXCEPT ![r] = "ready"]
        /\ UNCHANGED <<account, lock, tx>>
    BY <1>4 DEF Revalidate
  <2> QED
    BY <2>1, StepIsolated DEF Typed, TypeOK, Holds
<1>5. CASE ~Refuse(r) /\ (ReadMutation(r) \/ ReadTables(r))
  <2>1. CASE \E a : End(r, a) /\ UNCHANGED account
    BY <2>1, ReadOnlyIsolated
  <2>2. CASE /\ pc' = [pc EXCEPT ![r] = "applied"]
             /\ tx' = [tx EXCEPT ![r].journal = account[tx[r].user].journal]
             /\ UNCHANGED <<account, lock>>
    <3>1. pc[r] = "ready"
      BY <1>5 DEF ReadMutation, ReadTables
    <3>2. /\ tx'[r].user = tx[r].user
          /\ tx'[r].password = tx[r].password
          /\ tx'[r].revision = tx[r].revision
          /\ tx'[r].journal = account[tx[r].user].journal
          /\ \A q \in Request \ {r} : tx'[q] = tx[q]
      BY <2>2 DEF Typed, TypeOK, Tx
    <3>3. /\ pc'[r] = "applied"
          /\ \A q \in Request \ {r} : pc'[q] = pc[q]
      BY <2>2 DEF Typed, TypeOK
    <3> QED
      BY <2>2, <3>1, <3>2, <3>3, StepIsolated DEF Holds
  <2> QED
    BY <1>5, <2>1, <2>2 DEF ReadMutation, ReadTables, Answer
<1> QED
  BY <1>1, <1>2, <1>3, <1>4, <1>5

\* What the commits write: only the account of the holder, or a new one.
LEMMA CommitIsolated ==
    ASSUME Typed, Isolated, NEW r \in Request,
           CommitMutation(r) \/ ReadState(r) \/ Register(r) \/ Login(r)
             \/ Logout(r) \/ ChangePassword(r) \/ DeleteAccount(r)
             \/ IssueReset(r) \/ ConfirmReset(r)
    PROVE  Isolated'
<1>1. CASE Refuse(r)
  BY <1>1, RefuseIsolated
<1>2. CASE ~Refuse(r)
  <2> DEFINE u == tx[r].user
  <2>1. \E a : End(r, a)
    BY <1>2 DEF CommitMutation, ReadState, Register, Login, Logout,
                ChangePassword, DeleteAccount, IssueReset, ConfirmReset, Answer
  <2>2. \A v \in User : \/ account'[v] = account[v]
                       \/ ~Open(v)
                       \/ (Holds(r) /\ v = tx[r].user)
    <3>1. CASE Register(r)
      <4>1. PICK w \in User : /\ account[w].state = "absent"
                             /\ account' = [account EXCEPT ![w] =
                                                Fresh(call[r].email)]
        BY <1>2, <3>1 DEF Register
      <4> QED
        BY <4>1 DEF Open, Typed, TypeOK
    <3>2. CASE ReadState(r) \/ Login(r) \/ Logout(r) \/ IssueReset(r)
      BY <1>2, <3>2 DEF ReadState, Login, Logout, IssueReset
    <3>3. CASE CommitMutation(r)
      BY <3>3 DEF CommitMutation, Holds, Typed, TypeOK
    <3>4. CASE ChangePassword(r) \/ DeleteAccount(r) \/ ConfirmReset(r)
      BY <1>2, <3>4 DEF ChangePassword, DeleteAccount, ConfirmReset, Holds,
                        Typed, TypeOK
    <3> QED
      BY <3>1, <3>2, <3>3, <3>4
  <2> QED
    BY <2>1, <2>2, EndIsolated
<1> QED
  BY <1>1, <1>2

LEMMA IsolatedStep == Typed /\ Isolated /\ [Next]_vars => Isolated'
<1> SUFFICES ASSUME Typed, Isolated, [Next]_vars PROVE Isolated'
  OBVIOUS
<1>1. CASE UNCHANGED vars
  BY <1>1 DEF vars, Isolated, LockHeld, SnapshotCurrent, Holds
<1>2. ASSUME NEW r \in Request,
             Start(r) \/ Lookup(r) \/ Lock(r) \/ Handle(r) \/ Abort(r)
      PROVE  Isolated'
  BY <1>2, RefuseIsolated, LockIsolated, QuietIsolated, CommitIsolated
     DEF Lookup, Handle, Abort, FailMutation
<1>3. CASE \/ \E s \in Session : SessionExpires(s)
           \/ \E t \in Token : TokenExpires(t) \/ Deliver(t) \/ MailLost(t)
  BY <1>3 DEF SessionExpires, TokenExpires, Deliver, MailLost, Isolated,
              LockHeld, SnapshotCurrent, Holds
<1> QED
  BY <1>1, <1>2, <1>3 DEF Next

LEMMA IsolatedInit == Init => Isolated
  BY DEF Init, Isolated, LockHeld, SnapshotCurrent, Holds

\* A request that holds an account's lock acts on the account as it is: the
\* row it read under the lock cannot change until the request ends.
THEOREM SnapshotsHold == Spec => [](LockHeld /\ SnapshotCurrent)
<1>1. Isolated => LockHeld /\ SnapshotCurrent
  BY DEF Isolated
<1> QED
  BY <1>1, TypedInit, TypedStep, IsolatedInit, IsolatedStep, PTL DEF Spec

-----------------------------------------------------------------------------
(* Credentials.                                                            *)

SessionsMatch ==
    \A s \in Session : session[s].state \in {"live", "expired"} =>
      Open(session[s].user) /\ session[s].since = account[session[s].user].password

TokensMatch ==
    \A t \in Token : token[t].state \in {"live", "expired"} =>
      Open(token[t].user) /\ token[t].since = account[token[t].user].password

\* A new session issued under the present password joins sessions that match.
LEMMA NewSessionMatches ==
    ASSUME NEW r \in Request, NEW u \in User, NEW n \in Nat,
           NEW kept \in [Session -> SessionRow], NewSession(r, u, n, kept),
           account'[u].state = "open", account'[u].password = n,
           \A s \in Session : kept[s].state = "live" =>
             account'[kept[s].user].state = "open" /\ kept[s].since = account'[kept[s].user].password
    PROVE  SessionsMatch'
<1> SUFFICES ASSUME NEW s \in Session, session'[s].state \in {"live", "expired"}
             PROVE  /\ account'[session'[s].user].state = "open"
                    /\ session'[s].since = account'[session'[s].user].password
  BY DEF SessionsMatch, Open
<1>1. CASE s = tx[r].fresh
  BY <1>1 DEF NewSession
<1>2. CASE s # tx[r].fresh
  <2>1. kept[s].state = "live" /\ session'[s] = kept[s]
    BY <1>2 DEF NewSession, SessionRow
  <2> QED
    BY <2>1
<1> QED
  BY <1>1, <1>2

\* Once an account's credentials are revoked, the others match whatever became
\* of that account.
LEMMA RevokedMatch ==
    ASSUME Typed, SessionsMatch, TokensMatch, NEW u \in User,
           \A v \in User \ {u} : account'[v] = account[v]
    PROVE  /\ \A s \in Session :
                RevokeSessions(u)[s].state \in {"live", "expired"} =>
                  /\ account'[RevokeSessions(u)[s].user].state = "open"
                  /\ RevokeSessions(u)[s].since
                       = account'[RevokeSessions(u)[s].user].password
           /\ token' = RevokeTokens(u) => TokensMatch'
<1>1. ASSUME NEW s \in Session,
             RevokeSessions(u)[s].state \in {"live", "expired"}
      PROVE  /\ account'[RevokeSessions(u)[s].user].state = "open"
             /\ RevokeSessions(u)[s].since
                  = account'[RevokeSessions(u)[s].user].password
  <2>1. /\ RevokeSessions(u)[s] = session[s] /\ session[s].user # u
        /\ session[s].state \in {"live", "expired"}
    BY <1>1 DEF RevokeSessions, Typed, TypeOK, SessionRow
  <2>2. session[s].user \in User \ {u}
    BY <2>1 DEF Typed, UsersKnown
  <2> QED
    BY <2>1, <2>2 DEF SessionsMatch, Open
<1>2. ASSUME NEW t \in Token, RevokeTokens(u)[t].state \in {"live", "expired"}
      PROVE  /\ account'[RevokeTokens(u)[t].user].state = "open"
             /\ RevokeTokens(u)[t].since
                  = account'[RevokeTokens(u)[t].user].password
  <2>1. /\ RevokeTokens(u)[t] = token[t] /\ token[t].user # u
        /\ token[t].state \in {"live", "expired"}
    BY <1>2 DEF RevokeTokens, Typed, TypeOK, TokenRow
  <2>2. token[t].user \in User \ {u}
    BY <2>1 DEF Typed, UsersKnown
  <2> QED
    BY <2>1, <2>2 DEF TokensMatch, Open
<1> QED
  BY <1>1, <1>2 DEF TokensMatch, Open

\* Accounts that keep their state and password keep their credentials matched.
LEMMA SamePasswordsMatch ==
    ASSUME Typed, SessionsMatch, TokensMatch,
           \A v \in User : Open(v) => /\ account'[v].state = "open"
                                    /\ account'[v].password = account[v].password
    PROVE  /\ \A s \in Session : session[s].state \in {"live", "expired"} =>
                /\ account'[session[s].user].state = "open"
                /\ session[s].since = account'[session[s].user].password
           /\ UNCHANGED token => TokensMatch'
  BY DEF Typed, UsersKnown, SessionsMatch, TokensMatch, Open

LEMMA MatchStep ==
    ASSUME Typed, Isolated, SessionsMatch, TokensMatch, [Next]_vars
    PROVE  SessionsMatch' /\ TokensMatch'
<1>1. CASE UNCHANGED <<account, session, token>>
  BY <1>1 DEF SessionsMatch, TokensMatch, Open
<1> DEFINE HolderOf(r) == /\ tx[r].user \in User /\ Open(tx[r].user)
                          /\ tx[r].password = account[tx[r].user].password
                          /\ tx[r].password \in Nat
<1>2. \A r \in Request : Holds(r) => HolderOf(r)
  BY DEF Holds, Isolated, SnapshotCurrent, Typed, TypeOK, UsersKnown, Bound,
         Tx, Open
<1>3. session \in [Session -> SessionRow] /\ account \in [User -> Account]
  BY DEF Typed, TypeOK
<1>4. ASSUME NEW r \in Request, CommitMutation(r)
      PROVE  SessionsMatch' /\ TokensMatch'
  <2>1. \A v \in User : /\ account'[v].state = account[v].state
                       /\ account'[v].password = account[v].password
    BY <1>3, <1>4 DEF CommitMutation, Account
  <2>2. UNCHANGED <<session, token>>
    BY <1>4 DEF CommitMutation
  <2> QED
    BY <2>1, <2>2, SamePasswordsMatch DEF SessionsMatch, Open
<1>5. ASSUME NEW r \in Request, Register(r), ~Refuse(r)
      PROVE  SessionsMatch' /\ TokensMatch'
  <2>1. PICK u \in User : /\ account[u].state = "absent"
                         /\ account' = [account EXCEPT ![u] = Fresh(call[r].email)]
                         /\ NewSession(r, u, 1, session)
                         /\ UNCHANGED token
    BY <1>5 DEF Register
  <2>2. account'[u].state = "open" /\ account'[u].password = 1
    BY <2>1, <1>3 DEF Open, Fresh, Absent
  <2>3. \A v \in User : Open(v) => /\ account'[v].state = "open"
                                 /\ account'[v].password = account[v].password
    BY <2>1, <1>3 DEF Open
  <2> QED
    BY <1>3, <2>1, <2>2, <2>3, SamePasswordsMatch, NewSessionMatches
<1>6. ASSUME NEW r \in Request, Login(r), ~Refuse(r)
      PROVE  SessionsMatch' /\ TokensMatch'
  <2> DEFINE u == tx[r].user
  <2>1. /\ NewSession(r, u, tx[r].password, session)
        /\ UNCHANGED <<account, token>>
        /\ HolderOf(r)
    BY <1>2, <1>6 DEF Login, Holds
  <2>2. account'[u].state = "open" /\ account'[u].password = tx[r].password
    BY <2>1 DEF Open
  <2>3. \A v \in User : Open(v) => /\ account'[v].state = "open"
                                 /\ account'[v].password = account[v].password
    BY <2>1 DEF Open
  <2> QED
    BY <1>3, <2>1, <2>2, <2>3, SamePasswordsMatch, NewSessionMatches
<1>7. ASSUME NEW r \in Request, Logout(r)
      PROVE  SessionsMatch' /\ TokensMatch'
  BY <1>3, <1>7 DEF Logout, SessionsMatch, TokensMatch, Open, SessionRow
<1>8. ASSUME NEW r \in Request, ChangePassword(r), ~Refuse(r)
      PROVE  SessionsMatch' /\ TokensMatch'
  <2> DEFINE u == tx[r].user
             n == tx[r].password + 1
  <2>1. /\ account' = [account EXCEPT ![u].password = n]
        /\ token' = RevokeTokens(u)
        /\ NewSession(r, u, n, RevokeSessions(u))
        /\ HolderOf(r)
    BY <1>2, <1>8 DEF ChangePassword, Holds
  <2>2. /\ account'[u].state = "open" /\ account'[u].password = n
        /\ \A v \in User \ {u} : account'[v] = account[v]
    BY <1>3, <2>1 DEF Open, Account
  <2>3. RevokeSessions(u) \in [Session -> SessionRow]
    BY <2>1, RevokeTyped
  <2>4. u \in User /\ n \in Nat
    BY <2>1 DEF Typed, TypeOK, Tx, HolderOf
  <2> HIDE DEF u, n
  <2>5. /\ \A s \in Session :
             RevokeSessions(u)[s].state = "live" =>
               /\ account'[RevokeSessions(u)[s].user].state = "open"
               /\ RevokeSessions(u)[s].since
                    = account'[RevokeSessions(u)[s].user].password
        /\ TokensMatch'
    BY <2>1, <2>2, <2>4, RevokedMatch
  <2> QED
    BY <2>1, <2>2, <2>3, <2>4, <2>5, NewSessionMatches
<1>9. ASSUME NEW r \in Request, DeleteAccount(r) \/ ConfirmReset(r), ~Refuse(r)
      PROVE  SessionsMatch' /\ TokensMatch'
  <2> DEFINE u == tx[r].user
  <2>1. /\ \A v \in User \ {u} : account'[v] = account[v]
        /\ token' = RevokeTokens(u)
        /\ session' = RevokeSessions(u)
        /\ u \in User
    BY <1>2, <1>3, <1>9 DEF DeleteAccount, ConfirmReset, Holds
  <2> QED
    BY <2>1, RevokedMatch DEF SessionsMatch, Open
<1>10. ASSUME NEW r \in Request, IssueReset(r)
       PROVE  SessionsMatch' /\ TokensMatch'
  <2>1. HolderOf(r) /\ UNCHANGED <<account, session>>
    BY <1>2, <1>10 DEF IssueReset, Holds
  <2>2. \A t \in Token : token'[t].state \in {"live", "expired"} =>
          \/ token'[t] = token[t]
          \/ (token'[t].user = tx[r].user /\ token'[t].since = tx[r].password)
    BY <1>10 DEF IssueReset, Typed, TypeOK, TokenRow
  <2> QED
    BY <2>1, <2>2 DEF SessionsMatch, TokensMatch, Open
<1>11. CASE \/ \E s \in Session : SessionExpires(s)
            \/ \E t \in Token : TokenExpires(t) \/ Deliver(t) \/ MailLost(t)
  <2>1. UNCHANGED account
    BY <1>11 DEF SessionExpires, TokenExpires, Deliver, MailLost
  <2>2. \A s \in Session : session'[s].state \in {"live", "expired"} =>
          /\ session[s].state \in {"live", "expired"}
          /\ session'[s].user = session[s].user
          /\ session'[s].since = session[s].since
    BY <1>3, <1>11 DEF SessionExpires, TokenExpires, Deliver, MailLost, SessionRow
  <2>3. \A t \in Token : token'[t].state \in {"live", "expired"} =>
          /\ token[t].state \in {"live", "expired"}
          /\ token'[t].user = token[t].user
          /\ token'[t].since = token[t].since
    BY <1>11 DEF SessionExpires, TokenExpires, Deliver, MailLost, Typed, TypeOK,
                 TokenRow
  <2> QED
    BY <2>1, <2>2, <2>3 DEF SessionsMatch, TokensMatch, Open
<1>12. ASSUME NEW r \in Request,
              Start(r) \/ Lookup(r) \/ Lock(r) \/ Handle(r) \/ Abort(r)
       PROVE  \/ UNCHANGED <<account, session, token>>
              \/ CommitMutation(r) \/ Logout(r) \/ IssueReset(r)
              \/ (~Refuse(r) /\ (\/ Register(r) \/ Login(r) \/ ChangePassword(r)
                                \/ DeleteAccount(r) \/ ConfirmReset(r)))
  BY <1>12 DEF Start, Lookup, Lock, Handle, Abort, Refuse, Resolve, LookUpToken,
               LockUser, LockByEmail, Revalidate, ReadMutation, FailMutation,
               ReadTables, ReadState
<1> QED
  BY <1>1, <1>4, <1>5, <1>6, <1>7, <1>8, <1>9, <1>10, <1>11, <1>12
     DEF Next, vars

\* No session and no reset link outlives the password, or the account, under
\* which it was issued.
THEOREM CredentialsSafe == Spec => []CredentialsMatchPassword
<1>1. Init => SessionsMatch /\ TokensMatch
  BY DEF Init, SessionsMatch, TokensMatch
<1>2. Typed /\ Isolated /\ (SessionsMatch /\ TokensMatch) /\ [Next]_vars =>
        (SessionsMatch /\ TokensMatch)'
  BY MatchStep
<1>3. SessionsMatch /\ TokensMatch => CredentialsMatchPassword
  BY DEF SessionsMatch, TokensMatch, CredentialsMatchPassword
<1> QED
  BY <1>1, <1>2, <1>3, TypedInit, TypedStep, IsolatedInit, IsolatedStep, PTL
     DEF Spec

-----------------------------------------------------------------------------
(* Mutations.                                                              *)

\* The n-th mutation of the journal has revision n and one replay record.
Once(a) ==
    /\ a.revision = Len(a.journal)
    /\ \A m \in a.processed :
         m.revision \in 1 .. Len(a.journal) /\ a.journal[m.revision] = m.key
    /\ \A n \in 1 .. Len(a.journal) : \E m \in a.processed : m.revision = n
    /\ \A m, p \in a.processed : m.key = p.key => m = p

\* Appending a key that has no record, with its record, keeps the story.
LEMMA AppendOnce ==
    ASSUME NEW a \in Account, NEW b \in Account, Once(a),
           NEW m \in Mutation, \A p \in a.processed : p.key # m.key,
           b.journal = Append(a.journal, m.key),
           b.revision = a.revision + 1, m.revision = a.revision + 1,
           b.processed = a.processed \cup {m}
    PROVE  Once(b)
<1>1. /\ a.journal \in Seq(Key) /\ m.key \in Key
      /\ a.revision \in Nat /\ a.revision = Len(a.journal)
  BY DEF Account, Mutation, Once
<1>2. Len(b.journal) = Len(a.journal) + 1
  BY <1>1
<1>3. b.journal[Len(a.journal) + 1] = m.key
  BY <1>1
<1>4. \A n \in 1 .. Len(a.journal) : b.journal[n] = a.journal[n]
  BY <1>1
<1>5. \A p \in a.processed : p.revision \in 1 .. Len(a.journal)
                           /\ a.journal[p.revision] = p.key
  BY DEF Once
<1>6. \A p \in b.processed : p.revision \in 1 .. Len(b.journal)
                           /\ b.journal[p.revision] = p.key
  BY <1>1, <1>2, <1>3, <1>4, <1>5
<1>7. \A n \in 1 .. Len(b.journal) : \E p \in b.processed : p.revision = n
  <2> SUFFICES ASSUME NEW n \in 1 .. Len(b.journal)
               PROVE  \E p \in b.processed : p.revision = n
    OBVIOUS
  <2>1. CASE n = Len(a.journal) + 1
    BY <1>1, <2>1
  <2>2. CASE n # Len(a.journal) + 1
    <3>1. n \in 1 .. Len(a.journal)
      BY <1>1, <1>2, <2>2
    <3> QED
      BY <3>1 DEF Once
  <2> QED
    BY <2>1, <2>2
<1>8. \A p, q \in b.processed : p.key = q.key => p = q
  BY DEF Once
<1> QED
  BY <1>1, <1>2, <1>6, <1>7, <1>8 DEF Once

LEMMA ExactlyOnceStep ==
    ASSUME Typed, Isolated, ExactlyOnce, [Next]_vars
    PROVE  ExactlyOnce'
<1>1. account \in [User -> Account] /\ \A v \in User : Once(account[v])
  BY DEF Typed, TypeOK, ExactlyOnce, Once
<1>2. account' \in [User -> Account]
  BY TypedStep DEF Typed, TypeOK
<1>3. (\A v \in User : Once(account'[v])) => ExactlyOnce'
  BY DEF ExactlyOnce, Once
<1>4. CASE UNCHANGED account
  BY <1>1, <1>3, <1>4
<1>5. ASSUME NEW r \in Request, CommitMutation(r)
      PROVE  ExactlyOnce'
  <2> DEFINE u == tx[r].user
             a == account[u]
             b == account'[u]
  <2>1. u \in User /\ a \in Account /\ b \in Account
    BY <1>1, <1>2, <1>5 DEF CommitMutation, Typed, UsersKnown, Bound
  <2>2. tx[r].revision = a.revision /\ tx[r].journal = a.journal
    BY <1>5 DEF CommitMutation, Isolated, SnapshotCurrent, Holds
  <2>3. call[r].key \in Key /\ call[r].type \in MutationType
    BY <1>5, CallAssumption
       DEF CommitMutation, Typed, CallsKnown, Call, MutateCall, PlainCall,
           SecretCall, LoginCall, MailCall, ResetCall
  <2>4. /\ Record(r) \in Mutation
        /\ Record(r).key = call[r].key /\ Record(r).revision = a.revision + 1
    BY <2>1, <2>2, <2>3 DEF Record, NextRevision, Mutation, Account
  <2>5. /\ b.journal = Append(a.journal, call[r].key)
        /\ b.revision = a.revision + 1
        /\ b.processed = a.processed \cup {Record(r)}
        /\ \A v \in User \ {u} : account'[v] = account[v]
        /\ \A m \in a.processed : m.key # call[r].key
    BY <1>1, <1>5, <2>1, <2>2 DEF CommitMutation, NextRevision, Account
  <2>6. Once(b)
    <3> DEFINE m == Record(r)
    <3>1. /\ Once(a) /\ m \in Mutation
          /\ \A p \in a.processed : p.key # m.key
          /\ b.journal = Append(a.journal, m.key)
          /\ b.revision = a.revision + 1 /\ m.revision = a.revision + 1
          /\ b.processed = a.processed \cup {m}
      BY <1>1, <2>1, <2>4, <2>5
    <3> HIDE DEF a, b, m
    <3> QED
      BY <2>1, <3>1, AppendOnce
  <2> QED
    BY <1>1, <1>3, <2>5, <2>6
<1>6. ASSUME NEW r \in Request,
             \/ Register(r) \/ ChangePassword(r) \/ DeleteAccount(r)
             \/ ConfirmReset(r)
      PROVE  ExactlyOnce'
  <2>1. ASSUME NEW v \in User
        PROVE  \/ /\ account'[v].revision = account[v].revision
                  /\ account'[v].journal = account[v].journal
                  /\ account'[v].processed = account[v].processed
               \/ /\ account'[v].revision = 0
                  /\ account'[v].journal = <<>>
                  /\ account'[v].processed = {}
    <3>1. CASE UNCHANGED account
      BY <3>1
    <3>2. CASE \E w \in User : \E n : account' = [account EXCEPT ![w].password = n]
      BY <1>1, <3>2 DEF Account
    <3>3. CASE \E w \in User : \E e : account' = [account EXCEPT ![w] = Fresh(e)]
      BY <1>1, <3>3 DEF Fresh, Absent
    <3>4. CASE \E w \in User : account' =
                  [account EXCEPT ![w] = [Absent EXCEPT !.state = "deleted"]]
      BY <1>1, <3>4 DEF Absent
    <3>5. Bound(r) => tx[r].user \in User
      BY DEF Typed, UsersKnown
    <3> QED
      BY <1>6, <3>1, <3>2, <3>3, <3>4, <3>5
         DEF Register, ChangePassword, DeleteAccount, ConfirmReset, Refuse, Bound
  <2>2. \A v \in User : Once(account'[v])
    BY <1>1, <2>1 DEF Once
  <2> QED
    BY <1>3, <2>2
<1>7. ASSUME NEW r \in Request,
             Start(r) \/ Lookup(r) \/ Lock(r) \/ Handle(r) \/ Abort(r)
      PROVE  \/ UNCHANGED account
             \/ CommitMutation(r) \/ Register(r) \/ ChangePassword(r)
             \/ DeleteAccount(r) \/ ConfirmReset(r)
  BY <1>7 DEF Start, Lookup, Lock, Handle, Abort, Refuse, Resolve, LookUpToken,
              LockUser, LockByEmail, Revalidate, ReadMutation, FailMutation,
              ReadTables, ReadState, Login, Logout, IssueReset
<1>8. CASE \/ \E s \in Session : SessionExpires(s)
           \/ \E t \in Token : TokenExpires(t) \/ Deliver(t) \/ MailLost(t)
  BY <1>4, <1>8 DEF SessionExpires, TokenExpires, Deliver, MailLost
<1> QED
  BY <1>4, <1>5, <1>6, <1>7, <1>8 DEF Next, vars

\* Whatever the interleaving, the retries and the failures, an account's data,
\* revision and replay records agree and no key is applied twice.
THEOREM MutationsOnce == Spec => []ExactlyOnce
<1>1. Init => ExactlyOnce
  BY DEF Init, Absent, ExactlyOnce
<1>2. Typed /\ Isolated /\ ExactlyOnce /\ [Next]_vars => ExactlyOnce'
  BY ExactlyOnceStep
<1> QED
  BY <1>1, <1>2, TypedInit, TypedStep, IsolatedInit, IsolatedStep, PTL DEF Spec

-----------------------------------------------------------------------------
(* The expected revision.                                                  *)

\* A mutation that is being applied has passed its revision checks.
Checked ==
    \A r \in Request : pc[r] = "applied" /\ call[r].op = "mutate" =>
      ~Unguarded(call[r]) /\ ~Stale(r)

\* A step of one request leaves the others where they are.
LEMMA OthersStay ==
    ASSUME Typed, NEW r \in Request,
           Start(r) \/ Lookup(r) \/ Lock(r) \/ Handle(r) \/ Abort(r)
    PROVE  \A q \in Request \ {r} : /\ pc'[q] = pc[q] /\ tx'[q] = tx[q]
                                    /\ call'[q] = call[q] /\ reply'[q] = reply[q]
<1>1. CASE \E a : End(r, a) /\ (UNCHANGED call \/ call' = [call EXCEPT ![r] = None])
  BY <1>1 DEF End, Typed, TypeOK
<1>2. CASE Start(r)
  <2>1. PICK c, t : call' = [call EXCEPT ![r] = c] /\ tx' = [tx EXCEPT ![r] = t]
    BY <1>2 DEF Start
  <2> QED
    BY <1>2, <2>1 DEF Start, Typed, TypeOK
<1>3. CASE Lookup(r) \/ Lock(r)
  BY <1>1, <1>3 DEF Lookup, Lock, Resolve, LookUpToken, Register, LockUser,
                    LockByEmail, Take, Refuse, Answer, Typed, TypeOK
<1>4. CASE Revalidate(r) \/ ReadMutation(r) \/ ReadTables(r)
  BY <1>1, <1>4 DEF Revalidate, ReadMutation, ReadTables, Refuse, Answer, Typed,
                    TypeOK
<1>5. CASE Handle(r) /\ ~(Revalidate(r) \/ ReadMutation(r) \/ ReadTables(r))
  BY <1>1, <1>5 DEF Handle, CommitMutation, FailMutation, ReadState, Login,
       Logout, ChangePassword, DeleteAccount, IssueReset, ConfirmReset, Refuse,
       Answer
<1>6. CASE Abort(r)
  BY <1>1, <1>6 DEF Abort, Refuse
<1> QED
  BY <1>2, <1>3, <1>4, <1>5, <1>6

\* Only the check itself leads to the applied state.
LEMMA CheckedStep == Typed /\ Checked /\ [Next]_vars => Checked'
<1> SUFFICES ASSUME Typed, Checked, [Next]_vars PROVE Checked'
  OBVIOUS
<1>1. CASE UNCHANGED <<pc, call, tx>>
  BY <1>1 DEF Checked, Unguarded, Stale
<1>2. ASSUME NEW r \in Request,
             Start(r) \/ Lookup(r) \/ Lock(r) \/ Handle(r) \/ Abort(r)
      PROVE  Checked'
  <2>1. \A q \in Request \ {r} : /\ pc'[q] = pc[q] /\ tx'[q] = tx[q]
                                 /\ call'[q] = call[q]
    BY <1>2, OthersStay
  <2>2. pc'[r] = "applied" /\ call'[r].op = "mutate" =>
          (~Unguarded(call[r]) /\ ~Stale(r))'
    <3>1. CASE \E a : End(r, a)
      BY <3>1 DEF End, Typed, TypeOK
    <3>2. CASE ReadMutation(r) /\ ~(\E a : End(r, a))
      <4>1. /\ ~Unguarded(call[r]) /\ ~Stale(r)
            /\ tx' = [tx EXCEPT ![r].journal = account[tx[r].user].journal]
            /\ UNCHANGED call
        BY <3>2 DEF ReadMutation, Answer, Refuse
      <4>2. tx'[r].revision = tx[r].revision
        BY <4>1 DEF Typed, TypeOK, Tx
      <4> QED
        BY <4>1, <4>2 DEF Unguarded, Stale
    <3>3. CASE ~ReadMutation(r) /\ ~(\E a : End(r, a))
      BY <1>2, <3>3 DEF Start, Lookup, Lock, Handle, Abort, Resolve, LookUpToken,
           Register, LockUser, LockByEmail, Revalidate, CommitMutation,
           FailMutation, ReadTables, ReadState, Login, Logout, ChangePassword,
           DeleteAccount, IssueReset, ConfirmReset, Refuse, Answer, Typed, TypeOK
    <3> QED
      BY <3>1, <3>2, <3>3
  <2> QED
    BY <2>1, <2>2 DEF Checked, Unguarded, Stale
<1>3. CASE \/ \E s \in Session : SessionExpires(s)
           \/ \E t \in Token : TokenExpires(t) \/ Deliver(t) \/ MailLost(t)
  BY <1>1, <1>3 DEF SessionExpires, TokenExpires, Deliver, MailLost
<1> QED
  BY <1>1, <1>2, <1>3 DEF Next, vars

\* The step that answers an applied mutation with success is its commit.
LEMMA CommitIsTheAnswer ==
    ASSUME Typed, NEW r \in Request, [Next]_vars, pc[r] = "applied",
           call[r].op = "mutate", pc'[r] = "idle", reply'[r].status = "ok"
    PROVE  CommitMutation(r)
<1>1. CASE UNCHANGED pc
  BY <1>1
<1>2. ASSUME NEW q \in Request,
             Start(q) \/ Lookup(q) \/ Lock(q) \/ Handle(q) \/ Abort(q)
      PROVE  CommitMutation(r)
  <2>1. q = r
    BY <1>2, OthersStay
  <2>2. ~Refuse(r)
    BY DEF Refuse, End, NoReply, Typed, TypeOK
  <2> QED
    BY <1>2, <2>1, <2>2
       DEF Start, Lookup, Lock, Handle, Abort, Resolve, LookUpToken, Register,
           LockUser, LockByEmail, Revalidate, ReadMutation, FailMutation,
           ReadTables, ReadState, Login, Logout, ChangePassword, DeleteAccount, IssueReset,
           ConfirmReset
<1>3. CASE \/ \E s \in Session : SessionExpires(s)
           \/ \E t \in Token : TokenExpires(t) \/ Deliver(t) \/ MailLost(t)
  BY <1>1, <1>3 DEF SessionExpires, TokenExpires, Deliver, MailLost
<1> QED
  BY <1>1, <1>2, <1>3 DEF Next, vars

LEMMA AppliedStep ==
    ASSUME Typed, Isolated, ExactlyOnce, Checked, [Next]_vars,
           NEW r \in Request, NEW u \in User,
           pc[r] = "applied", call[r].op = "mutate",
           pc'[r] = "idle", reply'[r].status = "ok", tx[r].user = u
    PROVE  /\ call[r].expected = None => call[r].type \notin GuardedType
           /\ call[r].expected # None =>
                /\ Len(account[u].journal) = call[r].expected
                /\ account'[u].journal = Append(account[u].journal, call[r].key)
<1>1. CommitMutation(r)
  BY CommitIsTheAnswer
<1>2. tx[r].revision = account[u].revision /\ tx[r].journal = account[u].journal
  BY DEF Isolated, SnapshotCurrent, Holds
<1>3. account[u].revision = Len(account[u].journal)
  BY DEF ExactlyOnce
<1>4. account'[u].journal = Append(account[u].journal, call[r].key)
  BY <1>1, <1>2 DEF CommitMutation, Typed, TypeOK, Account
<1> QED
  BY <1>2, <1>3, <1>4 DEF Checked, Unguarded, Stale

\* A mutation with an expected revision lands on exactly that revision, and a
\* bulk stock edit always has one.
THEOREM AppliedWhereExpected == Spec => AppliedAtExpectedRevision
<1>1. Init => ExactlyOnce /\ Checked
  BY DEF Init, Absent, ExactlyOnce, Checked
<1>2. Typed /\ Isolated /\ ExactlyOnce /\ [Next]_vars => ExactlyOnce'
  BY ExactlyOnceStep
<1>3. Typed /\ Isolated /\ ExactlyOnce /\ Checked /\ [Next]_vars =>
        [\A r \in Request, u \in User :
           (/\ pc[r] = "applied" /\ call[r].op = "mutate"
            /\ pc'[r] = "idle" /\ reply'[r].status = "ok"
            /\ tx[r].user = u) =>
             /\ call[r].expected = None => call[r].type \notin GuardedType
             /\ call[r].expected # None =>
                  /\ Len(account[u].journal) = call[r].expected
                  /\ account'[u].journal = Append(account[u].journal, call[r].key)]_vars
  BY AppliedStep
<1> QED
  BY <1>1, <1>2, <1>3, TypedInit, TypedStep, IsolatedInit, IsolatedStep,
     CheckedStep, PTL DEF Spec, AppliedAtExpectedRevision

-----------------------------------------------------------------------------
(* Revocation.                                                             *)

\* What a request was given to issue is still nobody's.
FreshUnused ==
    /\ \A r \in Request : InFlight(r) /\ tx[r].fresh \in Session =>
         session[tx[r].fresh].state = "unissued"
    /\ \A q, r \in Request : InFlight(q) /\ InFlight(r) /\ tx[q].fresh = tx[r].fresh =>
         q = r \/ tx[r].fresh = None

\* A request that was authenticated acts for the owner of its session.
SignedIn ==
    \A r \in Request : Bound(r) /\ call[r].op \in Authenticated =>
      /\ session[call[r].session].state # "unissued"
      /\ session[call[r].session].user = tx[r].user

Signed == FreshUnused /\ SignedIn /\ RevokedStaysOut

\* The session of an authenticated call.
LEMMA CallSession ==
  ASSUME Typed, NEW r \in Request, InFlight(r), call[r].op \in Authenticated
  PROVE  call[r].session \in Session
  BY CallAssumption
     DEF Typed, CallsKnown, InFlight, Authenticated, Call, MutateCall, PlainCall,
         SecretCall, LoginCall, MailCall, ResetCall

\* What may become of the row of session s in a step of request r.
SessionMoves(r, s) ==
    \/ session'[s] = session[s]
    \/ InFlight(r) /\ s = tx[r].fresh
    \/ /\ session'[s].user = session[s].user
       /\ session[s].state # "unissued"
       /\ session'[s].state \in {"expired", "pruned"}
    \/ /\ session'[s].user = session[s].user
       /\ session[s].state # "unissued"
       /\ session'[s].state = "revoked"
       /\ Holds(r) /\ session[s].user = tx[r].user

\* A request writes the sessions table when it ends, and revokes only what
\* belongs to the account it holds.
LEMMA SessionsMove ==
  ASSUME Typed, Signed, NEW r \in Request,
         Start(r) \/ Lookup(r) \/ Lock(r) \/ Handle(r) \/ Abort(r)
  PROVE  /\ \A s \in Session : SessionMoves(r, s)
         /\ UNCHANGED session \/ pc'[r] = "idle"
<1>1. CASE UNCHANGED session
  BY <1>1 DEF SessionMoves
<1>2. ASSUME NEW u, NEW n, NewSession(r, u, n, session), InFlight(r)
      PROVE  \A s \in Session : SessionMoves(r, s)
  BY <1>2 DEF NewSession, SessionMoves, Typed, TypeOK, SessionRow
<1>3. ASSUME Holds(r), session' = RevokeSessions(tx[r].user)
      PROVE  \A s \in Session : SessionMoves(r, s)
  BY <1>3 DEF RevokeSessions, SessionMoves, Typed, TypeOK, SessionRow
<1>4. CASE Register(r) /\ ~Refuse(r)
  BY <1>2, <1>4 DEF Register, Answer, End, InFlight, Typed, TypeOK
<1>5. CASE Login(r) /\ ~Refuse(r)
  BY <1>2, <1>5 DEF Login, Answer, End, InFlight, Typed, TypeOK
<1>6. CASE (DeleteAccount(r) \/ ConfirmReset(r)) /\ ~Refuse(r)
  BY <1>3, <1>6 DEF DeleteAccount, ConfirmReset, Answer, End, Holds, Typed, TypeOK
<1>7. CASE ChangePassword(r) /\ ~Refuse(r)
  <2>1. /\ Holds(r) /\ InFlight(r) /\ pc'[r] = "idle"
        /\ NewSession(r, tx[r].user, tx[r].password + 1, RevokeSessions(tx[r].user))
    BY <1>7 DEF ChangePassword, Answer, End, Holds, InFlight, Typed, TypeOK
  <2> QED BY <2>1 DEF NewSession, RevokeSessions, SessionMoves, Typed, TypeOK, SessionRow
<1>8. CASE Logout(r)
  <2>1. /\ Holds(r) /\ Bound(r) /\ InFlight(r) /\ pc'[r] = "idle"
        /\ call[r].op \in Authenticated
        /\ session' = [session EXCEPT ![call[r].session].state = "revoked"]
    BY <1>8 DEF Logout, Answer, End, Holds, Bound, InFlight, Authenticated, Typed, TypeOK
  <2>2. /\ session[call[r].session].state # "unissued"
        /\ session[call[r].session].user = tx[r].user
    BY <2>1 DEF Signed, SignedIn
  <2> QED BY <2>1, <2>2 DEF SessionMoves, Typed, TypeOK, SessionRow
<1>9. UNCHANGED session \/ Logout(r)
        \/ (~Refuse(r) /\ (\/ Register(r) \/ Login(r) \/ ChangePassword(r)
                          \/ DeleteAccount(r) \/ ConfirmReset(r)))
  BY DEF Start, Lookup, Lock, Handle, Abort, Refuse, Resolve, LookUpToken,
         LockUser, LockByEmail, Revalidate, ReadMutation, CommitMutation,
         FailMutation, ReadTables, ReadState, IssueReset
<1> QED BY <1>1, <1>4, <1>5, <1>6, <1>7, <1>8, <1>9

\* Where a step takes the request that makes it.
LEMMA OwnProgress ==
  ASSUME Typed, NEW r \in Request,
         Start(r) \/ Lookup(r) \/ Lock(r) \/ Handle(r) \/ Abort(r), pc'[r] # "idle"
  PROVE  /\ UNCHANGED session
         /\ \/ Start(r) /\ pc'[r] = "begun"
            \/ /\ pc[r] # "idle" /\ call'[r] = call[r] /\ tx'[r].fresh = tx[r].fresh
               /\ \/ Resolve(r) /\ pc'[r] = "resolved"
                  \/ LookUpToken(r) /\ pc'[r] = "resolved"
                  \/ LockUser(r) /\ pc'[r] = "locked" /\ tx'[r].user = tx[r].user
                  \/ LockByEmail(r)
                  \/ Revalidate(r) /\ pc'[r] = "ready" /\ tx'[r].user = tx[r].user
                  \/ /\ ReadMutation(r) \/ ReadTables(r)
                     /\ pc'[r] = "applied" /\ tx'[r].user = tx[r].user
<1>1. ~Refuse(r) /\ \A a : ~Answer(r, a)
  BY DEF Refuse, Answer, End, Typed, TypeOK
<1>2. CASE Start(r)
  BY <1>2 DEF Start, Typed, TypeOK
<1>3. CASE Lookup(r)
  BY <1>1, <1>3 DEF Lookup, Resolve, LookUpToken, Register, Typed, TypeOK, Tx
<1>4. CASE LockUser(r)
  <2>1. /\ Take(r, tx[r].user) /\ pc[r] = "resolved"
        /\ UNCHANGED <<account, session, token, call, reply>>
        /\ pc' = [pc EXCEPT ![r] = "locked"]
    BY <1>1, <1>4 DEF LockUser
  <2>2. tx[r].user \in User
    BY <2>1 DEF Typed, UsersKnown, Bound
  <2>3. pc'[r] = "locked"
    BY <2>1 DEF Typed, TypeOK
  <2> QED BY <1>4, <2>1, <2>2, <2>3, TakeTyped
<1>5. CASE LockByEmail(r)
  <2>1. PICK u \in User : /\ Take(r, u) /\ pc[r] = "begun"
                          /\ UNCHANGED <<account, session, token, call, reply>>
    BY <1>1, <1>5 DEF LockByEmail
  <2>2. tx'[r].fresh = tx[r].fresh
    BY <2>1, TakeTyped
  <2> QED BY <1>5, <2>1, <2>2
<1>6. CASE Handle(r) \/ Abort(r)
  <2>1. Revalidate(r) \/ ReadMutation(r) \/ ReadTables(r)
    BY <1>1, <1>6 DEF Handle, Abort, CommitMutation, FailMutation, ReadState, Login,
         Logout, ChangePassword, DeleteAccount, IssueReset, ConfirmReset
  <2>2. CASE Revalidate(r)
    BY <1>1, <2>2 DEF Revalidate, Typed, TypeOK
  <2>3. CASE ReadMutation(r) \/ ReadTables(r)
    BY <1>1, <2>3 DEF ReadMutation, ReadTables, Typed, TypeOK, Tx
  <2> QED BY <2>1, <2>2, <2>3
<1> QED BY <1>2, <1>3, <1>4, <1>5, <1>6 DEF Lock

\* Drawn once, never used before.
LEMMA FreshStep ==
  ASSUME Typed, Isolated, Signed, [Next]_vars
  PROVE  FreshUnused'
<1>1. CASE UNCHANGED <<pc, tx>> /\ (UNCHANGED session \/ \E s \in Session : SessionExpires(s))
  BY <1>1 DEF Signed, FreshUnused, InFlight, SessionExpires, Typed, TypeOK, SessionRow
<1>2. ASSUME NEW r \in Request,
             Start(r) \/ Lookup(r) \/ Lock(r) \/ Handle(r) \/ Abort(r)
      PROVE  FreshUnused'
  <2>1. \A q \in Request \ {r} : pc'[q] = pc[q] /\ tx'[q] = tx[q]
    BY <1>2, OthersStay
  <2>2. ASSUME NEW q \in Request \ {r}, InFlight(q), tx[q].fresh \in Session
        PROVE  session'[tx[q].fresh].state = "unissued"
    <3>1. session[tx[q].fresh].state = "unissued" /\ tx[q].fresh # None
      BY <2>2, NoneAssumption DEF Signed, FreshUnused
    <3>2. SessionMoves(r, tx[q].fresh)
      BY <1>2, <2>2, SessionsMove
    <3>3. ~(InFlight(r) /\ tx[q].fresh = tx[r].fresh)
      BY <2>2, <3>1 DEF Signed, FreshUnused
    <3> QED BY <3>1, <3>2, <3>3 DEF SessionMoves
  <2>3. CASE pc'[r] = "idle"
    BY <2>1, <2>2, <2>3 DEF Signed, FreshUnused, InFlight
  <2>4. CASE pc'[r] # "idle" /\ Start(r)
    <3>1. UNCHANGED session
      BY <2>4 DEF Start
    <3>2. PICK f :
            /\ tx' = [tx EXCEPT ![r] = [NoTx EXCEPT !.fresh = f]]
            /\ f \in Unused \/ f = None
      BY <2>4 DEF Start
    <3>3. tx'[r].fresh = f
      BY <3>2 DEF Typed, TypeOK, NoTx
    <3>4. f \in Session => session[f].state = "unissued"
      BY <3>2, SecretAssumption, NoneAssumption DEF Unused
    <3>5. ASSUME NEW q \in Request \ {r}, InFlight(q), tx[q].fresh = f
          PROVE  f = None
      BY <3>2, <3>5 DEF Unused
    <3> QED BY <2>1, <3>1, <3>3, <3>4, <3>5 DEF Signed, FreshUnused, InFlight
  <2>5. CASE pc'[r] # "idle" /\ ~Start(r)
    <3>1. UNCHANGED session /\ pc[r] # "idle" /\ tx'[r].fresh = tx[r].fresh
      BY <1>2, <2>5, OwnProgress
    <3> QED BY <2>1, <3>1 DEF Signed, FreshUnused, InFlight
  <2> QED BY <2>3, <2>4, <2>5
<1>3. CASE \/ \E s \in Session : SessionExpires(s)
           \/ \E t \in Token : TokenExpires(t) \/ Deliver(t) \/ MailLost(t)
  BY <1>1, <1>3 DEF SessionExpires, TokenExpires, Deliver, MailLost
<1> QED BY <1>1, <1>2, <1>3 DEF Next, vars

\* A step of one request takes no session from another that holds its account.
LEMMA OthersSigned ==
  ASSUME Typed, Isolated, Signed, NEW r \in Request,
         Start(r) \/ Lookup(r) \/ Lock(r) \/ Handle(r) \/ Abort(r),
         NEW q \in Request \ {r}, Bound(q), call[q].op \in Authenticated
  PROVE  LET s == call[q].session
         IN  /\ session'[s].state # "unissued"
             /\ session'[s].user = tx[q].user
             /\ pc[q] \in {"ready", "applied"} => session'[s].state # "revoked"
<1> DEFINE s == call[q].session
<1>1. InFlight(q)
  BY DEF Bound, InFlight
<1>2. s \in Session
  BY <1>1, CallSession
<1>3. /\ session[s].state # "unissued" /\ session[s].user = tx[q].user
      /\ pc[q] \in {"ready", "applied"} => session[s].state # "revoked"
  BY DEF Signed, SignedIn, RevokedStaysOut
<1>4. SessionMoves(r, s)
  BY <1>2, SessionsMove
<1>5. ~(InFlight(r) /\ s = tx[r].fresh)
  BY <1>2, <1>3 DEF Signed, FreshUnused
<1>6. Holds(q) /\ Holds(r) => tx[q].user # tx[r].user
  BY DEF Isolated, LockHeld
<1> HIDE DEF s
<1>7. /\ session'[s].state # "unissued"
      /\ session'[s].user = tx[q].user
      /\ pc[q] \in {"ready", "applied"} => session'[s].state # "revoked"
  BY <1>3, <1>4, <1>5, <1>6 DEF SessionMoves, Holds
<1> QED BY <1>7 DEF s

\* A step of a request leaves itself signed in, or ends it.
LEMMA SelfSigned ==
  ASSUME Typed, Signed, NEW r \in Request,
         Start(r) \/ Lookup(r) \/ Lock(r) \/ Handle(r) \/ Abort(r),
         Bound(r)', call'[r].op \in Authenticated
  PROVE  LET s == call'[r].session
         IN  /\ session'[s].state # "unissued"
             /\ session'[s].user = tx'[r].user
             /\ pc'[r] \in {"ready", "applied"} => session'[s].state # "revoked"
<1>1. pc'[r] # "idle" /\ pc'[r] # "begun"
  BY DEF Bound
<1>2. UNCHANGED session /\ pc[r] # "idle" /\ call'[r] = call[r]
  BY <1>1, OwnProgress
<1>3. \/ Resolve(r) /\ pc'[r] = "resolved"
      \/ LookUpToken(r)
      \/ LockUser(r) /\ pc'[r] = "locked" /\ tx'[r].user = tx[r].user
      \/ LockByEmail(r)
      \/ Revalidate(r) /\ pc'[r] = "ready" /\ tx'[r].user = tx[r].user
      \/ /\ ReadMutation(r) \/ ReadTables(r)
         /\ pc'[r] = "applied" /\ tx'[r].user = tx[r].user
  BY <1>1, OwnProgress
<1>4. CASE Resolve(r) /\ pc'[r] = "resolved"
  <2>1. /\ session[call[r].session].state = "live"
        /\ tx' = [tx EXCEPT ![r].user = session[call[r].session].user]
    BY <1>4 DEF Resolve, Refuse, End, Typed, TypeOK
  <2>2. tx'[r].user = session[call[r].session].user
    BY <2>1 DEF Typed, TypeOK, Tx
  <2> QED BY <1>2, <1>4, <2>1, <2>2
<1>5. CASE LookUpToken(r) \/ LockByEmail(r)
  BY <1>2, <1>5 DEF LookUpToken, LockByEmail, Authenticated
<1>6. CASE LockUser(r) /\ pc'[r] = "locked" /\ tx'[r].user = tx[r].user
  <2>1. Bound(r)
    BY <1>6 DEF LockUser, Bound
  <2> QED BY <1>2, <1>6, <2>1 DEF Signed, SignedIn
<1>7. CASE Revalidate(r) /\ pc'[r] = "ready" /\ tx'[r].user = tx[r].user
  <2>1. Bound(r) /\ session[call[r].session].state = "live"
    BY <1>7 DEF Revalidate, Bound, Refuse, End, Typed, TypeOK
  <2> QED BY <1>2, <1>7, <2>1 DEF Signed, SignedIn
<1>8. CASE /\ ReadMutation(r) \/ ReadTables(r)
           /\ pc'[r] = "applied" /\ tx'[r].user = tx[r].user
  <2>1. Bound(r) /\ pc[r] = "ready"
    BY <1>8 DEF ReadMutation, ReadTables, Bound
  <2> QED BY <1>2, <1>8, <2>1 DEF Signed, SignedIn, RevokedStaysOut
<1> QED BY <1>3, <1>4, <1>5, <1>6, <1>7, <1>8

LEMMA SignedStep == Typed /\ Isolated /\ Signed /\ [Next]_vars => Signed'
<1> SUFFICES ASSUME Typed, Isolated, Signed, [Next]_vars PROVE Signed'
  OBVIOUS
<1>1. FreshUnused'
  BY FreshStep
<1>2. CASE UNCHANGED <<pc, tx, call>> /\ (UNCHANGED session \/ \E s \in Session : SessionExpires(s))
  <2>1. ASSUME NEW r \in Request, Bound(r), call[r].op \in Authenticated
        PROVE  /\ session'[call[r].session].state # "unissued"
               /\ session'[call[r].session].user = tx[r].user
               /\ pc[r] \in {"ready", "applied"} =>
                    session'[call[r].session].state # "revoked"
    <3>1. call[r].session \in Session
      BY <2>1, CallSession DEF Bound, InFlight
    <3> QED BY <1>2, <2>1, <3>1 DEF Signed, SignedIn, RevokedStaysOut, SessionExpires,
                                    Typed, TypeOK, SessionRow
  <2> QED BY <1>1, <1>2, <2>1 DEF Signed, SignedIn, RevokedStaysOut, Bound
<1>3. ASSUME NEW r \in Request,
             Start(r) \/ Lookup(r) \/ Lock(r) \/ Handle(r) \/ Abort(r)
      PROVE  Signed'
  <2>1. ASSUME NEW q \in Request, Bound(q)', call'[q].op \in Authenticated
        PROVE  /\ session'[call'[q].session].state # "unissued"
               /\ session'[call'[q].session].user = tx'[q].user
               /\ pc'[q] \in {"ready", "applied"} =>
                    session'[call'[q].session].state # "revoked"
    <3>1. CASE q = r
      BY <1>3, <2>1, <3>1, SelfSigned
    <3>2. CASE q # r
      <4>1. pc'[q] = pc[q] /\ tx'[q] = tx[q] /\ call'[q] = call[q]
        BY <1>3, <3>2, OthersStay
      <4>2. Bound(q) /\ call[q].op \in Authenticated
        BY <2>1, <4>1 DEF Bound
      <4> QED BY <1>3, <3>2, <4>1, <4>2, OthersSigned
    <3> QED BY <3>1, <3>2
  <2>2. SignedIn'
    BY <2>1 DEF SignedIn
  <2>3. RevokedStaysOut'
    <3>1. \A q \in Request : pc'[q] \in {"ready", "applied"} => Bound(q)'
      BY DEF Bound
    <3> QED BY <2>1, <3>1 DEF RevokedStaysOut
  <2> QED BY <1>1, <2>2, <2>3 DEF Signed
<1>4. CASE \/ \E s \in Session : SessionExpires(s)
           \/ \E t \in Token : TokenExpires(t) \/ Deliver(t) \/ MailLost(t)
  BY <1>2, <1>4 DEF SessionExpires, TokenExpires, Deliver, MailLost
<1> QED BY <1>2, <1>3, <1>4 DEF Next, vars

LEMMA SignedInit == Init => Signed
  BY DEF Init, Signed, FreshUnused, SignedIn, RevokedStaysOut, InFlight, Bound

\* No logout, password change, reset or deletion falls between the check of a
\* request's session under the lock and the end of the request
\* (dependencies.py:46-57).
THEOREM RevocationIsFinal == Spec => []RevokedStaysOut
<1>1. Signed => RevokedStaysOut
  BY DEF Signed
<1> QED
  BY <1>1, TypedInit, TypedStep, IsolatedInit, IsolatedStep, SignedInit, SignedStep,
     PTL DEF Spec

=============================================================================
