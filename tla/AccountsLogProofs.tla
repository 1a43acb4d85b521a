------------------------- MODULE AccountsLogProofs -------------------------
(***************************************************************************)
(* What the clients of Accounts are told, for any number of users, keys    *)
(* and concurrent requests: answers are true, and together they are those  *)
(* of one atomic log per account, IdempotentLog.                           *)
(***************************************************************************)
EXTENDS AccountsProofs

-----------------------------------------------------------------------------
(* Replies.                                                                *)

\* What may become of an account: its data grow, or it begins or ends.
AccountMoves(v) ==
    \/ account[v].state = "absent" \/ account'[v].state = "deleted"
    \/ /\ account'[v].state = account[v].state
       /\ \/ account'[v].journal = account[v].journal
          \/ \E k \in Key : account'[v].journal = Append(account[v].journal, k)

\* Data are only appended to, as long as there is the account.
LEMMA AccountsMove ==
  ASSUME Typed, Isolated, [Next]_vars
  PROVE  \A v \in User : AccountMoves(v)
<1>1. CASE UNCHANGED account
  BY <1>1 DEF AccountMoves
<1>2. account \in [User -> Account]
  BY DEF Typed, TypeOK
<1>3. ASSUME NEW r \in Request, CommitMutation(r)
      PROVE  \A v \in User : AccountMoves(v)
  <2> DEFINE u == tx[r].user
  <2>1. u \in User /\ call[r].key \in Key
    BY <1>3, CallAssumption
       DEF CommitMutation, Typed, UsersKnown, Bound, CallsKnown, Call, MutateCall,
           PlainCall, SecretCall, LoginCall, MailCall, ResetCall
  <2>2. tx[r].journal = account[u].journal
    BY <1>3 DEF CommitMutation, Isolated, SnapshotCurrent, Holds
  <2>3. /\ account'[u].state = account[u].state
        /\ account'[u].journal = Append(account[u].journal, call[r].key)
        /\ \A v \in User \ {u} : account'[v] = account[v]
    BY <1>2, <1>3, <2>1, <2>2 DEF CommitMutation, Account
  <2> HIDE DEF u
  <2> QED BY <2>1, <2>3 DEF AccountMoves
<1>4. ASSUME NEW r \in Request, Register(r)
      PROVE  \A v \in User : AccountMoves(v)
  BY <1>1, <1>2, <1>4 DEF Register, Refuse, AccountMoves
<1>5. ASSUME NEW r \in Request, ChangePassword(r) \/ ConfirmReset(r)
      PROVE  \A v \in User : AccountMoves(v)
  <2>1. CASE \E w, n : account' = [account EXCEPT ![w].password = n]
    BY <1>2, <2>1 DEF AccountMoves, Account
  <2> QED BY <1>1, <1>5, <2>1 DEF ChangePassword, ConfirmReset, Refuse
<1>6. ASSUME NEW r \in Request, DeleteAccount(r)
      PROVE  \A v \in User : AccountMoves(v)
  <2>1. CASE \E w : account' = [account EXCEPT ![w] = [Absent EXCEPT !.state = "deleted"]]
    BY <1>2, <2>1 DEF AccountMoves, Absent
  <2> QED BY <1>1, <1>6, <2>1 DEF DeleteAccount, Refuse
<1>7. ASSUME NEW r \in Request,
             Start(r) \/ Lookup(r) \/ Lock(r) \/ Handle(r) \/ Abort(r)
      PROVE  \/ UNCHANGED account
             \/ CommitMutation(r) \/ Register(r) \/ ChangePassword(r)
             \/ DeleteAccount(r) \/ ConfirmReset(r)
  BY <1>7 DEF Start, Lookup, Lock, Handle, Abort, Refuse, Resolve, LookUpToken,
              LockUser, LockByEmail, Revalidate, ReadMutation, FailMutation,
              ReadTables, ReadState, Login, Logout, IssueReset
<1>8. CASE \/ \E s \in Session : SessionExpires(s)
           \/ \E t \in Token : TokenExpires(t) \/ Deliver(t) \/ MailLost(t)
  BY <1>1, <1>8 DEF SessionExpires, TokenExpires, Deliver, MailLost
<1> QED BY <1>1, <1>3, <1>4, <1>5, <1>6, <1>7, <1>8 DEF Next, vars

\* The place of a mutation in its account's data, while there is the account.
PlacedAt(u, n, k) ==
    /\ account[u].state # "absent"
    /\ Open(u) => /\ n \in 1 .. Len(account[u].journal)
                  /\ account[u].journal[n] = k

\* What an answer says is so.
TrueReply(r) ==
    pc[r] = "idle" /\ reply[r].status \in {"ok", "replay"} =>
      /\ call[r].op = "mutate" =>
           reply[r].user \in User /\ PlacedAt(reply[r].user, reply[r].revision, call[r].key)
      /\ call[r].op = "read" => reply[r].revision = reply[r].seen

TrueReplies == \A r \in Request : TrueReply(r)

\* A mutation keeps its place.
LEMMA PlaceKept ==
  ASSUME Typed, Isolated, [Next]_vars, NEW u \in User, NEW n, NEW k, PlacedAt(u, n, k)
  PROVE  PlacedAt(u, n, k)'
<1>1. AccountMoves(u)
  BY AccountsMove
<1>2. account[u].journal \in Seq(Key) /\ Typed'
  BY TypedStep DEF Typed, TypeOK, Account
<1>3. account'[u].state # "absent"
  BY <1>1 DEF AccountMoves, PlacedAt
<1>4. ASSUME account'[u].state = "open"
      PROVE  n \in 1 .. Len(account'[u].journal) /\ account'[u].journal[n] = k
  <2>1. n \in 1 .. Len(account[u].journal) /\ account[u].journal[n] = k
    BY <1>1, <1>4 DEF AccountMoves, PlacedAt, Open
  <2>2. CASE account'[u].journal = account[u].journal
    BY <2>1, <2>2
  <2>3. ASSUME NEW j \in Key, account'[u].journal = Append(account[u].journal, j)
        PROVE  n \in 1 .. Len(account'[u].journal) /\ account'[u].journal[n] = k
    BY <1>2, <2>1, <2>3
  <2> QED BY <1>1, <1>4, <2>2, <2>3 DEF AccountMoves, PlacedAt
<1> QED BY <1>3, <1>4 DEF PlacedAt, Open

\* The answer a request gives is true when it is given.
LEMMA AnswerTrue ==
  ASSUME Typed, Isolated, ExactlyOnce, TrueReplies, NEW r \in Request,
         Start(r) \/ Lookup(r) \/ Lock(r) \/ Handle(r) \/ Abort(r)
  PROVE  TrueReply(r)'
<1> SUFFICES ASSUME pc'[r] = "idle", reply'[r].status \in {"ok", "replay"}
             PROVE  TrueReply(r)'
  BY DEF TrueReply
<1>1. ~Refuse(r) /\ ~Start(r)
  BY DEF Refuse, End, Start, NoReply, Typed, TypeOK
<1> DEFINE u == tx[r].user
           a == account[u]
<1>2. Holds(r) => /\ u \in User /\ a \in Account /\ a.state = "open"
                  /\ tx[r].revision = a.revision /\ a.revision = Len(a.journal)
                  /\ pc[r] = "applied" => tx[r].journal = a.journal
  BY DEF Holds, Typed, TypeOK, UsersKnown, Bound, Isolated, SnapshotCurrent, ExactlyOnce
<1>3. CASE ReadMutation(r)
  <2>1. PICK m \in Cached(u, call[r].key) :
          Answer(r, Stored(r, m)) /\ UNCHANGED <<account, session, token>>
    BY <1>1, <1>3 DEF ReadMutation, Typed, TypeOK
  <2>2. Holds(r) /\ call'[r].key = call[r].key /\ call'[r].op = "mutate"
    BY <1>3, <2>1 DEF ReadMutation, Holds, Answer
  <2>3. reply'[r] = Stored(r, m)
    BY <2>1 DEF Answer, End, Typed, TypeOK
  <2>4. m.revision \in 1 .. Len(a.journal) /\ a.journal[m.revision] = call[r].key
    BY <1>2, <2>1, <2>2 DEF Cached, ExactlyOnce
  <2>5. reply'[r].user = u /\ reply'[r].revision = m.revision
    BY <2>3 DEF Stored
  <2> QED BY <1>2, <2>1, <2>2, <2>4, <2>5 DEF TrueReply, PlacedAt, Open
<1>4. CASE CommitMutation(r)
  <2>1. Holds(r) /\ call'[r] = call[r] /\ call[r].op = "mutate" /\ call[r].key \in Key
    BY <1>4, CallAssumption
       DEF CommitMutation, Holds, Answer, Typed, CallsKnown, Call, MutateCall,
           PlainCall, SecretCall, LoginCall, MailCall, ResetCall
  <2>2. /\ account'[u].state = "open"
        /\ account'[u].journal = Append(a.journal, call[r].key)
    BY <1>2, <1>4, <2>1 DEF CommitMutation, Typed, TypeOK, Account
  <2>3. reply'[r].user = u /\ reply'[r].revision = Len(a.journal) + 1
    BY <1>2, <1>4, <2>1 DEF CommitMutation, Answer, End, NextRevision, Typed, TypeOK
  <2>4. a.journal \in Seq(Key)
    BY <1>2, <2>1 DEF Account
  <2> HIDE DEF a
  <2>5. /\ reply'[r].revision \in 1 .. Len(account'[u].journal)
        /\ account'[u].journal[reply'[r].revision] = call[r].key
    BY <2>1, <2>2, <2>3, <2>4
  <2> QED BY <1>2, <2>1, <2>2, <2>3, <2>5 DEF TrueReply, PlacedAt, Open
<1>5. CASE ReadState(r)
  <2>0. PICK shown \in {tx[r].journal, a.journal} :
          Answer(r, [status |-> "ok", user |-> u, revision |-> tx[r].revision,
                     seen |-> Len(shown)])
    BY <1>5 DEF ReadState
  <2>1. Holds(r) /\ pc[r] = "applied" /\ call'[r].op = "read"
    BY <1>5 DEF ReadState, Holds, Answer
  <2>2. reply'[r].revision = reply'[r].seen
    BY <1>2, <2>0, <2>1 DEF Answer, End, Typed, TypeOK
  <2> QED BY <2>1, <2>2 DEF TrueReply
<1>6. CASE \/ Register(r) \/ Login(r) \/ Logout(r) \/ ChangePassword(r)
           \/ DeleteAccount(r) \/ IssueReset(r) \/ ConfirmReset(r)
  BY <1>1, <1>6 DEF Register, Login, Logout, ChangePassword, DeleteAccount,
                    IssueReset, ConfirmReset, Answer, TrueReply
<1>7. CASE \/ Resolve(r) \/ LookUpToken(r) \/ Lock(r) \/ Revalidate(r)
           \/ ReadTables(r)
  BY <1>1, <1>7 DEF Resolve, LookUpToken, Lock, LockUser, LockByEmail, Revalidate,
                    ReadTables, Typed, TypeOK
<1> QED BY <1>1, <1>3, <1>4, <1>5, <1>6, <1>7 DEF Lookup, Handle, Abort, FailMutation

\* No step makes an answer false that was true.
LEMMA RepliesStep ==
  ASSUME Typed, Isolated, ExactlyOnce, TrueReplies, [Next]_vars
  PROVE  TrueReplies'
<1>1. ASSUME NEW q \in Request, pc'[q] = pc[q], call'[q] = call[q], reply'[q] = reply[q]
      PROVE  TrueReply(q)'
  <2> SUFFICES ASSUME pc'[q] = "idle", reply'[q].status \in {"ok", "replay"}
               PROVE  TrueReply(q)'
    BY DEF TrueReply
  <2>1. TrueReply(q)
    BY DEF TrueReplies
  <2>2. ASSUME call[q].op = "mutate"
        PROVE  PlacedAt(reply[q].user, reply[q].revision, call[q].key)'
    <3>1. PICK n, k : n = reply[q].revision /\ k = call[q].key
      OBVIOUS
    <3>2. PICK u \in User : u = reply[q].user /\ PlacedAt(u, n, k)
      BY <1>1, <2>1, <2>2, <3>1 DEF TrueReply
    <3>3. PlacedAt(u, n, k)'
      BY <3>2, PlaceKept
    <3> QED BY <1>1, <3>1, <3>2, <3>3 DEF PlacedAt, Open
  <2> QED BY <1>1, <2>1, <2>2 DEF TrueReply, PlacedAt, Open
<1>2. CASE UNCHANGED <<pc, call, reply>>
  BY <1>1, <1>2 DEF TrueReplies
<1>3. ASSUME NEW r \in Request,
             Start(r) \/ Lookup(r) \/ Lock(r) \/ Handle(r) \/ Abort(r)
      PROVE  TrueReplies'
  BY <1>1, <1>3, AnswerTrue, OthersStay DEF TrueReplies
<1>4. CASE \/ \E s \in Session : SessionExpires(s)
           \/ \E t \in Token : TokenExpires(t) \/ Deliver(t) \/ MailLost(t)
  BY <1>2, <1>4 DEF SessionExpires, TokenExpires, Deliver, MailLost
<1> QED BY <1>2, <1>3, <1>4 DEF Next, vars

\* Whatever is retried, refused or interleaved, an answer names the revision at
\* which the client's own mutation is in the data, and a state shows what its
\* revision says (api.py:145-177, full_services.py:854-878).
THEOREM AnswersAreTrue == Spec => []RepliesAreTrue
<1>1. Init => ExactlyOnce /\ TrueReplies
  BY DEF Init, Absent, ExactlyOnce, TrueReplies, TrueReply, NoReply
<1>2. Typed /\ Isolated /\ ExactlyOnce /\ [Next]_vars => ExactlyOnce'
  BY ExactlyOnceStep
<1>3. Typed /\ Isolated /\ ExactlyOnce /\ TrueReplies /\ [Next]_vars => TrueReplies'
  BY RepliesStep
<1>4. TrueReplies => RepliesAreTrue
  BY DEF TrueReplies, TrueReply, RepliesAreTrue, PlacedAt
<1> QED
  BY <1>1, <1>2, <1>3, <1>4, TypedInit, TypedStep, IsolatedInit, IsolatedStep,
     PTL DEF Spec

-----------------------------------------------------------------------------
(* The log: every step is a step of IdempotentLog, or changes nothing that *)
(* it shows.                                                               *)

LogOf(u) == IF Open(u) THEN account[u].journal ELSE None
Answered(r) == /\ pc[r] = "idle" /\ reply[r].status # "none"
               /\ call[r].op \in {"mutate", "read"}
AnswerOf(r) == IF Answered(r) THEN reply[r].revision ELSE None

SameLogs == \A u \in User : LogOf(u)' = LogOf(u)
SameAnswers == \A r \in Request : AnswerOf(r)' = AnswerOf(r)
OnlyLog(u) == \A v \in User \ {u} : LogOf(v)' = LogOf(v)
OnlyAnswer(r) == \A q \in Request \ {r} : AnswerOf(q)' = AnswerOf(q)

\* How a step that shows this or that is a step of the log.
LEMMA ShownSame ==
  ASSUME SameLogs, SameAnswers
  PROVE  UNCHANGED Log!vars
  BY DEF SameLogs, SameAnswers, LogOf, AnswerOf, Answered, Log!vars

LEMMA ShownAsk ==
  ASSUME SameLogs, NEW r \in Request, OnlyAnswer(r), AnswerOf(r)' = None
  PROVE  Log!Ask(r)
  BY DEF SameLogs, OnlyAnswer, LogOf, AnswerOf, Answered, Log!Ask, Log!Position

LEMMA ShownRead ==
  ASSUME SameLogs, NEW r \in Request, OnlyAnswer(r), NEW u \in User,
         LogOf(u) # None, AnswerOf(r)' = Len(LogOf(u))
  PROVE  Log!Read(r, u)
  BY DEF SameLogs, OnlyAnswer, LogOf, AnswerOf, Answered, Log!Read, Log!Position

LEMMA ShownReplay ==
  ASSUME SameLogs, NEW r \in Request, OnlyAnswer(r), NEW u \in User, NEW k,
         LogOf(u) # None, NEW n \in DOMAIN LogOf(u), LogOf(u)[n] = k, AnswerOf(r)' = n
  PROVE  Log!Replay(r, u, k)
<1>1. Log!Position(r, n)
  BY DEF OnlyAnswer, AnswerOf, Answered, Log!Position
<1> QED
  BY <1>1 DEF SameLogs, LogOf, Log!Replay

LEMMA ShownApply ==
  ASSUME NEW u \in User, OnlyLog(u), NEW r \in Request, OnlyAnswer(r), NEW k,
         LogOf(u) # None, \A n \in DOMAIN LogOf(u) : LogOf(u)[n] # k,
         LogOf(u)' = Append(LogOf(u), k), AnswerOf(r)' = Len(LogOf(u)) + 1
  PROVE  Log!Apply(r, u, k)
  BY DEF OnlyLog, OnlyAnswer, LogOf, AnswerOf, Answered, Log!Apply, Log!Position

LEMMA ShownCreate ==
  ASSUME NEW u \in User, OnlyLog(u), SameAnswers, LogOf(u) = None, LogOf(u)' = <<>>
  PROVE  Log!Create(u)
  BY DEF OnlyLog, SameAnswers, LogOf, AnswerOf, Answered, Log!Create

LEMMA ShownErase ==
  ASSUME NEW u \in User, OnlyLog(u), SameAnswers, LogOf(u) # None, LogOf(u)' = None
  PROVE  Log!Erase(u)
  BY DEF OnlyLog, SameAnswers, LogOf, AnswerOf, Answered, Log!Erase

\* The log of an open account is there.
LEMMA LogThere ==
  ASSUME Typed, NEW u \in User
  PROVE  Open(u) => LogOf(u) = account[u].journal /\ LogOf(u) # None
  BY NoneAssumption DEF LogOf, Typed, TypeOK, Account

\* A request without an answer shows none.
LEMMA NotAnswered ==
  ASSUME NEW r
  PROVE  ~Answered(r) => AnswerOf(r) = None
  BY DEF AnswerOf

\* A step of one request answers no other.
LEMMA AnswersOthers ==
  ASSUME Typed, NEW r \in Request,
         Start(r) \/ Lookup(r) \/ Lock(r) \/ Handle(r) \/ Abort(r)
  PROVE  OnlyAnswer(r)
  BY OthersStay DEF OnlyAnswer, AnswerOf, Answered

\* A request that asks what the log does not show, or ends without an answer.
LEMMA SilentAnswer ==
  ASSUME Typed, NEW r \in Request,
         Start(r) \/ Lookup(r) \/ Lock(r) \/ Handle(r) \/ Abort(r),
         InFlight(r), ~Answered(r)'
  PROVE  SameAnswers
<1>1. AnswerOf(r) = None /\ AnswerOf(r)' = None
  BY DEF InFlight, Answered, AnswerOf
<1> QED BY <1>1, AnswersOthers DEF SameAnswers, OnlyAnswer

\* A commit applies its mutation, once.
LEMMA ShownMutation ==
  ASSUME Typed, Isolated, ExactlyOnce, NEW r \in Request, CommitMutation(r)
  PROVE  \E u \in User, k \in Key : Log!Apply(r, u, k)
<1>0. PICK u \in User, k \in Key : u = tx[r].user /\ k = call[r].key
  BY CallAssumption
     DEF CommitMutation, Typed, UsersKnown, Bound, CallsKnown, Call, MutateCall,
         PlainCall, SecretCall, LoginCall, MailCall, ResetCall
<1>1. /\ Open(u) /\ account[u] \in Account
      /\ tx[r].journal = account[u].journal
      /\ tx[r].revision = account[u].revision
      /\ account[u].revision = Len(account[u].journal)
  BY <1>0 DEF CommitMutation, Typed, TypeOK, Isolated, SnapshotCurrent, Holds, Open,
              ExactlyOnce
<1>2. /\ account'[u].state = "open"
      /\ account'[u].journal = Append(account[u].journal, k)
      /\ \A v \in User \ {u} : account'[v] = account[v]
  BY <1>0, <1>1 DEF CommitMutation, Typed, TypeOK, Account, Open
<1>3. /\ LogOf(u) = account[u].journal /\ LogOf(u) # None
      /\ LogOf(u)' = Append(account[u].journal, k)
      /\ OnlyLog(u)
  BY <1>1, <1>2, LogThere DEF LogOf, Open, OnlyLog
<1>4. AnswerOf(r)' = Len(account[u].journal) + 1
  <2>1. /\ pc'[r] = "idle" /\ call'[r].op = "mutate"
        /\ reply'[r] = [status |-> "ok", user |-> tx[r].user,
                        revision |-> NextRevision(r), seen |-> NextRevision(r)]
    BY DEF CommitMutation, Answer, End, Typed, TypeOK, CallsKnown
  <2>2. Answered(r)' /\ reply'[r].revision = NextRevision(r)
    BY <2>1 DEF Answered
  <2> QED BY <1>0, <1>1, <2>2 DEF AnswerOf, NextRevision
<1>5. \A n \in DOMAIN account[u].journal : account[u].journal[n] # k
  <2>1. DOMAIN account[u].journal = 1 .. Len(account[u].journal)
    BY <1>1 DEF Account
  <2>2. ASSUME NEW n \in 1 .. Len(account[u].journal)
        PROVE  account[u].journal[n] # k
    <3>1. PICK m \in account[u].processed : m.revision = n
      BY <1>1 DEF ExactlyOnce
    <3>2. account[u].journal[n] = m.key
      BY <1>1, <3>1 DEF ExactlyOnce
    <3> QED BY <1>0, <3>1, <3>2 DEF CommitMutation
  <2> QED BY <2>1, <2>2
<1>6. OnlyAnswer(r)
  BY AnswersOthers DEF Handle
<1>7. Log!Apply(r, u, k)
  BY <1>1, <1>3, <1>4, <1>5, <1>6, ShownApply
<1> QED BY <1>7

\* A lookup that finds the key repeats its place.
LEMMA ShownLookup ==
  ASSUME Typed, Isolated, ExactlyOnce, NEW r \in Request, ReadMutation(r)
  PROVE  UNCHANGED Log!vars \/ \E u \in User, k \in Key : Log!Replay(r, u, k)
<1> DEFINE u == tx[r].user
           k == call[r].key
<1>0. SameLogs /\ InFlight(r) /\ OnlyAnswer(r)
  BY AnswersOthers DEF ReadMutation, Refuse, SameLogs, LogOf, Open, InFlight, Handle
<1>1. CASE ~Answered(r)'
  BY <1>0, <1>1, SilentAnswer, ShownSame DEF Handle
<1>2. CASE Answered(r)'
  <2>1. PICK m \in Cached(u, k) : Answer(r, Stored(r, m))
    BY <1>2 DEF ReadMutation, Answered, Refuse, End, NoReply, Typed, TypeOK
  <2>2. /\ u \in User /\ Open(u) /\ account[u] \in Account
    BY DEF ReadMutation, Typed, TypeOK, UsersKnown, Bound, Isolated, SnapshotCurrent,
           Holds, Open
  <2>3. /\ m.revision \in 1 .. Len(account[u].journal)
        /\ account[u].journal[m.revision] = k /\ m.key \in Key /\ m.key = k
    BY <2>1, <2>2 DEF Cached, ExactlyOnce, Account, Mutation
  <2>4. AnswerOf(r)' = m.revision
    BY <1>2, <2>1 DEF AnswerOf, Answer, End, Stored, Typed, TypeOK
  <2>5. /\ LogOf(u) = account[u].journal /\ LogOf(u) # None
        /\ m.revision \in DOMAIN account[u].journal
    BY <2>2, <2>3, LogThere DEF Account
  <2> HIDE DEF u, k
  <2>6. Log!Replay(r, u, k)
    BY <1>0, <2>2, <2>3, <2>4, <2>5, ShownReplay
  <2> QED BY <2>2, <2>3, <2>6
<1> QED BY <1>1, <1>2

\* A state or an export shows the log at its length.
LEMMA ShownState ==
  ASSUME Typed, Isolated, ExactlyOnce, NEW r \in Request, ReadState(r)
  PROVE  \E u \in User : Log!Read(r, u)
<1> DEFINE u == tx[r].user
<1>1. /\ u \in User /\ Open(u) /\ tx[r].revision = Len(account[u].journal)
  BY DEF ReadState, Typed, UsersKnown, Bound, Isolated, SnapshotCurrent,
         Holds, Open, ExactlyOnce
<1>2. SameLogs /\ OnlyAnswer(r)
  BY AnswersOthers DEF ReadState, SameLogs, LogOf, Open, Handle
<1>3. AnswerOf(r)' = Len(account[u].journal)
  BY <1>1 DEF ReadState, Answer, End, AnswerOf, Answered, Typed, TypeOK
<1>4. LogOf(u) = account[u].journal /\ LogOf(u) # None
  BY <1>1, LogThere
<1> HIDE DEF u
<1> QED BY <1>1, <1>2, <1>3, <1>4, ShownRead

\* A registration, and the end of an account.
LEMMA ShownLife ==
  ASSUME Typed, Isolated, NEW r \in Request, Register(r) \/ DeleteAccount(r), ~Refuse(r)
  PROVE  \E u \in User : Log!Create(u) \/ Log!Erase(u)
<1>0. account \in [User -> Account]
  BY DEF Typed, TypeOK
<1>1. SameAnswers
  <2>1. InFlight(r) /\ ~Answered(r)'
    BY DEF Register, DeleteAccount, Answer, InFlight, Answered
  <2> QED BY <2>1, SilentAnswer DEF Lookup, Handle
<1>2. CASE Register(r)
  <2>1. PICK u \in User : /\ account[u].state = "absent"
                         /\ account' = [account EXCEPT ![u] = Fresh(call[r].email)]
    BY <1>2 DEF Register
  <2>2. /\ LogOf(u) = None /\ LogOf(u)' = <<>> /\ OnlyLog(u)
    BY <1>0, <2>1 DEF LogOf, Open, Fresh, Absent, OnlyLog
  <2> QED BY <1>1, <2>2, ShownCreate
<1>3. CASE DeleteAccount(r)
  <2>1. PICK u \in User :
          /\ Open(u)
          /\ account' = [account EXCEPT ![u] = [Absent EXCEPT !.state = "deleted"]]
    BY <1>3 DEF DeleteAccount, Typed, UsersKnown, Bound, Isolated, SnapshotCurrent,
                Holds, Open
  <2>2. LogOf(u) # None /\ LogOf(u)' = None /\ OnlyLog(u)
    BY <1>0, <2>1, LogThere DEF LogOf, Open, Absent, OnlyLog
  <2> QED BY <1>1, <2>1, <2>2, ShownErase
<1> QED BY <1>2, <1>3

\* Every other step of a request shows nothing.
LEMMA ShownSilent ==
  ASSUME Typed, Isolated, NEW r \in Request,
         \/ Refuse(r) /\ InFlight(r)
         \/ Resolve(r) \/ LookUpToken(r) \/ Lock(r) \/ Revalidate(r)
         \/ ReadTables(r) \/ Login(r) \/ Logout(r) \/ IssueReset(r)
         \/ ChangePassword(r) \/ ConfirmReset(r)
  PROVE  UNCHANGED Log!vars
<1>1. InFlight(r)
  BY DEF Resolve, LookUpToken, Lock, LockUser, LockByEmail, Revalidate, ReadTables,
         Login, Logout, IssueReset, ChangePassword, ConfirmReset, InFlight
<1>2. SameLogs
  <2>1. CASE UNCHANGED account
    BY <2>1 DEF SameLogs, LogOf, Open
  <2>2. CASE \E n : account' = [account EXCEPT ![tx[r].user].password = n]
    BY <2>2 DEF SameLogs, LogOf, Open, Typed, TypeOK, Account
  <2> QED BY <2>1, <2>2 DEF Refuse, Resolve, LookUpToken, Lock, LockUser, LockByEmail,
                            Revalidate, ReadTables, Login, Logout, IssueReset,
                            ChangePassword, ConfirmReset
<1>3. CASE Refuse(r)
  <2>1. ~Answered(r)'
    BY <1>3 DEF Refuse, End, Answered, NoReply, Typed, TypeOK
  <2>2. Abort(r)
    BY <1>1, <1>3 DEF Abort
  <2> QED BY <1>1, <1>2, <2>1, <2>2, SilentAnswer, ShownSame
<1>4. CASE ~Refuse(r)
  <2>1. ~Answered(r)'
    BY <1>4 DEF Answered, Resolve, LookUpToken, Lock, LockUser, LockByEmail, Revalidate,
                ReadTables, Login, Logout, IssueReset, ChangePassword, ConfirmReset, Answer,
                Typed, TypeOK
  <2>2. Lookup(r) \/ Lock(r) \/ Handle(r)
    BY <1>4 DEF Lookup, Handle
  <2> QED BY <1>1, <1>2, <2>1, <2>2, SilentAnswer, ShownSame
<1> QED BY <1>3, <1>4

\* Every step is one of the log, or shows nothing.
LEMMA LogStep ==
  ASSUME Typed, Isolated, ExactlyOnce, [Next]_vars
  PROVE  [Log!Next]_(Log!vars)
<1>1. CASE UNCHANGED <<account, pc, call, reply>>
  <2>1. SameLogs /\ SameAnswers
    BY <1>1 DEF SameLogs, SameAnswers, LogOf, AnswerOf, Answered, Open
  <2> QED BY <2>1, ShownSame
<1>2. ASSUME NEW r \in Request, Start(r)
      PROVE  Log!Next
  <2>1. SameLogs /\ OnlyAnswer(r)
    BY <1>2, AnswersOthers DEF Start, SameLogs, LogOf, Open
  <2>2. AnswerOf(r)' = None
    BY <1>2 DEF Start, AnswerOf, Answered, Typed, TypeOK
  <2>3. Log!Ask(r)
    BY <2>1, <2>2, ShownAsk
  <2> QED BY <2>3 DEF Log!Next
<1>3. ASSUME NEW r \in Request, Lookup(r) \/ Lock(r) \/ Handle(r) \/ Abort(r)
      PROVE  [Log!Next]_(Log!vars)
  <2>1. CASE CommitMutation(r)
    BY <2>1, ShownMutation DEF Log!Next
  <2>2. CASE ReadMutation(r)
    BY <2>2, ShownLookup DEF Log!Next
  <2>3. CASE ReadState(r)
    BY <2>3, ShownState DEF Log!Next
  <2>4. CASE (Register(r) \/ DeleteAccount(r)) /\ ~Refuse(r)
    BY <2>4, ShownLife DEF Log!Next
  <2>5. CASE \/ Refuse(r) /\ InFlight(r)
             \/ Resolve(r) \/ LookUpToken(r) \/ Lock(r) \/ Revalidate(r)
             \/ ReadTables(r) \/ Login(r) \/ Logout(r) \/ IssueReset(r)
             \/ ChangePassword(r) \/ ConfirmReset(r)
    BY <2>5, ShownSilent
  <2>6. (Register(r) \/ DeleteAccount(r) \/ FailMutation(r) \/ Abort(r)) => InFlight(r)
    BY DEF Register, DeleteAccount, FailMutation, Abort, InFlight
  <2> QED BY <1>3, <2>1, <2>2, <2>3, <2>4, <2>5, <2>6
          DEF Lookup, Handle, Abort, FailMutation
<1>4. CASE \/ \E s \in Session : SessionExpires(s)
           \/ \E t \in Token : TokenExpires(t) \/ Deliver(t) \/ MailLost(t)
  BY <1>1, <1>4 DEF SessionExpires, TokenExpires, Deliver, MailLost
<1> QED BY <1>1, <1>2, <1>3, <1>4 DEF Next, vars

LEMMA LogInit == Init => Log!Init
  BY DEF Init, Log!Init, Open, Absent, NoReply

\* The transactions, with their interleavings, failures and retries, are the
\* atomic log of IdempotentLog, for any number of devices and mutations
\* (api.py:120-177).
THEOREM LogImplemented == Spec => ImplementsLog
<1>1. Init => ExactlyOnce
  BY DEF Init, Absent, ExactlyOnce
<1>2. Typed /\ Isolated /\ ExactlyOnce /\ [Next]_vars => ExactlyOnce'
  BY ExactlyOnceStep
<1>3. Typed /\ Isolated /\ ExactlyOnce /\ [Next]_vars => [Log!Next]_(Log!vars)
  BY LogStep
<1> QED
  BY <1>1, <1>2, <1>3, LogInit, TypedInit, TypedStep, IsolatedInit, IsolatedStep,
     PTL DEF Spec, ImplementsLog, Log!Spec

=============================================================================
