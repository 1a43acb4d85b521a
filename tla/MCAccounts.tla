----------------------------- MODULE MCAccounts -----------------------------
(***************************************************************************)
(* Small instances of Accounts: which calls the clients make in each run.  *)
(***************************************************************************)
EXTENDS Accounts, TLC

CONSTANTS u1, u2, e1, s1, s2, s3, t1, k1, k2, r1, r2, edit, bulk

\* Two devices of one account mutate, retry, read and log out.
KitchenCalls ==
    {c \in MutateCall : c.account = None}
       \cup {c \in PlainCall : c.account = None}
       \cup [op: {"register"}, email: Email]
       \cup [op: {"login"}, email: Email, password: {1}]

\* Sign-in, sign-out, password change, deletion and reset of two accounts that
\* have the same email one after the other.
AccessCalls ==
    [op: {"logout"}, session: Session, account: User \cup {None}]
       \cup [op: {"password", "delete"}, session: Session, account: {None},
             password: Password]
       \cup LoginCall \cup MailCall \cup ResetCall

\* Calls that wait for the lock in each of the three ways: by session, by
\* email and by reset token.
ServiceCalls ==
    [op: {"mutate"}, session: Session, account: {None}, key: {k1},
     type: {edit}, expected: {None}]
       \cup [op: {"delete"}, session: Session, account: {None}, password: {1}]
       \cup [op: {"login"}, email: Email, password: {1}]
       \cup MailCall \cup ResetCall

Slots == Permutations({r1, r2})
SlotsAndSessions == Permutations({r1, r2}) \cup Permutations({s1, s2, s3})
SlotsSessionsKeys ==
    Permutations({r1, r2}) \cup Permutations({s1, s2}) \cup Permutations({k1, k2})
=============================================================================
