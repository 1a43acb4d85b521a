SPECIFICATION Spec
CONSTANTS
    u1 = u1  u2 = u2  e1 = e1  s1 = s1  s2 = s2  s3 = s3
    t1 = t1  k1 = k1  k2 = k2  r1 = r1  r2 = r2
    edit = edit  bulk = bulk  None = None
    User = {u1}
    Email = {e1}
    Session = {s1, s2}
    Token = {}
    Key = {k1, k2}
    MutationType = {edit, bulk}
    GuardedType = {bulk}
    Request = {r1, r2}
    MaxRevision = 1
    MaxPassword = 1
    Calls <- KitchenCalls
SYMMETRY SlotsSessionsKeys
INVARIANTS TypeOK ExactlyOnce RepliesAreTrue
PROPERTIES AppliedAtExpectedRevision ImplementsLog
