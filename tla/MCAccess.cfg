CONSTANTS
  k1 = k1
  k2 = k2
  q1 = q1
  q2 = q2
  t1 = t1
  t2 = t2
  Keys = {k1, k2}
  Seeded = {k1}
  NoKey = NoKey
  Roles = {"operator", "admin"}
  Expiries = {1}
  Requests = {q1, q2}
  Tokens = {t1, t2}
  Ttls = {0, 1, 2}
  MaxTime = 1
  MaxMishaps = 1
SPECIFICATION Spec
SYMMETRY Permutable
INVARIANT TypeOK
INVARIANT AdmittedIsEntitled
INVARIANT AnswersAreTrue
INVARIANT TokensAreGood
PROPERTY RevocationIsForever
PROPERTY UsesAreNotLost
CHECK_DEADLOCK FALSE
