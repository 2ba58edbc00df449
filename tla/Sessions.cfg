SPECIFICATION Spec
CONSTANTS
  Requests = {r1, r2}
  Tokens = {t1, t2, t3}
  Logins = {l1, l2}
  Keys = {k1}
  NoToken = NoToken
  NoLogin = NoLogin
  NoKey = NoKey
  MaxVersion = 2
  Faults = {"db"}
INVARIANTS RevokedStayOut SingleDescendant
PROPERTIES KeepsPromise
SYMMETRY Symmetry
CHECK_DEADLOCK FALSE
