SPECIFICATION FairSpec
CONSTANTS
  Accounts = {a1, a2}
  Initial = {a1}
  FirstAdmin = a1
  Requests = {r1, r2}
  NoAccount = NoAccount
  NoChange = NoChange
INVARIANT AdminRemains
PROPERTIES AdministrationGoesOn
CHECK_DEADLOCK FALSE
