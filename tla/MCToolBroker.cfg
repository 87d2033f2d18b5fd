CONSTANTS
  Agents = {"finance"}
  Roles = {}
  Purposes = {"financing"}
  Consents = {}
  hPay = hPay
  hWrite = hWrite
  hRead = hRead
  hOdd = hOdd
  key1 = key1
  Hashes = {hPay, hWrite, hRead, hOdd}
  Keys = {key1}
  KeyOf <- MCKeyOf
  SnapOf <- MCSnapOf
  Snaps <- MCSnaps
  Calls = {c1, c2}
  DecisionIds = {d1, d2}
  AuthIds = {a1, a2}
  Users = {u1}
  Approvers = {u1}
  Brokers = {k1, k2}
  Consoles = {j1}
  DecisionTTL = 1
  AuthTTL = 1
  MaxTime = 1
  None = None
SPECIFICATION Spec
INVARIANTS EffectAuthorized RejectedNeverRuns OutcomeHonest
PROPERTIES SettledStaysSettled
SYMMETRY MCSymmetry
CHECK_DEADLOCK FALSE
