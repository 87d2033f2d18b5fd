CONSTANTS
  Agents = {"finance"}
  Roles = {}
  Purposes = {"financing"}
  Consents = {}
  Calls = {c1}
  Hashes = {h1, h2}
  Snaps <- MCSnaps
  DecisionIds = {d1, d2}
  AuthIds = {a1, a2}
  Users = {u1, u2}
  Approvers = {u1}
  Tasks = {t1, t2}
  DecisionTTL = 2
  AuthTTL = 1
  MaxTime = 2
  None = None
SPECIFICATION Spec
INVARIANTS AuthGrounded SingleUse OneVerdict
PROPERTIES IssuedFromLiveDecision
SYMMETRY MCSymmetry
