SPECIFICATION Spec
CONSTANTS
  a = a  b = b  v1 = v1  e1 = e1  e2 = e2  m1 = m1
  r1 = r1  r2 = r2  d1 = d1  c1 = c1  c2 = c2  c3 = c3  lax = lax  strict = strict
  NoEnv = NoEnv  None = None
  Declared = Declared  Unpaired = Unpaired  Unlisted = Unlisted  Unbound = Unbound
  Agents = {a, b}
  Envs = {v1}
  Execs = {e1, e2}
  Memories = {m1}
  Kinds = {}
  Revisions = {0, 1}
  Policies = {lax, strict}
  Fallback = lax
  Bundle <- MCBundle
  Recalls = {r1, r2}
  Decisions = {d1}
  Callers = {c1, c2, c3}
  ListLimit = 2
  InfluenceInputs <- MCInfluenceInputs
  MemoryInputs <- MCMemoryInputs
  StartInputs <- MCStartInputs
  Registered <- MCRegistered
  Outcomes = {"SUCCESS"}
SYMMETRY MCSymmetry
INVARIANTS TypeOK DecisionsCiteExposedState ExposureKeepsAgentsApart
  ComparisonsAreComplete AuditNeverAhead
PROPERTY ImplementsLedger
CHECK_DEADLOCK FALSE
