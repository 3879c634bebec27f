SPECIFICATION FairSpec
CONSTANTS
  a = a  b = b  v1 = v1  e1 = e1  e2 = e2  s1 = s1  s2 = s2  o1 = o1  o2 = o2  o3 = o3
  f1 = f1  f2 = f2  k1 = k1  k2 = k2  x1 = x1  x2 = x2  lax = lax  strict = strict
  NoEnv = NoEnv  None = None
  Agents = {a, b}
  Envs = {v1}
  Execs = {e1, e2}
  m1 = m1  m2 = m2  m3 = m3
  Memories = {m1, m2, m3}
  Kinds = {k1, k2}
  Revisions <- MCRevisions
  Policies = {lax, strict}
  Fallback = lax
  Bundle <- MCBundle
  MemoryInputs <- MCMemoryInputs
  Registered <- MCRegistered
  StartInputs <- MCStartInputs
  Outcomes = {"SUCCESS", "FAILURE"}
  Callers = {s1, s2, o1, o2, o3, f1, f2}
  Bodies = {x1, x2}
  ListLimit = 1
  Fragile = {s1, o1, f1}
  Requests <- MCRequests
CHECK_DEADLOCK FALSE
INVARIANTS TypeOK AdmissionAuthority EventsContiguous FinishedAsRecorded
PROPERTIES ImplementsStore CompletionFinishes
