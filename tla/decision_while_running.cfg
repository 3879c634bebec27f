SPECIFICATION RuntimeSpec
CONSTANTS
  a = a  b = b  v1 = v1  e1 = e1  e2 = e2  m1 = m1  r1 = r1  d1 = d1  s1 = s1  s2 = s2
  f1 = f1  f2 = f2  c1 = c1  c2 = c2  lesson = lesson  lax = lax  strict = strict
  NoEnv = NoEnv  None = None
  Declared = Declared  Unpaired = Unpaired  Unlisted = Unlisted  Unbound = Unbound
  Agents = {a, b}
  Envs = {v1}
  Execs = {e1, e2}
  Memories = {m1}
  Kinds = {lesson}
  Revisions <- MCRevisions
  Policies = {lax, strict}
  Fallback = lax
  Bundle <- MCBundle
  MemoryInputs <- MCMemoryInputs
  Registered <- MCRegistered
  StartInputs <- MCStartInputs
  Outcomes = {"SUCCESS"}
  Callers = {s1, s2, f1, f2}
  Requests <- MCRequests
  Bodies = {}
  Fragile = {f1}
  ListLimit = 2
  Recalls = {r1}
  Decisions = {d1}
  Deciders = {c1, c2}
  InfluenceInputs <- MCInfluenceInputs
CHECK_DEADLOCK FALSE
PROPERTY DecisionsWhileRunning
