SPECIFICATION Spec
CONSTANTS
  None = None
  Families = {f1, f2}
  Versions = {v1, v2, v3, v4}
  Agents = {a1, a2}
  Contexts = {x1}
  Confidences = {60, 95}
  Slices = {s1}
  Grants = {g1}
  Evaluations = {e1, e2}
  Verdicts = {"STRENGTHEN", "INVALIDATE"}
  Executions = {y1}
  Submissions <- MCSubmissions
  Effects = {"retry_policy", "new_signer", "other"}
  SAFE_EFFECTS = {"retry_policy"}
  DENIED_EFFECTS = {"new_signer"}
  Callers = {c1, c2, c3}
  Fragile = {c1}
  Upserts = FALSE
SYMMETRY Symmetry
CHECK_DEADLOCK FALSE
INVARIANTS TypeOK GraphsLoad VersionsDescend VersionsAccounted InfluenceIsGrounded
PROPERTIES ImplementsHistory
