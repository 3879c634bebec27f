SPECIFICATION Spec
CONSTANTS
  None = None
  Families = {f1}
  Versions = {v1, v2}
  Agents = {a1}
  Contexts = {x1}
  Confidences = {60, 95}
  Slices = {s1}
  Grants = {g1}
  Evaluations = {e1}
  Verdicts = {"STRENGTHEN", "INVALIDATE"}
  Executions = {y1}
  Submissions <- MCSubmissions
  Effects = {"retry_policy", "new_signer", "other"}
  SAFE_EFFECTS = {"retry_policy"}
  DENIED_EFFECTS = {"new_signer"}
  Callers = {c1}
  Fragile = {}
  Upserts = FALSE
CHECK_DEADLOCK FALSE
PROPERTIES SupersededNotRecalled
