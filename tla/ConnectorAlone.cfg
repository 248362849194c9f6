\* One caller at a time, as in the worker: two sites, every status code.
SPECIFICATION Spec
CONSTANTS
  Caller = {c1}
  Site = {s1, s2}
  Codes = {"OK", "MultiStatus", "Found", "Unauthorized", "NotFound", "BadRequest", "ServerError"}
  None = None
INVARIANTS TypeOK OwnOutcome
PROPERTIES CallSpec
