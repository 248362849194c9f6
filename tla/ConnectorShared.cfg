\* Two requests of the portal at a time.
SPECIFICATION Spec
CONSTANTS
  Caller = {c1, c2}
  Site = {s1}
  Codes = {"OK", "Unauthorized", "ServerError"}
  None = None
SYMMETRY Symmetry
INVARIANTS DownloadedOwn UploadedSince
