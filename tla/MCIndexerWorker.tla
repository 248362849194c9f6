--------------------------- MODULE MCIndexerWorker ---------------------------
(* The worker's loop, instantiated for TLC by the .cfg files. *)
EXTENDS IndexerWorker

Account == [url |-> "valid", category |-> "Account"]
User == [url |-> "valid", category |-> "User"]
Blank == [url |-> "invalid", category |-> "User"]
Unknown == [url |-> "valid", category |-> None]

\* As it should be; without a BaseUrl; with a key no manifest has; with two keys of one
\* manifest.
MCSiteLists == {<<Account, User>>, <<Account, Blank>>, <<Account, Unknown>>, <<Account, Account>>}

\* A site without BaseUrl in front of one that is as it should be.
MCBlankFirst == {<<Blank, Account>>}
=============================================================================
