----------------------------- MODULE IndexerWorker -----------------------------
(***************************************************************************)
(* The loop of the indexer worker: WorkerRole.OnStart, Run and OnStop and  *)
(* IndexerService.Run, which goes through the configured sub sites and     *)
(* starts a pass (IndexPublication) for the category of each.              *)
(*                                                                         *)
(* IndexPublication assumes that two passes of one category start in       *)
(* different seconds; here is where that comes from.  The clock counts     *)
(* milliseconds, Scale of them to the second; only the place in the        *)
(* current second and the time left to wait are kept.                      *)
(*                                                                         *)
(* A definition whose name ends in Faulty... is a plausible mistake in the *)
(* definition that follows it.                                             *)
(***************************************************************************)
EXTENDS Integers, Sequences

CONSTANTS
  Category,     \* the categories that manifests have a resource to index for
  None,         \* no category
  SiteLists,    \* the lists of sub sites that may be configured
  DelaySettings,\* the values DelayTimeInSeconds may have (1800 when it is no number)
  Scale,        \* milliseconds in a second (1000)
  MaxInt        \* the largest int (2^31 - 1)

\* url: can a Uri be made of BaseUrl?  category: that of the one resource to index in the
\* manifest that the key selects; None if no manifest has the key.
Site == [url : {"valid", "invalid"}, category : Category \cup {None}]

ASSUME ConfigurationAssumption ==
  None \notin Category /\ SiteLists \subseteq Seq(Site) /\ DelaySettings \subseteq Int
ASSUME ScaleAssumption == Scale \in Nat \ {0} /\ MaxInt \in Nat

VARIABLES
  sites,      \* SubSiteConnectorSettings, in order
  delaySetting, \* DelayTimeInSeconds
  phase,      \* milliseconds into the current second
  recent,     \* history: the categories of which a pass started in the current second
  left,       \* milliseconds left to wait
  pc,         \* where the worker is
  site,       \* the number of the site being dealt with
  stop,       \* OnStop: not called, waiting for Run, or returned
  processed   \* history: the sites of which this run has started a pass

config == <<sites, delaySetting>>
vars == <<config, phase, recent, left, pc, site, stop, processed>>

PC == {"down", "loop", "site", "pass", "delay", "exited"}

TypeOK ==
  /\ sites \in SiteLists
  /\ delaySetting \in DelaySettings
  /\ phase \in 0 .. Scale - 1
  /\ recent \in SUBSET Category
  /\ left \in Nat
  /\ pc \in PC
  /\ site \in 0 .. Len(sites) + 1
  /\ stop \in {"no", "requested", "returned"}
  /\ processed \in SUBSET (1 .. Len(sites))
------------------------------------------------------------------------------
(* Helpers *)

\* What an int holds of n.
Wrap(n) == ((n + MaxInt + 1) % (2 * (MaxInt + 1))) - MaxInt - 1

\* configDelayTime * SecondsToMilliSeconds, unchecked
DelayTime == Wrap(delaySetting * Scale)

\* A pass can be started: making the Uri and reading the manifest do not throw.
Usable(i) == sites[i].url = "valid" /\ sites[i].category # None

\* The process is gone; it takes until the next second at least to start it again.
GoDown ==
  /\ pc' = "down"
  /\ left' = Scale - phase
  /\ stop' = "no"

\* A negative delay is waited for.
EndRun_FaultyNegative ==
  /\ site' = 0
  /\ pc' = "delay" /\ left' = DelayTime
  /\ UNCHANGED stop

\* The delay is taken for milliseconds.
EndRun_FaultyUnit ==
  /\ site' = 0
  /\ pc' = "delay" /\ left' = delaySetting
  /\ UNCHANGED stop

\* IndexerService.Run returns and Task.Delay is called; it throws on a negative delay, which
\* ends the role.  (-1, for ever, is no multiple of 1000 in 32 bits.)
EndRun ==
  /\ site' = 0
  /\ \/ /\ DelayTime >= 0
        /\ pc' = "delay" /\ left' = DelayTime
        /\ UNCHANGED stop
     \/ /\ DelayTime < 0
        /\ GoDown
------------------------------------------------------------------------------
(* The worker *)

Init ==
  /\ sites \in SiteLists /\ delaySetting \in DelaySettings
  /\ phase = 0 /\ recent = {} /\ left = 0
  /\ pc = "down" /\ site = 0 /\ stop = "no" /\ processed = {}

\* A millisecond passes.
Tick ==
  /\ phase' = (phase + 1) % Scale
  /\ recent' = IF phase' = 0 THEN {} ELSE recent
  /\ left' = IF left > 0 THEN left - 1 ELSE 0
  /\ UNCHANGED <<config, pc, site, stop, processed>>

OnStart ==
  /\ pc \in {"down", "exited"}
  /\ left = 0
  /\ pc' = "loop" /\ stop' = "no"
  /\ UNCHANGED <<config, phase, recent, left, site, processed>>

\* The first site is left out.
StartRun_FaultyFirst ==
  /\ pc = "loop"
  /\ stop = "no"
  /\ pc' = "site" /\ site' = 2 /\ processed' = {}
  /\ UNCHANGED <<config, phase, recent, left, stop>>

\* The cancellation is not looked at.
StartRun_FaultyAlways ==
  /\ pc = "loop"
  /\ pc' = "site" /\ site' = 1 /\ processed' = {}
  /\ UNCHANGED <<config, phase, recent, left, stop>>

\* while (!cancellationToken.IsCancellationRequested) await _indexer.Run()
StartRun ==
  /\ pc = "loop"
  /\ stop = "no"
  /\ pc' = "site" /\ site' = 1 /\ processed' = {}
  /\ UNCHANGED <<config, phase, recent, left, stop>>

\* Cancellation is seen: Run sets the event that OnStop waits for.
LeaveLoop ==
  /\ pc = "loop"
  /\ stop = "requested"
  /\ pc' = "exited" /\ stop' = "returned"
  /\ left' = Scale - phase
  /\ UNCHANGED <<config, phase, recent, site, processed>>

\* A site whose manifest has a resource to index: a pass starts.
ProcessResource ==
  /\ pc = "site"
  /\ site <= Len(sites) /\ Usable(site)
  /\ pc' = "pass"
  /\ recent' = recent \cup {sites[site].category}
  /\ processed' = processed \cup {site}
  /\ UNCHANGED <<config, phase, left, site, stop>>

\* The run returns after its first pass.
PassEnds_FaultyReturn ==
  /\ pc = "pass"
  /\ pc' = "site" /\ site' = Len(sites) + 1
  /\ UNCHANGED <<config, phase, recent, left, stop, processed>>

\* A pass never throws (IndexPublication!PassEnds).
PassEnds ==
  /\ pc = "pass"
  /\ pc' = "site" /\ site' = site + 1
  /\ UNCHANGED <<config, phase, recent, left, stop, processed>>

\* A site with no usable BaseUrl or no manifest: the exception ends the run.
RunFails ==
  /\ pc = "site"
  /\ site <= Len(sites) /\ ~Usable(site)
  /\ EndRun
  /\ UNCHANGED <<config, phase, recent, processed>>

RunEnds ==
  /\ pc = "site"
  /\ site > Len(sites)
  /\ EndRun
  /\ UNCHANGED <<config, phase, recent, processed>>

\* Task.Delay knows nothing of the cancellation.
DelayOver ==
  /\ pc = "delay"
  /\ left = 0
  /\ pc' = "loop"
  /\ UNCHANGED <<config, phase, recent, left, site, stop, processed>>

OnStop ==
  /\ pc \notin {"down", "exited"}
  /\ stop = "no"
  /\ stop' = "requested"
  /\ UNCHANGED <<config, phase, recent, left, pc, site, processed>>

Kill ==
  /\ pc \notin {"down", "exited"}
  /\ GoDown
  /\ site' = 0
  /\ UNCHANGED <<config, phase, recent, processed>>

Work == StartRun \/ LeaveLoop \/ ProcessResource \/ PassEnds \/ RunFails \/ RunEnds \/ DelayOver

Next == Tick \/ OnStart \/ Work \/ OnStop \/ Kill

Spec == Init /\ [][Next]_vars

\* Time passes, and a running worker goes on.
FairSpec == Spec /\ WF_vars(Tick) /\ WF_vars(Work)
------------------------------------------------------------------------------
(* Properties *)

\* The configuration the code relies on and does not check: a delay that is a second at
\* least, and no two sites that select the manifest of the same category.
Sound ==
  /\ DelayTime >= Scale
  /\ \A i, j \in 1 .. Len(sites) : Usable(i) /\ sites[i].category = sites[j].category => i = j

\* Under a sound configuration two passes of one category start in different seconds, so
\* their indices have different names.
DistinctSeconds ==
  [][Sound /\ pc # "pass" /\ pc' = "pass" => sites[site].category \notin recent]_vars

\* The sites in front of the first unusable one.
Reached == {i \in 1 .. Len(sites) : \A j \in 1 .. i : Usable(j)}

\* A run starts a pass for each of them, and for no other.
RunCovers == pc = "delay" => processed = Reached

\* What the log message at IndexerService.cs:68 says of a site without BaseUrl: it is left
\* out, and the run goes on with the others.
EveryUsableSiteIndexed == pc = "delay" => \A i \in 1 .. Len(sites) : Usable(i) => i \in processed

\* OnStop returns: Run ends its pass, the rest of the run and the whole delay, and then the
\* loop sees the cancellation.
StopReturns == stop = "requested" ~> stop # "requested"

\* How far the loop is from looking at the cancellation: the stages of a round that follow, and
\* what is still to come of this one, the passes of the run or milliseconds to wait.
StagesLeft == [site |-> 2, pass |-> 2, delay |-> 1, loop |-> 0]

ToCome ==
  CASE pc = "site" -> 2 * (Len(sites) - site) + 3
    [] pc = "pass" -> 2 * (Len(sites) - site) + 2
    [] pc = "delay" -> left
    [] pc = "loop" -> 0

\* Once OnStop waits, every step of the worker brings the end of its wait nearer, and no step
\* puts it off: no new run starts, and no delay is waited for twice.  Time that passes counts in
\* the delay only.
StopNearer ==
  [][stop = "requested" /\ stop' = "requested" =>
       \/ StagesLeft[pc'] < StagesLeft[pc]
       \/ StagesLeft[pc'] = StagesLeft[pc] /\ ToCome' \in 0 .. ToCome - 1
       \/ /\ UNCHANGED <<config, pc, site, processed>>
          /\ pc = "delay" => left = 0 /\ left' = 0]_vars

\* A worker that stays up starts a pass for every site it reaches again and again.
KeepsIndexing ==
  \A i \in 1 .. 2 :
    []<>(i \in Reached => pc = "pass" /\ site = i) \/ []<>(pc \in {"down", "exited"})
=============================================================================
