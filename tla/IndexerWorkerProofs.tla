-------------------------- MODULE IndexerWorkerProofs --------------------------
(***************************************************************************)
(* Theorems about the worker's loop, for every list of sites, every delay, *)
(* every number of milliseconds to a second and every size of an int.      *)
(***************************************************************************)
EXTENDS IndexerWorker, TLAPS

\* The worker is between two runs, or down.
Waiting == {"down", "exited", "delay"}

\* Where the run is: it has started a pass for every site in front of the current one, all
\* of them usable, and for the current one while that pass goes on.
RunInv ==
  /\ pc \in {"site", "pass"} =>
       /\ site \in 1 .. Len(sites) + 1
       /\ \A i \in 1 .. site - 1 : Usable(i)
  /\ pc = "site" => processed = 1 .. site - 1
  /\ pc = "pass" => /\ site <= Len(sites) /\ Usable(site)
                    /\ processed = 1 .. site

\* Which passes started in the current second: those of this run, and none of an earlier
\* one, because the wait between two runs lasts into the next second.
SecondInv ==
  /\ pc \in Waiting => recent = {} \/ left >= Scale - phase
  /\ pc = "loop" => recent = {}
  /\ pc \in {"site", "pass"} => recent \subseteq {sites[i].category : i \in processed}

WorkerInv ==
  /\ TypeOK
  /\ RunInv
  /\ RunCovers
  /\ Sound => SecondInv
------------------------------------------------------------------------------
(* The parts of the code the invariant rests on *)

\* The delay is an int, and a list of sites has a length.
LEMMA ConfigurationType ==
  ASSUME TypeOK
  PROVE  /\ DelayTime \in Int
         /\ Len(sites) \in Nat
         /\ \A i \in 1 .. Len(sites) : sites[i] \in Site
<1>1. delaySetting * Scale \in Int
  BY ConfigurationAssumption, ScaleAssumption DEF TypeOK
<1>2. DelayTime \in Int
  BY <1>1, ScaleAssumption DEF DelayTime, Wrap
<1>3. sites \in Seq(Site)
  BY ConfigurationAssumption DEF TypeOK
<1> QED BY <1>2, <1>3

\* The clock stays within its second, and only turns to 0 at its end.
LEMMA ClockStep ==
  ASSUME TypeOK
  PROVE  (phase + 1) % Scale = IF phase = Scale - 1 THEN 0 ELSE phase + 1
BY ScaleAssumption DEF TypeOK

\* A run that stops at a site has started a pass for each site it reaches.
LEMMA RunStops ==
  ASSUME TypeOK, RunInv, pc = "site",
         site > Len(sites) \/ ~Usable(site)
  PROVE  processed = Reached
<1>1. Len(sites) \in Nat
  BY ConfigurationType
<1> QED BY <1>1 DEF RunInv, Reached, TypeOK
------------------------------------------------------------------------------
(* Types *)

LEMMA NextTypes == TypeOK /\ RunInv /\ [Next]_vars => TypeOK'
<1> SUFFICES ASSUME TypeOK, RunInv, [Next]_vars PROVE TypeOK'
    OBVIOUS
<1>0. /\ DelayTime \in Int
      /\ Len(sites) \in Nat
      /\ \A i \in 1 .. Len(sites) : sites[i] \in Site
  BY ConfigurationType
<1> USE <1>0, ScaleAssumption DEF TypeOK, PC, config
<1>1. CASE Tick BY <1>1, ClockStep DEF Tick
<1>2. CASE OnStart BY <1>2 DEF OnStart
<1>3. CASE StartRun BY <1>3 DEF StartRun
<1>4. CASE LeaveLoop BY <1>4 DEF LeaveLoop
<1>5. CASE ProcessResource BY <1>5 DEF ProcessResource, RunInv, Usable, Site
<1>6. CASE PassEnds BY <1>6 DEF PassEnds, RunInv
<1>7. CASE RunFails BY <1>7 DEF RunFails, EndRun, GoDown
<1>8. CASE RunEnds BY <1>8 DEF RunEnds, EndRun, GoDown
<1>9. CASE DelayOver BY <1>9 DEF DelayOver
<1>10. CASE OnStop BY <1>10 DEF OnStop
<1>11. CASE Kill BY <1>11 DEF Kill, GoDown
<1>12. CASE UNCHANGED vars BY <1>12 DEF vars
<1> QED
  BY <1>1, <1>2, <1>3, <1>4, <1>5, <1>6, <1>7, <1>8, <1>9, <1>10, <1>11, <1>12
  DEF Next, Work

\* Where the run is, step by step.
LEMMA NextRunInv == TypeOK /\ RunInv /\ [Next]_vars => RunInv'
<1> SUFFICES ASSUME TypeOK, RunInv, [Next]_vars PROVE RunInv'
    OBVIOUS
<1>0. Len(sites) \in Nat
  BY ConfigurationType
<1> USE <1>0 DEF TypeOK, RunInv, config, Usable
<1>1. CASE Tick BY <1>1 DEF Tick
<1>2. CASE OnStart BY <1>2 DEF OnStart
<1>3. CASE StartRun BY <1>3 DEF StartRun
<1>4. CASE LeaveLoop BY <1>4 DEF LeaveLoop
<1>5. CASE ProcessResource BY <1>5 DEF ProcessResource
<1>6. CASE PassEnds BY <1>6 DEF PassEnds
<1>7. CASE RunFails BY <1>7 DEF RunFails, EndRun, GoDown
<1>8. CASE RunEnds BY <1>8 DEF RunEnds, EndRun, GoDown
<1>9. CASE DelayOver BY <1>9 DEF DelayOver
<1>10. CASE OnStop BY <1>10 DEF OnStop
<1>11. CASE Kill BY <1>11 DEF Kill, GoDown
<1>12. CASE UNCHANGED vars BY <1>12 DEF vars
<1> QED
  BY <1>1, <1>2, <1>3, <1>4, <1>5, <1>6, <1>7, <1>8, <1>9, <1>10, <1>11, <1>12
  DEF Next, Work

\* Only the end of a run begins a delay, and what it processed is not touched before the
\* next run.
LEMMA NextRunCovers == TypeOK /\ RunInv /\ RunCovers /\ [Next]_vars => RunCovers'
<1> SUFFICES ASSUME TypeOK, RunInv, RunCovers, [Next]_vars PROVE RunCovers'
    OBVIOUS
<1>1. UNCHANGED sites => Reached' = Reached
  BY DEF Reached, Usable
<1>2. UNCHANGED sites
  BY DEF Next, Work, vars, config, Tick, OnStart, StartRun, LeaveLoop, ProcessResource,
         PassEnds, RunFails, RunEnds, DelayOver, OnStop, Kill
<1>3. CASE RunFails \/ RunEnds
  <2>1. processed = Reached
    BY <1>3, RunStops, ConfigurationType DEF RunFails, RunEnds, TypeOK
  <2> QED BY <1>1, <1>2, <1>3, <2>1 DEF RunFails, RunEnds, RunCovers
<1>4. CASE ~(RunFails \/ RunEnds)
  <2>1. pc' = "delay" => pc = "delay" /\ UNCHANGED processed
    BY <1>4 DEF Next, Work, vars, Tick, OnStart, StartRun, LeaveLoop, ProcessResource,
                PassEnds, DelayOver, OnStop, Kill, GoDown
  <2> QED BY <1>1, <1>2, <2>1 DEF RunCovers
<1> QED BY <1>3, <1>4
------------------------------------------------------------------------------
(* Seconds *)

\* Nobody changes the configuration.
LEMMA SoundStays == [Next]_vars => Sound' = Sound
BY DEF Next, Work, vars, config, Tick, OnStart, StartRun, LeaveLoop, ProcessResource,
       PassEnds, RunFails, RunEnds, DelayOver, OnStop, Kill, Sound, DelayTime, Usable

LEMMA NextSecondInv == TypeOK /\ RunInv /\ Sound /\ SecondInv /\ [Next]_vars => SecondInv'
<1> SUFFICES ASSUME TypeOK, RunInv, Sound, SecondInv, [Next]_vars PROVE SecondInv'
    OBVIOUS
<1>0. DelayTime \in Int /\ Len(sites) \in Nat
  BY ConfigurationType
<1> USE <1>0, ScaleAssumption DEF TypeOK, SecondInv, Waiting, config
<1>1. CASE Tick BY <1>1, ClockStep DEF Tick
<1>2. CASE OnStart BY <1>2 DEF OnStart
<1>3. CASE StartRun BY <1>3 DEF StartRun
<1>4. CASE LeaveLoop BY <1>4 DEF LeaveLoop
<1>5. CASE ProcessResource BY <1>5 DEF ProcessResource
<1>6. CASE PassEnds BY <1>6 DEF PassEnds
<1>7. CASE RunFails BY <1>7 DEF RunFails, EndRun, GoDown, Sound
<1>8. CASE RunEnds BY <1>8 DEF RunEnds, EndRun, GoDown, Sound
<1>9. CASE DelayOver BY <1>9 DEF DelayOver
<1>10. CASE OnStop BY <1>10 DEF OnStop
<1>11. CASE Kill BY <1>11 DEF Kill, GoDown
<1>12. CASE UNCHANGED vars BY <1>12 DEF vars
<1> QED
  BY <1>1, <1>2, <1>3, <1>4, <1>5, <1>6, <1>7, <1>8, <1>9, <1>10, <1>11, <1>12
  DEF Next, Work

\* A pass that starts is of a category that no earlier site of the run has.
LEMMA PassStarts ==
  ASSUME WorkerInv, [Next]_vars, Sound, pc # "pass", pc' = "pass"
  PROVE  sites[site].category \notin recent
<1>1. ProcessResource
  BY DEF Next, Work, vars, Tick, OnStart, StartRun, LeaveLoop, PassEnds, RunFails, RunEnds,
         EndRun, GoDown, DelayOver, OnStop, Kill
<1>2. /\ processed = 1 .. site - 1
      /\ site \in 1 .. Len(sites) /\ Usable(site) /\ Len(sites) \in Nat
  BY <1>1, ConfigurationType DEF ProcessResource, WorkerInv, RunInv, TypeOK
<1>3. ASSUME NEW i \in processed PROVE sites[i].category # sites[site].category
  <2>1. i \in 1 .. Len(sites) /\ i # site /\ Usable(i)
    BY <1>1, <1>2 DEF ProcessResource, WorkerInv, RunInv
  <2> QED BY <1>2, <2>1 DEF Sound
<1> QED BY <1>1, <1>3 DEF ProcessResource, WorkerInv, SecondInv
------------------------------------------------------------------------------
(* The theorems *)

LEMMA InitWorkerInv == Init => WorkerInv
BY ScaleAssumption, ConfigurationAssumption
   DEF Init, WorkerInv, TypeOK, PC, RunInv, RunCovers, SecondInv, Waiting

LEMMA NextWorkerInv == WorkerInv /\ [Next]_vars => WorkerInv'
BY NextTypes, NextRunInv, NextRunCovers, NextSecondInv, SoundStays DEF WorkerInv

LEMMA Invariant == Spec => []WorkerInv
BY InitWorkerInv, NextWorkerInv, PTL DEF Spec

\* Type correctness: the site number stays within the list, and the time to wait is never
\* negative, whatever the configured delay and however it overflows.
THEOREM TypeCorrect == Spec => []TypeOK
<1>1. WorkerInv => TypeOK
  BY DEF WorkerInv
<1> QED BY <1>1, Invariant, PTL

\* A run that comes to its delay has started a pass for each site in front of the first
\* unusable one and for no other (IndexerService.Run).
THEOREM RunsCover == Spec => []RunCovers
<1>1. WorkerInv => RunCovers
  BY DEF WorkerInv
<1> QED BY <1>1, Invariant, PTL

\* Under a sound configuration, kills and restarts included, two passes of one category
\* start in different seconds: what IndexPublication assumes when SameSecond is FALSE.
THEOREM PassesInDistinctSeconds == Spec => DistinctSeconds
<1>1. WorkerInv /\ [Next]_vars =>
        [Sound /\ pc # "pass" /\ pc' = "pass" => sites[site].category \notin recent]_vars
  BY PassStarts
<1> QED BY <1>1, Invariant, PTL DEF Spec, DistinctSeconds
------------------------------------------------------------------------------
(* Stopping: the ranking behind StopReturns *)

\* OnStop waits for a worker that is up.
StopInv == stop = "requested" => pc \notin {"down", "exited"}

LEMMA NextStopInv == StopInv /\ [Next]_vars => StopInv'
BY DEF StopInv, Next, Work, vars, Tick, OnStart, StartRun, LeaveLoop, ProcessResource, PassEnds,
       RunFails, RunEnds, EndRun, GoDown, DelayOver, OnStop, Kill

\* What is to come of a stage is a number.
LEMMA ToComeType ==
  ASSUME WorkerInv, pc \in {"site", "pass", "delay", "loop"}
  PROVE  ToCome \in Nat
<1>1. Len(sites) \in Nat
  BY ConfigurationType DEF WorkerInv
<1> QED
  BY <1>1 DEF ToCome, WorkerInv, TypeOK, RunInv

\* A stop request is never put off, whatever the sites, the delay and its overflow: from the
\* request on every step of the worker, and in the delay every millisecond, brings nearer the
\* look at the cancellation (WorkerRole.cs:79) that lets OnStop return.
THEOREM StopComesNearer == Spec => StopNearer
<1> DEFINE Nearer ==
      \/ StagesLeft[pc'] < StagesLeft[pc]
      \/ StagesLeft[pc'] = StagesLeft[pc] /\ ToCome' \in 0 .. ToCome - 1
      \/ /\ UNCHANGED <<config, pc, site, processed>>
         /\ pc = "delay" => left = 0 /\ left' = 0
<1>1. Init => StopInv
  BY DEF Init, StopInv
<1>2. WorkerInv /\ WorkerInv' /\ StopInv /\ [Next]_vars
      => [stop = "requested" /\ stop' = "requested" => Nearer]_vars
  <2> SUFFICES ASSUME WorkerInv, WorkerInv', StopInv, Next,
                      stop = "requested", stop' = "requested"
               PROVE  Nearer
    OBVIOUS
  <2>1. pc \in {"site", "pass", "delay", "loop"}
    BY DEF StopInv, WorkerInv, TypeOK, PC
  <2>2. ToCome \in Nat /\ Len(sites) \in Nat
    BY <2>1, ToComeType, ConfigurationType DEF WorkerInv
  <2>3. /\ left \in Nat
        /\ pc \in {"site", "pass"} => site \in 1 .. Len(sites) + 1
        /\ pc = "pass" => site <= Len(sites)
    BY DEF WorkerInv, TypeOK, RunInv
  <2>4. CASE Tick
    <3>1. CASE pc = "delay" /\ left > 0
      BY <2>3, <2>4, <3>1 DEF Tick, StagesLeft, ToCome
    <3>2. CASE pc = "delay" /\ left = 0
      BY <2>4, <3>2 DEF Tick, config
    <3>3. CASE pc # "delay"
      BY <2>4, <3>3 DEF Tick, config
    <3> QED
      BY <2>3, <3>1, <3>2, <3>3
  <2>5. CASE ProcessResource
    BY <2>2, <2>3, <2>5 DEF ProcessResource, config, StagesLeft, ToCome
  <2>6. CASE PassEnds
    BY <2>2, <2>3, <2>6 DEF PassEnds, config, StagesLeft, ToCome
  <2>7. CASE RunFails \/ RunEnds
    BY <2>7 DEF RunFails, RunEnds, EndRun, GoDown, StagesLeft
  <2>8. CASE DelayOver
    BY <2>8 DEF DelayOver, StagesLeft
  <2>9. ~OnStart /\ ~StartRun /\ ~LeaveLoop /\ ~OnStop /\ ~Kill
    BY <2>1 DEF OnStart, StartRun, LeaveLoop, OnStop, Kill, GoDown
  <2> QED
    BY <2>4, <2>5, <2>6, <2>7, <2>8, <2>9 DEF Next, Work
<1> QED
  BY <1>1, <1>2, NextStopInv, Invariant, PTL DEF Spec, StopNearer
=============================================================================
