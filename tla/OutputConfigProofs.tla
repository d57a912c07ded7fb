------------------------- MODULE OutputConfigProofs -------------------------
(***************************************************************************)
(* Safety of OutputConfig and its refinement of ConfigRequests, for any    *)
(* outputs, configurations, groups and bounds, under two conditions the    *)
(* code does not guarantee: no forced render finishes a configuration      *)
(* inside its loop (~EarlyFinish), and no configuration has the address of *)
(* one whose jobs are still to be called (~Reuse).  OutputConfig fails     *)
(* without either: see MCOutputTwice.cfg and MCOutputReuse.cfg.            *)
(***************************************************************************)
EXTENDS OutputConfig, FiniteSetTheorems, SequenceTheorems, TLAPS

\* The jobs of an output that are still to be called, in their order.
Todo(o) == IF run.out = o THEN run.todo ELSE jobs[o]

\* A job of configuration c is at position i of those of output o.
At(c, o, i) == i \in DOMAIN Todo(o) /\ Todo(o)[i].cfg = c

Pointers == Configs \cup {NoConfig}

\* The output's job for the pending configuration was lost.
Lost(o) == pend.cfg # NoConfig /\ req[pend.cfg].head[o] = "lost"

\* Where the jobs of configurations are, and, as index 0, those that were lost.
Owed == {p \in Outputs \X Nat : \/ \E c \in Pointers : At(c, p[1], p[2])
                                \/ p[2] = 0 /\ Lost(p[1])}

\* The loop over the heads and the calls of a commit's jobs, as they nest.
Nesting ==
    /\ loop.cfg = NoConfig => loop = NoLoop
    /\ run # NoRun => /\ run.out \in Outputs /\ run.todo # <<>>
                      /\ jobs[run.out] = <<>>
                      /\ loop # NoLoop => loop.sync = run.out
    /\ Heads(loop.want) \subseteq plugged
    /\ \A o \in Outputs \ plugged : jobs[o] = <<>> /\ proxy[o] = NoOutput

\* The counter of commits in flight is at least the number of jobs owed, and
\* there is room for the heads still to do.
Counters ==
    /\ IsFiniteSet(Owed) /\ Cardinality(Owed) <= inFlight
    /\ inFlight + Cardinality(Heads(loop.want)) <= MaxInFlight

\* The configuration that is owed an answer is the pending one; the others are
\* forgotten.
OnePending ==
    /\ \A c \in Configs : /\ ~req[c].stale
                          /\ req[c].life = "asked" <=> pend.cfg = c
    /\ loop.cfg # NoConfig => pend.cfg = loop.cfg

\* The outputs the pending configuration waits for.
Waiting(h) == {o \in Outputs : h[o] \in {"queued", "lost"}}

\* How far the pending configuration has come at each output.
HeadsOf(c, h) ==
    /\ pend.left = Cardinality(Waiting(h))
    /\ \A o \in Outputs :
         /\ h[o] = "wanted" <=> loop.want[o] # "none"
         /\ h[o] = "queued" <=> \E i \in Nat : At(c, o, i)
         /\ h[o] = "failed" => ~pend.ok
         /\ \A i, j \in Nat : At(c, o, i) /\ At(c, o, j) => i = j
    /\ loop = NoLoop => pend.left > 0
    /\ loop # NoLoop => \/ \A o \in Outputs : h[o] \in {"none", "wanted"}
                        \/ \E o \in Outputs : h[o] = "queued" /\ o \notin {loop.sync, run.out}

Progressing == pend.cfg # NoConfig => HeadsOf(pend.cfg, req[pend.cfg].head)

\* Copy mode is torn down while a configuration is applied or has jobs left.
TornDown == Mirrors # {} => inFlight = 0 /\ pend.cfg = NoConfig

\* What is rendered, and the reconciliations still to come.
Reconciled ==
    /\ dirty => inFlight > 0 \/ queued
    /\ queued \/ eff.mirrors \subseteq plugged
    /\ loop = NoLoop /\ ~queued /\ ~dirty => \A o \in plugged : proxy[o] = ProxyIn(eff, o)
    /\ (\E o \in plugged : proxy[o] = Dangling) => queued

IInv == /\ TypeOK /\ Nesting /\ Counters /\ OnePending /\ Progressing
        /\ TornDown /\ Reconciled

\* What the refinement asks of one step.
Promised == \A c \in Configs : req'[c] = req[c] \/ CR!Allowed(req[c], req'[c])

-----------------------------------------------------------------------------
(* Facts about states *)

\* The jobs of an output between two handlers.
LEMMA IdleTodo ==
    ASSUME run = NoRun, NEW o \in Outputs
    PROVE  Todo(o) = jobs[o]
BY OutputConfigAssumption DEF NoRun, Todo

\* A job that is still to be called is in flight.
LEMMA JobInFlight ==
    ASSUME Counters, inFlight \in Nat, NEW o \in Outputs, NEW i \in Nat, NEW c \in Pointers,
           At(c, o, i)
    PROVE  inFlight > 0
<1>1. <<o, i>> \in Owed BY DEF Owed
<1>2. Cardinality(Owed) # 0 /\ Cardinality(Owed) \in Nat
  BY <1>1, FS_EmptySet, FS_CardinalityType DEF Counters
<1> QED BY <1>2 DEF Counters

\* The counter of a set of outputs.
LEMMA OutputsFinite ==
    ASSUME NEW S \in SUBSET Outputs
    PROVE  IsFiniteSet(S) /\ Cardinality(S) \in Nat /\ (Cardinality(S) = 0 <=> S = {})
BY OutputConfigAssumption, FS_Subset, FS_CardinalityType, FS_EmptySet

\* Between two handlers the compositor is busy only if a job is in flight, or
\* was lost.
LEMMA BusyInFlight ==
    ASSUME IInv, Idle
    PROVE  Busy <=> inFlight > 0
<1>1. SUFFICES ASSUME pend.cfg # NoConfig PROVE inFlight > 0
  BY DEF Busy
<1> DEFINE h == req[pend.cfg].head
<1>2. pend.left > 0 /\ pend.left = Cardinality(Waiting(h))
  BY <1>1 DEF IInv, Progressing, HeadsOf, Idle
<1>3. PICK o \in Outputs : h[o] \in {"queued", "lost"}
  <2>1. Waiting(h) \in SUBSET Outputs BY DEF Waiting
  <2>2. Waiting(h) # {} BY <1>2, <2>1, OutputsFinite
  <2> QED BY <2>2 DEF Waiting
<1>4. CASE h[o] = "queued"
  <2>1. pend.cfg \in Pointers BY DEF IInv, TypeOK, Pointers
  <2>2. PICK i \in Nat : At(pend.cfg, o, i)
    BY <1>1, <1>4 DEF IInv, Progressing, HeadsOf
  <2>3. inFlight \in Nat /\ Counters BY OutputConfigAssumption DEF IInv, TypeOK
  <2> QED BY <2>1, <2>2, <2>3, JobInFlight
<1>5. CASE h[o] = "lost"
  <2>1. <<o, 0>> \in Owed BY <1>1, <1>5 DEF Owed, Lost
  <2>2. Cardinality(Owed) # 0 /\ Cardinality(Owed) \in Nat
    BY <2>1, FS_EmptySet, FS_CardinalityType DEF IInv, Counters
  <2> QED BY <2>2 DEF IInv, Counters, TypeOK
<1> QED BY <1>3, <1>4, <1>5

-----------------------------------------------------------------------------
(* Steps that leave the pending configuration alone *)

\* The jobs of configurations stay where they are.
SameAt == \A o \in Outputs, i \in Nat, c \in Pointers : At(c, o, i)' <=> At(c, o, i)

\* Nothing that belongs to a configuration changes, but for a forced render that
\* starts to call its jobs.
LEMMA SameJobsKeep ==
    ASSUME Counters, OnePending, Progressing, TypeOK, SameAt,
           UNCHANGED <<pend, loop, req, inFlight>>,
           loop # NoLoop => run'.out \in {run.out, loop.sync}
    PROVE  Counters' /\ OnePending' /\ Progressing' /\ Promised
<1>1. Owed' = Owed
  BY DEF Owed, SameAt, Lost
<1>2. Counters' BY <1>1 DEF Counters, Heads
<1>3. OnePending' BY DEF OnePending
<1>4. Progressing'
  <2> SUFFICES ASSUME pend.cfg # NoConfig PROVE HeadsOf(pend.cfg, req[pend.cfg].head)'
    BY DEF Progressing
  <2>1. pend.cfg \in Pointers BY DEF TypeOK, Pointers
  <2>2. \A o \in Outputs, i \in Nat : At(pend.cfg, o, i)' <=> At(pend.cfg, o, i)
    BY <2>1 DEF SameAt
  <2> QED BY <2>2 DEF Progressing, HeadsOf, Waiting
<1> QED BY <1>2, <1>3, <1>4 DEF Promised

\* A step between two handlers.
LEMMA QuietKeeps ==
    ASSUME IInv, Idle, UNCHANGED commits, TypeOK', SameAt,
           plugged \subseteq plugged',
           \A o \in Outputs \ plugged' : jobs'[o] = <<>> /\ proxy'[o] = NoOutput,
           TornDown', Reconciled'
    PROVE  IInv' /\ Promised
<1>1. Counters' /\ OnePending' /\ Progressing' /\ Promised
  BY SameJobsKeep DEF IInv, commits
<1>2. Nesting'
  BY DEF IInv, Nesting, Idle, commits, Heads
<1> QED BY <1>1, <1>2 DEF IInv

\* Outputs come, or are turned on or off: the groups are rendered as before.
LEMMA SameGroupsKeep ==
    ASSUME IInv, Idle, UNCHANGED <<groups, dirty, commits>>, queued => queued',
           queued' \in BOOLEAN, plugged' \in SUBSET Outputs, plugged \subseteq plugged'
    PROVE  /\ TornDown' /\ Reconciled'
           /\ \A o \in Outputs \ plugged' : proxy'[o] = NoOutput
<1>1. \A o \in Outputs \ plugged : proxy[o] = NoOutput BY DEF IInv, Nesting
<1>2. UNCHANGED <<eff, proxy, dirty, inFlight, pend, loop>> BY DEF groups, commits
<1>3. Mirrors' = Mirrors
  BY <1>1, <1>2 DEF Mirrors
<1>4. TornDown' BY <1>2, <1>3 DEF IInv, TornDown
<1>5. Reconciled'
  <2>1. dirty' => inFlight' > 0 \/ queued' BY <1>2 DEF IInv, Reconciled
  <2>2. queued' \/ eff'.mirrors \subseteq plugged' BY <1>2 DEF IInv, Reconciled
  <2>3. loop' = NoLoop /\ ~queued' /\ ~dirty' => \A o \in plugged' : proxy'[o] = ProxyIn(eff', o)
    <3> SUFFICES ASSUME loop = NoLoop, ~queued, ~dirty, NEW o \in plugged'
                 PROVE  proxy[o] = ProxyIn(eff, o)
      BY <1>2, SMT
    <3>1. CASE o \in plugged BY <3>1 DEF IInv, Reconciled
    <3>2. CASE o \notin plugged
      <4>1. proxy[o] = NoOutput BY <1>1, <3>2
      <4>2. o \notin eff.mirrors BY <3>2 DEF IInv, Reconciled
      <4> QED BY <4>1, <4>2 DEF ProxyIn
    <3> QED BY <3>1, <3>2
  <2>4. (\E o \in plugged' : proxy'[o] = Dangling) => queued'
    <3> SUFFICES ASSUME NEW o \in plugged', proxy[o] = Dangling PROVE queued
      BY <1>2
    <3>1. o \in plugged BY <1>1, OutputConfigAssumption
    <3> QED BY <3>1 DEF IInv, Reconciled
  <2> QED BY <2>1, <2>2, <2>3, <2>4, Zenon DEF Reconciled, ProxyIn
<1> QED BY <1>1, <1>2, <1>4, <1>5

\* finishInitialOutputScanIfReady and restoreInitialOutputConfiguration.
LEMMA FinishScanTyped ==
    ASSUME TypeOK, NEW out \in SUBSET Outputs, NEW lit \in SUBSET out, NEW wait,
           NEW s \in {"backend", "loading", "done"}, NEW bad \in SUBSET Flaky,
           finishInitialOutputScanIfReady(out, lit, wait, s, bad)
    PROVE  /\ scan' \in {"backend", "loading", "done"} /\ on' \subseteq out
           /\ mode' \in {"extension", "copy"} /\ single' \in Outputs \cup {NoOutput}
           /\ queued' \in BOOLEAN /\ (queued => queued')
BY DEF TypeOK, finishInitialOutputScanIfReady, restoreConfiguredSingleOutput,
       restoreExtensionModeFromConfig

\* Without a change of the jobs, those of configurations stay.
LEMMA UnchangedAt ==
    ASSUME UNCHANGED <<jobs, run>>
    PROVE  SameAt
BY DEF SameAt, At, Todo

\* backendStarted.
LEMMA BackendStartedKeeps ==
    ASSUME IInv, NEW bad \in SUBSET Flaky, BackendStarted(bad)
    PROVE  IInv' /\ Promised
<1>1. Idle /\ UNCHANGED <<waiting, plugged, dpms, groups, jobs, dirty, commits>>
  BY DEF BackendStarted
<1>2. /\ scan' \in {"backend", "loading", "done"} /\ on' \subseteq plugged
      /\ mode' \in {"extension", "copy"} /\ single' \in Outputs \cup {NoOutput}
      /\ queued' \in BOOLEAN /\ (queued => queued')
  BY FinishScanTyped DEF BackendStarted, IInv, TypeOK
<1>3. TypeOK' BY <1>1, <1>2 DEF IInv, TypeOK, groups, commits
<1>4. TornDown' /\ Reconciled' /\ \A o \in Outputs \ plugged' : proxy'[o] = NoOutput
  BY <1>1, <1>2, SameGroupsKeep DEF IInv, TypeOK
<1>5. SameAt BY <1>1, UnchangedAt DEF commits
<1> QED BY <1>1, <1>3, <1>4, <1>5, QuietKeeps DEF IInv, Nesting

\* outputAdded, when the settings are still to be loaded.
LEMMA OutputWaitsKeeps ==
    ASSUME IInv, NEW o \in Outputs, OutputWaits(o)
    PROVE  IInv' /\ Promised
<1>1. /\ Idle /\ waiting' = waiting \cup {o}
      /\ UNCHANGED <<plugged, scan, power, dpms, groups, jobs, dirty, queued, commits>>
  BY DEF OutputWaits
<1>2. TypeOK' BY <1>1 DEF IInv, TypeOK, groups, commits, power
<1>3. TornDown' /\ Reconciled' /\ \A m \in Outputs \ plugged' : proxy'[m] = NoOutput
  BY <1>1, SameGroupsKeep DEF IInv, TypeOK
<1>4. SameAt BY <1>1, UnchangedAt DEF commits
<1> QED BY <1>1, <1>2, <1>3, <1>4, QuietKeeps DEF IInv, Nesting

\* The device of an output that waits goes away.
LEMMA PendingOutputRemovedKeeps ==
    ASSUME IInv, NEW o \in Outputs, NEW bad \in SUBSET Flaky, PendingOutputRemoved(o, bad)
    PROVE  IInv' /\ Promised
<1>1. /\ Idle /\ waiting' = waiting \ {o}
      /\ UNCHANGED <<plugged, dpms, groups, jobs, dirty, commits>>
  BY DEF PendingOutputRemoved
<1>2. /\ scan' \in {"backend", "loading", "done"} /\ on' \subseteq plugged
      /\ mode' \in {"extension", "copy"} /\ single' \in Outputs \cup {NoOutput}
      /\ queued' \in BOOLEAN /\ (queued => queued')
  <2>1. finishInitialOutputScanIfReady(plugged, on, waiting', scan, bad)
    BY DEF PendingOutputRemoved
  <2>2. /\ plugged \in SUBSET Outputs /\ on \in SUBSET plugged /\ TypeOK
        /\ scan \in {"backend", "loading", "done"}
    BY DEF IInv, TypeOK
  <2> QED BY <2>1, <2>2, FinishScanTyped
<1>3. TypeOK' BY <1>1, <1>2 DEF IInv, TypeOK, groups, commits
<1>4. TornDown' /\ Reconciled' /\ \A m \in Outputs \ plugged' : proxy'[m] = NoOutput
  BY <1>1, <1>2, SameGroupsKeep DEF IInv, TypeOK
<1>5. SameAt BY <1>1, UnchangedAt DEF commits
<1> QED BY <1>1, <1>3, <1>4, <1>5, QuietKeeps DEF IInv, Nesting

\* setPowerMode.
LEMMA SetPowerModeKeeps ==
    ASSUME IInv, NEW o \in Outputs, NEW up \in BOOLEAN, NEW ok \in BOOLEAN,
           SetPowerMode(o, up, ok)
    PROVE  IInv' /\ Promised
<1>1. /\ Idle /\ queued' = TRUE
      /\ UNCHANGED <<scanning, plugged, mode, single, groups, jobs, dirty, commits>>
      /\ on' \subseteq on \cup {o} /\ dpms' \subseteq dpms \cup {o} /\ o \in plugged
  BY DEF SetPowerMode
<1>2. TypeOK' BY <1>1 DEF IInv, TypeOK, scanning, groups, commits
<1>3. TornDown' /\ Reconciled' /\ \A m \in Outputs \ plugged' : proxy'[m] = NoOutput
  BY <1>1, SameGroupsKeep DEF IInv, TypeOK
<1>4. SameAt BY <1>1, UnchangedAt DEF commits
<1> QED BY <1>1, <1>2, <1>3, <1>4, QuietKeeps DEF IInv, Nesting

\* wakePoweredOffOutputs.
LEMMA WakePoweredOffOutputsKeeps ==
    ASSUME IInv, NEW bad \in SUBSET Flaky, WakePoweredOffOutputs(bad)
    PROVE  IInv' /\ Promised
<1>1. /\ Idle
      /\ UNCHANGED <<scanning, plugged, mode, single, groups, jobs, dirty, queued, commits>>
      /\ on' \subseteq on \cup dpms /\ dpms' \subseteq dpms
  BY DEF WakePoweredOffOutputs
<1>2. TypeOK' BY <1>1 DEF IInv, TypeOK, scanning, groups, commits
<1>3. TornDown' /\ Reconciled' /\ \A m \in Outputs \ plugged' : proxy'[m] = NoOutput
  BY <1>1, SameGroupsKeep DEF IInv, TypeOK
<1>4. SameAt BY <1>1, UnchangedAt DEF commits
<1> QED BY <1>1, <1>2, <1>3, <1>4, QuietKeeps DEF IInv, Nesting

\* Jobs none of which is one of a configuration.
Colored(q) == \A i \in DOMAIN q : q[i].cfg = Color

\* The jobs of an output that has just been created.
LEMMA CreatedColored ==
    ASSUME NEW o
    PROVE  Created(o) \in Seq(Job) /\ Colored(Created(o))
<1>1. ColorJob \in Job /\ ColorJob.cfg = Color BY DEF ColorJob, Job
<1>2. <<ColorJob>> \in Seq(Job) /\ Colored(<<ColorJob>>) BY <1>1 DEF Colored
<1>3. <<>> \in Seq(Job) /\ Colored(<<>>) BY DEF Colored
<1> QED BY <1>2, <1>3 DEF Created

\* Such jobs may come and go.
LEMMA ReplacedAt ==
    ASSUME run = NoRun, run' = run,
           \A o \in Outputs : jobs'[o] = jobs[o] \/ (Colored(jobs[o]) /\ Colored(jobs'[o]))
    PROVE  SameAt
<1> SUFFICES ASSUME NEW o \in Outputs, NEW i \in Nat, NEW c \in Pointers
             PROVE  At(c, o, i)' <=> At(c, o, i)
  BY DEF SameAt
<1>1. Todo(o) = jobs[o] /\ Todo(o)' = jobs'[o]
  BY OutputConfigAssumption DEF NoRun, Todo
<1>2. c # Color BY OutputConfigAssumption DEF Pointers
<1> QED BY <1>1, <1>2 DEF At, Colored

\* processOutputAdded.
LEMMA OutputAddedKeeps ==
    ASSUME IInv, NEW o \in Outputs, NEW loaded \in BOOLEAN, NEW bad \in SUBSET Flaky,
           OutputAdded(o, loaded, bad)
    PROVE  IInv' /\ Promised
<1>1. /\ Idle /\ o \notin plugged /\ plugged' = plugged \cup {o} /\ waiting' = waiting \ {o}
      /\ jobs' = [jobs EXCEPT ![o] = Created(o)]
      /\ UNCHANGED <<dpms, groups, dirty, commits>>
  BY DEF OutputAdded
<1>2. /\ scan' \in {"backend", "loading", "done"} /\ on' \subseteq plugged'
      /\ mode' \in {"extension", "copy"} /\ single' \in Outputs \cup {NoOutput}
      /\ queued' \in BOOLEAN /\ (queued => queued')
  <2>1. CASE scan = "done"
    BY <1>1, <2>1 DEF OutputAdded, AddHotplugged, IInv, TypeOK
  <2>2. CASE scan # "done"
    <3>1. finishInitialOutputScanIfReady(plugged', Scanned(o, loaded, bad), waiting', scan, bad)
      BY <2>2 DEF OutputAdded
    <3>2. /\ plugged' \in SUBSET Outputs /\ Scanned(o, loaded, bad) \in SUBSET plugged'
          /\ TypeOK /\ scan \in {"backend", "loading", "done"}
      BY <1>1 DEF IInv, TypeOK, Scanned
    <3> QED BY <3>1, <3>2, FinishScanTyped
  <2> QED BY <2>1, <2>2
<1>3. jobs' \in [Outputs -> Seq(Job)] BY <1>1, CreatedColored DEF IInv, TypeOK
<1>4. TypeOK' BY <1>1, <1>2, <1>3 DEF IInv, TypeOK, groups, commits
<1>5. TornDown' /\ Reconciled' /\ \A m \in Outputs \ plugged' : proxy'[m] = NoOutput
  BY <1>1, <1>2, SameGroupsKeep DEF IInv, TypeOK
<1>6. SameAt
  <2>1. jobs[o] = <<>> BY <1>1 DEF IInv, Nesting
  <2>2. jobs \in [Outputs -> Seq(Job)] /\ Colored(<<>>) BY DEF IInv, TypeOK, Colored
  <2>3. \A m \in Outputs : jobs'[m] = jobs[m] \/ (Colored(jobs[m]) /\ Colored(jobs'[m]))
    BY <1>1, <2>1, <2>2, CreatedColored
  <2> QED BY <1>1, <2>3, ReplacedAt DEF Idle, commits
<1>7. \A m \in Outputs \ plugged' : jobs'[m] = <<>>
  BY <1>1 DEF IInv, Nesting, TypeOK
<1> QED BY <1>1, <1>4, <1>5, <1>6, <1>7, QuietKeeps

\* A brightness or colour temperature request.
LEMMA SetOutputColorKeeps ==
    ASSUME IInv, NEW o \in Outputs, SetOutputColor(o)
    PROVE  IInv' /\ Promised
<1>1. /\ Idle /\ o \in plugged /\ jobs' = [jobs EXCEPT ![o] = Append(@, ColorJob)]
      /\ UNCHANGED <<scanning, plugged, dpms, power, groups, dirty, queued, commits>>
  BY DEF SetOutputColor, IInv, TypeOK
<1>2. ColorJob \in Job /\ ColorJob.cfg = Color /\ jobs \in [Outputs -> Seq(Job)]
  BY DEF ColorJob, Job, IInv, TypeOK
<1>3. /\ jobs' \in [Outputs -> Seq(Job)] /\ \A m \in Outputs \ {o} : jobs'[m] = jobs[m]
      /\ jobs'[o] = Append(jobs[o], ColorJob) /\ jobs[o] \in Seq(Job)
  BY <1>1, <1>2, AppendProperties
<1>4. TypeOK' BY <1>1, <1>3 DEF IInv, TypeOK, scanning, power, groups, commits
<1>5. TornDown' /\ Reconciled' /\ \A m \in Outputs \ plugged' : proxy'[m] = NoOutput
  BY <1>1, SameGroupsKeep DEF IInv, TypeOK
<1>6. SameAt
  <2> SUFFICES ASSUME NEW m \in Outputs, NEW i \in Nat, NEW c \in Pointers
               PROVE  At(c, m, i)' <=> At(c, m, i)
    BY DEF SameAt
  <2>1. Todo(m) = jobs[m] /\ Todo(m)' = jobs'[m] /\ c # Color
    BY <1>1, OutputConfigAssumption DEF Idle, commits, NoRun, Todo, Pointers
  <2>2. CASE m # o BY <1>3, <2>1, <2>2 DEF At
  <2>3. CASE m = o
    <3>1. /\ DOMAIN jobs'[o] = 1..(Len(jobs[o]) + 1) /\ DOMAIN jobs[o] = 1..Len(jobs[o])
          /\ Len(jobs[o]) \in Nat
          /\ \A k \in 1..Len(jobs[o]) : jobs'[o][k] = jobs[o][k]
          /\ jobs'[o][Len(jobs[o]) + 1].cfg = Color
      BY <1>2, <1>3, AppendProperties
    <3> QED BY <2>1, <2>3, <3>1 DEF At
  <2> QED BY <2>2, <2>3
<1>7. \A m \in Outputs \ plugged' : jobs'[m] = <<>>
  BY <1>1, <1>3 DEF IInv, Nesting
<1> QED BY <1>1, <1>4, <1>5, <1>6, <1>7, QuietKeeps

-----------------------------------------------------------------------------
(* Output groups *)

\* The effective state of a group names outputs that are enabled.
LEMMA EffectiveTyped ==
    ASSUME on \in SUBSET Outputs, NEW g \in Groups
    PROVE  /\ Effective(g) \in [source : Outputs \cup {NoOutput}, mirrors : SUBSET Outputs]
           /\ Effective(g).mirrors \subseteq on
<1> DEFINE there == g.members \cap on
           src == IF there = {} THEN NoOutput
                  ELSE IF g.source \in there THEN g.source ELSE CHOOSE o \in there : TRUE
<1>1. there \in SUBSET Outputs /\ there \subseteq on OBVIOUS
<1>2. src \in Outputs \cup {NoOutput}
  <2>1. CASE there = {} BY <2>1
  <2>2. CASE there # {}
    <3>1. (CHOOSE o \in there : TRUE) \in there BY <2>2
    <3> QED BY <1>1, <2>2, <3>1
  <2> QED BY <2>1, <2>2
<1>3. Effective(g) = [source |-> src, mirrors |-> there \ {src}] BY DEF Effective
<1> HIDE DEF there, src
<1> QED BY <1>1, <1>2, <1>3

\* applyOutputGroups, when the effective state that is reported is that of group g.
LEMMA ApplyGroupsKeeps ==
    ASSUME IInv, Idle, NEW g \in Groups, NEW later \in BOOLEAN,
           group' \in Groups, eff' = Effective(g), applyOutputGroups(Effective(g), later),
           UNCHANGED <<scanning, plugged, dpms, single, commits>>
    PROVE  IInv' /\ Promised
<1> DEFINE e == Effective(g)
<1>1. /\ e \in [source : Outputs \cup {NoOutput}, mirrors : SUBSET Outputs]
      /\ e.mirrors \subseteq plugged /\ eff' = e
  BY EffectiveTyped DEF IInv, TypeOK
<1>2. applyOutputGroups(e, later) OBVIOUS
<1> HIDE DEF e
<1>3. \A o : ProxyIn(e, o) \in Outputs \cup {NoOutput} BY <1>1 DEF ProxyIn
<1>4. UNCHANGED <<pend, inFlight, loop, run, req>> /\ run = NoRun
  BY DEF commits, Idle
<1>5. CASE Busy
  <2>1. dirty' = TRUE /\ queued' = later /\ UNCHANGED <<on, proxy, mode, jobs>>
    BY <1>2, <1>5 DEF applyOutputGroups
  <2>2. TypeOK' BY <1>1, <2>1 DEF IInv, TypeOK, scanning, commits
  <2>3. inFlight > 0 BY <1>5, BusyInFlight
  <2>4. Mirrors = {} /\ Mirrors' = Mirrors
    BY <2>1, <2>3 DEF IInv, TornDown, Mirrors, TypeOK
  <2>5. TornDown' BY <2>4 DEF TornDown
  <2>6. ~(\E o \in plugged' : proxy'[o] = Dangling)
    BY <2>1, <2>4, OutputConfigAssumption DEF Mirrors
  <2>7. Reconciled' BY <1>1, <1>4, <2>1, <2>3, <2>6 DEF Reconciled
  <2>8. SameAt BY <1>4, <2>1, UnchangedAt
  <2> QED BY <2>1, <2>2, <2>5, <2>7, <2>8, QuietKeeps DEF IInv, Nesting
<1>6. CASE ~Busy
  <2> DEFINE rebuilt == {o \in plugged : proxy[o] # ProxyIn(e, o)}
  <2>1. /\ proxy' = [o \in Outputs |-> ProxyIn(e, o)]
        /\ jobs' = [o \in Outputs |-> IF o \notin rebuilt THEN jobs[o]
                                      ELSE IF o \in e.mirrors THEN <<>> ELSE Created(o)]
        /\ on' \subseteq on
        /\ mode' \in {"extension", "copy"} /\ queued' = (later \/ dirty) /\ dirty' = FALSE
    BY <1>2, <1>6 DEF applyOutputGroups
  <2>2. rebuilt \subseteq plugged OBVIOUS
  <2> HIDE DEF rebuilt
  <2>3. /\ proxy' \in [Outputs -> Outputs \cup {NoOutput, Dangling}]
        /\ jobs' \in [Outputs -> Seq(Job)]
    BY <1>3, <2>1, CreatedColored DEF IInv, TypeOK
  <2>4. TypeOK' BY <1>1, <2>1, <2>3 DEF IInv, TypeOK, scanning, commits
  <2>5. inFlight = 0 /\ pend.cfg = NoConfig BY <1>6 DEF Busy, IInv, TypeOK
  <2>6. TornDown' BY <1>4, <2>5 DEF TornDown
  <2>7. Reconciled'
    <3>1. \A o \in Outputs : proxy'[o] = ProxyIn(eff, o)' BY <1>1, <2>1 DEF ProxyIn
    <3>2. plugged' \in SUBSET Outputs BY DEF IInv, TypeOK
    <3>3. \A o \in Outputs : proxy'[o] # Dangling BY <1>3, <2>1, OutputConfigAssumption
    <3> QED BY <1>1, <2>1, <3>1, <3>2, <3>3 DEF Reconciled
  <2>8. SameAt
    <3>1. ASSUME NEW o \in Outputs PROVE Colored(jobs[o])
      <4> SUFFICES ASSUME NEW i \in DOMAIN jobs[o], jobs[o][i].cfg # Color PROVE FALSE
        BY DEF Colored
      <4>1. jobs[o] \in Seq(Job) BY DEF IInv, TypeOK
      <4>a. i \in Nat /\ i \in 1..Len(jobs[o]) BY <4>1
      <4>b. jobs[o][i] \in Job BY <4>1, <4>a, ElementOfSeq
      <4>2. i \in Nat /\ jobs[o][i].cfg \in Pointers BY <4>a, <4>b DEF Job, Pointers
      <4>3. At(jobs[o][i].cfg, o, i) BY <1>4, IdleTodo DEF At
      <4>4. Counters /\ inFlight \in Nat BY <2>5 DEF IInv
      <4> QED BY <2>5, <4>2, <4>3, <4>4, JobInFlight
    <3>2. \A o \in Outputs : jobs'[o] = jobs[o] \/ (Colored(jobs[o]) /\ Colored(jobs'[o]))
      BY <2>1, <3>1, CreatedColored DEF Colored
    <3> QED BY <1>4, <3>2, ReplacedAt
  <2>9. \A o \in Outputs \ plugged' : jobs'[o] = <<>> /\ proxy'[o] = NoOutput
    BY <1>1, <2>1, <2>2 DEF IInv, Nesting, ProxyIn
  <2> QED BY <2>4, <2>6, <2>7, <2>8, <2>9, QuietKeeps
<1> QED BY <1>5, <1>6

\* notifyOutputGroupsChanged.
LEMMA NotifyKeeps ==
    ASSUME IInv, NotifyOutputGroups
    PROVE  IInv' /\ Promised
BY ApplyGroupsKeeps DEF NotifyOutputGroups, IInv, TypeOK

\* A client commits a group.
LEMMA CommitGroupKeeps ==
    ASSUME IInv, NEW g \in Groups, CommitGroup(g)
    PROVE  IInv' /\ Promised
<1>1. queued \in BOOLEAN BY DEF IInv, TypeOK
<1> QED BY <1>1, ApplyGroupsKeeps DEF CommitGroup

-----------------------------------------------------------------------------
(* An output is unplugged *)

\* The heads of a request whose job is lost with output o.
LEMMA LoseJobsHeads ==
    ASSUME TypeOK, NEW o \in Outputs, NEW c \in Configs
    PROVE  /\ LoseJobs(req, o) \in [Configs -> CR!Request]
           /\ LoseJobs(req, o)[c].life = req[c].life
           /\ LoseJobs(req, o)[c].stale = req[c].stale
           /\ \A m \in Outputs : LoseJobs(req, o)[c].head[m] =
                IF req[c].life = "asked" /\ m = o /\ req[c].head[m] = "queued"
                THEN "lost" ELSE req[c].head[m]
           /\ req[c].life # "asked" \/ req[c].head[o] # "queued" => LoseJobs(req, o)[c] = req[c]
<1>1. \A d \in Configs : /\ req[d] \in CR!Request
                         /\ req[d].head \in [Outputs -> CR!Phases]
                         /\ req[d].life \in {"asked", "ok", "failed"}
                         /\ req[d].stale \in BOOLEAN
  BY DEF TypeOK, CR!Request
<1>2. "lost" \in CR!Phases BY DEF CR!Phases
<1>3. \A d \in Configs : [req[d] EXCEPT !.head[o] = "lost"] \in CR!Request
  BY <1>1, <1>2 DEF CR!Request
<1>4. LoseJobs(req, o) \in [Configs -> CR!Request] BY <1>1, <1>3 DEF LoseJobs
<1>5. CASE req[c].life = "asked" /\ req[c].head[o] = "queued"
  <2>1. LoseJobs(req, o)[c] = [req[c] EXCEPT !.head[o] = "lost"] BY <1>5 DEF LoseJobs
  <2>2. /\ [req[c] EXCEPT !.head[o] = "lost"].life = req[c].life
        /\ [req[c] EXCEPT !.head[o] = "lost"].stale = req[c].stale
        /\ [req[c] EXCEPT !.head[o] = "lost"].head = [req[c].head EXCEPT ![o] = "lost"]
    BY <1>1 DEF CR!Request
  <2> QED BY <1>1, <1>4, <1>5, <2>1, <2>2
<1>6. CASE req[c].life # "asked" \/ req[c].head[o] # "queued"
  BY <1>4, <1>6 DEF LoseJobs
<1> QED BY <1>5, <1>6

\* One element is replaced by another, and others may go.
LEMMA Swapped ==
    ASSUME NEW S, IsFiniteSet(S), NEW x \in S, NEW y, NEW T \in SUBSET ((S \ {x}) \cup {y})
    PROVE  IsFiniteSet(T) /\ Cardinality(T) <= Cardinality(S)
<1> DEFINE R == S \ {x}
           Q == R \cup {y}
<1>1. IsFiniteSet(R) /\ Cardinality(R) = Cardinality(S) - 1 BY FS_RemoveElement
<1>2. Cardinality(S) \in Nat BY FS_CardinalityType
<1>3. T \in SUBSET Q OBVIOUS
<1> HIDE DEF R
<1>4. IsFiniteSet(Q) /\ Cardinality(Q) = IF y \in R THEN Cardinality(R) ELSE Cardinality(R) + 1
  BY <1>1, FS_AddElement
<1> HIDE DEF Q
<1>5. IsFiniteSet(T) /\ Cardinality(T) <= Cardinality(Q) BY <1>3, <1>4, FS_Subset
<1>6. Cardinality(T) \in Nat /\ Cardinality(Q) \in Nat BY <1>4, <1>5, FS_CardinalityType
<1> QED BY <1>1, <1>2, <1>4, <1>5, <1>6

\* outputRemoved.
LEMMA OutputRemovedKeeps ==
    ASSUME IInv, NEW o \in Outputs, NEW active \in BOOLEAN, NEW bad \in SUBSET Flaky,
           OutputRemoved(o, active, bad)
    PROVE  IInv' /\ Promised
<1>0. TypeOK /\ plugged \subseteq Outputs /\ jobs \in [Outputs -> Seq(Job)] BY DEF IInv, TypeOK
<1>1. /\ Idle /\ plugged' = plugged \ {o} /\ on' \subseteq (on \ {o}) \cup plugged'
      /\ mode' \in {mode, "extension"} /\ dpms' = dpms \ {o}
      /\ proxy' = [m \in Outputs |-> IF m = o THEN NoOutput
                                     ELSE IF proxy[m] = o THEN Dangling ELSE proxy[m]]
      /\ jobs' = [jobs EXCEPT ![o] = <<>>] /\ req' = LoseJobs(req, o) /\ queued' = TRUE
      /\ UNCHANGED <<scanning, single, group, eff, pend, inFlight, dirty, loop, run>>
      /\ loop = NoLoop /\ run = NoRun
  BY DEF OutputRemoved, ForgetOutput, Idle
<1>2. /\ jobs' \in [Outputs -> Seq(Job)] /\ jobs'[o] = <<>>
      /\ \A m \in Outputs \ {o} : jobs'[m] = jobs[m]
  BY <1>0, <1>1
<1>3. TypeOK'
  <2>1. req' \in [Configs -> CR!Request]
    <3>1. CASE Configs = {} BY <1>0, <1>1, <3>1 DEF LoseJobs, TypeOK
    <3>2. CASE Configs # {} BY <1>0, <1>1, <3>2, LoseJobsHeads
    <3> QED BY <3>1, <3>2
  <2>2. proxy' \in [Outputs -> Outputs \cup {NoOutput, Dangling}] BY <1>0, <1>1 DEF TypeOK
  <2> QED BY <1>0, <1>1, <1>2, <2>1, <2>2 DEF TypeOK, scanning
<1>4. Nesting'
  <2>1. Heads(loop.want) = {} BY <1>1 DEF Heads, NoLoop
  <2>2. \A m \in Outputs \ plugged' : jobs'[m] = <<>> /\ proxy'[m] = NoOutput
    <3>1. \A m \in Outputs \ plugged : jobs[m] = <<>> /\ proxy[m] = NoOutput
      BY DEF IInv, Nesting
    <3> QED BY <1>1, <1>2, <3>1, OutputConfigAssumption
  <2>3. Heads(loop.want)' = {} BY <1>1, <2>1 DEF Heads
  <2> QED BY <1>1, <2>2, <2>3 DEF Nesting
<1>5. /\ \A m \in Outputs, i \in Nat, c \in Pointers : m # o => (At(c, m, i)' <=> At(c, m, i))
      /\ \A i \in Nat, c \in Pointers : ~At(c, o, i)'
  <2>1. \A m \in Outputs : Todo(m) = jobs[m] /\ Todo(m)' = jobs'[m]
    BY <1>1, OutputConfigAssumption DEF NoRun, Todo
  <2> QED BY <1>2, <2>1 DEF At
<1>6. \A c \in Configs :
        /\ req'[c].life = req[c].life /\ req'[c].stale = req[c].stale
        /\ \A m \in Outputs : req'[c].head[m] =
             IF req[c].life = "asked" /\ m = o /\ req[c].head[m] = "queued"
             THEN "lost" ELSE req[c].head[m]
        /\ req[c].life # "asked" \/ req[c].head[o] # "queued" => req'[c] = req[c]
  BY <1>0, <1>1, LoseJobsHeads
<1>7. \A c \in Configs : c # pend.cfg => req'[c] = req[c]
  BY <1>6 DEF IInv, OnePending
<1>8. OnePending' BY <1>1, <1>6, <1>7 DEF IInv, OnePending
<1>9. pend.cfg # NoConfig => pend.cfg \in Configs BY <1>0 DEF TypeOK
<1>10. Progressing'
  <2> SUFFICES ASSUME pend.cfg # NoConfig PROVE HeadsOf(pend.cfg, req[pend.cfg].head)'
    BY <1>1 DEF Progressing
  <2> DEFINE c == pend.cfg
             h == req[c].head
             k == req'[c].head
  <2>1. c \in Configs /\ c \in Pointers BY <1>9 DEF Pointers
  <2>2. HeadsOf(c, h) BY DEF IInv, Progressing
  <2>3. \A m \in Outputs : k[m] = IF m = o /\ h[m] = "queued" THEN "lost" ELSE h[m]
    <3>1. req[c].life = "asked" BY <2>1 DEF IInv, OnePending
    <3> QED BY <1>6, <2>1, <3>1
  <2>4. /\ \A m \in Outputs, i \in Nat : m # o => (At(c, m, i)' <=> At(c, m, i))
        /\ \A i \in Nat : ~At(c, o, i)'
        /\ pend' = pend /\ loop' = loop /\ loop = NoLoop
    BY <1>1, <1>5, <2>1
  <2>5. Waiting(k) = Waiting(h) BY <2>3 DEF Waiting
  <2>6. pend'.left = Cardinality(Waiting(k)) /\ pend'.left > 0
    BY <2>2, <2>4, <2>5 DEF HeadsOf
  <2>7. \A m \in Outputs :
          /\ k[m] = "wanted" <=> loop'.want[m] # "none"
          /\ k[m] = "queued" <=> \E i \in Nat : At(c, m, i)'
          /\ k[m] = "failed" => ~pend'.ok
          /\ \A i, j \in Nat : At(c, m, i)' /\ At(c, m, j)' => i = j
    BY <2>2, <2>3, <2>4 DEF HeadsOf
  <2>8. loop' = NoLoop BY <2>4
  <2> QED BY <2>4, <2>6, <2>7, <2>8 DEF HeadsOf
<1>11. Counters'
  <2>0. IsFiniteSet(Owed) /\ Cardinality(Owed) \in Nat /\ Cardinality(Owed) <= inFlight
    BY FS_CardinalityType DEF IInv, Counters
  <2>1. \A m \in Outputs : m # o => (Lost(m)' <=> Lost(m))
    BY <1>1, <1>6, <1>9 DEF Lost
  <2>2. Owed' \subseteq (Owed \ {<<o, i>> : i \in Nat \ {0}}) \cup {<<o, 0>>}
    BY <1>5, <2>1 DEF Owed
  <2>3. IsFiniteSet(Owed') /\ Cardinality(Owed') <= Cardinality(Owed)
    <3>1. CASE <<o, 0>> \in Owed' /\ <<o, 0>> \notin Owed
      <4>1. ~At(pend.cfg, o, 0)
        BY <1>0, <1>1, OutputConfigAssumption DEF At, Todo, NoRun
      <4>2. pend.cfg \in Configs /\ req[pend.cfg].head[o] = "queued"
        BY <1>1, <1>5, <1>6, <1>9, <3>1 DEF Owed, Lost
      <4>3. PICK i \in Nat : At(pend.cfg, o, i)
        <5>1. pend.cfg # NoConfig BY <4>2, OutputConfigAssumption
        <5>2. HeadsOf(pend.cfg, req[pend.cfg].head) BY <5>1 DEF IInv, Progressing
        <5> QED BY <4>2, <5>2 DEF HeadsOf
      <4>4. i # 0 /\ <<o, i>> \in Owed BY <4>1, <4>2, <4>3 DEF Owed, Pointers
      <4>5. Owed' \subseteq (Owed \ {<<o, i>>}) \cup {<<o, 0>>} BY <2>2, <4>4
      <4> QED BY <2>0, <4>4, <4>5, Swapped
    <3>2. CASE ~(<<o, 0>> \in Owed' /\ <<o, 0>> \notin Owed)
      <4>1. Owed' \subseteq Owed BY <2>2, <3>2
      <4> QED BY <2>0, <4>1, FS_Subset
    <3> QED BY <3>1, <3>2
  <2>4. Cardinality(Owed') \in Nat BY <2>3, FS_CardinalityType
  <2> QED BY <1>1, <2>0, <2>3, <2>4 DEF IInv, Counters, Heads, TypeOK
<1>12. TornDown' /\ Reconciled'
  <2>1. Mirrors' \subseteq Mirrors
    BY <1>0, <1>1, OutputConfigAssumption DEF Mirrors
  <2> QED BY <1>1, <2>1 DEF IInv, TornDown, Reconciled
<1>13. Promised
  <2> SUFFICES ASSUME NEW c \in Configs, c = pend.cfg PROVE CR!Allowed(req[c], req'[c])
    BY <1>7 DEF Promised
  <2>1. /\ ~req'[c].stale /\ req[c].life = "asked" /\ req'[c].life = "asked"
    BY <1>6 DEF IInv, OnePending
  <2>2. CR!Progress(req[c].head, req'[c].head)
    BY <1>6 DEF CR!Progress, CR!Moves
  <2> QED BY <2>1, <2>2 DEF CR!Allowed, CR!Working
<1> QED BY <1>3, <1>4, <1>8, <1>10, <1>11, <1>12, <1>13 DEF IInv

-----------------------------------------------------------------------------
(* A configuration is applied *)

\* sendResult on one request.
LEMMA SendResultTyped ==
    ASSUME NEW r \in [Configs -> CR!Request], NEW c \in Configs, NEW ok \in BOOLEAN
    PROVE  /\ sendResult(r, c, ok) \in [Configs -> CR!Request]
           /\ sendResult(r, c, ok)[c].life = IF ok THEN "ok" ELSE "failed"
           /\ sendResult(r, c, ok)[c].head = IF ok THEN r[c].head ELSE CR!Nothing
           /\ r[c].life = "asked" => ~sendResult(r, c, ok)[c].stale
           /\ \A d \in Configs \ {c} : sendResult(r, c, ok)[d] = r[d]
<1> DEFINE a == [life |-> IF ok THEN "ok" ELSE "failed",
                 head |-> IF ok THEN r[c].head ELSE CR!Nothing,
                 stale |-> r[c].life # "asked"]
<1>1. CR!Nothing \in [Outputs -> CR!Phases] /\ r[c].head \in [Outputs -> CR!Phases]
  BY DEF CR!Nothing, CR!Phases, CR!Request
<1>2. a \in CR!Request BY <1>1 DEF CR!Request
<1>3. sendResult(r, c, ok) = [r EXCEPT ![c] = a] BY DEF sendResult
<1>4. /\ a.life = IF ok THEN "ok" ELSE "failed"
      /\ a.head = (IF ok THEN r[c].head ELSE CR!Nothing) /\ (r[c].life = "asked" => ~a.stale)
  OBVIOUS
<1> HIDE DEF a
<1> QED BY <1>2, <1>3, <1>4

\* The answer to the pending configuration: what ConfigRequests asks of it.
LEMMA AnswerAllowed ==
    ASSUME IInv, NEW ok \in BOOLEAN, pend.cfg # NoConfig,
           ok => CR!AllDone(req[pend.cfg].head)
    PROVE  CR!Allowed(req[pend.cfg], sendResult(req, pend.cfg, ok)[pend.cfg])
<1> DEFINE c == pend.cfg
           t == sendResult(req, c, ok)[c]
<1>1. c \in Configs /\ req \in [Configs -> CR!Request] BY DEF IInv, TypeOK
<1>2. /\ t.life = (IF ok THEN "ok" ELSE "failed")
      /\ t.head = (IF ok THEN req[c].head ELSE CR!Nothing)
      /\ req[c].life = "asked" => ~t.stale
  BY <1>1, SendResultTyped
<1>3. req[c].life = "asked" BY <1>1 DEF IInv, OnePending
<1>4. \/ t.life = "failed" /\ t.head = CR!Nothing
      \/ t.life = "ok" /\ CR!Progress(req[c].head, t.head) /\ CR!AllDone(t.head)
  BY <1>2 DEF CR!Progress
<1>5. t.life # "asked" /\ ~t.stale BY <1>2, <1>3
<1> HIDE DEF t, c
<1>6. CR!Answered(req[c], t) BY <1>2, <1>3, <1>4, <1>5 DEF CR!Answered
<1>7. CR!Allowed(req[c], t) BY <1>5, <1>6 DEF CR!Allowed
<1> QED BY <1>7 DEF t, c

\* Answering the pending configuration leaves none that is owed an answer.
LEMMA AnsweredOnePending ==
    ASSUME IInv, NEW ok \in BOOLEAN, pend.cfg # NoConfig,
           req' = sendResult(req, pend.cfg, ok), pend' = NoPend, loop'.cfg = NoConfig
    PROVE  OnePending' /\ Progressing' /\ req' \in [Configs -> CR!Request]
<1>1. pend.cfg \in Configs /\ req \in [Configs -> CR!Request] BY DEF IInv, TypeOK
<1>2. /\ req'[pend.cfg].life # "asked"
      /\ req[pend.cfg].life = "asked" => ~req'[pend.cfg].stale
      /\ \A d \in Configs \ {pend.cfg} : req'[d] = req[d]
      /\ req' \in [Configs -> CR!Request]
  BY <1>1, SendResultTyped
<1>3. pend'.cfg = NoConfig /\ \A c \in Configs : c # NoConfig
  BY OutputConfigAssumption DEF NoPend
<1>4. OnePending'
  <2>1. \A d \in Configs : /\ req[d].life = "asked" <=> pend.cfg = d
                           /\ ~req[d].stale
    BY DEF IInv, OnePending
  <2>2. ~req'[pend.cfg].stale BY <1>1, <1>2, <2>1
  <2>3. \A d \in Configs : ~req'[d].stale /\ req'[d].life # "asked"
    BY <1>1, <1>2, <2>1, <2>2
  <2> QED BY <1>3, <2>3 DEF OnePending
<1>5. Progressing' BY <1>3 DEF Progressing
<1> QED BY <1>2, <1>4, <1>5

\* The start of testOrApplyConfiguration.
LEMMA ApplyKeeps ==
    ASSUME IInv, ~Reuse, NEW c \in Configs, NEW want \in [Outputs -> Wants],
           NEW bad \in SUBSET Flaky, Apply(c, want, bad)
    PROVE  IInv' /\ Promised
<1> DEFINE H == [o \in Outputs |-> IF o \in Heads(want) THEN "wanted" ELSE "none"]
           S == Superseded
<1>0. /\ TypeOK /\ c # NoConfig /\ c \in Pointers /\ c # pend.cfg /\ Heads(want) \in SUBSET Outputs
      /\ pend.cfg # NoConfig => pend.cfg \in Configs
      /\ req \in [Configs -> CR!Request]
  BY OutputConfigAssumption DEF IInv, TypeOK, OnePending, Apply, Pointers, Heads
<1>1. /\ Idle /\ req[c].life # "asked" /\ Heads(want) \subseteq plugged
      /\ inFlight + Cardinality(Heads(want)) <= MaxInFlight
      /\ \A o \in Outputs : ~HasJobOf(c, o)
      /\ req' = [S EXCEPT ![c].life = "asked", ![c].head = H]
      /\ pend' = [cfg |-> c, left |-> 0, ok |-> TRUE]
      /\ single' \in {NoOutput, single}
      /\ on' \subseteq on \cup plugged
      /\ proxy' = [o \in Outputs |-> NoOutput]
      /\ jobs' = [o \in Outputs |-> IF o \in Mirrors THEN Created(o) ELSE jobs[o]]
      /\ loop' = [cfg |-> c, want |-> want, sync |-> NoOutput]
      /\ queued' \in BOOLEAN /\ (queued => queued')
      /\ UNCHANGED <<scanning, plugged, dpms, mode, group, eff, inFlight, dirty, run>>
  BY DEF Apply, Unclaimed, StillLit, Relit, IInv, TypeOK
<1> HIDE DEF S
<1>2. /\ S \in [Configs -> CR!Request]
      /\ \A d \in Configs : d # pend.cfg => S[d] = req[d]
      /\ pend.cfg # NoConfig => /\ S[pend.cfg] = sendResult(req, pend.cfg, FALSE)[pend.cfg]
                                /\ S[pend.cfg].life = "failed" /\ ~S[pend.cfg].stale
                                /\ S[pend.cfg].head = CR!Nothing
  <2>1. CASE pend.cfg = NoConfig BY <1>0, <2>1 DEF S, Superseded
  <2>2. CASE pend.cfg # NoConfig
    <3>1. S = sendResult(req, pend.cfg, FALSE) BY <2>2 DEF S, Superseded
    <3>2. req[pend.cfg].life = "asked" BY <1>0, <2>2 DEF IInv, OnePending
    <3>3. /\ S \in [Configs -> CR!Request] /\ S[pend.cfg].life = "failed"
          /\ S[pend.cfg].head = CR!Nothing /\ ~S[pend.cfg].stale
          /\ \A d \in Configs \ {pend.cfg} : S[d] = req[d]
      <4> PICK no \in BOOLEAN : no = FALSE OBVIOUS
      <4>1. S = sendResult(req, pend.cfg, no) BY <3>1
      <4> QED BY <1>0, <2>2, <3>2, <4>1, SendResultTyped
    <3> QED BY <3>1, <3>3
  <2> QED BY <2>1, <2>2
<1>3. H \in [Outputs -> CR!Phases] /\ \A o \in Outputs : H[o] = IF want[o] # "none" THEN "wanted" ELSE "none"
  BY DEF CR!Phases, Heads
<1> HIDE DEF H
<1>4. /\ req' \in [Configs -> CR!Request]
      /\ req'[c].life = "asked" /\ req'[c].head = H /\ ~req'[c].stale
      /\ \A d \in Configs \ {c} : req'[d] = S[d]
  <2>1. S[c] = req[c] /\ ~req[c].stale BY <1>0, <1>2 DEF IInv, OnePending
  <2>2. req' = [S EXCEPT ![c] = [S[c] EXCEPT !.life = "asked", !.head = H]]
    BY <1>1, <1>2
  <2>3. S[c] \in CR!Request BY <1>2
  <2> DEFINE t == [S[c] EXCEPT !.life = "asked", !.head = H]
  <2>4. t \in CR!Request /\ t.life = "asked" /\ t.head = H /\ t.stale = S[c].stale
    BY <1>3, <2>3 DEF CR!Request
  <2> HIDE DEF t
  <2>5. req' = [S EXCEPT ![c] = t] BY <2>2 DEF t
  <2> QED BY <1>2, <2>1, <2>4, <2>5
<1>5. /\ jobs' \in [Outputs -> Seq(Job)]
      /\ \A o \in Outputs : jobs'[o] = jobs[o] \/ Colored(jobs'[o])
  BY <1>0, <1>1, CreatedColored DEF TypeOK
<1>6. TypeOK'
  <2>1. pend' \in [cfg : Configs \cup {NoConfig}, left : Nat, ok : BOOLEAN] BY <1>1
  <2>2. loop' \in [cfg : Configs \cup {NoConfig}, want : [Outputs -> Wants],
                   sync : Outputs \cup {NoOutput}]
    BY <1>1
  <2>3. proxy' \in [Outputs -> Outputs \cup {NoOutput, Dangling}] BY <1>1
  <2> QED BY <1>0, <1>1, <1>4, <1>5, <2>1, <2>2, <2>3 DEF TypeOK, scanning
<1>7. Nesting'
  <2>1. loop'.cfg # NoConfig /\ loop'.want = want /\ run' = NoRun BY <1>0, <1>1 DEF Idle
  <2>2. \A o \in Outputs \ plugged : o \notin Mirrors /\ jobs[o] = <<>>
    BY DEF IInv, Nesting, Mirrors
  <2>3. \A o \in Outputs \ plugged' : jobs'[o] = <<>> /\ proxy'[o] = NoOutput
    BY <1>1, <2>2
  <2> QED BY <1>1, <2>1, <2>3 DEF Nesting
<1>8. \A o \in Outputs, i \in Nat, d \in Pointers : At(d, o, i)' => At(d, o, i) /\ d # c
  <2> SUFFICES ASSUME NEW o \in Outputs, NEW i \in Nat, NEW d \in Pointers, At(d, o, i)'
               PROVE  At(d, o, i) /\ d # c
    OBVIOUS
  <2>1. Todo(o) = jobs[o] /\ Todo(o)' = jobs'[o] /\ d # Color
    BY <1>1, OutputConfigAssumption DEF Idle, NoRun, Todo, Pointers
  <2>2. At(d, o, i) BY <1>5, <2>1 DEF At, Colored
  <2> QED BY <1>1, <2>1, <2>2 DEF At, HasJobOf
<1>9. Counters'
  <2>1. \A m \in Outputs : ~Lost(m)' BY <1>1, <1>3, <1>4 DEF Lost
  <2>2. Owed' \subseteq Owed BY <1>8, <2>1 DEF Owed
  <2>3. IsFiniteSet(Owed') /\ Cardinality(Owed') <= Cardinality(Owed)
    BY <2>2, FS_Subset DEF IInv, Counters
  <2>4. /\ Cardinality(Owed') \in Nat /\ Cardinality(Owed) \in Nat
        /\ Cardinality(Owed) <= inFlight /\ inFlight \in Nat
    BY <1>0, <2>3, FS_CardinalityType DEF IInv, Counters, TypeOK
  <2>5. Heads(loop.want)' = Heads(want) BY <1>1 DEF Heads
  <2> QED BY <1>1, <2>3, <2>4, <2>5 DEF Counters
<1>10. OnePending'
  <2>1. \A d \in Configs \ {c} : req'[d].life # "asked" /\ ~req'[d].stale
    <3> SUFFICES ASSUME NEW d \in Configs \ {c}
                 PROVE  req'[d].life # "asked" /\ ~req'[d].stale
      OBVIOUS
    <3>1. CASE d = pend.cfg BY <1>0, <1>2, <1>4, <3>1, OutputConfigAssumption
    <3>2. CASE d # pend.cfg
      <4>1. req'[d] = req[d] BY <1>2, <1>4, <3>2
      <4> QED BY <3>2, <4>1 DEF IInv, OnePending
    <3> QED BY <3>1, <3>2
  <2>2. pend'.cfg = c /\ loop'.cfg = c BY <1>1
  <2> QED BY <1>4, <2>1, <2>2 DEF OnePending
<1>11. Progressing'
  <2>1. /\ pend'.cfg = c /\ pend'.left = 0 /\ req'[pend'.cfg].head = H
        /\ loop'.want = want /\ loop' # NoLoop
    BY <1>0, <1>1, <1>4 DEF NoLoop
  <2>2. Waiting(H) = {} BY <1>3 DEF Waiting
  <2>3. Cardinality(Waiting(H)) = 0 BY <2>2, FS_EmptySet
  <2>4. \A o \in Outputs, i \in Nat : ~At(c, o, i)' BY <1>0, <1>8
  <2>5. HeadsOf(pend.cfg, req[pend.cfg].head)'
    BY <1>3, <2>1, <2>3, <2>4 DEF HeadsOf
  <2> QED BY <2>5 DEF Progressing
<1>12. TornDown' /\ Reconciled'
  <2>1. \A o \in plugged' : proxy'[o] = NoOutput BY <1>0, <1>1 DEF TypeOK
  <2>2. Mirrors' = {} BY <2>1 DEF Mirrors
  <2>3. loop' # NoLoop BY <1>0, <1>1 DEF NoLoop
  <2>4. ~(\E o \in plugged' : proxy'[o] = Dangling) BY <2>1, OutputConfigAssumption
  <2> QED BY <1>1, <2>2, <2>3, <2>4 DEF IInv, TornDown, Reconciled
<1>13. Promised
  <2> SUFFICES ASSUME NEW d \in Configs, req'[d] # req[d]
               PROVE  CR!Allowed(req[d], req'[d])
    BY DEF Promised
  <2>1. CASE d = c
    <3>1. H \in [Outputs -> {"none", "wanted"}] BY <1>3
    <3> QED BY <1>1, <1>4, <2>1, <3>1 DEF CR!Allowed, CR!Asked
  <2>2. CASE d # c
    <3>1. d = pend.cfg /\ pend.cfg # NoConfig BY <1>2, <1>4, <2>2, OutputConfigAssumption
    <3>2. req'[d] = sendResult(req, pend.cfg, FALSE)[pend.cfg] BY <1>2, <1>4, <2>2, <3>1
    <3> QED BY <3>1, <3>2, AnswerAllowed
  <2> QED BY <2>1, <2>2
<1> QED BY <1>6, <1>7, <1>9, <1>10, <1>11, <1>12, <1>13 DEF IInv

-----------------------------------------------------------------------------
(* The loop over the heads *)

\* The loop ends with an answer to its configuration.
LEMMA LoopAnsweredKeeps ==
    ASSUME IInv, loop.cfg # NoConfig, run = NoRun, NEW ok \in BOOLEAN,
           ok => CR!AllDone(req[loop.cfg].head),
           req' = sendResult(req, loop.cfg, ok), pend' = NoPend, loop' = NoLoop, queued' = TRUE,
           UNCHANGED <<scanning, plugged, dpms, power, groups, jobs, inFlight, dirty, run>>
    PROVE  IInv' /\ Promised
<1>1. TypeOK /\ pend.cfg = loop.cfg /\ pend.cfg # NoConfig /\ loop'.cfg = NoConfig
  BY DEF IInv, OnePending, NoLoop
<1>2. OnePending' /\ Progressing' /\ req' \in [Configs -> CR!Request]
  BY <1>1, AnsweredOnePending
<1>3. /\ pend' \in [cfg : Configs \cup {NoConfig}, left : Nat, ok : BOOLEAN]
      /\ loop' \in [cfg : Configs \cup {NoConfig}, want : [Outputs -> Wants],
                    sync : Outputs \cup {NoOutput}]
  BY DEF NoPend, NoLoop, Wants
<1>4. TypeOK' BY <1>1, <1>2, <1>3 DEF TypeOK, scanning, power, groups
<1>5. Heads(loop.want)' = {} BY DEF Heads, NoLoop
<1>6. Nesting' BY <1>5 DEF IInv, Nesting, groups
<1>7. Counters'
  <2>1. SameAt BY UnchangedAt
  <2>2. \A m \in Outputs : ~Lost(m)' BY DEF Lost, NoPend
  <2>3. Owed' \subseteq Owed BY <2>1, <2>2 DEF Owed, SameAt
  <2>4. IsFiniteSet(Owed') /\ Cardinality(Owed') <= Cardinality(Owed)
    BY <2>3, FS_Subset DEF IInv, Counters
  <2>5. /\ Cardinality(Owed') \in Nat /\ Cardinality(Owed) \in Nat
        /\ Cardinality(Owed) <= inFlight /\ inFlight \in 0..MaxInFlight
    BY <1>1, <2>4, FS_CardinalityType DEF IInv, Counters, TypeOK
  <2>6. Cardinality(Heads(loop.want)') = 0 BY <1>5, FS_EmptySet
  <2> QED BY <2>4, <2>5, <2>6, OutputConfigAssumption DEF Counters
<1>8. Mirrors = {} /\ Mirrors' = Mirrors BY <1>1 DEF IInv, TornDown, Mirrors, groups
<1>9. TornDown' /\ Reconciled' BY <1>8 DEF TornDown, Reconciled
<1>10. Promised
  <2> SUFFICES ASSUME NEW c \in Configs, req'[c] # req[c] PROVE CR!Allowed(req[c], req'[c])
    BY DEF Promised
  <2>1. req \in [Configs -> CR!Request] /\ pend.cfg \in Configs BY <1>1 DEF TypeOK
  <2>2. c = pend.cfg BY <1>1, <2>1, SendResultTyped
  <2> QED BY <1>1, <2>2, AnswerAllowed
<1> QED BY <1>2, <1>4, <1>6, <1>7, <1>9, <1>10 DEF IInv

\* How far the pending configuration c has come after a step.
LEMMA ProgressingNext ==
    ASSUME NEW c, NEW k, pend'.cfg = c, req'[c].head = k, HeadsOf(c, k)'
    PROVE  Progressing'
BY DEF Progressing, HeadsOf

\* The error returns in the middle of the loop.
LEMMA HeadErrorKeeps ==
    ASSUME IInv, NEW o \in Outputs, HeadError(o)
    PROVE  IInv' /\ Promised
BY LoopAnsweredKeeps DEF HeadError, AtHead

\* After the loop.
LEMMA LoopEndKeeps ==
    ASSUME IInv, LoopEnd
    PROVE  IInv' /\ Promised
<1>1. /\ loop.cfg # NoConfig /\ Heads(loop.want) = {} /\ run = NoRun
      /\ loop' = NoLoop /\ queued' = TRUE
      /\ UNCHANGED <<scanning, plugged, dpms, power, groups, jobs, inFlight, dirty, run>>
  BY DEF LoopEnd
<1>a. pend.cfg = loop.cfg /\ pend.cfg \in Configs BY <1>1 DEF IInv, OnePending, TypeOK
<1> PICK c \in Configs : c = pend.cfg BY <1>a
<1> PICK h : h = req[c].head OBVIOUS
<1>2. TypeOK /\ c = loop.cfg /\ h \in [Outputs -> CR!Phases] /\ loop # NoLoop
  BY <1>1, <1>a DEF IInv, TypeOK, CR!Request, NoLoop
<1>3. HeadsOf(c, h) BY <1>1, <1>2 DEF IInv, Progressing
<1>4. \A o \in Outputs : loop.want[o] = "none" /\ h[o] # "wanted"
  BY <1>1, <1>3 DEF Heads, HeadsOf
<1>5. CASE pend.left = 0
  <2>1. req' = sendResult(req, loop.cfg, TRUE) /\ pend' = NoPend BY <1>5 DEF LoopEnd
  <2>2. Waiting(h) = {}
    <3>1. Waiting(h) \in SUBSET Outputs BY DEF Waiting
    <3> QED BY <1>3, <1>5, <3>1, OutputsFinite DEF HeadsOf
  <2>3. \A o \in Outputs : h[o] = "none"
    BY <1>2, <1>3, <1>4, <2>2 DEF HeadsOf, Waiting
  <2>4. CR!AllDone(h) BY <2>3 DEF CR!AllDone
  <2> QED BY <1>1, <1>2, <2>1, <2>4, LoopAnsweredKeeps
<1>6. CASE pend.left # 0
  <2>1. UNCHANGED <<req, pend>> BY <1>6 DEF LoopEnd
  <2>2. loop' \in [cfg : Configs \cup {NoConfig}, want : [Outputs -> Wants],
                   sync : Outputs \cup {NoOutput}]
    BY <1>1 DEF NoLoop, Wants
  <2>3. TypeOK' BY <1>1, <1>2, <2>1, <2>2 DEF TypeOK, scanning, power, groups
  <2>4. /\ Heads(loop.want)' = {} /\ loop'.cfg = NoConfig
        /\ \A o \in Outputs : loop'.want[o] = "none"
    BY <1>1 DEF Heads, NoLoop
  <2>5. Nesting' BY <1>1, <2>4 DEF IInv, Nesting, groups
  <2>6. SameAt BY <1>1, UnchangedAt
  <2>7. Counters'
    <3>1. Owed' = Owed BY <2>1, <2>6 DEF Owed, SameAt, Lost
    <3> QED BY <1>1, <2>4, <3>1 DEF IInv, Counters
  <2>8. OnePending' BY <2>1, <2>4 DEF IInv, OnePending
  <2>9. Progressing'
    <3>1. \A o \in Outputs, i \in Nat : At(c, o, i)' <=> At(c, o, i)
      BY <1>2, <2>6 DEF SameAt, Pointers
    <3>2. pend.left > 0 BY <1>2, <1>6 DEF TypeOK
    <3>3. HeadsOf(c, h)'
      BY <1>1, <1>3, <1>4, <2>1, <2>4, <3>1, <3>2 DEF HeadsOf
    <3> QED BY <1>2, <2>1, <3>3, ProgressingNext
  <2>10. c # NoConfig BY <1>1, <1>2
  <2>11. Mirrors = {} /\ Mirrors' = Mirrors BY <1>1, <2>10 DEF IInv, TornDown, Mirrors, groups
  <2>12. TornDown' /\ Reconciled' BY <1>1, <2>11 DEF TornDown, Reconciled
  <2> QED BY <2>1, <2>3, <2>5, <2>7, <2>8, <2>9, <2>12 DEF IInv, Promised
<1> QED BY <1>5, <1>6

\* One head of the loop.
LEMMA HeadStepKeeps ==
    ASSUME IInv, ~EarlyFinish, NEW o \in Outputs, HeadStep(o)
    PROVE  IInv' /\ Promised
<1>1. /\ loop.cfg # NoConfig /\ loop.sync = NoOutput /\ run = NoRun /\ loop.want[o] # "none"
      /\ pend.left > 0 \/ o \notin TurnedOn(loop.want, on)
      /\ jobs' = [jobs EXCEPT ![o] = Append(@, [cfg |-> pend.cfg, power |-> loop.want[o]])]
      /\ pend' = [pend EXCEPT !.left = @ + 1]
      /\ inFlight' = inFlight + 1
      /\ loop' = [loop EXCEPT !.want[o] = "none",
                    !.sync = IF o \in TurnedOn(loop.want, on) THEN o ELSE NoOutput]
      /\ pend.cfg = loop.cfg => req' = [req EXCEPT ![loop.cfg].head[o] = "queued"]
      /\ UNCHANGED <<scanning, plugged, dpms, power, groups, dirty, queued, run>>
  BY DEF HeadStep, AtHead
<1>2. TypeOK /\ pend.cfg = loop.cfg /\ pend.cfg \in Configs BY <1>1 DEF IInv, OnePending, TypeOK
<1> PICK c \in Configs : c = pend.cfg BY <1>2
<1> PICK h : h = req[c].head OBVIOUS
<1> PICK n : n = Len(jobs[o]) OBVIOUS
<1>3. /\ h \in [Outputs -> CR!Phases] /\ HeadsOf(c, h) /\ c \in Pointers /\ c # NoConfig
      /\ n \in Nat
  <2>1. h \in [Outputs -> CR!Phases] BY <1>2 DEF TypeOK, CR!Request
  <2>2. HeadsOf(c, h) BY <1>1, <1>2 DEF IInv, Progressing
  <2>3. n \in Nat BY <1>2 DEF TypeOK
  <2> QED BY <2>1, <2>2, <2>3, OutputConfigAssumption DEF Pointers
<1>4. h[o] = "wanted" /\ \A i \in Nat : ~At(c, o, i) BY <1>1, <1>3 DEF HeadsOf
<1>5. /\ loop' \in [cfg : Configs \cup {NoConfig}, want : [Outputs -> Wants],
                    sync : Outputs \cup {NoOutput}]
      /\ loop'.cfg = c /\ loop' # NoLoop
      /\ loop'.sync = IF o \in TurnedOn(loop.want, on) THEN o ELSE NoOutput
      /\ \A m \in Outputs : loop'.want[m] = IF m = o THEN "none" ELSE loop.want[m]
  <2>1. loop \in [cfg : Configs \cup {NoConfig}, want : [Outputs -> Wants],
                  sync : Outputs \cup {NoOutput}]
    BY <1>2 DEF TypeOK
  <2>2. /\ loop'.cfg = c /\ loop'.want = [loop.want EXCEPT ![o] = "none"]
        /\ loop'.sync = IF o \in TurnedOn(loop.want, on) THEN o ELSE NoOutput
    BY <1>1, <1>2, <2>1
  <2>3. loop' \in [cfg : Configs \cup {NoConfig}, want : [Outputs -> Wants],
                   sync : Outputs \cup {NoOutput}]
    BY <1>1, <2>1 DEF Wants
  <2>4. loop' # NoLoop BY <1>3, <2>2 DEF NoLoop
  <2> QED BY <2>1, <2>2, <2>3, <2>4
<1>6. /\ pend' \in [cfg : Configs \cup {NoConfig}, left : Nat, ok : BOOLEAN]
      /\ pend'.cfg = c /\ pend'.left = pend.left + 1 /\ (~pend.ok => ~pend'.ok)
  <2>1. /\ pend \in [cfg : Configs \cup {NoConfig}, left : Nat, ok : BOOLEAN]
        /\ pend.left + 1 \in Nat
    BY <1>2 DEF TypeOK
  <2>2. pend'.cfg = pend.cfg /\ pend'.left = pend.left + 1 /\ pend'.ok = pend.ok
    BY <1>1, <2>1
  <2>3. pend' \in [cfg : Configs \cup {NoConfig}, left : Nat, ok : BOOLEAN]
    BY <1>1, <2>1
  <2> QED BY <2>2, <2>3
<1>7. /\ req' \in [Configs -> CR!Request]
      /\ req'[c].life = req[c].life /\ (req'[c].stale <=> req[c].stale)
      /\ req'[c].head = [h EXCEPT ![o] = "queued"]
      /\ \A d \in Configs \ {c} : req'[d] = req[d]
  <2> DEFINE t == [req[c] EXCEPT !.head[o] = "queued"]
  <2>1. req[c] \in CR!Request /\ req \in [Configs -> CR!Request] BY <1>2 DEF TypeOK
  <2>2. /\ t \in CR!Request /\ t.life = req[c].life /\ (t.stale <=> req[c].stale)
        /\ t.head = [h EXCEPT ![o] = "queued"]
    BY <1>3, <2>1 DEF CR!Request, CR!Phases
  <2>3. req' = [req EXCEPT ![c] = t] BY <1>1, <1>2
  <2> HIDE DEF t
  <2> QED BY <2>1, <2>2, <2>3
<1> PICK k : k = [h EXCEPT ![o] = "queued"] OBVIOUS
<1>8. req'[c].head = k /\ \A m \in Outputs : k[m] = IF m = o THEN "queued" ELSE h[m]
  BY <1>3, <1>7
<1>9. /\ jobs' \in [Outputs -> Seq(Job)]
      /\ \A m \in Outputs \ {o} : jobs'[m] = jobs[m]
      /\ DOMAIN jobs'[o] = 1..(n + 1) /\ DOMAIN jobs[o] = 1..n
      /\ \A i \in 1..n : jobs'[o][i] = jobs[o][i]
      /\ jobs'[o][n + 1].cfg = c
  <2> DEFINE J == [cfg |-> pend.cfg, power |-> loop.want[o]]
  <2>1. loop.want[o] \in {"on", "off", "keep"} BY <1>1, <1>2 DEF TypeOK, Wants
  <2>2. J \in Job /\ J.cfg = c BY <1>2, <2>1 DEF Job
  <2>3. jobs' = [jobs EXCEPT ![o] = Append(jobs[o], J)] BY <1>1
  <2> HIDE DEF J
  <2>4. jobs \in [Outputs -> Seq(Job)] /\ jobs[o] \in Seq(Job) BY <1>2 DEF TypeOK
  <2>5. /\ Append(jobs[o], J) \in Seq(Job) /\ Len(Append(jobs[o], J)) = n + 1
        /\ \A i \in 1..n : Append(jobs[o], J)[i] = jobs[o][i]
        /\ Append(jobs[o], J)[n + 1] = J
    BY <2>2, <2>4, AppendProperties
  <2>6. jobs'[o] = Append(jobs[o], J) /\ jobs' \in [Outputs -> Seq(Job)]
    BY <2>3, <2>4, <2>5
  <2>7. DOMAIN jobs'[o] = 1..(n + 1) /\ DOMAIN jobs[o] = 1..n
    BY <1>3, <2>4, <2>5, <2>6, LenProperties
  <2> QED BY <2>2, <2>3, <2>4, <2>5, <2>6, <2>7
<1>10. /\ \A m \in Outputs, i \in Nat, d \in Pointers :
            At(d, m, i)' <=> At(d, m, i) \/ (m = o /\ i = n + 1 /\ d = c)
       /\ \A d \in Pointers : ~At(d, o, n + 1)
  <2>1. \A m \in Outputs : Todo(m) = jobs[m] /\ Todo(m)' = jobs'[m]
    BY <1>1, OutputConfigAssumption DEF NoRun, Todo
  <2>2. \A m \in Outputs \ {o}, i \in Nat, d \in Pointers : At(d, m, i)' <=> At(d, m, i)
    BY <1>9, <2>1 DEF At
  <2>3. \A i \in Nat : i \in 1..(n + 1) <=> i \in 1..n \/ i = n + 1 BY <1>3
  <2>4. n + 1 \notin 1..n BY <1>3
  <2>5. \A i \in Nat, d \in Pointers : At(d, o, i)' <=> At(d, o, i) \/ (i = n + 1 /\ d = c)
    BY <1>9, <2>1, <2>3, <2>4 DEF At
  <2> QED BY <1>9, <2>1, <2>2, <2>4, <2>5 DEF At
<1>11. /\ Heads(loop.want)' = Heads(loop.want) \ {o} /\ o \in Heads(loop.want)
       /\ Heads(loop.want) \in SUBSET Outputs
  BY <1>1, <1>5 DEF Heads
<1>12. /\ Cardinality(Heads(loop.want)') = Cardinality(Heads(loop.want)) - 1
       /\ Cardinality(Heads(loop.want)) \in Nat /\ Cardinality(Heads(loop.want)) # 0
  <2>1. /\ IsFiniteSet(Heads(loop.want)) /\ Cardinality(Heads(loop.want)) \in Nat
        /\ Cardinality(Heads(loop.want)) # 0
    BY <1>11, OutputsFinite
  <2> PICK W : W = Heads(loop.want) OBVIOUS
  <2>2. IsFiniteSet(W) /\ o \in W BY <1>11, <2>1
  <2>3. Cardinality(W \ {o}) = Cardinality(W) - 1 BY <2>2, FS_RemoveElement
  <2> QED BY <1>11, <2>1, <2>3
<1>13. inFlight \in Nat /\ inFlight' \in 0..MaxInFlight
       /\ inFlight' + Cardinality(Heads(loop.want)') <= MaxInFlight
  BY <1>1, <1>2, <1>12, OutputConfigAssumption DEF IInv, Counters, TypeOK
<1>14. TypeOK'
  BY <1>1, <1>2, <1>5, <1>6, <1>7, <1>9, <1>13 DEF TypeOK, scanning, power, groups
<1>15. Nesting'
  <2>1. o \in plugged /\ Heads(loop.want)' \subseteq plugged' BY <1>1, <1>11 DEF IInv, Nesting
  <2>2. \A m \in Outputs \ plugged' : jobs'[m] = <<>> /\ proxy'[m] = NoOutput
    BY <1>1, <1>9, <2>1 DEF IInv, Nesting, groups
  <2> QED BY <1>1, <1>3, <1>5, <2>1, <2>2 DEF Nesting
<1>16. Counters'
  <2>1. \A m \in Outputs : Lost(m)' <=> Lost(m) BY <1>3, <1>4, <1>6, <1>8 DEF Lost
  <2>2. Owed' \subseteq Owed \cup {<<o, n + 1>>} BY <1>10, <2>1 DEF Owed
  <2> PICK x : x = <<o, n + 1>> OBVIOUS
  <2>3. IsFiniteSet(Owed) /\ Cardinality(Owed) \in Nat /\ Cardinality(Owed) <= inFlight
    BY FS_CardinalityType DEF IInv, Counters
  <2>4. IsFiniteSet(Owed \cup {x}) /\ Cardinality(Owed \cup {x}) <= Cardinality(Owed) + 1
    <3>1. PICK W : W = Owed OBVIOUS
    <3>2. /\ IsFiniteSet(W) /\ IsFiniteSet(W \cup {x}) /\ Cardinality(W) \in Nat
          /\ Cardinality(W \cup {x}) = IF x \in W THEN Cardinality(W) ELSE Cardinality(W) + 1
      BY <2>3, <3>1, FS_AddElement
    <3>3. Cardinality(W \cup {x}) <= Cardinality(W) + 1 BY <3>2
    <3> QED BY <3>1, <3>2, <3>3
  <2>5. IsFiniteSet(Owed') /\ Cardinality(Owed') <= Cardinality(Owed \cup {x})
    BY <2>2, <2>4, FS_Subset
  <2>6. Cardinality(Owed') \in Nat /\ Cardinality(Owed \cup {x}) \in Nat
    BY <2>4, <2>5, FS_CardinalityType
  <2> QED BY <1>1, <1>13, <2>3, <2>4, <2>5, <2>6 DEF Counters
<1>17. OnePending'
  BY <1>5, <1>6, <1>7 DEF IInv, OnePending
<1>18. Progressing'
  <2>1. pend'.left = Cardinality(Waiting(k))
    <3>1. Waiting(k) = Waiting(h) \cup {o} /\ o \notin Waiting(h) /\ Waiting(h) \in SUBSET Outputs
      BY <1>4, <1>8 DEF Waiting
    <3>2. IsFiniteSet(Waiting(h)) BY <3>1, OutputsFinite
    <3>3. Cardinality(Waiting(k)) = Cardinality(Waiting(h)) + 1 BY <3>1, <3>2, FS_AddElement
    <3> QED BY <1>3, <1>6, <3>3 DEF HeadsOf
  <2>2. ASSUME NEW m \in Outputs
        PROVE  /\ k[m] = "wanted" <=> loop'.want[m] # "none"
               /\ k[m] = "queued" <=> \E i \in Nat : At(c, m, i)'
               /\ k[m] = "failed" => ~pend'.ok
               /\ \A i, j \in Nat : At(c, m, i)' /\ At(c, m, j)' => i = j
    <3>1. CASE m = o
      <4>1. n + 1 \in Nat /\ \A i \in Nat : At(c, m, i)' <=> i = n + 1
        BY <1>3, <1>4, <1>10, <3>1
      <4> QED BY <1>5, <1>8, <3>1, <4>1
    <3>2. CASE m # o
      <4>1. \A i \in Nat : At(c, m, i)' <=> At(c, m, i) BY <1>3, <1>10, <3>2
      <4> QED BY <1>3, <1>5, <1>6, <1>8, <3>2, <4>1 DEF HeadsOf
    <3> QED BY <3>1, <3>2
  <2>3. \E m \in Outputs : k[m] = "queued" /\ m \notin {loop'.sync, run'.out}
    <3>1. run'.out = NoOutput /\ NoOutput \notin Outputs
      BY <1>1, OutputConfigAssumption DEF NoRun
    <3>2. CASE \A m \in Outputs : h[m] \in {"none", "wanted"}
      <4>1. Waiting(h) = {} BY <3>2 DEF Waiting
      <4>2. pend.left = 0 BY <1>3, <4>1, FS_EmptySet DEF HeadsOf
      <4>3. loop'.sync = NoOutput BY <1>1, <1>5, <4>2
      <4> QED BY <1>8, <3>1, <4>3
    <3>3. ASSUME NEW w \in Outputs, h[w] = "queued"
          PROVE  \E m \in Outputs : k[m] = "queued" /\ m \notin {loop'.sync, run'.out}
      BY <1>4, <1>5, <1>8, <3>1, <3>3
    <3>4. loop # NoLoop BY <1>1 DEF NoLoop
    <3> QED BY <1>3, <3>2, <3>3, <3>4 DEF HeadsOf
  <2>4. HeadsOf(c, k)' BY <1>5, <2>1, <2>2, <2>3 DEF HeadsOf
  <2> QED BY <1>6, <1>8, <2>4, ProgressingNext
<1>19. TornDown' /\ Reconciled'
  <2>1. Mirrors = {} /\ Mirrors' = Mirrors BY <1>1, <1>3 DEF IInv, TornDown, Mirrors, groups
  <2> QED BY <1>1, <1>5, <1>13, <2>1 DEF IInv, TornDown, Reconciled, groups
<1>20. Promised
  <2> SUFFICES CR!Allowed(req[c], req'[c]) BY <1>7 DEF Promised
  <2>1. req[c].life = "asked" /\ ~req[c].stale BY DEF IInv, OnePending
  <2>2. CR!Progress(req[c].head, req'[c].head)
    BY <1>4, <1>8 DEF CR!Progress, CR!Moves
  <2> QED BY <1>7, <2>1, <2>2 DEF CR!Allowed, CR!Working
<1> QED BY <1>14, <1>15, <1>16, <1>17, <1>18, <1>19, <1>20 DEF IInv

-----------------------------------------------------------------------------
(* WOutputHelper::commit and the calls of its jobs *)

\* A commit hands the jobs of its output over.
LEMMA CommitKeeps ==
    ASSUME IInv, NEW o \in Outputs, NEW ok \in BOOLEAN, Commit(o, ok)
    PROVE  IInv' /\ Promised
<1>1. /\ run = NoRun /\ jobs[o] # <<>> /\ (loop = NoLoop \/ loop.sync = o)
      /\ on' \subseteq on \cup {o}
      /\ run' = [out |-> o, todo |-> jobs[o], ok |-> ok]
      /\ jobs' = [jobs EXCEPT ![o] = <<>>]
      /\ UNCHANGED <<scanning, plugged, dpms, mode, single, groups, pend, inFlight,
                     dirty, queued, loop, req>>
  BY DEF Commit
<1>2. TypeOK /\ jobs \in [Outputs -> Seq(Job)] /\ o \in plugged
  BY <1>1 DEF IInv, TypeOK, Nesting
<1>3. /\ jobs' \in [Outputs -> Seq(Job)] /\ jobs'[o] = <<>>
      /\ \A m \in Outputs \ {o} : jobs'[m] = jobs[m]
      /\ run' \in [out : Outputs \cup {NoOutput}, todo : Seq(Job), ok : BOOLEAN]
      /\ run'.out = o /\ run'.todo = jobs[o]
  BY <1>1, <1>2
<1>4. TypeOK' BY <1>1, <1>2, <1>3 DEF TypeOK, scanning, groups
<1>5. \A m \in Outputs : Todo(m)' = Todo(m)
  BY <1>1, <1>3, OutputConfigAssumption DEF Todo, NoRun
<1>6. SameAt BY <1>5 DEF SameAt, At
<1>7. Counters' /\ OnePending' /\ Progressing' /\ Promised
  BY <1>1, <1>3, <1>6, SameJobsKeep DEF IInv
<1>8. Nesting'
  BY <1>1, <1>2, <1>3 DEF IInv, Nesting, Heads, groups
<1>9. TornDown' /\ Reconciled'
  BY <1>1 DEF IInv, TornDown, Reconciled, Mirrors, groups, ProxyIn
<1> QED BY <1>4, <1>7, <1>8, <1>9 DEF IInv

\* One job of the run is called: the jobs of its output move up by one.
ShiftAt(o) ==
    /\ \A m \in Outputs \ {o}, i \in Nat, c \in Pointers : At(c, m, i)' <=> At(c, m, i)
    /\ \A i \in Nat, c \in Pointers : At(c, o, i)' <=> i # 0 /\ At(c, o, i + 1)
    /\ \A m \in Outputs, c \in Pointers : ~At(c, m, 0)

LEMMA RunShifts ==
    ASSUME TypeOK, Nesting, RunJob, NEW o, o = run.out
    PROVE  o \in Outputs /\ run.todo \in Seq(Job) /\ run.todo # <<>> /\ jobs[o] = <<>> /\ ShiftAt(o)
<1>1. /\ run # NoRun
      /\ IF Len(run.todo) = 1 THEN run' = NoRun ELSE run' = [run EXCEPT !.todo = Tail(@)]
      /\ jobs' = jobs
  BY DEF RunJob
<1>2. /\ o \in Outputs /\ run.todo \in Seq(Job) /\ run.todo # <<>> /\ jobs[o] = <<>>
      /\ run \in [out : Outputs \cup {NoOutput}, todo : Seq(Job), ok : BOOLEAN]
      /\ jobs \in [Outputs -> Seq(Job)]
  BY <1>1 DEF TypeOK, Nesting
<1> PICK q : q = run.todo OBVIOUS
<1>3. Todo(o) = q /\ \A m \in Outputs \ {o} : Todo(m) = jobs[m] /\ Todo(m)' = jobs[m]
  <2>1. run'.out \in {o, NoOutput} BY <1>1, <1>2 DEF NoRun
  <2> QED BY <1>1, <2>1, OutputConfigAssumption DEF Todo
<1>4. q \in Seq(Job) /\ q # <<>> /\ Len(q) \in Nat /\ Len(q) # 0 /\ DOMAIN q = 1..Len(q)
  BY <1>2, LenProperties, EmptySeq
<1>5. \A i \in Nat, c \in Pointers : At(c, o, i)' <=> i # 0 /\ At(c, o, i + 1)
  <2>1. CASE Len(q) = 1
    <3>1. Todo(o)' = <<>> BY <1>1, <1>2, <2>1, OutputConfigAssumption DEF Todo, NoRun
    <3>2. \A i \in Nat : i # 0 => i + 1 \notin 1..1 OBVIOUS
    <3> QED BY <1>3, <1>4, <2>1, <3>1, <3>2 DEF At
  <2>2. CASE Len(q) # 1
    <3>1. Todo(o)' = Tail(q) BY <1>1, <1>2, <2>2 DEF Todo
    <3>2. /\ DOMAIN Tail(q) = 1..(Len(q) - 1)
          /\ \A i \in 1..(Len(q) - 1) : Tail(q)[i] = q[i + 1]
      BY <1>4, HeadTailProperties
    <3>3. \A i \in Nat : i \in 1..(Len(q) - 1) <=> i # 0 /\ i + 1 \in 1..Len(q)
      BY <1>4
    <3> QED BY <1>3, <1>4, <3>1, <3>2, <3>3 DEF At
  <2> QED BY <2>1, <2>2
<1>6. \A m \in Outputs : 0 \notin DOMAIN Todo(m)
  <2>1. \A m \in Outputs : Todo(m) \in Seq(Job) BY <1>2, <1>3
  <2>2. \A m \in Outputs : DOMAIN Todo(m) = 1..Len(Todo(m)) /\ Len(Todo(m)) \in Nat
    BY <2>1
  <2> QED BY <2>2
<1>7. \A m \in Outputs \ {o}, i \in Nat, c \in Pointers : At(c, m, i)' <=> At(c, m, i)
  BY <1>3 DEF At
<1> QED BY <1>2, <1>5, <1>6, <1>7 DEF ShiftAt, At

\* The job that is called is owed no more.
LEMMA OwedShrinks ==
    ASSUME Counters, NEW o \in Outputs, ShiftAt(o), \A m \in Outputs : Lost(m)' => Lost(m)
    PROVE  /\ IsFiniteSet(Owed') /\ Cardinality(Owed') \in Nat /\ Cardinality(Owed) \in Nat
           /\ Cardinality(Owed') <= Cardinality(Owed)
           /\ (\E c \in Pointers : At(c, o, 1)) => Cardinality(Owed') <= Cardinality(Owed) - 1
<1> PICK x : x = <<o, 1>> OBVIOUS
<1> PICK S, T : S = Owed' /\ T = Owed OBVIOUS
<1> DEFINE up(p) == IF p[1] = o /\ p[2] # 0 THEN <<o, p[2] + 1>> ELSE p
           f == [p \in S |-> up(p)]
<1>1. \A p \in S : up(p) \in T \ {x}
  <2> SUFFICES ASSUME NEW p \in S PROVE up(p) \in T \ {x} OBVIOUS
  <2>1. p \in Outputs \X Nat /\ p = <<p[1], p[2]>> BY DEF Owed
  <2>2. CASE p[2] = 0
    <3>1. Lost(p[1])
      BY <2>1, <2>2 DEF Owed, ShiftAt
    <3> QED BY <2>1, <2>2, <3>1 DEF Owed
  <2>3. CASE p[2] # 0 /\ p[1] = o
    <3>1. PICK c \in Pointers : At(c, p[1], p[2])' BY <2>3 DEF Owed
    <3>2. At(c, o, p[2] + 1) BY <2>1, <2>3, <3>1 DEF ShiftAt
    <3>3. up(p) = <<o, p[2] + 1>> /\ p[2] + 1 \in Nat /\ p[2] + 1 # 1 BY <2>1, <2>3
    <3> QED BY <3>2, <3>3 DEF Owed
  <2>4. CASE p[2] # 0 /\ p[1] # o
    <3>1. PICK c \in Pointers : At(c, p[1], p[2])' BY <2>4 DEF Owed
    <3>2. At(c, p[1], p[2]) BY <2>1, <2>4, <3>1 DEF ShiftAt
    <3> QED BY <2>1, <2>4, <3>2 DEF Owed
  <2> QED BY <2>2, <2>3, <2>4
<1>2. \A p, r \in S : up(p) = up(r) => p = r
  <2> SUFFICES ASSUME NEW p \in S, NEW r \in S, up(p) = up(r) PROVE p = r OBVIOUS
  <2>1. /\ p \in Outputs \X Nat /\ p = <<p[1], p[2]>>
        /\ r \in Outputs \X Nat /\ r = <<r[1], r[2]>>
    BY DEF Owed
  <2>2. up(p)[1] = p[1] /\ up(r)[1] = r[1] BY <2>1
  <2>3. /\ up(p)[2] = IF p[1] = o /\ p[2] # 0 THEN p[2] + 1 ELSE p[2]
        /\ up(r)[2] = IF r[1] = o /\ r[2] # 0 THEN r[2] + 1 ELSE r[2]
    BY <2>1
  <2>4. p[1] = r[1] /\ p[2] = r[2] BY <2>1, <2>2, <2>3
  <2> QED BY <2>1, <2>4
<1>3. f \in Injection(S, T \ {x})
  BY <1>1, <1>2 DEF Injection, IsInjective
<1> HIDE DEF f, up
<1>4. IsFiniteSet(T) /\ Cardinality(T) \in Nat BY FS_CardinalityType DEF Counters
<1>5. IsFiniteSet(T \ {x}) /\ Cardinality(T \ {x}) = IF x \in T THEN Cardinality(T) - 1 ELSE Cardinality(T)
  BY <1>4, FS_RemoveElement
<1>6. IsFiniteSet(S) /\ Cardinality(S) <= Cardinality(T \ {x}) BY <1>3, <1>5, FS_Injection
<1>7. Cardinality(S) \in Nat BY <1>6, FS_CardinalityType
<1>8. (\E c \in Pointers : At(c, o, 1)) => x \in T BY DEF Owed
<1> QED BY <1>4, <1>5, <1>6, <1>7, <1>8

\* What every call of a job does to the run and the loop.
LEMMA RunMovesOn ==
    ASSUME IInv, RunJob, NEW o, o = run.out
    PROVE  /\ Nesting' /\ Heads(loop.want)' = Heads(loop.want)
           /\ run' \in [out : Outputs \cup {NoOutput}, todo : Seq(Job), ok : BOOLEAN]
           /\ loop' \in [cfg : Configs \cup {NoConfig}, want : [Outputs -> Wants],
                         sync : Outputs \cup {NoOutput}]
           /\ loop'.cfg = loop.cfg /\ loop'.want = loop.want
           /\ loop' = NoLoop <=> loop = NoLoop
           /\ loop # NoLoop => loop.sync = o /\ {loop'.sync, run'.out} \subseteq {o, NoOutput}
<1>1. /\ run # NoRun
      /\ IF Len(run.todo) = 1
         THEN run' = NoRun /\ loop' = [loop EXCEPT !.sync = NoOutput]
         ELSE run' = [run EXCEPT !.todo = Tail(@)] /\ loop' = loop
      /\ UNCHANGED <<plugged, jobs, proxy>>
  BY DEF RunJob, groups
<1>2. /\ run \in [out : Outputs \cup {NoOutput}, todo : Seq(Job), ok : BOOLEAN]
      /\ loop \in [cfg : Configs \cup {NoConfig}, want : [Outputs -> Wants],
                   sync : Outputs \cup {NoOutput}]
      /\ o \in Outputs /\ run.todo \in Seq(Job) /\ run.todo # <<>> /\ jobs[o] = <<>>
      /\ loop # NoLoop => loop.sync = o
      /\ loop.cfg = NoConfig => loop = NoLoop
  BY <1>1, RunShifts DEF IInv, TypeOK, Nesting
<1>3. /\ loop'.cfg = loop.cfg /\ loop'.want = loop.want
      /\ loop' \in [cfg : Configs \cup {NoConfig}, want : [Outputs -> Wants],
                    sync : Outputs \cup {NoOutput}]
  BY <1>1, <1>2
<1>4. loop = NoLoop => loop' = NoLoop
  BY <1>1 DEF NoLoop
<1>5. loop # NoLoop => loop' # NoLoop
  BY <1>2, <1>3 DEF NoLoop
<1>6. /\ run' \in [out : Outputs \cup {NoOutput}, todo : Seq(Job), ok : BOOLEAN]
      /\ run' # NoRun => /\ run'.out = o /\ run'.todo # <<>> /\ loop' = loop
      /\ run'.out \in {o, NoOutput}
  <2>1. CASE Len(run.todo) = 1
    <3>1. NoRun \in [out : Outputs \cup {NoOutput}, todo : Seq(Job), ok : BOOLEAN]
      BY EmptySeq DEF NoRun
    <3>2. NoRun.out = NoOutput BY DEF NoRun
    <3> QED BY <1>1, <2>1, <3>1, <3>2
  <2>2. CASE Len(run.todo) # 1
    <3>1. Tail(run.todo) \in Seq(Job) /\ Tail(run.todo) # <<>>
      <4> PICK q \in Seq(Job) : q = run.todo BY <1>2
      <4>1. Len(q) \in Nat /\ Len(q) # 0 /\ Len(q) # 1 BY <1>2, <2>2, EmptySeq
      <4>2. Tail(q) \in Seq(Job) /\ Len(Tail(q)) = Len(q) - 1
        BY <1>2, HeadTailProperties
      <4>3. Len(Tail(q)) # 0 BY <4>1, <4>2
      <4> QED BY <4>2, <4>3
    <3> QED BY <1>1, <1>2, <2>2, <3>1
  <2> QED BY <2>1, <2>2
<1>7. loop # NoLoop => loop'.sync \in {o, NoOutput} BY <1>1, <1>2
<1>8. Heads(loop.want)' = Heads(loop.want) BY <1>3 DEF Heads
<1>9. Nesting'
  <2>1. loop'.cfg = NoConfig => loop' = NoLoop BY <1>2, <1>3, <1>4
  <2>2. run' # NoRun => /\ run'.out \in Outputs /\ run'.todo # <<>> /\ jobs'[run'.out] = <<>>
                        /\ loop' # NoLoop => loop'.sync = run'.out
    BY <1>1, <1>2, <1>6
  <2> QED BY <1>1, <1>8, <2>1, <2>2 DEF IInv, Nesting
<1> QED BY <1>2, <1>3, <1>4, <1>5, <1>6, <1>7, <1>8, <1>9

\* A colour job, or one that a configuration left that is not the pending one.
LEMMA RunLeftover ==
    ASSUME IInv, RunJob, NEW o, o = run.out, UNCHANGED <<pend, req>>,
           pend.cfg # NoConfig => ~At(pend.cfg, o, 1)
    PROVE  OnePending' /\ Progressing' /\ Promised
<1>1. TypeOK /\ Nesting BY DEF IInv
<1>2. o \in Outputs /\ ShiftAt(o) BY <1>1, RunShifts
<1>3. OnePending' BY RunMovesOn DEF IInv, OnePending
<1>4. Progressing'
  <2> SUFFICES ASSUME pend.cfg # NoConfig PROVE Progressing' BY DEF Progressing
  <2> PICK c \in Configs : c = pend.cfg BY <1>1 DEF TypeOK
  <2> PICK h : h = req[c].head OBVIOUS
  <2>1. HeadsOf(c, h) /\ ~At(c, o, 1) /\ c \in Pointers BY DEF IInv, Progressing, Pointers
  <2>2. ASSUME NEW m \in Outputs
        PROVE  /\ (\E i \in Nat : At(c, m, i)') <=> (\E i \in Nat : At(c, m, i))
               /\ \A i, j \in Nat : At(c, m, i)' /\ At(c, m, j)' => i = j
    <3>1. \A i, j \in Nat : At(c, m, i) /\ At(c, m, j) => i = j BY <2>1 DEF HeadsOf
    <3>2. CASE m # o BY <2>1, <1>2, <3>1, <3>2 DEF ShiftAt
    <3>3. CASE m = o
      <4>1. \A i \in Nat : At(c, m, i)' <=> i # 0 /\ At(c, m, i + 1)
        BY <1>2, <2>1, <3>3 DEF ShiftAt
      <4>2. ASSUME NEW i \in Nat, At(c, m, i) PROVE \E j \in Nat : At(c, m, j)'
        <5>1. i # 0 /\ i # 1 BY <1>2, <2>1, <3>3, <4>2 DEF ShiftAt
        <5>2. i - 1 \in Nat /\ i - 1 # 0 /\ (i - 1) + 1 = i BY <5>1
        <5>3. At(c, m, i - 1)' BY <4>1, <4>2, <5>2
        <5> QED BY <5>2, <5>3
      <4>3. \A i, j \in Nat : At(c, m, i)' /\ At(c, m, j)' => i = j
        <5> SUFFICES ASSUME NEW i \in Nat, NEW j \in Nat, At(c, m, i)', At(c, m, j)' PROVE i = j
          OBVIOUS
        <5>1. i + 1 \in Nat /\ j + 1 \in Nat OBVIOUS
        <5>2. i + 1 = j + 1 BY <3>1, <4>1, <5>1
        <5> QED BY <5>2
      <4>4. \A i \in Nat : At(c, m, i)' => \E j \in Nat : At(c, m, j)
        <5> SUFFICES ASSUME NEW i \in Nat, At(c, m, i)' PROVE \E j \in Nat : At(c, m, j)
          OBVIOUS
        <5>1. i + 1 \in Nat OBVIOUS
        <5> QED BY <4>1, <5>1
      <4> QED BY <4>2, <4>3, <4>4
    <3> QED BY <3>2, <3>3
  <2>3. loop'.want = loop.want /\ (loop' = NoLoop <=> loop = NoLoop)
    BY RunMovesOn
  <2>4. \A m \in Outputs : /\ h[m] = "wanted" <=> loop'.want[m] # "none"
                           /\ h[m] = "queued" <=> \E i \in Nat : At(c, m, i)'
                           /\ h[m] = "failed" => ~pend'.ok
    BY <2>1, <2>2, <2>3 DEF HeadsOf
  <2>5. loop' # NoLoop => \/ \A m \in Outputs : h[m] \in {"none", "wanted"}
                          \/ \E m \in Outputs : h[m] = "queued" /\ m \notin {loop'.sync, run'.out}
    <3> SUFFICES ASSUME loop # NoLoop, NEW m \in Outputs, h[m] = "queued", m # o
                 PROVE  m \notin {loop'.sync, run'.out}
      BY <2>1, <2>3 DEF HeadsOf
    <3> QED BY RunMovesOn, OutputConfigAssumption
  <2>6. pend'.left = Cardinality(Waiting(h)) /\ (loop' = NoLoop => pend'.left > 0)
    BY <2>1, <2>3 DEF HeadsOf
  <2>7. HeadsOf(c, h)' BY <2>2, <2>4, <2>5, <2>6 DEF HeadsOf
  <2> QED BY <2>7, ProgressingNext
<1> QED BY <1>3, <1>4 DEF Promised

\* A job of the pending configuration: the counter of its commits goes down, and
\* the last one answers it.
LEMMA RunPending ==
    ASSUME IInv, RunJob, NEW o, o = run.out, pend.cfg # NoConfig,
           Head(run.todo).cfg = pend.cfg
    PROVE  /\ OnePending' /\ Progressing' /\ Promised
           /\ req' \in [Configs -> CR!Request]
           /\ pend' \in [cfg : Configs \cup {NoConfig}, left : Nat, ok : BOOLEAN]
           /\ \A m \in Outputs : Lost(m)' => Lost(m)
<1>1. TypeOK /\ Nesting /\ pend.cfg \in Configs /\ Color \notin Configs
  BY OutputConfigAssumption DEF IInv, TypeOK
<1>2. /\ o \in Outputs /\ ShiftAt(o) /\ run.todo \in Seq(Job) /\ run.todo # <<>>
      /\ run.ok \in BOOLEAN
  BY <1>1, RunShifts DEF TypeOK
<1> PICK c \in Configs : c = pend.cfg BY <1>1
<1> PICK h, q : h = req[c].head /\ q = run.todo OBVIOUS
<1> PICK done \in BOOLEAN : done <=> run.ok /\ Len(q) = 1 OBVIOUS
<1> DEFINE D == IF done THEN "done" ELSE "failed"
           k == [h EXCEPT ![o] = D]
           left == pend.left - 1
           seen == [req EXCEPT ![c] = [req[c] EXCEPT !.head = k]]
<1>3. /\ h \in [Outputs -> CR!Phases] /\ HeadsOf(c, h) /\ c \in Pointers
      /\ req \in [Configs -> CR!Request] /\ req[c] \in CR!Request
      /\ pend \in [cfg : Configs \cup {NoConfig}, left : Nat, ok : BOOLEAN]
  <2>1. req \in [Configs -> CR!Request] /\ req[c] \in CR!Request BY <1>1 DEF TypeOK
  <2>2. h \in [Outputs -> CR!Phases] BY <2>1 DEF CR!Request
  <2> QED BY <1>1, <2>1, <2>2 DEF IInv, TypeOK, Progressing, Pointers
<1>4. Len(q) \in Nat /\ Len(q) # 0 /\ DOMAIN q = 1..Len(q) /\ q[1] = Head(q)
  BY <1>2, LenProperties, EmptySeq, HeadTailProperties
<1>5. /\ At(c, o, 1) /\ h[o] = "queued"
      /\ \A i \in Nat : ~At(c, o, i)'
      /\ \A i \in 2..Len(q) : q[i].cfg # c
  <2>1. Todo(o) = q BY DEF Todo
  <2>2. 1 \in Nat /\ At(c, o, 1) BY <1>4, <2>1 DEF At
  <2>3. h[o] = "queued" /\ \A i \in Nat : At(c, o, i) => i = 1
    BY <1>2, <1>3, <2>2 DEF HeadsOf
  <2>4. \A i \in Nat : ~At(c, o, i)'
    <3> SUFFICES ASSUME NEW i \in Nat, i # 0, At(c, o, i + 1) PROVE FALSE
      BY <1>2, <1>3 DEF ShiftAt
    <3>1. i + 1 \in Nat /\ i + 1 # 1 OBVIOUS
    <3> QED BY <2>3, <3>1
  <2>5. ASSUME NEW i \in 2..Len(q) PROVE q[i].cfg # c
    <3>1. i \in DOMAIN q /\ i \in Nat /\ i # 1 BY <1>4
    <3> QED BY <2>1, <2>3, <3>1 DEF At
  <2> QED BY <2>2, <2>3, <2>4, <2>5
<1>6. JobDone(req, Head(q), done) = seen
  <2>1. Head(q).cfg = c OBVIOUS
  <2>2. JobDone(req, Head(q), done) = [req EXCEPT ![c].head[o] = D]
    <3>1. req[c].life = "asked" BY DEF IInv, OnePending
    <3> QED BY <1>5, <2>1, <3>1 DEF JobDone
  <2> QED BY <1>3, <2>2
<1>7. /\ k \in [Outputs -> CR!Phases] /\ D \in {"done", "failed"}
      /\ \A m \in Outputs : k[m] = IF m = o THEN D ELSE h[m]
  BY <1>2, <1>3 DEF CR!Phases
<1> HIDE DEF k, D
<1>8. /\ seen \in [Configs -> CR!Request] /\ seen[c].life = req[c].life
      /\ (~req[c].stale => ~seen[c].stale) /\ seen[c].head = k
      /\ \A d \in Configs \ {c} : seen[d] = req[d]
  <2> DEFINE t == [req[c] EXCEPT !.head = k]
  <2>1. t \in CR!Request /\ t.life = req[c].life /\ t.stale = req[c].stale /\ t.head = k
    BY <1>3, <1>7 DEF CR!Request
  <2>2. seen = [req EXCEPT ![c] = t] OBVIOUS
  <2> HIDE DEF t, seen
  <2> QED BY <1>3, <2>1, <2>2
<1> HIDE DEF seen
<1>9. /\ Waiting(k) = Waiting(h) \ {o} /\ o \in Waiting(h) /\ Waiting(h) \in SUBSET Outputs
      /\ left = Cardinality(Waiting(k)) /\ left \in Nat
  <2>1. Waiting(k) = Waiting(h) \ {o} /\ o \in Waiting(h) /\ Waiting(h) \in SUBSET Outputs
    BY <1>2, <1>5, <1>7 DEF Waiting
  <2> PICK W, V : W = Waiting(h) /\ V = Waiting(k) OBVIOUS
  <2>2. IsFiniteSet(W) /\ V \in SUBSET Outputs BY <2>1, OutputsFinite
  <2>3. Cardinality(V) = Cardinality(W) - 1 /\ Cardinality(V) \in Nat
    BY <2>1, <2>2, FS_RemoveElement, OutputsFinite
  <2> QED BY <1>3, <2>1, <2>3 DEF HeadsOf
<1> PICK now : now = Counted(c, done) OBVIOUS
<1>10. /\ now \in [cfg : Configs \cup {NoConfig}, left : Nat, ok : BOOLEAN]
       /\ now.cfg = c /\ now.left = left /\ (now.ok <=> pend.ok /\ done)
  <2>1. now = [pend EXCEPT !.left = left, !.ok = pend.ok /\ done] BY DEF Counted
  <2>2. now = [cfg |-> c, left |-> left, ok |-> pend.ok /\ done] BY <1>3, <2>1
  <2>3. (pend.ok /\ done) \in BOOLEAN /\ c \in Configs \cup {NoConfig} /\ left \in Nat
    BY <1>9
  <2> HIDE DEF left
  <2>4. now \in [cfg : Configs \cup {NoConfig}, left : Nat, ok : BOOLEAN] BY <2>2, <2>3
  <2>5. now.cfg = c /\ now.left = left BY <2>2
  <2>6. now.ok = (pend.ok /\ done) BY <2>2
  <2> QED BY <2>4, <2>5, <2>6
<1>11. /\ pend' = IF left = 0 THEN NoPend ELSE now
       /\ req' = IF left = 0 THEN sendResult(seen, c, now.ok) ELSE seen
  <2>1. Head(run.todo).cfg = c /\ c # Color /\ Counted(c, run.ok /\ Len(run.todo) = 1) = now
    BY <1>1
  <2>2. JobDone(req, Head(run.todo), run.ok /\ Len(run.todo) = 1) = seen
    BY <1>6
  <2> QED BY <1>10, <2>1, <2>2 DEF RunJob
<1>12. req[c].life = "asked" /\ ~req[c].stale /\ ~seen[c].stale
  BY <1>8 DEF IInv, OnePending
<1>13. CR!Progress(h, k) BY <1>5, <1>7 DEF CR!Progress, CR!Moves
<1>14. CASE left # 0
  <2>1. pend' = now /\ req' = seen BY <1>11, <1>14
  <2>2. OnePending'
    <3>1. loop'.cfg = loop.cfg BY RunMovesOn
    <3>2. \A d \in Configs \ {c} : /\ req'[d].life # "asked"
                                   /\ ~req'[d].stale
      BY <1>8, <2>1 DEF IInv, OnePending
    <3>3. req'[c].life = "asked" /\ ~req'[c].stale BY <1>8, <1>12, <2>1
    <3> QED BY <1>10, <2>1, <3>1, <3>2, <3>3 DEF IInv, OnePending
  <2>3. ASSUME NEW m \in Outputs
        PROVE  /\ k[m] = "wanted" <=> loop'.want[m] # "none"
               /\ k[m] = "queued" <=> \E i \in Nat : At(c, m, i)'
               /\ k[m] = "failed" => ~pend'.ok
               /\ \A i, j \in Nat : At(c, m, i)' /\ At(c, m, j)' => i = j
    <3>1. loop'.want = loop.want BY RunMovesOn
    <3>2. CASE m = o
      <4>1. k[m] = D /\ loop.want[m] = "none" BY <1>3, <1>5, <1>7, <3>2 DEF HeadsOf
      <4>2. D = "failed" => ~pend'.ok BY <1>10, <2>1 DEF D
      <4> QED BY <1>5, <1>7, <3>1, <3>2, <4>1, <4>2
    <3>3. CASE m # o
      <4>1. \A i \in Nat : At(c, m, i)' <=> At(c, m, i) BY <1>2, <1>3, <3>3 DEF ShiftAt
      <4>2. ~pend.ok => ~pend'.ok BY <1>10, <2>1
      <4>3. k[m] = h[m] BY <1>7, <3>3
      <4> QED BY <1>3, <3>1, <4>1, <4>2, <4>3 DEF HeadsOf
    <3> QED BY <3>2, <3>3
  <2>4. pend'.left = Cardinality(Waiting(k)) /\ pend'.left > 0
    <3> HIDE DEF left
    <3>1. pend'.left = left BY <1>10, <2>1
    <3>2. left > 0 BY <1>9, <1>14
    <3> QED BY <1>9, <3>1, <3>2
  <2>5. loop' # NoLoop => \E m \in Outputs : k[m] = "queued" /\ m \notin {loop'.sync, run'.out}
    <3> SUFFICES ASSUME loop # NoLoop
                 PROVE  \E m \in Outputs : k[m] = "queued" /\ m \notin {loop'.sync, run'.out}
      BY RunMovesOn
    <3>1. PICK m \in Outputs : h[m] = "queued" /\ m # o
      BY <1>2, <1>3, <1>5 DEF HeadsOf
    <3>2. m \notin {loop'.sync, run'.out} BY <3>1, RunMovesOn, OutputConfigAssumption
    <3> QED BY <1>7, <3>1, <3>2
  <2>6. HeadsOf(c, k)' BY <2>3, <2>4, <2>5 DEF HeadsOf
  <2>7. pend'.cfg = c /\ req'[c].head = k BY <1>8, <1>10, <2>1
  <2>8. Progressing' BY <2>6, <2>7, ProgressingNext
  <2>9. Promised
    <3>1. CR!Working(req[c], req'[c]) BY <1>8, <1>12, <1>13, <2>1 DEF CR!Working
    <3>2. CR!Allowed(req[c], req'[c]) BY <1>12, <2>1, <3>1 DEF CR!Allowed
    <3> QED BY <1>8, <2>1, <3>2 DEF Promised
  <2>10. \A m \in Outputs : Lost(m)' => Lost(m)
    BY <1>7, <2>7 DEF Lost
  <2> QED BY <1>8, <1>10, <2>1, <2>2, <2>8, <2>9, <2>10
<1>15. CASE left = 0
  <2>1. pend' = NoPend /\ req' = sendResult(seen, c, now.ok) /\ now.ok \in BOOLEAN
    BY <1>10, <1>11, <1>15
  <2>2. pend'.cfg = NoConfig /\ \A d \in Configs : d # NoConfig
    BY <2>1, OutputConfigAssumption DEF NoPend
  <2>3. /\ req' \in [Configs -> CR!Request]
        /\ req'[c].head = (IF now.ok THEN k ELSE CR!Nothing)
        /\ req'[c].life = (IF now.ok THEN "ok" ELSE "failed") /\ ~req'[c].stale
        /\ \A d \in Configs \ {c} : req'[d] = req[d]
    BY <1>8, <1>12, <2>1, SendResultTyped
  <2>4. Waiting(k) = {}
    BY <1>9, <1>15, OutputsFinite
  <2>5. loop = NoLoop
    <3> SUFFICES ASSUME loop # NoLoop PROVE FALSE OBVIOUS
    <3>1. PICK m \in Outputs : h[m] = "queued" /\ m # o
      BY <1>2, <1>3, <1>5 DEF HeadsOf
    <3>2. m \in Waiting(k) BY <1>7, <3>1 DEF Waiting
    <3> QED BY <2>4, <3>2
  <2>6. OnePending'
    <3>1. \A d \in Configs : /\ req'[d].life # "asked"
                             /\ ~req'[d].stale
      BY <2>3 DEF IInv, OnePending
    <3>2. loop'.cfg = NoConfig BY <2>5, RunMovesOn DEF NoLoop
    <3> QED BY <2>2, <3>1, <3>2 DEF OnePending
  <2>7. Progressing' BY <2>2 DEF Progressing
  <2>8. now.ok => CR!AllDone(k)
    <3> SUFFICES ASSUME now.ok, NEW m \in Outputs PROVE k[m] \in {"none", "done"}
      BY DEF CR!AllDone
    <3>1. CASE m = o BY <1>7, <1>10, <3>1 DEF D
    <3>2. CASE m # o
      <4>1. h[m] # "wanted" /\ h[m] # "failed"
        BY <1>3, <1>10, <2>5 DEF HeadsOf, NoLoop
      <4>2. k[m] \notin {"queued", "lost"} BY <2>4 DEF Waiting
      <4> QED BY <1>3, <1>7, <3>2, <4>1, <4>2 DEF CR!Phases
    <3> QED BY <3>1, <3>2
  <2>9. CR!Answered(req[c], req'[c])
    BY <1>7, <1>12, <1>13, <2>3, <2>8 DEF CR!Answered
  <2>10. Promised
    <3>1. CR!Allowed(req[c], req'[c]) BY <2>3, <2>9 DEF CR!Allowed
    <3> QED BY <2>3, <3>1 DEF Promised
  <2>11. \A m \in Outputs : ~Lost(m)' BY <2>2 DEF Lost
  <2>12. pend' \in [cfg : Configs \cup {NoConfig}, left : Nat, ok : BOOLEAN]
    BY <2>1 DEF NoPend
  <2> QED BY <2>3, <2>6, <2>7, <2>10, <2>11, <2>12
<1> QED BY <1>14, <1>15

\* storeSingleOutputConfig stores an output, or none.
LEMMA TheSingleTyped ==
    ASSUME NEW lit \in SUBSET Outputs
    PROVE  TheSingle(lit) \in Outputs \cup {NoOutput}
<1>1. Cardinality(lit) = 1 => lit # {} BY FS_EmptySet
<1> QED BY <1>1 DEF TheSingle

\* One job of the run.
LEMMA RunJobKeeps ==
    ASSUME IInv, RunJob
    PROVE  IInv' /\ Promised
<1> PICK o, q : o = run.out /\ q = run.todo OBVIOUS
<1>1. TypeOK /\ Nesting /\ Counters /\ inFlight \in Nat /\ on \in SUBSET Outputs
  BY OutputConfigAssumption DEF IInv, TypeOK
<1>2. o \in Outputs /\ ShiftAt(o) /\ q \in Seq(Job) /\ q # <<>>
  BY <1>1, RunShifts
<1> PICK job : job = Head(q) OBVIOUS
<1>3. /\ job \in Job /\ Len(q) \in Nat /\ Len(q) # 0 /\ DOMAIN q = 1..Len(q) /\ q[1] = job
      /\ \A c : At(c, o, 1) <=> job.cfg = c
  <2>1. job \in Job /\ Len(q) \in Nat /\ Len(q) # 0 /\ DOMAIN q = 1..Len(q) /\ q[1] = job
    BY <1>2, LenProperties, EmptySeq, HeadTailProperties, ElementOfSeq
  <2>2. Todo(o) = q BY DEF Todo
  <2> QED BY <2>1, <2>2 DEF At
<1>4. /\ Nesting' /\ Heads(loop.want)' = Heads(loop.want)
      /\ run' \in [out : Outputs \cup {NoOutput}, todo : Seq(Job), ok : BOOLEAN]
      /\ loop' \in [cfg : Configs \cup {NoConfig}, want : [Outputs -> Wants],
                    sync : Outputs \cup {NoOutput}]
      /\ loop' = NoLoop <=> loop = NoLoop
  BY RunMovesOn
<1>5. UNCHANGED <<scanning, plugged, dpms, on, mode, groups, jobs>> BY DEF RunJob
<1>6. Mirrors' = Mirrors BY <1>5 DEF Mirrors, groups
<1>7. CASE job.cfg = Color
  <2>1. UNCHANGED <<single, pend, inFlight, dirty, queued, req>> BY <1>7 DEF RunJob
  <2>2. pend.cfg # NoConfig => ~At(pend.cfg, o, 1)
    BY <1>1, <1>3, <1>7, OutputConfigAssumption DEF TypeOK
  <2>3. OnePending' /\ Progressing' /\ Promised BY <2>1, <2>2, RunLeftover
  <2>4. TypeOK' BY <1>1, <1>4, <1>5, <2>1 DEF TypeOK, scanning, groups
  <2>5. Counters'
    <3>1. \A m \in Outputs : Lost(m)' => Lost(m) BY <2>1 DEF Lost
    <3>2. /\ IsFiniteSet(Owed') /\ Cardinality(Owed') \in Nat /\ Cardinality(Owed) \in Nat
          /\ Cardinality(Owed') <= Cardinality(Owed)
      BY <1>1, <1>2, <3>1, OwedShrinks
    <3> QED BY <1>1, <1>4, <2>1, <3>2 DEF Counters
  <2>6. TornDown' BY <1>6, <2>1 DEF IInv, TornDown
  <2>7. Reconciled' BY <1>4, <1>5, <2>1 DEF IInv, Reconciled, groups, ProxyIn
  <2> QED BY <1>4, <2>3, <2>4, <2>5, <2>6, <2>7 DEF IInv
<1>8. CASE job.cfg # Color
  <2>1. job.cfg \in Pointers /\ At(job.cfg, o, 1) /\ 1 \in Nat
    BY <1>3, <1>8 DEF Job, Pointers
  <2>2. inFlight > 0 BY <1>1, <1>2, <2>1, JobInFlight
  <2>3. /\ inFlight' = inFlight - 1
        /\ single' \in {TheSingle(on), single}
        /\ dirty' = (dirty /\ inFlight # 1)
        /\ queued' \in BOOLEAN /\ (queued \/ (inFlight = 1 /\ dirty) => queued')
    BY <1>1, <1>8 DEF RunJob, LastJob, TypeOK
  <2>4. /\ OnePending' /\ Progressing' /\ Promised
        /\ req' \in [Configs -> CR!Request]
        /\ pend' \in [cfg : Configs \cup {NoConfig}, left : Nat, ok : BOOLEAN]
        /\ \A m \in Outputs : Lost(m)' => Lost(m)
    <3>1. CASE pend.cfg # NoConfig /\ job.cfg = pend.cfg
      BY <3>1, RunPending
    <3>2. CASE job.cfg # pend.cfg \/ job.cfg = NoConfig
      <4>1. JobDone(req, job, run.ok /\ Len(run.todo) = 1) = req
        <5>1. job.cfg \in Configs => req[job.cfg].life # "asked"
          BY <3>2, OutputConfigAssumption DEF IInv, OnePending
        <5> QED BY <5>1 DEF JobDone
      <4>2. Counted(job.cfg, run.ok /\ Len(run.todo) = 1) = pend BY <3>2 DEF Counted
      <4>3. UNCHANGED <<pend, req>> BY <1>8, <3>2, <4>1, <4>2 DEF RunJob
      <4>4. pend.cfg # NoConfig => ~At(pend.cfg, o, 1) BY <1>3, <3>2
      <4>5. OnePending' /\ Progressing' /\ Promised BY <4>3, <4>4, RunLeftover
      <4> QED BY <1>1, <4>3, <4>5 DEF TypeOK, Lost
    <3> QED BY <3>1, <3>2
  <2>5. TypeOK'
    <3>1. single' \in Outputs \cup {NoOutput} BY <1>1, <2>3, TheSingleTyped DEF TypeOK
    <3>2. inFlight' \in 0..MaxInFlight
      BY <1>1, <2>2, <2>3, OutputConfigAssumption DEF TypeOK
    <3>3. dirty' \in BOOLEAN BY <2>3
    <3> QED BY <1>1, <1>4, <1>5, <2>3, <2>4, <3>1, <3>2, <3>3 DEF TypeOK, scanning, groups
  <2>6. Counters'
    <3>1. /\ IsFiniteSet(Owed') /\ Cardinality(Owed') \in Nat /\ Cardinality(Owed) \in Nat
          /\ Cardinality(Owed') <= Cardinality(Owed) - 1
      BY <1>1, <1>2, <2>1, <2>4, OwedShrinks
    <3>2. Cardinality(Heads(loop.want)) \in Nat
      <4>1. Heads(loop.want) \in SUBSET Outputs BY DEF Heads
      <4> QED BY <4>1, OutputsFinite
    <3> QED BY <1>1, <1>4, <2>3, <3>1, <3>2, OutputConfigAssumption DEF Counters
  <2>7. Mirrors = {} BY <2>2 DEF IInv, TornDown
  <2>8. TornDown' BY <1>6, <2>7 DEF TornDown
  <2>9. Reconciled'
    <3>1. dirty' => inFlight' > 0
      <4> SUFFICES ASSUME dirty' PROVE inFlight' > 0 OBVIOUS
      <4>1. inFlight # 1 BY <2>3
      <4>2. inFlight' = inFlight - 1 BY <2>3
      <4> QED BY <1>1, <2>2, <4>1, <4>2
    <3>2. ~queued' /\ ~dirty' => ~queued /\ ~dirty BY <2>3
    <3>3. queued => queued' BY <2>3
    <3> QED BY <1>4, <1>5, <3>1, <3>2, <3>3 DEF IInv, Reconciled, groups, ProxyIn
  <2> QED BY <1>4, <2>4, <2>5, <2>6, <2>8, <2>9 DEF IInv
<1> QED BY <1>7, <1>8

-----------------------------------------------------------------------------
(* The theorems *)

LEMMA InitIInv == ASSUME Init PROVE IInv
<1>1. TypeOK
  <2>1. /\ NoPend \in [cfg : Configs \cup {NoConfig}, left : Nat, ok : BOOLEAN]
        /\ NoLoop \in [cfg : Configs \cup {NoConfig}, want : [Outputs -> Wants],
                       sync : Outputs \cup {NoOutput}]
    BY DEF NoPend, NoLoop, Wants
  <2>2. /\ NoRun \in [out : Outputs \cup {NoOutput}, todo : Seq(Job), ok : BOOLEAN]
        /\ jobs \in [Outputs -> Seq(Job)]
    BY EmptySeq DEF Init, NoRun
  <2>3. CR!Fresh \in CR!Request BY DEF CR!Fresh, CR!Request, CR!Nothing, CR!Phases
  <2>4. req \in [Configs -> CR!Request] BY <2>3 DEF Init
  <2>5. /\ proxy \in [Outputs -> Outputs \cup {NoOutput, Dangling}]
        /\ eff \in [source : Outputs \cup {NoOutput}, mirrors : SUBSET Outputs]
    BY DEF Init, NoMirrors
  <2>6. inFlight \in 0..MaxInFlight BY OutputConfigAssumption DEF Init
  <2>7. dirty \in BOOLEAN /\ queued \in BOOLEAN BY DEF Init
  <2> QED BY <2>1, <2>2, <2>4, <2>5, <2>6, <2>7 DEF Init, TypeOK
<1>2. Heads(loop.want) = {} BY DEF Init, Heads, NoLoop
<1>3. Nesting BY <1>2 DEF Init, Nesting, NoLoop
<1>4. \A c : \A o \in Outputs, i \in Nat : ~At(c, o, i)
  BY OutputConfigAssumption DEF Init, At, Todo, NoRun
<1>5. pend.cfg = NoConfig BY DEF Init, NoPend
<1>6. Counters
  <2>1. Owed = {} BY <1>4, <1>5 DEF Owed, Lost
  <2>2. IsFiniteSet(Owed) /\ Cardinality(Owed) = 0 /\ Cardinality(Heads(loop.want)) = 0
    BY <1>2, <2>1, FS_EmptySet
  <2> QED BY <2>2, OutputConfigAssumption DEF Init, Counters
<1>7. OnePending /\ Progressing
  <2>1. \A c \in Configs : ~req[c].stale /\ req[c].life = "failed"
    BY DEF Init, CR!Fresh
  <2>2. loop.cfg = NoConfig BY DEF Init, NoLoop
  <2> QED BY <1>5, <2>1, <2>2, OutputConfigAssumption DEF OnePending, Progressing
<1>8. TornDown /\ Reconciled BY DEF Init, TornDown, Reconciled, Mirrors, NoMirrors
<1> QED BY <1>1, <1>3, <1>6, <1>7, <1>8 DEF IInv

LEMMA StutterKeeps == ASSUME IInv, UNCHANGED vars PROVE IInv' /\ Promised
<1>1. SameAt BY UnchangedAt DEF vars
<1>2. Counters' /\ OnePending' /\ Progressing' /\ Promised
  BY <1>1, SameJobsKeep DEF IInv, vars
<1>3. TypeOK' BY DEF IInv, TypeOK, vars
<1>4. Nesting' BY DEF IInv, Nesting, vars, Heads
<1>5. TornDown' /\ Reconciled' BY DEF IInv, TornDown, Reconciled, Mirrors, ProxyIn, vars
<1> QED BY <1>2, <1>3, <1>4, <1>5 DEF IInv

LEMMA NextKeeps ==
    ASSUME IInv, ~EarlyFinish, ~Reuse, [Next]_vars
    PROVE  IInv' /\ Promised
<1>0. Flaky \subseteq Outputs /\ Dimmable \subseteq Outputs BY OutputConfigAssumption
<1>1. ASSUME NEW bad \in SUBSET Flaky, BackendStarted(bad) PROVE IInv' /\ Promised
  BY <1>1, BackendStartedKeeps
<1>2. ASSUME NEW bad \in SUBSET Flaky, WakePoweredOffOutputs(bad) PROVE IInv' /\ Promised
  BY <1>2, WakePoweredOffOutputsKeeps
<1>3. ASSUME NEW o \in Outputs, OutputWaits(o) PROVE IInv' /\ Promised
  BY <1>3, OutputWaitsKeeps
<1>4. ASSUME NEW o \in Outputs, NEW bad \in SUBSET Flaky, NEW loaded \in BOOLEAN,
             OutputAdded(o, loaded, bad)
      PROVE  IInv' /\ Promised
  BY <1>4, OutputAddedKeeps
<1>5. ASSUME NEW o \in Outputs, NEW bad \in SUBSET Flaky, PendingOutputRemoved(o, bad)
      PROVE  IInv' /\ Promised
  BY <1>5, PendingOutputRemovedKeeps
<1>6. ASSUME NEW o \in Outputs, NEW bad \in SUBSET Flaky, NEW active \in BOOLEAN,
             OutputRemoved(o, active, bad)
      PROVE  IInv' /\ Promised
  BY <1>6, OutputRemovedKeeps
<1>7. ASSUME NEW o \in Dimmable, NEW up \in BOOLEAN, NEW ok \in BOOLEAN, SetPowerMode(o, up, ok)
      PROVE  IInv' /\ Promised
  BY <1>0, <1>7, SetPowerModeKeeps
<1>8. CASE NotifyOutputGroups BY <1>8, NotifyKeeps
<1>9. ASSUME NEW g \in Groups, CommitGroup(g) PROVE IInv' /\ Promised
  BY <1>9, CommitGroupKeeps
<1>10. ASSUME NEW c \in Configs, NEW want \in [Outputs -> Wants], NEW bad \in SUBSET Flaky,
              Apply(c, want, bad)
       PROVE  IInv' /\ Promised
  BY <1>10, ApplyKeeps
<1>11. ASSUME NEW o \in Outputs, HeadStep(o) PROVE IInv' /\ Promised
  BY <1>11, HeadStepKeeps
<1>12. ASSUME NEW o \in Flaky, HeadError(o) PROVE IInv' /\ Promised
  BY <1>0, <1>12, HeadErrorKeeps
<1>13. ASSUME NEW o \in Dimmable, SetOutputColor(o) PROVE IInv' /\ Promised
  BY <1>0, <1>13, SetOutputColorKeeps
<1>14. CASE LoopEnd BY <1>14, LoopEndKeeps
<1>15. ASSUME NEW o \in Outputs, NEW ok \in BOOLEAN, Commit(o, ok) PROVE IInv' /\ Promised
  BY <1>15, CommitKeeps
<1>16. CASE RunJob BY <1>16, RunJobKeeps
<1>17. CASE UNCHANGED vars BY <1>17, StutterKeeps
<1>18. CASE Topology
  BY <1>18, <1>1, <1>2, <1>3, <1>4, <1>5, <1>6, <1>7 DEF Topology
<1>19. CASE Next
  BY <1>0, <1>19, <1>8, <1>9, <1>10, <1>11, <1>12, <1>13, <1>14, <1>15, <1>16, <1>18 DEF Next
<1> QED BY <1>17, <1>19

LEMMA Invariance == ASSUME ~EarlyFinish, ~Reuse PROVE Spec => []IInv
<1>1. Init => IInv BY InitIInv
<1>2. IInv /\ [Next]_vars => IInv' BY NextKeeps
<1> QED BY <1>1, <1>2, PTL DEF Spec

\* Every handler leaves the outputs, the groups and the requests well formed.
THEOREM TypeCorrect == ASSUME ~EarlyFinish, ~Reuse PROVE Spec => []TypeOK
<1>1. IInv => TypeOK BY DEF IInv
<1> QED BY <1>1, Invariance, PTL

\* A group change that was put off while commits were in flight (m_groupsDirty)
\* is not forgotten.
THEOREM NoReconcileLost == ASSUME ~EarlyFinish, ~Reuse PROVE Spec => []NoLostReconcile
<1>1. IInv => NoLostReconcile BY DEF IInv, Reconciled, NoLostReconcile
<1> QED BY <1>1, Invariance, PTL

\* No output is a mirror while the render loop holds a job of a configuration:
\* applyOutputGroups waits for m_inFlightOutputCommits, which counts them all.
THEOREM MirrorsAwaitJobs == ASSUME ~EarlyFinish, ~Reuse PROVE Spec => []NoMirrorInFlight
<1>1. IInv => NoMirrorInFlight
  <2> SUFFICES ASSUME IInv, NEW o \in Outputs, JobsLeft[o] > 0 PROVE Mirrors = {}
    BY DEF NoMirrorInFlight
  <2> DEFINE L == {i \in DOMAIN jobs[o] : jobs[o][i].cfg # Color}
  <2>1. Cardinality(L) > 0 BY DEF JobsLeft
  <2>2. L # {}
    <3> HIDE DEF L
    <3> QED BY <2>1, FS_EmptySet
  <2>3. PICK i \in DOMAIN jobs[o] : jobs[o][i].cfg # Color BY <2>2
  <2>4. /\ Nesting /\ Counters /\ inFlight \in Nat /\ jobs[o] \in Seq(Job)
        /\ run \in [out : Outputs \cup {NoOutput}, todo : Seq(Job), ok : BOOLEAN]
    BY OutputConfigAssumption DEF IInv, TypeOK
  <2>5. i \in Nat /\ jobs[o][i] \in Job /\ jobs[o] # <<>>
    BY <2>3, <2>4, ElementOfSeq, LenProperties
  <2>6. Todo(o) = jobs[o]
    <3>1. run.out # o BY <2>4, <2>5, OutputConfigAssumption DEF Nesting, NoRun
    <3> QED BY <3>1 DEF Todo
  <2>7. jobs[o][i].cfg \in Pointers BY <2>3, <2>5 DEF Job, Pointers
  <2>8. At(jobs[o][i].cfg, o, i) BY <2>3, <2>6 DEF At
  <2>9. inFlight > 0 BY <2>4, <2>5, <2>7, <2>8, JobInFlight
  <2> QED BY <2>9 DEF IInv, TornDown
<1> QED BY <1>1, Invariance, PTL

\* What is rendered is what clients were told of the groups, once nothing is
\* queued or put off, and the mirror of an output that is gone is rebuilt.
THEOREM RenderedReported == ASSUME ~EarlyFinish, ~Reuse PROVE Spec => []RenderedAsReported
<1>1. IInv => RenderedAsReported
  BY DEF IInv, Reconciled, RenderedAsReported, Idle
<1> QED BY <1>1, Invariance, PTL

\* Every behaviour of the output manager is one of ConfigRequests: the
\* configurations are answered as the protocol promises, with success only after
\* the callback of every head's own commit reported it done.
THEOREM Refines == ASSUME ~EarlyFinish, ~Reuse PROVE Spec => AnswersAsPromised
<1>1. Init => CR!Init BY DEF Init, CR!Init
<1>2. IInv /\ [Next]_vars => [CR!Next]_req
  <2> SUFFICES ASSUME IInv, [Next]_vars PROVE CR!Next BY DEF CR!Next
  <2>1. IInv' /\ Promised BY NextKeeps
  <2>2. req' \in [Configs -> CR!Request] BY <2>1 DEF IInv, TypeOK
  <2> QED BY <2>1, <2>2 DEF Promised, CR!Next
<1> QED BY <1>1, <1>2, Invariance, PTL DEF Spec, AnswersAsPromised, CR!Spec

\* Between two handlers, a configuration that is owed an answer has a job with
\* the render loop of a plugged output, or lost one with an unplugged output.
AnswerUnderWay ==
  Idle => \A c \in Configs : req[c].life = "asked" =>
            \E o \in Outputs : \/ req[c].head[o] = "lost"
                               \/ /\ o \in plugged
                                  /\ \E i \in DOMAIN jobs[o] : jobs[o][i].cfg = c

\* No failed head, superseded configuration or unplugged output makes the
\* manager wait for callbacks that were all made: the safety that
\* AnsweredInTime rests on.
THEOREM AnswerNeverForgotten == ASSUME ~EarlyFinish, ~Reuse PROVE Spec => []AnswerUnderWay
<1>1. IInv => AnswerUnderWay
  <2> SUFFICES ASSUME IInv, Idle, NEW c \in Configs, req[c].life = "asked"
               PROVE  \E o \in Outputs : \/ req[c].head[o] = "lost"
                                         \/ /\ o \in plugged
                                            /\ \E i \in DOMAIN jobs[o] : jobs[o][i].cfg = c
    BY DEF AnswerUnderWay
  <2> DEFINE h == req[c].head
  <2>1. pend.cfg = c /\ c # NoConfig
    BY OutputConfigAssumption DEF IInv, OnePending
  <2>2. HeadsOf(c, h) BY <2>1 DEF IInv, Progressing
  <2>3. Cardinality(Waiting(h)) > 0 BY <2>2 DEF HeadsOf, Idle
  <2>4. Waiting(h) # {}
    <3> DEFINE W == Waiting(h)
    <3> HIDE DEF W
    <3>1. Cardinality(W) > 0 BY <2>3 DEF W
    <3>2. W # {} BY <3>1, FS_EmptySet
    <3> QED BY <3>2 DEF W
  <2>5. PICK o \in Outputs : h[o] \in {"queued", "lost"} BY <2>4 DEF Waiting
  <2>6. CASE h[o] = "queued"
    <3>1. PICK i \in Nat : At(c, o, i) BY <2>2, <2>6 DEF HeadsOf
    <3>2. Todo(o) = jobs[o] BY OutputConfigAssumption DEF Idle, NoRun, Todo
    <3>3. i \in DOMAIN jobs[o] /\ jobs[o][i].cfg = c BY <3>1, <3>2 DEF At
    <3>4. o \in plugged BY <3>3 DEF IInv, Nesting
    <3> QED BY <3>3, <3>4
  <2> QED BY <2>5, <2>6
<1> QED BY <1>1, Invariance, PTL
=============================================================================
