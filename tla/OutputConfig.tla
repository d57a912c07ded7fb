--------------------------- MODULE OutputConfig ---------------------------
(***************************************************************************)
(* OutputManager (src/src/output/outputmanager.cpp): the outputs that are  *)
(* plugged in, the configurations that clients apply to them through       *)
(* zwlr_output_manager_v1, the commit jobs a configuration leaves with the *)
(* render loop (WOutputHelper), and the reconciliation of copy mode with   *)
(* the output groups.                                                      *)
(*                                                                         *)
(* Everything runs in the compositor's thread.  testOrApplyConfiguration   *)
(* and the commit callbacks are spread over several steps here, because a  *)
(* forced render commits, and calls back, in the middle of the loop over   *)
(* the heads; while `loop' or `run' is occupied no other handler starts.   *)
(* Modes, scales, positions and the layout are left out: an output is on   *)
(* or off.                                                                 *)
(***************************************************************************)
EXTENDS Integers, Sequences, FiniteSets

CONSTANTS
    Outputs,     \* the outputs that may be plugged in
    Configs,     \* the wlr_output_configuration_v1 objects (addresses, reused)
    NoOutput,    \* no output
    Dangling,    \* the pointer to a source that was unplugged
    Groups,      \* the output groups that clients may configure
    NoConfig,    \* no configuration: the null pointer
    Color,       \* the commit job of a brightness or colour request
    MaxJobs,     \* bound: jobs that wait for a commit of one output
    MaxInFlight, \* bound: value of m_inFlightOutputCommits
    Flaky,       \* bound: outputs whose commits and lookups may fail
    Dimmable,    \* bound: outputs with stored colours and a table to apply them,
                 \* whose DPMS mode and colour clients change
    Hotplug,     \* do outputs come and go after the initial scan?
    EarlyFinish, \* may forced renders finish a configuration inside its loop?
    Reuse        \* may a configuration have the address of one that left jobs?

ASSUME OutputConfigAssumption ==
    /\ IsFiniteSet(Outputs)
    /\ NoOutput \notin Outputs /\ Dangling \notin Outputs /\ Dangling # NoOutput
    /\ \A g \in Groups : g \in [members : SUBSET Outputs, source : Outputs \cup {NoOutput}]
    /\ NoConfig \notin Configs /\ Color \notin Configs /\ Color # NoConfig
    /\ MaxJobs \in Nat \ {0} /\ MaxInFlight \in Nat
    /\ Flaky \subseteq Outputs /\ Dimmable \subseteq Outputs
    /\ Hotplug \in BOOLEAN /\ EarlyFinish \in BOOLEAN /\ Reuse \in BOOLEAN

VARIABLES
    waiting,   \* m_pendingOutputs: outputs whose stored settings are loading
    plugged,   \* m_outputs
    scan,      \* the initial scan: "backend", "loading" or "done"
    on,        \* outputs that are enabled
    dpms,      \* m_powerOffOutputs
    proxy,     \* the source an output mirrors, NoOutput for a normal output
    mode,      \* m_mode: "extension" or "copy"
    single,    \* the stored singleOutputId
    group,     \* the configured output group: its members and its source
    eff,       \* the effective state of the group, as reported to clients
    pend,      \* m_pendingOutputConfig: [cfg, left, ok]
    jobs,      \* WOutputHelper's afterCommitJobs of each output
    inFlight,  \* m_inFlightOutputCommits
    dirty,     \* m_groupsDirty
    queued,    \* a queued notifyOutputGroupsChanged call
    loop,      \* testOrApplyConfiguration in progress: heads to do, forced render
    run,       \* the commit whose jobs are being called
    req        \* history: what the client of each configuration has seen

scanning == <<waiting, scan>>
power == <<on, mode, single>>
groups == <<group, eff, proxy>>
commits == <<pend, inFlight, loop, run, req>>
vars == <<waiting, plugged, scan, on, dpms, proxy, mode, single, group,
          eff, pend, jobs, inFlight, dirty, queued, loop, run, req>>

-----------------------------------------------------------------------------
(* Values *)

CR == INSTANCE ConfigRequests WITH Configs <- Configs, Outputs <- Outputs, req <- req

Wants == {"on", "off", "none"}
NoMirrors == [source |-> NoOutput, mirrors |-> {}]
NoPend == [cfg |-> NoConfig, left |-> 0, ok |-> TRUE]
NoLoop == [cfg |-> NoConfig, want |-> [o \in Outputs |-> "none"], sync |-> NoOutput]
NoRun == [out |-> NoOutput, todo |-> <<>>, ok |-> FALSE]

\* A job and the state it expects to be committed; a colour job leaves the
\* power alone.
Job == [cfg : Configs \cup {NoConfig, Color}, power : {"on", "off", "keep"}]
ColorJob == [cfg |-> Color, power |-> "keep"]

TypeOK ==
    /\ waiting \subseteq Outputs /\ plugged \subseteq Outputs
    /\ scan \in {"backend", "loading", "done"}
    /\ on \subseteq plugged /\ dpms \subseteq plugged
    /\ proxy \in [Outputs -> Outputs \cup {NoOutput, Dangling}]
    /\ mode \in {"extension", "copy"}
    /\ single \in Outputs \cup {NoOutput}
    /\ group \in Groups
    /\ eff \in [source : Outputs \cup {NoOutput}, mirrors : SUBSET Outputs]
    /\ pend \in [cfg : Configs \cup {NoConfig}, left : Nat, ok : BOOLEAN]
    /\ jobs \in [Outputs -> Seq(Job)]
    /\ inFlight \in 0..MaxInFlight
    /\ dirty \in BOOLEAN /\ queued \in BOOLEAN
    /\ loop \in [cfg : Configs \cup {NoConfig}, want : [Outputs -> Wants],
                 sync : Outputs \cup {NoOutput}]
    /\ run \in [out : Outputs \cup {NoOutput}, todo : Seq(Job), ok : BOOLEAN]
    /\ req \in [Configs -> CR!Request]

Idle == loop = NoLoop /\ run = NoRun

Mirrors == {o \in plugged : proxy[o] # NoOutput}

Init ==
    /\ waiting = {} /\ plugged = {} /\ scan = "backend"
    /\ on = {} /\ dpms = {}
    /\ proxy = [o \in Outputs |-> NoOutput]
    /\ mode = "extension"
    /\ single \in Outputs \cup {NoOutput}
    /\ group \in Groups
    /\ eff = NoMirrors
    /\ pend = NoPend /\ jobs = [o \in Outputs |-> <<>>] /\ inFlight = 0
    /\ dirty = FALSE /\ queued = FALSE
    /\ loop = NoLoop /\ run = NoRun
    /\ req = [c \in Configs |-> CR!Fresh]

-----------------------------------------------------------------------------
(* Answers to the client.  sendResult destroys the configuration, so a     *)
(* second answer uses freed memory.                                        *)

sendResult(r, c, ok) ==
    [r EXCEPT ![c] = [life |-> IF ok THEN "ok" ELSE "failed",
                      head |-> IF ok THEN r[c].head ELSE CR!Nothing,
                      stale |-> r[c].life # "asked"]]

\* storeSingleOutputConfig: the one enabled output.
TheSingle(lit) == IF Cardinality(lit) = 1 THEN CHOOSE o \in lit : TRUE ELSE NoOutput

-----------------------------------------------------------------------------
(* Output groups: effective state and reconciliation *)

\* A member that is plugged in and enabled takes part; the designated source
\* leads, or one of the members in its absence.
Effective(g) ==
    LET there == g.members \cap on
        src == IF there = {} THEN NoOutput
               ELSE IF g.source \in there THEN g.source
               ELSE CHOOSE o \in there : TRUE
    IN [source |-> src, mirrors |-> there \ {src}]

\* The source that an effective state gives an output.
ProxyIn(e, o) == IF o \in e.mirrors THEN e.source ELSE NoOutput

\* Fault: the jobs that a superseded configuration left are not waited for.
BusyPendingOnly == pend.cfg # NoConfig

\* A configuration is being applied, or left jobs with the render loop.
Busy == pend.cfg # NoConfig \/ inFlight > 0

\* The jobs of a normal output that has just been created: its stored colours
\* are applied with its first commit.
Created(o) == IF o \in Dimmable THEN <<ColorJob>> ELSE <<>>

\* applyOutputGroups.  Rebuilding an output destroys its helper and the jobs
\* left with it; a mirror that is turned back goes dark when it cannot be
\* enabled again.
applyOutputGroups(e, later) ==
    \/ /\ Busy
       /\ dirty' = TRUE
       /\ queued' = later
       /\ UNCHANGED <<on, proxy, mode, jobs>>
    \/ /\ ~Busy
       /\ LET rebuilt == {o \in plugged : proxy[o] # ProxyIn(e, o)}
          IN \E bad \in SUBSET (rebuilt \cap Mirrors \cap Flaky) :
             /\ proxy' = [o \in Outputs |-> ProxyIn(e, o)]
             /\ jobs' = [o \in Outputs |-> IF o \notin rebuilt THEN jobs[o]
                                           ELSE IF o \in e.mirrors THEN <<>> ELSE Created(o)]
             /\ on' = on \ bad
       /\ mode' = IF e.mirrors # {} THEN "copy" ELSE "extension"
       /\ queued' = (later \/ dirty)
       /\ dirty' = FALSE

\* The queued call of notifyOutputGroupsChanged.
NotifyOutputGroups ==
    /\ Idle /\ queued
    /\ eff' = Effective(group)
    /\ applyOutputGroups(Effective(group), FALSE)
    /\ UNCHANGED <<scanning, plugged, dpms, single, group, commits>>

\* A client creates, commits, queries or dissolves a group.  Only an enabled
\* output can join or become the source.
CommitGroup(g) ==
    /\ Idle
    /\ (g.members \ group.members) \subseteq on
    /\ g.source # group.source => g.source \in on \cup {NoOutput}
    /\ group' = g
    /\ eff' = Effective(g)
    /\ applyOutputGroups(Effective(g), queued)
    /\ UNCHANGED <<scanning, plugged, dpms, single, commits>>

-----------------------------------------------------------------------------
(* Outputs come and go.  Commits made outside the render loop fail on the  *)
(* outputs in bad.                                                         *)

\* restoreConfiguredSingleOutput, with the outputs in lit enabled: the stored
\* output alone stays on.
restoreConfiguredSingleOutput(lit, bad) ==
    /\ on' = ({single} \ (bad \ lit)) \cup (lit \cap bad)
    /\ UNCHANGED <<mode, single>>

\* restoreExtensionModeFromConfig: every output on; the stored choice stays.
restoreExtensionModeFromConfig(out, lit, bad) ==
    IF out = {} THEN on' = lit /\ mode' = mode
    ELSE /\ mode' = "extension"
         /\ on' = lit \cup (out \ bad)

\* finishInitialOutputScanIfReady and restoreInitialOutputConfiguration, with
\* the outputs out known, those in lit enabled, those in wait still loading, and
\* the backend at stage s.
finishInitialOutputScanIfReady(out, lit, wait, s, bad) ==
    IF s # "loading" \/ wait # {}
    THEN scan' = s /\ queued' = queued /\ on' = lit /\ UNCHANGED <<mode, single>>
    ELSE /\ scan' = "done"
         /\ queued' = TRUE
         /\ IF single \in out
            THEN restoreConfiguredSingleOutput(lit, bad)
            ELSE /\ single' = NoOutput
                 /\ restoreExtensionModeFromConfig(out, lit, bad)

\* backendStarted.
BackendStarted(bad) ==
    /\ Idle /\ scan = "backend"
    /\ finishInitialOutputScanIfReady(plugged, on, waiting, "loading", bad)
    /\ UNCHANGED <<waiting, plugged, dpms, groups, jobs, dirty, commits>>

\* outputAdded, when the settings of the output are not loaded yet.
OutputWaits(o) ==
    /\ Idle /\ o \notin plugged \cup waiting
    /\ Hotplug \/ scan # "done"
    /\ waiting' = waiting \cup {o}
    /\ UNCHANGED <<plugged, scan, power, dpms, groups, jobs, dirty, queued, commits>>

\* processOutputAdded after the initial scan: onScreenAdded and, if the
\* settings were loaded, restoreOutputConfig.
AddHotplugged(o, loaded, bad) ==
    /\ on' = IF single = o THEN ({o} \ bad) \cup (on \cap bad)
             ELSE IF single # NoOutput /\ loaded /\ mode = "extension" THEN on
             ELSE on \cup ({o} \ bad)
    /\ UNCHANGED <<mode, single>>

\* restoreOutputConfig during the initial scan: an output is disabled when it is
\* found, and enabled again by its stored settings.
Scanned(o, loaded, bad) ==
    IF loaded /\ mode = "extension" /\ single \in {o, NoOutput} THEN on \cup ({o} \ bad)
    ELSE on

\* processOutputAdded and finishInitialOutputScanIfReady.  A dimmable output has
\* readable settings; its colours, if asked for twice, are applied once.
OutputAdded(o, loaded, bad) ==
    /\ Idle /\ o \notin plugged
    /\ Hotplug \/ scan # "done"
    /\ loaded \/ o \notin Dimmable
    /\ plugged' = plugged \cup {o}
    /\ waiting' = waiting \ {o}
    /\ IF scan = "done"
       THEN AddHotplugged(o, loaded, bad) /\ queued' = TRUE /\ scan' = scan
       ELSE finishInitialOutputScanIfReady(plugged', Scanned(o, loaded, bad), waiting',
                                           scan, bad)
    /\ jobs' = [jobs EXCEPT ![o] = Created(o)]
    /\ UNCHANGED <<dpms, groups, dirty, commits>>

\* A device whose settings were still loading goes away.
PendingOutputRemoved(o, bad) ==
    /\ Idle /\ o \in waiting
    /\ waiting' = waiting \ {o}
    /\ finishInitialOutputScanIfReady(plugged, on, waiting', scan, bad)
    /\ UNCHANGED <<plugged, dpms, groups, jobs, dirty, commits>>

\* The requests whose job is lost with output o.
LoseJobs(r, o) == [c \in Configs |-> IF r[c].life = "asked" /\ r[c].head[o] = "queued"
                                     THEN [r[c] EXCEPT !.head[o] = "lost"] ELSE r[c]]

\* Fault: the handle stays among the outputs powered off.
ForgetOutputKeepPower(o) ==
    /\ proxy' = [m \in Outputs |-> IF m = o THEN NoOutput
                                   ELSE IF proxy[m] = o THEN Dangling ELSE proxy[m]]
    /\ jobs' = [jobs EXCEPT ![o] = <<>>]
    /\ req' = LoseJobs(req, o)
    /\ queued' = TRUE /\ dpms' = dpms

\* What goes with an output: its place among the outputs powered off, its
\* mirrors' pointers to it, its jobs, which are never called.  The groups are
\* to be reconciled.
ForgetOutput(o) ==
    /\ dpms' = dpms \ {o}
    /\ proxy' = [m \in Outputs |-> IF m = o THEN NoOutput
                                   ELSE IF proxy[m] = o THEN Dangling ELSE proxy[m]]
    /\ jobs' = [jobs EXCEPT ![o] = <<>>]
    /\ req' = LoseJobs(req, o)
    /\ queued' = TRUE

\* outputRemoved.  When the stored single output goes, the others come on,
\* unless the session is inactive.
OutputRemoved(o, active, bad) ==
    /\ Idle /\ o \in plugged
    /\ Hotplug \/ scan # "done"
    /\ plugged' = plugged \ {o}
    /\ IF o = single /\ active /\ plugged' # {}
       THEN mode' = "extension" /\ on' = (on \ {o}) \cup (plugged' \ bad)
       ELSE on' = on \ {o} /\ mode' = mode
    /\ ForgetOutput(o)
    /\ UNCHANGED <<scanning, single, group, eff, pend, inFlight, dirty, loop, run>>

\* setPowerMode: DPMS.
SetPowerMode(o, up, ok) ==
    /\ Idle /\ o \in plugged
    /\ \/ /\ ~up /\ o \notin dpms /\ o \in on /\ ok
          /\ on' = on \ {o}
          /\ dpms' = dpms \cup {o}
       \/ /\ up /\ o \in dpms
          /\ on' = IF ok THEN on \cup {o} ELSE on
          /\ dpms' = IF ok THEN dpms \ {o} ELSE dpms
    /\ queued' = TRUE
    /\ UNCHANGED <<scanning, plugged, mode, single, groups, jobs, dirty, commits>>

\* wakePoweredOffOutputs.
WakePoweredOffOutputs(bad) ==
    /\ Idle
    /\ LET woken == (dpms \ on) \ bad
       IN /\ woken # {}
          /\ on' = on \cup woken
          /\ dpms' = dpms \ woken
    /\ UNCHANGED <<scanning, plugged, mode, single, groups, jobs, dirty,
                   queued, commits>>

-----------------------------------------------------------------------------
(* Applying a configuration: testOrApplyConfiguration *)

Heads(want) == {o \in Outputs : want[o] # "none"}
TurnedOn(want, lit) == {o \in Outputs : want[o] = "on" /\ o \notin lit}
HasJobOf(c, o) == \E i \in DOMAIN jobs[o] : jobs[o][i].cfg = c

\* Some head needs no forced render, and can come first.  A configuration whose
\* first head is turned on is answered, and freed, by the callback of that render
\* while its loop goes on; without EarlyFinish none is applied.
Unforced(want, lit) == Heads(want) = {} \/ Heads(want) \ TurnedOn(want, lit) # {}

\* No job holds the address of the configuration since an earlier use of it:
\* onOutputCommitFinished, which compares addresses, would count it.
Unclaimed(c) == \A o \in Outputs : ~HasJobOf(c, o)

\* The outputs that are on when the loop starts: clearing the single output
\* enables them all, a mirror in bad does not come back.
LeavesSingle(want) == /\ scan = "done" /\ single # NoOutput
                      /\ TurnedOn(want, on) \ {single} # {}
Relit(want, bad) == IF LeavesSingle(want) THEN on \cup (plugged \ bad) ELSE on
StillLit(want, bad) == Relit(want, bad) \ (bad \cap Mirrors)

\* A configuration that is still pending is refused.
Superseded == IF pend.cfg # NoConfig THEN sendResult(req, pend.cfg, FALSE) ELSE req

\* The start: a configuration that is still pending is refused, the heads are
\* recorded, copy mode is torn down.
Apply(c, want, bad) ==
    /\ Idle /\ req[c].life # "asked"
    /\ Heads(want) \subseteq plugged
    /\ \A o \in Heads(want) : Len(jobs[o]) < MaxJobs
    /\ inFlight + Cardinality(Heads(want)) <= MaxInFlight
    /\ EarlyFinish \/ Unforced(want, StillLit(want, bad))
    /\ Reuse \/ Unclaimed(c)
    /\ req' = [Superseded EXCEPT ![c].life = "asked",
                   ![c].head = [o \in Outputs |-> IF o \in Heads(want) THEN "wanted" ELSE "none"]]
    /\ pend' = [cfg |-> c, left |-> 0, ok |-> TRUE]
    /\ single' = IF LeavesSingle(want) THEN NoOutput ELSE single
    /\ on' = StillLit(want, bad)
    /\ proxy' = [o \in Outputs |-> NoOutput]
    /\ jobs' = [o \in Outputs |-> IF o \in Mirrors THEN Created(o) ELSE jobs[o]]
    /\ loop' = [cfg |-> c, want |-> want, sync |-> NoOutput]
    /\ queued' = (queued \/ \E o \in on' : want[o] = "off")
    /\ UNCHANGED <<scanning, plugged, dpms, mode, group, eff, inFlight, dirty, run>>

\* The loop is between two heads.
AtHead(o) == /\ loop.cfg # NoConfig /\ loop.sync = NoOutput /\ run = NoRun
             /\ loop.want[o] # "none"

\* One head: its job is left with the render loop, and the output is rendered
\* at once when it has to be turned on.
HeadStep(o) ==
    /\ AtHead(o)
    /\ EarlyFinish \/ pend.left > 0 \/ o \notin TurnedOn(loop.want, on)
    /\ jobs' = [jobs EXCEPT ![o] = Append(@, [cfg |-> pend.cfg, power |-> loop.want[o]])]
    /\ pend' = [pend EXCEPT !.left = @ + 1]
    /\ inFlight' = inFlight + 1
    /\ loop' = [loop EXCEPT !.want[o] = "none",
                            !.sync = IF o \in TurnedOn(loop.want, on) THEN o ELSE NoOutput]
    /\ req' = IF pend.cfg = loop.cfg THEN [req EXCEPT ![loop.cfg].head[o] = "queued"]
              ELSE req
    /\ UNCHANGED <<scanning, plugged, dpms, power, groups, dirty, queued, run>>

\* Fault: an error return that does not ask for the groups to be reconciled.
HeadErrorSilently(o) ==
    /\ AtHead(o)
    /\ EarlyFinish \/ pend.left > 0 \/ o \notin TurnedOn(loop.want, on)
    /\ req' = sendResult(req, loop.cfg, FALSE)
    /\ pend' = NoPend
    /\ loop' = NoLoop
    /\ UNCHANGED <<scanning, plugged, dpms, power, groups, jobs, inFlight, dirty, queued, run>>

\* The error returns in the middle of the loop.
HeadError(o) ==
    /\ AtHead(o)
    /\ EarlyFinish \/ pend.left > 0 \/ o \notin TurnedOn(loop.want, on)
    /\ req' = sendResult(req, loop.cfg, FALSE)
    /\ pend' = NoPend
    /\ loop' = NoLoop
    /\ queued' = TRUE
    /\ UNCHANGED <<scanning, plugged, dpms, power, groups, jobs, inFlight, dirty, run>>

\* Fault: a configuration that left no commit waits for one.
LoopEndWaiting ==
    /\ loop.cfg # NoConfig /\ Heads(loop.want) = {} /\ loop.sync = NoOutput /\ run = NoRun
    /\ loop' = NoLoop
    /\ queued' = TRUE
    /\ UNCHANGED <<scanning, plugged, dpms, power, groups, jobs, pend, inFlight, dirty, run, req>>

\* After the loop: a configuration that left no commit is answered here.
LoopEnd ==
    /\ loop.cfg # NoConfig /\ Heads(loop.want) = {} /\ loop.sync = NoOutput /\ run = NoRun
    /\ IF pend.left = 0
       THEN req' = sendResult(req, loop.cfg, TRUE) /\ pend' = NoPend
       ELSE UNCHANGED <<req, pend>>
    /\ loop' = NoLoop
    /\ queued' = TRUE
    /\ UNCHANGED <<scanning, plugged, dpms, power, groups, jobs, inFlight, dirty, run>>

\* A brightness or colour temperature request: its state replaces the one that
\* a configuration left for the next commit.
SetOutputColor(o) ==
    /\ Idle /\ o \in on /\ Len(jobs[o]) < MaxJobs
    /\ jobs' = [jobs EXCEPT ![o] = Append(@, ColorJob)]
    /\ UNCHANGED <<scanning, plugged, dpms, power, groups, dirty, queued, commits>>

-----------------------------------------------------------------------------
(* WOutputHelper::commit: the newest state is committed, then every job    *)
(* is called.  Only an enabled output gets frames; another is committed by *)
(* a forced render.                                                        *)

Commit(o, ok) ==
    /\ run = NoRun /\ jobs[o] # <<>>
    /\ (loop = NoLoop /\ o \in on) \/ loop.sync = o
    /\ LET asked == jobs[o][Len(jobs[o])].power
       IN on' = CASE ok /\ asked = "on" -> on \cup {o}
                  [] ok /\ asked = "off" -> on \ {o}
                  [] OTHER -> on
    /\ run' = [out |-> o, todo |-> jobs[o], ok |-> ok]
    /\ jobs' = [jobs EXCEPT ![o] = <<>>]
    /\ UNCHANGED <<scanning, plugged, dpms, mode, single, groups, pend, inFlight,
                   dirty, queued, loop, req>>

\* The phase of the request that the first job of the run belongs to; a job
\* with a later one of the same address is a leftover of a freed request.
JobDone(r, job, done) ==
    IF /\ job.cfg \in Configs
       /\ r[job.cfg].life = "asked" /\ r[job.cfg].head[run.out] = "queued"
       /\ \A i \in 2..Len(run.todo) : run.todo[i].cfg # job.cfg
    THEN [r EXCEPT ![job.cfg].head[run.out] = IF done THEN "done" ELSE "failed"]
    ELSE r

\* Fault: a failed commit is not remembered.
CountedOnly(cfg, done) == IF cfg = NoConfig \/ cfg # pend.cfg THEN pend
                          ELSE [pend EXCEPT !.left = @ - 1]

\* onOutputCommitFinished.  Returns the pending configuration.
Counted(cfg, done) == IF cfg = NoConfig \/ cfg # pend.cfg THEN pend
                      ELSE [pend EXCEPT !.left = @ - 1, !.ok = @ /\ done]

\* Fault: the counter is read before it is decremented.
LastJobTooLate == inFlight = 0

\* The job that is called is the last of all in flight.
LastJob == inFlight = 1

\* One job of the run.  It belongs to the state that was committed when it is
\* the newest.
RunJob ==
    /\ run # NoRun
    /\ LET job == Head(run.todo)
           done == run.ok /\ Len(run.todo) = 1
           now == Counted(job.cfg, done)
           finished == job.cfg # NoConfig /\ job.cfg = pend.cfg /\ now.left = 0
           seen == JobDone(req, job, done)
       IN IF job.cfg = Color
          THEN UNCHANGED <<single, pend, inFlight, dirty, queued, req>>
          ELSE /\ inFlight' = inFlight - 1
               /\ pend' = IF finished THEN NoPend ELSE now
               /\ single' = IF finished /\ now.ok THEN TheSingle(on) ELSE single
               /\ req' = IF finished THEN sendResult(seen, job.cfg, now.ok) ELSE seen
               /\ dirty' = (dirty /\ ~LastJob)
               /\ queued' = (queued \/ finished \/ (LastJob /\ dirty))
    /\ IF Len(run.todo) = 1
       THEN run' = NoRun /\ loop' = [loop EXCEPT !.sync = NoOutput]
       ELSE run' = [run EXCEPT !.todo = Tail(@)] /\ loop' = loop
    /\ UNCHANGED <<scanning, plugged, dpms, on, mode, groups, jobs>>

-----------------------------------------------------------------------------
(* Specification *)

Topology ==
    \/ \E bad \in SUBSET Flaky : BackendStarted(bad) \/ WakePoweredOffOutputs(bad)
    \/ \E o \in Outputs : OutputWaits(o)
    \/ \E o \in Outputs, bad \in SUBSET Flaky :
          \/ \E loaded \in BOOLEAN : OutputAdded(o, loaded, bad)
          \/ PendingOutputRemoved(o, bad)
          \/ \E active \in BOOLEAN : OutputRemoved(o, active, bad)
    \/ \E o \in Dimmable, up \in BOOLEAN, ok \in BOOLEAN : SetPowerMode(o, up, ok)

Next ==
    \/ Topology
    \/ NotifyOutputGroups
    \/ \E g \in Groups : CommitGroup(g)
    \/ \E c \in Configs, want \in [Outputs -> Wants], bad \in SUBSET Flaky :
          Apply(c, want, bad)
    \/ \E o \in Outputs : HeadStep(o)
    \/ \E o \in Flaky : HeadError(o)
    \/ \E o \in Dimmable : SetOutputColor(o)
    \/ LoopEnd
    \/ \E o \in Outputs : Commit(o, TRUE)
    \/ \E o \in Flaky : Commit(o, FALSE)
    \/ RunJob

\* The handler and the callbacks run to their end, and an enabled output gets
\* its next frame between two handlers.
Fairness ==
    /\ WF_vars(LoopEnd) /\ WF_vars(\E o \in Outputs : HeadStep(o))
    /\ WF_vars(RunJob)
    /\ \A o \in Outputs : SF_vars(Commit(o, TRUE) \/ (o \in Flaky /\ Commit(o, FALSE)))

Spec == Init /\ [][Next]_vars /\ Fairness

-----------------------------------------------------------------------------
(* Properties *)

\* The answers clients get are those the protocol promises (ConfigRequests).
AnswersAsPromised == CR!Spec

\* A group change that was put off while a configuration was applied is not
\* forgotten: a commit job is still to come, or the change is queued.
NoLostReconcile == Idle /\ dirty => inFlight > 0 \/ queued

\* Configuration jobs that are still to be called.
JobsLeft == LET Mine(q) == Cardinality({i \in DOMAIN q : q[i].cfg # Color})
            IN [o \in Outputs |-> Mine(jobs[o])]

\* No output is a mirror while a job of a configuration is left with the
\* render loop: rebuilding it would lose the job.
NoMirrorInFlight == (\E o \in Outputs : JobsLeft[o] > 0) => Mirrors = {}

\* What is rendered is what the groups were reported to be, once nothing is
\* queued or put off, and a mirror of an output that is gone is about to be
\* rebuilt.
RenderedAsReported ==
    Idle => /\ ~queued /\ ~dirty => \A o \in plugged : proxy[o] = ProxyIn(eff, o)
            /\ (\E o \in plugged : proxy[o] = Dangling) => queued

\* A configuration that is owed an answer for ever has an output that was
\* unplugged with its job, or one that stays off, so that its job gets no frame.
AnsweredInTime == \A c \in Configs :
    <>[](req[c].life = "asked") =>
        \E o \in Outputs : <>[](\/ req[c].head[o] = "lost"
                                \/ req[c].head[o] = "queued" /\ o \notin on)

\* What the comments say and the code does not do.

\* A configuration that left commits behind is finished by their callbacks, and
\* only by them: it is not answered a second time after its loop.
AnsweredOnce == \A c \in Configs : ~req[c].stale

\* Committing an output once more brings every configuration to its end, also
\* one that leaves an output off.
AlwaysAnswered == \A c \in Configs : req[c].life = "asked" ~> req[c].life # "asked"
=============================================================================
