# Treeland: TLA+ models

Treeland is a Wayland compositor built on Qt Quick, waylib and wlroots, with a
greeter, user sessions, workspaces and a desktop shell in one process. This
directory holds TLA+ specifications of the parts of it that decide *what happens
next* (which configuration is in use, whether the screen is locked, which session
is active, which window has the keyboard, which workspace shows what, which
outputs are on and mirror each other, what becomes of a launch), the TLC
configurations that check them on small instances, and TLAPS proofs of the main
safety properties for instances of any size.

Paths below are relative to the repository root. `PROJECT.json` lists, for every
definition that models code, the file and the lines it stands for.

## 1. The system

Almost everything runs on the main thread: Wayland requests, Qt signals, timers,
animations and D-Bus replies are handlers that run to completion, one after the
other. Exceptions are the global thread pool (logind requests of `GreeterProxy`)
and what happens outside the process: DConfig, logind, DDM and the clients. The
difficulty is therefore seldom a data race and nearly always one of these:

* a handler calls others in the middle of its work (activation cancels "show
  desktop", which minimizes windows, each of which looks for another window to
  activate);
* something is noted now and used at the end of a timer, an animation, a D-Bus
  load or a grab, when the situation is another one;
* the same fact is kept in two places (the workspace of a window, its row in the
  model, the histories that name it, the flag that hides it);
* two channels without a common order (DDM's socket, logind's D-Bus signals)
  report on the same session.

### Inventory

| Component | State | Operations | Hard part |
| --- | --- | --- | --- |
| `DConfigManager` | caches of config objects per user and seat, pending pair, connections | start on the first user, switch user, object finished or failed, stop | a switch overtaken by another while its objects load |
| Lock screen: `GreeterProxy`, `LockScreen`, `LockScreenManager`, `WSessionLock` | locked, undecided and shutdown flags; visible container; three timers, two animations; external lock and its surfaces | lock, unlock, login, shutdown menu, switch user, external lock, grace, unlock, abandon | late animations and timers, two lockers in competition |
| User sessions: `SessionManager`, `GreeterProxy` | sessions, active session, enabled sockets, signal connections, thread-pool jobs, posted calls | SessionNew and Removed, UserActivate, UserLoggedIn, Lock and Unlock signals | unordered channels, worker threads, creation that fails midway |
| Activation and focus: `FocusController`, `SeatSurfaceManager`, `ShellHandler`, `SurfaceWrapper` | activated surface and keyboard focus per seat, capabilities of a window, activation history, popup grab and its restore target | map, unmap, minimize, restore, press, request, popup grab, lock, task switch | nested handlers, several seats, a stale restore target |
| `ShowDesktop` | state, per-window flag, running animations | show, leave, cancel, restore | animations racing activations |
| Workspaces: `Workspace`, `WorkspaceModel` | list and ids, current index, windows and history of each, hidden windows, transparent workspaces and who follows them, stored config | switch, create, remove, move, reorder, preview, reload for another user | the same fact in four places; connections that outlive their reason |
| Window creation: `ShellHandler`, prelaunch splash, app-id resolver | pending and closed splash ids, splash wrappers, stored settings, pending resolutions and X11 properties | request, config loaded, window added, resolved, timeout, close | asynchronous config × resolver × client |
| `OutputManager` | configuration under way, commit jobs left with the render loop, outputs on, powered off and mirrored, groups, stored single output, primary output | apply, test, commit finished, hotplug, DPMS, group changes | replaced configuration, partial failure, callbacks in the middle of the loop that schedules them |
| Shortcuts, gestures, task switcher, multitask view | bindings per session, key state, mode | register, commit, press, release | mode changes of two features |
| Seats, drag and drop, input devices, idle, capture, wallpaper, XWayland, XSettings, small protocols | listeners, device lists, inhibitors, frames, files | — | mostly I/O and mirroring of state kept elsewhere |

Who calls whom: `GreeterProxy` tells `SessionManager` and the lock screen;
`UserModel::currentUserName` drives `DConfigManager`, whose `configReady` makes
`WaylandServer` reload `Workspace`; `LockScreenManager` changes the shell mode of
`WaylandServer`, which `FocusController` consults; `SurfaceWrapper` reports
changes of capability to `ShellHandler`, which calls `FocusController` and
`Workspace`; `Workspace` calls `FocusController` after a switch. `OutputManager`
leaves jobs with waylib's `WOutputHelper`, which calls them back after a commit;
it tells the output group protocol of changes, which asks it to reconcile.
`ShellHandler` waits for `WindowConfigStore` and for the resolver client.

`PROJECT.json` lists every component, with the reason where one is not modelled,
and every hazard at the line where it bites.

## 2. The modules

| Module | Models | Extended by |
| --- | --- | --- |
| `UserConfig` | `src/src/dconfig/dconfigmanager.cpp`, start in `core/treeland.cpp`, `WaylandServer::applyCurrentUserConfig` | `MCUserConfig`, `UserConfigProofs` |
| `LockScreen` | `src/src/lockscreen/`, lock state of `greeter/greeterproxy.cpp`, `waylib` session lock, `Greeter.qml` and `LoginView.qml` | `MCLockScreen`, `LockScreenProofs` |
| `Sessions` | `src/src/session/session.cpp`, listeners of `greeterproxy.cpp` | `MCSessions`, `SessionsProofs` |
| `Focus` | `core/focuscontroller.cpp`, `surface/seatsurfacemanager.cpp`, `showdesktop/showdesktop.cpp`, the activation handlers of `core/shellhandler.cpp` and `surface/surfacewrapper.cpp` | `MCFocus`, `FocusProofs` |
| `Workspaces` | `workspace/workspace.cpp`, `workspace/workspacemodel.cpp` and the activations they cause | `MCWorkspaces`, `WorkspacesProofs`, `WorkspacesDisplayProofs` |
| `Recency` | the ordered lists of `WorkspaceModel` (activation history, windows) | `Focus`, `Workspaces` |
| `OutputConfig` | `output/outputmanager.cpp`, effective state of `modules/output-group/`, `WOutputHelper::commit` and `WOutputManagerV1::sendResult` of waylib | `MCOutputConfig`, `OutputConfigProofs` |
| `ConfigRequests` | abstract: what zwlr_output_manager_v1 promises of a configuration | instantiated by `OutputConfig` |
| `Launch` | the splash and window creation handlers of `core/shellhandler.cpp`, `core/windowconfigstore.cpp`, `modules/app-id-resolver/`, `modules/prelaunch-splash/`, asynchronous properties of `WXWayland` | `MCLaunch`, `LaunchProofs` |

Conventions. A handler that others call is an operator from the state reached so
far to the state it leaves, so that nesting in the code is nesting in the model
and nothing is split into steps the program cannot be interrupted between.
Actions are the points where the event loop enters. Definitions whose comment
begins with *Fault:* are deliberately wrong variants of the definition after
them; no specification uses them, and each shows which mistake a property
detects.

**UserConfig.** `cfg` says of each user and seat object whether it is absent,
loading or done; `pending` and `watch` are `m_pendingUserName` and the connections
made for it; `config` and `seatUser` are what `WaylandServer` and `InputManager`
use. `UpdateCurrentUser` and `OnPendingUserConfigInitialized` follow the two
functions, including the disconnection of the previous pair, the shortcut for an
unchanged configuration and the stale check. DConfig is external: an object
created starts to load and ends with success or failure (`ConfigInitialized`).

**LockScreen.** `st` holds the flags of `GreeterProxy`, of the container and its
animations, and the shell mode. `SetLock`, `SetShowShutdownView`, `ScreenLock`,
`PrepareLockScreenTransition` and `FinishLockScreenTransition` are the functions
of that name; QML reactions to a flag (background states and transitions, the
login view) are part of the step that changes the flag. External lockers are
`WSessionLock` objects that may be created, granted, refused, canceled, unlocked
or destroyed by their client at any time, with a surface per output. What DDM
and logind decide happens at any time here; their ordering is in `Sessions`.

**Sessions.** `logind` is the truth outside; `sess`, `active`, `enabled` are
`SessionManager`'s. DDM's messages wait in `inbox` and logind's signals are
handled at once, so that each may overtake the other. `OnSignal` starts a job,
`Worker` is the job on its thread (it reads the active session there),
`PostedCall` the call it posted. Creating a session may fail (`ok`).

**Focus.** One record `st` for all windows, seats, the desktop, an exclusive
panel and at most one grabbing popup per seat. `Activate`, `SetActivated`,
`SetKeyboardFocus`, `ForceActivateSurface`, `CancelShowDesktop`,
`InactivationRequested` and the two capability updates call each other as their
namesakes do. In the code these calls form a cycle: an activation ends the show
desktop state, which minimizes the hidden windows, each of which activates the
latest window. The cycle is entered once at most, since `cancelShowDesktop` leaves
the state before it minimizes anything; so the handlers it reaches are written
first, for a desktop that is not shown (`SetActivatedShown`, `ActivateShown`,
`InactivationShown`, `MinimizeShown`), and the handlers proper after them, with
the bodies they share in common (`Activating`, `Inactivating`, `Losing`). No
definition is recursive. A loop over seats or windows is `ForEach`, a fold of a
function from the state before an element to the state after it. Only one
workspace is there. An activation that xdg-activation asks for before the window is
mapped (`m_pendingActivation`, flushed by `onMappedChanged`, `surfacewrapper.cpp:2036`)
is left out of `MapWindow`. The code runs it before the window gets the capability to
be active, so it can end the show desktop state and restore the window from
minimized, and leaves the activation itself to the steps that `MapWindow` has.

**Workspaces.** Keyboard focus is left out and activation is kept as "the
activated window and the histories"; `focused` in `InactivationRequested` stands
for whether the keyboard was on the window. `Reveal`, `SetCurrentIndex`,
`DoCreateModel` and `DoRemoveModel` are the functions of that name. Reloading a
config removes or creates workspaces one at a time in the code, within one
handler; the model does it in one step with the outcome of the loop
(`TailRows` has the order in which the windows end up). The removals in between may
activate windows that the next one replaces; only the last activation is kept.

The task switcher (`ShowTask`) and the previews of the dock (`StartPreviewing`,
`StopPreviewing`) make the current workspace transparent (`dim`). A window that is
placed on a transparent workspace is hidden if the workspace is *visible*, and
connected to `opaqueChanged` to get its proper flag later (`links`);
`WorkspaceModel::removeSurface` means to cut this connection and cuts the opposite
one, so it stays when the window moves on. `strayed` is a history variable: the
windows that a workspace they had left has flagged since they were placed. A window
is `Settled` if it is not previewed, not waiting for `opaqueChanged` of its own
workspace and not strayed.

**OutputConfig.** `testOrApplyConfiguration` is the one handler that is spread
over several steps, because a forced render commits an output, and so runs the
commit jobs left with it, in the middle of the loop over the heads: `Apply` is its
start (the superseded configuration, the stored single output, the end of copy
mode), `HeadStep` and `HeadError` one head, `LoopEnd` what follows the loop. While
`loop` or `run` is occupied no other handler starts. `Commit` commits the newest
state of an output, `RunJob` calls one job. Jobs hold the *address* of their
configuration, as the lambda in the code does: addresses in `Configs` are reused
once a configuration is answered and freed, also while jobs hold them if `Reuse`. `applyOutputGroups` is put off while
`Busy`; `queued` is the call that `notifyOutputGroupsChanged` posts. `req` is a
history variable: for each address what its client has seen, in the terms of
`ConfigRequests`. An output is on or off; a mode, a scale or a position only
matters by the commit it needs. Creating an output object asks for its stored
colours, which is a commit job as well (`Created`), and a colour request replaces
the state a configuration left for the next commit (`SetOutputColor`).

**ConfigRequests** knows requests only: `Asked`, `Working`, `Answered`. A
configuration is answered once and not used after that. The commit of an output
goes from *wanted* through *queued* to *done*, *failed* or *lost*, and the answer is
success only in the step after which the commit of every output it names has been
reported done. A configuration with a commit that failed, was lost or is still queued
cannot be answered with success. `OutputConfig` is checked and proved to implement it
(`AnswersAsPromised == CR!Spec`, with `req` as the refinement mapping): no late
callback of a superseded configuration may be counted for its successor.

**Launch.** One action per handler; what arrives from outside (settings, app ids,
X11 properties, the clients' objects) is an action of its own that may come late
or never, and what is known at once is used in the same step (`Proceed`). `waiting`
counts the callbacks that `withSplashConfigFor` left with an app's settings, `calls`
the callbacks of the resolver by window, `listed` the entries of
`m_pendingAppIdResolveToplevels` by *address*. `splash` follows each wrapper that was
made as a splash: it is an app's, then perhaps a window's, and its timeout runs on
(`timed`) whatever became of it; the guard of `SplashTimeout` is the code's lookup in
`m_prelaunchWrappers`. The callbacks of an xdg toplevel die with it; an X11 window can
be unmapped and mapped again while an old callback is on its way. `XWaylandRemoved` is
the end of an XWayland instance, which removes its windows through
`onXWaylandSurfaceRemoved`: for a window without a wrapper this handler returns early
and leaves the entry in the list. `left` remembers such addresses, a history variable.
The mismatch count is persisted; it is assumed to be below its limit at the start. A
wrapper that fades out after it was destroyed is left out, and so are the locks on
icon buffers.

Not composed: the modules meet in narrow interfaces (the current user, the shell
mode, the activated window) and each treats the others as acting at any time,
which is the weaker assumption.

## 3. What is checked

Twelve runs; one of them shows a disagreement of the code with its documentation
(section 5). Deadlock is checked everywhere except in `user_config`, where the
server may be stopped for good.

| Run | Instance | Shows |
| --- | --- | --- |
| `user_config` | two users and the greeter's user | only the pending pair is listened to, and a pending switch has something to wait for (`PendingIsWatched`), nothing half-loaded is used (`ServesLoadedConfig`), nothing stale is installed (`NoStaleSwitch`), the last switch completes (`SwitchCompletes`) |
| `lock_screen` | two external locks, two outputs (12 754 states) | `UndecidedShown`, `GraceOnlyForPendingLock`, `NoLeftover`; no late animation or timer hides a locked screen (`LockedStaysShown`); the fallback timer decides (`FallbackDecides`), an unlock ends hidden (`UnlockHides`) |
| `sessions` | user 1 with two logind sessions, user 2 with one; 2 jobs, 1 message under way (911 226 states) | only the active session has an enabled socket, and it is listed with an id of its own user (`ActiveSessionServed`); `EndedSessionLocks` |
| `session_signals` | two users with one session each | a Lock signal of the session that stays active is never lost (`LockSignalHonoured`) |
| `focus` | one seat, two windows, desktop and panel (465 528 states) | `FocusOnMapped`, `HistoryLive`, `FocusFallsBack` |
| `focus_popup` | one seat, one window, desktop, panel, popup, dde-shell v2 (83 611 states) | `ShowDesktopKeepsFocus` with grabs |
| `focus_seats` | two seats, two windows (59 468 states) | what a seat has activated can be active and the primary seat's is told so (`ActivatedLive`), `RequestBringsBack` |
| `workspaces` | two windows (interchangeable, hence the symmetry), at most two workspaces and three ids, task switcher and previews on one of them (115 890 states) | `HistoryHere`, `ConfigTracks`, `ActivatedIsShown`; a settled window is hidden exactly when its workspace is not current (`HiddenIffElsewhere`); windows shown on all workspaces stay there |
| `output_config` | two outputs, one of which fails, is dimmed and powered off; two configurations; a group or none; from the end of the initial scan (493 079 states) | a reconciliation that was put off is not lost (`NoLostReconcile`), no output becomes a mirror while a configuration's job is left (`NoMirrorInFlight`), the answers refine `ConfigRequests` (`AnswersAsPromised`); a configuration that is never answered has an output that was unplugged with its job, or one that is queued and off from some moment on (`AnsweredInTime`) |
| `output_hotplug` | the same outputs from the start of the backend, unplugged and plugged at any time; one configuration; groups with either source (728 916 states) | what is rendered is what was reported, and no mirror of an output that is gone stays (`RenderedAsReported`); `AnswersAsPromised` |
| `output_off` | two outputs that never fail, one configuration | the finding of section 5 |
| `launch` | one app, an xdg window, an X11 window, two splash wrappers, a limit of two mismatches (76 824 states) | one splash per app (`OneSplash`); no window lost between its appearance and its wrapper, or shown twice, except at an address that XWayland's teardown left in the list (`NoLimbo`); a splash with a timeout ends (`SplashEnds`); a window that is never shown waits for a resolver that is bound and owes it an answer (`OnlyResolverHoldsUp`) |

Every module with state has one type invariant; the comment above each property states it
and the code it is about. `PROJECT.json` names for each property of a passing run
a faulty variant of the code that violates it.

**Bounds.** `MaxJobs` and `MaxInbox` bound the jobs and messages under way in
`Sessions`: two jobs are what overtaking needs, and one unread message is what
two unordered channels need. `MaxId` and `MaxModels` bound the workspaces ever
created and those that exist, and one more id than workspaces lets one be removed
and another be created in its place. With previews (on the workspaces of `Dimmed`) two
workspaces are what TLC manages in minutes. Three workspaces, which have a first, a
middle and a last one, are checked without previews by `MCWorkspacesThree.cfg` (37 522
states, the same properties), and the theorems are for any number with previews. Two windows are an activated one and the one to fall back to (counterexample 6 of
section 5 needs a third); two
seats, locks or outputs are one and a competitor. Three users cover a switch that
is overtaken twice, the greeter's user among them. `MaxJobs` and `MaxInFlight`
in `OutputConfig` let an output have a leftover job and a new one, and each output
a job; `Flaky` and `Dimmable` name the output whose commits may fail and that has
colours and DPMS, so that the other one is a sound companion; `Hotplug` divides
the two questions of the runs, since hotplug and two configurations together are
too many states. `EarlyFinish = FALSE` keeps out configurations that forced renders
finish inside their own loop: those whose first head is turned on, since at its
callback no other commit is pending. What follows is a use of freed memory
(counterexample 5 of section 5), so there is no behaviour to state a property of.
`Reuse = FALSE` is another restriction, and no undefined behaviour stands behind it: a
new configuration does not get the address of a freed one whose jobs are left. The
allocator may give it that address, and then the promise is broken (counterexample 7).
`MaxObjects`, `MaxWaiting` and `MaxCalls` in `Launch` are two:
a request and its rival, a stale callback and a new one; two `Wrappers` are a splash
and one that a window took over. The apps of `Launch` share nothing but the question
whether any window is awaited. No counter is bounded otherwise.

**Fairness**, and why the code justifies it. `UserConfig`: start-up goes on, and
each DConfig object that loads ends with success or failure (dtk emits one of two
signals). `LockScreen`: the fallback timer and the two animations end, as Qt
timers and animations do once started. `Sessions`: the thread pool runs each
job, the event loop each posted call. `OutputConfig`: the loop over the heads and
the jobs of a commit run to their end, and an enabled output gets a frame, and
with it its commit, if it has a chance again and again (strong fairness, since
every other handler suspends it); a disabled output gets none. `Launch`: the
timeout of a splash, which is started only if it is configured as positive, and
the 50 ms for X11 properties run out. The resolver and the settings need never
answer. Nothing else is assumed: users, clients,
DDM and logind need never do anything. `Focus` and `Workspaces` have safety
properties only and no fairness.

## 4. What is proved

All proofs are for any value of the constants allowed by the named `ASSUME`s
(distinctness of null values, ownership of logind sessions, bounds that are
natural numbers, finitely many outputs, windows and seats).

* **`UserConfigProofs`** — `SwitchIsWatched`, `ConfigSafety`,
  `StaleSwitchNeverApplied` and `SwitchNeverForgotten`: the current user of a running
  server is served, or its switch is pending and has an object it listens to. The
  inductive invariant adds `StartInv` to the three safety properties: before the
  server runs nobody is served and nothing is pending, and the objects of the
  current and of the pending user exist. Without it, `ServesLoadedConfig` would
  have to hold of objects never created.
* **`LockScreenProofs`** — `LockScreenSafety` (grace), `UndecidedIsShown`,
  `ExternalLockLeavesNothing`, `LockedScreenStaysShown` and `DecisionAlwaysAhead`: an
  undecided greeter has its fallback timer or an active user session. `Core` is what every handler keeps: the login view
  slides away only on a shown, unlocked and decided screen, and the undecided
  screen is shown and unlocked. `Keeps(s, t)` says of a handler from `s` to `t`
  that it keeps `Core`, never returns to the undecided state, and does not hide a
  screen that stays locked; one lemma per handler, used by every action that
  calls it. The invariant adds that the background fades only when nothing asks
  for it, and that no external lock is held while undecided: these are what a
  late animation relies on.
* **`SessionsProofs`** — `SessionSafety` and `EndOfSessionLocks`. The invariant
  adds `OwnIds`: a session object carries the id of a logind session of its own
  user. It is needed because `ensureSession` reuses an object whatever its id.
* **`WorkspacesProofs`** — `HistoriesAreLive` (`HistoryHere`) and
  `ActivatesOnlyShown` (`ActivatedIsShown`), for windows that do not leave "show
  on all workspaces" (`~Unstick`; counterexample 4 of section 5 shows the
  condition is needed). The
  invariant: ids in the list are distinct and were given out before (`ListInv`),
  each window is on a listed workspace, on all or on none (`Places`), the rows of
  a workspace are exactly the windows placed there (`Rows`), and histories are
  alive and empty for workspaces not listed (`Live`). `Rows` is what makes
  removing a workspace right, since the code moves the windows in the row and not
  those with that workspace id; the emptiness of unlisted histories is what lets
  the removal of a window touch listed histories only. Lemmas on lists (`Elems` of
  `Push`, `Drop`, `Stack`) and on cutting and reordering the list of workspaces
  carry the arguments.
* **`WorkspacesDisplayProofs`** — `TypeCorrect`, `HiddenElsewhere`
  (`HiddenIffElsewhere`) and `ConfigFollows` (`ConfigTracks`), also for windows that
  leave "show on all workspaces". The invariant `DInv` joins `ListInv`, `Places` and
  `Rows` with a statement of the whole display (`Seen`): exactly the current workspace
  is visible, of the settled windows those placed elsewhere are hidden, and the config
  holds the number of workspaces and the current index. The histories play no part,
  which is why the condition of the theorems above is not needed. `Shows` carries it,
  for any set of windows, through `Reveal` and `SetCurrentIndex` by one lemma each
  (`RevealShows`, `SetCurrentIndexShows`), and through the removal of several
  workspaces with a switch after it by `RemovedShows`: `setVisible` touches the windows
  in the *rows* of a workspace, so `Rows` is what makes the hidden windows come out
  right. Which windows become settled is the other half: `RemovedCalm` for the windows
  that go to another workspace, `FlaggedShows` for `opaqueChanged` (a follower on the
  current workspace gets the right flag, a follower elsewhere is strayed) and
  `RestoredShows` for the end of a preview.
* **`OutputConfigProofs`** — `TypeCorrect`, `NoReconcileLost` (`NoLostReconcile`),
  `MirrorsAwaitJobs` (`NoMirrorInFlight`), `RenderedReported`
  (`RenderedAsReported`), `AnswerNeverForgotten` (one that is owed an answer has a job left or lost) and
  `Refines` (`AnswersAsPromised`), for any outputs, groups, configurations and
  bounds. They assume `~EarlyFinish` (in each configuration a head that needs no
  forced render comes before those that need one) and `~Reuse` (a new configuration
  does not get the address of a freed one whose jobs are left), as the runs do;
  counterexamples 5 and 7 of section 5 show that `Refines` fails without either. The invariant follows every job: `Owed` is the set of places where jobs of
  configurations are, including those that are lost with an unplugged output, and
  its cardinality is at most `m_inFlightOutputCommits` (`Counters`), so a job that
  is left means that groups are not reconciled and copy mode is torn down
  (`TornDown`). `OnePending` says that every configuration but the pending one is
  answered and freed, and that no job has touched a freed one; `HeadsOf` ties what
  the client may have seen of each head to the one job that is left for it and to
  the counter `pendingCommits` (`pend.left`). With it the last call of a job, and no
  earlier one, answers, and answers with success only if every head was committed:
  the refinement. The jobs of a superseded configuration are called as well; they
  lower the counter of commits in flight and must not touch the pending one, which
  `HeadsOf` shows as they hold another address.
* **`LaunchProofs`** — `LaunchTypes`, `OneSplashPerApp` and `WindowsNeverLost`
  (`NoLimbo`), the teardown of XWayland included. The inductive invariant joins the
  type invariant and `NoLimbo` with `Marks`: a mark has a callback that waits, a
  callback waits only while the settings load, and a splash is there only once
  they have been read. That a mark and a splash exclude each other follows from
  it; without it the mark of one request and the splash of another could not be
  told apart.

* **`FocusProofs`** — `AtRest`, and from it `TypeCorrect`, `FocusRests`
  (`FocusOnMapped`), `HistoryStaysLive` (`HistoryLive`, for clients of dde-shell v1),
  `ActivatedStaysLive` (`ActivatedLive`), `DesktopKeepsFocus`
  (`ShowDesktopKeepsFocus`), `FallsBack` (`FocusFallsBack`, for clients of dde-shell
  v1), `NoneLeftBehind` and `RequestAlwaysBringsBack` (`RequestBringsBack`), for any
  number of windows and seats.
  The properties are not inductive: a handler is called in the middle of another,
  when a window has lost one capability and not yet the other, or the seat has let
  go of a window and not yet turned to the next. The invariant therefore has a
  context, `Ok(s, X, N, D, b)`: capabilities follow from mapping and minimization
  except for the surfaces of `X`, which are in transition (`Capable`); focus and
  activation are on what has the capability, or in `X` (`Focused`); the history is
  alive and names nothing of `N` (`Remembered`); the primary seat has activated
  nothing of `D`, and `b` says whether its window has been told (`Told`). `Rest` is
  `Ok` with nothing in transition, which every action starts from and returns to.
  Each handler has one lemma that says which context it keeps, which it needs and
  which it empties: `InactivationRequestedOk` takes a window `x` in `X` and returns
  with `x` in `N` and no seat on it, whatever the fallback does, and `OkGone` then
  takes `x` out of both. The nested activation is covered by `ActivateOk` for any
  context with `D` within `N`: a window that has left the history is not activated
  again by an inner call. `Refocused(s, t)` is the same for the handlers that only
  move the keyboard. Loops are covered by `ForEachKeeps` and `ForEachReaches` (a
  family of sets indexed by the elements already handled), proved from the
  definition of the fold by a minimal counterexample, as an induction over finite
  sets would.

  The two action properties need more than the invariant. `DesktopKeepsFocus` rests
  on a relation between the states before and after a handler: `KeepsOff(s, t)` (if
  the desktop is shown after, it was before, and no seat has turned to a window) and
  `Grown(s, t)` (the show desktop state is not entered, and outside of it no window
  loses the capability to be active); `Steady` is both. It
  composes (`SteadyAgain`) and each handler has it as a second conclusion of its
  lemma; the activation of a window may break it only by leaving the show desktop
  state. `FallsBack` follows the primary seat exactly instead of bounding it:
  `Turned` says what focus, activation and active item are, `Falls(s, t, l)` that the
  mode stays and, if it is `Normal`, they have all turned to `l`, the latest window
  of the history without the one that goes. `NextGrows` shows that
  outside of the show desktop state only a minimization or an unmap takes the
  capability to be active, and `LosingFalls` follows these two through
  `InactivationRequested` and the loss of the focus capability. That `l` does get the
  keyboard needs a conjunct of `Capable`: a window that can be active and accepts
  the keyboard can be focused. With the v2 request the history may hold a window
  that refuses the keyboard, hence the condition. The constants are assumed to be
  distinct surfaces: no window is the desktop, the panel or a popup.

  `RequestAlwaysBringsBack` is about what can be seen, which `Rest` leaves free. It
  needs a second invariant, `Viewed` (`NoneLeftBehind`): while the desktop is shown, a
  mapped window that is neither minimized nor marked as hidden is visible or its
  animation runs. `restoreFromMinimized` returns early for just these windows, so a
  request relies on their being visible already. `Seen(s, t)` says that a handler leaves
  alone what is mapped, minimized, hidden, visible and animated, as all handlers of
  focus and capability do; `Shows(s, t)` that it does so unless it ends the show desktop
  state, which only the activations nested in it can; `Spares(s, t, w)` that it leaves
  alone this one window, as `cancelShowDesktop` does with the window that is asked for
  while it minimizes the others one by one. The second argument of `Viewed` holds the
  window a handler is changing, from its new capabilities until `updateVisible`.

The type invariants of all modules with state are theorems of their own, and so is
each state invariant and each action property that a passing run checks.

Model-checked only: the liveness properties (`SwitchCompletes`, `FallbackDecides`,
`UnlockHides`, `LockSignalHonoured`, `AnsweredInTime`, `SplashEnds`,
`OnlyResolverHoldsUp`), since
fairness is beyond the prover. Of three of them the safety they rest on is proved,
that something is left that can bring the result about: `SwitchNeverForgotten` for
`SwitchCompletes`, `DecisionAlwaysAhead` for `FallbackDecides` and
`AnswerNeverForgotten` for `AnsweredInTime`. The same is not true of `UnlockHides`: the
lock shortcut shows the container before logind has sent the Lock signal
(`lockscreen.cpp:56`), so a container can be visible with
nothing shown in it and no animation; the property starts from a running animation.

## 5. Findings

`output_off` — a configuration that names an output which is off and is to stay
off is never answered. Its commit job waits for a commit, which only an enabled
output or a forced render brings, and the forced render is for outputs that are to
be turned on (`src/src/output/outputmanager.cpp:1628`). The protocol says that the
compositor "must respond with an succeeded, failed or cancelled event"
(`src/3rdparty/wlroots/protocol/wlr-output-management-unstable-v1.xml:475`). The
counter of commits in flight stays above zero as well, so that a group change is
put off for good, against the comment at `outputmanager.h:164-166`.

### Other counterexamples

Each of these is a configuration of its own, with a property the code contradicts.

1. `MCLockScreenExternal.cfg` (`ExternalLockShown`) — a `UserActivateMessage` in
   the undecided state hides the container while its background still fades. An
   external lock granted before the fade ends is hidden by `onHideAnimationFinished`
   (`src/src/lockscreen/lockscreen.cpp:177`), the state line 376 logs as critical.
2. `MCSessionsHasActive.cfg` (`LastSessionClearsFlag`) — `hasActiveSession` stays
   true after the last user session, because the session of user "dde" is always
   listed (`src/src/greeter/greeterproxy.cpp:370`, documented in
   `greeterproxy.h:134`).
3. `MCFocusGrab.cfg` (`KeysToActivated`) — the end of a popup grab returns the
   keyboard to the surface noted at its beginning, also when another window was
   activated before the popup was mapped
   (`src/src/surface/seatsurfacemanager.cpp:515`, against the comment at 507).
4. `MCWorkspacesUnstick.cfg` (`ActivatedIsShown`) — a window that leaves "show on
   all workspaces" stays in the histories of the other workspaces and is activated
   there later (`src/src/workspace/workspace.cpp:63`, against the assertion at
   `src/src/core/focuscontroller.cpp:184`).
5. `MCOutputTwice.cfg` (`AnsweredOnce`) — a configuration all of whose heads are
   turned on is committed by forced renders inside the loop, so its callbacks
   answer and free it there; the loop then goes on with the empty
   `m_pendingOutputConfig`, and `pendingCommits == 0` after it answers the freed
   configuration again (`src/src/output/outputmanager.cpp:1633`, whose comment says
   that nothing was scheduled).
6. `MCFocusFlag.cfg` (`MinimizedNotActivated`) — a minimized window can be told that
   it is activated. `setActivatedSurface` notes the activated window when it begins,
   takes the flag from it, and gives it to the new one at its end
   (`src/src/core/focuscontroller.cpp:176-218`). In between it may end the show
   desktop state, which minimizes the hidden windows; if one of them has the keyboard
   (the closing of a window menu gives it to the latest window, also a hidden one),
   its fallback activates a third window and flags it, and nothing takes this flag
   back. When the third window is minimized it is not the activated one of any seat,
   so `onSurfaceInactivationRequested` does not clear it, whose comment says "so
   foreign-toplevel clients do not observe a minimized-but-activated window"
   (`src/src/core/shellhandler.cpp:1188`). `ActivatedLive` is what holds: the
   activated window has the flag, though others may have it too. It takes three
   windows; the attempt to prove that only the activated window has the flag led to
   it.
7. `MCOutputReuse.cfg` (`AnswersAsPromised`) — a callback belongs to the pending
   configuration if it holds the same address (`src/src/output/outputmanager.cpp:1645`).
   A configuration that was superseded is freed while its jobs are left; if the next
   one but one is allocated at its address, the leftover job is counted for it, and the
   client is told of success before its own output was committed.
8. `MCWorkspacesStray.cfg` (`RightAfterPreview`) — a window that was placed on a
   workspace while that was transparent and has moved to another is un-hidden, and
   drawn over the current workspace, when the first becomes opaque again:
   `surface->disconnect(this)` in `WorkspaceModel::removeSurface`
   (`src/src/workspace/workspacemodel.cpp:84`) cuts connections from the window to the
   workspace, while `addSurface` made one from the workspace to the window (line 72).
9. `MCWorkspacesDim.cfg` (`OnlyCurrentDim`) — a switch of workspaces while the task
   switcher or a preview is open leaves the old workspace transparent:
   `stopPreviewing` and `showTask(false)` make the workspace opaque that is current
   then (`src/src/workspace/workspace.cpp:393`). A click on the dock's preview of a
   window of another workspace is such a switch.
10. `MCLaunchTeardown.cfg` (`ListLive`) — XWayland ends while a window of it waits for
   its app id: `onXWaylandSurfaceRemoved` returns early without a wrapper
   (`src/src/core/shellhandler.cpp:606-615`), and the raw pointer stays in
   `m_pendingAppIdResolveToplevels`. A window allocated at that address later is in the
   list twice, and answers for both entries may give it two wrappers.

Behaviour the models contain and that a maintainer may want to know, without a
line in the repository that says otherwise:

* the fallback timer only asks DDM to lock when a user session was reported;
  `FallbackDecides` is therefore about the case without one
  (`greeterproxy.cpp:126-131`, `282`);
* `switchUser` returns early while the container fades, after the shell mode was
  changed, so mode and container can disagree (`lockscreenmanager.cpp:208`);
* a posted lock call is not checked against the active session again
  (`greeterproxy.cpp:392`);
* a press on the window that is activated already gives it the keyboard while
  the desktop stays shown (`focuscontroller.cpp:165`);
* windows whose show-desktop animation still runs at an activation end up
  invisible and not minimized (`surfacewrapper.cpp:2116`); `RequestBringsBack`
  leaves them out;
* dde-shell v2 changes the acceptance of the keyboard without the removal from
  the history that v1 makes (`shellhandler.cpp:1518` and `1202`); `HistoryLive`
  is checked for v1;
* the jobs of an unplugged output are never called, so its configuration is not
  answered and `m_inFlightOutputCommits` keeps their count: groups are not
  reconciled until the compositor restarts (`outputmanager.cpp:489`);
  `AnsweredInTime` leaves such configurations out;
* `wakePoweredOffOutputs` does not tell the groups of the outputs it enables
  (`outputmanager.cpp:470`), and an output that a configuration turns on while it
  is powered off stays in `m_powerOffOutputs`;
* a brightness request between a configuration and its commit replaces the state
  of the configuration, whose job then counts as failed
  (`outputmanager.cpp:1608`, `output.cpp:1295`);
* a window that appears while the settings of its splash load is shown without
  it, and the splash follows: the mark is only removed for a resolved app id
  (`shellhandler.cpp:571` and `632`, against the comment at 278);
* the app id of a splash that was closed by the user is kept until a window of
  the app comes, and that window is closed, however late (`shellhandler.cpp:357`);
* a client that destroys its splash object, created or refused, closes the splash
  another client asked for (`prelaunchsplash.cpp:51`);
* a resolver that is bound and does not answer keeps a window invisible without
  end; only its disconnection is handled (`appidresolver.cpp:81`);
* `reloadFromConfig` switches without activating, so `ActivatedIsShown` leaves it
  out; a stored index out of range is not written back (`workspace.cpp:337`).

## 6. What is not modelled

Geometry, rendering and animation curves; decorations, maximized, fullscreen and
tiled states; parent and modal children; positions of layer surfaces; seat
hotplug, drag and drop, pointer constraints; wallpaper and capture (files,
buffers, helper processes); XWayland and XSettings (encoding for other programs);
small protocols that mirror state kept elsewhere. Of the outputs: the test
request, modes and layout, the primary output with its restore intents
(`outputmanager.cpp:1756-1934`, which moves windows between layouts), gamma, and
several groups at once. Of window creation: popups, layer surfaces, input method
popups and the sizes that are saved. Most of the repository's lines are rendering,
vendored libraries, protocol glue and tools, without state of this kind. waylib, wlroots, Qt, DConfig,
logind and DDM are external services, present as the events they can cause.

## 7. Plan

Done: the modules above, in the order `UserConfig`, `LockScreen`, `Sessions`,
`Focus`, `Workspaces`, `OutputConfig`, `Launch`, and the proofs of section 4. Next,
most important first:

1. **Focus × Workspaces** — the activation that both modules abstract from the
   other's side, as a composition with two workspaces and one seat.
2. The primary output and its intents, as an extension of `OutputConfig`.
3. **Shortcuts** — registration and commit of key bindings per session.

Hazards of these parts are in `PROJECT.json` with a note until a property covers
them.
