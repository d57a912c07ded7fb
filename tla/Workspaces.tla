----------------------------- MODULE Workspaces -----------------------------
(***************************************************************************)
(* Workspace and WorkspaceModel: the list of workspaces, which of them is  *)
(* current, the windows on each, and the activation history of each, from  *)
(* which the window to activate after a switch is taken.  A window may     *)
(* also be shown on all workspaces, and is then in every history.          *)
(*                                                                         *)
(* Keyboard focus is in module Focus.                                      *)
(***************************************************************************)
EXTENDS Integers, Sequences, FiniteSets, Recency

CONSTANTS
  MaxId,       \* bound on the workspace ids ever given out
  MaxModels,   \* bound on the number of workspaces
  All,         \* ShowOnAllWorkspaceId
  Out,         \* workspace id -1: the window is in no workspace
  Unstick,     \* whether windows are moved away from "show on all workspaces"
  Dimmed       \* bound: workspaces on which the task switcher and previews open

Ids == 0..MaxId

ASSUME WorkspacesAssumption ==
  /\ MaxId \in Nat /\ MaxModels \in Nat \ {0} /\ MaxModels <= MaxId + 1
  /\ All \notin Ids /\ Out \notin Ids /\ All # Out
  /\ Unstick \in BOOLEAN /\ Dimmed \subseteq Ids

VARIABLES
  models,     \* m_models: workspace ids in display order
  nextId,     \* nextWorkspaceId
  cur,        \* m_currentIndex, from 1
  visible,    \* workspaces whose m_visible is set
  rows,       \* windows of a workspace, last added first
  hist,       \* m_activedSurfaceHistory of a workspace
  wid,        \* SurfaceWrapper::m_workspaceId
  hidden,     \* SurfaceWrapper::m_hideByWorkspace
  capable,    \* windows with hasActiveCapability()
  activated,  \* the activated surface of the seat
  browsing,   \* current mode is Multitaskview
  dim,        \* workspaces whose m_opaque is not set
  links,      \* window w follows opaqueChanged of workspace k: pairs <<w, k>>
  peek,       \* m_previewingItem
  strayed,    \* history: windows whose flag was set by a workspace they had left,
              \* and that have not been placed since
  cfgNum,     \* numWorkspace of the active user's config
  cfgCur      \* currentWorkspace of the active user's config

config == <<cfgNum, cfgCur>>
list   == <<models, nextId, cur, visible>>
placed == <<rows, wid, hidden>>
look   == <<dim, links, peek, strayed>>
vars   == <<list, placed, hist, capable, activated, browsing, look, config>>

Keys == Ids \cup {All}

TypeOK ==
  /\ models \in Seq(Ids)
  /\ nextId \in Nat
  /\ cur \in 1..Len(models)
  /\ visible \subseteq Ids
  /\ rows \in [Keys -> SUBSET (Windows \X Windows)]
  /\ hist \in [Keys -> SUBSET (Windows \X Windows)]
  /\ wid \in [Windows -> Keys \cup {Out}]
  /\ hidden \subseteq Windows
  /\ capable \subseteq Windows
  /\ activated \in Windows \cup {None}
  /\ browsing \in BOOLEAN
  /\ dim \subseteq Ids /\ links \subseteq Windows \X Ids
  /\ peek \in Windows \cup {None} /\ strayed \subseteq Windows
  /\ cfgNum \in Nat /\ cfgCur \in Nat

\* Workspace::Workspace, for a config whose current workspace exists.
Init ==
  /\ cfgNum \in 1..MaxModels
  /\ cfgCur \in 0..(cfgNum - 1)
  /\ models = [i \in 1..cfgNum |-> i - 1]
  /\ nextId = cfgNum
  /\ cur = cfgCur + 1
  /\ visible = {cfgCur}
  /\ rows = [k \in Keys |-> {}]
  /\ hist = [k \in Keys |-> {}]
  /\ wid = [w \in Windows |-> Out]
  /\ hidden = {}
  /\ capable = {}
  /\ activated = None
  /\ browsing = FALSE
  /\ dim = {} /\ links = {} /\ peek = None /\ strayed = {}

-----------------------------------------------------------------------------
\* The workspaces whose history a window is kept in.
Histories(ms, k) == IF k = All THEN {ms[i] : i \in DOMAIN ms} \cup {All} ELSE {k}

\* Workspace::pushActivedSurface and Workspace::removeActivedSurface.
PushActived(h, ms, k, w) ==
  [m \in Keys |-> IF m \in Histories(ms, k) THEN Push(h[m], w) ELSE h[m]]
RemoveActived(h, ms, k, w) ==
  [m \in Keys |-> IF m \in Histories(ms, k) THEN Drop(h[m], {w}) ELSE h[m]]

\* SurfaceWrapper::showOnWorkspace.
ShowOn(k, m) == k = m \/ k = All

\* FocusController::activateSurface in normal mode on a state the caller has
\* reached so far: was the activated surface, c the capable windows, p their
\* places, ms the models, h the histories.  The result is the new activated
\* surface and the new histories; a window without active capability is only
\* logged.
Activation(w, was, c, p, ms, h) ==
  [a |-> IF w = None \/ w \in c THEN w ELSE was,
   h |-> IF w \in c /\ w # was THEN PushActived(h, ms, p[w], w) ELSE h]

\* The end of a switch: activate the latest surface of workspace k, unless the
\* multitask view is open.
LatestActivation(k, was, c, p, ms, h) ==
  IF browsing THEN [a |-> was, h |-> h]
  ELSE Activation(Latest(h[k]), was, c, p, ms, h)

Becomes(r) == activated' = r.a /\ hist' = r.h

\* What is on display: the index of the current workspace, the visible
\* workspaces, the windows hidden by them, and the index kept in the config.
View    == [cur |-> cur, vis |-> visible, hid |-> hidden, idx |-> cfgCur]
Sees(v) == cur' = v.cur /\ visible' = v.vis /\ hidden' = v.hid /\ cfgCur' = v.idx

\* Fault: the windows of the workspace left behind stay shown.
RevealKeepsOld(v, rs, k) ==
  [v EXCEPT !.vis = {k}, !.hid = @ \ UNION {Elems(rs[m]) : m \in {k} \ v.vis}]

\* WorkspaceModel::setVisible on every workspace so that only k is visible, rs
\* being the windows on each: only a change touches the windows.
Reveal(v, rs, k) ==
  [v EXCEPT !.vis = {k},
            !.hid = (@ \ UNION {Elems(rs[m]) : m \in {k} \ v.vis})
                      \cup UNION {Elems(rs[m]) : m \in v.vis \ {k}}]

\* Workspace::setCurrentIndex to a valid index.
SetCurrentIndex(v, ms, rs, i) ==
  IF i = v.cur THEN v ELSE [Reveal(v, rs, ms[i]) EXCEPT !.cur = i, !.idx = i - 1]

\* The flag of the windows S of workspace k is set as the visibility of k asks.
AsVisible(k, S, hid) == IF k = All \/ k \in visible THEN hid \ S ELSE hid \cup S

\* WorkspaceModel::addSurface: windows S enter workspace k.  While the windows of
\* k are transparent the flag is the other way round, until opaqueChanged.
HiddenIn(k, S, hid) ==
  IF k \notin dim THEN AsVisible(k, S, hid)
  ELSE IF k \in visible THEN hid \cup S ELSE hid \ S

\* The connections to opaqueChanged that it makes.
Linked(k, S) == IF k \in dim THEN S \X {k} ELSE {}

\* Windows S are placed on workspace k; the connections that they had to other
\* workspaces stay, removeSurface does not cut them.
Entering(k, S) ==
  /\ links' = links \cup Linked(k, S)
  /\ strayed' = strayed \ S
  /\ UNCHANGED <<dim, peek>>

IndexOf(ms, k) == CHOOSE i \in DOMAIN ms : ms[i] = k
Current        == models[cur]
Listed         == {models[i] : i \in DOMAIN models}

-----------------------------------------------------------------------------
\* Workspace::switchTo, switchToNext and switchToPrev.
SwitchTo(i) ==
  /\ i # cur
  /\ Sees(SetCurrentIndex(View, models, rows, i))
  /\ Becomes(LatestActivation(models[i], activated, capable, wid, models, hist))
  /\ UNCHANGED <<models, nextId, rows, wid, capable, browsing, look, cfgNum>>

\* activationRequested on a window that has just become capable (c): activate
\* it, or only note it in the history of its workspace.
Requested(w, c) ==
  IF ShowOn(wid[w], Current) THEN Activation(w, activated, c, wid, models, hist)
  ELSE [a |-> activated, h |-> PushActived(hist, models, wid[w], w)]

\* Fault: the window is activated without going to its workspace.
ForceActivateHere(w) ==
  LET c == capable \cup {w}
      r == IF w \in capable THEN [a |-> activated, h |-> hist] ELSE Requested(w, c)
  IN  /\ capable' = c
      /\ Becomes(Activation(w, r.a, c, wid, models, r.h))
      /\ UNCHANGED <<list, placed, look, cfgCur>>

\* FocusController::forceActivateSurface on a mapped window: restore it from
\* minimized, go to its workspace, activate it.
ForceActivate(w) ==
  LET c   == capable \cup {w}
      r   == IF w \in capable THEN [a |-> activated, h |-> hist] ELSE Requested(w, c)
      far == ~ShowOn(wid[w], Current)
      i   == IF far THEN IndexOf(models, wid[w]) ELSE cur
      sw  == IF far THEN LatestActivation(wid[w], r.a, c, wid, models, r.h) ELSE r
  IN  /\ capable' = c
      /\ Sees(SetCurrentIndex(View, models, rows, i))
      /\ Becomes(Activation(w, sw.a, c, wid, models, sw.h))
      /\ UNCHANGED <<models, nextId, rows, wid, look>>

\* A client or the dock asks for the window.
RequestWindow(w) ==
  /\ wid[w] # Out
  /\ ForceActivate(w)
  /\ UNCHANGED <<browsing, cfgNum>>

\* A press on the background, or a change of the active session.
Deactivate ==
  /\ activated # None
  /\ activated' = None
  /\ UNCHANGED <<list, placed, hist, capable, browsing, look, config>>

\* Workspace::clearActivedSurface, when the active session is removed.
ClearActived ==
  /\ hist' = [k \in Keys |-> {}]
  /\ activated' = None
  /\ UNCHANGED <<list, placed, capable, browsing, look, config>>

\* Multitaskview::enter.
EnterMultitaskview ==
  /\ ~browsing
  /\ browsing' = TRUE
  /\ activated' = None
  /\ UNCHANGED <<list, placed, hist, capable, look, config>>

\* Multitaskview::exit, with the window picked, the latest one, or none.
ExitMultitaskview(w) ==
  /\ browsing
  /\ browsing' = FALSE
  /\ IF w = None THEN UNCHANGED <<list, placed, hist, capable, activated, look, cfgCur>>
     ELSE wid[w] # Out /\ ForceActivate(w)
  /\ UNCHANGED cfgNum

\* Workspace::addSurface, on the current workspace or that of the parent.
AddSurface(w, k) ==
  /\ wid[w] = Out
  /\ k \in Listed \cup {All}
  /\ wid' = [wid EXCEPT ![w] = k]
  /\ rows' = [rows EXCEPT ![k] = Push(@, w)]
  /\ hidden' = HiddenIn(k, {w}, hidden)
  /\ Entering(k, {w})
  /\ UNCHANGED <<list, hist, capable, activated, browsing, config>>

\* activationRequested: the window is mapped or restored.
ActivationRequested(w) ==
  /\ wid[w] # Out /\ w \notin capable
  /\ capable' = capable \cup {w}
  /\ Becomes(Requested(w, capable'))
  /\ UNCHANGED <<list, placed, browsing, look, config>>

\* Fault: the window leaves the history of the current workspace only.
InactivationRequestedCurrentOnly(w, focused) ==
  /\ w \in capable
  /\ capable' = capable \ {w}
  /\ LET h == [hist EXCEPT ![Current] = Drop(@, {w})]
     IN  IF focused
         THEN Becomes(Activation(Latest(h[Current]), None, capable', wid, models, h))
         ELSE Becomes([a |-> IF activated = w THEN None ELSE activated, h |-> h])
  /\ UNCHANGED <<list, placed, browsing, look, config>>

\* ShellHandler::onSurfaceInactivationRequested: the window is unmapped or
\* minimized; with the keyboard focus it also hands over the activation.
InactivationRequested(w, focused) ==
  /\ w \in capable
  /\ capable' = capable \ {w}
  /\ LET h == RemoveActived(hist, models, wid[w], w)
     IN  IF focused
         THEN Becomes(Activation(Latest(h[Current]), None, capable', wid, models, h))
         ELSE Becomes([a |-> IF activated = w THEN None ELSE activated, h |-> h])
  /\ UNCHANGED <<list, placed, browsing, look, config>>

\* RootSurfaceContainer::destroyForSurface and Workspace::removeSurface.
RemoveSurface(w) ==
  /\ wid[w] # Out
  /\ LET k == wid[w]
         h == IF w \in capable THEN RemoveActived(hist, models, k, w) ELSE hist
     IN  /\ hist' = [h EXCEPT ![k] = Drop(@, {w})]
         /\ rows' = [rows EXCEPT ![k] = Drop(@, {w})]
  /\ wid' = [wid EXCEPT ![w] = Out]
  /\ hidden' = hidden \ {w}
  /\ capable' = capable \ {w}
  /\ activated' = IF activated = w THEN None ELSE activated
  /\ links' = {l \in links : l[1] # w}
  /\ peek' = IF peek = w THEN None ELSE peek
  /\ strayed' = strayed \ {w}
  /\ UNCHANGED <<list, browsing, dim, config>>

\* Workspace::moveSurfaceTo; "Move to Left/Right Work Space" of the window menu
\* activates the latest surface of the current workspace afterwards, the other
\* callers do not.
MoveSurfaceTo(w, k, menu) ==
  /\ wid[w] \notin {Out, k}
  /\ k \in Listed \cup {All}
  /\ wid[w] = All => Unstick
  /\ menu => All \notin {wid[w], k}
  /\ wid' = [wid EXCEPT ![w] = k]
  /\ rows' = [rows EXCEPT ![wid[w]] = Drop(@, {w}), ![k] = Push(@, w)]
  /\ hidden' = HiddenIn(k, {w}, hidden)
  /\ Entering(k, {w})
  /\ LET h0 == [hist EXCEPT ![wid[w]] = Drop(@, {w})]
         h  == IF w \in capable
               THEN PushActived(RemoveActived(h0, models, k, w), models, k, w) ELSE h0
     IN  Becomes(IF menu
                 THEN Activation(Latest(h[Current]), activated, capable, wid', models, h)
                 ELSE [a |-> activated, h |-> h])
  /\ UNCHANGED <<list, capable, browsing, config>>

-----------------------------------------------------------------------------
(* The task switcher and the dock's previews make the windows of the       *)
(* current workspace transparent.                                          *)

\* WorkspaceModel::setOpaque on the current workspace changes something.
Changes(b) == (Current \in dim) = b

\* opaqueChanged: the windows connected to it get the flag of the workspace,
\* also those that have left it.
Followers == {w \in Windows : <<w, Current>> \in links}
Flagged(b, hid) == IF Changes(b) THEN AsVisible(Current, Followers, hid) ELSE hid

SetOpaque(b) ==
  /\ dim' = IF b THEN dim \ {Current} ELSE dim \cup {Current}
  /\ strayed' = IF Changes(b) THEN strayed \cup {w \in Followers : wid[w] # Current}
                ELSE strayed

\* The end of a preview: the window that was shown gets the flag of its workspace.
Restored(hid) == IF peek = None THEN hid ELSE AsVisible(wid[peek], {peek}, hid)

\* showTask of the task switcher, which is opened in normal mode for some window.
ShowTask(up) ==
  /\ Changes(~up)
  /\ up => Current \in Dimmed /\ ~browsing /\ \E w \in Windows : wid[w] # Out
  /\ hidden' = Flagged(~up, hidden)
  /\ SetOpaque(~up)
  /\ UNCHANGED <<list, rows, wid, hist, capable, activated, browsing, links, peek, config>>

\* Workspace::startPreviewing.
StartPreviewing(w) ==
  /\ wid[w] # Out /\ Current \in Dimmed
  /\ hidden' = Flagged(FALSE, Restored(hidden)) \ {w}
  /\ SetOpaque(FALSE)
  /\ peek' = w
  /\ UNCHANGED <<list, rows, wid, hist, capable, activated, browsing, links, config>>

\* Workspace::stopPreviewing.
StopPreviewing ==
  /\ peek # None \/ Changes(TRUE)
  /\ hidden' = Restored(Flagged(TRUE, hidden))
  /\ SetOpaque(TRUE)
  /\ peek' = None
  /\ UNCHANGED <<list, rows, wid, hist, capable, activated, browsing, links, config>>

-----------------------------------------------------------------------------
\* Workspace::doCreateModel for n more workspaces: a new workspace starts with
\* the history of the windows shown on all workspaces.
DoCreateModel(n) ==
  /\ Len(models) + n <= MaxModels
  /\ nextId + n - 1 <= MaxId
  /\ models' = models \o [i \in 1..n |-> nextId + i - 1]
  /\ nextId' = nextId + n
  /\ hist' = [k \in Keys |-> IF k \in nextId..(nextId + n - 1) THEN hist[All] ELSE hist[k]]

\* Workspace::createModel.
CreateModel ==
  /\ DoCreateModel(1)
  /\ cfgNum' = cfgNum + 1
  /\ UNCHANGED <<cur, visible, placed, capable, activated, browsing, look, cfgCur>>

\* Workspace::moveModelTo: the workspace at index i goes to index j.
MoveModelTo(i, j) ==
  LET rest == SubSeq(models, 1, i - 1) \o SubSeq(models, i + 1, Len(models))
      ms   == SubSeq(rest, 1, j - 1) \o <<models[i]>> \o SubSeq(rest, j, Len(rest))
  IN  /\ i # j
      /\ models' = ms
      /\ cur' = IndexOf(ms, Current)
      /\ cfgCur' = cur' - 1
      /\ UNCHANGED <<nextId, visible, placed, hist, capable, activated, browsing, look, cfgNum>>

\* Workspace::doRemoveModel for the workspaces gone, leaving ms: their windows
\* r go to target, the capable ones to the front of its history.
DoRemoveModel(ms, gone, target, r) ==
  LET p   == [w \in Windows |-> IF w \in Elems(r) THEN target ELSE wid[w]]
      h   == [k \in Keys |-> IF k \in gone THEN {}
                             ELSE IF k = target THEN Stack(Keep(r, capable), hist[k])
                             ELSE hist[k]]
      now == IF Current \in gone THEN target ELSE Current
  IN  /\ models' = ms
      /\ wid' = p
      /\ rows' = [k \in Keys |-> IF k \in gone THEN {}
                                 ELSE IF k = target THEN Stack(r, rows[k]) ELSE rows[k]]
      /\ Becomes(LatestActivation(now, activated, capable, p, ms, h))
      /\ dim' = dim \ gone
      /\ links' = {l \in links : l[2] \notin gone} \cup Linked(target, Elems(r))
      /\ strayed' = strayed \ Elems(r)
      /\ UNCHANGED peek

\* Fault: the index of the current workspace is kept.
RemovedViewKeepsIndex(ms, gone, target, r) ==
  LET now == IF Current \in gone THEN target ELSE Current
      v   == [View EXCEPT !.hid = HiddenIn(target, Elems(r), @)]
  IN  Reveal(v, rows', now)

\* Its effect on the display: the target becomes current if the current
\* workspace is gone.
RemovedView(ms, gone, target, r) ==
  LET now == IF Current \in gone THEN target ELSE Current
      v   == [View EXCEPT !.hid = HiddenIn(target, Elems(r), @)]
  IN  [Reveal(v, rows', now) EXCEPT !.cur = IndexOf(ms, now), !.idx = IndexOf(ms, now) - 1]

Without(i)   == SubSeq(models, 1, i - 1) \o SubSeq(models, i + 1, Len(models))
Neighbour(i) == models[IF i > 1 THEN i - 1 ELSE 2]

\* Fault: the config keeps the old index.
RemoveModelKeepsIndex(i) ==
  /\ Len(models) > 1
  /\ DoRemoveModel(Without(i), {models[i]}, Neighbour(i), rows[models[i]])
  /\ Sees([RemovedView(Without(i), {models[i]}, Neighbour(i), rows[models[i]])
             EXCEPT !.idx = cfgCur])
  /\ cfgNum' = cfgNum - 1
  /\ UNCHANGED <<nextId, capable, browsing>>

\* Workspace::removeModel: the windows go to the preceding workspace, or to the
\* next one when the first is removed.
RemoveModel(i) ==
  /\ Len(models) > 1
  /\ DoRemoveModel(Without(i), {models[i]}, Neighbour(i), rows[models[i]])
  /\ Sees(RemovedView(Without(i), {models[i]}, Neighbour(i), rows[models[i]]))
  /\ cfgNum' = cfgNum - 1
  /\ UNCHANGED <<nextId, capable, browsing>>

\* The windows of the workspaces after index n, those of later workspaces in
\* front, as removing the last workspace repeatedly stacks them.
TailRows(n) ==
  LET tail == (n + 1)..Len(models)
  IN  (UNION {rows[models[i]] : i \in tail})
        \cup (UNION {Elems(rows[models[p[1]]]) \X Elems(rows[models[p[2]]]) :
                       p \in {q \in tail \X tail : q[1] > q[2]}})

\* Workspace::reloadFromConfig, when the config of another user with n
\* workspaces and current index c takes effect.  The last workspace is removed
\* again and again; what is activated in between is activated no more at the end.
ReloadFromConfig(n, c) ==
  LET m    == IF n < 1 THEN 1 ELSE n
      to   == IF c < m THEN c + 1 ELSE m
      ms   == SubSeq(models, 1, m)
      gone == {models[i] : i \in (m + 1)..Len(models)}
      v    == [View EXCEPT !.idx = c]
  IN  /\ \/ /\ m >= Len(models)
            /\ DoCreateModel(m - Len(models))
            /\ Sees(SetCurrentIndex(v, models', rows, to))
            /\ UNCHANGED <<rows, wid, activated, look>>
         \/ /\ m < Len(models)
            /\ DoRemoveModel(ms, gone, models[m], TailRows(m))
            /\ Sees(SetCurrentIndex(RemovedView(ms, gone, models[m], TailRows(m)),
                                    ms, rows', to))
            /\ UNCHANGED nextId
      /\ cfgNum' = m
      /\ UNCHANGED <<capable, browsing>>

-----------------------------------------------------------------------------
\* The current index a config with n workspaces holds: the operations above
\* never store one that is out of range.
CurrentsOf(n) == IF n = 0 THEN {0} ELSE 0..(n - 1)

Reloads == \E n, c \in 0..MaxModels : c \in CurrentsOf(n) /\ ReloadFromConfig(n, c)

Next ==
  \/ \E i \in DOMAIN models : SwitchTo(i) \/ RemoveModel(i)
  \/ \E i, j \in DOMAIN models : MoveModelTo(i, j)
  \/ Reloads
  \/ CreateModel \/ Deactivate \/ ClearActived \/ EnterMultitaskview
  \/ \E up \in BOOLEAN : ShowTask(up)
  \/ StopPreviewing
  \/ \E w \in Windows \cup {None} : ExitMultitaskview(w)
  \/ \E w \in Windows :
       \/ \E k \in Keys : AddSurface(w, k)
       \/ \E k \in Keys, menu \in BOOLEAN : MoveSurfaceTo(w, k, menu)
       \/ \E focused \in BOOLEAN : InactivationRequested(w, focused)
       \/ RequestWindow(w) \/ ActivationRequested(w) \/ RemoveSurface(w)
       \/ StartPreviewing(w)

Spec == Init /\ [][Next]_vars

-----------------------------------------------------------------------------
\* A history names only windows with active capability that are shown on its
\* workspace: whatever latestActiveSurface returns, after any sequence of
\* moves, removals of workspaces and user switches, is a live window that can
\* be activated there.
HistoryHere ==
  \A k \in Keys : \A w \in Elems(hist[k]) : w \in capable /\ ShowOn(wid[w], k)

\* The flag of the window is the business of its workspace's visibility alone: it
\* is not being previewed, was not placed on its workspace while that was
\* transparent, as it still is, and no workspace it had left set the flag since.
Settled(w) ==
  /\ w # peek /\ w \notin strayed
  /\ ~(wid[w] \in dim /\ <<w, wid[w]>> \in links)

\* A window that is settled is hidden by its workspace exactly when that workspace
\* is not the current one, and the workspace of a window is one of the list,
\* however the current workspace and the place of the window came about and
\* whatever previews there were in between.
HiddenIffElsewhere ==
  \A w \in Windows :
    /\ wid[w] \in Listed \cup {All, Out}
    /\ Settled(w) => ((w \in hidden) <=> (wid[w] \notin {Current, All, Out}))

\* What previews should leave behind, and do not.

\* When the windows of every workspace are opaque again and none is previewed, all
\* of them are hidden as their workspaces ask: broken by the connections that
\* removeSurface does not cut.
RightAfterPreview ==
  (dim = {} /\ peek = None) =>
    \A w \in Windows : (w \in hidden) <=> (wid[w] \notin {Current, All, Out})

\* Only the windows of the current workspace are transparent: broken by a switch
\* while the task switcher or a preview is open.
OnlyCurrentDim == dim \subseteq {Current}

\* Reloading the config as it stands changes nothing: it has the number of
\* workspaces on display and their current index, after any removal, move or
\* creation of workspaces and any change of user.
ConfigTracks == cfgNum = Len(models) /\ cfgCur = cur - 1

\* A window that becomes the activated one is shown on the workspace that is
\* current then and has active capability (the assertions of
\* FocusController::setActivatedSurface).  reloadFromConfig is left out: it
\* switches once more, without activating, after the workspaces are removed.
ActivatedIsShown ==
  [][(activated' \notin {activated, None} /\ ~Reloads)
       => (activated' \in capable' /\ ShowOn(wid'[activated'], models'[cur']))]_vars
=============================================================================
