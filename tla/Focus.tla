------------------------------- MODULE Focus -------------------------------
(***************************************************************************)
(* FocusController, SeatSurfaceManager and ShowDesktop, with the parts of  *)
(* SurfaceWrapper and ShellHandler that call them: which window each seat  *)
(* has activated, which surface has its keyboard focus, and where both go  *)
(* when a window is mapped, minimized or closed, the desktop is shown, a   *)
(* popup grabs the keyboard or the screen is locked.                       *)
(*                                                                         *)
(* One workspace; the desktop and one exclusive panel of the Top layer;    *)
(* at most one grabbing popup for each seat.  The handlers call each other *)
(* in the middle of their work, so each is an operator from the state      *)
(* reached so far to the state it leaves.  An activation may end the show  *)
(* desktop state, which minimizes windows and so activates others, with    *)
(* nothing left to end: the handlers that run inside come first, under     *)
(* names of their own, and share their bodies with the ones that call      *)
(* them.                                                                   *)
(***************************************************************************)
EXTENDS Naturals, FiniteSets, Folds, Recency

CONSTANTS
  Seats, Primary,  \* the seats, and WaylandServer::seat()
  Desktop, Panel,  \* layer surfaces: the desktop, and an exclusive panel
  Layers,          \* those of the two that come into being
  PopupOf,         \* the grabbing popup of each seat that has one
  ShellV2          \* whether clients use treeland-dde-shell v2

Popups   == {PopupOf[s] : s \in DOMAIN PopupOf}
Surfaces == Windows \cup Layers \cup Popups

ASSUME FocusAssumption ==
  /\ IsFiniteSet(Windows) /\ IsFiniteSet(Seats) /\ Primary \in Seats
  /\ Desktop # Panel /\ Layers \subseteq {Desktop, Panel} /\ None \notin Surfaces
  /\ DOMAIN PopupOf \subseteq Seats
  /\ \A s, t \in DOMAIN PopupOf : PopupOf[s] = PopupOf[t] => s = t
  /\ Windows \cap ({Desktop, Panel} \cup Popups) = {} /\ Layers \cap Popups = {}
  /\ ShellV2 \in BOOLEAN

Modes == {"Normal", "LockScreen", "WindowSwitch"}

VARIABLE st

State ==
  [there : SUBSET Surfaces,                \* surfaces with a wrapper
   mapped : SUBSET Surfaces,               \* WSurface::mapped
   min : SUBSET Windows,                   \* m_minimized
   mute : SUBSET Windows,                  \* without AcceptKeyboardFocus
   unhid : SUBSET Windows,                 \* m_hideByshowDesk (TRUE when not hidden)
   visible : SUBSET Windows,               \* QQuickItem::isVisible
   anim : SUBSET Windows,                  \* m_showDesktopAnimation is running
   capA : SUBSET Windows,                  \* hasActiveCapability
   capF : SUBSET Surfaces,                 \* hasFocusCapability
   flag : SUBSET Windows,                  \* m_isActivated
   hist : SUBSET (Windows \X Windows),     \* m_activedSurfaceHistory
   act : [Seats -> Windows \cup {None}],   \* m_activatedSurface
   kf : [Seats -> Surfaces \cup {None}],   \* m_keyboardFocusSurface
   item : Surfaces \cup {None},            \* surface of QQuickWindow::activeFocusItem
   grab : SUBSET DOMAIN PopupOf,           \* m_hasPopupGrab
   back : [Seats -> Surfaces \cup {None}], \* m_popupRestoreFocusTarget
   showing : BOOLEAN,                      \* m_showDesktop is Show
   menu : BOOLEAN,                         \* the shutdown menu is open
   mode : Modes]                           \* m_currentMode

TypeOK == st \in State

Init ==
  st = [there |-> {}, mapped |-> {}, min |-> {}, mute |-> {}, unhid |-> Windows,
        visible |-> {}, anim |-> {}, capA |-> {}, capF |-> {}, flag |-> {},
        hist |-> {}, act |-> [s \in Seats |-> None], kf |-> [s \in Seats |-> None],
        item |-> None, grab |-> {}, back |-> [s \in Seats |-> None],
        showing |-> FALSE, menu |-> FALSE, mode |-> "Normal"]

-----------------------------------------------------------------------------
\* A handler run for each element of a finite set, in a fixed order: step[e] is
\* what it does to a state for e.
ForEach(S, s, step) ==
  MapThenFoldSet(LAMBDA e, t : step[e][t], s,
                 LAMBDA e : e, LAMBDA T : CHOOSE e \in T : TRUE, S)

\* WToplevelSurface::keyboardFocusPriority.
Priority(x) == IF x = Panel THEN 1 ELSE 0

\* WaylandServer::blockActivateSurface, set by setCurrentMode.
Blocked(s) == s.mode # "Normal"

\* FocusController::onRenderWindowActiveFocusItemChanged: an item that is not
\* a surface has the active focus.
FocusLeaves(s) == [s EXCEPT !.item = None, !.kf = [t \in Seats |-> None]]

\* SeatSurfaceManager::setKeyboardFocusSurface.  Taking the focus from the item
\* that has the active focus reports the change before the new surface is set.
SetKeyboardFocus(s, seat, x) ==
  LET old    == s.kf[seat]
      shared == \E o \in Seats \ {seat} : s.kf[o] = old
      t      == IF old # None /\ ~shared /\ s.item = old THEN FocusLeaves(s) ELSE s
  IN  IF old = x \/ (old # None /\ x # None /\ Priority(old) > Priority(x)) THEN s
      ELSE [t EXCEPT !.kf[seat] = x, !.item = IF x = None THEN @ ELSE x]

\* FocusController::requestKeyboardFocus.
RequestKeyboardFocus(s, seat, x) ==
  IF x = None \/ x \in s.capF THEN SetKeyboardFocus(s, seat, x) ELSE s

\* SeatSurfaceManager::restoreShowDesktopFocus, on every seat.
RestoreShowDesktopFocus(s) ==
  ForEach(Seats, s, [seat \in Seats |-> [t \in State |->
    IF t.act[seat] \in t.capF THEN SetKeyboardFocus(t, seat, t.act[seat]) ELSE t]])

\* The activated flag is taken from the activated window of the primary seat.
Unflag(s, seat) == [s EXCEPT !.flag = IF seat = Primary THEN @ \ {s.act[seat]} ELSE @]

\* setActivatedSurface for no window.
Deactivate(s, seat) == [Unflag(s, seat) EXCEPT !.act[seat] = None]

\* The window enters the history, is the activated one and gets the flag.
Enter(s, seat, x) ==
  [s EXCEPT !.hist = Push(@, x), !.act[seat] = IF x \in s.mute THEN @ ELSE x,
            !.flag = IF seat = Primary THEN @ \cup {x} ELSE @]

\* FocusController::activateSurface, where setActivatedSurface leaves the state
\* activated.
Activating(s, seat, x, activated) ==
  CASE x \in s.mute -> s
    [] x \notin s.mute /\ x # None /\ Blocked(s) ->
         [s EXCEPT !.hist = IF x \in s.capA THEN Push(@, x) ELSE @]
    [] OTHER ->
         RequestKeyboardFocus(IF x = None \/ x \in s.capA THEN activated ELSE s, seat, x)

\* A seat whose keyboard focus is, or is still, on x lets go of it.
Release(s, seat, x) ==
  IF s.kf[seat] = x THEN RequestKeyboardFocus(s, seat, None) ELSE s

\* A seat that gives the keyboard to no other surface lets go of x.
LetGo(s, seat, x) ==
  Release(IF x \in {s.act[seat], s.kf[seat]} THEN Deactivate(s, seat) ELSE s, seat, x)

\* ShellHandler::onSurfaceInactivationRequested, the primary seat first, once x
\* has left the history, where the activation of the latest window in its place
\* leaves the state fallback.
Inactivating(s, x, fallback) ==
  ForEach(Seats \ {Primary},
          IF s.kf[Primary] = x THEN Release(fallback, Primary, x) ELSE LetGo(s, Primary, x),
          [seat \in Seats |-> [t \in State |-> LetGo(t, seat, x)]])

Forget(s, x) == [s EXCEPT !.hist = Drop(@, {x})]

\* SurfaceWrapper::updateFocusControlState with its signals, for a window:
\* SeatSurfaceManager::onActivatedSurfaceFocusCapabilityChanged.
SetFocusCapability(s, w, now) ==
  LET t == [s EXCEPT !.capF = IF now THEN @ \cup {w} ELSE @ \ {w}]
  IN  IF s.capF = t.capF \/ s.showing THEN t
      ELSE ForEach({seat \in Seats : s.act[seat] = w}, t, [seat \in Seats |-> [u \in State |->
             RequestKeyboardFocus(u, seat, IF now THEN w ELSE None)]])

\* SurfaceWrapper::updateVisible.
UpdateVisible(s, w) ==
  [s EXCEPT !.visible = IF w \in (s.mapped \cap s.unhid) \ s.min THEN @ \cup {w} ELSE @ \ {w}]

\* A window that is minimized or unmapped: the capability to be active goes first,
\* leaving the state inactive, then the one to be focused.
Losing(s, w, inactive) ==
  UpdateVisible(SetFocusCapability(IF w \in s.capA THEN inactive ELSE s, w, FALSE), w)

-----------------------------------------------------------------------------
\* The handlers that cancelShowDesktop reaches, the desktop being shown no more.

\* FocusController::setActivatedSurface.
SetActivatedShown(s, seat, x) ==
  CASE s.act[seat] = x -> s
    [] s.act[seat] # x /\ x = None -> Deactivate(s, seat)
    [] s.act[seat] # x /\ x # None -> Enter(Unflag(s, seat), seat, x)

\* FocusController::activateSurface.
ActivateShown(s, seat, x) == Activating(s, seat, x, SetActivatedShown(s, seat, x))

\* ShellHandler::onSurfaceInactivationRequested.
InactivationShown(s, x) ==
  LET t == Forget(s, x)
  IN  Inactivating(t, x, ActivateShown(Deactivate(t, Primary), Primary, Latest(t.hist)))

\* SurfaceWrapper::minimize.
MinimizeShown(s, w) ==
  LET m == [s EXCEPT !.min = @ \cup {w}]
  IN  Losing(m, w, InactivationShown([m EXCEPT !.capA = @ \ {w}], w))

\* ShowDesktop::cancelShowDesktop: the windows that are hidden become
\* minimized ones, except x.
CancelShowDesktop(s, x) ==
  IF s.showing
  THEN ForEach(Windows \cap s.there, [s EXCEPT !.showing = FALSE],
         [w \in Windows |-> [t \in State |->
            IF w = x \/ w \in t.min \/ w \in t.visible THEN t
            ELSE MinimizeShown([t EXCEPT !.unhid = @ \cup {w}], w)]])
  ELSE s

-----------------------------------------------------------------------------
\* Fault: the activated flag of the windows follows every seat.
SetActivatedAnySeat(s, seat, x) ==
  [s EXCEPT !.hist = IF x = None THEN @ ELSE Push(@, x),
            !.act[seat] = IF x \in s.mute THEN @ ELSE x,
            !.flag = (@ \ {s.act[seat]}) \cup ({x} \ {None})]

\* FocusController::setActivatedSurface.
SetActivated(s, seat, x) ==
  IF s.act[seat] # x /\ x # None /\ s.showing
  THEN RestoreShowDesktopFocus(
         [Enter(CancelShowDesktop(Unflag(s, seat), x), seat, x) EXCEPT !.unhid = @ \cup {x}])
  ELSE SetActivatedShown(s, seat, x)

\* Fault: a surface without active capability is activated.
ActivateUnchecked(s, seat, x) ==
  IF x \in s.mute THEN s ELSE RequestKeyboardFocus(SetActivated(s, seat, x), seat, x)

\* FocusController::activateSurface.
Activate(s, seat, x) == Activating(s, seat, x, SetActivated(s, seat, x))

\* Fault: only the seats that have activated the surface let go of it.
InactivationKeepsFocus(s, x) ==
  ForEach(Seats, Forget(s, x), [seat \in Seats |-> [t \in State |->
    IF t.act[seat] = x THEN Deactivate(t, seat) ELSE t]])

\* Fault: the surface stays in the activation history.
InactivationKeepsHistory(s, x) ==
  ForEach(Seats, s, [seat \in Seats |-> [t \in State |-> LetGo(t, seat, x)]])

\* ShellHandler::onSurfaceInactivationRequested.
InactivationRequested(s, x) ==
  LET t == Forget(s, x)
  IN  Inactivating(t, x, Activate(Deactivate(t, Primary), Primary, Latest(t.hist)))

\* SurfaceWrapper::updateHasActiveCapability with its signals.
GainActiveCapability(s, w) ==
  IF w \in s.capA THEN s ELSE Activate([s EXCEPT !.capA = @ \cup {w}], Primary, w)

LoseActiveCapability(s, w) == InactivationRequested([s EXCEPT !.capA = @ \ {w}], w)

\* Fault: the focus capability is dropped before the active capability.
MinimizeFocusFirst(s, w) ==
  LET m == SetFocusCapability([s EXCEPT !.min = @ \cup {w}], w, FALSE)
  IN  IF w \in s.min THEN s
      ELSE UpdateVisible(IF w \in s.capA THEN LoseActiveCapability(m, w) ELSE m, w)

\* SurfaceWrapper::minimize.
Minimize(s, w) ==
  LET m == [s EXCEPT !.min = @ \cup {w}]
  IN  IF w \in s.min THEN s ELSE Losing(m, w, LoseActiveCapability(m, w))

\* SurfaceWrapper::restoreFromMinimized.
RestoreFromMinimized(s, w) ==
  LET r == [s EXCEPT !.unhid = @ \cup {w}, !.min = @ \ {w}]
      f == SetFocusCapability(r, w, w \in s.mapped /\ w \notin s.mute)
  IN  IF w \notin s.min /\ w \in s.unhid THEN s
      ELSE UpdateVisible(IF w \in s.mapped THEN GainActiveCapability(f, w) ELSE f, w)

\* ShowDesktop::restoreFromShowDesktop.
RestoreFromShowDesktop(s, x) ==
  LET Back(t) == IF x = None THEN t ELSE RestoreFromMinimized(t, x)
  IN  IF s.showing THEN RestoreShowDesktopFocus(Back(CancelShowDesktop(s, x))) ELSE s

\* Fault: a minimized window is not restored first.
ForceActivateMinimized(s, seat, w) ==
  LET Activated(t) == IF w \in t.mapped THEN Activate(t, seat, w) ELSE t
  IN  Activated(RestoreFromShowDesktop(s, w))

\* FocusController::forceActivateSurface.
ForceActivateSurface(s, seat, w) ==
  LET Restored(t)  == IF w \in t.min THEN RestoreFromMinimized(t, w) ELSE t
      Activated(t) == IF w \in t.mapped THEN Activate(t, seat, w) ELSE t
  IN  Activated(Restored(RestoreFromShowDesktop(s, w)))

\* Fault: the show desktop state is not looked at.
KeyboardGrabEndAnyway(s, seat) ==
  LET e == [s EXCEPT !.grab = @ \ {seat}, !.back[seat] = None]
      x == IF s.back[seat] \in s.capF THEN s.back[seat] ELSE s.act[seat]
  IN  IF seat \notin s.grab THEN s
      ELSE IF s.kf[seat] \notin Windows \cup Layers /\ x \in s.capF
           THEN SetKeyboardFocus(e, seat, x) ELSE e

\* SeatSurfaceManager::onKeyboardGrabEnd.
KeyboardGrabEnd(s, seat) ==
  LET e == [s EXCEPT !.grab = @ \ {seat}, !.back[seat] = None]
      x == IF s.back[seat] \in s.capF THEN s.back[seat] ELSE s.act[seat]
  IN  CASE seat \notin s.grab -> s
        [] seat \in s.grab /\ s.kf[seat] \in Windows \cup Layers -> e
        [] OTHER -> IF x \in s.capF /\ (s.showing => x = Desktop)
                    THEN SetKeyboardFocus(e, seat, x) ELSE e

\* SeatSurfaceManager::surfaceDestroyed, on every seat.
SurfaceDestroyed(s, x) ==
  ForEach(Seats, s, [seat \in Seats |-> [t \in State |->
    LET a == [t EXCEPT !.act[seat] = IF @ = x THEN None ELSE @]
    IN  IF a.kf[seat] = x THEN SetKeyboardFocus(a, seat, None) ELSE a]])

\* A popup is destroyed: its wrapper is unmapped, then removed.
PopupDestroyed(s, p) ==
  SurfaceDestroyed([s EXCEPT !.there = @ \ {p}, !.mapped = @ \ {p}, !.capF = @ \ {p}], p)

\* The focus capability of a layer surface, which is also lost while it is
\* hidden by the lock screen (SurfaceWrapper::onMappedChanged and
\* ShellHandler::setupSurfaceActiveWatcher).
UpdateLayer(s, x) ==
  LET now == x \in s.mapped /\ s.mode # "LockScreen"
      t   == [s EXCEPT !.capF = IF now THEN @ \cup {x} ELSE @ \ {x}]
  IN  CASE t.capF = s.capF -> s
        [] t.capF # s.capF /\ ~now -> InactivationRequested(t, x)
        [] t.capF # s.capF /\ now ->
             IF x = Desktop THEN t
             ELSE RequestKeyboardFocus(CancelShowDesktop(t, None), Primary, x)

\* WaylandServer::setCurrentMode: layer surfaces follow the mode.
SetCurrentMode(s, mode) ==
  IF s.mode = mode THEN s
  ELSE ForEach(Layers, [s EXCEPT !.mode = mode],
               [x \in Layers |-> [t \in State |-> UpdateLayer(t, x)]])

-----------------------------------------------------------------------------
\* The wrapper of a window or layer surface is created, before it is mapped.
Create(x) ==
  /\ x \notin st.there
  /\ st' = [st EXCEPT !.there = @ \cup {x}]

\* SurfaceWrapper::onMappedChanged of a window that is mapped.  An activation that
\* was asked for before (tryFlushPendingActivation) is left out.
MapWindow(w) ==
  LET m == [st EXCEPT !.mapped = @ \cup {w}]
  IN  /\ w \in st.there \ st.mapped
      /\ st' = UpdateVisible(
                 IF w \in st.min THEN m
                 ELSE SetFocusCapability(GainActiveCapability(m, w), w, w \notin st.mute), w)

\* SurfaceWrapper::onMappedChanged of a window that is unmapped.
UnmapWindow(w) ==
  LET m == [st EXCEPT !.mapped = @ \ {w}]
  IN  /\ w \in st.mapped
      /\ st' = Losing(m, w, LoseActiveCapability(m, w))

\* RootSurfaceContainer::destroyForSurface, after the surface is unmapped; the
\* next wrapper starts afresh.
Destroy(x) ==
  /\ x \in st.there \ st.mapped
  /\ st' = [SurfaceDestroyed(st, x) EXCEPT
              !.there = @ \ {x}, !.min = @ \ {x}, !.mute = @ \ {x}, !.anim = @ \ {x},
              !.flag = @ \ {x},
              !.unhid = IF x \in Windows THEN @ \cup {x} ELSE @,
              !.back = [s \in Seats |-> IF @[s] = x THEN None ELSE @[s]]]

\* A layer surface is mapped or unmapped.
MapLayer(x, now) ==
  /\ x \in st.there /\ now # (x \in st.mapped)
  /\ st' = UpdateLayer([st EXCEPT !.mapped = IF now THEN @ \cup {x} ELSE @ \ {x}], x)

\* The client, the dock or the title bar minimizes or restores the window.
MinimizeWindow(w) ==
  /\ w \in st.mapped
  /\ st' = Minimize(st, w)

RestoreWindow(w) ==
  /\ w \in st.mapped
  /\ st' = RestoreFromMinimized(st, w)

\* A seat is told, before it is so, that w no longer accepts the keyboard.
Refuse(s, seat, w) ==
  LET mine == s.act[seat] = w
      keys == s.kf[seat] = w
      f    == s.kf[seat]
      l    == IF f \in {None, w} \cup s.mute THEN Latest(s.hist) ELSE f
      to   == IF l \in s.mute THEN None ELSE l
      a    == IF mine THEN Deactivate(s, seat) ELSE s
  IN  CASE ~mine /\ ~keys -> s
        [] (mine \/ keys) /\ seat # Primary ->
             IF keys THEN RequestKeyboardFocus(a, seat, None) ELSE a
        [] (mine \/ keys) /\ seat = Primary ->
             IF mine THEN Activate(s, seat, to) ELSE RequestKeyboardFocus(s, seat, to)

\* ShellHandler::updateSurfaceAcceptKeyboardFocus.
AcceptKeyboardFocus(w, accept) ==
  LET d == ForEach(Seats, Forget(st, w),
                   [seat \in Seats |-> [t \in State |-> Refuse(t, seat, w)]])
  IN  /\ w \in st.there /\ accept = (w \in st.mute)
      /\ st' = IF accept
               THEN SetFocusCapability([st EXCEPT !.mute = @ \ {w}], w,
                                       w \in st.mapped \ st.min)
               ELSE SetFocusCapability([d EXCEPT !.mute = @ \cup {w}], w, FALSE)

\* The same request of treeland-dde-shell v2 sets the flag only.
AcceptKeyboardFocusV2(w, accept) ==
  /\ ShellV2
  /\ w \in st.there /\ accept = (w \in st.mute)
  /\ st' = SetFocusCapability([st EXCEPT !.mute = IF accept THEN @ \ {w} ELSE @ \cup {w}],
                              w, accept /\ w \in st.mapped \ st.min)

\* CompositorInputFilter: a press on a surface, or on none.
Press(seat, x) ==
  /\ x = None \/ x \in st.mapped \cap (st.visible \cup Layers \cup Popups)
  /\ st.mode = "Normal" /\ ~st.menu
  /\ st' = Activate(st, seat, x)

\* The dock, the task switcher, an activation token or a remote tool.
RequestWindow(seat, w) ==
  /\ w \in st.there
  /\ st' = ForceActivateSurface(st, seat, w)

\* ShellHandler::onWindowMenuClosed.
WindowMenuClosed == st' = Activate(st, Primary, Latest(st.hist))

\* Another item of the scene takes the active focus.
SceneTakesFocus ==
  /\ st.item # None
  /\ st' = FocusLeaves(st)

-----------------------------------------------------------------------------
\* The lock screen, or its shutdown menu, is up.
Transition(s) == s.mode = "LockScreen" \/ s.menu

\* A seat dismisses its popups and gives the keyboard to the desktop.
ToDesktop(s, seat) ==
  LET d == PopupDestroyed(KeyboardGrabEnd(s, seat), PopupOf[seat])
      e == IF seat \in s.grab THEN d ELSE s
  IN  RequestKeyboardFocus(e, seat, IF Desktop \in e.there THEN Desktop ELSE None)

\* ShowDesktop::onShowDesktop for the state Show.
ShowDesktop ==
  LET hide == (st.there \cap Windows) \ st.min
      s    == [st EXCEPT !.showing = TRUE, !.unhid = @ \ hide, !.anim = @ \cup hide]
  IN  /\ ~st.showing
      /\ st' = ForEach(Seats, s, [seat \in Seats |-> [t \in State |-> ToDesktop(t, seat)]])

\* ShowDesktop::onShowDesktop for the state Normal.
LeaveShowDesktop ==
  LET back == (st.there \cap Windows) \ st.min
  IN  /\ st.showing
      /\ st' = RestoreShowDesktopFocus(
                 [st EXCEPT !.showing = FALSE, !.unhid = @ \cup back, !.anim = @ \cup back])

\* SurfaceWrapper::onShowDesktopAnimationFinished.
ShowDesktopAnimationFinished(w) ==
  /\ w \in st.anim
  /\ st' = UpdateVisible([st EXCEPT !.anim = @ \ {w}], w)

\* A shortcut that leaves the show desktop state before it switches workspaces.
ShortcutRestores ==
  /\ st.showing
  /\ st' = RestoreFromShowDesktop(st, None)

-----------------------------------------------------------------------------
\* A popup grabs the keyboard of a seat: SeatSurfaceManager::onKeyboardGrabBegin.
GrabBegin(seat) ==
  /\ seat \notin st.grab /\ PopupOf[seat] \notin st.there
  /\ st' = [st EXCEPT !.there = @ \cup {PopupOf[seat]},
                      !.grab = @ \cup {seat}, !.back[seat] = st.kf[seat]]

\* SeatSurfaceManager::givePopupFocus, when the grabbing popup is mapped.
PopupMapped(seat) ==
  LET p == PopupOf[seat]
      m == [st EXCEPT !.mapped = @ \cup {p}, !.capF = @ \cup {p}]
  IN  /\ p \in st.there \ st.mapped
      /\ st' = IF seat \in st.grab THEN SetKeyboardFocus(m, seat, p) ELSE m

\* The client closes the popup, which ends its grab, or a press elsewhere or
\* the end of the grab dismisses it.
PopupClosed(seat, dismissed) ==
  LET p == PopupOf[seat]
      u == [st EXCEPT !.mapped = @ \ {p}, !.capF = @ \ {p}]
  IN  /\ p \in st.there
      /\ st' = PopupDestroyed(KeyboardGrabEnd(IF dismissed THEN st ELSE u, seat), p)

-----------------------------------------------------------------------------
\* WaylandServer::prepareLockScreenTransition for the lock screen, whose view
\* takes the active focus.
Lock ==
  /\ ~Transition(st)
  /\ st' = FocusLeaves(SetCurrentMode(SetCurrentMode(st, "Normal"), "LockScreen"))

\* The same for the shutdown menu.
ShutdownMenu ==
  /\ st.mode = "Normal" /\ ~st.menu
  /\ st' = FocusLeaves([st EXCEPT !.menu = TRUE])

\* WaylandServer::finishLockScreenTransition.
FinishLockScreenTransition ==
  LET n == SetCurrentMode([st EXCEPT !.menu = FALSE], "Normal")
      w == n.act[Primary]
  IN  /\ Transition(st)
      /\ st' = IF w \in n.capF THEN RequestKeyboardFocus(n, Primary, w) ELSE n

\* ShortcutRunner: the task switcher is opened, closed on a window, or
\* deleted.
TaskSwitch ==
  /\ st.mode = "Normal" /\ ~st.menu
  /\ st' = FocusLeaves(SetCurrentMode(RestoreFromShowDesktop(st, None), "WindowSwitch"))

TaskSwitchExit(w) ==
  /\ st.mode = "WindowSwitch" /\ (w = None \/ w \in st.there)
  /\ LET n == SetCurrentMode(st, "Normal")
     IN  st' = IF w = None THEN n ELSE ForceActivateSurface(n, Primary, w)

-----------------------------------------------------------------------------
Next ==
  \/ \E w \in Windows :
       \/ Create(w) \/ MapWindow(w) \/ UnmapWindow(w) \/ Destroy(w)
       \/ MinimizeWindow(w) \/ RestoreWindow(w) \/ ShowDesktopAnimationFinished(w)
       \/ \E accept \in BOOLEAN : AcceptKeyboardFocus(w, accept)
                                 \/ AcceptKeyboardFocusV2(w, accept)
       \/ \E seat \in Seats : RequestWindow(seat, w)
  \/ \E x \in Layers : Create(x) \/ Destroy(x) \/ \E now \in BOOLEAN : MapLayer(x, now)
  \/ \E seat \in Seats :
       \/ \E x \in Surfaces \cup {None} : Press(seat, x)
  \/ \E seat \in DOMAIN PopupOf :
       \/ GrabBegin(seat) \/ PopupMapped(seat)
       \/ \E dismissed \in BOOLEAN : PopupClosed(seat, dismissed)
  \/ WindowMenuClosed \/ SceneTakesFocus
  \/ ShowDesktop \/ LeaveShowDesktop \/ ShortcutRestores
  \/ Lock \/ ShutdownMenu \/ FinishLockScreenTransition
  \/ TaskSwitch \/ \E w \in Windows \cup {None} : TaskSwitchExit(w)

Spec == Init /\ [][Next]_st

-----------------------------------------------------------------------------

\* The keyboard focus of a seat is on a mapped surface that is not minimized,
\* and on a layer surface only while it takes the keyboard ("never keep
\* keyboard focus on a minimized surface", onSurfaceInactivationRequested).
FocusOnMapped ==
  \A s \in Seats : /\ st.kf[s] \in (st.mapped \ st.min) \cup {None}
                   /\ st.kf[s] \in Layers => st.kf[s] \in st.capF

\* The window the primary seat has activated is told so, through every nested
\* change of activation, and whatever a seat has activated can be activated:
\* when a window is unmapped or minimized every seat lets go of it, also one
\* whose keyboard focus is elsewhere.
ActivatedLive == /\ st.act[Primary] \in st.flag \cup {None}
                 /\ \A s \in Seats : st.act[s] \in st.capA \cup {None}

\* No minimized window is told that it is activated ("so foreign-toplevel clients
\* do not observe a minimized-but-activated window",
\* onSurfaceInactivationRequested).
MinimizedNotActivated == st.flag \cap st.min = {}

\* The activation history names windows that can be activated and accept the
\* keyboard, so that its latest entry can always take over.
HistoryLive == Elems(st.hist) \subseteq st.capA \ st.mute

\* A window that has the keyboard focus is the activated one, unless none is:
\* the window activated last keeps the keyboard (comment of onKeyboardGrabEnd).
KeysToActivated ==
  \A s \in Seats : st.kf[s] \in Windows => st.act[s] \in {st.kf[s], None}

\* Steps that ask for a window, and the end of the lock screen.
Asked == \/ WindowMenuClosed \/ FinishLockScreenTransition
         \/ \E s \in Seats, w \in Windows : Press(s, w) \/ RequestWindow(s, w)

\* While the desktop is shown, a keyboard focus that is not on a window stays
\* off the windows: neither the end of a popup grab nor a change of the focus
\* capability of the hidden activated window brings it back.
ShowDesktopKeepsFocus ==
  [][(st.showing /\ st'.showing /\ ~Asked)
       => \A s \in Seats : st'.kf[s] \in Windows => st.kf[s] \in Windows]_st

\* When the window with the keyboard focus of the primary seat is minimized or
\* unmapped, the window activated before it takes over, activated and focused.
FocusFallsBack ==
  [][\A w \in Windows :
       (st.kf[Primary] = w /\ w \notin st'.capA /\ ~st.showing /\ st'.mode = "Normal")
         => /\ st'.kf[Primary] = Latest(st'.hist)
            /\ st'.act[Primary] = Latest(st'.hist)]_st

\* A request for a mapped window, made in any reachable state, shows, activates
\* and focuses it: minimized, or hidden by the desktop before, while or after
\* its animation runs.  A window that is left hidden although neither holds is
\* excluded.
RequestBringsBack ==
  \A s \in Seats, w \in st.mapped \cap (Windows \ st.mute) :
    LET t == ForceActivateSurface(st, s, w)
    IN  (st.mode = "Normal" /\ (st.showing \/ w \in st.min \cup (st.visible \cap st.unhid)))
          => /\ w \in (t.visible \cup t.anim) \ t.min
             /\ t.act[s] = w /\ t.kf[s] \in {w, Panel}
=============================================================================
