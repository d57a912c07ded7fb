----------------------------- MODULE LockScreen -----------------------------
(***************************************************************************)
(* The lock screen: the lock flags of GreeterProxy, the LockScreen         *)
(* container with its login view and animations, LockScreenManager, the    *)
(* shell mode of WaylandServer, and the external lockers that come in      *)
(* through ext-session-lock-v1 (WSessionLock).                             *)
(*                                                                         *)
(* Everything here runs on the compositor's main thread, so a handler is   *)
(* one step.  The handlers call one another, which is why they are written *)
(* as operators from a screen state to the screen state they leave behind. *)
(* Where the session module of DDM and logind decides something (a Lock    *)
(* signal, a login, the end of a session), it happens at any time.         *)
(***************************************************************************)
EXTENDS FiniteSets

CONSTANTS
  Locks,     \* the WSessionLock objects external lockers can create
  Outputs,   \* the outputs of the root container
  NoLock     \* the null WSessionLock pointer

ASSUME NoLockAssumption == NoLock \notin Locks

VARIABLES
  st,           \* flags of GreeterProxy, LockScreen and WaylandServer
  timer,        \* GreeterProxy::m_undecidedTimer is running
  user,         \* the active session belongs to a user other than "dde"
  status,       \* WSessionLockPrivate::m_status, "none" if there is no object
  sessionLock,  \* LockScreen::m_sessionLock
  grace,        \* the lock m_lockScreenGraceTimer waits for
  cover         \* what LockScreen shows of the external locker on an output

vars == <<st, timer, user, status, sessionLock, grace, cover>>

\* locked, undecided, shutdown: m_isLocked, m_undecided, m_showShutdownView.
\* visible: the container is shown, which is when the login view exists.
\* slide: the login view runs its hide animation.   delay: m_delayTimer runs.
\* fade:  the background of the greeter runs its hide animation.
Flags == [locked: BOOLEAN, undecided: BOOLEAN, shutdown: BOOLEAN,
          visible: BOOLEAN, slide: BOOLEAN, fade: BOOLEAN, delay: BOOLEAN,
          mode: {"Normal", "LockScreen"}]

TypeOK ==
  /\ st \in Flags
  /\ timer \in BOOLEAN
  /\ user \in BOOLEAN
  /\ status \in [Locks -> {"none", "Created", "Locked"}]
  /\ sessionLock \in Locks \cup {NoLock}
  /\ grace \in Locks \cup {NoLock}
  /\ cover \in [Outputs -> Locks \cup {"none", "fallback"}]

\* The state "Show" of the greeter's background.
Shown(s) == s.locked \/ s.undecided \/ s.shutdown

\* setLockScreenImpl with a lock screen on the command line, then
\* enableHandshake: the wallpaper is up and nothing is decided.
Init ==
  /\ st = [locked |-> FALSE, undecided |-> TRUE, shutdown |-> FALSE,
           visible |-> TRUE, slide |-> FALSE, fade |-> FALSE, delay |-> FALSE,
           mode |-> "Normal"]
  /\ timer = TRUE
  /\ user = FALSE
  /\ status = [l \in Locks |-> "none"]
  /\ sessionLock = NoLock
  /\ grace = NoLock
  /\ cover = [o \in Outputs |-> "none"]

-----------------------------------------------------------------------------
\* LockScreen::setVisible; hiding the container destroys the login view.
SetVisible(s, b) == [s EXCEPT !.visible = b, !.slide = @ /\ b]

\* The signal LockScreen::unlock, received by finishLockScreenTransition.
FinishLockScreenTransition(s) == [s EXCEPT !.mode = "Normal"]

\* prepareLockScreenTransition, but for the shutdown view.
PrepareLockScreenTransition(s) == [s EXCEPT !.mode = "LockScreen"]

\* setShowShutdownView and the login view's answer to its signal.
SetShowShutdownView(s, b) ==
  IF b = s.shutdown
  THEN s
  ELSE [s EXCEPT !.shutdown = b,
                 !.delay = @ \/ (~b /\ ~s.locked /\ s.visible)]

\* Fault: the login view keeps its hide animation when the screen locks again.
SetLockKeepSlide(s, b) ==
  LET t == IF b /\ ~s.locked
           THEN [s EXCEPT !.locked = TRUE, !.undecided = FALSE, !.visible = TRUE]
           ELSE IF ~b /\ s.locked
           THEN IF s.visible
                THEN [FinishLockScreenTransition(s) EXCEPT
                        !.locked = FALSE, !.slide = TRUE, !.delay = TRUE]
                ELSE [s EXCEPT !.locked = FALSE]
           ELSE s
  IN SetShowShutdownView(t, FALSE)

\* Fault: locking leaves the greeter undecided.
SetLockKeepUndecided(s, b) ==
  LET t == IF b /\ ~s.locked
           THEN [s EXCEPT !.locked = TRUE, !.visible = TRUE, !.slide = FALSE]
           ELSE IF ~b /\ s.locked
           THEN IF s.visible
                THEN [FinishLockScreenTransition(s) EXCEPT
                        !.locked = FALSE, !.slide = TRUE, !.delay = TRUE]
                ELSE [s EXCEPT !.locked = FALSE]
           ELSE s
  IN SetShowShutdownView(t, FALSE)

\* GreeterProxy::setLock.  Locking shows the container and turns the login
\* view to its "Show" state; unlocking a shown container restores the mode
\* and starts the animations of the login view.
SetLock(s, b) ==
  LET t == IF b /\ ~s.locked
           THEN [s EXCEPT !.locked = TRUE, !.undecided = FALSE,
                          !.visible = TRUE, !.slide = FALSE]
           ELSE IF ~b /\ s.locked
           THEN IF s.visible
                THEN [FinishLockScreenTransition(s) EXCEPT
                        !.locked = FALSE, !.slide = TRUE, !.delay = TRUE]
                ELSE [s EXCEPT !.locked = FALSE]
           ELSE s
  IN SetShowShutdownView(t, FALSE)

\* Fault: the fallback is not applied when no user session is active.
GreeterLockNever(s) == s

\* GreeterProxy::lock: without a user session lock at once, otherwise ask DDM
\* and wait for the Lock signal of logind.
GreeterLock(s) == IF user THEN s ELSE SetLock(s, TRUE)

\* LockScreen::lock.
ScreenLock(s) ==
  LET t == SetVisible(s, TRUE) IN IF t.locked THEN t ELSE GreeterLock(t)

\* The greeter's background follows the flags: it fades out when it leaves its
\* "Show" state, and entering that state ends the fade.
Background(old, new) ==
  [new EXCEPT !.fade = ~Shown(new) /\ (Shown(old) \/ new.fade)]

\* One handler took the screen from st to new.
Screen(new) ==
  /\ st' = Background(st, new)
  /\ timer' = (timer /\ new.undecided)

Ext == <<status, sessionLock, grace, cover>>
-----------------------------------------------------------------------------
\* setLock, posted by the session listeners of GreeterProxy for a Lock or an
\* Unlock signal of the active session, or called after a local password check.
PostedSetLock(b) ==
  /\ Screen(SetLock(st, b))
  /\ UNCHANGED <<user, Ext>>

\* GreeterProxy::onSessionNew, for the current user (match) or another one.
OnSessionNew(match) ==
  /\ user' = TRUE
  /\ Screen(IF match THEN SetLock(st, FALSE) ELSE st)
  /\ UNCHANGED Ext

\* GreeterProxy::onSessionRemoved, for the active session.
OnSessionRemoved ==
  /\ user
  /\ user' = FALSE
  /\ Screen(SetLock(st, TRUE))
  /\ UNCHANGED Ext

\* The fallback of the undecided state fires (single shot).
UndecidedTimeout ==
  /\ timer
  /\ st' = Background(st, GreeterLock(st))
  /\ timer' = FALSE
  /\ UNCHANGED <<user, Ext>>

\* DaemonMessages::SwitchToGreeter, UserActivateMessage for an unknown user,
\* and the lock button of the shutdown view.
Lock ==
  /\ Screen(GreeterLock(st))
  /\ UNCHANGED <<user, Ext>>

\* DaemonMessages::UserLoggedIn after a restart of the compositor.
UserLoggedIn ==
  /\ user' = TRUE
  /\ UNCHANGED <<st, timer, Ext>>

\* DaemonMessages::UserActivateMessage for a known user: in the undecided
\* state the greeter is left at once, without the animations of an unlock.
UserActivate ==
  /\ user' = TRUE
  /\ Screen(IF ~st.undecided
            THEN st
            ELSE LET t == [st EXCEPT !.undecided = FALSE]
                 IN IF t.visible
                    THEN SetVisible(FinishLockScreenTransition(t), FALSE)
                    ELSE t)
  /\ UNCHANGED Ext

\* LockScreenManager::showLockScreen: the shortcut, the lock screen protocol,
\* the ddm protocol, ShowGreeter and the Lock signal of any session.
ShowLockScreen ==
  /\ ~st.locked
  /\ Screen(ScreenLock(PrepareLockScreenTransition(st)))
  /\ UNCHANGED <<user, Ext>>

\* LockScreenManager::onSessionUnlock: the Unlock signal of any session.
OnSessionUnlock ==
  /\ Screen(FinishLockScreenTransition(st))
  /\ UNCHANGED <<user, Ext>>

\* LockScreenManager::showShutdownMenu and LockScreen::shutdown.
ShowShutdownMenu ==
  /\ st.mode = "Normal"
  /\ Screen(IF st.visible THEN st ELSE SetShowShutdownView(SetVisible(st, TRUE), TRUE))
  /\ UNCHANGED <<user, Ext>>

\* LockScreenManager::showSwitchUser, LockScreen::switchUser and the login
\* view's switchUser, which locks.
ShowSwitchUser ==
  /\ st.mode = "Normal"
  /\ LET t == PrepareLockScreenTransition(st)
     IN Screen(IF t.visible THEN t ELSE GreeterLock(SetVisible(t, TRUE)))
  /\ UNCHANGED <<user, Ext>>

\* A click outside of the buttons closes the shutdown view.
CloseShutdownView ==
  /\ st.shutdown
  /\ Screen(SetShowShutdownView(st, FALSE))
  /\ UNCHANGED <<user, Ext>>
-----------------------------------------------------------------------------
\* m_delayTimer emits LockScreen::unlock.
DelayTimeout ==
  /\ st.delay
  /\ Screen([FinishLockScreenTransition(st) EXCEPT !.delay = FALSE])
  /\ UNCHANGED <<user, Ext>>

\* onAnimationPlayFinished: the hide animation of the login view ended.
OnAnimationPlayFinished ==
  /\ st.slide
  /\ Screen(SetVisible(st, FALSE))
  /\ UNCHANGED <<user, Ext>>

\* Fault: the end of the fade does not hide the container.
OnHideAnimationNever ==
  /\ st.fade
  /\ st' = [st EXCEPT !.fade = FALSE]
  /\ UNCHANGED <<timer, user, Ext>>

\* onHideAnimationFinished: the greeter's background is fully transparent.
OnHideAnimationFinished ==
  /\ st.fade
  /\ LET t == [st EXCEPT !.fade = FALSE]
     IN st' = IF st.visible /\ ~st.locked /\ ~st.shutdown
              THEN SetVisible(t, FALSE) ELSE t
  /\ UNCHANGED <<timer, user, Ext>>
-----------------------------------------------------------------------------
\* What is left of the surfaces when lock l takes its own away: an output
\* that showed one gets a solid colour as long as the screen is locked.
WithoutSurfacesOf(l) ==
  [o \in Outputs |->
     IF cover[o] # l \/ sessionLock = NoLock THEN cover[o]
     ELSE IF st.visible THEN "fallback" ELSE "none"]

NoCover == [o \in Outputs |-> "none"]

\* Fault: the fallback items outlive the external lock.
OnExternalUnlockKeepsCover(c) ==
  IF sessionLock = NoLock \/ ~st.visible
  THEN /\ Screen(st) /\ cover' = c /\ UNCHANGED sessionLock
  ELSE /\ Screen(FinishLockScreenTransition(SetVisible(st, FALSE)))
       /\ cover' = c
       /\ sessionLock' = NoLock

\* LockScreen::onExternalUnlock, with surfaces c.
OnExternalUnlock(c) ==
  IF sessionLock = NoLock \/ ~st.visible
  THEN /\ Screen(st)
       /\ cover' = c
       /\ UNCHANGED sessionLock
  ELSE /\ Screen(FinishLockScreenTransition(SetVisible(st, FALSE)))
       /\ cover' = NoCover
       /\ sessionLock' = NoLock

\* LockScreen::onExternalLockAbandoned, with surfaces c: fall back to the
\* greeter.
OnExternalLockAbandoned(c) ==
  IF sessionLock = NoLock \/ ~st.visible
  THEN /\ Screen(st)
       /\ cover' = c
       /\ UNCHANGED sessionLock
  ELSE /\ Screen(GreeterLock(st))
       /\ cover' = NoCover
       /\ sessionLock' = NoLock

\* Fault: a refused lock object is kept in its final state.
OnExtSessionLockKept(l) ==
  /\ status[l] = "none"
  /\ UNCHANGED <<user, cover>>
  /\ IF st.visible
     THEN /\ status' = [status EXCEPT ![l] = "Finished"]
          /\ UNCHANGED <<st, timer, sessionLock, grace>>
     ELSE /\ sessionLock' = l
          /\ status' = [status EXCEPT ![l] = "Created"]
          /\ grace' = l
          /\ Screen(PrepareLockScreenTransition(SetVisible(st, TRUE)))

\* LockScreenManager::onExtSessionLock: refused (finished at once) while the
\* container is shown, otherwise the locker gets 300 ms to bring its surfaces.
OnExtSessionLock(l) ==
  /\ status[l] = "none"
  /\ UNCHANGED <<user, cover>>
  /\ IF st.visible
     THEN UNCHANGED <<st, timer, status, sessionLock, grace>>
     ELSE /\ sessionLock' = l
          /\ status' = [status EXCEPT ![l] = "Created"]
          /\ grace' = l
          /\ Screen(PrepareLockScreenTransition(SetVisible(st, TRUE)))

\* The grace period ends: WSessionLock::lock.
GraceTimeout ==
  /\ grace # NoLock
  /\ status' = [status EXCEPT ![grace] = "Locked"]
  /\ grace' = NoLock
  /\ UNCHANGED <<st, timer, user, sessionLock, cover>>

\* Fault: a canceled lock leaves the grace timer running.
DestroyedKeepsGrace(l) ==
  /\ status[l] # "none"
  /\ status' = [status EXCEPT ![l] = "none"]
  /\ UNCHANGED <<user, grace>>
  /\ IF status[l] = "Created"
     THEN OnExternalUnlock(WithoutSurfacesOf(l))
     ELSE OnExternalLockAbandoned(WithoutSurfacesOf(l))

\* The lock object goes away without an unlock request, with its client or
\* before it was granted: WSessionLock emits canceled or abandoned.
Destroyed(l) ==
  /\ status[l] # "none"
  /\ status' = [status EXCEPT ![l] = "none"]
  /\ grace' = NoLock
  /\ UNCHANGED user
  /\ IF status[l] = "Created"
     THEN OnExternalUnlock(WithoutSurfacesOf(l))
     ELSE OnExternalLockAbandoned(WithoutSurfacesOf(l))

\* unlock_and_destroy: unlocked is emitted and the object is destroyed still
\* in the state Locked, so abandoned follows; it finds the lock cleared (or
\* the container hidden) and only stops the grace timer.
UnlockAndDestroy(l) ==
  /\ status[l] = "Locked"
  /\ status' = [status EXCEPT ![l] = "none"]
  /\ grace' = NoLock
  /\ UNCHANGED user
  /\ OnExternalUnlock(IF sessionLock # NoLock /\ st.visible
                      THEN cover ELSE WithoutSurfacesOf(l))

\* onLockSurfaceAdded: at most one surface of a lock per output.
OnLockSurfaceAdded(l, o) ==
  /\ status[l] # "none"
  /\ sessionLock # NoLock
  /\ cover[o] # l
  /\ cover' = [cover EXCEPT ![o] = l]
  /\ UNCHANGED <<st, timer, user, status, sessionLock, grace>>

\* onLockSurfaceRemoved, for a surface the client destroys.
OnLockSurfaceRemoved(o) ==
  /\ cover[o] \in Locks
  /\ sessionLock # NoLock
  /\ cover' = [cover EXCEPT ![o] = IF st.visible THEN "fallback" ELSE "none"]
  /\ UNCHANGED <<st, timer, user, status, sessionLock, grace>>

\* LockScreen::removeOutput forgets the surface and the fallback item of an
\* unplugged output; addOutput starts the same output without either.
OutputReplugged(o) ==
  /\ cover[o] # "none"
  /\ cover' = [cover EXCEPT ![o] = "none"]
  /\ UNCHANGED <<st, timer, user, status, sessionLock, grace>>

Next ==
  \/ \E b \in BOOLEAN : PostedSetLock(b) \/ OnSessionNew(b)
  \/ OnSessionRemoved \/ UndecidedTimeout \/ Lock
  \/ UserLoggedIn \/ UserActivate
  \/ ShowLockScreen \/ OnSessionUnlock
  \/ ShowShutdownMenu \/ ShowSwitchUser \/ CloseShutdownView
  \/ DelayTimeout \/ OnAnimationPlayFinished \/ OnHideAnimationFinished
  \/ \E l \in Locks :
       OnExtSessionLock(l) \/ Destroyed(l) \/ UnlockAndDestroy(l)
  \/ GraceTimeout
  \/ \E l \in Locks, o \in Outputs : OnLockSurfaceAdded(l, o)
  \/ \E o \in Outputs : OnLockSurfaceRemoved(o) \/ OutputReplugged(o)

\* The event loop runs timers and animations to their end.
Fairness ==
  /\ WF_vars(UndecidedTimeout)
  /\ WF_vars(OnAnimationPlayFinished)
  /\ WF_vars(OnHideAnimationFinished)

Spec == Init /\ [][Next]_vars /\ Fairness
-----------------------------------------------------------------------------
\* Until DDM decides, the wallpaper of the greeter is up, the greeter is not
\* locked and no external locker holds the screen: neither the shutdown menu
\* nor an animation nor a refused locker can leave the desktop without it.
UndecidedShown ==
  st.undecided => st.visible /\ ~st.locked /\ sessionLock = NoLock

\* The grace timer only ever waits for a lock that exists and has not been
\* granted: WSessionLock::lock asserts the state Created and would otherwise
\* run on a deleted object.
GraceOnlyForPendingLock == grace # NoLock => status[grace] = "Created"

\* While the greeter is and stays locked, no animation, timer or message that
\* was under way before hides the lock screen; only the release of an external
\* lock does.
LockedStaysShown ==
  [][(st.locked /\ st.visible /\ st'.locked /\ sessionLock = NoLock)
       => st'.visible]_vars

\* When no external lock is held, none of its surfaces and none of the solid
\* colours that replaced them is left on an output.
NoLeftover == sessionLock = NoLock => cover = NoCover

\* The fallback timer ends the undecided state if no user session appears,
\* whatever else is asked of the lock screen.
FallbackDecides == []~user => <>~st.undecided

\* An unlock ends with the container hidden, unless the screen is locked again
\* or the shutdown view is opened.
UnlockHides ==
  (st.visible /\ (st.slide \/ st.fade)) ~> (~st.visible \/ Shown(st))

\* LockScreen logs as critical that an external lock is held while the
\* container is hidden.
ExternalLockShown == sessionLock # NoLock => st.visible
=============================================================================
