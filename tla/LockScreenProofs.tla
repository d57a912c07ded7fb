-------------------------- MODULE LockScreenProofs --------------------------
(***************************************************************************)
(* Proofs about the lock screen, for any number of external lockers and of *)
(* outputs.                                                                *)
(***************************************************************************)
EXTENDS LockScreen, TLAPS

\* What every handler leaves behind, whichever flags it was called with: the
\* hide animation of the login view only runs for a shown, unlocked and decided
\* screen, and the undecided screen is shown and unlocked.
Core(s) ==
  /\ s \in Flags
  /\ s.slide => s.visible /\ ~s.locked /\ ~s.undecided
  /\ s.undecided => s.visible /\ ~s.locked

\* A handler never brings back the undecided state and, if the screen is and
\* stays locked, keeps it shown.
Keeps(s, t) ==
  /\ Core(t)
  /\ t.undecided => s.undecided
  /\ s.locked /\ s.visible /\ t.locked => t.visible

\* A greeter that waits for DDM still has its fallback timer, or a user session
\* is active, whose Lock signal, activation or end decides.
DecisionAhead == st.undecided => timer \/ user

\* The inductive invariant behind the safety properties.
IInv ==
  /\ TypeOK
  /\ Core(st)
  /\ st.fade => ~Shown(st)
  /\ st.undecided => sessionLock = NoLock
  /\ GraceOnlyForPendingLock
  /\ NoLeftover
  /\ DecisionAhead

-----------------------------------------------------------------------------
\* setLock keeps the flags consistent, whatever it is asked to do.
LEMMA SetLockKeeps ==
  ASSUME NEW s, Core(s), NEW b \in BOOLEAN
  PROVE  Keeps(s, SetLock(s, b))
<1>1. CASE b /\ ~s.locked
  BY <1>1 DEF Core, Keeps, SetLock, SetShowShutdownView, Flags
<1>2. CASE ~b /\ s.locked
  BY <1>2 DEF Core, Keeps, SetLock, SetShowShutdownView, FinishLockScreenTransition, Flags
<1>3. CASE ~(b /\ ~s.locked) /\ ~(~b /\ s.locked)
  BY <1>3 DEF Core, Keeps, SetLock, SetShowShutdownView, Flags
<1> QED BY <1>1, <1>2, <1>3

\* A request to lock is a decision.
LEMMA LockDecides ==
  ASSUME NEW s, Core(s)
  PROVE  ~SetLock(s, TRUE).undecided
BY DEF Core, SetLock, SetShowShutdownView, Flags

\* GreeterProxy::lock keeps the flags consistent.
LEMMA GreeterLockKeeps ==
  ASSUME NEW s, Core(s)
  PROVE  Keeps(s, GreeterLock(s))
BY SetLockKeeps DEF GreeterLock, Keeps, Core

\* LockScreen::lock keeps the flags consistent.
LEMMA ScreenLockKeeps ==
  ASSUME NEW s, Core(s)
  PROVE  Keeps(s, ScreenLock(s))
<1> DEFINE t == SetVisible(s, TRUE)
<1>1. Core(t) /\ t.undecided = s.undecided /\ t.locked = s.locked /\ t.visible = TRUE
  BY DEF Core, SetVisible, Flags
<1> HIDE DEF t
<1>2. Keeps(t, GreeterLock(t)) BY <1>1, GreeterLockKeeps
<1>3. ScreenLock(s) = IF t.locked THEN t ELSE GreeterLock(t)
  BY DEF ScreenLock, t
<1> QED BY <1>1, <1>2, <1>3 DEF Keeps

\* Opening and closing the shutdown view keeps the flags consistent.
LEMMA ShutdownKeeps ==
  ASSUME NEW s, Core(s), NEW b \in BOOLEAN
  PROVE  Keeps(s, SetShowShutdownView(s, b))
BY DEF Core, Keeps, SetShowShutdownView, Flags

\* A change of the shell mode keeps the flags consistent.
LEMMA ModeKeeps ==
  ASSUME NEW s, Core(s)
  PROVE  /\ Keeps(s, FinishLockScreenTransition(s))
         /\ Keeps(s, PrepareLockScreenTransition(s))
BY DEF Core, Keeps, FinishLockScreenTransition, PrepareLockScreenTransition, Flags

\* The background of the greeter only fades while nothing asks for it.
LEMMA BackgroundFades ==
  ASSUME NEW s, NEW t, Core(t)
  PROVE  /\ Core(Background(s, t))
         /\ Background(s, t).fade => ~Shown(Background(s, t))
         /\ Background(s, t).undecided = t.undecided
         /\ Background(s, t).locked = t.locked
         /\ Background(s, t).visible = t.visible
BY DEF Core, Background, Shown, Flags

\* What a handler that follows the flags establishes.
LEMMA ScreenKeeps ==
  ASSUME NEW t, TypeOK, Core(st), Core(t), t.undecided => st.undecided, Screen(t)
  PROVE  /\ Core(st') /\ (st'.fade => ~Shown(st')) /\ timer' \in BOOLEAN
         /\ st'.undecided => st.undecided
         /\ st'.locked = t.locked /\ st'.visible = t.visible
         /\ st'.undecided = t.undecided /\ (st'.undecided => timer' = timer)
BY BackgroundFades DEF Screen, TypeOK, Shown, Core, Flags

\* Only the part of the invariant that speaks about the external locks is left
\* once the flags are known to be consistent.
LEMMA FlagsPart ==
  ASSUME IInv, NEW t, Core(t), t.undecided => st.undecided, Screen(t),
         user' \in BOOLEAN, user => user' \/ ~t.undecided, UNCHANGED Ext
  PROVE  IInv'
<1> USE DEF IInv, Ext
<1>1. /\ Core(st') /\ (st'.fade => ~Shown(st')) /\ timer' \in BOOLEAN
      /\ st'.undecided => st.undecided
      /\ st'.undecided = t.undecided /\ (st'.undecided => timer' = timer)
  BY ScreenKeeps
<1>2. st' \in Flags BY <1>1 DEF Core
<1>3. TypeOK' BY <1>1, <1>2 DEF TypeOK
<1>4. GraceOnlyForPendingLock' BY DEF GraceOnlyForPendingLock
<1>5. NoLeftover' BY DEF NoLeftover, NoCover
<1>6. Core(st)' /\ (st.fade => ~Shown(st))' BY <1>1 DEF Core, Shown
<1>7. (st.undecided => sessionLock = NoLock)' BY <1>1
<1>8. DecisionAhead' BY <1>1 DEF DecisionAhead
<1> QED BY <1>3, <1>4, <1>5, <1>6, <1>7, <1>8

\* Showing or hiding the container of a screen that is not locked any more.
LEMMA HideKeeps ==
  ASSUME NEW s, Core(s), ~s.undecided
  PROVE  /\ Core(SetVisible(s, FALSE)) /\ ~SetVisible(s, FALSE).undecided
         /\ SetVisible(s, FALSE).locked = s.locked
BY DEF Core, SetVisible, Flags

\* Showing the container keeps the flags consistent.
LEMMA ShowKeeps ==
  ASSUME NEW s, Core(s)
  PROVE  Keeps(s, SetVisible(s, TRUE))
BY DEF Core, Keeps, SetVisible, Flags

\* The handlers compose.
LEMMA KeepsTransitive ==
  ASSUME NEW r, NEW s, NEW t, Keeps(r, s), Keeps(s, t), s.locked = r.locked
  PROVE  Keeps(r, t)
BY DEF Keeps

-----------------------------------------------------------------------------
\* What LockedStaysShown asks of one step.
Stays ==
  (st.locked /\ st.visible /\ st'.locked /\ sessionLock = NoLock) => st'.visible

\* A handler that only follows the flags keeps the invariant and the screen.
LEMMA HandlerStep ==
  ASSUME IInv, NEW t, Keeps(st, t), Screen(t), user' \in BOOLEAN,
         user => user' \/ ~t.undecided, UNCHANGED Ext
  PROVE  IInv' /\ Stays
<1>1. IInv' BY FlagsPart DEF Keeps
<1>2. st'.locked = t.locked /\ st'.visible = t.visible
  BY ScreenKeeps DEF IInv, Keeps
<1> QED BY <1>1, <1>2 DEF Keeps, Stays

\* The session listeners, the messages of DDM and the requests of clients.
LEMMA RequestSteps ==
  ASSUME IInv,
         \/ \E b \in BOOLEAN : PostedSetLock(b) \/ OnSessionNew(b)
         \/ OnSessionRemoved \/ Lock
         \/ ShowLockScreen \/ OnSessionUnlock
         \/ ShowShutdownMenu \/ ShowSwitchUser \/ CloseShutdownView
  PROVE  IInv' /\ Stays
<1> USE DEF IInv
<1>u. user \in BOOLEAN BY DEF TypeOK
<1>s. Keeps(st, st) BY DEF Keeps
<1>1. ASSUME NEW b \in BOOLEAN, PostedSetLock(b) PROVE IInv' /\ Stays
  BY <1>1, <1>u, SetLockKeeps, HandlerStep DEF PostedSetLock
<1>2. ASSUME NEW b \in BOOLEAN, OnSessionNew(b) PROVE IInv' /\ Stays
  <2>1. Keeps(st, IF b THEN SetLock(st, FALSE) ELSE st)
    BY <1>s, SetLockKeeps
  <2> QED BY <1>2, <2>1, HandlerStep DEF OnSessionNew
<1>3. CASE OnSessionRemoved
  BY <1>3, SetLockKeeps, LockDecides, HandlerStep DEF OnSessionRemoved
<1>4. CASE Lock
  BY <1>4, <1>u, GreeterLockKeeps, HandlerStep DEF Lock
<1>5. CASE ShowLockScreen
  <2> DEFINE t == PrepareLockScreenTransition(st)
  <2>1. Keeps(st, t) /\ t.locked = st.locked
    BY ModeKeeps DEF PrepareLockScreenTransition, Core, Flags
  <2> HIDE DEF t
  <2>2. Keeps(t, ScreenLock(t)) BY <2>1, ScreenLockKeeps DEF Keeps
  <2>3. Keeps(st, ScreenLock(t)) BY <2>1, <2>2, KeepsTransitive
  <2> QED BY <1>5, <1>u, <2>3, HandlerStep DEF ShowLockScreen, t
<1>6. CASE OnSessionUnlock
  BY <1>6, <1>u, ModeKeeps, HandlerStep DEF OnSessionUnlock
<1>7. CASE ShowShutdownMenu
  <2> DEFINE t == SetVisible(st, TRUE)
  <2>1. Keeps(st, t) /\ t.locked = st.locked
    BY ShowKeeps DEF SetVisible, Core, Flags
  <2> HIDE DEF t
  <2>2. Keeps(t, SetShowShutdownView(t, TRUE)) BY <2>1, ShutdownKeeps DEF Keeps
  <2>3. Keeps(st, IF st.visible THEN st ELSE SetShowShutdownView(t, TRUE))
    BY <1>s, <2>1, <2>2, KeepsTransitive
  <2> QED BY <1>7, <1>u, <2>3, HandlerStep DEF ShowShutdownMenu, t
<1>8. CASE ShowSwitchUser
  <2> DEFINE p == PrepareLockScreenTransition(st)
             t == SetVisible(p, TRUE)
  <2>1. Keeps(st, p) /\ p.locked = st.locked
    BY ModeKeeps DEF PrepareLockScreenTransition, Core, Flags
  <2> HIDE DEF p
  <2>2. Keeps(p, t) /\ t.locked = p.locked
    BY <2>1, ShowKeeps DEF Keeps, SetVisible, Core, Flags
  <2> HIDE DEF t
  <2>3. Keeps(st, t) BY <2>1, <2>2, KeepsTransitive
  <2>4. Keeps(t, GreeterLock(t)) BY <2>2, GreeterLockKeeps DEF Keeps
  <2>5. Keeps(st, IF p.visible THEN p ELSE GreeterLock(t))
    BY <2>1, <2>2, <2>3, <2>4, KeepsTransitive
  <2>6. Screen(IF p.visible THEN p ELSE GreeterLock(t))
    BY <1>8 DEF ShowSwitchUser, p, t
  <2> QED BY <1>8, <1>u, <2>5, <2>6, HandlerStep DEF ShowSwitchUser
<1>9. CASE CloseShutdownView
  BY <1>9, <1>u, ShutdownKeeps, HandlerStep DEF CloseShutdownView
<1> QED BY <1>1, <1>2, <1>3, <1>4, <1>5, <1>6, <1>7, <1>8, <1>9

\* Timers, animations and the messages that end the undecided state.
LEMMA EventSteps ==
  ASSUME IInv,
         \/ UndecidedTimeout \/ UserLoggedIn \/ UserActivate
         \/ DelayTimeout \/ OnAnimationPlayFinished \/ OnHideAnimationFinished
  PROVE  IInv' /\ Stays
<1> USE DEF IInv
<1>u. user \in BOOLEAN BY DEF TypeOK
<1>1. CASE UndecidedTimeout
  <2> DEFINE t == GreeterLock(st)
  <2>1. Keeps(st, t) BY GreeterLockKeeps
  <2>2. st' = Background(st, t) /\ timer' = FALSE /\ UNCHANGED <<user, Ext>>
    BY <1>1 DEF UndecidedTimeout
  <2> HIDE DEF t
  <2>3. /\ Core(st') /\ (st'.fade => ~Shown(st'))
        /\ st'.undecided = t.undecided
        /\ st'.locked = t.locked /\ st'.visible = t.visible
    BY <2>1, <2>2, BackgroundFades DEF Keeps
  <2>4. TypeOK' BY <2>2, <2>3 DEF TypeOK, Ext, Core
  <2>5. Stays /\ (st'.undecided => st.undecided) BY <2>1, <2>3 DEF Keeps, Stays
  <2>6. GraceOnlyForPendingLock' /\ NoLeftover'
    BY <2>2 DEF GraceOnlyForPendingLock, NoLeftover, DecisionAhead, NoCover, Ext
  <2>7. DecisionAhead'
    <3>1. CASE user BY <2>2, <3>1 DEF DecisionAhead, Ext
    <3>2. CASE ~user
      <4>1. ~t.undecided BY <3>2, LockDecides DEF t, GreeterLock
      <4> QED BY <2>3, <4>1 DEF DecisionAhead
    <3> QED BY <3>1, <3>2
  <2> QED BY <2>2, <2>3, <2>4, <2>5, <2>6, <2>7 DEF Core, Shown, Ext
<1>2. CASE UserLoggedIn
  <2>1. st' = st /\ timer' = timer /\ user' = TRUE /\ UNCHANGED Ext
    BY <1>2 DEF UserLoggedIn
  <2>2. TypeOK' BY <2>1 DEF TypeOK, Ext
  <2> QED
    BY <2>1, <2>2 DEF Stays, Core, Shown, GraceOnlyForPendingLock, NoLeftover, DecisionAhead, NoCover, Ext
<1>3. CASE UserActivate
  <2>1. CASE ~st.undecided
    <3>1. Keeps(st, st) BY DEF Keeps
    <3> QED BY <1>3, <2>1, <3>1, HandlerStep DEF UserActivate
  <2>2. CASE st.undecided
    <3> DEFINE t == [st EXCEPT !.undecided = FALSE]
               f == FinishLockScreenTransition(t)
    <3>1. Core(t) /\ ~t.undecided /\ ~t.locked /\ t.visible
      BY <2>2 DEF Core, Flags
    <3> HIDE DEF t
    <3>2. Core(f) /\ ~f.undecided /\ ~f.locked
      BY <3>1, ModeKeeps DEF FinishLockScreenTransition, Keeps, Core, Flags
    <3> HIDE DEF f
    <3>3. Keeps(st, SetVisible(f, FALSE))
      BY <3>2, HideKeeps DEF Keeps
    <3>4. Screen(SetVisible(f, FALSE))
      BY <1>3, <2>2, <3>1 DEF UserActivate, t, f
    <3> QED BY <1>3, <3>3, <3>4, HandlerStep DEF UserActivate
  <2> QED BY <2>1, <2>2
<1>4. CASE DelayTimeout
  <2> DEFINE t == [FinishLockScreenTransition(st) EXCEPT !.delay = FALSE]
  <2>1. Keeps(st, t) BY DEF FinishLockScreenTransition, Keeps, Core, Flags
  <2> QED BY <1>4, <1>u, <2>1, HandlerStep DEF DelayTimeout
<1>5. CASE OnAnimationPlayFinished
  <2>1. st.slide /\ ~st.locked /\ Screen(SetVisible(st, FALSE)) /\ UNCHANGED <<user, Ext>>
    BY <1>5 DEF OnAnimationPlayFinished, Core
  <2>2. Keeps(st, SetVisible(st, FALSE)) BY <2>1, HideKeeps DEF Keeps, Core
  <2> QED BY <1>u, <2>1, <2>2, HandlerStep
<1>6. CASE OnHideAnimationFinished
  <2>1. /\ st.fade /\ ~st.locked /\ ~st.undecided /\ ~st.shutdown
        /\ UNCHANGED <<timer, user, Ext>>
        /\ LET t == [st EXCEPT !.fade = FALSE]
           IN st' = IF st.visible /\ ~st.locked /\ ~st.shutdown
                    THEN SetVisible(t, FALSE) ELSE t
    BY <1>6 DEF OnHideAnimationFinished, Shown
  <2>2. Core(st') /\ ~st'.fade /\ ~st'.undecided /\ ~st'.locked
    BY <2>1 DEF SetVisible, Core, Flags
  <2>3. TypeOK' BY <2>1, <2>2 DEF TypeOK, Ext, Core
  <2> QED
    BY <2>1, <2>2, <2>3 DEF Stays, Core, Shown, GraceOnlyForPendingLock, NoLeftover, DecisionAhead, NoCover, Ext
<1> QED BY <1>1, <1>2, <1>3, <1>4, <1>5, <1>6

\* The external locks: the timer, the pointer and the surfaces they leave.
LEMMA ExternalSteps ==
  ASSUME IInv,
         \/ \E l \in Locks :
              OnExtSessionLock(l) \/ Destroyed(l) \/ UnlockAndDestroy(l)
         \/ GraceTimeout
         \/ \E l \in Locks, o \in Outputs : OnLockSurfaceAdded(l, o)
         \/ \E o \in Outputs : OnLockSurfaceRemoved(o) \/ OutputReplugged(o)
  PROVE  IInv' /\ Stays
<1> USE DEF IInv
<1>k. Keeps(st, st) BY DEF Keeps
<1>h. ASSUME ~st.undecided
      PROVE  LET t == FinishLockScreenTransition(SetVisible(st, FALSE))
             IN Core(t) /\ ~t.undecided
  BY <1>h DEF FinishLockScreenTransition, SetVisible, Core, Flags
<1>n. NoCover \in [Outputs -> Locks \cup {"none", "fallback"}] BY DEF NoCover
<1>w. ASSUME NEW l \in Locks
      PROVE  /\ WithoutSurfacesOf(l) \in [Outputs -> Locks \cup {"none", "fallback"}]
             /\ sessionLock = NoLock => WithoutSurfacesOf(l) = cover
  BY DEF WithoutSurfacesOf, TypeOK
<1>e. ASSUME NEW c \in [Outputs -> Locks \cup {"none", "fallback"}],
             sessionLock = NoLock => c = cover,
             OnExternalUnlock(c) \/ OnExternalLockAbandoned(c)
      PROVE  /\ Core(st') /\ (st'.fade => ~Shown(st')) /\ timer' \in BOOLEAN
             /\ st'.undecided => st.undecided /\ timer' = timer
             /\ cover' \in [Outputs -> Locks \cup {"none", "fallback"}]
             /\ sessionLock' \in {sessionLock, NoLock}
             /\ sessionLock' = NoLock => cover' = NoCover
             /\ Stays
  <2>1. CASE sessionLock = NoLock \/ ~st.visible
    <3>1. Screen(st) /\ cover' = c /\ sessionLock' = sessionLock
      BY <1>e, <2>1 DEF OnExternalUnlock, OnExternalLockAbandoned
    <3>2. /\ Core(st') /\ (st'.fade => ~Shown(st')) /\ timer' \in BOOLEAN
          /\ st'.undecided => st.undecided /\ timer' = timer
          /\ st'.locked = st.locked /\ st'.visible = st.visible
      BY <3>1, ScreenKeeps
    <3> QED BY <1>e, <3>1, <3>2 DEF NoLeftover, Stays
  <2>2. CASE sessionLock # NoLock /\ st.visible
    <3>0. ~st.undecided BY <2>2
    <3>1. /\ cover' = NoCover /\ sessionLock' = NoLock
          /\ \/ Screen(FinishLockScreenTransition(SetVisible(st, FALSE)))
             \/ Screen(GreeterLock(st))
      BY <1>e, <2>2 DEF OnExternalUnlock, OnExternalLockAbandoned
    <3>2. CASE Screen(FinishLockScreenTransition(SetVisible(st, FALSE)))
      <4> DEFINE t == FinishLockScreenTransition(SetVisible(st, FALSE))
      <4>1. Core(t) /\ ~t.undecided BY <1>h, <3>0
      <4>2. Screen(t) BY <3>2
      <4> HIDE DEF t
      <4> QED BY <3>1, <4>1, <4>2, <1>n, <2>2, ScreenKeeps DEF Stays
    <3>3. CASE Screen(GreeterLock(st))
      <4>1. Keeps(st, GreeterLock(st)) BY GreeterLockKeeps
      <4> QED BY <3>1, <3>3, <4>1, <1>n, <2>2, ScreenKeeps DEF Stays, Keeps
    <3> QED BY <3>1, <3>2, <3>3
  <2> QED BY <2>1, <2>2
<1>1. ASSUME NEW l \in Locks, OnExtSessionLock(l) PROVE IInv' /\ Stays
  <2>1. CASE st.visible
    <3>1. UNCHANGED vars BY <1>1, <2>1 DEF OnExtSessionLock, vars
    <3> QED
      BY <3>1 DEF vars, Stays, TypeOK, Core, Shown, GraceOnlyForPendingLock, NoLeftover, DecisionAhead, NoCover
  <2>2. CASE ~st.visible
    <3> DEFINE t == PrepareLockScreenTransition(SetVisible(st, TRUE))
    <3>1. /\ sessionLock' = l /\ grace' = l /\ UNCHANGED <<user, cover>>
          /\ status' = [status EXCEPT ![l] = "Created"] /\ Screen(t)
      BY <1>1, <2>2 DEF OnExtSessionLock
    <3>2. Core(t) /\ ~t.undecided
      BY <2>2 DEF PrepareLockScreenTransition, SetVisible, Core, Flags
    <3> HIDE DEF t
    <3>0. ~st.undecided BY <2>2 DEF Core
    <3>3. /\ Core(st') /\ (st'.fade => ~Shown(st')) /\ timer' \in BOOLEAN
          /\ ~st'.undecided
      BY <3>0, <3>1, <3>2, ScreenKeeps
    <3>4. TypeOK' BY <3>1, <3>3 DEF TypeOK, Core
    <3>5. GraceOnlyForPendingLock' BY <3>1 DEF GraceOnlyForPendingLock, TypeOK
    <3>6. NoLeftover' BY <3>1, NoLockAssumption DEF NoLeftover
    <3> QED BY <2>2, <3>3, <3>4, <3>5, <3>6 DEF Stays, Core, Shown, DecisionAhead
  <2> QED BY <2>1, <2>2
<1>2. ASSUME NEW l \in Locks, Destroyed(l) \/ UnlockAndDestroy(l) PROVE IInv' /\ Stays
  <2>1. /\ status' = [status EXCEPT ![l] = "none"] /\ grace' = NoLock /\ user' = user
        /\ \E c \in {cover, WithoutSurfacesOf(l)} :
             OnExternalUnlock(c) \/ OnExternalLockAbandoned(c)
    BY <1>2 DEF Destroyed, UnlockAndDestroy
  <2>2. PICK c \in {cover, WithoutSurfacesOf(l)} :
          OnExternalUnlock(c) \/ OnExternalLockAbandoned(c)
    BY <2>1
  <2>3. /\ c \in [Outputs -> Locks \cup {"none", "fallback"}]
        /\ sessionLock = NoLock => c = cover
    BY <1>w, <2>2 DEF TypeOK
  <2>4. /\ Core(st') /\ (st'.fade => ~Shown(st')) /\ timer' \in BOOLEAN
        /\ st'.undecided => st.undecided /\ timer' = timer
        /\ cover' \in [Outputs -> Locks \cup {"none", "fallback"}]
        /\ sessionLock' \in {sessionLock, NoLock}
        /\ sessionLock' = NoLock => cover' = NoCover
        /\ Stays
    BY <1>e, <2>2, <2>3
  <2>5. TypeOK' BY <2>1, <2>4 DEF TypeOK, Core
  <2>6. GraceOnlyForPendingLock' BY <2>1 DEF GraceOnlyForPendingLock
  <2>7. NoLeftover' BY <2>4 DEF NoLeftover, NoCover
  <2>8. DecisionAhead' BY <2>1, <2>4 DEF DecisionAhead
  <2> QED BY <2>4, <2>5, <2>6, <2>7, <2>8 DEF Core, Shown
<1>3. CASE GraceTimeout
  <2>1. TypeOK' BY <1>3 DEF GraceTimeout, TypeOK
  <2> QED
    BY <1>3, <2>1 DEF GraceTimeout, Stays, Core, Shown, GraceOnlyForPendingLock, NoLeftover, DecisionAhead, NoCover
<1>4. ASSUME NEW l \in Locks, NEW o \in Outputs,
             OnLockSurfaceAdded(l, o)
      PROVE  IInv' /\ Stays
  <2>1. /\ sessionLock # NoLock /\ UNCHANGED <<st, timer, user, status, sessionLock, grace>>
        /\ cover' = [cover EXCEPT ![o] = l]
    BY <1>4 DEF OnLockSurfaceAdded
  <2>2. TypeOK' BY <2>1 DEF TypeOK
  <2> QED
    BY <2>1, <2>2 DEF Stays, Core, Shown, GraceOnlyForPendingLock, NoLeftover, DecisionAhead
<1>5. ASSUME NEW o \in Outputs, OnLockSurfaceRemoved(o) \/ OutputReplugged(o)
      PROVE  IInv' /\ Stays
  <2>1. /\ UNCHANGED <<st, timer, user, status, sessionLock, grace>>
        /\ \E x \in {"none", "fallback"} : cover' = [cover EXCEPT ![o] = x]
        /\ sessionLock # NoLock
    BY <1>5 DEF OnLockSurfaceRemoved, OutputReplugged, NoLeftover, NoCover
  <2>2. TypeOK' BY <2>1 DEF TypeOK
  <2> QED
    BY <2>1, <2>2 DEF Stays, Core, Shown, GraceOnlyForPendingLock, NoLeftover, DecisionAhead
<1> QED BY <1>1, <1>2, <1>3, <1>4, <1>5

\* Every step keeps the invariant and does what LockedStaysShown asks.
LEMMA StepKeeps == IInv /\ [Next]_vars => IInv' /\ (Stays \/ UNCHANGED vars)
<1> SUFFICES ASSUME IInv, [Next]_vars PROVE IInv' /\ (Stays \/ UNCHANGED vars)
  OBVIOUS
<1>1. CASE Next
  BY <1>1, RequestSteps, EventSteps, ExternalSteps DEF Next
<1>2. CASE UNCHANGED vars
  BY <1>2 DEF vars, IInv, TypeOK, Core, Shown, GraceOnlyForPendingLock, NoLeftover, DecisionAhead, NoCover
<1> QED BY <1>1, <1>2

\* The compositor starts in the invariant.
LEMMA InitEstablishes == Init => IInv
<1> SUFFICES ASSUME Init PROVE IInv
  OBVIOUS
<1>1. Core(st) /\ ~st.fade BY DEF Init, Core, Flags
<1>2. TypeOK BY <1>1 DEF Init, TypeOK, Core
<1>3. GraceOnlyForPendingLock /\ NoLeftover /\ DecisionAhead /\ sessionLock = NoLock
  BY DEF Init, GraceOnlyForPendingLock, NoLeftover, DecisionAhead, NoCover
<1> QED BY <1>1, <1>2, <1>3 DEF IInv

\* The inductive invariant holds throughout, for any lockers and outputs.
LEMMA IInvHolds == Spec => []IInv
<1>1. IInv /\ [Next]_vars => IInv' BY StepKeeps
<1> QED BY <1>1, InitEstablishes, PTL DEF Spec

\* The state of the greeter, the locks and the outputs keep their types.
THEOREM LockScreenTypes == Spec => []TypeOK
<1>1. IInv => TypeOK BY DEF IInv
<1> QED BY <1>1, IInvHolds, PTL

\* The grace timer never outlives the lock it waits for.
THEOREM LockScreenSafety == Spec => []GraceOnlyForPendingLock
<1>1. IInv => GraceOnlyForPendingLock BY DEF IInv
<1> QED BY <1>1, IInvHolds, PTL

\* The greeter that is not decided yet is shown and nothing is locked.
THEOREM UndecidedIsShown == Spec => []UndecidedShown
<1>1. IInv => UndecidedShown BY DEF IInv, Core, UndecidedShown
<1> QED BY <1>1, IInvHolds, PTL

\* No handler that stops the fallback timer, and no end of a session, leaves the
\* greeter undecided for good: the safety that FallbackDecides rests on.
THEOREM DecisionAlwaysAhead == Spec => []DecisionAhead
<1>1. IInv => DecisionAhead BY DEF IInv
<1> QED BY <1>1, IInvHolds, PTL

\* An external lock that is over leaves nothing on any output.
THEOREM ExternalLockLeavesNothing == Spec => []NoLeftover
<1>1. IInv => NoLeftover BY DEF IInv
<1> QED BY <1>1, IInvHolds, PTL

\* No timer, animation or message of an earlier unlock hides a screen that is
\* locked again.
THEOREM LockedScreenStaysShown == Spec => LockedStaysShown
<1>1. IInv /\ [Next]_vars
        => IInv' /\ [(st.locked /\ st.visible /\ st'.locked /\ sessionLock = NoLock)
                       => st'.visible]_vars
  BY StepKeeps DEF Stays
<1> QED BY <1>1, InitEstablishes, PTL DEF Spec, LockedStaysShown

=============================================================================
