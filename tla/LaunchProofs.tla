---------------------------- MODULE LaunchProofs ----------------------------
(***************************************************************************)
(* Safety of Launch for any apps, windows and bounds: one splash per app,  *)
(* and no window lost between its stages or, unless its address was left   *)
(* in the list of windows to resolve, shown twice.                         *)
(***************************************************************************)
EXTENDS Launch, TLAPS

\* A mark belongs to a request whose callback waits for the settings, and a
\* splash to an app whose settings have been read.
Marks == \A a \in Apps :
    /\ \A x, y \in Wrappers : splash[x] = a /\ splash[y] = a => x = y
    /\ a \in pending => waiting[a] > 0
    /\ waiting[a] > 0 => store[a] = "loading"
    /\ HasSplash(a) => store[a] = "ready"

\* What is true of the apps, and of the windows.
AppInv == TypeOK /\ Marks
IInv == AppInv /\ NoLimbo

\* Nothing is asked for and no window is there at the start.
LEMMA InitIInv == Init => IInv
<1> SUFFICES ASSUME Init PROVE IInv
  OBVIOUS
<1> USE LaunchAssumption
<1>a. /\ objects \in [Apps -> 0..MaxObjects] /\ waiting \in [Apps -> 0..MaxWaiting]
      /\ splash \in [Wrappers -> Apps \cup Windows \cup {Unused}]
      /\ store \in [Apps -> {"loading", "ready", "failed"}]
  BY DEF Init
<1>b. missed \in [Apps -> Nat] /\ \A a \in Apps : missed[a] = 0 \/ missed[a] < MaxMismatch
  BY DEF Init
<1>c. calls \in [Windows -> Nat] /\ wrapped \in [Windows -> Nat] /\ listed \in [Windows -> Nat]
      /\ fetching \in [Windows -> Apps \cup {NoApp, NotFetching}]
  BY DEF Init
<1>1. TypeOK BY <1>a, <1>b, <1>c DEF Init, TypeOK
<1>2. Marks BY DEF Init, Marks, HasSplash
<1>3. NoLimbo BY DEF Init, NoLimbo, Placed, Once, Stages, Shown, OneWrapper
<1> QED BY <1>1, <1>2, <1>3 DEF IInv, AppInv

-----------------------------------------------------------------------------
(* Apps *)

\* A mismatch that is recorded leaves the counter below its limit.
LEMMA MismatchTyped ==
    ASSUME TypeOK, NEW a, recordSplashMismatch(a)
    PROVE  /\ enabled' \subseteq Apps
           /\ missed' \in [Apps -> Nat]
           /\ \A b \in Apps : missed'[b] = 0 \/ missed'[b] < MaxMismatch
BY LaunchAssumption DEF TypeOK, recordSplashMismatch, TooOften

\* A splash that is shown has a wrapper of its own.
LEMMA CreateTyped ==
    ASSUME TypeOK, NEW a \in Apps, NEW timeout \in BOOLEAN, createPrelaunchSplash(a, timeout)
    PROVE  /\ splash' \in [Wrappers -> Apps \cup Windows \cup {Unused}]
           /\ timed' \subseteq Wrappers
           /\ \A x \in Wrappers, o \in Apps \cup Windows :
                 o # a => (splash'[x] = o <=> splash[x] = o)
           /\ ~HasSplash(a) =>
                 \A x, y \in Wrappers : splash'[x] = a /\ splash'[y] = a => x = y
BY LaunchAssumption DEF TypeOK, createPrelaunchSplash, HasSplash

\* A wrapper that is destroyed is nobody's.
LEMMA DestroyedTyped ==
    ASSUME TypeOK, NEW x \in Wrappers, Destroyed(x)
    PROVE  /\ splash' \in [Wrappers -> Apps \cup Windows \cup {Unused}]
           /\ timed' \subseteq Wrappers
           /\ \A y \in Wrappers, o \in Apps \cup Windows :
                 splash'[y] = o <=> splash[y] = o /\ y # x
BY LaunchAssumption DEF TypeOK, Destroyed

\* Requests, settings and the ends of splashes keep the invariant of the apps.
LEMMA SplashKeepsApps ==
    ASSUME AppInv, NEW a \in Apps, SplashStep(a)
    PROVE  AppInv'
<1> USE LaunchAssumption DEF AppInv
<1>1. ASSUME NEW allowed \in BOOLEAN, NEW timeout \in BOOLEAN,
             SplashRequested(a, allowed, timeout)
      PROVE  AppInv'
  <2>1. CASE SkipSplash(a)
    BY <1>1, <2>1 DEF SplashRequested, SkipSplash, TypeOK, Marks, HasSplash, windows, settings,
       splashes
  <2>2. CASE ~Duplicate(a) /\ store[a] = "loading" /\ AwaitSettings(a)
    BY <1>1, <2>2 DEF SplashRequested, AwaitSettings, Duplicate, TypeOK, Marks, HasSplash,
       windows, settings, splashes
  <2>3. CASE /\ ~Duplicate(a) /\ store[a] = "ready"
             /\ createPrelaunchSplash(a, timeout) /\ UNCHANGED <<pending, waiting>>
    <3>1. TypeOK'
      BY <1>1, <2>3, CreateTyped DEF SplashRequested, TypeOK, windows, settings
    <3>2. Marks'
      BY <1>1, <2>3, CreateTyped DEF SplashRequested, Duplicate, Marks, HasSplash, windows,
         settings, TypeOK
    <3> QED BY <3>1, <3>2
  <2> QED BY <1>1, <2>1, <2>2, <2>3 DEF SplashRequested
<1>2. ASSUME NEW timeout \in BOOLEAN, SettingsReady(a, timeout) PROVE AppInv'
  <2>1. CASE createPrelaunchSplash(a, timeout) /\ waiting[a] > 0
    <3>1. TypeOK'
      BY <1>2, <2>1, CreateTyped DEF SettingsReady, TypeOK, windows
    <3>2. Marks'
      BY <1>2, <2>1, CreateTyped DEF SettingsReady, Marks, HasSplash, windows, TypeOK
    <3> QED BY <3>1, <3>2
  <2>2. CASE UNCHANGED splashes
    BY <1>2, <2>2 DEF SettingsReady, TypeOK, Marks, HasSplash, windows, splashes
  <2> QED BY <1>2, <2>1, <2>2 DEF SettingsReady
<1>3. CASE SettingsFailed(a)
  BY <1>3 DEF SettingsFailed, TypeOK, Marks, HasSplash, windows, splashes
<1>4. CASE SettingChanged(a)
  BY <1>4 DEF SettingChanged, TypeOK, Marks, HasSplash, windows, splashes, request
<1>5. CASE SplashObjectDestroyed(a)
  <2>1. ASSUME NEW x \in Wrappers, Destroyed(x), recordSplashMismatch(a)
        PROVE  AppInv'
    <3>1. TypeOK'
      BY <1>5, <2>1, DestroyedTyped, MismatchTyped DEF SplashObjectDestroyed, TypeOK, windows
    <3>2. Marks'
      BY <1>5, <2>1, DestroyedTyped DEF SplashObjectDestroyed, Marks, HasSplash, TypeOK, windows
    <3> QED BY <3>1, <3>2
  <2>2. CASE UNCHANGED <<splashes, missed, enabled>>
    BY <1>5, <2>2 DEF SplashObjectDestroyed, TypeOK, Marks, HasSplash, windows, splashes
  <2> QED BY <1>5, <2>1, <2>2 DEF SplashObjectDestroyed
<1> QED BY <1>1, <1>2, <1>3, <1>4, <1>5, SplashStep(a) DEF SplashStep

\* So do timeouts and the user.
LEMMA WrapperKeepsApps ==
    ASSUME AppInv, NEW x \in Wrappers, WrapperStep(x)
    PROVE  AppInv'
<1> USE LaunchAssumption DEF AppInv
<1>1. ASSUME Destroyed(x), recordSplashMismatch(splash[x]), closed' \subseteq Apps,
             UNCHANGED <<request, store, bound, windows>>
      PROVE  AppInv'
  <2>1. TypeOK'
    BY <1>1, DestroyedTyped, MismatchTyped DEF TypeOK, windows, request
  <2>2. Marks'
    BY <1>1, DestroyedTyped DEF Marks, HasSplash, TypeOK, windows, request
  <2> QED BY <2>1, <2>2
<1>2. CASE SplashTimeout(x)
  <2>1. CASE Unmatched(x)
    BY <1>1, <1>2, <2>1 DEF SplashTimeout, TypeOK
  <2>2. CASE ~Unmatched(x)
    BY <1>2, <2>2 DEF SplashTimeout, TypeOK, Marks, HasSplash, windows, request
  <2> QED BY <2>1, <2>2
<1>3. CASE SplashClosedByUser(x)
  BY <1>1, <1>3 DEF SplashClosedByUser, TypeOK
<1> QED BY <1>2, <1>3, WrapperStep(x) DEF WrapperStep

-----------------------------------------------------------------------------
(* Windows and apps *)

\* A wrapper that is made, or refused, keeps the invariant of the apps.
LEMMA EnsureKeepsApps ==
    ASSUME AppInv, NEW w \in Windows, NEW id \in Apps \cup {NoApp},
           ensureWrapper(w, id),
           UNCHANGED <<objects, waiting, store, enabled, bound, left>>,
           calls' \in [Windows -> Nat], mapped' \subseteq Windows, listed' \in [Windows -> Nat],
           fetching' \in [Windows -> Apps \cup {NoApp, NotFetching}]
    PROVE  AppInv'
<1> USE LaunchAssumption DEF AppInv
<1>1. CASE id \in closed /\ closing' = closing \cup {w} /\ closed' = closed \ {id}
           /\ UNCHANGED <<pending, missed, splashes, wrapped>>
  BY <1>1 DEF TypeOK, Marks, HasSplash, splashes
<1>2. CASE /\ pending' = pending \ {id}
           /\ id \in Apps
           /\ \E x \in Wrappers : splash[x] = id /\ splash' = [splash EXCEPT ![x] = w]
           /\ missed' = IF store[id] = "ready" THEN [missed EXCEPT ![id] = 0] ELSE missed
           /\ UNCHANGED <<wrapped, timed, closed, closing>>
  <2>1. PICK x \in Wrappers : splash[x] = id /\ splash' = [splash EXCEPT ![x] = w]
    BY <1>2
  <2>2. TypeOK' BY <1>2, <2>1 DEF TypeOK
  <2>3. \A a \in Apps, y \in Wrappers : splash'[y] = a <=> splash[y] = a /\ y # x
    BY <2>1 DEF TypeOK
  <2>4. Marks' BY <1>2, <2>3 DEF Marks, HasSplash, TypeOK
  <2> QED BY <2>2, <2>4
<1>3. CASE /\ pending' = pending \ {id}
           /\ wrapped' = [wrapped EXCEPT ![w] = @ + 1]
           /\ UNCHANGED <<splash, missed, timed, closed, closing>>
  BY <1>3 DEF TypeOK, Marks, HasSplash
<1> QED BY <1>1, <1>2, <1>3 DEF ensureWrapper

\* So does the way on to it.
LEMMA ProceedKeepsApps ==
    ASSUME AppInv, NEW w \in Windows, NEW id \in Apps \cup {NoApp}, Proceed(w, id),
           UNCHANGED <<objects, waiting, store, enabled, bound, left>>,
           calls' \in [Windows -> Nat], mapped' \subseteq Windows, listed' \in [Windows -> Nat]
    PROVE  AppInv'
<1>1. CASE /\ fetching' = [fetching EXCEPT ![w] = id]
           /\ UNCHANGED <<pending, missed, splashes, closed, closing, wrapped>>
  BY <1>1 DEF AppInv, TypeOK, Marks, HasSplash, splashes
<1>2. CASE ensureWrapper(w, id) /\ fetching' = fetching
  <2>1. fetching' \in [Windows -> Apps \cup {NoApp, NotFetching}]
    BY <1>2 DEF AppInv, TypeOK
  <2> QED BY <1>2, <2>1, EnsureKeepsApps
<1> QED BY <1>1, <1>2 DEF Proceed

\* Windows that go keep the splashes of the apps.
LEMMA LeaveKeepsApps ==
    ASSUME AppInv, NEW gone \in SUBSET Windows, Leave(gone),
           UNCHANGED <<request, settings, closed, bound>>,
           listed' \in [Windows -> Nat], calls' \in [Windows -> Nat], left' \subseteq X11
    PROVE  AppInv'
<1>1. splash' \in [Wrappers -> Apps \cup Windows \cup {Unused}]
  BY DEF Leave, AppInv, TypeOK
<1>2. \A x \in Wrappers, a \in Apps : splash'[x] = a <=> splash[x] = a
  BY LaunchAssumption DEF Leave, AppInv, TypeOK
<1>3. wrapped' \in [Windows -> Nat] BY DEF Leave, AppInv, TypeOK
<1>4. TypeOK' BY <1>1, <1>3 DEF Leave, AppInv, TypeOK, request, settings
<1>5. Marks' BY <1>2 DEF AppInv, Marks, HasSplash, request, settings
<1> QED BY <1>4, <1>5 DEF AppInv

\* New windows, answers, properties and removals keep the invariant of the apps.
LEMMA WindowKeepsApps ==
    ASSUME AppInv, NEW w \in Windows, WindowStep(w)
    PROVE  AppInv'
<1>0. TypeOK BY DEF AppInv
<1>1. ASSUME NEW pid \in BOOLEAN, WindowAdded(w, pid) PROVE AppInv'
  <2>1. CASE AnyExpected /\ pid /\ bound
    BY <1>0, <1>1, <2>1 DEF WindowAdded, AppInv, TypeOK, Marks, HasSplash, splashes
  <2>2. CASE ~(AnyExpected /\ pid /\ bound)
    <3>1. /\ Proceed(w, NoApp)
          /\ UNCHANGED <<objects, waiting, store, enabled, bound, left>>
      BY <1>1, <2>2 DEF WindowAdded
    <3>2. calls' \in [Windows -> Nat] /\ mapped' \subseteq Windows /\ listed' \in [Windows -> Nat]
      BY <1>0, <1>1, <2>2 DEF WindowAdded, TypeOK
    <3> QED BY <3>1, <3>2, ProceedKeepsApps
  <2> QED BY <2>1, <2>2
<1>2. ASSUME NEW id \in Apps \cup {NoApp}, Resolved(w, id) PROVE AppInv'
  <2>1. calls' \in [Windows -> Nat] /\ mapped' \subseteq Windows /\ listed' \in [Windows -> Nat]
    BY <1>0, <1>2 DEF Resolved, RemoveOne, TypeOK
  <2>2. CASE Awaited(w)
    BY <1>2, <2>1, <2>2, ProceedKeepsApps DEF Resolved
  <2>3. CASE ~Awaited(w)
    BY <1>0, <1>2, <2>1, <2>3 DEF Resolved, AppInv, TypeOK, Marks, HasSplash, splashes
  <2> QED BY <2>2, <2>3
<1>3. CASE PropertiesRead(w)
  <2>1. fetching[w] \in Apps \cup {NoApp}
    BY <1>0, <1>3 DEF PropertiesRead, Due, TypeOK
  <2>2. fetching' \in [Windows -> Apps \cup {NoApp, NotFetching}]
    BY <1>0, <1>3 DEF PropertiesRead, Due, TypeOK
  <2>3. calls' \in [Windows -> Nat] /\ mapped' \subseteq Windows /\ listed' \in [Windows -> Nat]
    BY <1>0, <1>3 DEF PropertiesRead, Due, TypeOK
  <2> QED BY <1>3, <2>1, <2>2, <2>3, EnsureKeepsApps DEF PropertiesRead
<1>4. CASE WindowRemoved(w)
  <2>1. listed' \in [Windows -> Nat] /\ calls' \in [Windows -> Nat] /\ left' \subseteq X11
    BY <1>0, <1>4 DEF WindowRemoved, RemoveOne, TypeOK
  <2> QED BY <1>4, <2>1, LeaveKeepsApps DEF WindowRemoved
<1>5. CASE X11Destroyed(w)
  BY <1>0, <1>5 DEF X11Destroyed, AppInv, TypeOK, Marks, HasSplash, splashes, request, settings
<1> QED BY <1>1, <1>2, <1>3, <1>4, <1>5, WindowStep(w) DEF WindowStep

-----------------------------------------------------------------------------
(* Stages of a window *)

\* What is true of one window.
Place(w) == Placed(w) /\ (w \notin left => Once(w))

\* A window that a step does not touch stays where it is.
LEMMA Frame ==
    ASSUME TypeOK, NEW v \in Windows, Place(v),
           mapped' \cap {v} = mapped \cap {v}, wrapped'[v] = wrapped[v],
           \A x \in Wrappers : splash'[x] = v <=> splash[x] = v,
           listed'[v] = listed[v], calls'[v] = calls[v], fetching'[v] = fetching[v],
           closing' \cap {v} = closing \cap {v}, left' \cap {v} = left \cap {v},
           bound => bound'
    PROVE  Place(v)'
<1>1. Shown(v)' <=> Shown(v) BY DEF Shown
<1>2. OneWrapper(v)' <=> OneWrapper(v) BY DEF OneWrapper
<1>3. /\ v \in mapped' <=> v \in mapped
      /\ v \in closing' <=> v \in closing
      /\ v \in left' <=> v \in left
  OBVIOUS
<1>4. Stages(v)' = Stages(v) BY <1>1, <1>3 DEF Stages
<1>5. Owed(v) => Owed(v)' BY DEF Owed
<1> QED BY <1>1, <1>2, <1>3, <1>4, <1>5 DEF Place, Placed, Once

\* The wrapper that ensureWrapper gives a window, and what it leaves alone.
LEMMA EnsureStage ==
    ASSUME TypeOK, NEW w \in Windows, NEW id \in Apps \cup {NoApp}, ensureWrapper(w, id)
    PROVE  /\ Shown(w)' \/ w \in closing'
           /\ ~Shown(w) /\ w \notin closing =>
                 /\ ~(Shown(w)' /\ w \in closing')
                 /\ Shown(w)' => OneWrapper(w)'
           /\ \A v \in Windows : v # w =>
                 /\ wrapped'[v] = wrapped[v] /\ closing' \cap {v} = closing \cap {v}
                 /\ \A x \in Wrappers : splash'[x] = v <=> splash[x] = v
<1> USE LaunchAssumption
<1>1. CASE closing' = closing \cup {w} /\ UNCHANGED <<splashes, wrapped>>
  BY <1>1 DEF Shown, OneWrapper, splashes, TypeOK
<1>2. CASE /\ id \in Apps
           /\ \E x \in Wrappers : splash[x] = id /\ splash' = [splash EXCEPT ![x] = w]
           /\ UNCHANGED <<wrapped, closing>>
  <2>1. PICK x \in Wrappers : splash[x] = id /\ splash' = [splash EXCEPT ![x] = w]
    BY <1>2
  <2>2. splash'[x] = w /\ \A y \in Wrappers : y # x => splash'[y] = splash[y]
    BY <2>1 DEF TypeOK
  <2>3. id \notin Windows BY <1>2
  <2>4. Shown(w)' BY <2>2 DEF Shown
  <2>5. ~Shown(w) => OneWrapper(w)' BY <1>2, <2>2 DEF Shown, OneWrapper, TypeOK
  <2>6. \A v \in Windows : v # w => \A y \in Wrappers : splash'[y] = v <=> splash[y] = v
    BY <2>1, <2>2, <2>3
  <2> QED BY <1>2, <2>4, <2>5, <2>6
<1>3. CASE wrapped' = [wrapped EXCEPT ![w] = @ + 1] /\ UNCHANGED <<splash, closing>>
  BY <1>3 DEF Shown, OneWrapper, TypeOK
<1> QED BY <1>1, <1>2, <1>3 DEF ensureWrapper

\* The way on, for a window that is at no other place but perhaps in the list.
LEMMA ProceedStage ==
    ASSUME TypeOK, NEW w \in Windows, NEW id \in Apps \cup {NoApp}, Proceed(w, id)
    PROVE  /\ Shown(w)' \/ w \in closing' \/ fetching'[w] # NotFetching
           /\ (~Shown(w) /\ w \notin closing /\ fetching[w] = NotFetching /\ listed'[w] = 0) =>
                 Stages(w)' = 1 /\ (Shown(w)' => OneWrapper(w)')
           /\ \A v \in Windows : v # w =>
                 /\ wrapped'[v] = wrapped[v] /\ closing' \cap {v} = closing \cap {v}
                 /\ \A x \in Wrappers : splash'[x] = v <=> splash[x] = v
                 /\ fetching'[v] = fetching[v]
<1>1. CASE /\ fetching' = [fetching EXCEPT ![w] = id]
           /\ UNCHANGED <<pending, missed, splashes, closed, closing, wrapped>>
  <2>1. fetching'[w] = id /\ id # NotFetching BY <1>1, LaunchAssumption DEF TypeOK
  <2>2. Shown(w)' <=> Shown(w) BY <1>1 DEF Shown, splashes
  <2> QED BY <1>1, <2>1, <2>2 DEF TypeOK, Stages, splashes
<1>2. CASE ensureWrapper(w, id) /\ fetching' = fetching
  BY <1>2, EnsureStage DEF Stages
<1> QED BY <1>1, <1>2 DEF Proceed

\* A window at no stage.
LEMMA NoStage ==
    ASSUME TypeOK, NEW w \in Windows, Stages(w) = 0
    PROVE  ~Shown(w) /\ listed[w] = 0 /\ fetching[w] = NotFetching /\ w \notin closing
BY DEF TypeOK, Stages

\* A window that is in the list is at no other stage.
LEMMA ListStage ==
    ASSUME TypeOK, NEW w \in Windows, Stages(w) <= 1, listed[w] > 0
    PROVE  ~Shown(w) /\ listed[w] = 1 /\ fetching[w] = NotFetching /\ w \notin closing
BY DEF TypeOK, Stages

\* Of the windows that go nothing is left but entries in the list.
LEMMA LeaveStage ==
    ASSUME TypeOK, NEW gone \in SUBSET Windows, Leave(gone)
    PROVE  /\ \A w \in gone : (Shown(w) => OneWrapper(w)) => ~Shown(w)'
           /\ \A w \in gone : w \notin mapped' /\ fetching'[w] = NotFetching /\ w \notin closing'
           /\ \A v \in Windows \ gone :
                 /\ wrapped'[v] = wrapped[v] /\ closing' \cap {v} = closing \cap {v}
                 /\ \A x \in Wrappers : splash'[x] = v <=> splash[x] = v
                 /\ fetching'[v] = fetching[v] /\ mapped' \cap {v} = mapped \cap {v}
<1>1. ASSUME NEW w \in gone, Shown(w) => OneWrapper(w) PROVE ~Shown(w)'
  <2>1. CASE wrapped[w] = 0
    BY <2>1, LaunchAssumption DEF Leave, Shown, TypeOK
  <2>2. CASE wrapped[w] # 0
    <3>1. wrapped[w] = 1 /\ \A x \in Wrappers : splash[x] # w
      BY <1>1, <2>2 DEF Shown, OneWrapper, TypeOK
    <3> QED BY <3>1, LaunchAssumption DEF Leave, Shown, TypeOK
  <2> QED BY <2>1, <2>2
<1>2. \A w \in gone : w \notin mapped' /\ fetching'[w] = NotFetching /\ w \notin closing'
  BY DEF Leave
<1>3. ASSUME NEW v \in Windows \ gone
      PROVE  /\ wrapped'[v] = wrapped[v] /\ closing' \cap {v} = closing \cap {v}
             /\ \A x \in Wrappers : splash'[x] = v <=> splash[x] = v
             /\ fetching'[v] = fetching[v] /\ mapped' \cap {v} = mapped \cap {v}
  BY LaunchAssumption DEF Leave, TypeOK
<1> QED BY <1>1, <1>2, <1>3

\* Every step of a window keeps every window in its place.
LEMMA WindowKeepsPlaces ==
    ASSUME TypeOK, \A v \in Windows : Place(v), NEW w \in Windows, WindowStep(w),
           NEW v \in Windows
    PROVE  Place(v)'
<1>0. Place(v) /\ Place(w) OBVIOUS
<1>1. ASSUME NEW pid \in BOOLEAN, WindowAdded(w, pid) PROVE Place(v)'
  <2>0. w \notin left => ~Shown(w) /\ listed[w] = 0 /\ fetching[w] = NotFetching /\ w \notin closing
    BY <1>0, <1>1, NoStage DEF WindowAdded, Place, Once
  <2>1. CASE AnyExpected /\ pid /\ bound
    <3>1. /\ mapped' = mapped \cup {w} /\ calls' = [calls EXCEPT ![w] = @ + 1]
          /\ listed' = [listed EXCEPT ![w] = @ + 1] /\ bound'
          /\ UNCHANGED <<splash, timed, closing, wrapped, fetching, left>>
      BY <1>1, <2>1 DEF WindowAdded, splashes
    <3>2. CASE v = w
      <4>1. Owed(w)' /\ (Shown(w)' <=> Shown(w)) /\ listed'[w] = listed[w] + 1
        BY <3>1 DEF Owed, Shown, TypeOK
      <4> QED BY <2>0, <3>1, <3>2, <4>1 DEF Place, Placed, Once, Stages
    <3>3. CASE v # w
      BY <1>0, <3>1, <3>3, Frame DEF TypeOK
    <3> QED BY <3>2, <3>3
  <2>2. CASE ~(AnyExpected /\ pid /\ bound)
    <3>1. /\ Proceed(w, NoApp) /\ UNCHANGED <<calls, listed, bound, left>>
          /\ mapped' = mapped \cup {w}
      BY <1>1, <2>2 DEF WindowAdded
    <3>2. CASE v = w
      BY <2>0, <3>1, <3>2, ProceedStage DEF Place, Placed, Once
    <3>3. CASE v # w
      BY <1>0, <3>1, <3>3, ProceedStage, Frame
    <3> QED BY <3>2, <3>3
  <2> QED BY <2>1, <2>2
<1>2. ASSUME NEW id \in Apps \cup {NoApp}, Resolved(w, id) PROVE Place(v)'
  <2>0. /\ UNCHANGED <<bound, mapped, left>>
        /\ \A u \in Windows : u # w => calls'[u] = calls[u]
    BY <1>2 DEF Resolved, TypeOK
  <2>1. CASE Awaited(w)
    <3>1. Proceed(w, id) /\ listed'[w] = listed[w] - 1
          /\ \A u \in Windows : u # w => listed'[u] = listed[u]
      BY <1>2, <2>1 DEF Resolved, RemoveOne, Awaited, TypeOK
    <3>2. CASE v = w
      <4>1. w \notin left => /\ ~Shown(w) /\ listed[w] = 1 /\ fetching[w] = NotFetching
                            /\ w \notin closing /\ w \in mapped
        BY <1>0, <2>1, ListStage DEF Place, Once, Awaited, Stages, TypeOK
      <4>2. w \notin left => Stages(w)' = 1 /\ (Shown(w)' => OneWrapper(w)')
        BY <3>1, <4>1, ProceedStage
      <4>3. Shown(w)' \/ w \in closing' \/ fetching'[w] # NotFetching
        BY <3>1, ProceedStage
      <4> QED BY <2>0, <3>2, <4>1, <4>2, <4>3 DEF Place, Placed, Once
    <3>3. CASE v # w
      BY <1>0, <2>0, <3>1, <3>3, ProceedStage, Frame
    <3> QED BY <3>2, <3>3
  <2>2. CASE ~Awaited(w)
    <3>1. UNCHANGED <<splash, closing, wrapped, fetching, listed>>
      BY <1>2, <2>2 DEF Resolved, splashes
    <3>2. CASE v = w
      <4>1. (Shown(w)' <=> Shown(w)) /\ (OneWrapper(w)' <=> OneWrapper(w)) /\ ~Owed(w)
        BY <2>2, <3>1 DEF Shown, OneWrapper, Owed, Awaited
      <4> QED BY <1>0, <2>0, <3>1, <3>2, <4>1 DEF Place, Placed, Once, Stages
    <3>3. CASE v # w
      BY <1>0, <2>0, <3>1, <3>3, Frame
    <3> QED BY <3>2, <3>3
  <2> QED BY <2>1, <2>2
<1>3. CASE PropertiesRead(w)
  <2>0. /\ ensureWrapper(w, fetching[w]) /\ UNCHANGED <<bound, mapped, left, calls, listed>>
        /\ fetching[w] \in Apps \cup {NoApp} /\ fetching'[w] = NotFetching
        /\ \A u \in Windows : u # w => fetching'[u] = fetching[u]
    BY <1>3 DEF PropertiesRead, Due, TypeOK
  <2>1. CASE v = w
    <3>1. Shown(w)' \/ w \in closing' BY <2>0, EnsureStage
    <3>2. ASSUME w \notin left
          PROVE  w \in mapped /\ ~Shown(w) /\ w \notin closing /\ listed[w] = 0
      BY <1>0, <1>3, <3>2 DEF PropertiesRead, Due, Place, Once, Stages, TypeOK
    <3>3. w \notin left => ~(Shown(w)' /\ w \in closing') /\ (Shown(w)' => OneWrapper(w)')
      BY <2>0, <3>2, EnsureStage
    <3>4. w \notin left => Stages(w)' = 1
      BY <2>0, <3>1, <3>2, <3>3 DEF Stages
    <3> QED BY <2>0, <2>1, <3>1, <3>2, <3>3, <3>4 DEF Place, Placed, Once
  <2>2. CASE v # w
    BY <1>0, <2>0, <2>2, EnsureStage, Frame
  <2> QED BY <2>1, <2>2
<1>4. CASE WindowRemoved(w)
  <2>0. /\ Leave({w}) /\ {w} \in SUBSET Windows /\ UNCHANGED <<bound, left>>
        /\ \A u \in Windows : u # w => calls'[u] = calls[u] /\ listed'[u] = listed[u]
        /\ listed'[w] = IF ~Shown(w) /\ listed[w] > 0 THEN listed[w] - 1 ELSE listed[w]
    BY <1>4 DEF WindowRemoved, RemoveOne, TypeOK
  <2>1. CASE v = w
    <3>1. w \notin mapped' /\ fetching'[w] = NotFetching /\ w \notin closing'
      BY <2>0, LeaveStage
    <3>2. ASSUME w \notin left PROVE ~Shown(w)' /\ listed'[w] = 0
      BY <1>0, <1>4, <2>0, <3>2, LeaveStage DEF WindowRemoved, Place, Once, Stages, TypeOK
    <3> QED BY <2>0, <2>1, <3>1, <3>2 DEF Place, Placed, Once, Stages
  <2>2. CASE v # w
    BY <1>0, <2>0, <2>2, LeaveStage, Frame
  <2> QED BY <2>1, <2>2
<1>5. CASE X11Destroyed(w)
  <2>0. /\ UNCHANGED <<splash, bound, mapped, listed, fetching, wrapped, closing, left>>
        /\ \A u \in Windows : u # w => calls'[u] = calls[u]
        /\ w \notin mapped
    BY <1>5 DEF X11Destroyed, splashes, TypeOK
  <2>1. CASE v = w
    <3>1. (Shown(w)' <=> Shown(w)) /\ (OneWrapper(w)' <=> OneWrapper(w)) /\ Stages(w)' = Stages(w)
      BY <2>0 DEF Shown, OneWrapper, Stages
    <3> QED BY <1>0, <2>0, <2>1, <3>1 DEF Place, Placed, Once
  <2>2. CASE v # w
    BY <1>0, <2>0, <2>2, Frame
  <2> QED BY <2>1, <2>2
<1> QED BY <1>1, <1>2, <1>3, <1>4, <1>5, WindowStep(w) DEF WindowStep

\* When the resolver goes away every window that waits for it goes on.
LEMMA GoneKeepsPlaces ==
    ASSUME TypeOK, NEW connected \in BOOLEAN, ResolverGone(connected), NEW v \in Windows, Place(v)
    PROVE  Place(v)'
<1> DEFINE n == AnsweredOnExit(v)
<1>0. n \in Nat /\ n <= listed[v] /\ (listed[v] > 0 /\ calls[v] > 0 => n > 0)
      /\ listed[v] \in Nat /\ wrapped[v] \in Nat
  BY DEF AnsweredOnExit, TypeOK
<1>1. /\ listed'[v] = listed[v] - n
      /\ wrapped'[v] = IF v \in X11 /\ connected THEN wrapped[v] ELSE wrapped[v] + n
      /\ fetching'[v] = IF v \in X11 /\ connected /\ n > 0 THEN NoApp ELSE fetching[v]
      /\ UNCHANGED <<splash, mapped, closing, left>>
  BY DEF ResolverGone, splashes
<1>2. CASE n = 0
  <2>1. (Shown(v)' <=> Shown(v)) /\ (OneWrapper(v)' <=> OneWrapper(v)) /\ Stages(v)' = Stages(v)
    BY <1>0, <1>1, <1>2 DEF Shown, OneWrapper, Stages
  <2>2. ~Owed(v) BY <1>0, <1>2 DEF Owed
  <2> QED BY <1>0, <1>1, <1>2, <2>1, <2>2 DEF Place, Placed, Once
<1>3. CASE n > 0
  <2>1. Shown(v)' \/ fetching'[v] # NotFetching
    BY <1>0, <1>1, <1>3, LaunchAssumption DEF Shown
  <2>2. ASSUME v \notin left PROVE Once(v)'
    <3>1. Stages(v) <= 1 BY <2>2 DEF Place, Once
    <3>2. ~Shown(v) /\ listed[v] = 1 /\ fetching[v] = NotFetching /\ v \notin closing
      BY <1>0, <1>3, <3>1, ListStage
    <3>3. v \in mapped BY <2>2, <3>2 DEF Place, Once, Stages
    <3>4. n = 1 BY <1>0, <1>3, <3>2
    <3>5. CASE v \in X11 /\ connected
      <4>1. ~Shown(v)' /\ fetching'[v] # NotFetching /\ listed'[v] = 0
        BY <1>1, <3>2, <3>4, <3>5, LaunchAssumption DEF Shown
      <4> QED BY <1>1, <3>2, <3>3, <4>1 DEF Once, Stages
    <3>6. CASE ~(v \in X11 /\ connected)
      <4>1. Shown(v)' /\ OneWrapper(v)' /\ fetching'[v] = NotFetching /\ listed'[v] = 0
        BY <1>0, <1>1, <3>2, <3>4, <3>6 DEF Shown, OneWrapper
      <4> QED BY <1>1, <3>2, <3>3, <4>1 DEF Once, Stages
    <3> QED BY <3>5, <3>6
  <2> QED BY <1>1, <2>1, <2>2 DEF Place, Placed
<1> QED BY <1>0, <1>2, <1>3

\* XWayland's teardown leaves nothing but entries in the list.
LEMMA TeardownKeepsPlaces ==
    ASSUME TypeOK, XWaylandRemoved, NEW v \in Windows, Place(v)
    PROVE  Place(v)'
<1>0. Leave(X11) /\ X11 \in SUBSET Windows /\ UNCHANGED <<bound, listed>>
      /\ left' = left \cup {w \in X11 : listed[w] > 0}
  BY DEF XWaylandRemoved, Windows
<1>1. CASE v \in X11
  <2>1. v \notin mapped' /\ fetching'[v] = NotFetching /\ v \notin closing'
    BY <1>0, <1>1, LeaveStage
  <2>2. ASSUME v \notin left' PROVE Once(v)'
    <3>1. v \notin left /\ listed'[v] = 0 BY <1>0, <1>1, <2>2 DEF TypeOK
    <3>2. ~Shown(v)' BY <1>0, <1>1, <3>1, LeaveStage DEF Place, Once
    <3> QED BY <2>1, <3>1, <3>2 DEF Once, Stages
  <2> QED BY <2>1, <2>2 DEF Place, Placed
<1>2. CASE v \notin X11
  <2>1. calls'[v] = calls[v] BY <1>2 DEF XWaylandRemoved, TypeOK
  <2>2. left' \cap {v} = left \cap {v} BY <1>0, <1>2
  <2> QED BY <1>0, <1>2, <2>1, <2>2, LeaveStage, Frame
<1> QED BY <1>1, <1>2

\* The splashes and their ends touch no window.
LEMMA SplashKeepsPlaces ==
    ASSUME TypeOK, NEW v \in Windows, Place(v),
           \/ \E a \in Apps : SplashStep(a)
           \/ \E x \in Wrappers : WrapperStep(x)
    PROVE  Place(v)'
<1>1. UNCHANGED <<bound, windows>>
  BY DEF SplashStep, SplashRequested, SettingsReady, SettingsFailed, SettingChanged,
     SplashObjectDestroyed, WrapperStep, SplashTimeout, SplashClosedByUser
<1>2. \A x \in Wrappers : splash'[x] = v <=> splash[x] = v
  <2>1. ASSUME NEW a \in Apps, SplashStep(a)
        PROVE  \A x \in Wrappers : splash'[x] = v <=> splash[x] = v
    <3>1. CASE UNCHANGED splashes
      BY <3>1 DEF splashes
    <3>2. ASSUME NEW timeout \in BOOLEAN, createPrelaunchSplash(a, timeout)
          PROVE  \A x \in Wrappers : splash'[x] = v <=> splash[x] = v
      BY <3>2, CreateTyped, LaunchAssumption
    <3>3. ASSUME NEW y \in Wrappers, splash[y] = a, Destroyed(y)
          PROVE  \A x \in Wrappers : splash'[x] = v <=> splash[x] = v
      BY <3>3, DestroyedTyped, LaunchAssumption
    <3> QED BY <2>1, <3>1, <3>2, <3>3 DEF SplashStep, SplashRequested, SettingsReady,
            SettingsFailed, SettingChanged, SplashObjectDestroyed, SkipSplash, AwaitSettings
  <2>2. ASSUME NEW y \in Wrappers, WrapperStep(y)
        PROVE  \A x \in Wrappers : splash'[x] = v <=> splash[x] = v
    <3>1. CASE UNCHANGED splash
      BY <3>1
    <3>2. CASE splash[y] \in Apps /\ Destroyed(y)
      BY <3>2, DestroyedTyped, LaunchAssumption
    <3> QED BY <2>2, <3>1, <3>2 DEF WrapperStep, SplashTimeout, SplashClosedByUser, Unmatched
  <2> QED BY <2>1, <2>2
<1> QED BY <1>1, <1>2, Frame DEF windows

-----------------------------------------------------------------------------
\* Every step keeps the invariant of the apps.
LEMMA NextApps == AppInv /\ [Next]_vars => AppInv'
<1> SUFFICES ASSUME AppInv, [Next]_vars PROVE AppInv'
  OBVIOUS
<1>0. TypeOK BY DEF AppInv
<1>1. CASE ResolverBound
  BY <1>0, <1>1 DEF ResolverBound, AppInv, TypeOK, Marks, HasSplash, request, settings, splashes,
     windows
<1>2. ASSUME NEW connected \in BOOLEAN, ResolverGone(connected) PROVE AppInv'
  <2>1. /\ calls' \in [Windows -> Nat] /\ wrapped' \in [Windows -> Nat]
        /\ listed' \in [Windows -> Nat]
    BY <1>0, <1>2 DEF ResolverGone, AnsweredOnExit, TypeOK
  <2>2. fetching' \in [Windows -> Apps \cup {NoApp, NotFetching}] /\ bound' \in BOOLEAN
    BY <1>0, <1>2 DEF ResolverGone, TypeOK
  <2>3. UNCHANGED <<objects, pending, waiting, store, enabled, missed, splash, timed, closed,
                    mapped, closing, left>>
    BY <1>2 DEF ResolverGone, request, settings, splashes
  <2>4. TypeOK' BY <1>0, <2>1, <2>2, <2>3 DEF TypeOK
  <2>5. Marks' BY <2>3 DEF AppInv, Marks, HasSplash
  <2> QED BY <2>4, <2>5 DEF AppInv
<1>3. CASE XWaylandRemoved
  <2>1. listed' \in [Windows -> Nat] /\ calls' \in [Windows -> Nat] /\ left' \subseteq X11
    BY <1>0, <1>3 DEF XWaylandRemoved, TypeOK
  <2> QED BY <1>3, <2>1, LeaveKeepsApps DEF XWaylandRemoved, Windows
<1>4. CASE UNCHANGED vars
  BY <1>4 DEF vars, AppInv, TypeOK, Marks, HasSplash
<1> QED BY <1>1, <1>2, <1>3, <1>4, SplashKeepsApps, WrapperKeepsApps, WindowKeepsApps DEF Next

\* Every step keeps every window in its place.
LEMMA NextPlaces == TypeOK /\ NoLimbo /\ [Next]_vars => NoLimbo'
<1> SUFFICES ASSUME TypeOK, NoLimbo, [Next]_vars, NEW v \in Windows PROVE Place(v)'
  BY DEF NoLimbo, Place
<1>0. \A w \in Windows : Place(w) BY DEF NoLimbo, Place
<1>1. CASE ResolverBound
  BY <1>0, <1>1, Frame DEF ResolverBound, windows, splashes
<1>2. CASE UNCHANGED vars
  BY <1>0, <1>2, Frame DEF vars
<1> QED BY <1>0, <1>1, <1>2, SplashKeepsPlaces, WindowKeepsPlaces, GoneKeepsPlaces,
        TeardownKeepsPlaces DEF Next

\* The inductive invariant holds throughout.
LEMMA IInvHolds == Spec => []IInv
<1>1. IInv /\ [Next]_vars => IInv'
  BY NextApps, NextPlaces DEF IInv, AppInv
<1> QED BY <1>1, InitIInv, PTL DEF Spec

\* Requests, settings, splashes and windows keep their types, and the mismatch
\* counter stays below the limit that switches the splashes of an app off.
THEOREM LaunchTypes == Spec => []TypeOK
<1>1. IInv => TypeOK BY DEF IInv, AppInv
<1> QED BY <1>1, IInvHolds, PTL

\* However requests, their withdrawal and the settings of any number of apps
\* follow each other, an app never gets a second splash.
THEOREM OneSplashPerApp == Spec => []OneSplash
<1>1. IInv => OneSplash
  BY DEF IInv, AppInv, Marks, OneSplash, TypeOK
<1> QED BY <1>1, IInvHolds, PTL

\* No window is lost between the resolver, the properties and its wrapper, also
\* when it is mapped again while old answers are owed, when the timeout of the
\* splash it took over runs out, or when its address was left in the list; and
\* none is shown twice, that last case excepted.
THEOREM WindowsNeverLost == Spec => []NoLimbo
<1>1. IInv => NoLimbo BY DEF IInv
<1> QED BY <1>1, IInvHolds, PTL
=============================================================================
