------------------------------- MODULE Launch -------------------------------
(***************************************************************************)
(* The way from the launch of an application to its window: ShellHandler's *)
(* prelaunch splashes (shellhandler.cpp), the stored settings they wait    *)
(* for (windowconfigstore.cpp), the client that resolves the app id of a   *)
(* new window (appidresolver.cpp), and the wrapper the window is given.    *)
(*                                                                         *)
(* Everything runs in the compositor's thread; settings, app ids and X11   *)
(* properties arrive later, in any order, or not at all.  Sizes, palettes, *)
(* the place of a window in its container and its decoration are left out. *)
(***************************************************************************)
EXTENDS Integers, FiniteSets

CONSTANTS
    Apps,         \* app ids
    NoApp,        \* the empty app id
    Xdg,          \* xdg toplevels
    X11,          \* windows of one XWayland instance, which may be mapped again
    Wrappers,     \* bound: SurfaceWrapper objects that are made as a splash
    MaxMismatch,  \* prelaunchSplashMaxMismatchCount, 0 when not positive
    MaxObjects,   \* bound: splash objects of the clients for one app
    MaxWaiting,   \* bound: requests waiting for the settings of one app
    MaxCalls      \* bound: answers of the resolver owed, and entries in the list
                  \* of windows that wait for one, for one window

Windows == Xdg \cup X11
NotFetching == "none"   \* no property of the window is being read
Unused == "unused"      \* a wrapper that does not exist

ASSUME LaunchAssumption ==
    /\ NoApp \notin Apps /\ NotFetching \notin Apps \cup {NoApp}
    /\ Xdg \cap X11 = {} /\ Apps \cap Windows = {}
    /\ Unused \notin Apps \cup Windows
    /\ MaxMismatch \in Nat
    /\ MaxObjects \in Nat /\ MaxWaiting \in Nat /\ MaxCalls \in Nat

VARIABLES
    objects,  \* treeland_prelaunch_splash_v2 objects of each app
    pending,  \* m_pendingPrelaunchAppIds
    waiting,  \* callbacks of withSplashConfigFor that wait for the settings
    store,    \* AppConfig of each app: "loading", "ready" or "failed"
    enabled,  \* apps whose setting enablePrelaunchSplash is on
    missed,   \* prelaunchSplashMismatchCount
    splash,   \* each wrapper made as a splash: of an app, in m_prelaunchWrappers,
              \* or of the window that has taken it over
    timed,    \* wrappers made as a splash, whose timeout is running
    closed,   \* m_closedSplashAppIds
    bound,    \* a resolver is bound
    calls,    \* m_callbacks of the resolver, counted by the living window they hold
    mapped,   \* windows that are there: created, or associated with a surface
    listed,   \* m_pendingAppIdResolveToplevels, counted by address
    fetching, \* X11 windows whose properties are being read, with their app id
    wrapped,  \* wrappers that were made for each window
    closing,  \* windows that were asked to close instead of being shown
    left      \* history: addresses that XWayland's teardown left in the list

request == <<objects, pending, waiting>>
settings == <<store, enabled, missed>>
splashes == <<splash, timed>>
windows == <<calls, mapped, listed, fetching, wrapped, closing, left>>
vars == <<objects, pending, waiting, store, enabled, missed, splash, timed, closed,
          bound, calls, mapped, listed, fetching, wrapped, closing, left>>

-----------------------------------------------------------------------------
TypeOK ==
    /\ objects \in [Apps -> 0..MaxObjects]
    /\ pending \subseteq Apps
    /\ waiting \in [Apps -> 0..MaxWaiting]
    /\ store \in [Apps -> {"loading", "ready", "failed"}]
    /\ enabled \subseteq Apps
    /\ missed \in [Apps -> Nat]
    /\ \A a \in Apps : missed[a] = 0 \/ missed[a] < MaxMismatch
    /\ splash \in [Wrappers -> Apps \cup Windows \cup {Unused}]
    /\ timed \subseteq Wrappers /\ closed \subseteq Apps
    /\ bound \in BOOLEAN
    /\ calls \in [Windows -> Nat]
    /\ mapped \subseteq Windows
    /\ listed \in [Windows -> Nat]
    /\ fetching \in [Windows -> Apps \cup {NoApp, NotFetching}]
    /\ wrapped \in [Windows -> Nat]
    /\ closing \subseteq Windows /\ left \subseteq X11

\* The count of mismatches is stored from one run of the compositor to the next,
\* and so is the setting.
Init ==
    /\ objects = [a \in Apps |-> 0]
    /\ pending = {}
    /\ waiting = [a \in Apps |-> 0]
    /\ store = [a \in Apps |-> "loading"]
    /\ enabled \in SUBSET Apps
    /\ missed \in [Apps -> {0} \cup 0..(MaxMismatch - 1)]
    /\ splash = [x \in Wrappers |-> Unused]
    /\ timed = {} /\ closed = {}
    /\ bound = FALSE
    /\ calls = [w \in Windows |-> 0]
    /\ mapped = {}
    /\ listed = [w \in Windows |-> 0]
    /\ fetching = [w \in Windows |-> NotFetching]
    /\ wrapped = [w \in Windows |-> 0]
    /\ closing = {} /\ left = {}

-----------------------------------------------------------------------------
(* A splash is asked for *)

\* m_prelaunchWrappers has a splash of the app.
HasSplash(a) == \E x \in Wrappers : splash[x] = a

\* Fault: only the marks are looked at, not the splashes that are shown.
DuplicateOfMark(a) == a \in pending

\* The app has a splash, or one is on its way.
Duplicate(a) == HasSplash(a) \/ a \in pending

\* createPrelaunchSplash: the splash is shown, with a timeout unless that is
\* switched off.
createPrelaunchSplash(a, timeout) ==
    \E x \in Wrappers :
       /\ splash[x] = Unused
       /\ splash' = [splash EXCEPT ![x] = a]
       /\ timed' = IF timeout THEN timed \cup {x} ELSE timed

\* A request that is refused: skipSplash takes the mark away, whoever set it.
SkipSplash(a) ==
    /\ pending' = pending \ {a}
    /\ UNCHANGED <<waiting, splashes>>

\* The settings are still loading: the request is marked.
AwaitSettings(a) ==
    /\ waiting[a] < MaxWaiting
    /\ pending' = pending \cup {a}
    /\ waiting' = [waiting EXCEPT ![a] = @ + 1]
    /\ UNCHANGED splashes

\* handlePrelaunchSplashRequested and withSplashConfigFor.  The request is
\* allowed when splashes are not switched off for all apps.
SplashRequested(a, allowed, timeout) ==
    /\ objects[a] < MaxObjects
    /\ objects' = [objects EXCEPT ![a] = @ + 1]
    /\ \/ ~allowed /\ SkipSplash(a)
       \/ allowed /\ Duplicate(a) /\ SkipSplash(a)
       \/ allowed /\ ~Duplicate(a) /\ store[a] = "loading" /\ AwaitSettings(a)
       \/ /\ allowed /\ ~Duplicate(a) /\ store[a] # "loading"
          /\ store[a] = "failed" \/ a \notin enabled
          /\ SkipSplash(a)
       \/ /\ allowed /\ ~Duplicate(a) /\ store[a] = "ready" /\ a \in enabled
          /\ createPrelaunchSplash(a, timeout)
          /\ UNCHANGED <<pending, waiting>>
    /\ UNCHANGED <<settings, closed, bound, windows>>

\* The settings of an app have been read, and every callback that waits for
\* them is called: the first one takes the mark and shows the splash.
SettingsReady(a, timeout) ==
    /\ store[a] = "loading"
    /\ store' = [store EXCEPT ![a] = "ready"]
    /\ waiting' = [waiting EXCEPT ![a] = 0]
    /\ pending' = IF waiting[a] > 0 THEN pending \ {a} ELSE pending
    /\ IF waiting[a] > 0 /\ a \in enabled /\ a \in pending
       THEN createPrelaunchSplash(a, timeout)
       ELSE UNCHANGED splashes
    /\ UNCHANGED <<objects, enabled, missed, closed, bound, windows>>

\* The settings of an app cannot be read: every callback skips its splash.
SettingsFailed(a) ==
    /\ store[a] = "loading"
    /\ store' = [store EXCEPT ![a] = "failed"]
    /\ waiting' = [waiting EXCEPT ![a] = 0]
    /\ pending' = IF waiting[a] > 0 THEN pending \ {a} ELSE pending
    /\ UNCHANGED <<objects, enabled, missed, splashes, closed, bound, windows>>

\* The setting is changed by the user.
SettingChanged(a) ==
    /\ store[a] = "ready"
    /\ enabled' = IF a \in enabled THEN enabled \ {a} ELSE enabled \cup {a}
    /\ UNCHANGED <<request, store, missed, splashes, closed, bound, windows>>

-----------------------------------------------------------------------------
(* A splash ends without a window *)

\* Fault: the splash of an app is switched off one mismatch too late.
TooOftenByOne(a) == missed[a] + 1 > MaxMismatch

\* The app has missed its splash as often as it may.
TooOften(a) == missed[a] + 1 >= MaxMismatch

\* recordSplashMismatch: too many of them switch the splashes of the app off.
recordSplashMismatch(a) ==
    IF MaxMismatch = 0 \/ a \notin Apps \/ store[a] # "ready" THEN UNCHANGED <<missed, enabled>>
    ELSE /\ enabled' = IF TooOften(a) THEN enabled \ {a} ELSE enabled
         /\ missed' = [missed EXCEPT ![a] = IF TooOften(a) THEN 0 ELSE @ + 1]

\* Fault: an app that is switched off keeps its last splash.
DestroyedUnlessDisabled(x) ==
    /\ splash' = IF TooOften(splash[x]) THEN splash ELSE [splash EXCEPT ![x] = Unused]
    /\ timed' = timed \ {x}

\* A wrapper is destroyed, and its timer with it.
Destroyed(x) ==
    /\ splash' = [splash EXCEPT ![x] = Unused]
    /\ timed' = timed \ {x}

\* Fault: the timeout does not ask what has become of its wrapper.
UnmatchedAnyway(x) == TRUE

\* m_prelaunchWrappers still has the wrapper.
Unmatched(x) == splash[x] \in Apps

\* The timeout of a splash.  A wrapper that a window has taken over is out of
\* the list and stays.
SplashTimeout(x) ==
    /\ x \in timed
    /\ IF Unmatched(x)
       THEN Destroyed(x) /\ recordSplashMismatch(splash[x])
       ELSE timed' = timed \ {x} /\ UNCHANGED <<splash, missed, enabled>>
    /\ UNCHANGED <<request, store, closed, bound, windows>>

\* The user closes a splash: the window it announces is to be closed too.
SplashClosedByUser(x) ==
    /\ splash[x] \in Apps
    /\ closed' = closed \cup {splash[x]}
    /\ Destroyed(x)
    /\ recordSplashMismatch(splash[x])
    /\ UNCHANGED <<request, store, bound, windows>>

\* handlePrelaunchSplashClosed: a client destroys a splash object or goes away.
SplashObjectDestroyed(a) ==
    /\ objects[a] > 0
    /\ objects' = [objects EXCEPT ![a] = @ - 1]
    /\ pending' = pending \ {a}
    /\ \/ \E x \in Wrappers : splash[x] = a /\ Destroyed(x) /\ recordSplashMismatch(a)
       \/ ~HasSplash(a) /\ UNCHANGED <<splashes, missed, enabled>>
    /\ UNCHANGED <<waiting, store, closed, bound, windows>>

-----------------------------------------------------------------------------
(* A window gets its wrapper *)

\* ensureXdgWrapper and ensureXwaylandWrapper: the window is closed at once for
\* a splash the user closed, takes over the splash of its app, whose timeout
\* runs on, or is shown in a new wrapper.
ensureWrapper(w, id) ==
    \/ /\ id \in closed
       /\ closed' = closed \ {id}
       /\ closing' = closing \cup {w}
       /\ UNCHANGED <<pending, missed, splashes, wrapped>>
    \/ /\ id \notin closed
       /\ pending' = pending \ {id}
       /\ \/ /\ id \in Apps
             /\ \E x \in Wrappers : splash[x] = id /\ splash' = [splash EXCEPT ![x] = w]
             /\ missed' = IF store[id] = "ready" THEN [missed EXCEPT ![id] = 0] ELSE missed
             /\ UNCHANGED wrapped
          \/ /\ ~(id \in Apps /\ HasSplash(id))
             /\ wrapped' = [wrapped EXCEPT ![w] = @ + 1]
             /\ UNCHANGED <<splash, missed>>
       /\ UNCHANGED <<timed, closed, closing>>

\* The way on for a window whose app id is id, or unknown.  The properties of
\* an X11 window are read first, unless there is no connection to the X server.
Proceed(w, id) ==
    \/ /\ w \in X11
       /\ fetching' = [fetching EXCEPT ![w] = id]
       /\ UNCHANGED <<pending, missed, splashes, closed, closing, wrapped>>
    \/ ensureWrapper(w, id) /\ UNCHANGED fetching

\* The window has a wrapper.
Shown(w) == wrapped[w] > 0 \/ \E x \in Wrappers : splash[x] = w

\* Somebody waits for a window of an app.
AnyExpected == closed # {} \/ \E a \in Apps : HasSplash(a)

\* onXdgToplevelSurfaceAdded, and the associated signal of an X11 window.  The
\* resolver is asked when a splash waits for its window and the process of the
\* window is known.  A later window may have the address of an earlier one
\* (bound: not while a wrapper of that one is left).
WindowAdded(w, pid) ==
    /\ w \notin mapped /\ ~Shown(w)
    /\ mapped' = mapped \cup {w}
    /\ IF AnyExpected /\ pid /\ bound
       THEN /\ calls[w] < MaxCalls /\ listed[w] < MaxCalls
            /\ calls' = [calls EXCEPT ![w] = @ + 1]
            /\ listed' = [listed EXCEPT ![w] = @ + 1]
            /\ UNCHANGED <<pending, missed, splashes, closed, closing, wrapped, fetching>>
       ELSE Proceed(w, NoApp) /\ UNCHANGED <<calls, listed>>
    /\ UNCHANGED <<objects, waiting, store, enabled, bound, left>>

\* The window is in the list of those that wait for an answer.
Awaited(w) == listed[w] > 0

\* One entry of the window is taken out of the list, if there is one.
RemoveOne(w) == [listed EXCEPT ![w] = IF @ > 0 THEN @ - 1 ELSE 0]

\* handleResolved: the answer id, empty when the resolver knows no app.
Resolved(w, id) ==
    /\ bound /\ calls[w] > 0
    /\ calls' = [calls EXCEPT ![w] = @ - 1]
    /\ IF Awaited(w) THEN Proceed(w, id) /\ listed' = RemoveOne(w)
       ELSE UNCHANGED <<pending, missed, splashes, closed, closing, wrapped, fetching, listed>>
    /\ UNCHANGED <<objects, waiting, store, enabled, bound, mapped, left>>

\* get_resolver.
ResolverBound ==
    /\ ~bound
    /\ bound' = TRUE
    /\ UNCHANGED <<request, settings, splashes, closed, windows>>

\* The callbacks of a window that find it in the list when the resolver goes.
AnsweredOnExit(w) == IF calls[w] < listed[w] THEN calls[w] ELSE listed[w]

\* resolverGone: every callback is called with an empty app id, and the window
\* goes on without one: to its wrapper at once, or to its properties, for an X11
\* window whose X server is connected.
ResolverGone(connected) ==
    /\ bound
    /\ bound' = FALSE
    /\ calls' = [w \in Windows |-> 0]
    /\ listed' = [w \in Windows |-> listed[w] - AnsweredOnExit(w)]
    /\ wrapped' = [w \in Windows |-> IF w \in X11 /\ connected THEN wrapped[w]
                                     ELSE wrapped[w] + AnsweredOnExit(w)]
    /\ fetching' = [w \in Windows |->
                       IF w \in X11 /\ connected /\ AnsweredOnExit(w) > 0 THEN NoApp
                       ELSE fetching[w]]
    /\ UNCHANGED <<request, settings, splashes, closed, mapped, closing, left>>

\* Fault: a window whose app is not known is waited for without a timer.
DueIfKnown(w) == fetching[w] \in Apps

\* The window is in asyncProps, with a timer of its own.
Due(w) == fetching[w] # NotFetching

\* The properties of an X11 window have arrived, or 50 ms have passed.
PropertiesRead(w) ==
    /\ Due(w)
    /\ ensureWrapper(w, fetching[w])
    /\ fetching' = [fetching EXCEPT ![w] = NotFetching]
    /\ UNCHANGED <<objects, waiting, store, enabled, bound, calls, mapped, listed, left>>

\* Windows go, what is read about them, and for each the wrapper that getSurface
\* finds (if there are two, which one is all the same).
Leave(gone) ==
    /\ mapped' = mapped \ gone
    /\ wrapped' = [w \in Windows |-> IF w \in gone /\ wrapped[w] > 0 THEN wrapped[w] - 1
                                     ELSE wrapped[w]]
    /\ splash' = [x \in Wrappers |-> IF splash[x] \in gone /\ wrapped[splash[x]] = 0 THEN Unused
                                     ELSE splash[x]]
    /\ timed' = {x \in timed : splash'[x] # Unused}
    /\ fetching' = [w \in Windows |-> IF w \in gone THEN NotFetching ELSE fetching[w]]
    /\ closing' = closing \ gone

\* onXdgToplevelSurfaceRemoved, and the aboutToDissociate signal of an X11
\* window: the list is looked at if there is no wrapper.  The callbacks of an
\* xdg toplevel find it gone; an X11 window lives on, and so do its callbacks.
WindowRemoved(w) ==
    /\ w \in mapped
    /\ Leave({w})
    /\ listed' = IF Shown(w) THEN listed ELSE RemoveOne(w)
    /\ calls' = IF w \in Xdg THEN [calls EXCEPT ![w] = 0] ELSE calls
    /\ UNCHANGED <<request, settings, closed, bound, left>>

\* An X11 window that is not mapped is destroyed; its callbacks find it gone.
X11Destroyed(w) ==
    /\ w \in X11 \ mapped /\ calls[w] > 0
    /\ calls' = [calls EXCEPT ![w] = 0]
    /\ UNCHANGED <<request, settings, splashes, closed, bound, mapped, listed, fetching,
                   wrapped, closing, left>>

\* removeXWayland, and onXWaylandSurfaceRemoved for each of its windows: one
\* without a wrapper returns early, and its entry in the list is left.
XWaylandRemoved ==
    /\ mapped \cap X11 # {}
    /\ Leave(X11)
    /\ calls' = [w \in Windows |-> IF w \in X11 THEN 0 ELSE calls[w]]
    /\ left' = left \cup {w \in X11 : listed[w] > 0}
    /\ UNCHANGED <<request, settings, closed, bound, listed>>

-----------------------------------------------------------------------------
(* Specification *)

SplashStep(a) ==
    \/ \E allowed, timeout \in BOOLEAN : SplashRequested(a, allowed, timeout)
    \/ \E timeout \in BOOLEAN : SettingsReady(a, timeout)
    \/ SettingsFailed(a)
    \/ SettingChanged(a)
    \/ SplashObjectDestroyed(a)

WrapperStep(x) ==
    \/ SplashTimeout(x)
    \/ SplashClosedByUser(x)

WindowStep(w) ==
    \/ \E pid \in BOOLEAN : WindowAdded(w, pid)
    \/ \E id \in Apps \cup {NoApp} : Resolved(w, id)
    \/ PropertiesRead(w)
    \/ WindowRemoved(w)
    \/ X11Destroyed(w)

Next ==
    \/ \E a \in Apps : SplashStep(a)
    \/ \E x \in Wrappers : WrapperStep(x)
    \/ \E w \in Windows : WindowStep(w)
    \/ XWaylandRemoved
    \/ ResolverBound
    \/ \E connected \in BOOLEAN : ResolverGone(connected)

\* Timers run out.
Fairness ==
    /\ \A x \in Wrappers : WF_vars(SplashTimeout(x))
    /\ \A w \in Windows : WF_vars(PropertiesRead(w))

Spec == Init /\ [][Next]_vars /\ Fairness

-----------------------------------------------------------------------------
(* Properties *)

\* An app has one splash at most, shown or on its way, however its requests,
\* their withdrawal and the settings they wait for follow each other.
OneSplash == \A a \in Apps :
    /\ \A x, y \in Wrappers : splash[x] = a /\ splash[y] = a => x = y
    /\ HasSplash(a) => a \notin pending

\* A callback that has not been called will bring an answer for the window.
Owed(w) == listed[w] > 0 /\ calls[w] > 0 /\ bound

\* The window has one wrapper: its own, or one that was a splash.
OneWrapper(w) == /\ \A x, y \in Wrappers : splash[x] = w /\ splash[y] = w => x = y
                 /\ wrapped[w] = (IF \E x \in Wrappers : splash[x] = w THEN 0 ELSE 1)

\* The places where a window is: shown, in the list, read about, or asked to close.
Stages(w) == (IF Shown(w) THEN 1 ELSE 0) + listed[w]
             + (IF fetching[w] # NotFetching THEN 1 ELSE 0)
             + (IF w \in closing THEN 1 ELSE 0)

\* A window that is there is shown or on its way: an answer is owed to it, its
\* properties are read, or it was asked to close.
Placed(w) ==
    w \in mapped => Shown(w) \/ Owed(w) \/ fetching[w] # NotFetching \/ w \in closing

\* It is at one place and has one wrapper, and if it is gone nothing is left.
Once(w) == /\ Stages(w) = (IF w \in mapped THEN 1 ELSE 0)
           /\ Shown(w) => OneWrapper(w)

\* No window is lost between its appearance and its wrapper, or shown twice,
\* whatever the resolver, the X server and the timeout of the splash it took over
\* do.  Only an address that the teardown of XWayland left in the list may later
\* be found there again for another window.
NoLimbo == \A w \in Windows : Placed(w) /\ (w \notin left => Once(w))

\* A splash whose timeout is running does not stay.
SplashEnds == \A a \in Apps : (\E x \in timed : splash[x] = a) ~> ~HasSplash(a)

\* A window that stays without being shown or closed waits for a resolver that
\* stays too and keeps its answer to itself: nothing else holds a window up.
OnlyResolverHoldsUp == \A w \in Windows :
    <>[](w \in mapped /\ ~Shown(w) /\ w \notin closing)
        => <>[](bound /\ calls[w] > 0)

\* What the code would have to guarantee for every address: no entry of a window
\* that is gone stays in the list.  The teardown of XWayland breaks it.
ListLive == \A w \in Windows : listed[w] > 0 => w \in mapped
=============================================================================
