---------------------------- MODULE FocusProofs ----------------------------
(***************************************************************************)
(* The focus rests on mapped surfaces, the history names windows that can  *)
(* be activated, what a seat has activated can be active, a shown desktop  *)
(* keeps the keyboard off the windows, the primary seat falls back to the  *)
(* window activated before, and a request brings a window back, for every  *)
(* number of windows and seats.                                            *)
(***************************************************************************)
EXTENDS Focus, FiniteSetTheorems, WellFoundedInduction, TLAPS

-----------------------------------------------------------------------------
(* What a handler leaves alone. *)

\* No seat has x focused or activated.
Without(s, x) == \A q \in Seats : s.kf[q] # x /\ s.act[q] # x

\* The mapping, minimization and capabilities, and whether the desktop is shown.
Same(s, t) == /\ t.mapped = s.mapped /\ t.min = s.min /\ t.mute = s.mute
              /\ t.capA = s.capA /\ t.capF = s.capF /\ t.showing = s.showing

\* Those, and the activation.
Still(s, t) == Same(s, t) /\ t.act = s.act /\ t.hist = s.hist /\ t.flag = s.flag

\* All that the invariant is about.
Alike(s, t) == /\ t.mapped = s.mapped /\ t.min = s.min /\ t.mute = s.mute
               /\ t.capA = s.capA /\ t.capF = s.capF
               /\ t.act = s.act /\ t.hist = s.hist /\ t.flag = s.flag /\ t.kf = s.kf

\* A seat keeps its keyboard focus or lets go of it.
Dims(s, t) == \A q \in Seats : t.kf[q] \in {s.kf[q], None}

\* If the desktop is shown after, it was before, and no window has the keyboard
\* of a seat where none had it.
KeepsOff(s, t) ==
  t.showing => s.showing /\ \A q \in Seats : t.kf[q] \in Windows => s.kf[q] \in Windows

\* The show desktop state is not entered, and if it did not hold no window loses
\* the capability to be active.
Grown(s, t) == ~s.showing => ~t.showing /\ s.capA \subseteq t.capA

Steady(s, t) == KeepsOff(s, t) /\ Grown(s, t)

\* Only the keyboard focus changes, on each seat to none or to a surface that
\* takes it.
Refocused(s, t) ==
  /\ t \in State /\ Still(s, t)
  /\ \A q \in Seats : t.kf[q] \in {s.kf[q], None} \cup s.capF

LEMMA FocusLeavesRefocuses ==
  ASSUME NEW s \in State
  PROVE  /\ Refocused(s, FocusLeaves(s))
         /\ FocusLeaves(s).kf = [q \in Seats |-> None]
BY DEF State, FocusLeaves, Refocused, Same, Still

\* What SetKeyboardFocus does to the focus of each seat.
LEMMA SetKeyboardFocusRefocuses ==
  ASSUME NEW s \in State, NEW seat \in Seats, NEW x \in s.capF \cup {None}
  PROVE  LET t == SetKeyboardFocus(s, seat, x)
         IN  /\ Refocused(s, t)
             /\ \A q \in Seats : t.kf[q] \in {s.kf[q], None, x}
             /\ \A q \in Seats \ {seat} : t.kf[q] \in {s.kf[q], None}
             /\ x = None => t.kf[seat] = None
<1> DEFINE old == s.kf[seat]
           shared == \E o \in Seats \ {seat} : s.kf[o] = old
           u == IF old # None /\ ~shared /\ s.item = old THEN FocusLeaves(s) ELSE s
           t == [u EXCEPT !.kf[seat] = x, !.item = IF x = None THEN @ ELSE x]
<1>1. /\ u \in State /\ Refocused(s, u) /\ \A q \in Seats : u.kf[q] \in {s.kf[q], None}
  BY FocusLeavesRefocuses DEF Refocused, Same, Still, State
<1> HIDE DEF u
<1>2. x \in Surfaces \cup {None} BY DEF State
<1>3. /\ t \in State /\ Still(u, t) /\ t.kf = [u.kf EXCEPT ![seat] = x]
  BY <1>1, <1>2 DEF State, Same, Still
<1> HIDE DEF t
<1>4. \A q \in Seats : t.kf[q] = IF q = seat THEN x ELSE u.kf[q]
  BY <1>1, <1>3 DEF State
<1>5. Refocused(s, t) BY <1>1, <1>3, <1>4 DEF Refocused, Still, Same
<1>6. Refocused(s, s) BY DEF Refocused, Still, Same
<1>7. \/ SetKeyboardFocus(s, seat, x) = t
      \/ SetKeyboardFocus(s, seat, x) = s /\ (x = None => s.kf[seat] = None)
  BY DEF SetKeyboardFocus, t, u
<1> QED BY <1>1, <1>4, <1>5, <1>6, <1>7


LEMMA RequestKeyboardFocusRefocuses ==
  ASSUME NEW s \in State, NEW seat \in Seats, NEW x
  PROVE  LET t == RequestKeyboardFocus(s, seat, x)
         IN  /\ Refocused(s, t)
             /\ \A q \in Seats : t.kf[q] \in {s.kf[q], None, x}
             /\ \A q \in Seats \ {seat} : t.kf[q] \in {s.kf[q], None}
             /\ x = None => t.kf[seat] = None
<1>1. Refocused(s, s) BY DEF Refocused, Still, Same
<1> QED BY <1>1, SetKeyboardFocusRefocuses DEF RequestKeyboardFocus

LEMMA RefocusedAgain ==
  ASSUME NEW s, NEW t, NEW u, Refocused(s, t), Refocused(t, u)
  PROVE  Refocused(s, u)
BY DEF Refocused, Still, Same

LEMMA KeepsOffAgain ==
  ASSUME NEW s, NEW t, NEW u, KeepsOff(s, t), KeepsOff(t, u)
  PROVE  KeepsOff(s, u)
BY DEF KeepsOff

LEMMA SteadyAgain ==
  ASSUME NEW s, NEW t, NEW u, Steady(s, t), Steady(t, u)
  PROVE  Steady(s, u)
BY KeepsOffAgain DEF Steady, Grown

LEMMA SameKeepsOff ==
  ASSUME NEW s, NEW t, t.kf = s.kf, t.showing = s.showing
  PROVE  KeepsOff(s, t)
BY DEF KeepsOff

LEMMA SameSteady ==
  ASSUME NEW s, NEW t, t.kf = s.kf, t.showing = s.showing, t.capA = s.capA
  PROVE  Steady(s, t)
BY SameKeepsOff DEF Steady, Grown

LEMMA DimsSteady ==
  ASSUME NEW s, NEW t, Dims(s, t), t.showing = s.showing, t.capA = s.capA
  PROVE  Steady(s, t)
<1>1. KeepsOff(s, t) BY RecencyAssumption DEF Dims, KeepsOff
<1> QED BY <1>1 DEF Steady, Grown

\* The show desktop state has ended.
LEMMA EndedSteady ==
  ASSUME NEW s, NEW t, ~t.showing, s.showing \/ Grown(s, t)
  PROVE  Steady(s, t)
BY DEF Steady, KeepsOff, Grown

LEMMA RequestSteady ==
  ASSUME NEW s \in State, NEW seat \in Seats, NEW x, x \notin Windows \/ s.kf[seat] \in Windows
  PROVE  Steady(s, RequestKeyboardFocus(s, seat, x))
<1> DEFINE t == RequestKeyboardFocus(s, seat, x)
<1>1. /\ Refocused(s, t)
      /\ \A q \in Seats : t.kf[q] \in {s.kf[q], None, x}
      /\ \A q \in Seats \ {seat} : t.kf[q] \in {s.kf[q], None}
  BY RequestKeyboardFocusRefocuses
<1> HIDE DEF t
<1>2. t.showing = s.showing /\ t.capA = s.capA BY <1>1 DEF Refocused, Still, Same
<1>3. KeepsOff(s, t) BY <1>1, <1>2, RecencyAssumption DEF KeepsOff
<1>4. Steady(s, t) BY <1>2, <1>3 DEF Steady, Grown
<1> QED BY <1>4 DEF t

-----------------------------------------------------------------------------
(* Loops. *)

Pick(T) == CHOOSE e \in T : TRUE

\* f maps each subset of T to the state that the loop over it leaves.
Table(f, T, s, step) ==
  f = [U \in SUBSET T |-> IF U = {} THEN s ELSE step[Pick(U)][f[U \ {Pick(U)}]]]

LEMMA TableBelow ==
  ASSUME NEW f, NEW T, NEW U, U \subseteq T, NEW s, NEW step, Table(f, T, s, step)
  PROVE  Table([V \in SUBSET U |-> f[V]], U, s, step)
<1> DEFINE g == [V \in SUBSET U |-> f[V]]
<1> SUFFICES ASSUME NEW V \in SUBSET U
             PROVE  g[V] = IF V = {} THEN s ELSE step[Pick(V)][g[V \ {Pick(V)}]]
  BY DEF Table
<1>1. V \in SUBSET T /\ V \ {Pick(V)} \in SUBSET U OBVIOUS
<1>2. f[V] = IF V = {} THEN s ELSE step[Pick(V)][f[V \ {Pick(V)}]] BY <1>1 DEF Table
<1> QED BY <1>1, <1>2

LEMMA TableOne ==
  ASSUME NEW T, NEW s, NEW step,
         \A U \in SUBSET T : U # T =>
           \E f : Table(f, U, s, step) /\ \A g : Table(g, U, s, step) => g = f
  PROVE  \E f : Table(f, T, s, step) /\ \A g : Table(g, T, s, step) => g = f
<1> DEFINE Of(U)    == CHOOSE f : Table(f, U, s, step)
           After(V) == IF V = {} THEN s ELSE step[Pick(V)][Of(V \ {Pick(V)})[V \ {Pick(V)}]]
           F        == [V \in SUBSET T |-> After(V)]
<1>1. ASSUME NEW U \in SUBSET T, U # T
      PROVE  /\ Table(Of(U), U, s, step)
             /\ \A g : Table(g, U, s, step) => g = Of(U)
  BY <1>1
<1> HIDE DEF Of
<1>2. ASSUME NEW V \in SUBSET T, V # {}
      PROVE  Pick(V) \in V
  BY <1>2 DEF Pick
<1>3. ASSUME NEW h, NEW W \in SUBSET T, Table(h, W, s, step), NEW V \in SUBSET W
      PROVE  h[V] = After(V)
  <2>1. h[V] = IF V = {} THEN s ELSE step[Pick(V)][h[V \ {Pick(V)}]] BY <1>3 DEF Table
  <2>2. CASE V = {} BY <2>1, <2>2
  <2>3. CASE V # {}
    <3> DEFINE D == V \ {Pick(V)}
               r == [X \in SUBSET D |-> h[X]]
    <3>1. D \in SUBSET T /\ D # T BY <1>2, <2>3
    <3>2. Table(r, D, s, step) BY <1>3, TableBelow
    <3>3. r = Of(D) BY <1>1, <3>1, <3>2
    <3>4. r[D] = h[D] OBVIOUS
    <3> QED BY <2>1, <2>3, <3>3, <3>4
  <2> QED BY <2>2, <2>3
<1>4. Table(F, T, s, step)
  <2> SUFFICES ASSUME NEW V \in SUBSET T, V # {}
               PROVE  Of(V \ {Pick(V)})[V \ {Pick(V)}] = F[V \ {Pick(V)}]
    <3>1. \A V \in SUBSET T : F[V] = IF V = {} THEN s ELSE step[Pick(V)][F[V \ {Pick(V)}]]
      OBVIOUS
    <3> QED BY <3>1 DEF Table
  <2> DEFINE D == V \ {Pick(V)}
  <2>1. D \in SUBSET T /\ D # T BY <1>2
  <2>2. Table(Of(D), D, s, step) BY <1>1, <2>1
  <2>3. Of(D)[D] = After(D) BY <1>3, <2>1, <2>2
  <2>4. F[D] = After(D) BY <2>1
  <2> QED BY <2>3, <2>4
<1>5. ASSUME NEW g, Table(g, T, s, step) PROVE g = F
  <2>1. \A V \in SUBSET T : g[V] = F[V] BY <1>3, <1>5
  <2>2. g = [V \in SUBSET T |-> g[V]] BY <1>5 DEF Table
  <2> QED BY <2>1, <2>2
<1> QED BY <1>4, <1>5

\* The recursive function behind ForEach exists.
LEMMA TableExists ==
  ASSUME NEW S, IsFiniteSet(S), NEW s, NEW step
  PROVE  \E f : Table(f, S, s, step)
<1> DEFINE One(T) == \E f : Table(f, T, s, step) /\ \A g : Table(g, T, s, step) => g = f
           Bad    == {T \in SUBSET S : ~One(T)}
<1>1. IsWellFoundedOn(StrictSubsetOrdering(S), SUBSET S)
  BY FS_FiniteSubsetsOfFinite, FS_StrictSubsetOrderingWellFounded
<1>2. SUFFICES ASSUME Bad # {} PROVE FALSE
  <2> HIDE DEF One
  <2>1. One(S) BY <1>2
  <2> QED BY <2>1 DEF One
<1>3. PICK T \in Bad : \A U \in Bad : <<U, T>> \notin StrictSubsetOrdering(S)
  <2> HIDE DEF Bad
  <2>1. Bad \subseteq SUBSET S BY DEF Bad
  <2> QED BY <1>1, <1>2, <2>1, WFMin
<1>4. ASSUME NEW U \in SUBSET T, U # T PROVE One(U)
  BY <1>3, <1>4 DEF StrictSubsetOrdering
<1>5. One(T) BY <1>4, TableOne
<1> QED BY <1>5

\* A loop over S ends in Q[S] when its start is in Q[{}] and the step for an
\* element e leads from Q[T] to Q[T \cup {e}].
LEMMA ForEachReaches ==
  ASSUME NEW S, IsFiniteSet(S), NEW s, NEW step, NEW Q, s \in Q[{}],
         \A T \in SUBSET S : \A e \in S \ T : \A t \in Q[T] : step[e][t] \in Q[T \cup {e}]
  PROVE  ForEach(S, s, step) \in Q[S]
<1> DEFINE f == CHOOSE f : Table(f, S, s, step)
           Bad == {T \in SUBSET S : f[T] \notin Q[T]}
<1>1. Table(f, S, s, step) BY TableExists
<1>2. ForEach(S, s, step) = f[S] BY DEF ForEach, MapThenFoldSet, Table, Pick
<1> HIDE DEF f
<1>3. \A T \in SUBSET S : f[T] = IF T = {} THEN s ELSE step[Pick(T)][f[T \ {Pick(T)}]]
  BY <1>1 DEF Table
<1>4. IsWellFoundedOn(StrictSubsetOrdering(S), SUBSET S)
  BY FS_FiniteSubsetsOfFinite, FS_StrictSubsetOrderingWellFounded
<1>5. ASSUME NEW T \in SUBSET S, \A U \in SUBSET T : U # T => f[U] \in Q[U]
      PROVE  f[T] \in Q[T]
  <2>1. CASE T = {} BY <1>3, <2>1
  <2>2. CASE T # {}
    <3> DEFINE e == Pick(T)
    <3>1. e \in T BY <2>2 DEF Pick
    <3> HIDE DEF e
    <3>2. f[T \ {e}] \in Q[T \ {e}] BY <1>5, <3>1
    <3>3. (T \ {e}) \cup {e} = T BY <3>1
    <3>4. step[e][f[T \ {e}]] \in Q[T] BY <3>1, <3>2, <3>3
    <3> QED BY <1>3, <2>2, <3>4 DEF e
  <2> QED BY <2>1, <2>2
<1>6. Bad = {}
  <2> SUFFICES ASSUME Bad # {} PROVE FALSE OBVIOUS
  <2>1. PICK T \in Bad : \A U \in Bad : <<U, T>> \notin StrictSubsetOrdering(S)
    <3>1. Bad \subseteq SUBSET S OBVIOUS
    <3> HIDE DEF Bad
    <3> QED BY <1>4, <3>1, WFMin
  <2>2. \A U \in SUBSET T : U # T => f[U] \in Q[U] BY <2>1 DEF StrictSubsetOrdering
  <2> QED BY <1>5, <2>2
<1> QED BY <1>2, <1>6

\* A loop whose steps stay in P ends there.
LEMMA ForEachKeeps ==
  ASSUME NEW S, IsFiniteSet(S), NEW P, NEW s \in P, NEW step,
         \A e \in S, t \in P : step[e][t] \in P
  PROVE  ForEach(S, s, step) \in P
<1> DEFINE Q == [T \in SUBSET S |-> P]
<1>1. s \in Q[{}] OBVIOUS
<1>2. \A T \in SUBSET S : \A e \in S \ T : \A t \in Q[T] : step[e][t] \in Q[T \cup {e}] OBVIOUS
<1>3. Q[S] = P OBVIOUS
<1> HIDE DEF Q
<1> QED BY <1>1, <1>2, <1>3, ForEachReaches

LEMMA RestoreShowDesktopFocusRefocuses ==
  ASSUME NEW s \in State
  PROVE  Refocused(s, RestoreShowDesktopFocus(s))
<1> DEFINE step == [seat \in Seats |-> [t \in State |->
                      IF t.act[seat] \in t.capF THEN SetKeyboardFocus(t, seat, t.act[seat]) ELSE t]]
           P == {t \in State : Refocused(s, t)}
<1>1. s \in P BY DEF Refocused, Still, Same
<1>2. ASSUME NEW seat \in Seats, NEW t \in P PROVE step[seat][t] \in P
  <2>1. CASE t.act[seat] \in t.capF
    <3>1. Refocused(t, SetKeyboardFocus(t, seat, t.act[seat]))
      BY <2>1, SetKeyboardFocusRefocuses
    <3>2. Refocused(s, SetKeyboardFocus(t, seat, t.act[seat])) BY <3>1, RefocusedAgain
    <3> QED BY <2>1, <3>2 DEF Refocused
  <2>2. CASE t.act[seat] \notin t.capF BY <2>2
  <2> QED BY <2>1, <2>2
<1> HIDE DEF step, P
<1>3. ForEach(Seats, s, step) \in P BY <1>1, <1>2, ForEachKeeps, FocusAssumption
<1> QED BY <1>3 DEF P, step, RestoreShowDesktopFocus

-----------------------------------------------------------------------------
(* The inductive invariant, also in the middle of a handler: X holds the     *)
(* surfaces that are losing or gaining a capability, N windows that have     *)
(* left the history for good, D what the primary seat has let go of; b is    *)
(* FALSE while its activated window is not told yet.                         *)

\* A window can be active when it is mapped and not minimized; what takes the
\* keyboard is mapped, and can be active if it is a window; a window that can be
\* active and accepts the keyboard can be focused.
Capable(s, X) ==
  /\ s.capA \subseteq s.mapped \ s.min
  /\ (s.mapped \cap Windows) \ s.min \subseteq s.capA \cup X
  /\ s.capF \cap Windows \subseteq s.capA \cup X
  /\ s.capF \ Windows \subseteq s.mapped \cup X
  /\ s.capA \ s.mute \subseteq s.capF \cup X

\* What has the keyboard, or is activated, has the capability for it.
Focused(s, X) ==
  \A q \in Seats : /\ s.kf[q] \in {None} \cup X \cup s.capA \cup (s.capF \ Windows)
                   /\ s.act[q] \in {None} \cup X \cup s.capA

Remembered(s, N) ==
  /\ Elems(s.hist) \subseteq s.capA \ N
  /\ ShellV2 \/ Elems(s.hist) \cap s.mute = {}

Told(s, D, b) ==
  /\ s.act[Primary] \notin D
  /\ b => s.act[Primary] \in s.flag \cup {None}

Ok(s, X, N, D, b) ==
  s \in State /\ Capable(s, X) /\ Focused(s, X) /\ Remembered(s, N) /\ Told(s, D, b)

LEMMA RecencyType ==
  ASSUME NEW r \in SUBSET (Windows \X Windows), NEW w \in Windows, NEW x
  PROVE  /\ Push(r, w) \in SUBSET (Windows \X Windows)
         /\ Elems(Push(r, w)) = Elems(r) \cup {w}
         /\ Drop(r, {x}) \in SUBSET (Windows \X Windows)
         /\ Elems(Drop(r, {x})) = Elems(r) \ {x}
BY DEF Push, Stack, Drop, Elems

LEMMA LatestElem ==
  ASSUME NEW r
  PROVE  Latest(r) \in Elems(r) \cup {None}
BY DEF Latest, Foremost

LEMMA RefocusedOk ==
  ASSUME NEW s, NEW X, NEW N, NEW D, NEW b, Ok(s, X, N, D, b), NEW t, Refocused(s, t)
  PROVE  Ok(t, X, N, D, b)
<1>1. Capable(t, X) BY DEF Ok, Capable, Refocused, Still, Same
<1>2. Focused(t, X) BY DEF Ok, Capable, Focused, Refocused, Still, Same
<1>3. Remembered(t, N) BY DEF Ok, Remembered, Refocused, Still, Same
<1>4. Told(t, D, b) BY DEF Ok, Told, Refocused, Still, Same
<1> QED BY <1>1, <1>2, <1>3, <1>4 DEF Ok, Refocused

\* A state that agrees on the fields the invariant is about.
LEMMA AlikeOk ==
  ASSUME NEW s, NEW X, NEW N, NEW D, NEW b, Ok(s, X, N, D, b),
         NEW t \in State, Alike(s, t)
  PROVE  Ok(t, X, N, D, b)
<1>1. Capable(t, X) BY DEF Ok, Capable, Alike
<1>2. Focused(t, X) BY DEF Ok, Focused, Alike
<1>3. Remembered(t, N) BY DEF Ok, Remembered, Alike
<1>4. Told(t, D, b) BY DEF Ok, Told, Alike
<1> QED BY <1>1, <1>2, <1>3, <1>4 DEF Ok

LEMMA UnflagOk ==
  ASSUME NEW s, NEW X, NEW N, NEW D, NEW b, Ok(s, X, N, D, b), NEW seat \in Seats
  PROVE  LET t == Unflag(s, seat)
         IN  /\ Ok(t, X, N, D, b /\ seat # Primary)
             /\ Same(s, t) /\ t.kf = s.kf /\ t.act = s.act /\ t.hist = s.hist
<1> DEFINE t == Unflag(s, seat)
<1>1. /\ t \in State /\ Same(s, t) /\ t.kf = s.kf /\ t.act = s.act /\ t.hist = s.hist
      /\ seat # Primary => t.flag = s.flag
  BY DEF Ok, State, Unflag, Same
<1> HIDE DEF t
<1>2. Capable(t, X) /\ Focused(t, X) /\ Remembered(t, N)
  BY <1>1 DEF Ok, Capable, Focused, Remembered, Same
<1>3. Told(t, D, b /\ seat # Primary) BY <1>1 DEF Ok, Told
<1> QED BY <1>1, <1>2, <1>3 DEF Ok, t

LEMMA DeactivateOk ==
  ASSUME NEW s, NEW X, NEW N, NEW D, NEW b, Ok(s, X, N, D, b), NEW seat \in Seats, None \notin D
  PROVE  LET t == Deactivate(s, seat)
         IN  /\ Ok(t, X, N, D, b)
             /\ Same(s, t) /\ t.kf = s.kf /\ t.hist = s.hist
             /\ t.act = [s.act EXCEPT ![seat] = None]
<1> DEFINE u == Unflag(s, seat)
           t == Deactivate(s, seat)
<1>1. /\ Ok(u, X, N, D, b /\ seat # Primary)
      /\ Same(s, u) /\ u.kf = s.kf /\ u.act = s.act /\ u.hist = s.hist
  BY UnflagOk
<1>2. u \in State BY <1>1 DEF Ok
<1> HIDE DEF u
<1>3. /\ t \in State /\ Same(u, t) /\ t.kf = u.kf /\ t.hist = u.hist /\ t.flag = u.flag
      /\ t.act = [u.act EXCEPT ![seat] = None]
  BY <1>2 DEF State, Deactivate, Same, u
<1> HIDE DEF t
<1>4. \A q \in Seats : t.act[q] = IF q = seat THEN None ELSE u.act[q]
  BY <1>2, <1>3 DEF State
<1>5. Capable(t, X) /\ Focused(t, X) /\ Remembered(t, N)
  BY <1>1, <1>3, <1>4 DEF Ok, Capable, Focused, Remembered, Same
<1>6. Told(t, D, b) BY <1>1, <1>3, <1>4, FocusAssumption DEF Ok, Told
<1> QED BY <1>1, <1>3, <1>5, <1>6 DEF Ok, t, Same

\* The primary seat has let go of everything once it has nothing activated.
LEMMA InactiveOk ==
  ASSUME NEW s, NEW X, NEW N, NEW D, NEW b, Ok(s, X, N, D, b), s.act[Primary] = None,
         NEW E, None \notin E
  PROVE  Ok(s, X, N, E, b)
BY DEF Ok, Told

LEMMA EnterOk ==
  ASSUME NEW s, NEW X, NEW N, NEW D, NEW b, NEW seat \in Seats, NEW x,
         Ok(s, X, N, D, b /\ seat # Primary), x \in s.capA \ (s.mute \cup N), D \subseteq N
  PROVE  LET t == Enter(s, seat, x)
         IN  Ok(t, X, N, D, b) /\ Same(s, t) /\ t.kf = s.kf
<1> DEFINE t == Enter(s, seat, x)
<1>0. x \in Windows /\ s \in State BY DEF Ok, State
<1>1. s.hist \in SUBSET (Windows \X Windows) BY <1>0 DEF State
<1>p. /\ Push(s.hist, x) \in SUBSET (Windows \X Windows)
      /\ Elems(Push(s.hist, x)) = Elems(s.hist) \cup {x}
  BY <1>0, <1>1, RecencyType
<1>2. /\ t \in State /\ Same(s, t) /\ t.kf = s.kf
      /\ t.hist = Push(s.hist, x) /\ t.act = [s.act EXCEPT ![seat] = x]
      /\ t.flag = IF seat = Primary THEN s.flag \cup {x} ELSE s.flag
  BY <1>0, <1>p DEF State, Enter, Same
<1> HIDE DEF t
<1>3. \A q \in Seats : t.act[q] = IF q = seat THEN x ELSE s.act[q]
  BY <1>0, <1>2 DEF State
<1>4. Elems(t.hist) = Elems(s.hist) \cup {x} BY <1>p, <1>2
<1>5. Capable(t, X) /\ Focused(t, X)
  BY <1>2, <1>3 DEF Ok, Capable, Focused, Same
<1>6. Remembered(t, N) BY <1>2, <1>4 DEF Ok, Remembered, Same
<1>7. Told(t, D, b) BY <1>2, <1>3, FocusAssumption DEF Ok, Told
<1> QED BY <1>2, <1>5, <1>6, <1>7 DEF Ok, t

LEMMA PushOk ==
  ASSUME NEW s, NEW X, NEW N, NEW D, NEW b, Ok(s, X, N, D, b),
         NEW x, x \in s.capA \ (s.mute \cup N)
  PROVE  LET t == [s EXCEPT !.hist = Push(@, x)]
         IN  Ok(t, X, N, D, b) /\ Same(s, t) /\ t.kf = s.kf
<1> DEFINE t == [s EXCEPT !.hist = Push(@, x)]
<1>1. x \in Windows /\ s \in State /\ s.hist \in SUBSET (Windows \X Windows) BY DEF Ok, State
<1>2. /\ Push(s.hist, x) \in SUBSET (Windows \X Windows)
      /\ Elems(Push(s.hist, x)) = Elems(s.hist) \cup {x}
  BY <1>1, RecencyType
<1>3. /\ t \in State /\ Same(s, t) /\ t.kf = s.kf /\ t.act = s.act /\ t.flag = s.flag
      /\ t.hist = Push(s.hist, x)
  BY <1>1, <1>2 DEF State, Same
<1> HIDE DEF t
<1>4. Capable(t, X) /\ Focused(t, X) /\ Told(t, D, b)
  BY <1>3 DEF Ok, Capable, Focused, Told, Same
<1>5. Remembered(t, N) BY <1>2, <1>3 DEF Ok, Remembered, Same
<1> QED BY <1>3, <1>4, <1>5 DEF Ok, t

LEMMA SetActivatedShownOk ==
  ASSUME NEW s, NEW X, NEW N, NEW D, NEW b, Ok(s, X, N, D, b), NEW seat \in Seats,
         NEW x, x \in {None} \cup (s.capA \ (s.mute \cup N)), D \subseteq N, None \notin N
  PROVE  LET t == SetActivatedShown(s, seat, x)
         IN  Ok(t, X, N, D, b) /\ Same(s, t)
<1>1. CASE s.act[seat] = x BY <1>1 DEF SetActivatedShown, Same
<1>2. CASE s.act[seat] # x /\ x = None
  <2>1. SetActivatedShown(s, seat, x) = Deactivate(s, seat) BY <1>2 DEF SetActivatedShown
  <2>2. None \notin D OBVIOUS
  <2>3. Ok(Deactivate(s, seat), X, N, D, b) /\ Same(s, Deactivate(s, seat))
    BY <2>2, DeactivateOk
  <2> QED BY <2>1, <2>3
<1>3. CASE s.act[seat] # x /\ x # None
  <2> DEFINE u == Unflag(s, seat)
  <2>1. SetActivatedShown(s, seat, x) = Enter(u, seat, x) BY <1>3 DEF SetActivatedShown
  <2>2. Ok(u, X, N, D, b /\ seat # Primary) /\ Same(s, u) BY UnflagOk
  <2>3. x \in u.capA \ (u.mute \cup N) BY <1>3, <2>2 DEF Same
  <2> HIDE DEF u
  <2>4. Ok(Enter(u, seat, x), X, N, D, b) /\ Same(u, Enter(u, seat, x))
    BY <2>2, <2>3, EnterOk
  <2> QED BY <2>1, <2>2, <2>4 DEF Same
<1> QED BY <1>1, <1>2, <1>3

\* activateSurface, whichever setActivatedSurface it uses.
LEMMA ActivatingOk ==
  ASSUME NEW s, NEW X, NEW N, NEW D, NEW b, Ok(s, X, N, D, b), NEW seat \in Seats,
         NEW x, x \notin N, NEW a,
         x \in {None} \cup (s.capA \ s.mute) => Ok(a, X, N, D, b)
  PROVE  LET t == Activating(s, seat, x, a)
         IN  /\ Ok(t, X, N, D, b)
             /\ Same(s, t) \/ (x \in {None} \cup (s.capA \ s.mute) /\ Same(a, t))
<1> DEFINE t == Activating(s, seat, x, a)
<1>1. CASE x \in s.mute BY <1>1 DEF Activating, Same
<1>2. CASE x \notin s.mute /\ x # None /\ Blocked(s)
  <2>1. t = [s EXCEPT !.hist = IF x \in s.capA THEN Push(@, x) ELSE @]
    BY <1>2 DEF Activating
  <2>2. CASE x \in s.capA
    <3>1. t = [s EXCEPT !.hist = Push(@, x)] BY <2>1, <2>2
    <3> QED BY <1>2, <2>2, <3>1, PushOk
  <2>3. CASE x \notin s.capA
    <3>1. t = s BY <2>1, <2>3 DEF Ok, State
    <3> QED BY <3>1 DEF Same
  <2> QED BY <2>2, <2>3
<1>3. CASE x \notin s.mute /\ ~(x # None /\ Blocked(s))
  <2> DEFINE u == IF x = None \/ x \in s.capA THEN a ELSE s
  <2>1. t = RequestKeyboardFocus(u, seat, x) BY <1>3 DEF Activating
  <2>2. /\ Ok(u, X, N, D, b)
        /\ Same(s, u) \/ (x \in {None} \cup (s.capA \ s.mute) /\ u = a)
    BY <1>3 DEF Same
  <2>3. u \in State BY <2>2 DEF Ok
  <2> HIDE DEF u, t
  <2>4. Refocused(u, t) BY <2>1, <2>3, RequestKeyboardFocusRefocuses
  <2>5. Ok(t, X, N, D, b) BY <2>2, <2>4, RefocusedOk
  <2>6. Same(u, t) BY <2>4 DEF Refocused, Still
  <2> QED BY <2>2, <2>5, <2>6 DEF Same, t
<1> QED BY <1>1, <1>2, <1>3

LEMMA ActivateShownOk ==
  ASSUME NEW s, NEW X, NEW N, NEW D, NEW b, Ok(s, X, N, D, b), NEW seat \in Seats,
         NEW x, x \notin N, D \subseteq N, None \notin N
  PROVE  LET t == ActivateShown(s, seat, x)
         IN  Ok(t, X, N, D, b) /\ Same(s, t)
<1> DEFINE a == SetActivatedShown(s, seat, x)
<1>1. x \in {None} \cup (s.capA \ s.mute) => Ok(a, X, N, D, b) /\ Same(s, a)
  BY SetActivatedShownOk
<1> HIDE DEF a
<1>2. LET t == Activating(s, seat, x, a)
      IN  /\ Ok(t, X, N, D, b)
          /\ Same(s, t) \/ (x \in {None} \cup (s.capA \ s.mute) /\ Same(a, t))
  BY <1>1, ActivatingOk
<1> QED BY <1>1, <1>2 DEF ActivateShown, Same, a

LEMMA ReleaseOk ==
  ASSUME NEW s, NEW X, NEW N, NEW D, NEW b, Ok(s, X, N, D, b), NEW seat \in Seats, NEW x \in Surfaces
  PROVE  LET t == Release(s, seat, x)
         IN  /\ Ok(t, X, N, D, b) /\ Still(s, t)
             /\ \A q \in Seats : t.kf[q] \in {s.kf[q], None}
             /\ t.kf[seat] # x
<1>0. s \in State /\ x # None BY FocusAssumption DEF Ok
<1>1. CASE s.kf[seat] = x
  <2> DEFINE t == RequestKeyboardFocus(s, seat, None)
  <2>1. Refocused(s, t) /\ (\A q \in Seats : t.kf[q] \in {s.kf[q], None}) /\ t.kf[seat] = None
    BY <1>0, RequestKeyboardFocusRefocuses
  <2>2. Release(s, seat, x) = t BY <1>1 DEF Release
  <2> HIDE DEF t
  <2> QED BY <1>0, <2>1, <2>2, RefocusedOk DEF Refocused
<1>2. CASE s.kf[seat] # x BY <1>2 DEF Release, Still, Same
<1> QED BY <1>1, <1>2

LEMMA LetGoOk ==
  ASSUME NEW s, NEW X, NEW N, NEW D, NEW b, Ok(s, X, N, D, b), NEW seat \in Seats,
         NEW x \in Surfaces, None \notin D
  PROVE  LET t == LetGo(s, seat, x)
         IN  /\ Ok(t, X, N, D, b) /\ Same(s, t)
             /\ \A q \in Seats : t.kf[q] \in {s.kf[q], None} /\ t.act[q] \in {s.act[q], None}
             /\ t.kf[seat] # x /\ t.act[seat] # x
<1> DEFINE u == IF x \in {s.act[seat], s.kf[seat]} THEN Deactivate(s, seat) ELSE s
           t == Release(u, seat, x)
<1>0. s \in State /\ x # None BY FocusAssumption DEF Ok
<1>1. /\ Ok(u, X, N, D, b) /\ Same(s, u) /\ u.kf = s.kf
      /\ \A q \in Seats : u.act[q] \in {s.act[q], None}
      /\ u.act[seat] # x
  <2>1. CASE x \in {s.act[seat], s.kf[seat]}
    <3>1. /\ Ok(Deactivate(s, seat), X, N, D, b)
          /\ Same(s, Deactivate(s, seat)) /\ Deactivate(s, seat).kf = s.kf
          /\ Deactivate(s, seat).act = [s.act EXCEPT ![seat] = None]
      BY DeactivateOk
    <3> QED BY <1>0, <2>1, <3>1 DEF State
  <2>2. CASE x \notin {s.act[seat], s.kf[seat]} BY <2>2 DEF Same
  <2> QED BY <2>1, <2>2
<1> HIDE DEF u
<1>2. /\ Ok(t, X, N, D, b) /\ Still(u, t)
      /\ \A q \in Seats : t.kf[q] \in {u.kf[q], None}
      /\ t.kf[seat] # x
  BY <1>1, ReleaseOk
<1> HIDE DEF t
<1>3. LetGo(s, seat, x) = t BY DEF LetGo, t, u
<1> QED BY <1>1, <1>2, <1>3 DEF Still, Same

\* onSurfaceInactivationRequested, whichever activateSurface it uses: every seat
\* lets go of x.
LEMMA InactivatingOk ==
  ASSUME NEW s, NEW X, NEW N, NEW D, NEW b, Ok(s, X, N, D, b), NEW x \in Surfaces,
         None \notin D, NEW f,
         s.kf[Primary] = x => Ok(f, X, N, D, b) /\ f.act[Primary] # x
  PROVE  LET t == Inactivating(s, x, f)
         IN  /\ Ok(t, X, N, D, b)
             /\ Without(t, x)
             /\ \/ Same(s, t) /\ Dims(s, t)
                \/ s.kf[Primary] = x /\ Same(f, t) /\ Dims(f, t)
<1> DEFINE step == [seat \in Seats |-> [t \in State |-> LetGo(t, seat, x)]]
           u == IF s.kf[Primary] = x THEN Release(f, Primary, x) ELSE LetGo(s, Primary, x)
           S == Seats \ {Primary}
           Free(t, T) == \A q \in T \cup {Primary} : t.kf[q] # x /\ t.act[q] # x
           Q == [T \in SUBSET S |-> {t \in State : /\ Ok(t, X, N, D, b) /\ Same(u, t) /\ Dims(u, t)
                                                   /\ Free(t, T)}]
<1>0. Primary \in Seats /\ x # None /\ IsFiniteSet(S)
  BY FocusAssumption, FS_Difference
<1>1. /\ Ok(u, X, N, D, b) /\ u.kf[Primary] # x /\ u.act[Primary] # x
      /\ \/ Same(s, u) /\ Dims(s, u)
         \/ s.kf[Primary] = x /\ Same(f, u) /\ Dims(f, u)
  <2>1. CASE s.kf[Primary] = x
    <3>1. /\ Ok(Release(f, Primary, x), X, N, D, b) /\ Still(f, Release(f, Primary, x))
          /\ \A q \in Seats : Release(f, Primary, x).kf[q] \in {f.kf[q], None}
          /\ Release(f, Primary, x).kf[Primary] # x
      BY <1>0, <2>1, ReleaseOk
    <3> QED BY <2>1, <3>1 DEF Still, Dims
  <2>2. CASE s.kf[Primary] # x
    <3>1. /\ Ok(LetGo(s, Primary, x), X, N, D, b) /\ Same(s, LetGo(s, Primary, x))
          /\ \A q \in Seats : LetGo(s, Primary, x).kf[q] \in {s.kf[q], None}
          /\ LetGo(s, Primary, x).kf[Primary] # x /\ LetGo(s, Primary, x).act[Primary] # x
      BY <1>0, LetGoOk
    <3> QED BY <2>2, <3>1 DEF Dims
  <2> QED BY <2>1, <2>2
<1> HIDE DEF u
<1>2. u \in Q[{}] BY <1>1 DEF Ok, Same, Dims
<1>3. ASSUME NEW T \in SUBSET S, NEW seat \in S \ T, NEW t \in Q[T]
      PROVE  step[seat][t] \in Q[T \cup {seat}]
  <2>1. t \in State /\ Ok(t, X, N, D, b) /\ Same(u, t) /\ Dims(u, t) /\ Free(t, T)
    OBVIOUS
  <2> DEFINE v == LetGo(t, seat, x)
  <2>2. /\ Ok(v, X, N, D, b) /\ Same(t, v)
        /\ \A q \in Seats : v.kf[q] \in {t.kf[q], None} /\ v.act[q] \in {t.act[q], None}
        /\ v.kf[seat] # x /\ v.act[seat] # x
    BY <2>1, LetGoOk
  <2>3. step[seat][t] = v BY <2>1
  <2> HIDE DEF v
  <2>4. Same(u, v) /\ Dims(u, v) BY <2>1, <2>2 DEF Same, Dims
  <2>5. Free(v, T \cup {seat}) BY <1>0, <2>1, <2>2
  <2>6. v \in State BY <2>2 DEF Ok
  <2>7. T \cup {seat} \in SUBSET S OBVIOUS
  <2> QED BY <2>2, <2>3, <2>4, <2>5, <2>6, <2>7
<1> HIDE DEF step, Q
<1>4. ForEach(S, u, step) \in Q[S] BY <1>0, <1>2, <1>3, ForEachReaches
<1>5. Inactivating(s, x, f) = ForEach(S, u, step) BY DEF Inactivating, u, step
<1> HIDE DEF S
<1>6. /\ Ok(Inactivating(s, x, f), X, N, D, b) /\ Same(u, Inactivating(s, x, f))
      /\ Dims(u, Inactivating(s, x, f)) /\ Free(Inactivating(s, x, f), S)
  BY <1>4, <1>5 DEF Q
<1>7. \A q \in Seats : q \in S \cup {Primary} BY DEF S
<1>8. Without(Inactivating(s, x, f), x) BY <1>6, <1>7 DEF Without
<1> QED BY <1>1, <1>6, <1>8 DEF Same, Dims

LEMMA ForgetFields ==
  ASSUME NEW s \in State, NEW x
  PROVE  LET t == Forget(s, x)
         IN  /\ t \in State /\ Same(s, t) /\ t.kf = s.kf /\ t.act = s.act /\ t.flag = s.flag
             /\ Elems(t.hist) = Elems(s.hist) \ {x}
<1>1. s.hist \in SUBSET (Windows \X Windows) BY DEF State
<1>2. /\ Drop(s.hist, {x}) \in SUBSET (Windows \X Windows)
      /\ Elems(Drop(s.hist, {x})) = Elems(s.hist) \ {x}
  BY <1>1, RecencyType DEF Drop, Elems
<1> QED BY <1>2 DEF Forget, State, Same

\* x is about to be let go of: only the history may still name it.
Parting(s, X, N, D, b, x) ==
  /\ s \in State /\ Capable(s, X) /\ Focused(s, X) /\ Told(s, D, b)
  /\ Elems(s.hist) \ {x} \subseteq s.capA \ N
  /\ ShellV2 \/ (Elems(s.hist) \ {x}) \cap s.mute = {}

LEMMA ForgetOk ==
  ASSUME NEW s, NEW X, NEW N, NEW D, NEW b, NEW x, Parting(s, X, N, D, b, x)
  PROVE  /\ Ok(Forget(s, x), X, N \cup {x}, D, b) /\ Same(s, Forget(s, x))
         /\ Forget(s, x).kf = s.kf
<1> DEFINE t == Forget(s, x)
<1>1. /\ t \in State /\ Same(s, t) /\ t.kf = s.kf /\ t.act = s.act /\ t.flag = s.flag
      /\ Elems(t.hist) = Elems(s.hist) \ {x}
  BY ForgetFields DEF Parting
<1> HIDE DEF t
<1>2. Capable(t, X) /\ Focused(t, X) /\ Told(t, D, b)
  BY <1>1 DEF Parting, Capable, Focused, Told, Same
<1>3. Remembered(t, N \cup {x}) BY <1>1 DEF Parting, Remembered, Same
<1> QED BY <1>1, <1>2, <1>3 DEF Ok, t

\* Nothing of a window is left to the primary seat after the deactivation that
\* precedes the fallback.
LEMMA FallbackOk ==
  ASSUME NEW s, NEW X, NEW N, NEW D, NEW b, Ok(s, X, N, D, b), NEW E,
         None \notin D, None \notin E
  PROVE  LET t == Deactivate(s, Primary)
         IN  /\ Ok(t, X, N, E, b) /\ Same(s, t) /\ t.hist = s.hist
             /\ t.kf = s.kf /\ t.act[Primary] = None
<1> DEFINE t == Deactivate(s, Primary)
<1>1. /\ Ok(t, X, N, D, b) /\ Same(s, t) /\ t.hist = s.hist /\ t.kf = s.kf
      /\ t.act = [s.act EXCEPT ![Primary] = None]
  BY DeactivateOk, FocusAssumption
<1>2. t.act[Primary] = None BY <1>1, FocusAssumption DEF Ok, State
<1> QED BY <1>1, <1>2, InactiveOk

\* D grows by x when no seat has x.
LEMMA LetGoneOk ==
  ASSUME NEW s, NEW X, NEW N, NEW D, NEW b, Ok(s, X, N, D, b), NEW E, E \subseteq D
  PROVE  Ok(s, X, N, E, b)
BY DEF Ok, Told

LEMMA InactivationShownOk ==
  ASSUME NEW s, NEW X, NEW N, NEW D, NEW b, NEW x \in Surfaces, Parting(s, X, N, D, b, x),
         D \subseteq N, None \notin N
  PROVE  LET t == InactivationShown(s, x)
         IN  /\ Ok(t, X, N \cup {x}, D, b) /\ Same(s, t)
             /\ Without(t, x)
<1> DEFINE u == Forget(s, x)
           d == Deactivate(u, Primary)
           f == ActivateShown(d, Primary, Latest(u.hist))
           M == N \cup {x}
           E == D \cup {x}
<1>0. x # None /\ Primary \in Seats BY FocusAssumption
<1>1. Ok(u, X, M, D, b) /\ Same(s, u) BY ForgetOk
<1> HIDE DEF u
<1>2. Ok(d, X, M, E, b) /\ Same(u, d) BY <1>0, <1>1, FallbackOk
<1>3. Latest(u.hist) \notin M
  <2>1. Latest(u.hist) \in Elems(u.hist) \cup {None} BY LatestElem
  <2>2. Elems(u.hist) \cap M = {} BY <1>1 DEF Ok, Remembered
  <2> QED BY <1>0, <2>1, <2>2
<1> HIDE DEF d
<1>4. E \subseteq M /\ None \notin M /\ None \notin D BY <1>0
<1> HIDE DEF M, E
<1>5. Ok(f, X, M, E, b) /\ Same(d, f) BY <1>0, <1>2, <1>3, <1>4, ActivateShownOk
<1> HIDE DEF f
<1>6. Ok(f, X, M, D, b) /\ f.act[Primary] # x BY <1>5, LetGoneOk DEF E, Ok, Told
<1>7. LET t == Inactivating(u, x, f)
      IN  /\ Ok(t, X, M, D, b)
          /\ Without(t, x)
          /\ \/ Same(u, t) /\ Dims(u, t)
             \/ u.kf[Primary] = x /\ Same(f, t) /\ Dims(f, t)
  BY <1>1, <1>4, <1>6, InactivatingOk
<1>8. InactivationShown(s, x) = Inactivating(u, x, f) BY DEF InactivationShown, u, d, f
<1> QED BY <1>1, <1>2, <1>5, <1>7, <1>8 DEF Same, M

\* The focus capabilities become F, and the seats that have activated w are told.
WithCapF(s, w, F, y) ==
  LET t == [s EXCEPT !.capF = F]
  IN  IF s.capF = F \/ s.showing THEN t
      ELSE ForEach({seat \in Seats : s.act[seat] = w}, t,
                   [seat \in Seats |-> [u \in State |-> RequestKeyboardFocus(u, seat, y)]])

\* A window may lose or gain the focus capability.
MayLose(s, w, X) == w \notin s.capA \ (s.mute \cup X)
MayGain(s, w, X) == w \in s.capA \cup X

\* What changes with it.
Taken(s, t, w) ==
  /\ t.mapped = s.mapped /\ t.min = s.min /\ t.mute = s.mute /\ t.capA = s.capA
  /\ t.act = s.act /\ t.capF = s.capF \ {w} /\ t.showing = s.showing
  /\ \A q \in Seats : t.kf[q] \in {s.kf[q], None}
Given(s, t, w) ==
  /\ t.mapped = s.mapped /\ t.min = s.min /\ t.mute = s.mute /\ t.capA = s.capA
  /\ t.act = s.act /\ t.capF = s.capF \cup {w} /\ t.showing = s.showing
  /\ s.showing => t.kf = s.kf

LEMMA TakenSteady ==
  ASSUME NEW s, NEW t, NEW w, Taken(s, t, w)
  PROVE  Steady(s, t)
BY RecencyAssumption DEF Taken, Steady, KeepsOff, Grown

LEMMA GivenSteady ==
  ASSUME NEW s, NEW t, NEW w, Given(s, t, w)
  PROVE  Steady(s, t)
BY DEF Given, Steady, KeepsOff, Grown

LEMMA WithCapFOk ==
  ASSUME NEW s, NEW X, NEW N, NEW D, NEW b, Ok(s, X, N, D, b), NEW w \in Windows, NEW F, NEW y,
         \/ F = s.capF \ {w} /\ w \notin s.capA \ (s.mute \cup X)
         \/ F = s.capF \cup {w} /\ w \in s.capA \cup X
  PROVE  LET t == WithCapF(s, w, F, y)
         IN  /\ Ok(t, X, N, D, b)
             /\ t.mapped = s.mapped /\ t.min = s.min /\ t.mute = s.mute /\ t.capA = s.capA
             /\ t.act = s.act /\ t.capF = F /\ t.showing = s.showing
             /\ s.showing => t.kf = s.kf
             /\ \A q \in Seats : t.kf[q] \in {s.kf[q], None, y}
<1> DEFINE u == [s EXCEPT !.capF = F]
           S == {seat \in Seats : s.act[seat] = w}
           step == [seat \in Seats |-> [t \in State |-> RequestKeyboardFocus(t, seat, y)]]
           P == {t \in State : Refocused(u, t) /\ \A q \in Seats : t.kf[q] \in {u.kf[q], None, y}}
<1>0. F \subseteq Surfaces BY DEF Ok, State, Surfaces
<1>1. /\ u \in State /\ u.capF = F
      /\ u.mapped = s.mapped /\ u.min = s.min /\ u.mute = s.mute /\ u.capA = s.capA
      /\ u.act = s.act /\ u.hist = s.hist /\ u.flag = s.flag /\ u.kf = s.kf
      /\ u.showing = s.showing
  BY <1>0 DEF Ok, State
<1>2. \/ WithCapF(s, w, F, y) = u
      \/ WithCapF(s, w, F, y) = ForEach(S, u, step) /\ ~s.showing
  BY DEF WithCapF
<1> HIDE DEF u
<1>3. Ok(u, X, N, D, b)
  <2>1. Capable(u, X) BY <1>1 DEF Ok, Capable
  <2>2. Focused(u, X)
    <3> SUFFICES ASSUME NEW q \in Seats
                 PROVE  /\ s.kf[q] \in {None} \cup X \cup s.capA \cup (F \ Windows)
                        /\ s.act[q] \in {None} \cup X \cup s.capA
      BY <1>1 DEF Focused
    <3>1. s.capF \ Windows \subseteq F \ Windows OBVIOUS
    <3> QED BY <3>1 DEF Ok, Focused
  <2>3. Remembered(u, N) /\ Told(u, D, b) BY <1>1 DEF Ok, Remembered, Told
  <2> QED BY <1>1, <2>1, <2>2, <2>3 DEF Ok
<1>4. u \in P BY <1>1 DEF Refocused, Still, Same
<1>5. ASSUME NEW seat \in S, NEW t \in P PROVE step[seat][t] \in P
  <2> DEFINE v == RequestKeyboardFocus(t, seat, y)
  <2>1. Refocused(t, v) /\ \A q \in Seats : v.kf[q] \in {t.kf[q], None, y}
    BY RequestKeyboardFocusRefocuses
  <2>2. step[seat][t] = v OBVIOUS
  <2> HIDE DEF v
  <2>3. Refocused(u, v) BY <2>1, RefocusedAgain
  <2>4. v \in State BY <2>1 DEF Refocused
  <2> QED BY <2>1, <2>2, <2>3, <2>4
<1>6. IsFiniteSet(S) BY FocusAssumption, FS_Subset
<1> HIDE DEF step, P, S
<1>7. ForEach(S, u, step) \in P BY <1>4, <1>5, <1>6, ForEachKeeps
<1>8. ASSUME NEW t \in P
      PROVE  /\ Ok(t, X, N, D, b)
             /\ t.mapped = s.mapped /\ t.min = s.min /\ t.mute = s.mute /\ t.capA = s.capA
             /\ t.act = s.act /\ t.capF = F /\ t.showing = s.showing
             /\ \A q \in Seats : t.kf[q] \in {s.kf[q], None, y}
  <2>1. Refocused(u, t) /\ \A q \in Seats : t.kf[q] \in {u.kf[q], None, y} BY DEF P
  <2>2. Ok(t, X, N, D, b) BY <1>3, <2>1, RefocusedOk
  <2> QED BY <1>1, <2>1, <2>2 DEF Refocused, Still, Same
<1> QED BY <1>1, <1>2, <1>4, <1>7, <1>8

LEMMA DropFocusCapabilityOk ==
  ASSUME NEW s, NEW X, NEW N, NEW D, NEW b, Ok(s, X, N, D, b), NEW w \in Windows,
         MayLose(s, w, X)
  PROVE  LET t == SetFocusCapability(s, w, FALSE)
         IN  Ok(t, X, N, D, b) /\ Taken(s, t, w)
<1>1. [s EXCEPT !.capF = @ \ {w}].capF = s.capF \ {w} BY DEF Ok, State
<1>2. SetFocusCapability(s, w, FALSE) = WithCapF(s, w, s.capF \ {w}, None)
  BY <1>1 DEF SetFocusCapability, WithCapF
<1> DEFINE F == s.capF \ {w}
           t == WithCapF(s, w, F, None)
<1>3. F = s.capF \ {w} /\ w \notin s.capA \ (s.mute \cup X) BY DEF F, MayLose
<1> HIDE DEF F
<1>4. /\ Ok(t, X, N, D, b)
      /\ t.mapped = s.mapped /\ t.min = s.min /\ t.mute = s.mute /\ t.capA = s.capA
      /\ t.act = s.act /\ t.capF = F /\ t.showing = s.showing
      /\ \A q \in Seats : t.kf[q] \in {s.kf[q], None, None}
  BY <1>3, WithCapFOk
<1> HIDE DEF t
<1>5. SetFocusCapability(s, w, FALSE) = t BY <1>2 DEF t, F
<1> QED BY <1>4, <1>5 DEF F, Taken

LEMMA UpdateVisibleOk ==
  ASSUME NEW s, NEW X, NEW N, NEW D, NEW b, Ok(s, X, N, D, b), NEW w \in Windows
  PROVE  /\ Ok(UpdateVisible(s, w), X, N, D, b) /\ Same(s, UpdateVisible(s, w))
         /\ UpdateVisible(s, w).kf = s.kf
<1> DEFINE t == UpdateVisible(s, w)
<1>1. t \in State /\ Alike(s, t) /\ Same(s, t) /\ t.kf = s.kf
  BY DEF Ok, State, UpdateVisible, Alike, Same
<1> HIDE DEF t
<1> QED BY <1>1, AlikeOk DEF t

\* Larger contexts say less.
LEMMA OkWider ==
  ASSUME NEW s, NEW X, NEW N, NEW D, NEW b, Ok(s, X, N, D, b), NEW Y, X \subseteq Y
  PROVE  Ok(s, Y, N, D, b)
BY DEF Ok, Capable, Focused

\* A window that cannot be active, and that no seat has, is out of transition.
LEMMA OkGone ==
  ASSUME NEW s, NEW X, NEW N, NEW D, NEW b, NEW w, Ok(s, X \cup {w}, N \cup {w}, D, b),
         w \notin s.mapped \ s.min, w \notin s.capF,
         Without(s, w)
  PROVE  Ok(s, X, N, D, b)
<1>1. Capable(s, X) BY DEF Ok, Capable
<1>2. Focused(s, X) BY DEF Ok, Focused, Without
<1>3. Remembered(s, N) BY DEF Ok, Remembered
<1> QED BY <1>1, <1>2, <1>3 DEF Ok

Kept(s, t) == /\ t.mapped = s.mapped /\ t.min = s.min /\ t.mute = s.mute
              /\ t.capA = s.capA /\ t.capF \ Windows = s.capF \ Windows
              /\ t.showing = s.showing

\* Minimizing or unmapping a window that can be active, whichever handler lets go
\* of it.
LEMMA LosingActiveOk ==
  ASSUME NEW s, NEW X, NEW N, NEW D, NEW b, NEW w \in Windows, w \in s.capA, NEW a,
         Ok(a, X \cup {w}, N \cup {w}, D, b), w \notin a.mapped \ a.min,
         Without(a, w)
  PROVE  LET t == Losing(s, w, a)
         IN  /\ Ok(t, X, N, D, b)
             /\ Kept(a, t) /\ Steady(a, t)
<1> DEFINE v == SetFocusCapability(a, w, FALSE)
           t == UpdateVisible(v, w)
<1>0. MayLose(a, w, X \cup {w}) BY DEF MayLose
<1>1. Losing(s, w, a) = t BY DEF Losing
<1>2. Ok(v, X \cup {w}, N \cup {w}, D, b) /\ Taken(a, v, w) BY <1>0, DropFocusCapabilityOk
<1> HIDE DEF v
<1>3. w \notin v.mapped \ v.min /\ w \notin v.capF BY <1>2 DEF Taken
<1>4. w # None BY RecencyAssumption
<1>5. Without(v, w) BY <1>2, <1>4 DEF Without, Taken
<1>6. Ok(v, X, N, D, b) BY <1>2, <1>3, <1>5, OkGone
<1>7. Ok(t, X, N, D, b) /\ Same(v, t) /\ t.kf = v.kf BY <1>6, UpdateVisibleOk
<1> HIDE DEF t
<1>8. Steady(a, v) BY <1>2, TakenSteady
<1>9. Steady(v, t) BY <1>7, SameSteady DEF Same
<1>10. Steady(a, t) BY <1>8, <1>9, SteadyAgain
<1> QED BY <1>1, <1>2, <1>7, <1>10 DEF Same, Kept, Taken

\* The same for a window that cannot be active.
LEMMA LosingOtherOk ==
  ASSUME NEW s, NEW X, NEW N, NEW D, NEW b, Ok(s, X, N, D, b), NEW w \in Windows,
         w \notin s.capA, NEW a
  PROVE  LET t == Losing(s, w, a)
         IN  /\ Ok(t, X, N, D, b)
             /\ Kept(s, t) /\ Steady(s, t)
<1> DEFINE v == SetFocusCapability(s, w, FALSE)
           t == UpdateVisible(v, w)
<1>0. MayLose(s, w, X) BY DEF MayLose
<1>1. Losing(s, w, a) = t BY DEF Losing
<1>2. Ok(v, X, N, D, b) /\ Taken(s, v, w) BY <1>0, DropFocusCapabilityOk
<1> HIDE DEF v
<1>3. Ok(t, X, N, D, b) /\ Same(v, t) /\ t.kf = v.kf BY <1>2, UpdateVisibleOk
<1> HIDE DEF t
<1>4. Steady(s, v) BY <1>2, TakenSteady
<1>5. Steady(v, t) BY <1>3, SameSteady DEF Same
<1>6. Steady(s, t) BY <1>4, <1>5, SteadyAgain
<1> QED BY <1>1, <1>2, <1>3, <1>6 DEF Same, Kept, Taken

\* A window that loses the capability to be active, before anybody is told.
LEMMA PartingBegins ==
  ASSUME NEW s, NEW X, NEW N, NEW D, NEW b, Ok(s, X, N, D, b), NEW w \in Windows,
         NEW t \in State,
         t.capA = s.capA \ {w}, t.capF = s.capF, t.mute = s.mute,
         t.mapped \ t.min = (s.mapped \ s.min) \ {w}, s.mapped \ {w} \subseteq t.mapped,
         t.kf = s.kf, t.act = s.act, t.hist = s.hist, t.flag = s.flag
  PROVE  Parting(t, X \cup {w}, N, D, b, w)
<1>1. Capable(t, X \cup {w}) BY DEF Ok, Capable
<1>2. Focused(t, X \cup {w}) BY DEF Ok, Focused
<1>3. Told(t, D, b) BY DEF Ok, Told
<1>4. /\ Elems(t.hist) \ {w} \subseteq t.capA \ N
      /\ ShellV2 \/ (Elems(t.hist) \ {w}) \cap t.mute = {}
  BY DEF Ok, Remembered
<1> QED BY <1>1, <1>2, <1>3, <1>4 DEF Parting

\* A window that can no longer be active, and was not before.
LEMMA PartedOk ==
  ASSUME NEW s, NEW X, NEW N, NEW D, NEW b, Ok(s, X, N, D, b), NEW w \in Windows,
         NEW t \in State, w \notin s.capA,
         t.capA = s.capA, t.capF = s.capF, t.mute = s.mute,
         t.mapped \ t.min = (s.mapped \ s.min) \ {w}, s.mapped \ {w} \subseteq t.mapped,
         t.kf = s.kf, t.act = s.act, t.hist = s.hist, t.flag = s.flag
  PROVE  Ok(t, X, N, D, b)
<1>1. Capable(t, X) BY DEF Ok, Capable
<1>2. Focused(t, X) BY DEF Ok, Focused
<1>3. Remembered(t, N) /\ Told(t, D, b) BY DEF Ok, Remembered, Told
<1> QED BY <1>1, <1>2, <1>3 DEF Ok

-----------------------------------------------------------------------------
(* Ending the show desktop state. *)

\* Nothing is mapped or muted, windows are minimized at most, and the windows of
\* K that can be active still can; other surfaces keep their capability.
Later(s, t, K) == /\ t.mapped = s.mapped /\ t.mute = s.mute
                  /\ s.min \subseteq t.min /\ s.capA \cap K \subseteq t.capA
                  /\ t.capF \ Windows = s.capF \ Windows
                  /\ Grown(s, t)

LEMMA MinimizeShownOk ==
  ASSUME NEW s, NEW X, NEW N, NEW D, NEW b, Ok(s, X, N, D, b), NEW w \in Windows,
         D \subseteq N, None \notin N
  PROVE  LET t == MinimizeShown(s, w)
         IN  /\ Ok(t, X, N, D, b)
             /\ t.mapped = s.mapped /\ t.mute = s.mute /\ t.min = s.min \cup {w}
             /\ t.capA = s.capA \ {w} /\ t.capF \ Windows = s.capF \ Windows
             /\ t.showing = s.showing
<1> DEFINE m == [s EXCEPT !.min = @ \cup {w}]
           c == [m EXCEPT !.capA = @ \ {w}]
           a == InactivationShown(c, w)
<1>0. s \in State /\ w \in Surfaces BY DEF Ok, Surfaces
<1>1. /\ m \in State /\ m.min = s.min \cup {w} /\ m.mapped = s.mapped /\ m.mute = s.mute
      /\ m.capA = s.capA /\ m.capF = s.capF
      /\ m.kf = s.kf /\ m.act = s.act /\ m.hist = s.hist /\ m.flag = s.flag
      /\ m.showing = s.showing
  BY <1>0 DEF State
<1> HIDE DEF m
<1>2. /\ c \in State /\ c.min = m.min /\ c.mapped = m.mapped /\ c.mute = m.mute
      /\ c.capA = m.capA \ {w} /\ c.capF = m.capF
      /\ c.kf = m.kf /\ c.act = m.act /\ c.hist = m.hist /\ c.flag = m.flag
      /\ c.showing = m.showing
  BY <1>1 DEF State
<1> HIDE DEF c
<1>3. MinimizeShown(s, w) = Losing(m, w, a) BY DEF MinimizeShown, m, c
<1>4. /\ Ok(a, X \cup {w}, N \cup {w}, D, b) /\ Same(c, a)
      /\ Without(a, w)
  <2>1. c.mapped \ c.min = (s.mapped \ s.min) \ {w} BY <1>1, <1>2
  <2>2. Parting(c, X \cup {w}, N, D, b, w) BY <1>1, <1>2, <2>1, PartingBegins
  <2> QED BY <1>0, <2>2, InactivationShownOk
<1> HIDE DEF a
<1>5. CASE w \in s.capA
  <2>1. w \notin a.mapped \ a.min BY <1>1, <1>2, <1>4 DEF Same
  <2>2. w \in m.capA BY <1>1, <1>5
  <2>3. LET t == Losing(m, w, a)
        IN  /\ Ok(t, X, N, D, b)
            /\ Kept(a, t)
    BY <1>4, <2>1, <2>2, LosingActiveOk
  <2> QED BY <1>1, <1>2, <1>3, <1>4, <2>3 DEF Same, Kept
<1>6. CASE w \notin s.capA
  <2>1. m.mapped \ m.min = (s.mapped \ s.min) \ {w} BY <1>1
  <2>2. Ok(m, X, N, D, b) BY <1>1, <1>6, <2>1, PartedOk
  <2>3. LET t == Losing(m, w, a)
        IN  /\ Ok(t, X, N, D, b)
            /\ Kept(m, t)
    BY <1>1, <1>6, <2>2, LosingOtherOk
  <2> QED BY <1>1, <1>3, <1>6, <2>3 DEF Kept
<1> QED BY <1>5, <1>6

LEMMA CancelShowDesktopOk ==
  ASSUME NEW s, NEW X, NEW N, NEW D, NEW b, Ok(s, X, N, D, b), NEW x,
         D \subseteq N, None \notin N
  PROVE  LET t == CancelShowDesktop(s, x)
         IN  Ok(t, X, N, D, b) /\ Later(s, t, {x}) /\ ~t.showing
<1> DEFINE step == [w \in Windows |-> [t \in State |->
                      IF w = x \/ w \in t.min \/ w \in t.visible THEN t
                      ELSE MinimizeShown([t EXCEPT !.unhid = @ \cup {w}], w)]]
           u == [s EXCEPT !.showing = FALSE]
           S == Windows \cap s.there
           P == {t \in State : Ok(t, X, N, D, b) /\ Later(s, t, {x}) /\ ~t.showing}
<1>1. CASE ~s.showing BY <1>1 DEF CancelShowDesktop, Later, Grown
<1>2. CASE s.showing
  <2>1. u \in State /\ Alike(s, u) /\ ~u.showing BY DEF Ok, State, Alike
  <2> HIDE DEF u
  <2>2. u \in P BY <1>2, <2>1, AlikeOk DEF Later, Alike, Grown
  <2>3. ASSUME NEW w \in S, NEW t \in P PROVE step[w][t] \in P
    <3>1. CASE w = x \/ w \in t.min \/ w \in t.visible BY <3>1
    <3>2. CASE ~(w = x \/ w \in t.min \/ w \in t.visible)
      <4> DEFINE v == [t EXCEPT !.unhid = @ \cup {w}]
                 m == MinimizeShown(v, w)
      <4>1. step[w][t] = m BY <3>2
      <4>2. v \in State /\ Alike(t, v) /\ v.showing = t.showing BY DEF State, Alike
      <4> HIDE DEF v
      <4>3. Ok(v, X, N, D, b) BY <4>2, AlikeOk
      <4>4. /\ Ok(m, X, N, D, b)
            /\ m.mapped = v.mapped /\ m.mute = v.mute /\ m.min = v.min \cup {w}
            /\ m.capA = v.capA \ {w} /\ m.capF \ Windows = v.capF \ Windows
            /\ m.showing = v.showing
        BY <4>3, MinimizeShownOk
      <4> HIDE DEF m
      <4>5. Later(s, m, {x}) /\ ~m.showing BY <1>2, <3>2, <4>2, <4>4 DEF Later, Alike, Grown
      <4> QED BY <4>1, <4>4, <4>5 DEF Ok
    <3> QED BY <3>1, <3>2
  <2>4. IsFiniteSet(S) BY FocusAssumption, FS_Intersection
  <2> HIDE DEF step, S, P
  <2>5. ForEach(S, u, step) \in P BY <2>2, <2>3, <2>4, ForEachKeeps
  <2>6. CancelShowDesktop(s, x) = ForEach(S, u, step)
    BY <1>2 DEF CancelShowDesktop, S, u, step
  <2> QED BY <2>5, <2>6 DEF P
<1> QED BY <1>1, <1>2

LEMMA SetActivatedOk ==
  ASSUME NEW s, NEW X, NEW N, NEW D, NEW b, Ok(s, X, N, D, b), NEW seat \in Seats,
         NEW x, x \in {None} \cup (s.capA \ (s.mute \cup N)), D \subseteq N, None \notin N
  PROVE  LET t == SetActivated(s, seat, x)
         IN  /\ Ok(t, X, N, D, b) /\ Later(s, t, {x})
             /\ s.act[seat] # x /\ x # None => ~t.showing
<1>1. CASE s.act[seat] # x /\ x # None /\ s.showing
  <2> DEFINE u == Unflag(s, seat)
             c == CancelShowDesktop(u, x)
             e == Enter(c, seat, x)
             h == [e EXCEPT !.unhid = @ \cup {x}]
             t == RestoreShowDesktopFocus(h)
  <2>1. SetActivated(s, seat, x) = t BY <1>1 DEF SetActivated
  <2>2. Ok(u, X, N, D, b /\ seat # Primary) /\ Same(s, u) BY UnflagOk
  <2> HIDE DEF u
  <2>3. Ok(c, X, N, D, b /\ seat # Primary) /\ Later(u, c, {x}) /\ ~c.showing
    BY <2>2, CancelShowDesktopOk
  <2> HIDE DEF c
  <2>4. x \in c.capA \ (c.mute \cup N) BY <1>1, <2>2, <2>3 DEF Same, Later
  <2>5. Ok(e, X, N, D, b) /\ Same(c, e) BY <2>3, <2>4, EnterOk
  <2>6. e \in State /\ x \in Windows BY <2>3, <2>4, <2>5 DEF Ok, State
  <2> HIDE DEF e
  <2>7. h \in State /\ Still(e, h) /\ h.kf = e.kf BY <2>6 DEF State, Still, Same
  <2> HIDE DEF h
  <2>8. Ok(h, X, N, D, b) BY <2>5, <2>7, AlikeOk DEF Alike, Still, Same
  <2>9. Refocused(h, t) BY <2>7, RestoreShowDesktopFocusRefocuses
  <2> HIDE DEF t
  <2>10. Ok(t, X, N, D, b) BY <2>8, <2>9, RefocusedOk
  <2>11. Later(s, t, {x}) /\ ~t.showing
    BY <1>1, <2>2, <2>3, <2>5, <2>7, <2>9 DEF Refocused, Still, Same, Later, Grown
  <2> QED BY <2>1, <2>10, <2>11
<1>2. CASE ~(s.act[seat] # x /\ x # None /\ s.showing)
  <2>1. SetActivated(s, seat, x) = SetActivatedShown(s, seat, x) BY <1>2 DEF SetActivated
  <2>2. Ok(SetActivatedShown(s, seat, x), X, N, D, b) /\ Same(s, SetActivatedShown(s, seat, x))
    BY SetActivatedShownOk
  <2> QED BY <1>2, <2>1, <2>2 DEF Same, Later, Grown
<1> QED BY <1>1, <1>2

LEMMA ActivateOk ==
  ASSUME NEW s, NEW X, NEW N, NEW D, NEW b, Ok(s, X, N, D, b), NEW seat \in Seats,
         NEW x, x \notin N, D \subseteq N, None \notin N
  PROVE  LET t == Activate(s, seat, x)
         IN  Ok(t, X, N, D, b) /\ Later(s, t, {x})
<1> DEFINE a == SetActivated(s, seat, x)
<1>1. x \in {None} \cup (s.capA \ s.mute) => Ok(a, X, N, D, b) /\ Later(s, a, {x})
  BY SetActivatedOk
<1> HIDE DEF a
<1>2. LET t == Activating(s, seat, x, a)
      IN  /\ Ok(t, X, N, D, b)
          /\ Same(s, t) \/ (x \in {None} \cup (s.capA \ s.mute) /\ Same(a, t))
  BY <1>1, ActivatingOk
<1> QED BY <1>1, <1>2 DEF Activate, Same, Later, Grown, a

\* x is not a window, or one that can be active and that the seat has not activated.
Fresh(s, seat, x) == x \in Windows => x \in s.capA /\ s.act[seat] # x

\* An activation that brings the keyboard to a window ends the show desktop state.
LEMMA ActivateSteady ==
  ASSUME NEW s, NEW X, NEW N, NEW D, NEW b, Ok(s, X, N, D, b), NEW seat \in Seats,
         NEW x, x \notin N, D \subseteq N, None \notin N, Fresh(s, seat, x)
  PROVE  Steady(s, Activate(s, seat, x))
<1> DEFINE a == SetActivated(s, seat, x)
           t == Activate(s, seat, x)
<1>0. s \in State /\ None \notin Windows BY RecencyAssumption DEF Ok
<1>1. x \in {None} \cup (s.capA \ (s.mute \cup N)) =>
        /\ Ok(a, X, N, D, b) /\ Later(s, a, {x})
        /\ s.act[seat] # x /\ x # None => ~a.showing
  BY SetActivatedOk
<1>2. CASE x \in s.mute
  <2>1. t = s BY <1>2 DEF Activate, Activating
  <2> QED BY <2>1, SameSteady
<1>3. CASE x \notin s.mute /\ x # None /\ Blocked(s)
  <2>1. t = [s EXCEPT !.hist = IF x \in s.capA THEN Push(@, x) ELSE @]
    BY <1>3 DEF Activate, Activating
  <2>2. t.kf = s.kf /\ t.showing = s.showing /\ t.capA = s.capA BY <1>0, <2>1 DEF State
  <2> QED BY <2>2, SameSteady
<1>4. CASE x \notin s.mute /\ ~(x # None /\ Blocked(s)) /\ x = None
  <2>1. a \in {s, Deactivate(s, seat)} BY <1>4 DEF SetActivated, SetActivatedShown
  <2>2. None \notin D OBVIOUS
  <2>3. /\ Ok(Deactivate(s, seat), X, N, D, b)
        /\ Same(s, Deactivate(s, seat)) /\ Deactivate(s, seat).kf = s.kf
        /\ Deactivate(s, seat).act = [s.act EXCEPT ![seat] = None]
    BY <2>2, DeactivateOk
  <2>4. a.kf = s.kf /\ a.showing = s.showing /\ a.capA = s.capA BY <2>1, <2>3 DEF Same
  <2>5. a \in State BY <1>1, <1>4 DEF Ok
  <2>6. t = RequestKeyboardFocus(a, seat, x) BY <1>4 DEF Activate, Activating
  <2> HIDE DEF a, t
  <2>7. Steady(a, t) BY <1>0, <1>4, <2>5, <2>6, RequestSteady
  <2> QED BY <2>4, <2>7, SameSteady, SteadyAgain DEF t
<1>5. CASE x \notin s.mute /\ ~(x # None /\ Blocked(s)) /\ x \in s.capA
  <2>1. x \in Windows BY <1>0, <1>5 DEF State
  <2>2. a \in State /\ ~a.showing /\ Grown(s, a) BY <1>0, <1>1, <1>5, <2>1 DEF Ok, Fresh, Later
  <2>3. t = RequestKeyboardFocus(a, seat, x) BY <1>5 DEF Activate, Activating
  <2> HIDE DEF a, t
  <2>4. Refocused(a, t) BY <2>2, <2>3, RequestKeyboardFocusRefocuses
  <2>5. ~t.showing /\ Grown(s, t) BY <2>2, <2>4 DEF Refocused, Still, Same, Grown
  <2> QED BY <2>5, EndedSteady DEF t
<1>6. CASE x \notin s.mute /\ ~(x # None /\ Blocked(s)) /\ x # None /\ x \notin s.capA
  <2>1. x \notin Windows BY <1>6 DEF Fresh
  <2>2. t = RequestKeyboardFocus(s, seat, x) BY <1>6 DEF Activate, Activating
  <2> QED BY <1>0, <2>1, <2>2, RequestSteady
<1> QED BY <1>2, <1>3, <1>4, <1>5, <1>6

LEMMA InactivationRequestedOk ==
  ASSUME NEW s, NEW X, NEW N, NEW D, NEW b, NEW x \in Surfaces, Parting(s, X, N, D, b, x),
         D \subseteq N, None \notin N
  PROVE  LET t == InactivationRequested(s, x)
         IN  /\ Ok(t, X, N \cup {x}, D, b) /\ Later(s, t, {})
             /\ Without(t, x) /\ Steady(s, t)
<1> DEFINE u == Forget(s, x)
           d == Deactivate(u, Primary)
           f == Activate(d, Primary, Latest(u.hist))
           M == N \cup {x}
           E == D \cup {x}
<1>0. x # None /\ Primary \in Seats BY FocusAssumption
<1>1. Ok(u, X, M, D, b) /\ Same(s, u) /\ u.kf = s.kf BY ForgetOk
<1> HIDE DEF u
<1>2. Ok(d, X, M, E, b) /\ Same(u, d) /\ d.kf = u.kf /\ d.act[Primary] = None
  BY <1>0, <1>1, FallbackOk
<1>3. Latest(u.hist) \notin M
  <2>1. Latest(u.hist) \in Elems(u.hist) \cup {None} BY LatestElem
  <2>2. Elems(u.hist) \cap M = {} BY <1>1 DEF Ok, Remembered
  <2> QED BY <1>0, <2>1, <2>2
<1> HIDE DEF d
<1>4. E \subseteq M /\ None \notin M /\ None \notin D BY <1>0
<1> HIDE DEF M, E
<1>9. Fresh(d, Primary, Latest(u.hist))
  <2>1. Latest(u.hist) \in Elems(u.hist) \cup {None} BY LatestElem
  <2>2. Elems(u.hist) \subseteq d.capA BY <1>1, <1>2 DEF Ok, Remembered, Same
  <2> QED BY <1>2, <2>1, <2>2, RecencyAssumption DEF Fresh
<1>10. Steady(d, f) BY <1>0, <1>2, <1>3, <1>4, <1>9, ActivateSteady
<1>5. Ok(f, X, M, E, b) /\ Later(d, f, {Latest(u.hist)})
  BY <1>0, <1>2, <1>3, <1>4, ActivateOk
<1> HIDE DEF f
<1>6. Ok(f, X, M, D, b) /\ f.act[Primary] # x BY <1>5, LetGoneOk DEF E, Ok, Told
<1>7. LET t == Inactivating(u, x, f)
      IN  /\ Ok(t, X, M, D, b)
          /\ Without(t, x)
          /\ \/ Same(u, t) /\ Dims(u, t)
             \/ u.kf[Primary] = x /\ Same(f, t) /\ Dims(f, t)
  BY <1>1, <1>4, <1>6, InactivatingOk
<1>8. InactivationRequested(s, x) = Inactivating(u, x, f)
  BY DEF InactivationRequested, u, d, f
<1>11. Steady(s, f)
  <2>1. Steady(s, d) BY <1>1, <1>2, SameSteady DEF Same
  <2> QED BY <1>10, <2>1, SteadyAgain
<1>12. Steady(s, Inactivating(u, x, f))
  <2> DEFINE t == Inactivating(u, x, f)
  <2>1. CASE Same(u, t) /\ Dims(u, t)
    <3>1. Steady(u, t) BY <2>1, DimsSteady DEF Same
    <3> HIDE DEF t
    <3> QED BY <1>1, <3>1, SameSteady, SteadyAgain DEF Same, t
  <2>2. CASE Same(f, t) /\ Dims(f, t)
    <3>1. Steady(f, t) BY <2>2, DimsSteady DEF Same
    <3> HIDE DEF t
    <3> QED BY <1>11, <3>1, SteadyAgain DEF t
  <2> QED BY <1>7, <2>1, <2>2
<1> QED BY <1>1, <1>2, <1>5, <1>7, <1>8, <1>12 DEF Same, Later, Grown, M

-----------------------------------------------------------------------------
(* The handlers, at rest before and after. *)

Nothing == {}

\* The inductive invariant.
Rest(s) == Ok(s, Nothing, Nothing, Nothing, TRUE)

LEMMA RestNext ==
  ASSUME NEW s, Rest(s), NEW t \in State, Alike(s, t)
  PROVE  Rest(t)
BY AlikeOk DEF Rest

LEMMA RestRefocused ==
  ASSUME NEW s, Rest(s), NEW t, Refocused(s, t)
  PROVE  Rest(t)
BY RefocusedOk DEF Rest

LEMMA ActivateRests ==
  ASSUME NEW s, Rest(s), NEW seat \in Seats, NEW x
  PROVE  Rest(Activate(s, seat, x)) /\ Later(s, Activate(s, seat, x), {x})
<1>1. x \notin Nothing /\ Nothing \subseteq Nothing /\ None \notin Nothing BY DEF Nothing
<1> QED BY <1>1, ActivateOk DEF Rest

\* Outside of the show desktop state, at most w loses the capability to be active.
OnlyLoses(s, t, w) == ~s.showing => s.capA \ {w} \subseteq t.capA

\* Minimize and UnmapWindow take the window out of mapped \ min.
LEMMA LosingRests ==
  ASSUME NEW s, Rest(s), NEW w \in Windows, NEW m \in State,
         m.capA = s.capA, m.capF = s.capF, m.mute = s.mute,
         m.mapped \ m.min = (s.mapped \ s.min) \ {w}, s.mapped \ {w} \subseteq m.mapped,
         m.kf = s.kf, m.act = s.act, m.hist = s.hist, m.flag = s.flag
  PROVE  LET t == Losing(m, w, LoseActiveCapability(m, w))
         IN  Rest(t) /\ KeepsOff(m, t) /\ OnlyLoses(m, t, w)
<1> DEFINE c == [m EXCEPT !.capA = @ \ {w}]
           a == InactivationRequested(c, w)
<1>0. /\ w \in Surfaces /\ Ok(s, Nothing, Nothing, Nothing, TRUE)
      /\ Nothing \subseteq Nothing /\ None \notin Nothing
  BY DEF Surfaces, Rest, Nothing
<1>1. /\ c \in State /\ c.min = m.min /\ c.mapped = m.mapped /\ c.mute = m.mute
      /\ c.capA = m.capA \ {w} /\ c.capF = m.capF
      /\ c.kf = m.kf /\ c.act = m.act /\ c.hist = m.hist /\ c.flag = m.flag
      /\ c.showing = m.showing
  BY DEF State
<1> HIDE DEF c
<1>2. LoseActiveCapability(m, w) = a BY DEF LoseActiveCapability, c
<1>3. CASE w \in s.capA
  <2>1. Parting(c, Nothing \cup {w}, Nothing, Nothing, TRUE, w) BY <1>0, <1>1, PartingBegins
  <2>2. /\ Ok(a, Nothing \cup {w}, Nothing \cup {w}, Nothing, TRUE) /\ Later(c, a, {})
        /\ Without(a, w) /\ Steady(c, a)
    BY <1>0, <2>1, InactivationRequestedOk
  <2> HIDE DEF a
  <2>3. w \notin a.mapped \ a.min BY <1>1, <2>2 DEF Later
  <2>4. Ok(Losing(m, w, a), Nothing, Nothing, Nothing, TRUE) /\ Steady(a, Losing(m, w, a))
    BY <1>3, <2>2, <2>3, LosingActiveOk
  <2>5. KeepsOff(m, c) BY <1>1, SameKeepsOff
  <2>6. Steady(c, Losing(m, w, a)) BY <2>2, <2>4, SteadyAgain
  <2>7. KeepsOff(m, Losing(m, w, a)) BY <2>5, <2>6, KeepsOffAgain DEF Steady
  <2>8. OnlyLoses(m, Losing(m, w, a), w) BY <1>1, <2>6 DEF Steady, Grown, OnlyLoses
  <2> QED BY <1>2, <2>4, <2>7, <2>8 DEF Rest
<1>4. CASE w \notin s.capA
  <2>1. Ok(m, Nothing, Nothing, Nothing, TRUE) BY <1>0, <1>4, PartedOk
  <2> HIDE DEF a
  <2>2. Ok(Losing(m, w, a), Nothing, Nothing, Nothing, TRUE) /\ Steady(m, Losing(m, w, a))
    BY <1>4, <2>1, LosingOtherOk
  <2> QED BY <1>2, <2>2 DEF Rest, Steady, Grown, OnlyLoses
<1> QED BY <1>3, <1>4

LEMMA MinimizeRests ==
  ASSUME NEW s, Rest(s), NEW w \in Windows
  PROVE  LET t == Minimize(s, w)
         IN  Rest(t) /\ KeepsOff(s, t) /\ OnlyLoses(s, t, w)
<1> DEFINE m == [s EXCEPT !.min = @ \cup {w}]
<1>1. /\ m \in State /\ m.min = s.min \cup {w} /\ m.mapped = s.mapped /\ m.mute = s.mute
      /\ m.capA = s.capA /\ m.capF = s.capF
      /\ m.kf = s.kf /\ m.act = s.act /\ m.hist = s.hist /\ m.flag = s.flag
      /\ m.showing = s.showing
  BY DEF Rest, Ok, State
<1>2. Minimize(s, w) = IF w \in s.min THEN s ELSE Losing(m, w, LoseActiveCapability(m, w))
  BY DEF Minimize
<1> HIDE DEF m
<1>3. m.mapped \ m.min = (s.mapped \ s.min) \ {w} BY <1>1
<1> DEFINE t == Losing(m, w, LoseActiveCapability(m, w))
<1>4. Rest(t) /\ KeepsOff(m, t) /\ OnlyLoses(m, t, w) BY <1>1, <1>3, LosingRests
<1> HIDE DEF t
<1>5. KeepsOff(s, m) /\ KeepsOff(s, s) BY <1>1, SameKeepsOff
<1>6. KeepsOff(s, t) BY <1>4, <1>5, KeepsOffAgain
<1>7. OnlyLoses(s, s, w) /\ OnlyLoses(s, t, w) BY <1>1, <1>4 DEF OnlyLoses
<1> QED BY <1>2, <1>4, <1>5, <1>6, <1>7 DEF t

LEMMA GiveFocusCapabilityOk ==
  ASSUME NEW s, NEW X, NEW N, NEW D, NEW b, Ok(s, X, N, D, b), NEW w \in Windows,
         MayGain(s, w, X)
  PROVE  LET t == SetFocusCapability(s, w, TRUE)
         IN  Ok(t, X, N, D, b) /\ Given(s, t, w)
<1> DEFINE F == s.capF \cup {w}
           t == WithCapF(s, w, F, w)
<1>1. [s EXCEPT !.capF = @ \cup {w}].capF = F BY DEF Ok, State
<1>2. SetFocusCapability(s, w, TRUE) = t
  BY <1>1 DEF SetFocusCapability, WithCapF
<1>3. F = s.capF \cup {w} /\ w \in s.capA \cup X BY DEF F, MayGain
<1> HIDE DEF F
<1>4. /\ Ok(t, X, N, D, b)
      /\ t.mapped = s.mapped /\ t.min = s.min /\ t.mute = s.mute /\ t.capA = s.capA
      /\ t.act = s.act /\ t.capF = s.capF \cup {w} /\ t.showing = s.showing
      /\ s.showing => t.kf = s.kf
  BY <1>3, WithCapFOk
<1> HIDE DEF t
<1> QED BY <1>2, <1>4 DEF Given

\* A window in transition that can be active and focused after all.
LEMMA OkBack ==
  ASSUME NEW s, NEW N, NEW D, NEW b, NEW w \in Windows, Ok(s, {w}, N, D, b), w \in s.capA,
         w \in s.capF \cup s.mute
  PROVE  Ok(s, Nothing, N, D, b)
<1>1. Capable(s, Nothing) BY DEF Ok, Capable, Nothing
<1>2. Focused(s, Nothing) BY DEF Ok, Focused, Nothing
<1> QED BY <1>1, <1>2 DEF Ok

LEMMA GainOk ==
  ASSUME NEW s, NEW w \in Windows, Ok(s, {w}, Nothing, Nothing, TRUE), w \in s.mapped \ s.min
  PROVE  LET t == GainActiveCapability(s, w)
         IN  /\ Ok(t, {w}, Nothing, Nothing, TRUE) /\ w \in t.capA /\ t.mute = s.mute
             /\ Grown(s, t)
             /\ w \in s.capF \cup s.mute => Rest(t)
             /\ w \in s.capA \/ s.act[Primary] # w => Steady(s, t)
<1>1. CASE w \in s.capA
  <2>1. GainActiveCapability(s, w) = s BY <1>1 DEF GainActiveCapability
  <2>2. w \in s.capF \cup s.mute => Ok(s, Nothing, Nothing, Nothing, TRUE) BY <1>1, OkBack
  <2> QED BY <1>1, <2>1, <2>2 DEF Rest, Grown, Steady, KeepsOff
<1>2. CASE w \notin s.capA
  <2> DEFINE c == [s EXCEPT !.capA = @ \cup {w}]
             t == Activate(c, Primary, w)
  <2>0. w \notin Nothing /\ Nothing \subseteq Nothing /\ None \notin Nothing /\ Primary \in Seats
    BY FocusAssumption DEF Nothing
  <2>1. GainActiveCapability(s, w) = t BY <1>2 DEF GainActiveCapability
  <2>2. /\ c \in State /\ c.min = s.min /\ c.mapped = s.mapped /\ c.mute = s.mute
        /\ c.capA = s.capA \cup {w} /\ c.capF = s.capF /\ c.showing = s.showing
        /\ c.kf = s.kf /\ c.act = s.act /\ c.hist = s.hist /\ c.flag = s.flag
    BY DEF Ok, State
  <2> HIDE DEF c
  <2>3. Capable(c, {w}) BY <2>2 DEF Ok, Capable
  <2>4. Focused(c, {w}) BY <2>2 DEF Ok, Focused
  <2>5. Remembered(c, Nothing) BY <2>2 DEF Ok, Remembered
  <2>6. Told(c, Nothing, TRUE) BY <2>2 DEF Ok, Told
  <2>7. Ok(c, {w}, Nothing, Nothing, TRUE) BY <2>2, <2>3, <2>4, <2>5, <2>6 DEF Ok
  <2>8. w \in c.capA BY <2>2
  <2>9. Ok(t, {w}, Nothing, Nothing, TRUE) /\ Later(c, t, {w}) BY <2>0, <2>7, ActivateOk
  <2>10. w \in s.capF \cup s.mute => Rest(t)
    <3> SUFFICES ASSUME w \in s.capF \cup s.mute PROVE Rest(t) OBVIOUS
    <3>1. Rest(c) BY <2>2, <2>7, <2>8, OkBack DEF Rest
    <3> QED BY <2>0, <3>1, ActivateRests
  <2>11. s.act[Primary] # w => Steady(s, t)
    <3> SUFFICES ASSUME s.act[Primary] # w PROVE Steady(s, t) OBVIOUS
    <3>1. Fresh(c, Primary, w) BY <2>2, <2>8 DEF Fresh
    <3>2. Steady(c, t) BY <2>0, <2>7, <3>1, ActivateSteady
    <3> HIDE DEF t
    <3>3. Steady(s, c) BY <2>2 DEF Steady, KeepsOff, Grown
    <3> QED BY <3>2, <3>3, SteadyAgain
  <2> HIDE DEF t
  <2> QED BY <1>2, <2>1, <2>2, <2>8, <2>9, <2>10, <2>11 DEF Later, Grown
<1> QED BY <1>1, <1>2

LEMMA UpdateVisibleRests ==
  ASSUME NEW s, Rest(s), NEW w \in Windows
  PROVE  Rest(UpdateVisible(s, w)) /\ Steady(s, UpdateVisible(s, w))
<1>1. /\ Ok(UpdateVisible(s, w), Nothing, Nothing, Nothing, TRUE) /\ Same(s, UpdateVisible(s, w))
      /\ UpdateVisible(s, w).kf = s.kf
  BY UpdateVisibleOk DEF Rest
<1> QED BY <1>1, SameSteady DEF Rest, Same

LEMMA RestoreFromMinimizedRests ==
  ASSUME NEW s, Rest(s), NEW w \in Windows
  PROVE  Rest(RestoreFromMinimized(s, w)) /\ Steady(s, RestoreFromMinimized(s, w))
<1> DEFINE r == [s EXCEPT !.unhid = @ \cup {w}, !.min = @ \ {w}]
           f == SetFocusCapability(r, w, w \in s.mapped /\ w \notin s.mute)
           g == IF w \in s.mapped THEN GainActiveCapability(f, w) ELSE f
<1>1. /\ r \in State /\ r.min = s.min \ {w} /\ r.mapped = s.mapped /\ r.mute = s.mute
      /\ r.capA = s.capA /\ r.capF = s.capF
      /\ r.kf = s.kf /\ r.act = s.act /\ r.hist = s.hist /\ r.flag = s.flag
      /\ r.showing = s.showing
  BY DEF Rest, Ok, State
<1>2. RestoreFromMinimized(s, w) = s \/ RestoreFromMinimized(s, w) = UpdateVisible(g, w)
  BY DEF RestoreFromMinimized
<1> HIDE DEF r
<1>7. Steady(s, s) /\ Steady(s, r) BY <1>1, SameSteady
<1>8. w \in r.capA \/ r.act[Primary] # w
  BY <1>1, FocusAssumption, RecencyAssumption DEF Rest, Ok, Focused, Nothing
<1>9. ASSUME NEW t, Rest(t), Steady(s, t)
      PROVE  Rest(UpdateVisible(t, w)) /\ Steady(s, UpdateVisible(t, w))
  BY <1>9, UpdateVisibleRests, SteadyAgain
<1>3. Focused(r, {w}) /\ Focused(r, Nothing) BY <1>1 DEF Rest, Ok, Focused, Nothing
<1>4. Remembered(r, Nothing) /\ Told(r, Nothing, TRUE) BY <1>1 DEF Rest, Ok, Remembered, Told
<1>5. CASE w \in s.mapped
  <2>1. Capable(r, {w}) BY <1>1 DEF Rest, Ok, Capable, Nothing
  <2>2. Ok(r, {w}, Nothing, Nothing, TRUE) BY <1>1, <1>3, <1>4, <2>1 DEF Ok
  <2>3. /\ Ok(f, {w}, Nothing, Nothing, TRUE) /\ f.mapped = r.mapped /\ f.min = r.min
        /\ w \in f.capF \cup f.mute /\ Steady(r, f)
        /\ f.capA = r.capA /\ f.act = r.act
    <3>1. CASE w \notin s.mute
      <4>1. f = SetFocusCapability(r, w, TRUE) BY <1>5, <3>1 DEF SetFocusCapability
      <4> HIDE DEF f
      <4>2. MayGain(r, w, {w}) BY DEF MayGain
      <4>3. Ok(f, {w}, Nothing, Nothing, TRUE) /\ Given(r, f, w)
        BY <2>2, <4>1, <4>2, GiveFocusCapabilityOk
      <4> QED BY <4>3, GivenSteady DEF Given
    <3>2. CASE w \in s.mute
      <4>1. f = SetFocusCapability(r, w, FALSE) BY <3>2 DEF SetFocusCapability
      <4> HIDE DEF f
      <4>2. MayLose(r, w, {w}) BY DEF MayLose
      <4>3. Ok(f, {w}, Nothing, Nothing, TRUE) /\ Taken(r, f, w)
        BY <2>2, <4>1, <4>2, DropFocusCapabilityOk
      <4> QED BY <1>1, <3>2, <4>3, TakenSteady DEF Taken
    <3> QED BY <3>1, <3>2
  <2> HIDE DEF f
  <2>4. w \in f.mapped \ f.min BY <1>1, <1>5, <2>3
  <2>5. g = GainActiveCapability(f, w) BY <1>5
  <2>6. w \in f.capA \/ f.act[Primary] # w BY <1>8, <2>3
  <2> HIDE DEF g
  <2>7. Rest(g) /\ Steady(f, g) BY <2>3, <2>4, <2>5, <2>6, GainOk
  <2>8. Steady(s, f) BY <1>7, <2>3, SteadyAgain
  <2>9. Steady(s, g) BY <2>7, <2>8, SteadyAgain
  <2> QED BY <1>2, <1>7, <1>9, <2>7, <2>9
<1>6. CASE w \notin s.mapped
  <2>1. Capable(r, Nothing) BY <1>1, <1>6 DEF Rest, Ok, Capable, Nothing
  <2>2. Ok(r, Nothing, Nothing, Nothing, TRUE) BY <1>1, <1>3, <1>4, <2>1 DEF Ok
  <2>3. f = SetFocusCapability(r, w, FALSE) BY <1>6 DEF SetFocusCapability
  <2>4. g = f BY <1>6
  <2> HIDE DEF f, g
  <2>t. MayLose(r, w, Nothing) BY <1>6, <1>1 DEF Rest, Ok, Capable, MayLose
  <2>5. Ok(f, Nothing, Nothing, Nothing, TRUE) /\ Taken(r, f, w)
    BY <2>2, <2>3, <2>t, DropFocusCapabilityOk
  <2>6. Steady(r, f) BY <2>5, TakenSteady
  <2>7. Rest(g) /\ Steady(s, g) BY <1>7, <2>4, <2>5, <2>6, SteadyAgain DEF Rest
  <2> QED BY <1>2, <1>7, <1>9, <2>7
<1> QED BY <1>5, <1>6

LEMMA CancelShowDesktopRests ==
  ASSUME NEW s, Rest(s), NEW x
  PROVE  LET t == CancelShowDesktop(s, x)
         IN  Rest(t) /\ ~t.showing /\ Grown(s, t)
<1>1. Nothing \subseteq Nothing /\ None \notin Nothing BY DEF Nothing
<1>2. LET t == CancelShowDesktop(s, x)
      IN  Ok(t, Nothing, Nothing, Nothing, TRUE) /\ Later(s, t, {x}) /\ ~t.showing
  BY <1>1, CancelShowDesktopOk DEF Rest
<1> QED BY <1>2 DEF Rest, Later

LEMMA RestoreShowDesktopFocusRests ==
  ASSUME NEW s, Rest(s)
  PROVE  /\ Rest(RestoreShowDesktopFocus(s))
         /\ RestoreShowDesktopFocus(s).showing = s.showing
<1>1. s \in State BY DEF Rest, Ok
<1>2. Refocused(s, RestoreShowDesktopFocus(s)) BY <1>1, RestoreShowDesktopFocusRefocuses
<1> QED BY <1>2, RestRefocused DEF Refocused, Still, Same

LEMMA RestoreFromShowDesktopRests ==
  ASSUME NEW s, Rest(s), NEW x \in Windows \cup {None}
  PROVE  LET t == RestoreFromShowDesktop(s, x)
         IN  Rest(t) /\ ~t.showing /\ Steady(s, t)
<1> DEFINE c == CancelShowDesktop(s, x)
           k == IF x = None THEN c ELSE RestoreFromMinimized(c, x)
<1>1. \/ RestoreFromShowDesktop(s, x) = s /\ ~s.showing
      \/ RestoreFromShowDesktop(s, x) = RestoreShowDesktopFocus(k) /\ s.showing
  BY DEF RestoreFromShowDesktop
<1>2. Rest(c) /\ ~c.showing BY CancelShowDesktopRests
<1> HIDE DEF c
<1>3. Rest(k) /\ ~k.showing BY <1>2, RestoreFromMinimizedRests DEF Steady, KeepsOff
<1> HIDE DEF k
<1>4. Rest(RestoreShowDesktopFocus(k)) /\ ~RestoreShowDesktopFocus(k).showing
  BY <1>3, RestoreShowDesktopFocusRests
<1> QED BY <1>1, <1>4, SameSteady, EndedSteady

LEMMA ForceActivateRests ==
  ASSUME NEW s, Rest(s), NEW seat \in Seats, NEW w \in Windows
  PROVE  LET t == ForceActivateSurface(s, seat, w)
         IN  Rest(t) /\ ~t.showing /\ Grown(s, t)
<1> DEFINE r == RestoreFromShowDesktop(s, w)
           m == IF w \in r.min THEN RestoreFromMinimized(r, w) ELSE r
           a == IF w \in m.mapped THEN Activate(m, seat, w) ELSE m
<1>1. ForceActivateSurface(s, seat, w) = a BY DEF ForceActivateSurface
<1>2. Rest(r) /\ ~r.showing /\ Steady(s, r) BY RestoreFromShowDesktopRests
<1> HIDE DEF r
<1>3. Rest(m) /\ ~m.showing /\ Grown(r, m)
  BY <1>2, RestoreFromMinimizedRests DEF Steady, KeepsOff, Grown
<1> HIDE DEF m
<1>4. Rest(a) /\ ~a.showing /\ Grown(m, a) BY <1>3, ActivateRests DEF Later, Grown
<1>5. Grown(s, a) BY <1>2, <1>3, <1>4 DEF Steady, Grown
<1> QED BY <1>1, <1>4, <1>5

LEMMA KeyboardGrabEndOk ==
  ASSUME NEW s, NEW X, NEW N, NEW D, NEW b, Ok(s, X, N, D, b), NEW seat \in Seats
  PROVE  LET t == KeyboardGrabEnd(s, seat)
         IN  Ok(t, X, N, D, b) /\ Steady(s, t) /\ t.capA = s.capA
<1> DEFINE e == [s EXCEPT !.grab = @ \ {seat}, !.back[seat] = None]
           x == IF s.back[seat] \in s.capF THEN s.back[seat] ELSE s.act[seat]
           k == SetKeyboardFocus(e, seat, x)
<1>1. e \in State /\ Still(s, e) /\ e.kf = s.kf BY DEF Ok, State, Still, Same
<1>2. \/ KeyboardGrabEnd(s, seat) \in {s, e}
      \/ KeyboardGrabEnd(s, seat) = k /\ x \in s.capF /\ (s.showing => x = Desktop)
  BY DEF KeyboardGrabEnd
<1> HIDE DEF e, x
<1>3. Ok(e, X, N, D, b) BY <1>1, AlikeOk DEF Alike, Still, Same
<1>4. x \in s.capF /\ (s.showing => x = Desktop) => Ok(k, X, N, D, b) /\ Steady(s, k) /\ k.capA = s.capA
  <2> SUFFICES ASSUME x \in s.capF, s.showing => x = Desktop
               PROVE  Ok(k, X, N, D, b) /\ Steady(s, k) /\ k.capA = s.capA
    OBVIOUS
  <2>1. x \in e.capF \cup {None} BY <1>1 DEF Still, Same
  <2>2. Refocused(e, k) /\ \A q \in Seats : k.kf[q] \in {e.kf[q], None, x}
    BY <1>1, <2>1, SetKeyboardFocusRefocuses
  <2> HIDE DEF k
  <2>3. Desktop \notin Windows /\ None \notin Windows BY FocusAssumption, RecencyAssumption
  <2>4. k.showing = s.showing /\ k.capA = s.capA BY <1>1, <2>2 DEF Refocused, Still, Same
  <2>5. Steady(s, k) BY <1>1, <2>2, <2>3, <2>4 DEF Steady, KeepsOff, Grown
  <2> QED BY <1>3, <2>2, <2>4, <2>5, RefocusedOk
<1>5. Steady(s, s) /\ Steady(s, e) /\ e.capA = s.capA BY <1>1, SameSteady DEF Still, Same
<1> HIDE DEF k
<1> QED BY <1>2, <1>3, <1>4, <1>5

\* What surfaceDestroyed does on one seat.
Destroyed(s, seat, x) ==
  LET a == [s EXCEPT !.act[seat] = IF @ = x THEN None ELSE @]
  IN  IF a.kf[seat] = x THEN SetKeyboardFocus(a, seat, None) ELSE a

LEMMA DestroyedOk ==
  ASSUME NEW s, NEW X, NEW N, NEW D, NEW b, Ok(s, X, N, D, b), NEW seat \in Seats,
         NEW x \in Surfaces, None \notin D
  PROVE  LET t == Destroyed(s, seat, x)
         IN  /\ Ok(t, X, N, D, b) /\ Same(s, t)
             /\ \A q \in Seats : t.kf[q] \in {s.kf[q], None} /\ t.act[q] \in {s.act[q], None}
             /\ t.kf[seat] # x /\ t.act[seat] # x
<1> DEFINE a == [s EXCEPT !.act[seat] = IF @ = x THEN None ELSE @]
           k == SetKeyboardFocus(a, seat, None)
<1>0. s \in State /\ x # None BY FocusAssumption DEF Ok
<1>1. /\ a \in State /\ Same(s, a) /\ a.kf = s.kf /\ a.hist = s.hist /\ a.flag = s.flag
      /\ a.act = [s.act EXCEPT ![seat] = IF @ = x THEN None ELSE @]
  BY <1>0 DEF State, Same
<1>2. Destroyed(s, seat, x) = IF a.kf[seat] = x THEN k ELSE a BY DEF Destroyed
<1> HIDE DEF a
<1>3. /\ \A q \in Seats : a.act[q] \in {s.act[q], None}
      /\ a.act[seat] # x
  BY <1>0, <1>1 DEF State
<1>4. Ok(a, X, N, D, b)
  <2>1. Capable(a, X) BY <1>1 DEF Ok, Capable, Same
  <2>2. Focused(a, X) BY <1>1, <1>3 DEF Ok, Focused, Same
  <2>3. Remembered(a, N) BY <1>1 DEF Ok, Remembered, Same
  <2>4. Told(a, D, b) BY <1>1, <1>3, FocusAssumption DEF Ok, Told
  <2> QED BY <1>1, <2>1, <2>2, <2>3, <2>4 DEF Ok
<1>5. Refocused(a, k) /\ (\A q \in Seats : k.kf[q] \in {a.kf[q], None}) /\ k.kf[seat] = None
  BY <1>1, SetKeyboardFocusRefocuses
<1> HIDE DEF k
<1>6. Ok(k, X, N, D, b) BY <1>4, <1>5, RefocusedOk
<1>7. Same(a, k) /\ k.act = a.act BY <1>5 DEF Refocused, Still
<1>8. CASE a.kf[seat] = x
  BY <1>0, <1>1, <1>2, <1>3, <1>5, <1>6, <1>7, <1>8 DEF Same
<1>9. CASE a.kf[seat] # x
  BY <1>1, <1>2, <1>3, <1>4, <1>9
<1> QED BY <1>8, <1>9

LEMMA SurfaceDestroyedOk ==
  ASSUME NEW s, NEW X, NEW N, NEW D, NEW b, Ok(s, X, N, D, b), NEW x \in Surfaces, None \notin D
  PROVE  LET t == SurfaceDestroyed(s, x)
         IN  Ok(t, X, N, D, b) /\ Same(s, t) /\ Dims(s, t) /\ Without(t, x)
<1> DEFINE step == [seat \in Seats |-> [t \in State |-> Destroyed(t, seat, x)]]
           Free(t, T) == \A q \in T : t.kf[q] # x /\ t.act[q] # x
           Q == [T \in SUBSET Seats |-> {t \in State : /\ Ok(t, X, N, D, b) /\ Same(s, t)
                                                       /\ Dims(s, t) /\ Free(t, T)}]
<1>0. x # None BY FocusAssumption
<1>1. s \in Q[{}] BY DEF Ok, Same, Dims
<1>2. ASSUME NEW T \in SUBSET Seats, NEW seat \in Seats \ T, NEW t \in Q[T]
      PROVE  step[seat][t] \in Q[T \cup {seat}]
  <2>1. t \in State /\ Ok(t, X, N, D, b) /\ Same(s, t) /\ Dims(s, t) /\ Free(t, T)
    OBVIOUS
  <2> DEFINE v == Destroyed(t, seat, x)
  <2>2. /\ Ok(v, X, N, D, b) /\ Same(t, v)
        /\ \A q \in Seats : v.kf[q] \in {t.kf[q], None} /\ v.act[q] \in {t.act[q], None}
        /\ v.kf[seat] # x /\ v.act[seat] # x
    BY <2>1, DestroyedOk
  <2>3. step[seat][t] = v BY <2>1
  <2> HIDE DEF v
  <2>4. Same(s, v) /\ Dims(s, v) BY <2>1, <2>2 DEF Same, Dims
  <2>5. Free(v, T \cup {seat}) BY <1>0, <2>1, <2>2
  <2>6. v \in State BY <2>2 DEF Ok
  <2> QED BY <2>2, <2>3, <2>4, <2>5, <2>6
<1> HIDE DEF step, Q
<1>3. ForEach(Seats, s, step) \in Q[Seats]
  BY <1>1, <1>2, ForEachReaches, FocusAssumption
<1>4. SurfaceDestroyed(s, x) = ForEach(Seats, s, step)
  BY DEF SurfaceDestroyed, Destroyed, step
<1> QED BY <1>3, <1>4 DEF Q, Without

\* A surface that is not a window, without capability, is out of transition when
\* no seat has it.
LEMMA OkAway ==
  ASSUME NEW s, NEW N, NEW D, NEW b, NEW x, Ok(s, {x}, N, D, b), x \notin Windows,
         x \notin s.capF, Without(s, x)
  PROVE  Ok(s, Nothing, N, D, b)
<1>1. Capable(s, Nothing) BY DEF Ok, State, Capable, Nothing
<1>2. Focused(s, Nothing) BY DEF Ok, Focused, Without, Nothing
<1> QED BY <1>1, <1>2 DEF Ok

LEMMA PopupDestroyedRests ==
  ASSUME NEW s, NEW p \in Popups, Ok(s, {p}, Nothing, Nothing, TRUE)
  PROVE  LET t == PopupDestroyed(s, p)
         IN  Rest(t) /\ Steady(s, t) /\ t.capA = s.capA
<1> DEFINE u == [s EXCEPT !.there = @ \ {p}, !.mapped = @ \ {p}, !.capF = @ \ {p}]
           t == SurfaceDestroyed(u, p)
<1>0. p \in Surfaces /\ p \notin Windows /\ None \notin Nothing
  BY FocusAssumption DEF Surfaces, Nothing
<1>1. /\ u \in State /\ u.min = s.min /\ u.mapped = s.mapped \ {p} /\ u.mute = s.mute
      /\ u.capA = s.capA /\ u.capF = s.capF \ {p}
      /\ u.kf = s.kf /\ u.act = s.act /\ u.hist = s.hist /\ u.flag = s.flag
      /\ u.showing = s.showing
  BY DEF Ok, State
<1>2. PopupDestroyed(s, p) = t BY DEF PopupDestroyed
<1> HIDE DEF u
<1>3. Ok(u, {p}, Nothing, Nothing, TRUE)
  <2>1. Capable(u, {p})
    <3>1. s.capA \subseteq Windows BY DEF Ok, State
    <3> QED BY <1>0, <1>1, <3>1 DEF Ok, Capable
  <2>2. Focused(u, {p}) BY <1>1 DEF Ok, Focused
  <2>3. Remembered(u, Nothing) /\ Told(u, Nothing, TRUE) BY <1>1 DEF Ok, Remembered, Told
  <2> QED BY <1>1, <2>1, <2>2, <2>3 DEF Ok
<1>4. Ok(t, {p}, Nothing, Nothing, TRUE) /\ Same(u, t) /\ Dims(u, t) /\ Without(t, p)
  BY <1>0, <1>3, SurfaceDestroyedOk
<1> HIDE DEF t
<1>5. p \notin t.capF BY <1>1, <1>4 DEF Same
<1>6. Steady(s, u) BY <1>1, SameSteady
<1>7. Steady(u, t) BY <1>4, DimsSteady DEF Same
<1>8. Steady(s, t) BY <1>6, <1>7, SteadyAgain
<1>9. t.capA = s.capA BY <1>1, <1>4 DEF Same
<1> QED BY <1>0, <1>2, <1>4, <1>5, <1>8, <1>9, OkAway DEF Rest

LEMMA UpdateLayerRests ==
  ASSUME NEW s, NEW x \in Layers, Ok(s, {x}, Nothing, Nothing, TRUE),
         \A q \in Seats : s.kf[q] = x => x \in s.capF
  PROVE  Rest(UpdateLayer(s, x)) /\ Steady(s, UpdateLayer(s, x))
<1> DEFINE now == x \in s.mapped /\ s.mode # "LockScreen"
           t == [s EXCEPT !.capF = IF now THEN @ \cup {x} ELSE @ \ {x}]
<1>0. /\ x \in Surfaces /\ x \notin Windows /\ Primary \in Seats
      /\ Nothing \subseteq Nothing /\ None \notin Nothing
  BY FocusAssumption DEF Surfaces, Nothing
<1>t. \A q \in Seats : s.act[q] # x BY <1>0, FocusAssumption DEF Ok, State
<1>1. /\ t \in State /\ t.min = s.min /\ t.mapped = s.mapped /\ t.mute = s.mute
      /\ t.capA = s.capA /\ t.capF = IF now THEN s.capF \cup {x} ELSE s.capF \ {x}
      /\ t.kf = s.kf /\ t.act = s.act /\ t.hist = s.hist /\ t.flag = s.flag
      /\ t.showing = s.showing
  BY <1>0 DEF Ok, State
<1>4. Steady(s, s) /\ Steady(s, t)
  <2> HIDE DEF t
  <2> QED BY <1>1, SameSteady
<1>2. CASE now
  <2>1. Rest(t)
    <3>1. Capable(t, Nothing) BY <1>0, <1>1, <1>2 DEF Ok, Capable, Nothing
    <3>2. Focused(t, Nothing) BY <1>0, <1>t, <1>1, <1>2 DEF Ok, Focused, Nothing
    <3>3. Remembered(t, Nothing) /\ Told(t, Nothing, TRUE) BY <1>1 DEF Ok, Remembered, Told
    <3> QED BY <1>1, <3>1, <3>2, <3>3 DEF Rest, Ok
  <2>2. CASE t.capF = s.capF
    <3>1. t = s BY <1>2, <2>2 DEF Ok, State
    <3> QED BY <1>4, <2>1, <2>2, <3>1 DEF UpdateLayer
  <2>3. CASE t.capF # s.capF
    <3> DEFINE c == CancelShowDesktop(t, None)
               r == RequestKeyboardFocus(c, Primary, x)
    <3>1. UpdateLayer(s, x) = IF x = Desktop THEN t ELSE r BY <1>2, <2>3 DEF UpdateLayer
    <3> HIDE DEF t
    <3>2. Rest(c) /\ ~c.showing /\ Grown(t, c) BY <2>1, CancelShowDesktopRests
    <3>3. c \in State BY <3>2 DEF Rest, Ok
    <3> HIDE DEF c
    <3>4. Refocused(c, r) BY <1>0, <3>3, RequestKeyboardFocusRefocuses
    <3> HIDE DEF r
    <3>5. ~r.showing /\ Grown(s, r) BY <1>1, <3>2, <3>4 DEF Refocused, Still, Same, Grown
    <3>6. Steady(s, r) BY <3>5, EndedSteady
    <3> QED BY <1>4, <2>1, <3>1, <3>2, <3>4, <3>6, RestRefocused
  <2> QED BY <2>2, <2>3
<1>3. CASE ~now
  <2>1. CASE t.capF = s.capF
    <3>1. UpdateLayer(s, x) = s BY <2>1 DEF UpdateLayer
    <3>2. x \notin s.capF BY <1>1, <1>3, <2>1
    <3>3. Without(s, x) BY <1>t, <3>2 DEF Without
    <3> QED BY <1>0, <1>4, <3>1, <3>2, <3>3, OkAway DEF Rest
  <2>2. CASE t.capF # s.capF
    <3> DEFINE a == InactivationRequested(t, x)
    <3>1. UpdateLayer(s, x) = a BY <1>3, <2>2 DEF UpdateLayer
    <3>2. t.capF = s.capF \ {x} BY <1>1, <1>3
    <3> HIDE DEF t, now
    <3>3. Capable(t, {x}) BY <1>1, <3>2 DEF Ok, Capable
    <3>4. Focused(t, {x}) BY <1>1, <3>2 DEF Ok, Focused
    <3>5. Told(t, Nothing, TRUE) BY <1>1 DEF Ok, Told
    <3>6. Parting(t, {x}, Nothing, Nothing, TRUE, x)
      BY <1>1, <3>3, <3>4, <3>5 DEF Ok, Parting, Remembered
    <3>7. /\ Ok(a, {x}, Nothing \cup {x}, Nothing, TRUE) /\ Later(t, a, {}) /\ Without(a, x)
          /\ Steady(t, a)
      BY <1>0, <3>6, InactivationRequestedOk
    <3> HIDE DEF a
    <3>8. x \notin a.capF BY <1>0, <3>2, <3>7 DEF Later
    <3>9. Ok(a, Nothing, Nothing \cup {x}, Nothing, TRUE) BY <1>0, <3>7, <3>8, OkAway
    <3>10. Rest(a) BY <3>9 DEF Rest, Ok, Remembered, Nothing
    <3>11. Steady(s, a) BY <1>4, <3>7, SteadyAgain
    <3> QED BY <3>1, <3>10, <3>11
  <2> QED BY <2>1, <2>2
<1> QED BY <1>2, <1>3

LEMMA LayersFinite == IsFiniteSet(Layers)
<1>1. IsFiniteSet({Desktop}) BY FS_Singleton
<1>2. IsFiniteSet({Desktop} \cup {Panel}) BY <1>1, FS_AddElement
<1>3. Layers \subseteq {Desktop} \cup {Panel} BY FocusAssumption
<1> QED BY <1>2, <1>3, FS_Subset

LEMMA SetCurrentModeRests ==
  ASSUME NEW s, Rest(s), NEW mode \in Modes
  PROVE  Rest(SetCurrentMode(s, mode)) /\ Steady(s, SetCurrentMode(s, mode))
<1> DEFINE u == [s EXCEPT !.mode = mode]
           step == [x \in Layers |-> [t \in State |-> UpdateLayer(t, x)]]
           P == {t \in State : Rest(t) /\ Steady(s, t)}
<1>1. SetCurrentMode(s, mode) = s \/ SetCurrentMode(s, mode) = ForEach(Layers, u, step)
  BY DEF SetCurrentMode
<1>2. u \in State /\ Alike(s, u) /\ u.showing = s.showing BY DEF Rest, Ok, State, Alike
<1> HIDE DEF u
<1>3. Steady(s, s) /\ u \in P BY <1>2, RestNext, SameSteady DEF Alike
<1>4. ASSUME NEW x \in Layers, NEW t \in P PROVE step[x][t] \in P
  <2>1. Ok(t, {x}, Nothing, Nothing, TRUE)
    <3>1. Nothing \subseteq {x} BY DEF Nothing
    <3> QED BY <3>1, OkWider DEF Rest
  <2>2. \A q \in Seats : t.kf[q] = x => x \in t.capF
    <3>1. t.capA \subseteq Windows /\ x \notin Windows /\ x # None
      BY FocusAssumption DEF State, Surfaces
    <3> QED BY <3>1 DEF Rest, Ok, Focused, Nothing
  <2>3. Rest(UpdateLayer(t, x)) /\ Steady(t, UpdateLayer(t, x))
    BY <2>1, <2>2, UpdateLayerRests
  <2>4. UpdateLayer(t, x) \in State BY <2>3 DEF Rest, Ok
  <2>5. Steady(s, UpdateLayer(t, x)) BY <2>3, SteadyAgain
  <2> QED BY <2>3, <2>4, <2>5
<1> HIDE DEF step, P
<1>6. ForEach(Layers, u, step) \in P BY <1>3, <1>4, LayersFinite, ForEachKeeps
<1> QED BY <1>1, <1>3, <1>6 DEF P

\* A seat that lets go of w, which has left the history, does not turn to it again.
LEMMA RefuseOk ==
  ASSUME NEW s, NEW w \in Windows, Ok(s, Nothing, {w}, Nothing, TRUE), NEW seat \in Seats
  PROVE  /\ Ok(Refuse(s, seat, w), Nothing, {w}, Nothing, TRUE)
         /\ Steady(s, Refuse(s, seat, w))
<1> DEFINE f  == s.kf[seat]
           l  == IF f \in {None, w} \cup s.mute THEN Latest(s.hist) ELSE f
           to == IF l \in s.mute THEN None ELSE l
           d  == Deactivate(s, seat)
           N  == {w}
<1>0. w # None /\ s \in State BY RecencyAssumption DEF Ok
<1>1. Nothing \subseteq N /\ None \notin N /\ None \notin Nothing BY <1>0 DEF Nothing
<1>2. to \notin N
  <2>1. Latest(s.hist) \in Elems(s.hist) \cup {None} BY LatestElem
  <2>2. w \notin Elems(s.hist) BY DEF Ok, Remembered
  <2> QED BY <1>0, <2>1, <2>2
<1>3. \/ Refuse(s, seat, w) \in {s, d}
      \/ Refuse(s, seat, w) = Activate(s, seat, to) /\ s.act[seat] = w
      \/ Refuse(s, seat, w) = RequestKeyboardFocus(s, seat, to) /\ s.kf[seat] = w
      \/ Refuse(s, seat, w) = RequestKeyboardFocus(d, seat, None)
      \/ Refuse(s, seat, w) = RequestKeyboardFocus(s, seat, None)
  <2> DEFINE mine == s.act[seat] = w
             keys == s.kf[seat] = w
             a == IF mine THEN d ELSE s
  <2>1. Refuse(s, seat, w) =
          CASE ~mine /\ ~keys -> s
            [] (mine \/ keys) /\ seat # Primary ->
                 IF keys THEN RequestKeyboardFocus(a, seat, None) ELSE a
            [] (mine \/ keys) /\ seat = Primary ->
                 IF mine THEN Activate(s, seat, to) ELSE RequestKeyboardFocus(s, seat, to)
    BY DEF Refuse
  <2> HIDE DEF to, d
  <2> QED BY <2>1
<1>9. s.act[seat] = w => Fresh(s, seat, to)
  <2>1. Latest(s.hist) \in Elems(s.hist) \cup {None} BY LatestElem
  <2>2. Elems(s.hist) \subseteq s.capA BY DEF Ok, Remembered
  <2>3. f \in {None} \cup s.capA \cup (s.capF \ Windows) BY DEF Ok, Focused, Nothing
  <2>4. None \notin Windows BY RecencyAssumption
  <2> QED BY <1>2, <2>1, <2>2, <2>3, <2>4 DEF Fresh
<1> HIDE DEF to, N
<1>4. Ok(s, Nothing, N, Nothing, TRUE) BY DEF N
<1>5. /\ Ok(d, Nothing, N, Nothing, TRUE) /\ d.kf = s.kf /\ d.showing = s.showing
      /\ d.capA = s.capA
  <2>1. Ok(d, Nothing, N, Nothing, TRUE) BY <1>1, <1>4, DeactivateOk
  <2> QED BY <1>0, <2>1 DEF State, Deactivate, Unflag
<1>10. s.act[seat] = w => Steady(s, Activate(s, seat, to))
  BY <1>1, <1>2, <1>4, <1>9, ActivateSteady
<1>6. Ok(Activate(s, seat, to), Nothing, N, Nothing, TRUE) BY <1>1, <1>2, <1>4, ActivateOk
<1> HIDE DEF d
<1>7. ASSUME NEW t, Ok(t, Nothing, N, Nothing, TRUE), NEW y
      PROVE  /\ Ok(RequestKeyboardFocus(t, seat, y), Nothing, N, Nothing, TRUE)
             /\ y \notin Windows \/ t.kf[seat] \in Windows =>
                  Steady(t, RequestKeyboardFocus(t, seat, y))
  <2>1. t \in State BY <1>7 DEF Ok
  <2>2. Refocused(t, RequestKeyboardFocus(t, seat, y)) BY <2>1, RequestKeyboardFocusRefocuses
  <2>3. y \notin Windows \/ t.kf[seat] \in Windows => Steady(t, RequestKeyboardFocus(t, seat, y))
    BY <2>1, RequestSteady
  <2> QED BY <1>7, <2>2, <2>3, RefocusedOk
<1>11. Steady(s, s) /\ Steady(s, d) BY <1>5, SameSteady
<1>12. Steady(s, RequestKeyboardFocus(d, seat, None))
  <2>1. Steady(d, RequestKeyboardFocus(d, seat, None)) BY <1>5, <1>7, RecencyAssumption
  <2> QED BY <1>11, <2>1, SteadyAgain
<1>13. s.kf[seat] = w => Steady(s, RequestKeyboardFocus(s, seat, to)) BY <1>4, <1>7
<1>15. Steady(s, RequestKeyboardFocus(s, seat, None)) BY <1>4, <1>7, RecencyAssumption
<1>16. /\ Ok(RequestKeyboardFocus(s, seat, to), Nothing, N, Nothing, TRUE)
       /\ Ok(RequestKeyboardFocus(s, seat, None), Nothing, N, Nothing, TRUE)
  BY <1>4, <1>7
<1>17. Ok(RequestKeyboardFocus(d, seat, None), Nothing, N, Nothing, TRUE) BY <1>5, <1>7
<1>8. Ok(Refuse(s, seat, w), Nothing, N, Nothing, TRUE)
  BY <1>3, <1>4, <1>5, <1>6, <1>16, <1>17
<1>14. Steady(s, Refuse(s, seat, w)) BY <1>3, <1>10, <1>11, <1>12, <1>13, <1>15
<1> QED BY <1>8, <1>14 DEF N

LEMMA ToDesktopRests ==
  ASSUME NEW s, Rest(s), NEW seat \in Seats
  PROVE  Rest(ToDesktop(s, seat)) /\ ToDesktop(s, seat).capA = s.capA
<1> DEFINE p == PopupOf[seat]
           k == KeyboardGrabEnd(s, seat)
           d == PopupDestroyed(k, p)
           e == IF seat \in s.grab THEN d ELSE s
           y == IF Desktop \in e.there THEN Desktop ELSE None
           r == RequestKeyboardFocus(e, seat, y)
<1>1. ToDesktop(s, seat) = r BY DEF ToDesktop
<1>2. seat \in s.grab => Rest(d) /\ d.capA = s.capA
  <2> SUFFICES ASSUME seat \in s.grab PROVE Rest(d) /\ d.capA = s.capA OBVIOUS
  <2>1. p \in Popups BY DEF Rest, Ok, State, Popups
  <2>2. Nothing \subseteq {p} BY DEF Nothing
  <2>3. Ok(k, Nothing, Nothing, Nothing, TRUE) /\ k.capA = s.capA BY KeyboardGrabEndOk DEF Rest
  <2> HIDE DEF k, p
  <2>4. Ok(k, {p}, Nothing, Nothing, TRUE) BY <2>2, <2>3, OkWider
  <2>5. Rest(d) /\ d.capA = k.capA BY <2>1, <2>4, PopupDestroyedRests
  <2> QED BY <2>3, <2>5
<1> HIDE DEF d
<1>3. Rest(e) /\ e.capA = s.capA BY <1>2
<1>4. e \in State BY <1>3 DEF Rest, Ok
<1> HIDE DEF e, y
<1>5. Refocused(e, r) BY <1>4, RequestKeyboardFocusRefocuses
<1> HIDE DEF r
<1>6. r.capA = e.capA BY <1>5 DEF Refocused, Still, Same
<1> QED BY <1>1, <1>3, <1>5, <1>6, RestRefocused

-----------------------------------------------------------------------------
(* The actions. *)

LEMMA InitRests == Init => Rest(st)
<1> SUFFICES ASSUME Init PROVE Rest(st) OBVIOUS
<1>1. st \in State BY FocusAssumption DEF Init, State, Modes
<1>2. Capable(st, Nothing) BY DEF Init, Capable, Nothing
<1>3. Focused(st, Nothing) BY DEF Init, Focused, Nothing
<1>4. Remembered(st, Nothing) BY DEF Init, Remembered, Elems
<1>5. Told(st, Nothing, TRUE) BY FocusAssumption DEF Init, Told, Nothing
<1> QED BY <1>1, <1>2, <1>3, <1>4, <1>5 DEF Rest, Ok

LEMMA CreateRests ==
  ASSUME Rest(st), NEW x \in Surfaces, Create(x)
  PROVE  Rest(st') /\ Steady(st, st')
<1>1. st' \in State /\ Alike(st, st') /\ st'.showing = st.showing
  BY DEF Create, Rest, Ok, State, Alike
<1> QED BY <1>1, RestNext, SameSteady DEF Alike

LEMMA MapWindowRests ==
  ASSUME Rest(st), NEW w \in Windows, MapWindow(w)
  PROVE  Rest(st') /\ Steady(st, st')
<1> DEFINE m == [st EXCEPT !.mapped = @ \cup {w}]
           g == GainActiveCapability(m, w)
           f == SetFocusCapability(g, w, w \notin st.mute)
<1>0. w \in Surfaces BY DEF Surfaces
<1>1. /\ m \in State /\ m.min = st.min /\ m.mapped = st.mapped \cup {w} /\ m.mute = st.mute
      /\ m.capA = st.capA /\ m.capF = st.capF
      /\ m.kf = st.kf /\ m.act = st.act /\ m.hist = st.hist /\ m.flag = st.flag
      /\ m.showing = st.showing
  BY <1>0 DEF Rest, Ok, State
<1>2. st' = UpdateVisible(IF w \in st.min THEN m ELSE f, w) BY DEF MapWindow
<1> HIDE DEF m
<1>6. Steady(st, m) BY <1>1, SameSteady
<1>3. Remembered(m, Nothing) /\ Told(m, Nothing, TRUE) BY <1>1 DEF Rest, Ok, Remembered, Told
<1>4. CASE w \in st.min
  <2>1. Capable(m, Nothing) /\ Focused(m, Nothing)
    BY <1>1, <1>4 DEF Rest, Ok, Capable, Focused, Nothing
  <2>2. Rest(m) BY <1>1, <1>3, <2>1 DEF Rest, Ok
  <2>3. Rest(UpdateVisible(m, w)) /\ Steady(m, UpdateVisible(m, w))
    BY <2>2, UpdateVisibleRests
  <2> QED BY <1>2, <1>4, <1>6, <2>3, SteadyAgain
<1>5. CASE w \notin st.min
  <2>1. Capable(m, {w}) BY <1>1 DEF Rest, Ok, Capable, Nothing
  <2>2. Focused(m, {w}) BY <1>1 DEF Rest, Ok, Focused, Nothing
  <2>3. Ok(m, {w}, Nothing, Nothing, TRUE) BY <1>1, <1>3, <2>1, <2>2 DEF Ok
  <2>4. w \in m.mapped \ m.min BY <1>1, <1>5
  <2>8. w \in m.capA \/ m.act[Primary] # w
    BY <1>1, FocusAssumption, RecencyAssumption DEF Rest, Ok, Focused, Nothing
  <2>5. Ok(g, {w}, Nothing, Nothing, TRUE) /\ w \in g.capA /\ g.mute = m.mute /\ Steady(m, g)
    BY <2>3, <2>4, <2>8, GainOk
  <2> HIDE DEF g
  <2>6. MayGain(g, w, {w}) /\ MayLose(g, w, {w}) BY DEF MayGain, MayLose
  <2>7. Rest(f) /\ Steady(g, f)
    <3>1. CASE w \notin st.mute
      <4>1. f = SetFocusCapability(g, w, TRUE) BY <3>1 DEF SetFocusCapability
      <4> HIDE DEF f
      <4>2. /\ Ok(f, {w}, Nothing, Nothing, TRUE) /\ Given(g, f, w)
        BY <2>5, <2>6, <4>1, GiveFocusCapabilityOk
      <4>3. w \in f.capA /\ w \in f.capF \cup f.mute BY <2>5, <4>2 DEF Given
      <4> QED BY <4>2, <4>3, OkBack, GivenSteady DEF Rest
    <3>2. CASE w \in st.mute
      <4>1. f = SetFocusCapability(g, w, FALSE) BY <3>2 DEF SetFocusCapability
      <4> HIDE DEF f
      <4>2. /\ Ok(f, {w}, Nothing, Nothing, TRUE) /\ Taken(g, f, w)
        BY <2>5, <2>6, <4>1, DropFocusCapabilityOk
      <4>3. w \in f.capA /\ w \in f.capF \cup f.mute BY <1>1, <2>5, <3>2, <4>2 DEF Taken
      <4> QED BY <4>2, <4>3, OkBack, TakenSteady DEF Rest
    <3> QED BY <3>1, <3>2
  <2> HIDE DEF f
  <2>9. Steady(st, g) BY <1>6, <2>5, SteadyAgain
  <2>10. Steady(st, f) BY <2>7, <2>9, SteadyAgain
  <2>11. Rest(UpdateVisible(f, w)) /\ Steady(f, UpdateVisible(f, w))
    BY <2>7, UpdateVisibleRests
  <2> QED BY <1>2, <1>5, <2>10, <2>11, SteadyAgain
<1> QED BY <1>4, <1>5

LEMMA UnmapWindowRests ==
  ASSUME Rest(st), NEW w \in Windows, UnmapWindow(w)
  PROVE  Rest(st') /\ KeepsOff(st, st') /\ OnlyLoses(st, st', w)
<1> DEFINE m == [st EXCEPT !.mapped = @ \ {w}]
<1>1. /\ m \in State /\ m.min = st.min /\ m.mapped = st.mapped \ {w} /\ m.mute = st.mute
      /\ m.capA = st.capA /\ m.capF = st.capF
      /\ m.kf = st.kf /\ m.act = st.act /\ m.hist = st.hist /\ m.flag = st.flag
      /\ m.showing = st.showing
  BY DEF Rest, Ok, State
<1>2. st' = Losing(m, w, LoseActiveCapability(m, w)) BY DEF UnmapWindow
<1> HIDE DEF m
<1>3. m.mapped \ m.min = (st.mapped \ st.min) \ {w} /\ st.mapped \ {w} \subseteq m.mapped BY <1>1
<1>4. Rest(st') /\ KeepsOff(m, st') /\ OnlyLoses(m, st', w) BY <1>1, <1>2, <1>3, LosingRests
<1>5. OnlyLoses(st, st', w) BY <1>1, <1>4 DEF OnlyLoses
<1> QED BY <1>1, <1>4, <1>5, SameKeepsOff, KeepsOffAgain

LEMMA DestroyRests ==
  ASSUME Rest(st), NEW x \in Surfaces, Destroy(x)
  PROVE  Rest(st') /\ Steady(st, st')
<1> DEFINE d == SurfaceDestroyed(st, x)
<1>0. None \notin Nothing /\ x \notin st.mapped BY DEF Nothing, Destroy
<1>1. Ok(d, Nothing, Nothing, Nothing, TRUE) /\ Same(st, d) /\ Dims(st, d) /\ Without(d, x)
  BY <1>0, SurfaceDestroyedOk DEF Rest
<1>2. st' = [d EXCEPT
               !.there = @ \ {x}, !.min = @ \ {x}, !.mute = @ \ {x}, !.anim = @ \ {x},
               !.flag = @ \ {x},
               !.unhid = IF x \in Windows THEN @ \cup {x} ELSE @,
               !.back = [s \in Seats |-> IF @[s] = x THEN None ELSE @[s]]]
  BY DEF Destroy
<1>3. d \in State /\ x \notin d.mapped BY <1>0, <1>1 DEF Ok, Same
<1> HIDE DEF d
<1>4. /\ st' \in State /\ st'.min = d.min \ {x} /\ st'.mapped = d.mapped
      /\ st'.mute = d.mute \ {x} /\ st'.capA = d.capA /\ st'.capF = d.capF
      /\ st'.kf = d.kf /\ st'.act = d.act /\ st'.hist = d.hist /\ st'.flag = d.flag \ {x}
      /\ st'.showing = d.showing
  BY <1>2, <1>3 DEF State
<1>5. Capable(st', Nothing) BY <1>1, <1>3, <1>4 DEF Ok, Capable
<1>6. Focused(st', Nothing) BY <1>1, <1>4 DEF Ok, Focused
<1>7. Remembered(st', Nothing) BY <1>1, <1>4 DEF Ok, Remembered
<1>8. Told(st', Nothing, TRUE) BY <1>1, <1>4, FocusAssumption DEF Ok, Told, Without
<1>9. Steady(st, d) BY <1>1, DimsSteady DEF Same
<1>10. Steady(st, st') BY <1>4, <1>9, SameSteady, SteadyAgain
<1> QED BY <1>4, <1>5, <1>6, <1>7, <1>8, <1>10 DEF Rest, Ok

LEMMA MapLayerRests ==
  ASSUME Rest(st), NEW x \in Layers, NEW now \in BOOLEAN, MapLayer(x, now)
  PROVE  Rest(st') /\ Steady(st, st')
<1> DEFINE m == [st EXCEPT !.mapped = IF now THEN @ \cup {x} ELSE @ \ {x}]
<1>0. x \in Surfaces /\ x \notin Windows /\ x # None BY FocusAssumption DEF Surfaces
<1>1. /\ m \in State /\ m.min = st.min /\ m.mute = st.mute
      /\ m.mapped = IF now THEN st.mapped \cup {x} ELSE st.mapped \ {x}
      /\ m.capA = st.capA /\ m.capF = st.capF
      /\ m.kf = st.kf /\ m.act = st.act /\ m.hist = st.hist /\ m.flag = st.flag
      /\ m.showing = st.showing
  BY <1>0 DEF Rest, Ok, State
<1>2. st' = UpdateLayer(m, x) BY DEF MapLayer
<1> HIDE DEF m
<1>3. st.capA \subseteq Windows BY DEF Rest, Ok, State
<1>4. Capable(m, {x}) BY <1>0, <1>1, <1>3 DEF Rest, Ok, Capable, Nothing
<1>5. Focused(m, {x}) BY <1>1 DEF Rest, Ok, Focused, Nothing
<1>6. Remembered(m, Nothing) /\ Told(m, Nothing, TRUE) BY <1>1 DEF Rest, Ok, Remembered, Told
<1>7. Ok(m, {x}, Nothing, Nothing, TRUE) BY <1>1, <1>4, <1>5, <1>6 DEF Ok
<1>8. \A q \in Seats : m.kf[q] = x => x \in m.capF
  BY <1>0, <1>1, <1>3 DEF Rest, Ok, Focused, Nothing
<1>9. Rest(st') /\ Steady(m, st') BY <1>2, <1>7, <1>8, UpdateLayerRests
<1> QED BY <1>1, <1>9, SameSteady, SteadyAgain

\* The acceptance of the keyboard changes for w, which the history must allow.
LEMMA MuteOk ==
  ASSUME NEW s, NEW N, Ok(s, Nothing, N, Nothing, TRUE), NEW M \in SUBSET Windows, NEW w \in Windows,
         s.mute \ {w} \subseteq M, ShellV2 \/ M \subseteq s.mute \cup N
  PROVE  LET t == [s EXCEPT !.mute = M]
         IN  /\ Ok(t, {w}, Nothing, Nothing, TRUE)
             /\ w \in M \/ w \notin s.capA => Rest(t)
             /\ t.mute = M /\ t.capA = s.capA /\ t.kf = s.kf /\ t.showing = s.showing
<1> DEFINE t == [s EXCEPT !.mute = M]
<1>1. /\ t \in State /\ t.min = s.min /\ t.mapped = s.mapped /\ t.mute = M
      /\ t.capA = s.capA /\ t.capF = s.capF /\ t.showing = s.showing
      /\ t.kf = s.kf /\ t.act = s.act /\ t.hist = s.hist /\ t.flag = s.flag
  BY DEF Ok, State
<1> HIDE DEF t
<1>2. Focused(t, Nothing) /\ Focused(t, {w}) /\ Told(t, Nothing, TRUE)
  BY <1>1 DEF Ok, Focused, Told, Nothing
<1>3. Remembered(t, Nothing) BY <1>1 DEF Ok, Remembered, Nothing
<1>4. Capable(t, {w}) BY <1>1 DEF Ok, Capable, Nothing
<1>5. w \in M \/ w \notin s.capA => Capable(t, Nothing) BY <1>1 DEF Ok, Capable, Nothing
<1> QED BY <1>1, <1>2, <1>3, <1>4, <1>5 DEF Rest, Ok, t

\* A window has the focus capability after the change if it can be active.
LEMMA SetFocusCapabilityRests ==
  ASSUME NEW s, NEW w \in Windows, Ok(s, {w}, Nothing, Nothing, TRUE), NEW now, now \in BOOLEAN,
         now => w \in s.capA, ~now => Rest(s) /\ w \notin s.capA \ s.mute
  PROVE  Rest(SetFocusCapability(s, w, now)) /\ Steady(s, SetFocusCapability(s, w, now))
<1>1. CASE now
  <2> DEFINE t == SetFocusCapability(s, w, TRUE)
  <2>1. SetFocusCapability(s, w, now) = t BY <1>1 DEF SetFocusCapability
  <2>2. MayGain(s, w, {w}) BY DEF MayGain
  <2>3. Ok(t, {w}, Nothing, Nothing, TRUE) /\ Given(s, t, w)
    BY <2>2, GiveFocusCapabilityOk
  <2> HIDE DEF t
  <2>4. w \in t.capA /\ w \in t.capF \cup t.mute BY <1>1, <2>3 DEF Given
  <2> QED BY <2>1, <2>3, <2>4, OkBack, GivenSteady DEF Rest
<1>2. CASE ~now
  <2>1. SetFocusCapability(s, w, now) = SetFocusCapability(s, w, FALSE)
    BY <1>2 DEF SetFocusCapability
  <2> DEFINE t == SetFocusCapability(s, w, FALSE)
  <2>2. MayLose(s, w, Nothing) BY <1>2 DEF MayLose
  <2>3. Ok(t, Nothing, Nothing, Nothing, TRUE) /\ Taken(s, t, w)
    BY <1>2, <2>2, DropFocusCapabilityOk DEF Rest
  <2> HIDE DEF t
  <2> QED BY <2>1, <2>3, TakenSteady DEF Rest, t
<1> QED BY <1>1, <1>2

LEMMA AcceptKeyboardFocusRests ==
  ASSUME Rest(st), NEW w \in Windows, NEW accept \in BOOLEAN, AcceptKeyboardFocus(w, accept)
  PROVE  Rest(st') /\ Steady(st, st')
<1>0. st \in State BY DEF Rest, Ok
<1>1. CASE accept
  <2> DEFINE M == st.mute \ {w}
             t == [st EXCEPT !.mute = M]
             now == w \in st.mapped \ st.min
  <2>1. [st EXCEPT !.mute = @ \ {w}] = t BY <1>0 DEF State
  <2>2. st' = SetFocusCapability(t, w, now) BY <1>1, <2>1 DEF AcceptKeyboardFocus
  <2>3. M \in SUBSET Windows /\ M \subseteq st.mute \cup Nothing /\ st.mute \ {w} \subseteq M
    BY <1>0 DEF State
  <2> HIDE DEF M
  <2>4. /\ Ok(t, {w}, Nothing, Nothing, TRUE) /\ t.capA = st.capA
        /\ w \notin st.capA => Rest(t)
    BY <2>3, MuteOk DEF Rest
  <2>7. t.kf = st.kf /\ t.showing = st.showing /\ t.capA = st.capA BY <1>0 DEF State
  <2> HIDE DEF t
  <2>5. /\ now \in BOOLEAN /\ (now => w \in t.capA)
        /\ ~now => Rest(t) /\ w \notin t.capA \ t.mute
    <3>1. now <=> w \in st.capA BY DEF Rest, Ok, Capable, Nothing
    <3> HIDE DEF now
    <3>2. now \in BOOLEAN BY DEF now
    <3> QED BY <2>4, <3>1, <3>2
  <2> HIDE DEF now
  <2>6. Rest(st') /\ Steady(t, st') BY <2>2, <2>4, <2>5, SetFocusCapabilityRests
  <2> QED BY <2>6, <2>7, SameSteady, SteadyAgain
<1>2. CASE ~accept
  <2> DEFINE N == {w}
             step == [seat \in Seats |-> [t \in State |-> Refuse(t, seat, w)]]
             f == Forget(st, w)
             d == ForEach(Seats, f, step)
             M == d.mute \cup {w}
             t == [d EXCEPT !.mute = M]
             P == {u \in State : Ok(u, Nothing, N, Nothing, TRUE) /\ Steady(st, u)}
  <2>1. st' = SetFocusCapability([d EXCEPT !.mute = @ \cup {w}], w, FALSE)
    BY <1>2 DEF AcceptKeyboardFocus
  <2>2. Parting(st, Nothing, Nothing, Nothing, TRUE, w) BY DEF Rest, Ok, Parting, Remembered
  <2>3. /\ Ok(f, Nothing, Nothing \cup {w}, Nothing, TRUE) /\ Same(st, f)
        /\ f.kf = st.kf
    BY <2>2, ForgetOk
  <2>4. Nothing \cup {w} = N BY DEF Nothing
  <2>5. f \in P
    <3>1. Steady(st, f) BY <2>3, SameSteady DEF Same
    <3> QED BY <2>3, <2>4, <3>1 DEF Ok
  <2>6. ASSUME NEW seat \in Seats, NEW u \in P PROVE step[seat][u] \in P
    <3>1. step[seat][u] = Refuse(u, seat, w) OBVIOUS
    <3>2. Ok(Refuse(u, seat, w), Nothing, N, Nothing, TRUE) /\ Steady(u, Refuse(u, seat, w))
      BY RefuseOk
    <3>3. Refuse(u, seat, w) \in State BY <3>2 DEF Ok
    <3>4. Steady(st, Refuse(u, seat, w)) BY <3>2, SteadyAgain
    <3> QED BY <3>1, <3>2, <3>3, <3>4
  <2> HIDE DEF step, f, P
  <2>7. d \in P BY <2>5, <2>6, ForEachKeeps, FocusAssumption
  <2> HIDE DEF d
  <2>8. d \in State /\ Ok(d, Nothing, N, Nothing, TRUE) /\ Steady(st, d) BY <2>7 DEF P
  <2>9. [d EXCEPT !.mute = @ \cup {w}] = t BY <2>8 DEF State
  <2>10. /\ M \in SUBSET Windows /\ M \subseteq d.mute \cup N
         /\ d.mute \ {w} \subseteq M /\ w \in M
    BY <2>8 DEF State
  <2> HIDE DEF M, N
  <2>11. Rest(t) /\ t.mute = M /\ t.kf = d.kf /\ t.showing = d.showing /\ t.capA = d.capA
    <3>1. Rest(t) /\ t.mute = M BY <2>8, <2>10, MuteOk
    <3> QED BY <2>8, <3>1 DEF State
  <2> HIDE DEF t
  <2>12. MayLose(t, w, Nothing) BY <2>10, <2>11 DEF MayLose
  <2>13. Ok(st', Nothing, Nothing, Nothing, TRUE) /\ Taken(t, st', w)
    BY <2>1, <2>9, <2>11, <2>12, DropFocusCapabilityOk DEF Rest
  <2>14. Steady(d, t) /\ Steady(t, st') BY <2>11, <2>13, SameSteady, TakenSteady
  <2>15. Steady(st, t) BY <2>8, <2>14, SteadyAgain
  <2> QED BY <2>13, <2>14, <2>15, SteadyAgain DEF Rest
<1> QED BY <1>1, <1>2

LEMMA AcceptKeyboardFocusV2Rests ==
  ASSUME Rest(st), NEW w \in Windows, NEW accept \in BOOLEAN, AcceptKeyboardFocusV2(w, accept)
  PROVE  Rest(st') /\ Steady(st, st')
<1> DEFINE M == IF accept THEN st.mute \ {w} ELSE st.mute \cup {w}
           t == [st EXCEPT !.mute = M]
           now == accept /\ w \in st.mapped \ st.min
<1>0. st \in State BY DEF Rest, Ok
<1>1. [st EXCEPT !.mute = IF accept THEN @ \ {w} ELSE @ \cup {w}] = t BY <1>0 DEF State
<1>2. ShellV2 /\ st' = SetFocusCapability(t, w, now) BY <1>1 DEF AcceptKeyboardFocusV2
<1>3. M \in SUBSET Windows /\ st.mute \ {w} \subseteq M /\ (~accept => w \in M)
  BY <1>0 DEF State
<1> HIDE DEF M
<1>4. /\ Ok(t, {w}, Nothing, Nothing, TRUE) /\ t.capA = st.capA /\ t.mute = M
      /\ w \in M \/ w \notin st.capA => Rest(t)
      /\ t.kf = st.kf /\ t.showing = st.showing
  BY <1>2, <1>3, MuteOk DEF Rest
<1> HIDE DEF t
<1>5. /\ now \in BOOLEAN /\ (now => w \in t.capA)
      /\ ~now => Rest(t) /\ w \notin t.capA \ t.mute
  BY <1>3, <1>4 DEF Rest, Ok, Capable, Nothing
<1> HIDE DEF now
<1>6. Rest(st') /\ Steady(t, st') BY <1>2, <1>4, <1>5, SetFocusCapabilityRests
<1> QED BY <1>4, <1>6, SameSteady, SteadyAgain

LEMMA GrabBeginRests ==
  ASSUME Rest(st), NEW seat \in DOMAIN PopupOf, GrabBegin(seat)
  PROVE  Rest(st') /\ Steady(st, st')
<1>1. PopupOf[seat] \in Surfaces /\ seat \in Seats BY FocusAssumption DEF Surfaces, Popups
<1>2. st' \in State /\ Alike(st, st') /\ st'.showing = st.showing
  BY <1>1 DEF GrabBegin, Rest, Ok, State, Alike
<1> QED BY <1>2, RestNext, SameSteady DEF Alike

LEMMA PopupMappedRests ==
  ASSUME Rest(st), NEW seat \in DOMAIN PopupOf, PopupMapped(seat)
  PROVE  Rest(st') /\ Steady(st, st')
<1> DEFINE p == PopupOf[seat]
           m == [st EXCEPT !.mapped = @ \cup {p}, !.capF = @ \cup {p}]
           k == SetKeyboardFocus(m, seat, p)
<1>0. seat \in Seats /\ p \in Surfaces /\ p \notin Windows
  BY FocusAssumption DEF Surfaces, Popups
<1>1. st' = IF seat \in st.grab THEN k ELSE m BY DEF PopupMapped
<1> HIDE DEF p
<1>2. /\ m \in State /\ m.min = st.min /\ m.mapped = st.mapped \cup {p} /\ m.mute = st.mute
      /\ m.capA = st.capA /\ m.capF = st.capF \cup {p}
      /\ m.kf = st.kf /\ m.act = st.act /\ m.hist = st.hist /\ m.flag = st.flag
      /\ m.showing = st.showing
  BY <1>0 DEF Rest, Ok, State
<1> HIDE DEF m
<1>3. Capable(m, Nothing) BY <1>0, <1>2 DEF Rest, Ok, Capable, Nothing
<1>4. Focused(m, Nothing) BY <1>2 DEF Rest, Ok, Focused
<1>5. Remembered(m, Nothing) /\ Told(m, Nothing, TRUE) BY <1>2 DEF Rest, Ok, Remembered, Told
<1>6. Rest(m) BY <1>2, <1>3, <1>4, <1>5 DEF Rest, Ok
<1>7. p \in m.capF \cup {None} BY <1>2
<1>8. Refocused(m, k) /\ \A q \in Seats : k.kf[q] \in {m.kf[q], None, p}
  BY <1>0, <1>2, <1>7, SetKeyboardFocusRefocuses
<1> HIDE DEF k
<1>9. Steady(st, m) BY <1>2, SameSteady
<1>10. Steady(st, k)
  BY <1>0, <1>2, <1>8, RecencyAssumption DEF Refocused, Still, Same, Steady, KeepsOff, Grown
<1> QED BY <1>1, <1>6, <1>8, <1>9, <1>10, RestRefocused

LEMMA PopupClosedRests ==
  ASSUME Rest(st), NEW seat \in DOMAIN PopupOf, NEW dismissed \in BOOLEAN,
         PopupClosed(seat, dismissed)
  PROVE  Rest(st') /\ Steady(st, st')
<1> DEFINE p == PopupOf[seat]
           u == [st EXCEPT !.mapped = @ \ {p}, !.capF = @ \ {p}]
           v == IF dismissed THEN st ELSE u
           k == KeyboardGrabEnd(v, seat)
<1>0. seat \in Seats /\ p \in Popups /\ p \notin Windows /\ Nothing \subseteq {p}
  BY FocusAssumption DEF Popups, Nothing
<1>1. st' = PopupDestroyed(k, p) BY DEF PopupClosed
<1> HIDE DEF p
<1>2. /\ u \in State /\ u.min = st.min /\ u.mapped = st.mapped \ {p} /\ u.mute = st.mute
      /\ u.capA = st.capA /\ u.capF = st.capF \ {p}
      /\ u.kf = st.kf /\ u.act = st.act /\ u.hist = st.hist /\ u.flag = st.flag
      /\ u.showing = st.showing
  BY DEF Rest, Ok, State
<1> HIDE DEF u
<1>3. st.capA \subseteq Windows BY DEF Rest, Ok, State
<1>4. Capable(u, {p}) BY <1>0, <1>2, <1>3 DEF Rest, Ok, Capable, Nothing
<1>5. Focused(u, {p}) BY <1>2 DEF Rest, Ok, Focused, Nothing
<1>6. Remembered(u, Nothing) /\ Told(u, Nothing, TRUE) BY <1>2 DEF Rest, Ok, Remembered, Told
<1>7. Ok(u, {p}, Nothing, Nothing, TRUE) BY <1>2, <1>4, <1>5, <1>6 DEF Ok
<1>8. Ok(st, {p}, Nothing, Nothing, TRUE) BY <1>0, OkWider DEF Rest
<1>9. /\ Ok(v, {p}, Nothing, Nothing, TRUE) /\ v.kf = st.kf /\ v.showing = st.showing
      /\ v.capA = st.capA
  BY <1>2, <1>7, <1>8
<1> HIDE DEF v
<1>10. Ok(k, {p}, Nothing, Nothing, TRUE) /\ Steady(v, k) BY <1>0, <1>9, KeyboardGrabEndOk
<1> HIDE DEF k
<1>11. Rest(st') /\ Steady(k, st') BY <1>0, <1>1, <1>10, PopupDestroyedRests
<1>12. Steady(st, v) BY <1>9, SameSteady
<1>13. Steady(st, k) BY <1>10, <1>12, SteadyAgain
<1> QED BY <1>11, <1>13, SteadyAgain

LEMMA ShowDesktopRests ==
  ASSUME Rest(st), ShowDesktop
  PROVE  Rest(st') /\ st'.capA = st.capA
<1> DEFINE hide == (st.there \cap Windows) \ st.min
           s == [st EXCEPT !.showing = TRUE, !.unhid = @ \ hide, !.anim = @ \cup hide]
           step == [seat \in Seats |-> [t \in State |-> ToDesktop(t, seat)]]
           P == {t \in State : Rest(t) /\ t.capA = st.capA}
<1>1. st' = ForEach(Seats, s, step) BY DEF ShowDesktop
<1>2. s \in State /\ Alike(st, s) BY DEF Rest, Ok, State, Alike
<1> HIDE DEF s
<1>3. s \in P BY <1>2, RestNext DEF Alike
<1>4. ASSUME NEW seat \in Seats, NEW t \in P PROVE step[seat][t] \in P
  <2>1. Rest(ToDesktop(t, seat)) /\ ToDesktop(t, seat).capA = t.capA BY ToDesktopRests
  <2>2. ToDesktop(t, seat) \in State BY <2>1 DEF Rest, Ok
  <2> QED BY <2>1, <2>2
<1> HIDE DEF step, P
<1>5. ForEach(Seats, s, step) \in P BY <1>3, <1>4, ForEachKeeps, FocusAssumption
<1> QED BY <1>1, <1>5 DEF P

LEMMA LeaveShowDesktopRests ==
  ASSUME Rest(st), LeaveShowDesktop
  PROVE  Rest(st') /\ ~st'.showing
<1> DEFINE back == (st.there \cap Windows) \ st.min
           s == [st EXCEPT !.showing = FALSE, !.unhid = @ \cup back, !.anim = @ \cup back]
<1>1. st' = RestoreShowDesktopFocus(s) BY DEF LeaveShowDesktop
<1>2. s \in State /\ Alike(st, s) /\ ~s.showing BY DEF Rest, Ok, State, Alike
<1> HIDE DEF s
<1>3. Rest(s) BY <1>2, RestNext
<1> QED BY <1>1, <1>2, <1>3, RestoreShowDesktopFocusRests

LEMMA ShowDesktopAnimationFinishedRests ==
  ASSUME Rest(st), NEW w \in Windows, ShowDesktopAnimationFinished(w)
  PROVE  Rest(st') /\ Steady(st, st')
<1> DEFINE s == [st EXCEPT !.anim = @ \ {w}]
<1>1. st' = UpdateVisible(s, w) BY DEF ShowDesktopAnimationFinished
<1>2. s \in State /\ Alike(st, s) /\ s.showing = st.showing BY DEF Rest, Ok, State, Alike
<1> HIDE DEF s
<1>3. Rest(s) /\ Steady(st, s) BY <1>2, RestNext, SameSteady DEF Alike
<1>4. Rest(st') /\ Steady(s, st') BY <1>1, <1>3, UpdateVisibleRests
<1> QED BY <1>3, <1>4, SteadyAgain

\* An item that is not a surface takes the keyboard.
LEMMA FocusLeavesRests ==
  ASSUME NEW s, Rest(s)
  PROVE  Rest(FocusLeaves(s)) /\ Steady(s, FocusLeaves(s))
<1>1. s \in State BY DEF Rest, Ok
<1>2. Refocused(s, FocusLeaves(s)) /\ FocusLeaves(s).kf = [q \in Seats |-> None]
  BY <1>1, FocusLeavesRefocuses
<1>3. Dims(s, FocusLeaves(s)) BY <1>2 DEF Dims
<1> QED BY <1>2, <1>3, RestRefocused, DimsSteady DEF Refocused, Still, Same

LEMMA LockRests ==
  ASSUME Rest(st), Lock \/ ShutdownMenu \/ TaskSwitch
  PROVE  Rest(st') /\ Steady(st, st')
<1>0. "Normal" \in Modes /\ "LockScreen" \in Modes /\ "WindowSwitch" \in Modes BY DEF Modes
<1>1. CASE Lock
  <2> DEFINE n == SetCurrentMode(st, "Normal")
             l == SetCurrentMode(n, "LockScreen")
  <2>1. st' = FocusLeaves(l) BY <1>1 DEF Lock
  <2>2. Rest(n) /\ Steady(st, n) BY <1>0, SetCurrentModeRests
  <2> HIDE DEF n
  <2>3. Rest(l) /\ Steady(n, l) BY <1>0, <2>2, SetCurrentModeRests
  <2> HIDE DEF l
  <2>4. Rest(st') /\ Steady(l, st') BY <2>1, <2>3, FocusLeavesRests
  <2>5. Steady(st, l) BY <2>2, <2>3, SteadyAgain
  <2> QED BY <2>4, <2>5, SteadyAgain
<1>2. CASE ShutdownMenu
  <2> DEFINE s == [st EXCEPT !.menu = TRUE]
  <2>1. st' = FocusLeaves(s) BY <1>2 DEF ShutdownMenu
  <2>2. s \in State /\ Alike(st, s) /\ s.showing = st.showing BY DEF Rest, Ok, State, Alike
  <2> HIDE DEF s
  <2>3. Rest(s) /\ Steady(st, s) BY <2>2, RestNext, SameSteady DEF Alike
  <2>4. Rest(st') /\ Steady(s, st') BY <2>1, <2>3, FocusLeavesRests
  <2> QED BY <2>3, <2>4, SteadyAgain
<1>3. CASE TaskSwitch
  <2> DEFINE r == RestoreFromShowDesktop(st, None)
             w == SetCurrentMode(r, "WindowSwitch")
  <2>1. st' = FocusLeaves(w) BY <1>3 DEF TaskSwitch
  <2>2. Rest(r) /\ Steady(st, r) BY RestoreFromShowDesktopRests
  <2> HIDE DEF r
  <2>3. Rest(w) /\ Steady(r, w) BY <1>0, <2>2, SetCurrentModeRests
  <2> HIDE DEF w
  <2>4. Rest(st') /\ Steady(w, st') BY <2>1, <2>3, FocusLeavesRests
  <2>5. Steady(st, w) BY <2>2, <2>3, SteadyAgain
  <2> QED BY <2>4, <2>5, SteadyAgain
<1> QED BY <1>1, <1>2, <1>3

LEMMA FinishRests ==
  ASSUME Rest(st), FinishLockScreenTransition
  PROVE  Rest(st') /\ Grown(st, st')
<1> DEFINE s == [st EXCEPT !.menu = FALSE]
           n == SetCurrentMode(s, "Normal")
           r == RequestKeyboardFocus(n, Primary, n.act[Primary])
<1>1. st' = n \/ st' = r BY DEF FinishLockScreenTransition
<1>2. s \in State /\ Alike(st, s) /\ s.showing = st.showing BY DEF Rest, Ok, State, Alike
<1> HIDE DEF s
<1>3. Rest(s) /\ "Normal" \in Modes BY <1>2, RestNext DEF Modes
<1>4. Rest(n) /\ Steady(s, n) BY <1>3, SetCurrentModeRests
<1>5. n \in State /\ Primary \in Seats BY <1>4, FocusAssumption DEF Rest, Ok
<1> HIDE DEF n
<1>6. Refocused(n, r) BY <1>5, RequestKeyboardFocusRefocuses
<1> HIDE DEF r
<1>7. Grown(st, n) BY <1>2, <1>4 DEF Alike, Steady, Grown
<1>8. Grown(st, r) BY <1>6, <1>7 DEF Refocused, Still, Same, Grown
<1> QED BY <1>1, <1>4, <1>6, <1>7, <1>8, RestRefocused

LEMMA TaskSwitchExitRests ==
  ASSUME Rest(st), NEW w \in Windows \cup {None}, TaskSwitchExit(w)
  PROVE  Rest(st') /\ Steady(st, st')
<1> DEFINE n == SetCurrentMode(st, "Normal")
<1>1. st' = IF w = None THEN n ELSE ForceActivateSurface(n, Primary, w) BY DEF TaskSwitchExit
<1>2. "Normal" \in Modes /\ Primary \in Seats BY FocusAssumption DEF Modes
<1>3. Rest(n) /\ Steady(st, n) BY <1>2, SetCurrentModeRests
<1> HIDE DEF n
<1>4. CASE w = None BY <1>1, <1>3, <1>4
<1>5. CASE w # None
  <2>1. Rest(st') /\ ~st'.showing /\ Grown(n, st')
    BY <1>1, <1>2, <1>3, <1>5, ForceActivateRests
  <2>2. Grown(st, st') BY <1>3, <2>1 DEF Steady, Grown
  <2> QED BY <2>1, <2>2, EndedSteady
<1> QED BY <1>4, <1>5
-----------------------------------------------------------------------------
(* The theorems. *)

\* One step per action.
LEMMA NextRests ==
  ASSUME Rest(st), [Next]_st
  PROVE  Rest(st')
<1>1. CASE UNCHANGED st BY <1>1
<1>2. ASSUME NEW w \in Windows, Create(w) PROVE Rest(st') BY <1>2, CreateRests DEF Surfaces
<1>3. ASSUME NEW w \in Windows, MapWindow(w) PROVE Rest(st') BY <1>3, MapWindowRests
<1>4. ASSUME NEW w \in Windows, UnmapWindow(w) PROVE Rest(st') BY <1>4, UnmapWindowRests
<1>5. ASSUME NEW w \in Windows, Destroy(w) PROVE Rest(st') BY <1>5, DestroyRests DEF Surfaces
<1>6. ASSUME NEW w \in Windows, MinimizeWindow(w) PROVE Rest(st')
  BY <1>6, MinimizeRests DEF MinimizeWindow
<1>7. ASSUME NEW w \in Windows, RestoreWindow(w) PROVE Rest(st')
  BY <1>7, RestoreFromMinimizedRests DEF RestoreWindow
<1>8. ASSUME NEW w \in Windows, ShowDesktopAnimationFinished(w) PROVE Rest(st')
  BY <1>8, ShowDesktopAnimationFinishedRests
<1>9. ASSUME NEW w \in Windows, NEW accept \in BOOLEAN, AcceptKeyboardFocus(w, accept)
      PROVE  Rest(st')
  BY <1>9, AcceptKeyboardFocusRests
<1>10. ASSUME NEW w \in Windows, NEW accept \in BOOLEAN, AcceptKeyboardFocusV2(w, accept)
       PROVE  Rest(st')
  BY <1>10, AcceptKeyboardFocusV2Rests
<1>11. ASSUME NEW w \in Windows, NEW seat \in Seats, RequestWindow(seat, w) PROVE Rest(st')
  BY <1>11, ForceActivateRests DEF RequestWindow
<1>12. ASSUME NEW x \in Layers, Create(x) PROVE Rest(st') BY <1>12, CreateRests DEF Surfaces
<1>13. ASSUME NEW x \in Layers, Destroy(x) PROVE Rest(st') BY <1>13, DestroyRests DEF Surfaces
<1>14. ASSUME NEW x \in Layers, NEW now \in BOOLEAN, MapLayer(x, now) PROVE Rest(st')
  BY <1>14, MapLayerRests
<1>15. ASSUME NEW seat \in Seats, NEW x \in Surfaces \cup {None}, Press(seat, x) PROVE Rest(st')
  BY <1>15, ActivateRests DEF Press
<1>16. ASSUME NEW seat \in DOMAIN PopupOf, GrabBegin(seat) PROVE Rest(st')
  BY <1>16, GrabBeginRests
<1>17. ASSUME NEW seat \in DOMAIN PopupOf, PopupMapped(seat) PROVE Rest(st')
  BY <1>17, PopupMappedRests
<1>18. ASSUME NEW seat \in DOMAIN PopupOf, NEW dismissed \in BOOLEAN, PopupClosed(seat, dismissed)
       PROVE  Rest(st')
  BY <1>18, PopupClosedRests
<1>19. CASE WindowMenuClosed BY <1>19, ActivateRests, FocusAssumption DEF WindowMenuClosed
<1>20. CASE SceneTakesFocus BY <1>20, FocusLeavesRests DEF SceneTakesFocus
<1>21. CASE ShowDesktop BY <1>21, ShowDesktopRests
<1>22. CASE LeaveShowDesktop BY <1>22, LeaveShowDesktopRests
<1>23. CASE ShortcutRestores BY <1>23, RestoreFromShowDesktopRests DEF ShortcutRestores
<1>24. CASE Lock \/ ShutdownMenu \/ TaskSwitch BY <1>24, LockRests
<1>25. CASE FinishLockScreenTransition BY <1>25, FinishRests
<1>26. ASSUME NEW w \in Windows \cup {None}, TaskSwitchExit(w) PROVE Rest(st')
  BY <1>26, TaskSwitchExitRests
<1> QED
  BY <1>1, <1>2, <1>3, <1>4, <1>5, <1>6, <1>7, <1>8, <1>9, <1>10, <1>11, <1>12, <1>13, <1>14,
     <1>15, <1>16, <1>17, <1>18, <1>19, <1>20, <1>21, <1>22, <1>23, <1>24, <1>25, <1>26
  DEF Next

\* Between two events the compositor is at rest: capabilities follow mapping and
\* minimization, and focus, activation and history follow the capabilities.
THEOREM AtRest == Spec => []Rest(st)
<1>1. Init => Rest(st) BY InitRests
<1>2. Rest(st) /\ [Next]_st => Rest(st)' BY NextRests
<1> QED BY <1>1, <1>2, PTL DEF Spec

\* Every handler, whatever it runs inside, leaves a state of the type State.
THEOREM TypeCorrect == Spec => []TypeOK
<1>1. Rest(st) => TypeOK BY DEF Rest, Ok, TypeOK
<1> QED BY <1>1, AtRest, PTL

\* The keyboard focus of every seat is on a mapped surface that is not minimized,
\* and on a layer surface only while it takes the keyboard, for any number of
\* windows, seats and popups and through every nested activation.
THEOREM FocusRests == Spec => []FocusOnMapped
<1>1. Rest(st) => FocusOnMapped
  <2> SUFFICES ASSUME Rest(st), NEW s \in Seats
               PROVE  /\ st.kf[s] \in (st.mapped \ st.min) \cup {None}
                      /\ st.kf[s] \in Layers => st.kf[s] \in st.capF
    BY DEF FocusOnMapped
  <2>1. /\ st.kf[s] \in {None} \cup st.capA \cup (st.capF \ Windows)
        /\ st.capA \subseteq st.mapped \ st.min
        /\ st.capF \ Windows \subseteq st.mapped
    BY DEF Rest, Ok, Focused, Capable, Nothing
  <2>2. st.min \subseteq Windows /\ st.capA \subseteq Windows /\ Windows \cap Layers = {}
        /\ None \notin Layers
    BY FocusAssumption DEF Rest, Ok, State, Surfaces
  <2> QED BY <2>1, <2>2
<1> QED BY <1>1, AtRest, PTL

\* Off the steps that ask for a window, no step brings the keyboard to a window
\* while the desktop is shown before and after it.
LEMMA NextKeepsOff ==
  ASSUME Rest(st), [Next]_st, st.showing, ~Asked
  PROVE  KeepsOff(st, st')
<1>1. CASE UNCHANGED st BY <1>1 DEF KeepsOff
<1>2. ASSUME NEW w \in Windows, Create(w) \/ MapWindow(w) \/ UnmapWindow(w) \/ Destroy(w)
      PROVE  KeepsOff(st, st')
  BY <1>2, CreateRests, MapWindowRests, UnmapWindowRests, DestroyRests DEF Surfaces, Steady
<1>3. ASSUME NEW w \in Windows, MinimizeWindow(w) \/ RestoreWindow(w)
      PROVE  KeepsOff(st, st')
  BY <1>3, MinimizeRests, RestoreFromMinimizedRests DEF MinimizeWindow, RestoreWindow, Steady
<1>4. ASSUME NEW w \in Windows, ShowDesktopAnimationFinished(w) PROVE KeepsOff(st, st')
  BY <1>4, ShowDesktopAnimationFinishedRests DEF Steady
<1>5. ASSUME NEW w \in Windows, NEW accept \in BOOLEAN,
             AcceptKeyboardFocus(w, accept) \/ AcceptKeyboardFocusV2(w, accept)
      PROVE  KeepsOff(st, st')
  BY <1>5, AcceptKeyboardFocusRests, AcceptKeyboardFocusV2Rests DEF Steady
<1>6. ASSUME NEW w \in Windows, NEW seat \in Seats, RequestWindow(seat, w) PROVE FALSE
  BY <1>6 DEF Asked
<1>7. ASSUME NEW x \in Layers, Create(x) \/ Destroy(x) PROVE KeepsOff(st, st')
  BY <1>7, CreateRests, DestroyRests DEF Surfaces, Steady
<1>8. ASSUME NEW x \in Layers, NEW now \in BOOLEAN, MapLayer(x, now) PROVE KeepsOff(st, st')
  BY <1>8, MapLayerRests DEF Steady
<1>9. ASSUME NEW seat \in Seats, NEW x \in Surfaces \cup {None}, Press(seat, x)
      PROVE  KeepsOff(st, st')
  <2>1. x \notin Windows BY <1>9 DEF Asked
  <2>2. Fresh(st, seat, x) BY <2>1 DEF Fresh
  <2>3. Ok(st, Nothing, Nothing, Nothing, TRUE) BY DEF Rest
  <2>4. x \notin Nothing /\ Nothing \subseteq Nothing /\ None \notin Nothing BY DEF Nothing
  <2>5. KeepsOff(st, Activate(st, seat, x)) BY <2>2, <2>3, <2>4, ActivateSteady DEF Steady
  <2> QED BY <1>9, <2>5 DEF Press
<1>10. ASSUME NEW seat \in DOMAIN PopupOf, GrabBegin(seat) \/ PopupMapped(seat)
       PROVE  KeepsOff(st, st')
  BY <1>10, GrabBeginRests, PopupMappedRests DEF Steady
<1>11. ASSUME NEW seat \in DOMAIN PopupOf, NEW dismissed \in BOOLEAN, PopupClosed(seat, dismissed)
       PROVE  KeepsOff(st, st')
  BY <1>11, PopupClosedRests DEF Steady
<1>12. CASE WindowMenuClosed \/ FinishLockScreenTransition BY <1>12 DEF Asked
<1>13. CASE SceneTakesFocus BY <1>13, FocusLeavesRests DEF SceneTakesFocus, Steady
<1>14. CASE ShowDesktop BY <1>14 DEF ShowDesktop
<1>15. CASE LeaveShowDesktop BY <1>15, LeaveShowDesktopRests DEF KeepsOff
<1>16. CASE ShortcutRestores
  BY <1>16, RestoreFromShowDesktopRests DEF ShortcutRestores, KeepsOff
<1>17. CASE Lock \/ ShutdownMenu \/ TaskSwitch BY <1>17, LockRests DEF Steady
<1>18. ASSUME NEW w \in Windows \cup {None}, TaskSwitchExit(w) PROVE KeepsOff(st, st')
  BY <1>18, TaskSwitchExitRests DEF Steady
<1> QED
  BY <1>1, <1>2, <1>3, <1>4, <1>5, <1>6, <1>7, <1>8, <1>9, <1>10, <1>11, <1>12, <1>13, <1>14,
     <1>15, <1>16, <1>17, <1>18
  DEF Next

\* While the desktop is shown, a seat whose keyboard is on no window stays off the
\* windows, unless somebody asks for one: a popup may end its grab, the hidden
\* windows may be mapped, closed, restored or change their capabilities, and the
\* activation that follows either leaves the show desktop state or no window has
\* the keyboard.
THEOREM DesktopKeepsFocus == Spec => ShowDesktopKeepsFocus
<1>1. /\ Rest(st) /\ [Next]_st
      => [(st.showing /\ st'.showing /\ ~Asked)
            => \A s \in Seats : st'.kf[s] \in Windows => st.kf[s] \in Windows]_st
  BY NextKeepsOff DEF KeepsOff
<1> QED BY <1>1, AtRest, PTL DEF Spec, ShowDesktopKeepsFocus

\* The history names windows that can be activated and accept the keyboard,
\* where clients do not use the v2 request, which leaves it alone.
THEOREM HistoryStaysLive ==
  ASSUME ~ShellV2
  PROVE  Spec => []HistoryLive
<1>1. Rest(st) => HistoryLive BY DEF Rest, Ok, Remembered, HistoryLive
<1> QED BY <1>1, AtRest, PTL

\* The activated window of the primary seat is told so, and what any seat has
\* activated can be active.
THEOREM ActivatedStaysLive == Spec => []ActivatedLive
<1>1. Rest(st) => ActivatedLive BY DEF Rest, Ok, Focused, Told, Nothing, ActivatedLive
<1> QED BY <1>1, AtRest, PTL

-----------------------------------------------------------------------------
(* The fallback: what the primary seat turns to when its focused window goes. *)

LEMMA LatestPush ==
  ASSUME NEW r \in SUBSET (Windows \X Windows), NEW w \in Windows
  PROVE  Latest(Push(r, w)) = w
<1> DEFINE p == Push(r, w)
<1>1. Elems({<<w, w>>}) = {w} BY DEF Elems
<1>2. p = {<<w, w>>} \cup Drop(r, {w}) \cup ({w} \X Elems(Drop(r, {w}))) BY <1>1 DEF Push, Stack
<1>3. Elems(p) = {w} \cup Elems(Drop(r, {w})) BY <1>2 DEF Elems, Drop
<1>4. \A v \in Elems(p) : <<w, v>> \in p BY <1>2, <1>3
<1>5. ASSUME NEW u, u # w PROVE <<u, w>> \notin p BY <1>2, <1>5 DEF Drop
<1> HIDE DEF p
<1>6. w \in Elems(p) BY <1>3
<1>7. Foremost(p) = {w} BY <1>4, <1>5, <1>6 DEF Foremost
<1> QED BY <1>7 DEF Latest, p

\* The primary seat has turned to l, the latest window of the history.
Turned(t, l) == /\ t.kf[Primary] = l /\ t.act[Primary] = l /\ Latest(t.hist) = l
                /\ l = None \/ t.item = l

\* The mode stays and, outside of the lock screen and the task switcher, the seat
\* has turned to l.
Falls(s, t, l) == t.mode = s.mode /\ (s.mode = "Normal" => Turned(t, l))

LEMMA SetKeyboardFocusMode ==
  ASSUME NEW s \in State, NEW seat \in Seats, NEW x
  PROVE  SetKeyboardFocus(s, seat, x).mode = s.mode
BY DEF SetKeyboardFocus, FocusLeaves, State

\* A window gives the keyboard to another surface.
LEMMA SetKeyboardFocusTurns ==
  ASSUME NEW s \in State, NEW seat \in Seats, NEW x \in Surfaces, s.kf[seat] \in Windows,
         x # s.kf[seat]
  PROVE  LET t == SetKeyboardFocus(s, seat, x)
         IN  t.kf[seat] = x /\ t.item = x
<1> DEFINE old == s.kf[seat]
           shared == \E o \in Seats \ {seat} : s.kf[o] = old
           u == IF old # None /\ ~shared /\ s.item = old THEN FocusLeaves(s) ELSE s
           t == [u EXCEPT !.kf[seat] = x, !.item = IF x = None THEN @ ELSE x]
<1>1. u \in State BY FocusLeavesRefocuses DEF Refocused
<1>2. Priority(old) = 0 /\ x # None BY FocusAssumption DEF Priority
<1>3. SetKeyboardFocus(s, seat, x) = t BY <1>2 DEF SetKeyboardFocus, Priority
<1> HIDE DEF u
<1>4. t.kf[seat] = x /\ t.item = x BY <1>1, <1>2 DEF State
<1> QED BY <1>3, <1>4

\* A seat that lets go of a window disturbs the focus of another seat only if the
\* window has the active focus.
LEMMA SetKeyboardFocusNone ==
  ASSUME NEW s \in State, NEW seat \in Seats, s.kf[seat] # None
  PROVE  LET t == SetKeyboardFocus(s, seat, None)
         IN  /\ s.item # s.kf[seat] =>
                  t.item = s.item /\ \A q \in Seats \ {seat} : t.kf[q] = s.kf[q]
             /\ \A q \in Seats : s.kf[q] = None => t.kf[q] = None
<1> DEFINE old == s.kf[seat]
           shared == \E o \in Seats \ {seat} : s.kf[o] = old
           u == IF old # None /\ ~shared /\ s.item = old THEN FocusLeaves(s) ELSE s
           t == [u EXCEPT !.kf[seat] = None]
<1>1. u \in State BY FocusLeavesRefocuses DEF Refocused
<1>2. /\ s.item # old => u = s
      /\ \A q \in Seats : s.kf[q] = None => u.kf[q] = None
  BY FocusLeavesRefocuses
<1>3. SetKeyboardFocus(s, seat, None) = t
  <2>1. SetKeyboardFocus(s, seat, None) = [u EXCEPT !.kf[seat] = None, !.item = @]
    BY DEF SetKeyboardFocus
  <2> HIDE DEF u
  <2> QED BY <1>1, <2>1 DEF State
<1> HIDE DEF u
<1>4. t.item = u.item /\ \A q \in Seats : t.kf[q] = IF q = seat THEN None ELSE u.kf[q]
  BY <1>1 DEF State
<1> HIDE DEF t
<1> QED BY <1>2, <1>3, <1>4

\* Another seat lets go of the window that is gone.
LEMMA LetGoFalls ==
  ASSUME NEW s, NEW t \in State, NEW seat \in Seats, seat # Primary, NEW w \in Windows,
         NEW l, l # w, Falls(s, t, l)
  PROVE  Falls(s, LetGo(t, seat, w), l)
<1> DEFINE d == IF w \in {t.act[seat], t.kf[seat]} THEN Deactivate(t, seat) ELSE t
           k == SetKeyboardFocus(d, seat, None)
           v == LetGo(t, seat, w)
<1>0. w # None /\ Primary \in Seats BY RecencyAssumption, FocusAssumption
<1>1. /\ d \in State /\ d.kf = t.kf /\ d.hist = t.hist /\ d.item = t.item /\ d.mode = t.mode
      /\ d.act[Primary] = t.act[Primary]
  BY <1>0 DEF Deactivate, Unflag, State
<1>2. v = IF d.kf[seat] = w THEN k ELSE d
  BY DEF LetGo, Release, RequestKeyboardFocus
<1> HIDE DEF d
<1>3. CASE d.kf[seat] # w BY <1>1, <1>2, <1>3 DEF Falls, Turned
<1>4. CASE d.kf[seat] = w
  <2>1. Refocused(d, k) BY <1>1, SetKeyboardFocusRefocuses
  <2>2. k.mode = d.mode BY <1>1, SetKeyboardFocusMode
  <2>3. /\ d.item # d.kf[seat] =>
             k.item = d.item /\ \A q \in Seats \ {seat} : k.kf[q] = d.kf[q]
        /\ \A q \in Seats : d.kf[q] = None => k.kf[q] = None
    BY <1>0, <1>1, <1>4, SetKeyboardFocusNone
  <2> HIDE DEF k
  <2>4. k.act = d.act /\ k.hist = d.hist BY <2>1 DEF Refocused, Still
  <2>5. ASSUME Turned(t, l) PROVE Turned(k, l)
    <3>1. CASE l = None BY <1>0, <1>1, <2>3, <2>4, <2>5, <3>1 DEF Turned
    <3>2. CASE l # None BY <1>0, <1>1, <1>4, <2>3, <2>4, <2>5, <3>2 DEF Turned
    <3> QED BY <3>1, <3>2
  <2> QED BY <1>1, <1>2, <1>4, <2>2, <2>5 DEF Falls
<1> QED BY <1>3, <1>4

\* The activation that follows the deactivation: l can be activated and focused.
LEMMA ActivateFalls ==
  ASSUME NEW d \in State, NEW w \in Windows, d.kf[Primary] = w, d.act[Primary] = None,
         ~d.showing, NEW l, l = Latest(d.hist),
         l \in {None} \cup ((d.capA \cap d.capF) \ d.mute), l # w
  PROVE  Falls(d, Activate(d, Primary, l), l)
<1> DEFINE a == SetActivated(d, Primary, l)
           f == Activate(d, Primary, l)
<1>0. None \notin Windows /\ Primary \in Seats /\ d.mute \subseteq Windows
  BY RecencyAssumption, FocusAssumption DEF State
<1>1. CASE l = None
  <2>1. a = d BY <1>1 DEF SetActivated, SetActivatedShown
  <2>2. f = SetKeyboardFocus(d, Primary, None)
    BY <1>0, <1>1, <2>1 DEF Activate, Activating, RequestKeyboardFocus
  <2> HIDE DEF f
  <2>3. Refocused(d, f) /\ f.kf[Primary] = None BY <1>0, <2>2, SetKeyboardFocusRefocuses
  <2>4. f.mode = d.mode BY <1>0, <2>2, SetKeyboardFocusMode
  <2>5. f.act = d.act /\ f.hist = d.hist BY <2>3 DEF Refocused, Still
  <2>6. Turned(f, l) BY <1>1, <2>3, <2>5 DEF Turned
  <2> QED BY <2>4, <2>6 DEF Falls, f
<1>2. CASE l # None /\ d.mode # "Normal"
  <2>1. f = [d EXCEPT !.hist = IF l \in d.capA THEN Push(@, l) ELSE @]
    BY <1>2 DEF Activate, Activating, Blocked
  <2>2. f.mode = d.mode BY <2>1 DEF State
  <2> QED BY <1>2, <2>2 DEF Falls
<1>3. CASE l # None /\ d.mode = "Normal"
  <2> DEFINE u == Unflag(d, Primary)
             k == SetKeyboardFocus(a, Primary, l)
  <2>0. l \in Windows /\ l \in Surfaces /\ l \in d.capF /\ l \in d.capA /\ l \notin d.mute
    BY <1>3 DEF State, Surfaces
  <2>1. /\ u \in State /\ u.kf = d.kf /\ u.hist = d.hist /\ u.act = d.act /\ u.capF = d.capF
        /\ u.mode = d.mode /\ u.mute = d.mute
    BY <1>0 DEF Unflag, State
  <2>2. a = Enter(u, Primary, l) BY <1>3 DEF SetActivated, SetActivatedShown
  <2> HIDE DEF u
  <2>3. u.hist \in SUBSET (Windows \X Windows) BY <2>1 DEF State
  <2>4. Push(u.hist, l) \in SUBSET (Windows \X Windows) /\ Latest(Push(u.hist, l)) = l
    BY <2>0, <2>3, RecencyType, LatestPush
  <2>5. /\ a \in State /\ a.kf = u.kf /\ a.hist = Push(u.hist, l) /\ a.act[Primary] = l
        /\ a.capF = u.capF /\ a.mode = u.mode
    <3> DEFINE H == Push(u.hist, l)
    <3>1. a = [u EXCEPT !.hist = H, !.act[Primary] = l, !.flag = @ \cup {l}]
      BY <2>0, <2>1, <2>2 DEF Enter, State
    <3>2. H \in SUBSET (Windows \X Windows) BY <2>4
    <3> HIDE DEF a, H
    <3>3. /\ a \in State /\ a.kf = u.kf /\ a.hist = H /\ a.act = [u.act EXCEPT ![Primary] = l]
          /\ a.capF = u.capF /\ a.mode = u.mode
      BY <1>0, <2>0, <2>1, <3>1, <3>2 DEF State
    <3>4. a.act[Primary] = l BY <1>0, <2>1, <3>3 DEF State
    <3> QED BY <3>3, <3>4 DEF H
  <2> HIDE DEF a
  <2>6. f = k
    BY <1>3, <2>0, <2>1, <2>5 DEF Activate, Activating, Blocked, RequestKeyboardFocus, a
  <2>7. l \in a.capF \cup {None} BY <2>0, <2>1, <2>5
  <2>8. Refocused(a, k) BY <1>0, <2>5, <2>7, SetKeyboardFocusRefocuses
  <2>9. k.mode = a.mode BY <1>0, <2>5, SetKeyboardFocusMode
  <2>10. a.kf[Primary] \in Windows /\ l # a.kf[Primary] BY <2>1, <2>5
  <2>11. k.kf[Primary] = l /\ k.item = l BY <1>0, <2>0, <2>5, <2>10, SetKeyboardFocusTurns
  <2> HIDE DEF k
  <2>12. k.act = a.act /\ k.hist = a.hist BY <2>8 DEF Refocused, Still
  <2>13. Turned(k, l) BY <2>4, <2>5, <2>11, <2>12 DEF Turned
  <2> QED BY <2>1, <2>5, <2>6, <2>9, <2>13 DEF Falls
<1> QED BY <1>1, <1>2, <1>3

\* onSurfaceInactivationRequested for the window with the keyboard of the primary
\* seat.
LEMMA InactivationFalls ==
  ASSUME NEW s, NEW X, NEW N, NEW D, NEW b, NEW w \in Windows, Parting(s, X, N, D, b, w),
         D \subseteq N, None \notin N, X \subseteq {w}, ~ShellV2, ~s.showing,
         s.kf[Primary] = w
  PROVE  Falls(s, InactivationRequested(s, w), Latest(Forget(s, w).hist))
<1> DEFINE u == Forget(s, w)
           l == Latest(u.hist)
           d == Deactivate(u, Primary)
           f == Activate(d, Primary, l)
           r == Release(f, Primary, w)
           M == N \cup {w}
           E == D \cup {w}
           S == Seats \ {Primary}
           step == [seat \in Seats |-> [t \in State |-> LetGo(t, seat, w)]]
           P == {t \in State : Ok(t, X, M, D, b) /\ Falls(s, t, l)}
<1>0. w # None /\ Primary \in Seats /\ w \in Surfaces /\ IsFiniteSet(S)
  BY RecencyAssumption, FocusAssumption, FS_Difference DEF Surfaces
<1>1. /\ Ok(u, X, M, D, b) /\ Same(s, u) /\ u.kf = s.kf BY ForgetOk
<1>2. u.mode = s.mode BY DEF Parting, Forget, State
<1> HIDE DEF u
<1>3. Ok(d, X, M, E, b) /\ Same(u, d) /\ d.kf = u.kf /\ d.act[Primary] = None /\ d.hist = u.hist
  BY <1>0, <1>1, FallbackOk
<1>4. d.mode = u.mode /\ d \in State
  <2>1. u \in State BY <1>1 DEF Ok
  <2> QED BY <1>3, <2>1 DEF Deactivate, Unflag, State, Ok
<1> HIDE DEF d
<1>5. l \in {None} \cup ((d.capA \cap d.capF) \ d.mute) /\ l # w /\ l \notin M
  <2>1. l \in Elems(u.hist) \cup {None} BY LatestElem
  <2>2. Elems(u.hist) \subseteq d.capA \ M /\ Elems(u.hist) \cap d.mute = {}
    BY <1>1, <1>3 DEF Ok, Remembered, Same
  <2>3. d.capA \ d.mute \subseteq d.capF \cup {w} BY <1>3 DEF Ok, Capable
  <2> QED BY <1>0, <2>1, <2>2, <2>3
<1>6. E \subseteq M /\ None \notin M /\ None \notin D BY <1>0
<1>7. ~d.showing /\ d.kf[Primary] = w /\ l = Latest(d.hist) BY <1>1, <1>3 DEF Same
<1> HIDE DEF l, M, E
<1>8. Falls(d, f, l) BY <1>3, <1>4, <1>5, <1>7, ActivateFalls
<1>9. Ok(f, X, M, E, b) BY <1>0, <1>3, <1>5, <1>6, ActivateOk
<1> HIDE DEF f
<1>10. Ok(f, X, M, D, b) /\ Falls(s, f, l)
  BY <1>2, <1>4, <1>8, <1>9, LetGoneOk DEF E, Falls
<1>11. r \in P
  <2>1. Ok(r, X, M, D, b) BY <1>0, <1>10, ReleaseOk
  <2>2. CASE f.kf[Primary] # w
    <3>1. r = f BY <2>2 DEF Release
    <3> QED BY <1>10, <3>1 DEF Ok
  <2>3. CASE f.kf[Primary] = w
    <3>1. s.mode # "Normal" BY <1>5, <1>10, <2>3 DEF Falls, Turned
    <3>2. f \in State BY <1>10 DEF Ok
    <3>3. r = SetKeyboardFocus(f, Primary, None) BY <2>3 DEF Release, RequestKeyboardFocus
    <3>4. r.mode = f.mode BY <1>0, <3>2, <3>3, SetKeyboardFocusMode
    <3> HIDE DEF r
    <3>5. Falls(s, r, l) BY <1>10, <3>1, <3>4 DEF Falls
    <3> QED BY <2>1, <3>5 DEF Ok
  <2> QED BY <2>2, <2>3
<1>12. ASSUME NEW seat \in S, NEW t \in P PROVE step[seat][t] \in P
  <2> DEFINE v == LetGo(t, seat, w)
  <2>1. seat \in Seats /\ seat # Primary /\ t \in State /\ Ok(t, X, M, D, b) /\ Falls(s, t, l)
    OBVIOUS
  <2>2. Ok(v, X, M, D, b) BY <1>0, <1>6, <2>1, LetGoOk
  <2>3. Falls(s, v, l) BY <1>5, <2>1, LetGoFalls
  <2>4. step[seat][t] = v BY <2>1
  <2> HIDE DEF v
  <2> QED BY <2>2, <2>3, <2>4 DEF Ok
<1> HIDE DEF step, P, S, r
<1>13. ForEach(S, r, step) \in P BY <1>0, <1>11, <1>12, ForEachKeeps
<1>14. InactivationRequested(s, w) = ForEach(S, r, step)
  <2>1. u.kf[Primary] = w BY <1>1
  <2> QED BY <2>1 DEF InactivationRequested, Inactivating, u, d, f, l, r, S, step
<1> QED BY <1>13, <1>14 DEF P, l, u

\* A loop over nothing.
LEMMA ForEachNone ==
  ASSUME NEW S, S = {}, NEW s, NEW step
  PROVE  ForEach(S, s, step) = s
<1>1. IsFiniteSet(S) BY FS_EmptySet
<1>2. s \in {s} /\ \A e \in S, t \in {s} : step[e][t] \in {s} OBVIOUS
<1> QED BY <1>1, <1>2, ForEachKeeps

\* A window that no seat has activated loses the focus capability.
LEMMA DropFocusCapabilityFalls ==
  ASSUME NEW s \in State, NEW w \in Windows, Without(s, w)
  PROVE  LET t == UpdateVisible(SetFocusCapability(s, w, FALSE), w)
         IN  t.kf = s.kf /\ t.act = s.act /\ t.hist = s.hist /\ t.mode = s.mode
<1> DEFINE F == s.capF \ {w}
           u == [s EXCEPT !.capF = F]
           S == {seat \in Seats : s.act[seat] = w}
           step == [seat \in Seats |-> [v \in State |-> RequestKeyboardFocus(v, seat, None)]]
<1>1. [s EXCEPT !.capF = @ \ {w}] = u BY DEF State
<1>2. S = {} BY DEF Without
<1>3. SetFocusCapability(s, w, FALSE) \in {u, ForEach(S, u, step)}
  BY <1>1 DEF SetFocusCapability
<1>4. /\ u \in State /\ u.kf = s.kf /\ u.act = s.act /\ u.hist = s.hist /\ u.mode = s.mode
  BY DEF State
<1> HIDE DEF u, S, step
<1>5. SetFocusCapability(s, w, FALSE) = u BY <1>2, <1>3, ForEachNone
<1> QED BY <1>4, <1>5 DEF UpdateVisible, State

\* Losing the capability to be active begins the parting from the window.
LEMMA LosingBegins ==
  ASSUME NEW s, Rest(s), NEW w \in Windows, NEW m \in State,
         m.capA = s.capA, m.capF = s.capF, m.mute = s.mute,
         m.mapped \ m.min = (s.mapped \ s.min) \ {w}, s.mapped \ {w} \subseteq m.mapped,
         m.kf = s.kf, m.act = s.act, m.hist = s.hist, m.flag = s.flag
  PROVE  Parting([m EXCEPT !.capA = @ \ {w}], Nothing \cup {w}, Nothing, Nothing, TRUE, w)
<1> DEFINE c == [m EXCEPT !.capA = @ \ {w}]
<1>0. Ok(s, Nothing, Nothing, Nothing, TRUE) BY DEF Rest
<1>1. /\ c \in State /\ c.min = m.min /\ c.mapped = m.mapped /\ c.mute = m.mute
      /\ c.capA = m.capA \ {w} /\ c.capF = m.capF
      /\ c.kf = m.kf /\ c.act = m.act /\ c.hist = m.hist /\ c.flag = m.flag
  BY DEF State
<1> HIDE DEF c
<1>2. Parting(c, Nothing \cup {w}, Nothing, Nothing, TRUE, w) BY <1>0, <1>1, PartingBegins
<1> QED BY <1>2 DEF c

\* Minimizing or unmapping the window with the keyboard of the primary seat.
LEMMA LosingFalls ==
  ASSUME NEW s, Rest(s), NEW w \in Windows, NEW m \in State,
         m.capA = s.capA, m.capF = s.capF, m.mute = s.mute,
         m.mapped \ m.min = (s.mapped \ s.min) \ {w}, s.mapped \ {w} \subseteq m.mapped,
         m.kf = s.kf, m.act = s.act, m.hist = s.hist, m.flag = s.flag,
         ~ShellV2, ~m.showing, s.kf[Primary] = w
  PROVE  LET t == Losing(m, w, LoseActiveCapability(m, w))
         IN  t.mode = "Normal" =>
               t.kf[Primary] = Latest(t.hist) /\ t.act[Primary] = Latest(t.hist)
<1> DEFINE c == [m EXCEPT !.capA = @ \ {w}]
           a == InactivationRequested(c, w)
           l == Latest(Forget(c, w).hist)
           t == UpdateVisible(SetFocusCapability(a, w, FALSE), w)
           X == Nothing \cup {w}
<1>0. /\ w \in Surfaces /\ Ok(s, Nothing, Nothing, Nothing, TRUE)
      /\ Nothing \subseteq Nothing /\ None \notin Nothing /\ X \subseteq {w}
  BY DEF Surfaces, Rest, Nothing
<1>1. /\ c \in State /\ c.min = m.min /\ c.mapped = m.mapped /\ c.mute = m.mute
      /\ c.capA = m.capA \ {w} /\ c.capF = m.capF /\ c.showing = m.showing
      /\ c.kf = m.kf /\ c.act = m.act /\ c.hist = m.hist /\ c.flag = m.flag
  BY DEF State
<1> HIDE DEF c
<1>2. w \in m.capA
  <2>1. s.kf[Primary] \in {None} \cup s.capA \cup (s.capF \ Windows)
    BY FocusAssumption DEF Rest, Ok, Focused, Nothing
  <2> QED BY <2>1, RecencyAssumption
<1>3. Parting(c, X, Nothing, Nothing, TRUE, w) BY LosingBegins DEF c, X
<1> HIDE DEF X
<1>4. /\ Ok(a, X, Nothing \cup {w}, Nothing, TRUE) /\ Later(c, a, {})
      /\ Without(a, w) /\ Steady(c, a)
  BY <1>0, <1>3, InactivationRequestedOk
<1>5. ~c.showing /\ c.kf[Primary] = w BY <1>1
<1>6. Falls(c, a, l) BY <1>0, <1>3, <1>5, InactivationFalls
<1>7. Losing(m, w, LoseActiveCapability(m, w)) = t
  BY <1>2 DEF Losing, LoseActiveCapability, c
<1> HIDE DEF a, l
<1>8. a \in State BY <1>4 DEF Ok
<1>9. t.kf = a.kf /\ t.act = a.act /\ t.hist = a.hist /\ t.mode = a.mode
  BY <1>4, <1>8, DropFocusCapabilityFalls
<1> HIDE DEF t
<1> QED BY <1>6, <1>7, <1>9 DEF Falls, Turned

\* Only these two steps take the capability to be active from a window, outside of
\* the show desktop state.
LEMMA NextGrows ==
  ASSUME Rest(st), [Next]_st, ~st.showing, NEW v \in st.capA, v \notin st'.capA
  PROVE  \E w \in Windows : UnmapWindow(w) \/ MinimizeWindow(w)
<1> DEFINE Goal == \E w \in Windows : UnmapWindow(w) \/ MinimizeWindow(w)
<1>0. ~Grown(st, st') /\ ~Steady(st, st') BY DEF Grown, Steady
<1>1. CASE UNCHANGED st BY <1>1
<1>2. ASSUME NEW w \in Windows, Create(w) \/ MapWindow(w) \/ Destroy(w) PROVE FALSE
  BY <1>0, <1>2, CreateRests, MapWindowRests, DestroyRests DEF Surfaces
<1>3. ASSUME NEW w \in Windows, RestoreWindow(w) PROVE FALSE
  BY <1>0, <1>3, RestoreFromMinimizedRests DEF RestoreWindow
<1>4. ASSUME NEW w \in Windows, ShowDesktopAnimationFinished(w) PROVE FALSE
  BY <1>0, <1>4, ShowDesktopAnimationFinishedRests
<1>5. ASSUME NEW w \in Windows, NEW accept \in BOOLEAN,
             AcceptKeyboardFocus(w, accept) \/ AcceptKeyboardFocusV2(w, accept)
      PROVE  FALSE
  BY <1>0, <1>5, AcceptKeyboardFocusRests, AcceptKeyboardFocusV2Rests
<1>6. ASSUME NEW w \in Windows, NEW seat \in Seats, RequestWindow(seat, w) PROVE FALSE
  BY <1>0, <1>6, ForceActivateRests DEF RequestWindow
<1>7. ASSUME NEW x \in Layers, Create(x) \/ Destroy(x) PROVE FALSE
  BY <1>0, <1>7, CreateRests, DestroyRests DEF Surfaces
<1>8. ASSUME NEW x \in Layers, NEW now \in BOOLEAN, MapLayer(x, now) PROVE FALSE
  BY <1>0, <1>8, MapLayerRests
<1>9. ASSUME NEW seat \in Seats, NEW x \in Surfaces \cup {None}, Press(seat, x) PROVE FALSE
  BY <1>0, <1>9, ActivateRests DEF Press, Later
<1>10. ASSUME NEW seat \in DOMAIN PopupOf, GrabBegin(seat) \/ PopupMapped(seat) PROVE FALSE
  BY <1>0, <1>10, GrabBeginRests, PopupMappedRests
<1>11. ASSUME NEW seat \in DOMAIN PopupOf, NEW dismissed \in BOOLEAN, PopupClosed(seat, dismissed)
       PROVE  FALSE
  BY <1>0, <1>11, PopupClosedRests
<1>12. CASE WindowMenuClosed
  BY <1>0, <1>12, ActivateRests, FocusAssumption DEF WindowMenuClosed, Later
<1>13. CASE SceneTakesFocus BY <1>0, <1>13, FocusLeavesRests DEF SceneTakesFocus
<1>14. CASE ShowDesktop BY <1>14, ShowDesktopRests
<1>15. CASE LeaveShowDesktop \/ ShortcutRestores BY <1>15 DEF LeaveShowDesktop, ShortcutRestores
<1>16. CASE Lock \/ ShutdownMenu \/ TaskSwitch BY <1>0, <1>16, LockRests
<1>17. CASE FinishLockScreenTransition BY <1>0, <1>17, FinishRests
<1>18. ASSUME NEW w \in Windows \cup {None}, TaskSwitchExit(w) PROVE FALSE
  BY <1>0, <1>18, TaskSwitchExitRests
<1> QED
  BY <1>1, <1>2, <1>3, <1>4, <1>5, <1>6, <1>7, <1>8, <1>9, <1>10, <1>11, <1>12, <1>13, <1>14,
     <1>15, <1>16, <1>17, <1>18
  DEF Next

LEMMA NextFalls ==
  ASSUME Rest(st), [Next]_st, ~ShellV2, NEW w \in Windows, st.kf[Primary] = w,
         w \notin st'.capA, ~st.showing, st'.mode = "Normal"
  PROVE  st'.kf[Primary] = Latest(st'.hist) /\ st'.act[Primary] = Latest(st'.hist)
<1>1. w \in st.capA
  <2>1. st.kf[Primary] \in {None} \cup st.capA \cup (st.capF \ Windows)
    BY FocusAssumption DEF Rest, Ok, Focused, Nothing
  <2> QED BY <2>1, RecencyAssumption
<1>2. PICK v \in Windows : UnmapWindow(v) \/ MinimizeWindow(v) BY <1>1, NextGrows
<1>3. CASE UnmapWindow(v)
  <2> DEFINE m == [st EXCEPT !.mapped = @ \ {w}]
  <2>1. v = w BY <1>1, <1>3, UnmapWindowRests DEF OnlyLoses
  <2>2. st' = Losing(m, w, LoseActiveCapability(m, w)) BY <1>3, <2>1 DEF UnmapWindow
  <2>3. /\ m \in State /\ m.min = st.min /\ m.mapped = st.mapped \ {w} /\ m.mute = st.mute
        /\ m.capA = st.capA /\ m.capF = st.capF /\ m.showing = st.showing
        /\ m.kf = st.kf /\ m.act = st.act /\ m.hist = st.hist /\ m.flag = st.flag
    BY DEF Rest, Ok, State
  <2> HIDE DEF m
  <2>4. /\ m.mapped \ m.min = (st.mapped \ st.min) \ {w} /\ st.mapped \ {w} \subseteq m.mapped
        /\ ~m.showing
    BY <2>3
  <2> QED BY <2>2, <2>3, <2>4, LosingFalls
<1>4. CASE MinimizeWindow(v)
  <2> DEFINE m == [st EXCEPT !.min = @ \cup {w}]
  <2>1. v = w BY <1>1, <1>4, MinimizeRests DEF MinimizeWindow, OnlyLoses
  <2>2. w \notin st.min BY <1>1 DEF Rest, Ok, Capable
  <2>3. st' = Losing(m, w, LoseActiveCapability(m, w))
    BY <1>4, <2>1, <2>2 DEF MinimizeWindow, Minimize
  <2>4. /\ m \in State /\ m.min = st.min \cup {w} /\ m.mapped = st.mapped /\ m.mute = st.mute
        /\ m.capA = st.capA /\ m.capF = st.capF /\ m.showing = st.showing
        /\ m.kf = st.kf /\ m.act = st.act /\ m.hist = st.hist /\ m.flag = st.flag
    BY DEF Rest, Ok, State
  <2> HIDE DEF m
  <2>5. /\ m.mapped \ m.min = (st.mapped \ st.min) \ {w} /\ st.mapped \ {w} \subseteq m.mapped
        /\ ~m.showing
    BY <2>4
  <2> QED BY <2>3, <2>4, <2>5, LosingFalls
<1> QED BY <1>2, <1>3, <1>4

\* When the window with the keyboard of the primary seat can no longer be active,
\* outside of the show desktop state and of the lock screen, the latest window of
\* the history is activated and has the keyboard, whatever the other seats have;
\* where clients do not use the v2 request, which may leave a window in the history
\* that refuses the keyboard.
THEOREM FallsBack ==
  ASSUME ~ShellV2
  PROVE  Spec => FocusFallsBack
<1>1. /\ Rest(st) /\ [Next]_st
      => [\A w \in Windows :
            (st.kf[Primary] = w /\ w \notin st'.capA /\ ~st.showing /\ st'.mode = "Normal")
              => /\ st'.kf[Primary] = Latest(st'.hist)
                 /\ st'.act[Primary] = Latest(st'.hist)]_st
  BY NextFalls
<1> QED BY <1>1, AtRest, PTL DEF Spec, FocusFallsBack

-----------------------------------------------------------------------------
(* What is seen of the windows, and what a request brings back. *)

\* Which surfaces there are, which are mapped and refuse the keyboard, and the mode.
Aside(s, t) == /\ t \in State /\ t.there = s.there /\ t.mapped = s.mapped
               /\ t.mute = s.mute /\ t.mode = s.mode

\* Those, and what is minimized, hidden, visible and animated.
Seen(s, t) == /\ Aside(s, t) /\ t.min = s.min /\ t.unhid = s.unhid
              /\ t.visible = s.visible /\ t.anim = s.anim /\ t.showing = s.showing

\* The windows are seen as before, unless the show desktop state has ended.
Shows(s, t) == Seen(s, t) \/ (Aside(s, t) /\ s.showing /\ ~t.showing)

LEMMA SeenAgain ==
  ASSUME NEW s, NEW t, NEW u, Seen(s, t), Seen(t, u)
  PROVE  Seen(s, u)
BY DEF Seen, Aside

LEMMA ShowsAgain ==
  ASSUME NEW s, NEW t, NEW u, Shows(s, t), Shows(t, u)
  PROVE  Shows(s, u)
BY DEF Shows, Seen, Aside

LEMMA FocusLeavesSeen ==
  ASSUME NEW s \in State
  PROVE  Seen(s, FocusLeaves(s))
BY DEF State, FocusLeaves, Seen, Aside

LEMMA SetKeyboardFocusSeen ==
  ASSUME NEW s \in State, NEW seat \in Seats, NEW x \in Surfaces \cup {None}
  PROVE  Seen(s, SetKeyboardFocus(s, seat, x))
<1> DEFINE old == s.kf[seat]
           shared == \E o \in Seats \ {seat} : s.kf[o] = old
           u == IF old # None /\ ~shared /\ s.item = old THEN FocusLeaves(s) ELSE s
           t == [u EXCEPT !.kf[seat] = x, !.item = IF x = None THEN @ ELSE x]
<1>1. Seen(s, s) BY DEF Seen, Aside
<1>2. Seen(s, u) BY <1>1, FocusLeavesSeen
<1>3. SetKeyboardFocus(s, seat, x) \in {s, t} BY DEF SetKeyboardFocus
<1> HIDE DEF u
<1>4. u \in State BY <1>2 DEF Seen, Aside
<1>5. Seen(u, t) BY <1>4 DEF State, Seen, Aside
<1> HIDE DEF t
<1> QED BY <1>1, <1>2, <1>3, <1>5, SeenAgain

LEMMA RequestKeyboardFocusSeen ==
  ASSUME NEW s \in State, NEW seat \in Seats, NEW x
  PROVE  Seen(s, RequestKeyboardFocus(s, seat, x))
<1>1. Seen(s, s) BY DEF Seen, Aside
<1>2. s.capF \subseteq Surfaces BY DEF State
<1> QED BY <1>1, <1>2, SetKeyboardFocusSeen DEF RequestKeyboardFocus

LEMMA RestoreShowDesktopFocusSeen ==
  ASSUME NEW s \in State
  PROVE  Seen(s, RestoreShowDesktopFocus(s))
<1> DEFINE step == [seat \in Seats |-> [t \in State |->
                      IF t.act[seat] \in t.capF THEN SetKeyboardFocus(t, seat, t.act[seat]) ELSE t]]
           P == {t \in State : Seen(s, t)}
<1>1. s \in P BY DEF Seen, Aside
<1>2. ASSUME NEW seat \in Seats, NEW t \in P PROVE step[seat][t] \in P
  <2>1. CASE t.act[seat] \in t.capF
    <3>1. t.act[seat] \in Surfaces \cup {None} BY <2>1 DEF State
    <3>2. Seen(t, SetKeyboardFocus(t, seat, t.act[seat])) BY <3>1, SetKeyboardFocusSeen
    <3>3. Seen(s, SetKeyboardFocus(t, seat, t.act[seat])) BY <3>2, SeenAgain
    <3> QED BY <2>1, <3>3 DEF Seen, Aside
  <2>2. CASE t.act[seat] \notin t.capF BY <2>2
  <2> QED BY <2>1, <2>2
<1> HIDE DEF step, P
<1>3. ForEach(Seats, s, step) \in P BY <1>1, <1>2, ForEachKeeps, FocusAssumption
<1> QED BY <1>3 DEF P, step, RestoreShowDesktopFocus

LEMMA DeactivateSeen ==
  ASSUME NEW s \in State, NEW seat \in Seats
  PROVE  Seen(s, Unflag(s, seat)) /\ Seen(s, Deactivate(s, seat))
<1> DEFINE u == Unflag(s, seat)
           d == [u EXCEPT !.act[seat] = None]
<1>1. Seen(s, u) BY DEF State, Unflag, Seen, Aside
<1>2. Deactivate(s, seat) = d BY DEF Deactivate
<1> HIDE DEF u
<1>3. u \in State BY <1>1 DEF Seen, Aside
<1>4. Seen(u, d) BY <1>3 DEF State, Seen, Aside
<1> HIDE DEF d
<1> QED BY <1>1, <1>2, <1>4, SeenAgain DEF u

LEMMA EnterSeen ==
  ASSUME NEW s \in State, NEW seat \in Seats, NEW x \in Windows
  PROVE  Seen(s, Enter(s, seat, x))
<1> DEFINE t == Enter(s, seat, x)
<1>1. s.hist \in SUBSET (Windows \X Windows) BY DEF State
<1>2. Push(s.hist, x) \in SUBSET (Windows \X Windows) BY <1>1, RecencyType
<1>3. t \in State BY <1>2 DEF State, Enter
<1>4. /\ t.there = s.there /\ t.mapped = s.mapped /\ t.mute = s.mute /\ t.mode = s.mode
      /\ t.min = s.min /\ t.unhid = s.unhid /\ t.visible = s.visible /\ t.anim = s.anim
      /\ t.showing = s.showing
  BY DEF State, Enter
<1> QED BY <1>3, <1>4 DEF Seen, Aside

LEMMA SetActivatedShownSeen ==
  ASSUME NEW s \in State, NEW seat \in Seats, NEW x \in Windows \cup {None}
  PROVE  Seen(s, SetActivatedShown(s, seat, x))
<1> DEFINE u == Unflag(s, seat)
<1>1. Seen(s, s) /\ Seen(s, u) /\ Seen(s, Deactivate(s, seat))
  BY DeactivateSeen DEF Seen, Aside
<1>2. SetActivatedShown(s, seat, x) \in {s, Deactivate(s, seat)}
        \/ (SetActivatedShown(s, seat, x) = Enter(u, seat, x) /\ x \in Windows)
  BY DEF SetActivatedShown
<1> HIDE DEF u
<1>3. u \in State BY <1>1 DEF Seen, Aside
<1>4. x \in Windows => Seen(s, Enter(u, seat, x)) BY <1>1, <1>3, EnterSeen, SeenAgain
<1> QED BY <1>1, <1>2, <1>4

LEMMA ActivatingShows ==
  ASSUME NEW s \in State, NEW seat \in Seats, NEW x, NEW a,
         x \in {None} \cup (s.capA \ s.mute) => Shows(s, a)
  PROVE  Shows(s, Activating(s, seat, x, a))
<1> DEFINE h == [s EXCEPT !.hist = IF x \in s.capA THEN Push(@, x) ELSE @]
           v == IF x = None \/ x \in s.capA THEN a ELSE s
           t == Activating(s, seat, x, a)
<1>1. Shows(s, s) BY DEF Shows, Seen, Aside
<1>2. \/ t = s
      \/ t = h
      \/ t = RequestKeyboardFocus(v, seat, x) /\ x \notin s.mute
  BY DEF Activating
<1>3. Shows(s, h)
  <2> DEFINE g == IF x \in s.capA THEN Push(s.hist, x) ELSE s.hist
  <2>1. g \in SUBSET (Windows \X Windows) BY RecencyType DEF State
  <2>2. h = [s EXCEPT !.hist = g] BY DEF State
  <2> HIDE DEF g, h
  <2> QED BY <2>1, <2>2 DEF State, Shows, Seen, Aside
<1>4. x \notin s.mute => Shows(s, v) BY <1>1
<1> HIDE DEF h, v, t
<1>5. ASSUME x \notin s.mute PROVE Shows(s, RequestKeyboardFocus(v, seat, x))
  <2>1. Shows(s, v) BY <1>4, <1>5
  <2>2. v \in State BY <2>1 DEF Shows, Seen, Aside
  <2>3. Seen(v, RequestKeyboardFocus(v, seat, x)) BY <2>2, RequestKeyboardFocusSeen
  <2> QED BY <2>1, <2>3, ShowsAgain DEF Shows
<1> QED BY <1>1, <1>2, <1>3, <1>5 DEF t

LEMMA ReleaseSeen ==
  ASSUME NEW s \in State, NEW seat \in Seats, NEW x
  PROVE  Seen(s, Release(s, seat, x)) /\ Seen(s, LetGo(s, seat, x))
<1>0. Seen(s, s) BY DEF Seen, Aside
<1>1. ASSUME NEW u \in State PROVE Seen(u, Release(u, seat, x))
  <2>1. Seen(u, u) BY DEF Seen, Aside
  <2> QED BY <2>1, RequestKeyboardFocusSeen DEF Release
<1> DEFINE d == IF x \in {s.act[seat], s.kf[seat]} THEN Deactivate(s, seat) ELSE s
<1>2. Seen(s, d) BY <1>0, DeactivateSeen
<1>3. LetGo(s, seat, x) = Release(d, seat, x) BY DEF LetGo
<1> HIDE DEF d
<1>4. d \in State BY <1>2 DEF Seen, Aside
<1>5. Seen(d, Release(d, seat, x)) BY <1>1, <1>4
<1> QED BY <1>1, <1>2, <1>3, <1>5, SeenAgain

LEMMA InactivatingShows ==
  ASSUME NEW s \in State, NEW x, NEW f, s.kf[Primary] = x => Shows(s, f)
  PROVE  Shows(s, Inactivating(s, x, f))
<1> DEFINE u == IF s.kf[Primary] = x THEN Release(f, Primary, x) ELSE LetGo(s, Primary, x)
           step == [seat \in Seats |-> [t \in State |-> LetGo(t, seat, x)]]
           S == Seats \ {Primary}
           P == {t \in State : Shows(s, t)}
<1>1. Shows(s, u)
  <2>1. CASE s.kf[Primary] = x
    <3>1. f \in State BY <2>1 DEF Shows, Seen, Aside
    <3>2. Shows(f, Release(f, Primary, x)) BY <3>1, ReleaseSeen, FocusAssumption DEF Shows
    <3> QED BY <2>1, <3>2, ShowsAgain
  <2>2. CASE s.kf[Primary] # x BY <2>2, ReleaseSeen, FocusAssumption DEF Shows
  <2> QED BY <2>1, <2>2
<1> HIDE DEF u
<1>2. u \in P BY <1>1 DEF Shows, Seen, Aside
<1>3. ASSUME NEW seat \in S, NEW t \in P PROVE step[seat][t] \in P
  <2>1. Seen(t, LetGo(t, seat, x)) BY ReleaseSeen
  <2>2. Shows(s, LetGo(t, seat, x)) BY <2>1, ShowsAgain DEF Shows
  <2> QED BY <2>1, <2>2 DEF Seen, Aside
<1>4. IsFiniteSet(S) BY FocusAssumption, FS_Subset
<1>5. Inactivating(s, x, f) = ForEach(S, u, step) BY DEF Inactivating, u
<1> HIDE DEF step, P, S
<1>6. ForEach(S, u, step) \in P BY <1>2, <1>3, <1>4, ForEachKeeps
<1> QED BY <1>5, <1>6 DEF P

LEMMA ForgetSeen ==
  ASSUME NEW s \in State, NEW x
  PROVE  Seen(s, Forget(s, x))
<1>1. Drop(s.hist, {x}) \in SUBSET (Windows \X Windows) BY DEF State, Drop
<1> QED BY <1>1 DEF Forget, State, Seen, Aside

LEMMA SetFocusCapabilitySeen ==
  ASSUME NEW s \in State, NEW w \in Windows, NEW now
  PROVE  Seen(s, SetFocusCapability(s, w, now))
<1> DEFINE u == [s EXCEPT !.capF = IF now THEN @ \cup {w} ELSE @ \ {w}]
           y == IF now THEN w ELSE None
           S == {seat \in Seats : s.act[seat] = w}
           step == [seat \in Seats |-> [t \in State |-> RequestKeyboardFocus(t, seat, IF now THEN w ELSE None)]]
           P == {t \in State : Seen(s, t)}
<1>1. Seen(s, u) BY DEF State, Seen, Aside, Surfaces
<1>2. SetFocusCapability(s, w, now) \in {u, ForEach(S, u, step)} BY DEF SetFocusCapability
<1> HIDE DEF u
<1>3. u \in P BY <1>1 DEF Seen, Aside
<1>4. ASSUME NEW seat \in S, NEW t \in P PROVE step[seat][t] \in P
  <2>1. step[seat][t] = RequestKeyboardFocus(t, seat, y) OBVIOUS
  <2> HIDE DEF y, step
  <2>2. Seen(t, RequestKeyboardFocus(t, seat, y)) BY RequestKeyboardFocusSeen
  <2>3. Seen(s, RequestKeyboardFocus(t, seat, y)) BY <2>2, SeenAgain
  <2> QED BY <2>1, <2>3 DEF Seen, Aside
<1>5. IsFiniteSet(S) BY FocusAssumption, FS_Subset
<1> HIDE DEF step, P, S
<1>6. ForEach(S, u, step) \in P BY <1>3, <1>4, <1>5, ForEachKeeps
<1> QED BY <1>1, <1>2, <1>6 DEF P

\* What is minimized, hidden, visible and animated of a window stays.
Spares(s, t, w) == /\ Aside(s, t)
                   /\ w \in t.min <=> w \in s.min
                   /\ w \in t.unhid <=> w \in s.unhid
                   /\ w \in t.visible <=> w \in s.visible
                   /\ w \in t.anim <=> w \in s.anim

LEMMA UpdateVisibleFields ==
  ASSUME NEW s \in State, NEW w \in Windows
  PROVE  LET t == UpdateVisible(s, w)
         IN  /\ Aside(s, t) /\ t.min = s.min /\ t.unhid = s.unhid /\ t.anim = s.anim
             /\ t.showing = s.showing
             /\ t.visible \ {w} = s.visible \ {w}
             /\ w \in t.visible <=> w \in (s.mapped \cap s.unhid) \ s.min
BY DEF State, UpdateVisible, Aside

\* The parts of Losing before the visibility.
LEMMA LosingShows ==
  ASSUME NEW m \in State, NEW w \in Windows, NEW a, Shows(m, a)
  PROVE  \E k : Shows(m, k) /\ Losing(m, w, a) = UpdateVisible(k, w)
<1> DEFINE v == IF w \in m.capA THEN a ELSE m
           k == SetFocusCapability(v, w, FALSE)
<1>1. Shows(m, m) BY DEF Shows, Seen, Aside
<1>2. Shows(m, v) BY <1>1
<1>3. Losing(m, w, a) = UpdateVisible(k, w) BY DEF Losing
<1> HIDE DEF v
<1>4. v \in State BY <1>2 DEF Shows, Seen, Aside
<1>5. Seen(v, k) BY <1>4, SetFocusCapabilitySeen
<1> HIDE DEF k
<1>6. Shows(m, k) BY <1>2, <1>5, ShowsAgain DEF Shows
<1> QED BY <1>3, <1>6

LEMMA InactivationShownSeen ==
  ASSUME NEW s \in State, NEW x, ~s.showing
  PROVE  Seen(s, InactivationShown(s, x))
<1> DEFINE u == Forget(s, x)
           l == Latest(u.hist)
           d == Deactivate(u, Primary)
           a == SetActivatedShown(d, Primary, l)
           f == Activating(d, Primary, l, a)
<1>0. Primary \in Seats BY FocusAssumption
<1>1. Seen(s, u) BY ForgetSeen
<1>2. InactivationShown(s, x) = Inactivating(u, x, f) BY DEF InactivationShown, ActivateShown
<1> HIDE DEF u
<1>3. u \in State BY <1>1 DEF Seen, Aside
<1>4. Seen(u, d) BY <1>0, <1>3, DeactivateSeen
<1> HIDE DEF d, l
<1>5. d \in State BY <1>4 DEF Seen, Aside
<1>6. l \in {None} \cup (d.capA \ d.mute) => Shows(d, a)
  <2>1. d.capA \subseteq Windows BY <1>5 DEF State
  <2> QED BY <1>0, <1>5, <2>1, SetActivatedShownSeen DEF Shows
<1> HIDE DEF a
<1>7. Shows(d, f) BY <1>0, <1>5, <1>6, ActivatingShows
<1> HIDE DEF f
<1>8. Shows(u, f) BY <1>4, <1>7, ShowsAgain DEF Shows
<1>9. Shows(u, Inactivating(u, x, f)) BY <1>3, <1>8, InactivatingShows
<1>10. Shows(s, Inactivating(u, x, f)) BY <1>1, <1>9, ShowsAgain DEF Shows
<1> QED BY <1>2, <1>10 DEF Shows

LEMMA MinimizeShownFields ==
  ASSUME NEW s \in State, NEW v \in Windows, ~s.showing
  PROVE  LET t == MinimizeShown(s, v)
         IN  /\ Aside(s, t) /\ ~t.showing /\ t.unhid = s.unhid /\ t.anim = s.anim
             /\ t.min \ {v} = s.min \ {v} /\ t.visible \ {v} = s.visible \ {v}
<1> DEFINE m == [s EXCEPT !.min = @ \cup {v}]
           c == [m EXCEPT !.capA = @ \ {v}]
           a == InactivationShown(c, v)
<1>1. /\ Aside(s, m) /\ m.min = s.min \cup {v} /\ m.unhid = s.unhid /\ m.anim = s.anim
      /\ m.visible = s.visible /\ ~m.showing
  BY DEF State, Aside
<1>2. MinimizeShown(s, v) = Losing(m, v, a) BY DEF MinimizeShown
<1> HIDE DEF m
<1>3. m \in State BY <1>1 DEF Aside
<1>4. Seen(m, c) BY <1>3 DEF State, Seen, Aside
<1> HIDE DEF c
<1>5. c \in State /\ ~c.showing BY <1>1, <1>4 DEF Seen, Aside
<1>6. Seen(c, a) BY <1>5, InactivationShownSeen
<1> HIDE DEF a
<1>7. Shows(m, a) BY <1>4, <1>6, SeenAgain DEF Shows
<1>8. PICK k : Shows(m, k) /\ Losing(m, v, a) = UpdateVisible(k, v)
  BY <1>3, <1>7, LosingShows
<1>9. Seen(m, k) BY <1>1, <1>8 DEF Shows
<1> DEFINE t == UpdateVisible(k, v)
<1>10. k \in State BY <1>9 DEF Seen, Aside
<1>11. /\ Aside(k, t) /\ t.min = k.min /\ t.unhid = k.unhid /\ t.anim = k.anim
       /\ t.showing = k.showing
       /\ t.visible \ {v} = k.visible \ {v}
  BY <1>10, UpdateVisibleFields
<1> HIDE DEF t
<1>12. MinimizeShown(s, v) = t BY <1>2, <1>8 DEF t
<1>13. Aside(s, t) /\ ~t.showing /\ t.unhid = s.unhid /\ t.anim = s.anim
  BY <1>1, <1>9, <1>11 DEF Seen, Aside
<1>14. t.min \ {v} = s.min \ {v} /\ t.visible \ {v} = s.visible \ {v}
  BY <1>1, <1>9, <1>11 DEF Seen
<1> QED BY <1>12, <1>13, <1>14

\* The end of the show desktop state leaves the window that is asked for alone.
LEMMA CancelShowDesktopSpares ==
  ASSUME NEW s \in State, NEW x
  PROVE  LET t == CancelShowDesktop(s, x)
         IN  Spares(s, t, x) /\ ~t.showing /\ Shows(s, t)
<1> DEFINE step == [w \in Windows |-> [t \in State |->
                      IF w = x \/ w \in t.min \/ w \in t.visible THEN t
                      ELSE MinimizeShown([t EXCEPT !.unhid = @ \cup {w}], w)]]
           u == [s EXCEPT !.showing = FALSE]
           S == Windows \cap s.there
           P == {t \in State : Spares(s, t, x) /\ ~t.showing}
<1>1. CASE ~s.showing
  <2>1. CancelShowDesktop(s, x) = s BY <1>1 DEF CancelShowDesktop
  <2> QED BY <1>1, <2>1 DEF Spares, Shows, Seen, Aside
<1>2. CASE s.showing
  <2>1. u \in P BY DEF State, Spares, Aside
  <2> HIDE DEF u
  <2>3. ASSUME NEW w \in S, NEW t \in P PROVE step[w][t] \in P
    <3>1. CASE w = x \/ w \in t.min \/ w \in t.visible BY <3>1
    <3>2. CASE ~(w = x \/ w \in t.min \/ w \in t.visible)
      <4> DEFINE v == [t EXCEPT !.unhid = @ \cup {w}]
                 m == MinimizeShown(v, w)
      <4>1. step[w][t] = m BY <3>2
      <4>2. /\ Aside(t, v) /\ v.unhid = t.unhid \cup {w} /\ v.min = t.min
            /\ v.visible = t.visible /\ v.anim = t.anim /\ ~v.showing
        BY DEF State, Aside
      <4> HIDE DEF v
      <4>3. v \in State BY <4>2 DEF Aside
      <4>4. /\ Aside(v, m) /\ ~m.showing /\ m.unhid = v.unhid /\ m.anim = v.anim
            /\ m.min \ {w} = v.min \ {w} /\ m.visible \ {w} = v.visible \ {w}
        BY <4>2, <4>3, MinimizeShownFields
      <4> HIDE DEF m
      <4>5. Aside(s, m) BY <4>2, <4>4 DEF Aside, Spares
      <4>6. Spares(s, m, x) BY <3>2, <4>2, <4>4, <4>5 DEF Spares
      <4> QED BY <4>1, <4>4, <4>6 DEF Aside
    <3> QED BY <3>1, <3>2
  <2>4. IsFiniteSet(S) BY FocusAssumption, FS_Intersection
  <2> HIDE DEF step, S, P
  <2>5. ForEach(S, u, step) \in P BY <2>1, <2>3, <2>4, ForEachKeeps
  <2>6. CancelShowDesktop(s, x) = ForEach(S, u, step)
    BY <1>2 DEF CancelShowDesktop, S, u, step
  <2> QED BY <1>2, <2>5, <2>6 DEF P, Shows, Spares
<1> QED BY <1>1, <1>2

LEMMA SetActivatedShows ==
  ASSUME NEW s \in State, NEW seat \in Seats, NEW x \in Windows \cup {None}
  PROVE  Shows(s, SetActivated(s, seat, x))
<1>1. CASE s.act[seat] # x /\ x # None /\ s.showing
  <2> DEFINE u == Unflag(s, seat)
             c == CancelShowDesktop(u, x)
             e == Enter(c, seat, x)
             h == [e EXCEPT !.unhid = @ \cup {x}]
             t == RestoreShowDesktopFocus(h)
  <2>0. x \in Windows BY <1>1
  <2>1. SetActivated(s, seat, x) = t BY <1>1 DEF SetActivated
  <2>2. Seen(s, u) BY DeactivateSeen
  <2> HIDE DEF u
  <2>3. u \in State BY <2>2 DEF Seen, Aside
  <2>4. Spares(u, c, x) /\ ~c.showing BY <2>3, CancelShowDesktopSpares
  <2> HIDE DEF c
  <2>5. c \in State BY <2>4 DEF Spares, Aside
  <2>6. Seen(c, e) BY <2>0, <2>5, EnterSeen
  <2> HIDE DEF e
  <2>7. e \in State BY <2>6 DEF Seen, Aside
  <2>8. Aside(e, h) /\ h.showing = e.showing BY <2>0, <2>7 DEF State, Aside
  <2> HIDE DEF h
  <2>9. h \in State BY <2>8 DEF Aside
  <2>10. Seen(h, t) BY <2>9, RestoreShowDesktopFocusSeen
  <2> HIDE DEF t
  <2>11. Aside(s, t) /\ ~t.showing BY <2>2, <2>4, <2>6, <2>8, <2>10 DEF Seen, Spares, Aside
  <2> QED BY <1>1, <2>1, <2>11 DEF Shows
<1>2. CASE ~(s.act[seat] # x /\ x # None /\ s.showing)
  BY <1>2, SetActivatedShownSeen DEF SetActivated, Shows
<1> QED BY <1>1, <1>2

LEMMA ActivateShows ==
  ASSUME NEW s \in State, NEW seat \in Seats, NEW x
  PROVE  Shows(s, Activate(s, seat, x))
<1> DEFINE a == SetActivated(s, seat, x)
<1>1. s.capA \subseteq Windows BY DEF State
<1>2. x \in {None} \cup (s.capA \ s.mute) => Shows(s, a) BY <1>1, SetActivatedShows
<1>3. Activate(s, seat, x) = Activating(s, seat, x, a) BY DEF Activate
<1> HIDE DEF a
<1> QED BY <1>2, <1>3, ActivatingShows

LEMMA InactivationRequestedShows ==
  ASSUME NEW s \in State, NEW x
  PROVE  Shows(s, InactivationRequested(s, x))
<1> DEFINE u == Forget(s, x)
           d == Deactivate(u, Primary)
           f == Activate(d, Primary, Latest(u.hist))
<1>0. Primary \in Seats BY FocusAssumption
<1>1. Seen(s, u) BY ForgetSeen
<1>2. InactivationRequested(s, x) = Inactivating(u, x, f) BY DEF InactivationRequested
<1> HIDE DEF u
<1>3. u \in State BY <1>1 DEF Seen, Aside
<1>4. Seen(u, d) BY <1>0, <1>3, DeactivateSeen
<1> HIDE DEF d
<1>5. d \in State BY <1>4 DEF Seen, Aside
<1>6. Shows(d, f) BY <1>0, <1>5, ActivateShows
<1> HIDE DEF f
<1>7. Shows(u, f) BY <1>4, <1>6, ShowsAgain DEF Shows
<1>8. Shows(u, Inactivating(u, x, f)) BY <1>3, <1>7, InactivatingShows
<1> QED BY <1>1, <1>2, <1>8, ShowsAgain DEF Shows

LEMMA CapabilityShows ==
  ASSUME NEW s \in State, NEW w \in Windows
  PROVE  Shows(s, GainActiveCapability(s, w)) /\ Shows(s, LoseActiveCapability(s, w))
<1> DEFINE g == [s EXCEPT !.capA = @ \cup {w}]
           c == [s EXCEPT !.capA = @ \ {w}]
<1>0. Primary \in Seats BY FocusAssumption
<1>1. Seen(s, s) /\ Seen(s, g) /\ Seen(s, c) BY DEF State, Seen, Aside
<1>2. GainActiveCapability(s, w) \in {s, Activate(g, Primary, w)} BY DEF GainActiveCapability
<1>3. LoseActiveCapability(s, w) = InactivationRequested(c, w) BY DEF LoseActiveCapability
<1> HIDE DEF g, c
<1>4. g \in State /\ c \in State BY <1>1 DEF Seen, Aside
<1>5. Shows(g, Activate(g, Primary, w)) BY <1>0, <1>4, ActivateShows
<1>6. Shows(c, InactivationRequested(c, w)) BY <1>4, InactivationRequestedShows
<1>7. Shows(s, s) /\ Shows(s, g) /\ Shows(s, c) BY <1>1 DEF Shows
<1> QED BY <1>2, <1>3, <1>5, <1>6, <1>7, ShowsAgain

\* The window is no longer hidden or minimized, before its capabilities change.
Unhidden(s, w) == [s EXCEPT !.unhid = @ \cup {w}, !.min = @ \ {w}]

LEMMA RestoreFromMinimizedShows ==
  ASSUME NEW s \in State, NEW w \in Windows
  PROVE  \/ RestoreFromMinimized(s, w) = s /\ w \notin s.min /\ w \in s.unhid
         \/ \E g : Shows(Unhidden(s, w), g) /\ RestoreFromMinimized(s, w) = UpdateVisible(g, w)
<1> DEFINE r == Unhidden(s, w)
           now == w \in s.mapped /\ w \notin s.mute
           f == SetFocusCapability(r, w, now)
           g == IF w \in s.mapped THEN GainActiveCapability(f, w) ELSE f
<1>1. r \in State BY DEF State, Unhidden
<1>2. \/ RestoreFromMinimized(s, w) = s /\ w \notin s.min /\ w \in s.unhid
      \/ RestoreFromMinimized(s, w) = UpdateVisible(g, w)
  BY DEF RestoreFromMinimized, Unhidden
<1> HIDE DEF r, now
<1>3. Seen(r, f) BY <1>1, SetFocusCapabilitySeen
<1> HIDE DEF f
<1>4. f \in State /\ Shows(r, f) BY <1>3 DEF Shows, Seen, Aside
<1>5. Shows(r, g) BY <1>4, CapabilityShows, ShowsAgain
<1> HIDE DEF g
<1> QED BY <1>2, <1>5 DEF r

LEMMA SetKeyboardFocusTakes ==
  ASSUME NEW s \in State, NEW seat \in Seats, NEW w \in Windows
  PROVE  LET t == SetKeyboardFocus(s, seat, w)
         IN  t.act = s.act /\ t.kf[seat] \in {w, Panel}
<1> DEFINE old == s.kf[seat]
           shared == \E o \in Seats \ {seat} : s.kf[o] = old
           u == IF old # None /\ ~shared /\ s.item = old THEN FocusLeaves(s) ELSE s
           t == [u EXCEPT !.kf[seat] = w, !.item = IF w = None THEN @ ELSE w]
<1>1. \/ SetKeyboardFocus(s, seat, w) = t
      \/ SetKeyboardFocus(s, seat, w) = s /\ (old = w \/ Priority(old) > Priority(w))
  BY DEF SetKeyboardFocus
<1>2. Priority(old) > Priority(w) => old = Panel BY FocusAssumption DEF Priority
<1>3. Refocused(s, FocusLeaves(s)) BY FocusLeavesRefocuses
<1>4. u \in State /\ u.act = s.act BY <1>3 DEF Refocused, Still
<1> HIDE DEF u
<1>5. t.act = u.act /\ t.kf[seat] = w BY <1>4 DEF State
<1> HIDE DEF t
<1> QED BY <1>1, <1>2, <1>4, <1>5

\* A window that can be active and accepts the keyboard is activated and gets it.
LEMMA ActivateTakes ==
  ASSUME NEW s, Rest(s), NEW seat \in Seats, NEW w \in Windows, ~s.showing, s.mode = "Normal",
         w \in s.mapped \ s.min, w \notin s.mute
  PROVE  LET t == Activate(s, seat, w)
         IN  Seen(s, t) /\ t.act[seat] = w /\ t.kf[seat] \in {w, Panel}
<1> DEFINE a == SetActivatedShown(s, seat, w)
<1>0. s \in State /\ w # None BY RecencyAssumption DEF Rest, Ok
<1>1. w \in s.capA BY DEF Rest, Ok, Capable, Nothing
<1>2. w \in s.capF BY <1>1 DEF Rest, Ok, Capable, Nothing
<1>3. Activate(s, seat, w) = RequestKeyboardFocus(a, seat, w)
  BY <1>0, <1>1 DEF Activate, Activating, SetActivated, Blocked
<1>4. a.act[seat] = w /\ a.capF = s.capF
  <2> DEFINE u == Unflag(s, seat)
  <2>1. u \in State /\ u.capF = s.capF /\ u.mute = s.mute BY <1>0 DEF Unflag, State
  <2>2. (a = s /\ s.act[seat] = w) \/ a = Enter(u, seat, w)
    BY <1>0 DEF SetActivatedShown
  <2> HIDE DEF u
  <2>3. Enter(u, seat, w).act[seat] = w /\ Enter(u, seat, w).capF = u.capF
    BY <2>1 DEF Enter, State
  <2> HIDE DEF a
  <2> QED BY <2>1, <2>2, <2>3
<1>5. Seen(s, a) BY <1>0, SetActivatedShownSeen
<1> HIDE DEF a
<1>6. a \in State BY <1>5 DEF Seen, Aside
<1>7. RequestKeyboardFocus(a, seat, w) = SetKeyboardFocus(a, seat, w)
  BY <1>2, <1>4 DEF RequestKeyboardFocus
<1> DEFINE t == SetKeyboardFocus(a, seat, w)
<1>8. t.act = a.act /\ t.kf[seat] \in {w, Panel} BY <1>6, SetKeyboardFocusTakes
<1>9. Seen(a, t) BY <1>6, SetKeyboardFocusSeen DEF Surfaces
<1> HIDE DEF t
<1>10. Seen(s, t) BY <1>5, <1>9, SeenAgain
<1> QED BY <1>3, <1>4, <1>7, <1>8, <1>10 DEF t

\* Outside of the show desktop state, a window that is restored is visible, unless
\* it was not minimized or hidden.
LEMMA RestoreFromMinimizedBrings ==
  ASSUME NEW s \in State, NEW w \in Windows, ~s.showing
  PROVE  LET t == RestoreFromMinimized(s, w)
         IN  /\ Aside(s, t) /\ ~t.showing /\ w \notin t.min
             /\ \/ t = s /\ w \in s.unhid
                \/ w \in s.mapped => w \in t.visible
<1> DEFINE r == Unhidden(s, w)
           t == RestoreFromMinimized(s, w)
<1>1. CASE t = s /\ w \notin s.min /\ w \in s.unhid
  BY <1>1 DEF Aside
<1>2. ASSUME NEW g, Shows(r, g), t = UpdateVisible(g, w)
      PROVE  /\ Aside(s, t) /\ ~t.showing /\ w \notin t.min
             /\ w \in s.mapped => w \in t.visible
  <2>1. Aside(s, r) /\ ~r.showing /\ w \in r.unhid /\ w \notin r.min
    BY DEF Unhidden, State, Aside
  <2> HIDE DEF r, t
  <2>2. Seen(r, g) BY <1>2, <2>1 DEF Shows
  <2>3. g \in State BY <2>2 DEF Seen, Aside
  <2>4. LET v == UpdateVisible(g, w)
        IN  /\ Aside(g, v) /\ v.min = g.min /\ v.unhid = g.unhid /\ v.anim = g.anim
            /\ v.showing = g.showing
            /\ v.visible \ {w} = g.visible \ {w}
            /\ w \in v.visible <=> w \in (g.mapped \cap g.unhid) \ g.min
    BY <2>3, UpdateVisibleFields
  <2> QED BY <1>2, <2>1, <2>2, <2>4 DEF Seen, Aside
<1>3. \/ t = s /\ w \notin s.min /\ w \in s.unhid
      \/ \E g : Shows(r, g) /\ t = UpdateVisible(g, w)
  BY RestoreFromMinimizedShows
<1> HIDE DEF t, r
<1> QED BY <1>1, <1>2, <1>3 DEF t

\* While the desktop is shown, a window that is neither minimized nor marked as
\* hidden is visible or its animation runs, except for the windows of X; the
\* surface of a mapped window exists.
Viewed(s, X) == /\ s.mapped \cap Windows \subseteq s.there
                /\ s.showing => ((s.mapped \cap s.unhid) \ s.min) \ X \subseteq s.visible \cup s.anim

LEMMA RestoreFromShowDesktopBrings ==
  ASSUME NEW s, Rest(s), Viewed(s, Nothing), s.showing, NEW w \in s.mapped \cap Windows
  PROVE  LET t == RestoreFromShowDesktop(s, w)
         IN  Aside(s, t) /\ w \in (t.visible \cup t.anim) \ t.min
<1> DEFINE c == CancelShowDesktop(s, w)
           k == RestoreFromMinimized(c, w)
           t == RestoreShowDesktopFocus(k)
<1>0. s \in State /\ w # None BY RecencyAssumption DEF Rest, Ok
<1>1. RestoreFromShowDesktop(s, w) = t BY <1>0 DEF RestoreFromShowDesktop
<1>2. Spares(s, c, w) /\ ~c.showing BY <1>0, CancelShowDesktopSpares
<1> HIDE DEF c
<1>3. c \in State BY <1>2 DEF Spares, Aside
<1>4. /\ Aside(c, k) /\ ~k.showing /\ w \notin k.min
      /\ \/ k = c /\ w \in c.unhid
         \/ w \in c.mapped => w \in k.visible
  BY <1>2, <1>3, RestoreFromMinimizedBrings
<1> HIDE DEF k
<1>5. w \in k.visible \cup k.anim
  <2>1. CASE k = c /\ w \in c.unhid
    <3>1. w \in (s.mapped \cap s.unhid) \ s.min BY <1>2, <1>4, <2>1 DEF Spares
    <3>2. w \in s.visible \cup s.anim BY <3>1 DEF Viewed, Nothing
    <3> QED BY <1>2, <2>1, <3>2 DEF Spares
  <2>2. CASE w \in c.mapped => w \in k.visible BY <1>2, <2>2 DEF Spares, Aside
  <2> QED BY <1>4, <2>1, <2>2
<1>6. Seen(k, t)
  <2>1. k \in State BY <1>4 DEF Aside
  <2> QED BY <2>1, RestoreShowDesktopFocusSeen
<1> HIDE DEF t
<1>7. Aside(s, t) BY <1>2, <1>4, <1>6 DEF Spares, Seen, Aside
<1> QED BY <1>1, <1>4, <1>5, <1>6, <1>7 DEF Seen

\* A request, in a state at rest.
LEMMA ForceActivateBrings ==
  ASSUME NEW s, Rest(s), Viewed(s, Nothing), NEW seat \in Seats,
         NEW w \in s.mapped \cap Windows, w \notin s.mute, s.mode = "Normal",
         s.showing \/ w \in s.min \/ w \in s.visible
  PROVE  LET t == ForceActivateSurface(s, seat, w)
         IN  /\ w \in (t.visible \cup t.anim) \ t.min
             /\ t.act[seat] = w /\ t.kf[seat] \in {w, Panel}
<1> DEFINE r == RestoreFromShowDesktop(s, w)
           m == IF w \in r.min THEN RestoreFromMinimized(r, w) ELSE r
           a == IF w \in m.mapped THEN Activate(m, seat, w) ELSE m
<1>0. w \in Windows /\ s \in State BY DEF Rest, Ok
<1>1. ForceActivateSurface(s, seat, w) = a BY DEF ForceActivateSurface
<1>2. Rest(r) /\ ~r.showing BY <1>0, RestoreFromShowDesktopRests
<1>3. Aside(s, r) /\ (w \in r.min \/ w \in r.visible \cup r.anim)
  <2>1. CASE s.showing
    BY <2>1, RestoreFromShowDesktopBrings
  <2>2. CASE ~s.showing
    <3>1. r = s BY <2>2 DEF RestoreFromShowDesktop
    <3> QED BY <1>0, <2>2, <3>1 DEF Aside
  <2> QED BY <2>1, <2>2
<1> HIDE DEF r
<1>4. r \in State BY <1>3 DEF Aside
<1>5. Rest(m) /\ ~m.showing
  BY <1>0, <1>2, RestoreFromMinimizedRests DEF Steady, KeepsOff
<1>6. Aside(r, m) /\ w \in (m.visible \cup m.anim) \ m.min
  <2>1. CASE w \in r.min
    <3> DEFINE b == RestoreFromMinimized(r, w)
    <3>1. /\ Aside(r, b) /\ ~b.showing /\ w \notin b.min
          /\ \/ b = r /\ w \in r.unhid
             \/ w \in r.mapped => w \in b.visible
      BY <1>0, <1>2, <1>4, RestoreFromMinimizedBrings
    <3>2. m = b BY <2>1
    <3> HIDE DEF m, b
    <3>3. w \in r.mapped BY <1>3 DEF Aside
    <3> QED BY <2>1, <3>1, <3>2, <3>3
  <2>2. CASE w \notin r.min
    <3>1. m = r BY <2>2
    <3> HIDE DEF m
    <3> QED BY <1>3, <1>4, <2>2, <3>1 DEF Aside
  <2> QED BY <2>1, <2>2
<1> HIDE DEF m
<1>7. w \in m.mapped \ m.min /\ w \notin m.mute /\ m.mode = "Normal"
  BY <1>3, <1>6 DEF Aside
<1>8. a = Activate(m, seat, w) BY <1>7
<1>9. LET t == Activate(m, seat, w)
      IN  Seen(m, t) /\ t.act[seat] = w /\ t.kf[seat] \in {w, Panel}
  BY <1>0, <1>5, <1>7, ActivateTakes
<1> HIDE DEF a
<1> QED BY <1>1, <1>6, <1>8, <1>9 DEF Seen

-----------------------------------------------------------------------------
(* Viewed is kept by every step. *)

\* The windows are seen as before, whatever happens to other surfaces and the mode.
Windowed(s, t) ==
  /\ t \in State /\ t.mapped \cap Windows = s.mapped \cap Windows
  /\ t.there \cap Windows = s.there \cap Windows
  /\ t.min = s.min /\ t.unhid = s.unhid /\ t.visible = s.visible /\ t.anim = s.anim
  /\ t.showing = s.showing

LEMMA WindowedAgain ==
  ASSUME NEW s, NEW t, NEW u, Windowed(s, t), Windowed(t, u)
  PROVE  Windowed(s, u)
BY DEF Windowed

LEMMA SeenWindowed ==
  ASSUME NEW s, NEW t, Seen(s, t)
  PROVE  Windowed(s, t)
BY DEF Seen, Aside, Windowed

LEMMA WindowedViewed ==
  ASSUME NEW s \in State, NEW X, Viewed(s, X), NEW t, Windowed(s, t)
  PROVE  t \in State /\ Viewed(t, X)
<1>1. t.unhid \subseteq Windows /\ s.unhid \subseteq Windows BY DEF Windowed, State
<1>2. t.mapped \cap t.unhid = s.mapped \cap s.unhid BY <1>1 DEF Windowed
<1> QED BY <1>2 DEF Viewed, Windowed

LEMMA ShowsViewed ==
  ASSUME NEW s, NEW X, Viewed(s, X), NEW t, Shows(s, t)
  PROVE  t \in State /\ Viewed(t, X)
BY DEF Viewed, Shows, Seen, Aside

LEMMA EndedViewed ==
  ASSUME NEW s, NEW X, Viewed(s, X), NEW t, Aside(s, t), ~t.showing
  PROVE  t \in State /\ Viewed(t, Nothing)
BY DEF Viewed, Aside

LEMMA UpdateVisibleViewed ==
  ASSUME NEW s \in State, NEW w \in Windows, Viewed(s, {w})
  PROVE  UpdateVisible(s, w) \in State /\ Viewed(UpdateVisible(s, w), Nothing)
<1> DEFINE t == UpdateVisible(s, w)
<1>1. /\ Aside(s, t) /\ t.min = s.min /\ t.unhid = s.unhid /\ t.anim = s.anim
      /\ t.showing = s.showing
      /\ t.visible \ {w} = s.visible \ {w}
      /\ w \in t.visible <=> w \in (s.mapped \cap s.unhid) \ s.min
  BY UpdateVisibleFields
<1> HIDE DEF t
<1>2. Viewed(t, Nothing) BY <1>1 DEF Viewed, Aside, Nothing
<1> QED BY <1>1, <1>2 DEF Aside, t

\* A window changes, its handlers run, and then its visibility is updated.
LEMMA ChangedViewed ==
  ASSUME NEW m \in State, NEW w \in Windows, Viewed(m, {w}), NEW k, Shows(m, k)
  PROVE  UpdateVisible(k, w) \in State /\ Viewed(UpdateVisible(k, w), Nothing)
<1>1. k \in State /\ Viewed(k, {w}) BY ShowsViewed
<1> QED BY <1>1, UpdateVisibleViewed

LEMMA LosingViewed ==
  ASSUME NEW m \in State, NEW w \in Windows, Viewed(m, {w})
  PROVE  LET t == Losing(m, w, LoseActiveCapability(m, w))
         IN  t \in State /\ Viewed(t, Nothing)
<1> DEFINE a == LoseActiveCapability(m, w)
<1>1. Shows(m, a) BY CapabilityShows
<1> HIDE DEF a
<1>2. PICK k : Shows(m, k) /\ Losing(m, w, a) = UpdateVisible(k, w) BY <1>1, LosingShows
<1> QED BY <1>2, ChangedViewed DEF a

LEMMA RestoreFromMinimizedViewed ==
  ASSUME NEW s \in State, NEW w \in Windows, Viewed(s, Nothing)
  PROVE  LET t == RestoreFromMinimized(s, w)
         IN  t \in State /\ Viewed(t, Nothing)
<1> DEFINE r == Unhidden(s, w)
           t == RestoreFromMinimized(s, w)
<1>1. r \in State /\ Viewed(r, {w}) BY DEF Unhidden, State, Viewed, Nothing
<1>2. \/ t = s /\ w \notin s.min /\ w \in s.unhid
      \/ \E g : Shows(r, g) /\ t = UpdateVisible(g, w)
  BY RestoreFromMinimizedShows
<1> HIDE DEF t, r
<1> QED BY <1>1, <1>2, ChangedViewed DEF t

LEMMA RestoreFromShowDesktopAside ==
  ASSUME NEW s \in State, NEW x \in Windows \cup {None}
  PROVE  LET t == RestoreFromShowDesktop(s, x)
         IN  Aside(s, t) /\ ~t.showing
<1> DEFINE c == CancelShowDesktop(s, x)
           k == IF x = None THEN c ELSE RestoreFromMinimized(c, x)
           t == RestoreShowDesktopFocus(k)
<1>1. \/ RestoreFromShowDesktop(s, x) = s /\ ~s.showing
      \/ RestoreFromShowDesktop(s, x) = t
  BY DEF RestoreFromShowDesktop
<1>2. Spares(s, c, x) /\ ~c.showing BY CancelShowDesktopSpares
<1> HIDE DEF c
<1>3. c \in State BY <1>2 DEF Spares, Aside
<1>4. Aside(c, k) /\ ~k.showing
  BY <1>2, <1>3, RestoreFromMinimizedBrings DEF Aside
<1> HIDE DEF k
<1>5. k \in State BY <1>4 DEF Aside
<1>6. Seen(k, t) BY <1>5, RestoreShowDesktopFocusSeen
<1> HIDE DEF t
<1>7. Aside(s, t) /\ ~t.showing BY <1>2, <1>4, <1>6 DEF Spares, Seen, Aside
<1> QED BY <1>1, <1>7 DEF Aside

LEMMA ForceActivateAside ==
  ASSUME NEW s \in State, NEW seat \in Seats, NEW w \in Windows
  PROVE  LET t == ForceActivateSurface(s, seat, w)
         IN  Aside(s, t) /\ ~t.showing
<1> DEFINE r == RestoreFromShowDesktop(s, w)
           m == IF w \in r.min THEN RestoreFromMinimized(r, w) ELSE r
           a == IF w \in m.mapped THEN Activate(m, seat, w) ELSE m
<1>1. ForceActivateSurface(s, seat, w) = a BY DEF ForceActivateSurface
<1>2. Aside(s, r) /\ ~r.showing BY RestoreFromShowDesktopAside
<1> HIDE DEF r
<1>3. r \in State BY <1>2 DEF Aside
<1>4. Aside(r, m) /\ ~m.showing BY <1>2, <1>3, RestoreFromMinimizedBrings DEF Aside
<1> HIDE DEF m
<1>5. m \in State BY <1>4 DEF Aside
<1>6. Shows(m, a) BY <1>5, ActivateShows DEF Shows, Seen, Aside
<1> HIDE DEF a
<1>7. Aside(s, a) /\ ~a.showing BY <1>2, <1>4, <1>6 DEF Shows, Seen, Aside
<1> QED BY <1>1, <1>7

LEMMA SurfaceDestroyedSeen ==
  ASSUME NEW s \in State, NEW x
  PROVE  Seen(s, SurfaceDestroyed(s, x))
<1> DEFINE step == [seat \in Seats |-> [t \in State |-> Destroyed(t, seat, x)]]
           P == {t \in State : Seen(s, t)}
<1>1. s \in P BY DEF Seen, Aside
<1>2. ASSUME NEW seat \in Seats, NEW t \in P PROVE step[seat][t] \in P
  <2> DEFINE a == [t EXCEPT !.act[seat] = IF @ = x THEN None ELSE @]
             k == SetKeyboardFocus(a, seat, None)
  <2>1. Seen(t, a) BY DEF State, Seen, Aside
  <2>2. step[seat][t] \in {a, k} BY DEF Destroyed
  <2> HIDE DEF a, step
  <2>3. a \in State BY <2>1 DEF Seen, Aside
  <2>4. Seen(a, k) BY <2>3, SetKeyboardFocusSeen
  <2> HIDE DEF k
  <2>5. Seen(s, a) /\ Seen(s, k) BY <2>1, <2>4, SeenAgain
  <2> QED BY <2>2, <2>5 DEF Seen, Aside
<1> HIDE DEF step, P
<1>3. ForEach(Seats, s, step) \in P BY <1>1, <1>2, ForEachKeeps, FocusAssumption
<1>4. SurfaceDestroyed(s, x) = ForEach(Seats, s, step)
  BY DEF SurfaceDestroyed, Destroyed, step
<1> QED BY <1>3, <1>4 DEF P

LEMMA KeyboardGrabEndSeen ==
  ASSUME NEW s \in State, NEW seat \in Seats
  PROVE  Seen(s, KeyboardGrabEnd(s, seat))
<1> DEFINE e == [s EXCEPT !.grab = @ \ {seat}, !.back[seat] = None]
           x == IF s.back[seat] \in s.capF THEN s.back[seat] ELSE s.act[seat]
           k == SetKeyboardFocus(e, seat, x)
<1>1. Seen(s, s) /\ Seen(s, e) BY DEF State, Seen, Aside
<1>2. KeyboardGrabEnd(s, seat) \in {s, e} \/ (KeyboardGrabEnd(s, seat) = k /\ x \in s.capF)
  BY DEF KeyboardGrabEnd
<1> HIDE DEF e, x
<1>3. e \in State BY <1>1 DEF Seen, Aside
<1>4. s.capF \subseteq Surfaces BY DEF State
<1>5. x \in s.capF => Seen(e, k) BY <1>3, <1>4, SetKeyboardFocusSeen
<1> HIDE DEF k
<1> QED BY <1>1, <1>2, <1>5, SeenAgain

LEMMA PopupDestroyedWindowed ==
  ASSUME NEW s \in State, NEW p \in Popups
  PROVE  Windowed(s, PopupDestroyed(s, p))
<1> DEFINE u == [s EXCEPT !.there = @ \ {p}, !.mapped = @ \ {p}, !.capF = @ \ {p}]
<1>0. p \notin Windows BY FocusAssumption
<1>1. Windowed(s, u) BY <1>0 DEF State, Windowed
<1>2. PopupDestroyed(s, p) = SurfaceDestroyed(u, p) BY DEF PopupDestroyed
<1> HIDE DEF u
<1>3. u \in State BY <1>1 DEF Windowed
<1>4. Windowed(u, SurfaceDestroyed(u, p)) BY <1>3, SurfaceDestroyedSeen, SeenWindowed
<1> QED BY <1>1, <1>2, <1>4, WindowedAgain

LEMMA ToDesktopWindowed ==
  ASSUME NEW s \in State, NEW seat \in Seats
  PROVE  Windowed(s, ToDesktop(s, seat))
<1> DEFINE g == KeyboardGrabEnd(s, seat)
           p == PopupOf[seat]
           d == PopupDestroyed(g, p)
           e == IF seat \in s.grab THEN d ELSE s
           y == IF Desktop \in e.there THEN Desktop ELSE None
           t == RequestKeyboardFocus(e, seat, y)
<1>1. ToDesktop(s, seat) = t BY DEF ToDesktop
<1>2. Seen(s, g) BY KeyboardGrabEndSeen
<1> HIDE DEF g
<1>3. g \in State BY <1>2 DEF Seen, Aside
<1>4. seat \in s.grab => p \in Popups BY DEF State, Popups
<1> HIDE DEF p
<1>5. seat \in s.grab => Windowed(g, d) BY <1>3, <1>4, PopupDestroyedWindowed
<1>6. Windowed(s, s) /\ Windowed(s, g) BY <1>2, SeenWindowed DEF Windowed
<1> HIDE DEF d
<1>7. Windowed(s, e) BY <1>5, <1>6, WindowedAgain
<1> HIDE DEF e, y
<1>8. e \in State BY <1>7 DEF Windowed
<1>9. Windowed(e, t) BY <1>8, RequestKeyboardFocusSeen, SeenWindowed
<1> HIDE DEF t
<1> QED BY <1>1, <1>7, <1>9, WindowedAgain

LEMMA UpdateLayerShows ==
  ASSUME NEW s \in State, NEW x \in Layers
  PROVE  Shows(s, UpdateLayer(s, x))
<1> DEFINE now == x \in s.mapped /\ s.mode # "LockScreen"
           t == [s EXCEPT !.capF = IF now THEN @ \cup {x} ELSE @ \ {x}]
           c == CancelShowDesktop(t, None)
           k == RequestKeyboardFocus(c, Primary, x)
<1>0. Primary \in Seats BY FocusAssumption
<1>1. Seen(s, s) /\ Seen(s, t) BY DEF State, Seen, Aside, Surfaces
<1>2. UpdateLayer(s, x) \in {s, t, InactivationRequested(t, x), k} BY DEF UpdateLayer
<1> HIDE DEF t
<1>3. t \in State BY <1>1 DEF Seen, Aside
<1>4. Shows(t, InactivationRequested(t, x)) BY <1>3, InactivationRequestedShows
<1>5. Shows(t, c) BY <1>3, CancelShowDesktopSpares
<1> HIDE DEF c
<1>6. c \in State BY <1>5 DEF Shows, Seen, Aside
<1>7. Seen(c, k) BY <1>0, <1>6, RequestKeyboardFocusSeen
<1> HIDE DEF k
<1>8. Shows(s, s) /\ Shows(s, t) /\ Shows(c, k) BY <1>1, <1>7 DEF Shows
<1>9. Shows(t, k) BY <1>5, <1>8, ShowsAgain
<1> QED BY <1>2, <1>4, <1>8, <1>9, ShowsAgain

LEMMA SetCurrentModeViewed ==
  ASSUME NEW s \in State, Viewed(s, Nothing), NEW mode \in Modes
  PROVE  SetCurrentMode(s, mode) \in State /\ Viewed(SetCurrentMode(s, mode), Nothing)
<1> DEFINE u == [s EXCEPT !.mode = mode]
           step == [x \in Layers |-> [t \in State |-> UpdateLayer(t, x)]]
           P == {t \in State : Viewed(t, Nothing)}
<1>1. u \in P BY DEF State, Viewed
<1>2. SetCurrentMode(s, mode) \in {s, ForEach(Layers, u, step)} BY DEF SetCurrentMode
<1> HIDE DEF u
<1>3. ASSUME NEW x \in Layers, NEW t \in P PROVE step[x][t] \in P
  BY UpdateLayerShows, ShowsViewed
<1> HIDE DEF step, P
<1>5. ForEach(Layers, u, step) \in P BY <1>1, <1>3, LayersFinite, ForEachKeeps
<1> QED BY <1>2, <1>5 DEF P

LEMMA RefuseShows ==
  ASSUME NEW s \in State, NEW seat \in Seats, NEW w
  PROVE  Shows(s, Refuse(s, seat, w))
<1> DEFINE f == s.kf[seat]
           l == IF f \in {None, w} \cup s.mute THEN Latest(s.hist) ELSE f
           to == IF l \in s.mute THEN None ELSE l
           a == IF s.act[seat] = w THEN Deactivate(s, seat) ELSE s
           k == RequestKeyboardFocus(a, seat, None)
           r == RequestKeyboardFocus(s, seat, to)
           v == Activate(s, seat, to)
<1>1. Refuse(s, seat, w) \in {s, a, k, r, v} BY DEF Refuse
<1> HIDE DEF to
<1>2. Shows(s, s) BY DEF Shows, Seen, Aside
<1>3. Shows(s, a) BY <1>2, DeactivateSeen DEF Shows
<1>4. Shows(s, r) /\ Shows(s, v) BY RequestKeyboardFocusSeen, ActivateShows DEF Shows
<1> HIDE DEF a, r, v
<1>5. a \in State BY <1>3 DEF Shows, Seen, Aside
<1>6. Shows(a, k) BY <1>5, RequestKeyboardFocusSeen DEF Shows
<1> HIDE DEF k
<1>7. Shows(s, k) BY <1>3, <1>6, ShowsAgain
<1> QED BY <1>1, <1>2, <1>3, <1>4, <1>7

\* The steps that concern one window.
LEMMA WindowViewed ==
  ASSUME st \in State, Viewed(st, Nothing), NEW w \in Windows,
         \/ MapWindow(w) \/ UnmapWindow(w) \/ MinimizeWindow(w) \/ RestoreWindow(w)
         \/ ShowDesktopAnimationFinished(w)
  PROVE  Viewed(st', Nothing)
<1>1. CASE MapWindow(w)
  <2> DEFINE m == [st EXCEPT !.mapped = @ \cup {w}]
             g == GainActiveCapability(m, w)
             now == w \notin st.mute
             f == SetFocusCapability(g, w, now)
             k == IF w \in st.min THEN m ELSE f
  <2>1. st' = UpdateVisible(k, w) BY <1>1 DEF MapWindow
  <2>2. w \in st.there /\ w \in Surfaces BY <1>1 DEF MapWindow, Surfaces
  <2>3. m \in State /\ Viewed(m, {w}) BY <2>2 DEF State, Viewed, Nothing
  <2> HIDE DEF m, now
  <2>4. Shows(m, m) /\ Shows(m, g) BY <2>3, CapabilityShows DEF Shows, Seen, Aside
  <2> HIDE DEF g
  <2>5. g \in State BY <2>4 DEF Shows, Seen, Aside
  <2>6. Shows(g, f) BY <2>5, SetFocusCapabilitySeen DEF Shows
  <2> HIDE DEF f
  <2>7. Shows(m, k) BY <2>4, <2>6, ShowsAgain
  <2> HIDE DEF k
  <2> QED BY <2>1, <2>3, <2>7, ChangedViewed
<1>2. CASE UnmapWindow(w)
  <2> DEFINE m == [st EXCEPT !.mapped = @ \ {w}]
  <2>1. st' = Losing(m, w, LoseActiveCapability(m, w)) BY <1>2 DEF UnmapWindow
  <2>2. m \in State /\ Viewed(m, {w}) BY DEF State, Viewed, Nothing
  <2> HIDE DEF m
  <2> QED BY <2>1, <2>2, LosingViewed
<1>3. CASE MinimizeWindow(w)
  <2> DEFINE m == [st EXCEPT !.min = @ \cup {w}]
  <2>1. st' = st \/ st' = Losing(m, w, LoseActiveCapability(m, w))
    BY <1>3 DEF MinimizeWindow, Minimize
  <2>2. m \in State /\ Viewed(m, {w}) BY DEF State, Viewed, Nothing
  <2> HIDE DEF m
  <2> QED BY <2>1, <2>2, LosingViewed
<1>4. CASE RestoreWindow(w) BY <1>4, RestoreFromMinimizedViewed DEF RestoreWindow
<1>5. CASE ShowDesktopAnimationFinished(w)
  <2> DEFINE m == [st EXCEPT !.anim = @ \ {w}]
  <2>1. st' = UpdateVisible(m, w) BY <1>5 DEF ShowDesktopAnimationFinished
  <2>2. m \in State /\ Viewed(m, {w}) BY DEF State, Viewed, Nothing
  <2> HIDE DEF m
  <2> QED BY <2>1, <2>2, UpdateVisibleViewed
<1> QED BY <1>1, <1>2, <1>3, <1>4, <1>5

LEMMA CreateDestroyViewed ==
  ASSUME st \in State, Viewed(st, Nothing), NEW x \in Surfaces, Create(x) \/ Destroy(x)
  PROVE  Viewed(st', Nothing)
<1>1. CASE Create(x) BY <1>1 DEF Create, State, Viewed
<1>2. CASE Destroy(x)
  <2> DEFINE d == SurfaceDestroyed(st, x)
  <2>1. Seen(st, d) BY SurfaceDestroyedSeen
  <2>2. /\ x \notin st.mapped
        /\ st' = [d EXCEPT !.there = @ \ {x}, !.min = @ \ {x}, !.mute = @ \ {x},
                           !.anim = @ \ {x}, !.flag = @ \ {x},
                           !.unhid = IF x \in Windows THEN @ \cup {x} ELSE @,
                           !.back = [s \in Seats |-> IF @[s] = x THEN None ELSE @[s]]]
    BY <1>2 DEF Destroy
  <2> HIDE DEF d
  <2>3. d \in State BY <2>1 DEF Seen, Aside
  <2>4. /\ st'.mapped = d.mapped /\ st'.there = d.there \ {x} /\ st'.min = d.min \ {x}
        /\ st'.anim = d.anim \ {x} /\ st'.visible = d.visible /\ st'.showing = d.showing
        /\ st'.unhid \subseteq d.unhid \cup {x}
    BY <2>2, <2>3 DEF State
  <2> QED BY <2>1, <2>2, <2>4 DEF Seen, Aside, Viewed, Nothing
<1> QED BY <1>1, <1>2

LEMMA MapLayerViewed ==
  ASSUME st \in State, Viewed(st, Nothing), NEW x \in Layers, NEW now \in BOOLEAN, MapLayer(x, now)
  PROVE  Viewed(st', Nothing)
<1> DEFINE m == [st EXCEPT !.mapped = IF now THEN @ \cup {x} ELSE @ \ {x}]
<1>1. x \notin Windows /\ x \in Surfaces BY FocusAssumption DEF Surfaces
<1>2. Windowed(st, m) BY <1>1 DEF State, Windowed
<1>3. st' = UpdateLayer(m, x) BY DEF MapLayer
<1> HIDE DEF m
<1>4. m \in State /\ Viewed(m, Nothing) BY <1>2, WindowedViewed
<1> QED BY <1>3, <1>4, UpdateLayerShows, ShowsViewed

LEMMA AcceptViewed ==
  ASSUME st \in State, Viewed(st, Nothing), NEW w \in Windows, NEW accept \in BOOLEAN,
         AcceptKeyboardFocus(w, accept) \/ AcceptKeyboardFocusV2(w, accept)
  PROVE  Viewed(st', Nothing)
<1> DEFINE f == Forget(st, w)
           step == [seat \in Seats |-> [t \in State |-> Refuse(t, seat, w)]]
           d == ForEach(Seats, f, step)
           P == {t \in State : Viewed(t, Nothing)}
<1>1. f \in P BY ForgetSeen, ShowsViewed DEF Shows
<1>2. ASSUME NEW seat \in Seats, NEW t \in P PROVE step[seat][t] \in P
  BY RefuseShows, ShowsViewed
<1> HIDE DEF f, step, P
<1>3. d \in P BY <1>1, <1>2, ForEachKeeps, FocusAssumption
<1>4. \E v \in {st, d}, M \in SUBSET Windows : \E now :
        st' = SetFocusCapability([v EXCEPT !.mute = M], w, now)
  <2>0. d \in State BY <1>3 DEF P
  <2>1. CASE AcceptKeyboardFocus(w, accept) /\ accept
    <3>1. st' = SetFocusCapability([st EXCEPT !.mute = st.mute \ {w}], w, w \in st.mapped \ st.min)
      BY <2>1 DEF AcceptKeyboardFocus
    <3> QED BY <3>1 DEF State
  <2>2. CASE AcceptKeyboardFocus(w, accept) /\ ~accept
    <3>1. st' = SetFocusCapability([d EXCEPT !.mute = d.mute \cup {w}], w, FALSE)
      BY <2>2 DEF AcceptKeyboardFocus, d, f, step
    <3> HIDE DEF d
    <3> QED BY <2>0, <3>1 DEF State
  <2>3. CASE AcceptKeyboardFocusV2(w, accept)
    <3> DEFINE M == IF accept THEN st.mute \ {w} ELSE st.mute \cup {w}
    <3>1. st' = SetFocusCapability([st EXCEPT !.mute = M], w, accept /\ w \in st.mapped \ st.min)
      BY <2>3 DEF AcceptKeyboardFocusV2
    <3>2. M \in SUBSET Windows BY DEF State
    <3> HIDE DEF M
    <3> QED BY <3>1, <3>2
  <2> QED BY <2>1, <2>2, <2>3
<1>5. PICK v \in {st, d}, M \in SUBSET Windows :
        \E now : st' = SetFocusCapability([v EXCEPT !.mute = M], w, now)
  BY <1>4
<1>6. PICK now : st' = SetFocusCapability([v EXCEPT !.mute = M], w, now) BY <1>5
<1> DEFINE m == [v EXCEPT !.mute = M]
<1> HIDE DEF d
<1>7. v \in State /\ Viewed(v, Nothing) BY <1>3 DEF P
<1>8. Windowed(v, m) BY <1>7 DEF State, Windowed
<1> HIDE DEF m
<1>9. m \in State /\ Viewed(m, Nothing) BY <1>7, <1>8, WindowedViewed
<1>10. Shows(m, SetFocusCapability(m, w, now)) BY <1>9, SetFocusCapabilitySeen DEF Shows
<1>11. st' = SetFocusCapability(m, w, now) BY <1>6 DEF m
<1> QED BY <1>9, <1>10, <1>11, ShowsViewed

LEMMA PopupViewed ==
  ASSUME st \in State, Viewed(st, Nothing), NEW seat \in DOMAIN PopupOf,
         \/ GrabBegin(seat) \/ PopupMapped(seat)
         \/ \E dismissed \in BOOLEAN : PopupClosed(seat, dismissed)
  PROVE  Viewed(st', Nothing)
<1> DEFINE p == PopupOf[seat]
<1>0. seat \in Seats /\ p \in Popups /\ p \notin Windows /\ p \in Surfaces
  BY FocusAssumption DEF Popups, Surfaces
<1> SUFFICES Windowed(st, st') BY WindowedViewed
<1> HIDE DEF p
<1>1. CASE GrabBegin(seat)
  <2>1. st' = [st EXCEPT !.there = @ \cup {p}, !.grab = @ \cup {seat}, !.back[seat] = st.kf[seat]]
    BY <1>1 DEF GrabBegin, p
  <2> QED BY <1>0, <2>1 DEF State, Windowed
<1>2. CASE PopupMapped(seat)
  <2> DEFINE m == [st EXCEPT !.mapped = @ \cup {p}, !.capF = @ \cup {p}]
  <2>1. st' = m \/ st' = SetKeyboardFocus(m, seat, p) BY <1>2 DEF PopupMapped, p
  <2>2. Windowed(st, m) BY <1>0 DEF State, Windowed
  <2> HIDE DEF m
  <2>3. m \in State BY <2>2 DEF Windowed
  <2>4. Windowed(m, SetKeyboardFocus(m, seat, p))
    BY <1>0, <2>3, SetKeyboardFocusSeen, SeenWindowed
  <2> QED BY <2>1, <2>2, <2>4, WindowedAgain
<1>3. ASSUME NEW dismissed \in BOOLEAN, PopupClosed(seat, dismissed)
      PROVE  Windowed(st, st')
  <2> DEFINE u == [st EXCEPT !.mapped = @ \ {p}, !.capF = @ \ {p}]
             v == IF dismissed THEN st ELSE u
             g == KeyboardGrabEnd(v, seat)
  <2>1. st' = PopupDestroyed(g, p) BY <1>3 DEF PopupClosed, p
  <2>2. Windowed(st, st) /\ Windowed(st, u) BY <1>0 DEF State, Windowed
  <2> HIDE DEF u
  <2>3. Windowed(st, v) BY <2>2
  <2> HIDE DEF v
  <2>4. v \in State BY <2>3 DEF Windowed
  <2>5. Windowed(v, g) BY <1>0, <2>4, KeyboardGrabEndSeen, SeenWindowed
  <2> HIDE DEF g
  <2>6. g \in State BY <2>5 DEF Windowed
  <2>7. Windowed(g, PopupDestroyed(g, p)) BY <1>0, <2>6, PopupDestroyedWindowed
  <2>8. Windowed(st, g) BY <2>3, <2>5, WindowedAgain
  <2> QED BY <2>1, <2>7, <2>8, WindowedAgain
<1> QED BY <1>1, <1>2, <1>3

\* Every window that is not minimized is marked as hidden.
LEMMA ShowDesktopViewed ==
  ASSUME st \in State, Viewed(st, Nothing), ShowDesktop
  PROVE  Viewed(st', Nothing)
<1> DEFINE hide == (st.there \cap Windows) \ st.min
           s == [st EXCEPT !.showing = TRUE, !.unhid = @ \ hide, !.anim = @ \cup hide]
           step == [seat \in Seats |-> [t \in State |-> ToDesktop(t, seat)]]
           P == {t \in State : Viewed(t, Nothing)}
<1>1. /\ s \in State /\ s.unhid = st.unhid \ hide /\ s.mapped = st.mapped /\ s.there = st.there
      /\ s.min = st.min
  BY DEF State
<1>2. st' = ForEach(Seats, s, step) BY DEF ShowDesktop
<1> HIDE DEF s, step
<1>3. (s.mapped \cap s.unhid) \ s.min = {}
  <2>1. st.unhid \subseteq Windows BY DEF State
  <2> QED BY <1>1, <2>1 DEF Viewed
<1>4. s \in P BY <1>1, <1>3 DEF Viewed
<1>5. ASSUME NEW seat \in Seats, NEW t \in P PROVE step[seat][t] \in P
  BY ToDesktopWindowed, WindowedViewed DEF step
<1> HIDE DEF P
<1>6. ForEach(Seats, s, step) \in P BY <1>4, <1>5, ForEachKeeps, FocusAssumption
<1> QED BY <1>2, <1>6 DEF P

\* The steps that end the show desktop state.
LEMMA LeaveViewed ==
  ASSUME st \in State, Viewed(st, Nothing), LeaveShowDesktop \/ ShortcutRestores
  PROVE  Viewed(st', Nothing)
<1>1. CASE LeaveShowDesktop
  <2> DEFINE back == (st.there \cap Windows) \ st.min
             s == [st EXCEPT !.showing = FALSE, !.unhid = @ \cup back, !.anim = @ \cup back]
  <2>1. st' = RestoreShowDesktopFocus(s) BY <1>1 DEF LeaveShowDesktop
  <2>2. Aside(st, s) /\ ~s.showing BY DEF State, Aside
  <2> HIDE DEF s
  <2>3. s \in State /\ Viewed(s, Nothing) BY <2>2, EndedViewed
  <2>4. Shows(s, st') BY <2>1, <2>3, RestoreShowDesktopFocusSeen DEF Shows
  <2> QED BY <2>3, <2>4, ShowsViewed
<1>2. CASE ShortcutRestores
  <2>1. st' = RestoreFromShowDesktop(st, None) BY <1>2 DEF ShortcutRestores
  <2> QED BY <2>1, RestoreFromShowDesktopAside, EndedViewed
<1> QED BY <1>1, <1>2

LEMMA ModeViewed ==
  ASSUME st \in State, Viewed(st, Nothing),
         Lock \/ ShutdownMenu \/ FinishLockScreenTransition \/ TaskSwitch
  PROVE  Viewed(st', Nothing)
<1>0. "Normal" \in Modes /\ "LockScreen" \in Modes /\ "WindowSwitch" \in Modes BY DEF Modes
<1>1. ASSUME NEW s \in State, Viewed(s, Nothing)
      PROVE  Viewed(FocusLeaves(s), Nothing)
  BY <1>1, FocusLeavesSeen, ShowsViewed DEF Shows
<1>2. CASE Lock
  <2> DEFINE n == SetCurrentMode(st, "Normal")
             l == SetCurrentMode(n, "LockScreen")
  <2>1. st' = FocusLeaves(l) BY <1>2 DEF Lock
  <2>2. n \in State /\ Viewed(n, Nothing) BY <1>0, SetCurrentModeViewed
  <2> HIDE DEF n
  <2>3. l \in State /\ Viewed(l, Nothing) BY <1>0, <2>2, SetCurrentModeViewed
  <2> HIDE DEF l
  <2> QED BY <1>1, <2>1, <2>3
<1>3. CASE ShutdownMenu
  <2> DEFINE s == [st EXCEPT !.menu = TRUE]
  <2>1. st' = FocusLeaves(s) BY <1>3 DEF ShutdownMenu
  <2>2. s \in State /\ Viewed(s, Nothing) BY DEF State, Viewed
  <2> HIDE DEF s
  <2> QED BY <1>1, <2>1, <2>2
<1>4. CASE FinishLockScreenTransition
  <2> DEFINE s == [st EXCEPT !.menu = FALSE]
             n == SetCurrentMode(s, "Normal")
             w == n.act[Primary]
  <2>1. st' = n \/ st' = RequestKeyboardFocus(n, Primary, w)
    BY <1>4 DEF FinishLockScreenTransition
  <2>2. s \in State /\ Viewed(s, Nothing) BY DEF State, Viewed
  <2> HIDE DEF s
  <2>3. n \in State /\ Viewed(n, Nothing) BY <1>0, <2>2, SetCurrentModeViewed
  <2> HIDE DEF n, w
  <2>4. Shows(n, RequestKeyboardFocus(n, Primary, w))
    BY <2>3, RequestKeyboardFocusSeen, FocusAssumption DEF Shows
  <2> QED BY <2>1, <2>3, <2>4, ShowsViewed
<1>5. CASE TaskSwitch
  <2> DEFINE r == RestoreFromShowDesktop(st, None)
             n == SetCurrentMode(r, "WindowSwitch")
  <2>1. st' = FocusLeaves(n) BY <1>5 DEF TaskSwitch
  <2>2. Aside(st, r) /\ ~r.showing BY RestoreFromShowDesktopAside
  <2> HIDE DEF r
  <2>3. r \in State /\ Viewed(r, Nothing) BY <2>2, EndedViewed
  <2>4. n \in State /\ Viewed(n, Nothing) BY <1>0, <2>3, SetCurrentModeViewed
  <2> HIDE DEF n
  <2> QED BY <1>1, <2>1, <2>4
<1> QED BY <1>2, <1>3, <1>4, <1>5

LEMMA TaskSwitchExitViewed ==
  ASSUME st \in State, Viewed(st, Nothing), NEW w \in Windows \cup {None}, TaskSwitchExit(w)
  PROVE  Viewed(st', Nothing)
<1> DEFINE n == SetCurrentMode(st, "Normal")
<1>0. "Normal" \in Modes /\ Primary \in Seats BY FocusAssumption DEF Modes
<1>1. st' = IF w = None THEN n ELSE ForceActivateSurface(n, Primary, w) BY DEF TaskSwitchExit
<1>2. n \in State /\ Viewed(n, Nothing) BY <1>0, SetCurrentModeViewed
<1> HIDE DEF n
<1> QED BY <1>0, <1>1, <1>2, ForceActivateAside, EndedViewed

LEMMA NextViewed ==
  ASSUME st \in State, Viewed(st, Nothing), [Next]_st
  PROVE  Viewed(st', Nothing)
<1>0. Primary \in Seats BY FocusAssumption
<1>1. CASE UNCHANGED st BY <1>1 DEF Viewed
<1>2. ASSUME NEW w \in Windows, Create(w) \/ Destroy(w) PROVE Viewed(st', Nothing)
  BY <1>2, CreateDestroyViewed DEF Surfaces
<1>3. ASSUME NEW x \in Layers, Create(x) \/ Destroy(x) PROVE Viewed(st', Nothing)
  BY <1>3, CreateDestroyViewed DEF Surfaces
<1>4. ASSUME NEW w \in Windows,
             \/ MapWindow(w) \/ UnmapWindow(w) \/ MinimizeWindow(w) \/ RestoreWindow(w)
             \/ ShowDesktopAnimationFinished(w)
      PROVE  Viewed(st', Nothing)
  BY <1>4, WindowViewed
<1>5. ASSUME NEW w \in Windows, NEW accept \in BOOLEAN,
             AcceptKeyboardFocus(w, accept) \/ AcceptKeyboardFocusV2(w, accept)
      PROVE  Viewed(st', Nothing)
  BY <1>5, AcceptViewed
<1>6. ASSUME NEW w \in Windows, NEW seat \in Seats, RequestWindow(seat, w)
      PROVE  Viewed(st', Nothing)
  BY <1>6, ForceActivateAside, EndedViewed DEF RequestWindow
<1>7. ASSUME NEW x \in Layers, NEW now \in BOOLEAN, MapLayer(x, now) PROVE Viewed(st', Nothing)
  BY <1>7, MapLayerViewed
<1>8. ASSUME NEW seat \in Seats, NEW x \in Surfaces \cup {None}, Press(seat, x)
      PROVE  Viewed(st', Nothing)
  BY <1>8, ActivateShows, ShowsViewed DEF Press
<1>9. ASSUME NEW seat \in DOMAIN PopupOf,
             \/ GrabBegin(seat) \/ PopupMapped(seat)
             \/ \E dismissed \in BOOLEAN : PopupClosed(seat, dismissed)
      PROVE  Viewed(st', Nothing)
  BY <1>9, PopupViewed
<1>10. CASE WindowMenuClosed
  BY <1>0, <1>10, ActivateShows, ShowsViewed DEF WindowMenuClosed
<1>11. CASE SceneTakesFocus
  BY <1>11, FocusLeavesSeen, ShowsViewed DEF SceneTakesFocus, Shows
<1>12. CASE ShowDesktop BY <1>12, ShowDesktopViewed
<1>13. CASE LeaveShowDesktop \/ ShortcutRestores BY <1>13, LeaveViewed
<1>14. CASE Lock \/ ShutdownMenu \/ FinishLockScreenTransition \/ TaskSwitch
  BY <1>14, ModeViewed
<1>15. ASSUME NEW w \in Windows \cup {None}, TaskSwitchExit(w) PROVE Viewed(st', Nothing)
  BY <1>15, TaskSwitchExitViewed
<1> QED
  BY <1>1, <1>2, <1>3, <1>4, <1>5, <1>6, <1>7, <1>8, <1>9, <1>10, <1>11, <1>12, <1>13,
     <1>14, <1>15
  DEF Next

\* While the desktop is shown, a mapped window that is neither minimized nor marked
\* as hidden can be seen: it is visible, or its show desktop animation still runs.
THEOREM NoneLeftBehind == Spec => []Viewed(st, Nothing)
<1>1. Init => Viewed(st, Nothing) BY DEF Init, Viewed
<1>2. Rest(st) /\ Viewed(st, Nothing) /\ [Next]_st => Viewed(st, Nothing)'
  BY NextViewed DEF Rest, Ok
<1> QED BY <1>1, <1>2, AtRest, PTL DEF Spec

\* A request for a mapped window that accepts the keyboard (forceActivateSurface)
\* shows, activates and focuses it in every reachable state where it is minimized or
\* visible or the desktop is shown, for any number of windows and seats, whatever the
\* end of the show desktop state minimizes and activates on the way.
THEOREM RequestAlwaysBringsBack == Spec => []RequestBringsBack
<1>1. Rest(st) /\ Viewed(st, Nothing) => RequestBringsBack
  <2> SUFFICES ASSUME Rest(st), Viewed(st, Nothing), NEW s \in Seats,
                      NEW w \in st.mapped \cap (Windows \ st.mute), st.mode = "Normal",
                      st.showing \/ w \in st.min \cup (st.visible \cap st.unhid)
               PROVE  LET t == ForceActivateSurface(st, s, w)
                      IN  /\ w \in (t.visible \cup t.anim) \ t.min
                          /\ t.act[s] = w /\ t.kf[s] \in {w, Panel}
    BY DEF RequestBringsBack
  <2> QED BY ForceActivateBrings
<1> QED BY <1>1, AtRest, NoneLeftBehind, PTL
=============================================================================
