-------------------------- MODULE WorkspacesProofs --------------------------
(***************************************************************************)
(* Proofs about the workspaces, for any windows, any number of workspaces  *)
(* and any bound on their ids, as long as windows that are shown on all    *)
(* workspaces stay there.                                                  *)
(***************************************************************************)
EXTENDS Workspaces, SequenceTheorems, TLAPS

Rng(ms) == {ms[i] : i \in DOMAIN ms}

\* No workspace is in the list twice.
Once(ms) == \A i, j \in 1..Len(ms) : ms[i] = ms[j] => i = j

\* Workspaces appear once in the list, and their ids were given out before.
ListInv ==
  /\ models \in Seq(Ids) /\ nextId \in Nat /\ cur \in 1..Len(models)
  /\ Once(models)
  /\ \A i \in 1..Len(models) : models[i] < nextId

\* p places every window on a workspace of the list ms, on all or on none.
Places(p, ms) ==
  /\ p \in [Windows -> Keys \cup {Out}]
  /\ \A w \in Windows : p[w] \in Rng(ms) \cup {All, Out}

\* The windows a workspace lists are those that are placed on it.
Rows(rs, p) ==
  /\ rs \in [Keys -> SUBSET (Windows \X Windows)]
  /\ \A k \in Keys : Elems(rs[k]) = {w \in Windows : p[w] = k}

\* HistoryHere for histories h, capable windows c and places p; a workspace
\* that is not in the list has no history.
Live(h, c, p, ms) ==
  /\ h \in [Keys -> SUBSET (Windows \X Windows)]
  /\ \A k \in Keys : \A w \in Elems(h[k]) : w \in c /\ ShowOn(p[w], k)
  /\ \A k \in Ids \ Rng(ms) : Elems(h[k]) = {}

\* Where the windows are.
Placed == ListInv /\ Places(wid, models) /\ Rows(rows, wid)

IInv ==
  /\ ListInv
  /\ capable \subseteq Windows
  /\ Places(wid, models)
  /\ Rows(rows, wid)
  /\ Live(hist, capable, wid, models)

-----------------------------------------------------------------------------
\* The entries a list keeps when windows are dropped from it.
LEMMA ElemsDrop ==
  ASSUME NEW r, NEW S
  PROVE  Elems(Drop(r, S)) = Elems(r) \ S
BY DEF Elems, Drop

\* The entries of two lists put one before the other.
LEMMA ElemsStack ==
  ASSUME NEW r, NEW q
  PROVE  Elems(Stack(r, q)) = Elems(r) \cup Elems(q)
BY DEF Elems, Drop, Stack

\* pushActivedSurface adds the window and keeps the others.
LEMMA ElemsPush ==
  ASSUME NEW r, NEW w \in Windows
  PROVE  Elems(Push(r, w)) = Elems(r) \cup {w}
<1>1. Elems({<<w, w>>}) = {w} BY DEF Elems
<1>2. Elems(Stack({<<w, w>>}, r)) = {w} \cup Elems(r) BY <1>1, ElemsStack
<1> QED BY <1>2 DEF Push

\* The entries of a list restricted to some windows.
LEMMA ElemsKeep ==
  ASSUME NEW r, NEW S
  PROVE  Elems(Keep(r, S)) = Elems(r) \cap S
BY DEF Elems, Keep

\* The operations on lists stay within the windows.
LEMMA RecencyType ==
  ASSUME NEW r \in SUBSET (Windows \X Windows), NEW q \in SUBSET (Windows \X Windows),
         NEW S, NEW w \in Windows
  PROVE  /\ Drop(r, S) \in SUBSET (Windows \X Windows)
         /\ Keep(r, S) \in SUBSET (Windows \X Windows)
         /\ Stack(r, q) \in SUBSET (Windows \X Windows)
         /\ Push(r, w) \in SUBSET (Windows \X Windows)
<1>1. \A a, b \in SUBSET (Windows \X Windows) : Stack(a, b) \in SUBSET (Windows \X Windows)
  BY DEF Stack, Drop, Elems
<1>2. {<<w, w>>} \in SUBSET (Windows \X Windows) OBVIOUS
<1> QED BY <1>1, <1>2 DEF Drop, Keep, Push

\* latestActiveSurface returns an entry of the history or nothing.
LEMMA LatestElem ==
  ASSUME NEW r
  PROVE  Latest(r) \in Elems(r) \cup {None}
BY DEF Latest, Foremost

\* The index of a workspace of the list.
LEMMA IndexOfRng ==
  ASSUME NEW ms, NEW k \in Rng(ms)
  PROVE  IndexOf(ms, k) \in DOMAIN ms /\ ms[IndexOf(ms, k)] = k
BY DEF IndexOf, Rng

-----------------------------------------------------------------------------
\* Recording the activation of a capable window where it is placed keeps the
\* histories alive.
LEMMA PushActivedLive ==
  ASSUME NEW c \in SUBSET Windows, NEW ms, NEW p, NEW h, NEW w \in c,
         Places(p, ms), Live(h, c, p, ms)
  PROVE  Live(PushActived(h, ms, p[w], w), c, p, ms)
<1> DEFINE g == PushActived(h, ms, p[w], w)
<1>1. w \in Windows /\ p[w] \in Rng(ms) \cup {All, Out} BY DEF Places
<1>2. g \in [Keys -> SUBSET (Windows \X Windows)]
  <2>1. \A k \in Keys : Push(h[k], w) \in SUBSET (Windows \X Windows)
    BY <1>1, RecencyType DEF Live
  <2> QED BY <2>1 DEF PushActived, Live
<1>3. ASSUME NEW k \in Keys
      PROVE  Elems(g[k]) = IF k \in Histories(ms, p[w]) THEN Elems(h[k]) \cup {w} ELSE Elems(h[k])
  BY <1>1, ElemsPush DEF PushActived
<1>4. \A k \in Keys \cap Histories(ms, p[w]) : ShowOn(p[w], k) /\ k \in Rng(ms) \cup {All}
  BY <1>1, WorkspacesAssumption DEF Histories, ShowOn, Rng, Keys
<1> HIDE DEF g
<1>5. ASSUME NEW k \in Keys, NEW v \in Elems(g[k])
      PROVE  v \in c /\ ShowOn(p[v], k)
  <2>1. CASE v \in Elems(h[k]) BY <2>1 DEF Live
  <2>2. CASE v = w /\ k \in Histories(ms, p[w]) BY <1>4, <2>2
  <2> QED BY <1>3, <2>1, <2>2
<1>6. ASSUME NEW k \in Ids \ Rng(ms)
      PROVE  Elems(g[k]) = {}
  <2>1. k \in Keys /\ k # All BY WorkspacesAssumption DEF Keys
  <2>2. k \notin Histories(ms, p[w]) BY <1>4, <2>1
  <2>3. Elems(h[k]) = {} BY DEF Live
  <2> QED BY <1>3, <2>1, <2>2, <2>3
<1>7. QED BY <1>2, <1>5, <1>6 DEF Live, g

\* FocusController::activateSurface keeps the histories alive, and what it
\* makes the activated surface is the window it was asked for, capable.
LEMMA ActivationLive ==
  ASSUME NEW c \in SUBSET Windows, NEW ms, NEW p, NEW h, NEW was, NEW w,
         Places(p, ms), Live(h, c, p, ms)
  PROVE  /\ Live(Activation(w, was, c, p, ms, h).h, c, p, ms)
         /\ Activation(w, was, c, p, ms, h).a \in {was, None} \cup ({w} \cap c)
BY PushActivedLive DEF Activation

\* The activation at the end of a switch to workspace k.
LEMMA LatestActivationLive ==
  ASSUME NEW c \in SUBSET Windows, NEW ms, NEW p, NEW h, NEW was, NEW k \in Keys,
         Places(p, ms), Live(h, c, p, ms)
  PROVE  /\ Live(LatestActivation(k, was, c, p, ms, h).h, c, p, ms)
         /\ LET a == LatestActivation(k, was, c, p, ms, h).a
            IN  a \notin {was, None} => a \in c /\ ShowOn(p[a], k)
<1> DEFINE w == Latest(h[k])
<1>1. w \in Elems(h[k]) \cup {None} BY LatestElem
<1>2. w # None => w \in c /\ ShowOn(p[w], k) BY <1>1 DEF Live
<1> HIDE DEF w
<1>3. /\ Live(Activation(w, was, c, p, ms, h).h, c, p, ms)
      /\ Activation(w, was, c, p, ms, h).a \in {was, None} \cup ({w} \cap c)
  BY ActivationLive
<1>4. Activation(w, was, c, p, ms, h).a \notin {was, None}
        => Activation(w, was, c, p, ms, h).a = w /\ w # None
  BY <1>3
<1>5. QED BY <1>2, <1>3, <1>4 DEF LatestActivation, w

\* Forgetting windows that leave a workspace keeps the histories alive: g is h
\* without some entries, d the windows still capable, q their places.
LEMMA FewerLive ==
  ASSUME NEW c, NEW d, NEW ms, NEW p, NEW q, NEW h, Live(h, c, p, ms),
         NEW g \in [Keys -> SUBSET (Windows \X Windows)],
         \A k \in Keys : \A w \in Elems(g[k]) :
            w \in Elems(h[k]) /\ w \in d /\ (ShowOn(p[w], k) => ShowOn(q[w], k))
  PROVE  Live(g, d, q, ms)
<1>1. \A k \in Ids \ Rng(ms) : Elems(g[k]) = {}
  <2> SUFFICES ASSUME NEW k \in Ids \ Rng(ms), NEW w \in Elems(g[k]) PROVE FALSE
    OBVIOUS
  <2>1. k \in Keys BY DEF Keys
  <2> QED BY <2>1 DEF Live
<1> QED BY <1>1 DEF Live

\* A window that is removed from the histories of its place is in none.
LEMMA RemoveActivedGone ==
  ASSUME NEW c, NEW ms, NEW p, NEW h, NEW w \in Windows, Live(h, c, p, ms)
  PROVE  /\ RemoveActived(h, ms, p[w], w) \in [Keys -> SUBSET (Windows \X Windows)]
         /\ \A k \in Keys : Elems(RemoveActived(h, ms, p[w], w)[k]) = Elems(h[k]) \ {w}
<1> DEFINE g == RemoveActived(h, ms, p[w], w)
<1>1. g \in [Keys -> SUBSET (Windows \X Windows)]
  <2>1. \A k \in Keys : Drop(h[k], {w}) \in SUBSET (Windows \X Windows)
    BY RecencyType DEF Live
  <2> QED BY <2>1 DEF RemoveActived, Live
<1>2. ASSUME NEW k \in Keys
      PROVE  Elems(g[k]) = Elems(h[k]) \ {w}
  <2>1. CASE k \in Histories(ms, p[w])
    <3>1. g[k] = Drop(h[k], {w}) BY <2>1 DEF RemoveActived
    <3> QED BY <3>1, ElemsDrop
  <2>2. CASE k \notin Histories(ms, p[w])
    <3>1. g[k] = h[k] BY <2>2 DEF RemoveActived
    <3>2. w \notin Elems(h[k])
      <4> SUFFICES ASSUME w \in Elems(h[k]) PROVE FALSE OBVIOUS
      <4>1. p[w] = k \/ p[w] = All BY DEF Live, ShowOn
      <4>2. p[w] = All /\ k \in Ids \ Rng(ms) BY <2>2, <4>1 DEF Histories, Rng, Keys
      <4> QED BY <4>2 DEF Live
    <3> QED BY <3>1, <3>2
  <2> QED BY <2>1, <2>2
<1> QED BY <1>1, <1>2

-----------------------------------------------------------------------------
\* A list without its entry i, and a list with x put in at index j.
Cut(s, i)    == SubSeq(s, 1, i - 1) \o SubSeq(s, i + 1, Len(s))
Put(s, j, x) == SubSeq(s, 1, j - 1) \o <<x>> \o SubSeq(s, j, Len(s))

\* Element by element, a list without its entry i.
LEMMA CutElements ==
  ASSUME NEW S, NEW s \in Seq(S), NEW i \in 1..Len(s)
  PROVE  /\ Cut(s, i) \in Seq(S) /\ Len(Cut(s, i)) = Len(s) - 1
         /\ \A k \in 1..(Len(s) - 1) : Cut(s, i)[k] = IF k < i THEN s[k] ELSE s[k + 1]
<1> DEFINE a == SubSeq(s, 1, i - 1)
           b == SubSeq(s, i + 1, Len(s))
<1>0. Len(s) \in Nat /\ i \in Nat OBVIOUS
<1>1. a \in Seq(S) /\ Len(a) = i - 1 /\ \A k \in 1..(i - 1) : a[k] = s[k]
  BY <1>0, SubSeqProperties
<1>2. b \in Seq(S) /\ Len(b) = Len(s) - i /\ \A k \in 1..(Len(s) - i) : b[k] = s[k + i]
  BY <1>0, SubSeqProperties
<1> HIDE DEF a, b
<1>3. a \o b \in Seq(S) /\ Len(a \o b) = Len(s) - 1
  <2>1. a \o b \in Seq(S) /\ Len(a \o b) = Len(a) + Len(b) BY <1>1, <1>2, ConcatProperties
  <2>2. Len(a) + Len(b) = Len(s) - 1 BY <1>0, <1>1, <1>2
  <2> QED BY <2>1, <2>2
<1>4. ASSUME NEW k \in 1..(Len(s) - 1)
      PROVE  (a \o b)[k] = IF k < i THEN s[k] ELSE s[k + 1]
  <2>1. (a \o b)[k] = IF k <= i - 1 THEN a[k] ELSE b[k - (i - 1)]
    BY <1>0, <1>1, <1>2, ConcatProperties
  <2>2. CASE k < i BY <1>0, <1>1, <2>1, <2>2
  <2>3. CASE k >= i
    <3>1. k - (i - 1) \in 1..(Len(s) - i) /\ k - (i - 1) + i = k + 1 BY <1>0, <2>3
    <3> QED BY <1>0, <1>2, <2>1, <2>3, <3>1
  <2>4. k < i \/ k >= i BY <1>0
  <2> QED BY <2>2, <2>3, <2>4, Zenon
<1> QED BY <1>3, <1>4, Zenon DEF Cut, a, b

\* Element by element, a list with x put in at index j.
LEMMA PutElements ==
  ASSUME NEW S, NEW s \in Seq(S), NEW x \in S, NEW j \in 1..(Len(s) + 1)
  PROVE  /\ Put(s, j, x) \in Seq(S) /\ Len(Put(s, j, x)) = Len(s) + 1
         /\ \A k \in 1..(Len(s) + 1) :
              Put(s, j, x)[k] = IF k < j THEN s[k] ELSE IF k = j THEN x ELSE s[k - 1]
<1> DEFINE a == SubSeq(s, 1, j - 1)
           b == SubSeq(s, j, Len(s))
           c == a \o <<x>>
<1>0. Len(s) \in Nat /\ j \in Nat OBVIOUS
<1>1. a \in Seq(S) /\ Len(a) = j - 1 /\ \A k \in 1..(j - 1) : a[k] = s[k]
  BY <1>0, SubSeqProperties
<1>2. b \in Seq(S) /\ Len(b) = Len(s) - j + 1
      /\ \A k \in 1..(Len(s) - j + 1) : b[k] = s[k + j - 1]
  BY <1>0, SubSeqProperties
<1>3. c \in Seq(S) /\ Len(c) = j /\ \A k \in 1..j : c[k] = IF k < j THEN s[k] ELSE x
  <2>1. <<x>> \in Seq(S) /\ Len(<<x>>) = 1 /\ <<x>>[1] = x OBVIOUS
  <2>2. c \in Seq(S) /\ Len(c) = j BY <1>0, <1>1, <2>1, ConcatProperties
  <2>3. ASSUME NEW k \in 1..j PROVE c[k] = IF k < j THEN s[k] ELSE x
    <3>1. c[k] = IF k <= j - 1 THEN a[k] ELSE <<x>>[k - (j - 1)]
      BY <1>0, <1>1, <2>1, ConcatProperties
    <3> QED BY <1>0, <1>1, <2>1, <3>1
  <2> QED BY <2>2, <2>3
<1> HIDE DEF a, b, c
<1>4. c \o b \in Seq(S) /\ Len(c \o b) = Len(s) + 1
  <2>1. c \o b \in Seq(S) /\ Len(c \o b) = Len(c) + Len(b) BY <1>2, <1>3, ConcatProperties
  <2>2. Len(c) + Len(b) = Len(s) + 1 BY <1>0, <1>2, <1>3
  <2> QED BY <2>1, <2>2
<1>5. ASSUME NEW k \in 1..(Len(s) + 1)
      PROVE  (c \o b)[k] = IF k < j THEN s[k] ELSE IF k = j THEN x ELSE s[k - 1]
  <2>1. (c \o b)[k] = IF k <= j THEN c[k] ELSE b[k - j]
    BY <1>0, <1>2, <1>3, ConcatProperties
  <2>2. CASE k <= j BY <1>0, <1>3, <2>1, <2>2
  <2>3. CASE k > j
    <3>1. k - j \in 1..(Len(s) - j + 1) /\ k - j + j - 1 = k - 1 BY <1>0, <2>3
    <3> QED BY <1>0, <1>2, <2>1, <2>3, <3>1
  <2>4. k <= j \/ k > j BY <1>0
  <2> QED BY <2>2, <2>3, <2>4, Zenon
<1> QED BY <1>4, <1>5, Zenon DEF Put, a, b, c

\* Removing a workspace from the list removes it and no other.
LEMMA CutRng ==
  ASSUME NEW S, NEW s \in Seq(S), Once(s), NEW i \in 1..Len(s)
  PROVE  /\ Cut(s, i) \in Seq(S) /\ Len(Cut(s, i)) = Len(s) - 1
         /\ Once(Cut(s, i)) /\ Rng(Cut(s, i)) = Rng(s) \ {s[i]}
<1> DEFINE t == Cut(s, i)
<1>0. /\ t \in Seq(S) /\ Len(t) = Len(s) - 1
      /\ \A k \in 1..Len(t) : t[k] = IF k < i THEN s[k] ELSE s[k + 1]
  BY CutElements
<1> HIDE DEF t
<1>1. DOMAIN s = 1..Len(s) /\ DOMAIN t = 1..Len(t) /\ Len(s) \in Nat BY <1>0
<1>2. Once(t) BY <1>0, <1>1 DEF Once
<1>3. ASSUME NEW k \in 1..Len(t) PROVE t[k] \in Rng(s) \ {s[i]}
  <2>1. CASE k < i
    <3>1. k \in 1..Len(s) /\ k # i /\ t[k] = s[k] BY <1>0, <1>1, <2>1
    <3> QED BY <1>1, <3>1 DEF Rng, Once
  <2>2. CASE k >= i
    <3>1. k + 1 \in 1..Len(s) /\ k + 1 # i /\ t[k] = s[k + 1] BY <1>0, <1>1, <2>2
    <3> QED BY <1>1, <3>1 DEF Rng, Once
  <2> QED BY <1>1, <2>1, <2>2
<1>4. ASSUME NEW k \in 1..Len(s), k # i PROVE s[k] \in Rng(t)
  <2>1. CASE k < i
    <3>1. k \in 1..Len(t) /\ t[k] = s[k] BY <1>0, <1>1, <2>1
    <3> QED BY <1>1, <3>1 DEF Rng
  <2>2. CASE k > i
    <3>1. k - 1 \in 1..Len(t) /\ t[k - 1] = s[k] BY <1>0, <1>1, <2>2
    <3> QED BY <1>1, <3>1 DEF Rng
  <2> QED BY <1>1, <1>4, <2>1, <2>2
<1>5. Rng(t) = Rng(s) \ {s[i]}
  <2>1. Rng(t) \subseteq Rng(s) \ {s[i]} BY <1>1, <1>3 DEF Rng
  <2>2. Rng(s) \ {s[i]} \subseteq Rng(t) BY <1>1, <1>4 DEF Rng
  <2> QED BY <2>1, <2>2
<1> QED BY <1>0, <1>2, <1>5, Zenon DEF t

\* Reordering the list keeps its workspaces.
LEMMA MovedRng ==
  ASSUME NEW S, NEW s \in Seq(S), Once(s), NEW i \in 1..Len(s), NEW j \in 1..Len(s)
  PROVE  /\ Put(Cut(s, i), j, s[i]) \in Seq(S)
         /\ Len(Put(Cut(s, i), j, s[i])) = Len(s)
         /\ Once(Put(Cut(s, i), j, s[i])) /\ Rng(Put(Cut(s, i), j, s[i])) = Rng(s)
<1> DEFINE r == Cut(s, i)
           t == Put(r, j, s[i])
<1>0. r \in Seq(S) /\ Len(r) = Len(s) - 1 /\ Once(r) /\ Rng(r) = Rng(s) \ {s[i]}
  BY CutRng
<1> HIDE DEF r
<1>1. DOMAIN s = 1..Len(s) /\ Len(s) \in Nat /\ DOMAIN r = 1..Len(r) /\ s[i] \in S BY <1>0
<1>2. /\ t \in Seq(S) /\ Len(t) = Len(r) + 1
      /\ \A k \in 1..Len(t) :
           t[k] = IF k < j THEN r[k] ELSE IF k = j THEN s[i] ELSE r[k - 1]
  <2>1. j \in 1..(Len(r) + 1) BY <1>0, <1>1
  <2>2. /\ t \in Seq(S) /\ Len(t) = Len(r) + 1
        /\ \A k \in 1..(Len(r) + 1) :
             t[k] = IF k < j THEN r[k] ELSE IF k = j THEN s[i] ELSE r[k - 1]
    <3> DEFINE x == s[i]
    <3>1. r \in Seq(S) /\ x \in S BY <1>0, <1>1
    <3> HIDE DEF x
    <3>2. /\ Put(r, j, x) \in Seq(S) /\ Len(Put(r, j, x)) = Len(r) + 1
          /\ \A k \in 1..(Len(r) + 1) :
               Put(r, j, x)[k] = IF k < j THEN r[k] ELSE IF k = j THEN x ELSE r[k - 1]
      BY <2>1, <3>1, PutElements
    <3> QED BY <3>2, Zenon DEF x
  <2> HIDE DEF t
  <2> QED BY <2>2
<1> HIDE DEF t
<1>3. DOMAIN t = 1..Len(t) /\ Len(t) = Len(s) BY <1>0, <1>1, <1>2
<1>4. \A k \in 1..Len(r) : r[k] # s[i]
  BY <1>0, <1>1 DEF Rng
<1>5. Once(t)
  <2> DEFINE at(k) == IF k < j THEN k ELSE k - 1
  <2>1. \A k \in 1..Len(t) : k # j => at(k) \in 1..Len(r) /\ t[k] = r[at(k)]
    BY <1>0, <1>1, <1>2, <1>3
  <2>2. \A k, m \in 1..Len(t) : k # j /\ m # j /\ at(k) = at(m) => k = m BY <1>1, <1>3
  <2>3. t[j] = s[i] BY <1>1, <1>2, <1>3
  <2> HIDE DEF at
  <2> SUFFICES ASSUME NEW k \in 1..Len(t), NEW m \in 1..Len(t), t[k] = t[m] PROVE k = m
    BY DEF Once
  <2>4. CASE k # j /\ m # j
    <3>1. at(k) \in 1..Len(r) /\ at(m) \in 1..Len(r) /\ r[at(k)] = r[at(m)]
      BY <2>1, <2>4, Zenon
    <3>2. at(k) = at(m) BY <1>0, <3>1, Zenon DEF Once
    <3> QED BY <2>2, <2>4, <3>2, Zenon
  <2>5. CASE k = j \/ m = j BY <1>4, <2>1, <2>3, <2>5
  <2> QED BY <2>4, <2>5
<1>6. ASSUME NEW k \in 1..Len(t) PROVE t[k] \in Rng(s)
  <2>1. \A m \in 1..Len(r) : r[m] \in Rng(s) BY <1>0, <1>1 DEF Rng
  <2>2. s[i] \in Rng(s) BY <1>1 DEF Rng
  <2>3. CASE k < j
    <3>1. k \in 1..Len(r) /\ t[k] = r[k] BY <1>0, <1>1, <1>2, <1>3, <2>3
    <3> QED BY <2>1, <3>1
  <2>4. CASE k = j BY <1>2, <2>2, <2>4
  <2>5. CASE k > j
    <3>1. k - 1 \in 1..Len(r) /\ t[k] = r[k - 1] BY <1>0, <1>1, <1>2, <1>3, <2>5
    <3> QED BY <2>1, <3>1
  <2> QED BY <1>1, <1>3, <2>3, <2>4, <2>5
<1>7. ASSUME NEW k \in 1..Len(r) PROVE r[k] \in Rng(t)
  <2>1. CASE k < j
    <3>1. k \in 1..Len(t) /\ t[k] = r[k] BY <1>0, <1>1, <1>2, <1>3, <2>1
    <3> QED BY <1>3, <3>1 DEF Rng
  <2>2. CASE k >= j
    <3>1. k + 1 \in 1..Len(t) /\ t[k + 1] = r[k] BY <1>0, <1>1, <1>2, <1>3, <2>2
    <3> QED BY <1>3, <3>1 DEF Rng
  <2> QED BY <1>0, <1>1, <2>1, <2>2
<1>8. s[i] \in Rng(t)
  <2>1. j \in 1..Len(t) /\ t[j] = s[i] BY <1>1, <1>2, <1>3
  <2> QED BY <1>3, <2>1 DEF Rng
<1>9. Rng(t) = Rng(s)
  <2>1. Rng(t) \subseteq Rng(s) BY <1>3, <1>6 DEF Rng
  <2>2. Rng(r) \subseteq Rng(t) BY <1>1, <1>7 DEF Rng
  <2> QED BY <1>0, <1>8, <2>1, <2>2
<1> QED BY <1>2, <1>3, <1>5, <1>9, Zenon DEF r, t

\* The first m workspaces of the list.
LEMMA PrefixRng ==
  ASSUME NEW S, NEW s \in Seq(S), Once(s), NEW m \in 1..Len(s)
  PROVE  /\ SubSeq(s, 1, m) \in Seq(S) /\ Len(SubSeq(s, 1, m)) = m
         /\ Once(SubSeq(s, 1, m))
         /\ Rng(SubSeq(s, 1, m)) = Rng(s) \ {s[i] : i \in (m + 1)..Len(s)}
         /\ s[m] \in Rng(SubSeq(s, 1, m))
<1> DEFINE t == SubSeq(s, 1, m)
<1>0. /\ t \in Seq(S) /\ Len(t) = m /\ \A k \in 1..m : t[k] = s[k]
      /\ m \in Nat /\ Len(s) \in Nat
  BY SubSeqProperties
<1>1. DOMAIN s = 1..Len(s) /\ DOMAIN t = 1..m BY <1>0
<1> HIDE DEF t
<1>2. Once(t) BY <1>0 DEF Once
<1>3. Rng(t) = {s[k] : k \in 1..m} BY <1>0, <1>1 DEF Rng
<1>4. Rng(s) = {s[k] : k \in 1..Len(s)} BY <1>1 DEF Rng
<1>5. {s[k] : k \in 1..m} = {s[k] : k \in 1..Len(s)} \ {s[i] : i \in (m + 1)..Len(s)}
  BY <1>0 DEF Once
<1>6. s[m] \in Rng(t) BY <1>0, <1>3
<1>7. Rng(t) = Rng(s) \ {s[i] : i \in (m + 1)..Len(s)} BY <1>3, <1>4, <1>5
<1> QED BY <1>0, <1>2, <1>6, <1>7, Zenon DEF t

-----------------------------------------------------------------------------
\* What ActivatedIsShown asks of one step.
NewIsShown ==
  activated' \notin {activated, None}
    => activated' \in capable' /\ ShowOn(wid'[activated'], models'[cur'])

\* setCurrentIndex makes the index the current one.
LEMMA SetCurrentIndexCur ==
  ASSUME NEW a, NEW b, NEW c, NEW d, NEW ms, NEW rs, NEW i
  PROVE  SetCurrentIndex([cur |-> a, vis |-> b, hid |-> c, idx |-> d], ms, rs, i).cur = i
BY DEF SetCurrentIndex, Reveal

\* A step that leaves the list, the places and the capable windows alone.
LEMMA SameListIInv ==
  ASSUME IInv, UNCHANGED <<models, nextId, rows, wid, capable>>, cur' \in 1..Len(models),
         Live(hist', capable, wid, models)
  PROVE  IInv'
BY DEF IInv, ListInv, Places, Rows, Live

\* Workspace::switchTo.
LEMMA SwitchToKeeps ==
  ASSUME IInv, NEW i \in DOMAIN models, SwitchTo(i)
  PROVE  IInv' /\ NewIsShown
<1>1. /\ i \in 1..Len(models) /\ models[i] \in Keys
  BY DEF IInv, ListInv, Keys
<1>2. cur' = i BY SetCurrentIndexCur DEF SwitchTo, Sees, View
<1>3. /\ Live(hist', capable, wid, models)
      /\ activated' \notin {activated, None}
           => activated' \in capable /\ ShowOn(wid[activated'], models[i])
  BY <1>1, LatestActivationLive DEF SwitchTo, Becomes, IInv
<1>4. UNCHANGED <<models, nextId, rows, wid, capable>> BY DEF SwitchTo
<1>5. IInv' BY <1>1, <1>2, <1>3, <1>4, SameListIInv
<1>6. NewIsShown BY <1>2, <1>3, <1>4 DEF NewIsShown
<1> QED BY <1>5, <1>6

\* A window that has just become capable, activated or noted in the history.
LEMMA RequestedLive ==
  ASSUME IInv, NEW w \in Windows, NEW c, c = capable \cup {w}
  PROVE  /\ Live(hist, c, wid, models)
         /\ Live(Requested(w, c).h, c, wid, models)
         /\ Requested(w, c).a \notin {activated, None}
              => Requested(w, c).a = w /\ ShowOn(wid[w], Current)
<1>1. c \in SUBSET Windows /\ w \in c BY DEF IInv
<1>2. Places(wid, models) /\ Live(hist, c, wid, models) BY DEF IInv, Live
<1>3. CASE ShowOn(wid[w], Current)
  <2>1. Requested(w, c) = Activation(w, activated, c, wid, models, hist)
    BY <1>3 DEF Requested
  <2> QED BY <1>1, <1>2, <1>3, <2>1, ActivationLive
<1>4. CASE ~ShowOn(wid[w], Current)
  <2>1. /\ Requested(w, c).h = PushActived(hist, models, wid[w], w)
        /\ Requested(w, c).a = activated
    BY <1>4 DEF Requested
  <2> QED BY <1>1, <1>2, <2>1, PushActivedLive
<1> QED BY <1>3, <1>4

\* FocusController::forceActivateSurface.
LEMMA ForceActivateKeeps ==
  ASSUME IInv, NEW w \in Windows, wid[w] # Out, ForceActivate(w)
  PROVE  IInv' /\ NewIsShown
<1> DEFINE c   == capable \cup {w}
           r   == IF w \in capable THEN [a |-> activated, h |-> hist] ELSE Requested(w, c)
           far == ~ShowOn(wid[w], Current)
           i   == IF far THEN IndexOf(models, wid[w]) ELSE cur
           sw  == IF far THEN LatestActivation(wid[w], r.a, c, wid, models, r.h) ELSE r
<1>1. c \in SUBSET Windows /\ w \in c /\ Places(wid, models) BY DEF IInv
<1>2. wid[w] \in Rng(models) \cup {All} /\ wid[w] \in Keys BY DEF IInv, Places
<1>3. Live(hist, c, wid, models) /\ Live(Requested(w, c).h, c, wid, models)
  BY RequestedLive
<1>4. Live(r.h, c, wid, models) BY <1>3
<1>5. Live(sw.h, c, wid, models)
  <2> HIDE DEF r, c
  <2> QED BY <1>1, <1>2, <1>4, LatestActivationLive
<1>6. i \in 1..Len(models) /\ ShowOn(wid[w], models[i])
  <2>1. CASE far
    <3>1. wid[w] \in Rng(models) BY <1>2, <2>1 DEF ShowOn
    <3>2. IndexOf(models, wid[w]) \in DOMAIN models /\ models[IndexOf(models, wid[w])] = wid[w]
      BY <3>1, IndexOfRng
    <3> QED BY <2>1, <3>2 DEF IInv, ListInv, ShowOn
  <2>2. CASE ~far BY <2>2 DEF IInv, ListInv, Current
  <2> QED BY <2>1, <2>2
<1>7. /\ capable' = c /\ UNCHANGED <<models, nextId, rows, wid>>
      /\ cur' = i
      /\ activated' = Activation(w, sw.a, c, wid, models, sw.h).a
      /\ hist' = Activation(w, sw.a, c, wid, models, sw.h).h
  BY SetCurrentIndexCur DEF ForceActivate, Sees, View, Becomes
<1> HIDE DEF c, r, far, i, sw
<1>8. Live(hist', c, wid, models) BY <1>1, <1>5, <1>7, ActivationLive
<1>9. activated' = w BY <1>1, <1>7 DEF Activation
<1>10. IInv' BY <1>1, <1>6, <1>7, <1>8 DEF IInv, ListInv, Places, Rows, Live
<1>11. NewIsShown BY <1>1, <1>6, <1>7, <1>9 DEF NewIsShown
<1> QED BY <1>10, <1>11

-----------------------------------------------------------------------------
\* Workspace::addSurface: the window is where its workspace lists it.
LEMMA AddSurfacePlaces ==
  ASSUME Placed, NEW w \in Windows, NEW k \in Keys, AddSurface(w, k)
  PROVE  Places(wid', models') /\ Rows(rows', wid')
<1>1. /\ wid[w] = Out /\ k \in Rng(models) \cup {All} /\ Out \notin Keys
      /\ wid' = [wid EXCEPT ![w] = k]
      /\ rows' = [rows EXCEPT ![k] = Push(@, w)]
      /\ UNCHANGED list
  BY WorkspacesAssumption DEF AddSurface, Listed, Rng, Keys
<1>2. Places(wid', models') BY <1>1 DEF Placed, Places, list
<1>3. Rows(rows', wid')
  <2>1. rows' \in [Keys -> SUBSET (Windows \X Windows)]
    <3>1. Push(rows[k], w) \in SUBSET (Windows \X Windows) BY RecencyType DEF Placed, Rows
    <3> QED BY <1>1, <3>1 DEF Placed, Rows
  <2>2. ASSUME NEW m \in Keys PROVE Elems(rows'[m]) = {v \in Windows : wid'[v] = m}
    <3>1. Elems(rows'[m]) = IF m = k THEN Elems(rows[m]) \cup {w} ELSE Elems(rows[m])
      BY <1>1, ElemsPush DEF Placed, Rows
    <3>2. Elems(rows[m]) = {v \in Windows : wid[v] = m} BY DEF Placed, Rows
    <3>3. {v \in Windows : wid'[v] = m}
            = IF m = k THEN {v \in Windows : wid[v] = m} \cup {w} ELSE {v \in Windows : wid[v] = m}
      BY <1>1 DEF Placed, Places
    <3> QED BY <3>1, <3>2, <3>3
  <2> QED BY <2>1, <2>2 DEF Rows
<1> QED BY <1>2, <1>3

\* Workspace::addSurface.
LEMMA AddSurfaceKeeps ==
  ASSUME IInv, NEW w \in Windows, NEW k \in Keys, AddSurface(w, k)
  PROVE  IInv' /\ NewIsShown
<1>1. /\ wid[w] = Out /\ k \in Rng(models) \cup {All} /\ Out \notin Keys
      /\ wid' = [wid EXCEPT ![w] = k]
      /\ rows' = [rows EXCEPT ![k] = Push(@, w)]
      /\ UNCHANGED <<list, hist, capable, activated>>
  BY WorkspacesAssumption DEF AddSurface, Listed, Rng, Keys
<1>2. Places(wid', models') /\ Rows(rows', wid') BY AddSurfacePlaces DEF IInv, Placed
<1>4. Live(hist', capable', wid', models')
  <2>1. \A m \in Keys : w \notin Elems(hist[m])
    BY <1>1, WorkspacesAssumption DEF IInv, Live, ShowOn
  <2>2. \A m \in Keys : \A v \in Elems(hist[m]) : v \in Windows /\ wid'[v] = wid[v]
    BY <1>1, <2>1 DEF IInv, Places, Elems
  <2> QED BY <1>1, <2>2 DEF IInv, Live, list
<1> QED BY <1>1, <1>2, <1>4 DEF IInv, ListInv, list, NewIsShown

\* activationRequested.
LEMMA ActivationRequestedKeeps ==
  ASSUME IInv, NEW w \in Windows, ActivationRequested(w)
  PROVE  IInv' /\ NewIsShown
<1> DEFINE c == capable \cup {w}
<1>1. /\ capable' = c /\ UNCHANGED <<models, nextId, cur, rows, wid>>
      /\ hist' = Requested(w, c).h /\ activated' = Requested(w, c).a
  BY DEF ActivationRequested, Becomes, list, placed
<1>2. c \in SUBSET Windows /\ w \in c BY DEF IInv
<1> HIDE DEF c
<1>3. /\ Live(hist', c, wid, models)
      /\ activated' \notin {activated, None} => activated' = w /\ ShowOn(wid[w], Current)
  BY <1>1, RequestedLive DEF c
<1>4. IInv' BY <1>1, <1>2, <1>3 DEF IInv, ListInv, Places, Rows, Live
<1>5. NewIsShown BY <1>1, <1>2, <1>3 DEF NewIsShown, Current
<1> QED BY <1>4, <1>5

\* onSurfaceInactivationRequested.
LEMMA InactivationRequestedKeeps ==
  ASSUME IInv, NEW w \in Windows, NEW focused \in BOOLEAN, InactivationRequested(w, focused)
  PROVE  IInv' /\ NewIsShown
<1> DEFINE c == capable \ {w}
           h == RemoveActived(hist, models, wid[w], w)
<1>1. /\ capable' = c /\ UNCHANGED <<models, nextId, cur, rows, wid>>
      /\ Current \in Keys
  BY DEF InactivationRequested, list, placed, IInv, ListInv, Keys, Current
<1>2. c \in SUBSET Windows /\ Places(wid, models) BY DEF IInv
<1>3. Live(h, c, wid, models)
  <2>1. /\ h \in [Keys -> SUBSET (Windows \X Windows)]
        /\ \A k \in Keys : Elems(h[k]) = Elems(hist[k]) \ {w}
    BY RemoveActivedGone DEF IInv
  <2> HIDE DEF h
  <2>2. \A k \in Keys : \A v \in Elems(h[k]) : v \in Elems(hist[k]) /\ v \in c
    BY <2>1 DEF IInv, Live
  <2> QED BY <2>1, <2>2, FewerLive DEF IInv
<1>4. \/ /\ hist' = Activation(Latest(h[Current]), None, c, wid, models, h).h
         /\ activated' = Activation(Latest(h[Current]), None, c, wid, models, h).a
      \/ hist' = h /\ activated' \in {activated, None}
  BY DEF InactivationRequested, Becomes
<1> HIDE DEF c, h
<1>5. /\ Live(hist', c, wid, models)
      /\ activated' \notin {activated, None}
           => activated' \in c /\ ShowOn(wid[activated'], Current)
  <2>1. CASE hist' = h /\ activated' \in {activated, None} BY <1>3, <2>1
  <2>2. CASE /\ hist' = Activation(Latest(h[Current]), None, c, wid, models, h).h
             /\ activated' = Activation(Latest(h[Current]), None, c, wid, models, h).a
    <3>1. /\ Live(hist', c, wid, models)
          /\ activated' \in {None} \cup ({Latest(h[Current])} \cap c)
      BY <1>2, <1>3, <2>2, ActivationLive
    <3>2. Latest(h[Current]) # None => ShowOn(wid[Latest(h[Current])], Current)
      BY <1>1, <1>3, LatestElem DEF Live
    <3> QED BY <3>1, <3>2
  <2> QED BY <1>4, <2>1, <2>2
<1>6. IInv' BY <1>1, <1>2, <1>5 DEF IInv, ListInv, Places, Rows, Live
<1>7. NewIsShown BY <1>1, <1>5 DEF NewIsShown, Current
<1> QED BY <1>6, <1>7

\* Workspace::removeSurface: the window is listed by no workspace.
LEMMA RemoveSurfacePlaces ==
  ASSUME Placed, NEW w \in Windows, RemoveSurface(w)
  PROVE  Places(wid', models') /\ Rows(rows', wid')
<1> DEFINE k == wid[w]
<1>1. /\ k \in Keys /\ k # Out
      /\ rows' = [rows EXCEPT ![k] = Drop(@, {w})]
      /\ wid' = [wid EXCEPT ![w] = Out]
      /\ UNCHANGED models
  BY DEF RemoveSurface, list, Placed, Places
<1>2. Out \notin Keys BY WorkspacesAssumption DEF Keys
<1>3. Places(wid', models') BY <1>1 DEF Placed, Places
<1>4. Rows(rows', wid')
  <2>1. rows' \in [Keys -> SUBSET (Windows \X Windows)]
    <3>1. Drop(rows[k], {w}) \in SUBSET (Windows \X Windows) BY <1>1, RecencyType DEF Placed, Rows
    <3> QED BY <1>1, <3>1 DEF Placed, Rows
  <2>2. ASSUME NEW m \in Keys PROVE Elems(rows'[m]) = {v \in Windows : wid'[v] = m}
    <3>1. Elems(rows'[m]) = IF m = k THEN Elems(rows[m]) \ {w} ELSE Elems(rows[m])
      BY <1>1, ElemsDrop DEF Placed, Rows
    <3>2. Elems(rows[m]) = {v \in Windows : wid[v] = m} BY DEF Placed, Rows
    <3>3. {v \in Windows : wid'[v] = m}
            = IF m = k THEN {v \in Windows : wid[v] = m} \ {w} ELSE {v \in Windows : wid[v] = m}
      BY <1>1, <1>2 DEF Placed, Places
    <3> QED BY <3>1, <3>2, <3>3
  <2> QED BY <2>1, <2>2 DEF Rows
<1> QED BY <1>3, <1>4

\* destroyForSurface and Workspace::removeSurface.
LEMMA RemoveSurfaceKeeps ==
  ASSUME IInv, NEW w \in Windows, RemoveSurface(w)
  PROVE  IInv' /\ NewIsShown
<1> DEFINE k == wid[w]
           h == IF w \in capable THEN RemoveActived(hist, models, k, w) ELSE hist
<1>1. /\ k \in Keys /\ k # Out
      /\ hist' = [h EXCEPT ![k] = Drop(@, {w})]
      /\ rows' = [rows EXCEPT ![k] = Drop(@, {w})]
      /\ wid' = [wid EXCEPT ![w] = Out]
      /\ capable' = capable \ {w}
      /\ activated' \in {activated, None}
      /\ UNCHANGED <<models, nextId, cur>>
  BY DEF RemoveSurface, list, IInv, Places
<1>3. Places(wid', models') /\ Rows(rows', wid') BY RemoveSurfacePlaces DEF IInv, Placed
<1>5. /\ h \in [Keys -> SUBSET (Windows \X Windows)]
      /\ \A m \in Keys : Elems(h[m]) = Elems(hist[m]) \ {w}
  <2>1. CASE w \in capable
    <3> DEFINE g == RemoveActived(hist, models, wid[w], w)
    <3>1. h = g BY <2>1
    <3>2. /\ g \in [Keys -> SUBSET (Windows \X Windows)]
          /\ \A m \in Keys : Elems(g[m]) = Elems(hist[m]) \ {w}
      <4>1. Live(hist, capable, wid, models) BY DEF IInv
      <4> QED BY <4>1, RemoveActivedGone
    <3> HIDE DEF g, h
    <3> QED BY <3>1, <3>2
  <2>2. CASE w \notin capable
    <3>1. \A m \in Keys : w \notin Elems(hist[m]) BY <2>2 DEF IInv, Live
    <3> QED BY <2>2, <3>1 DEF IInv, Live
  <2> QED BY <2>1, <2>2
<1> HIDE DEF h
<1>6. /\ hist' \in [Keys -> SUBSET (Windows \X Windows)]
      /\ \A m \in Keys : Elems(hist'[m]) = Elems(hist[m]) \ {w}
  <2>1. Drop(h[k], {w}) \in SUBSET (Windows \X Windows) BY <1>1, <1>5, RecencyType
  <2>2. ASSUME NEW m \in Keys PROVE Elems(hist'[m]) = Elems(hist[m]) \ {w}
    <3>1. CASE m = k
      <4>1. hist'[m] = Drop(h[k], {w}) BY <1>1, <1>5, <3>1
      <4> QED BY <1>5, <3>1, <4>1, ElemsDrop
    <3>2. CASE m # k
      <4>1. hist'[m] = h[m] BY <1>1, <1>5, <3>2
      <4> QED BY <1>5, <4>1
    <3> QED BY <3>1, <3>2
  <2> QED BY <1>1, <1>5, <2>1, <2>2
<1>7. Live(hist', capable', wid', models)
  <2>1. \A m \in Keys : \A v \in Elems(hist'[m]) :
          v \in Elems(hist[m]) /\ v \in capable' /\ wid'[v] = wid[v]
    <3>1. \A v \in Windows \ {w} : wid'[v] = wid[v] BY <1>1 DEF IInv, Places
    <3> QED BY <1>1, <1>6, <3>1 DEF IInv, Live
  <2> QED BY <1>6, <2>1, FewerLive DEF IInv
<1> QED BY <1>1, <1>3, <1>7 DEF IInv, ListInv, NewIsShown

\* Workspace::moveSurfaceTo: the window leaves one list and enters the other.
LEMMA MoveSurfaceToPlaces ==
  ASSUME Placed, NEW w \in Windows, NEW k \in Keys, NEW menu \in BOOLEAN,
         MoveSurfaceTo(w, k, menu)
  PROVE  Places(wid', models') /\ Rows(rows', wid')
<1> DEFINE j == wid[w]
<1>1. /\ j \in Keys /\ j # k /\ k \in Rng(models) \cup {All}
      /\ wid' = [wid EXCEPT ![w] = k] /\ wid'[w] = k
      /\ rows' = [rows EXCEPT ![j] = Drop(@, {w}), ![k] = Push(@, w)]
      /\ UNCHANGED models
  BY DEF MoveSurfaceTo, list, Placed, Places, Listed, Rng
<1>3. Places(wid', models') /\ \A v \in Windows \ {w} : wid'[v] = wid[v]
  BY <1>1 DEF Placed, Places
<1>4. Rows(rows', wid')
  <2>1. rows' \in [Keys -> SUBSET (Windows \X Windows)]
    <3>0. rows[j] \in SUBSET (Windows \X Windows) /\ rows[k] \in SUBSET (Windows \X Windows)
      BY <1>1 DEF Placed, Rows
    <3>1. /\ Drop(rows[j], {w}) \in SUBSET (Windows \X Windows)
          /\ Push(rows[k], w) \in SUBSET (Windows \X Windows)
      BY ONLY <3>0, w \in Windows, RecencyType
    <3> QED BY <1>1, <3>1 DEF Placed, Rows
  <2>2. ASSUME NEW m \in Keys PROVE Elems(rows'[m]) = {v \in Windows : wid'[v] = m}
    <3>1. Elems(rows[m]) = {v \in Windows : wid[v] = m} BY DEF Placed, Rows
    <3>2. CASE m = j
      <4>1. rows'[m] = Drop(rows[m], {w}) BY <1>1, <3>2 DEF Placed, Rows
      <4>2. Elems(rows'[m]) = Elems(rows[m]) \ {w} BY <4>1, ElemsDrop
      <4> QED BY <1>1, <1>3, <3>1, <3>2, <4>2
    <3>3. CASE m = k
      <4>1. rows'[m] = Push(rows[m], w) BY <1>1, <3>3 DEF Placed, Rows
      <4>2. Elems(rows'[m]) = Elems(rows[m]) \cup {w} BY <4>1, ElemsPush
      <4> QED BY <1>1, <1>3, <3>1, <3>3, <4>2
    <3>4. CASE m # j /\ m # k
      <4>1. rows'[m] = rows[m] BY <1>1, <3>4 DEF Placed, Rows
      <4> QED BY <1>1, <1>3, <3>1, <3>4, <4>1
    <3> QED BY <3>2, <3>3, <3>4
  <2> QED BY <2>1, <2>2 DEF Rows
<1> QED BY <1>3, <1>4

\* Workspace::moveSurfaceTo for a window that is on one workspace.
LEMMA MoveSurfaceToKeeps ==
  ASSUME IInv, ~Unstick, NEW w \in Windows, NEW k \in Keys, NEW menu \in BOOLEAN,
         MoveSurfaceTo(w, k, menu)
  PROVE  IInv' /\ NewIsShown
<1> DEFINE j  == wid[w]
           h0 == [hist EXCEPT ![j] = Drop(@, {w})]
           h1 == RemoveActived(h0, models, wid'[w], w)
           h  == IF w \in capable THEN PushActived(h1, models, wid'[w], w) ELSE h0
<1>1. /\ j \in Ids /\ j # k /\ k \in Rng(models) \cup {All}
      /\ wid' = [wid EXCEPT ![w] = k] /\ wid'[w] = k
      /\ rows' = [rows EXCEPT ![j] = Drop(@, {w}), ![k] = Push(@, w)]
      /\ UNCHANGED <<models, nextId, cur, capable>>
      /\ Current \in Keys /\ j \in Keys
  BY DEF MoveSurfaceTo, list, IInv, ListInv, Places, Keys, Current, Listed, Rng
<1>2. /\ hist' = IF menu THEN Activation(Latest(h[Current]), activated, capable, wid', models, h).h
                 ELSE h
      /\ activated' = IF menu THEN Activation(Latest(h[Current]), activated, capable, wid', models, h).a
                      ELSE activated
  BY <1>1 DEF MoveSurfaceTo, Becomes
<1>3. Places(wid', models) /\ \A v \in Windows \ {w} : wid'[v] = wid[v]
  BY <1>1 DEF IInv, Places
<1>4. Rows(rows', wid') BY MoveSurfaceToPlaces DEF IInv, Placed
<1>5. /\ h0 \in [Keys -> SUBSET (Windows \X Windows)]
      /\ \A m \in Keys : Elems(h0[m]) = Elems(hist[m]) \ {w}
  <2>1. Drop(hist[j], {w}) \in SUBSET (Windows \X Windows)
    BY <1>1, RecencyType DEF IInv, Live
  <2>2. ASSUME NEW m \in Keys PROVE Elems(h0[m]) = Elems(hist[m]) \ {w}
    <3>1. CASE m = j
      <4>1. h0[m] = Drop(hist[m], {w}) BY <1>1, <3>1 DEF IInv, Live
      <4> QED BY <4>1, ElemsDrop
    <3>2. CASE m # j
      <4>1. h0[m] = hist[m] BY <1>1, <3>2 DEF IInv, Live
      <4>2. w \notin Elems(hist[m])
        BY <1>1, <3>2, WorkspacesAssumption DEF IInv, Live, ShowOn
      <4> QED BY <4>1, <4>2
    <3> QED BY <3>1, <3>2
  <2> QED BY <1>1, <2>1, <2>2 DEF IInv, Live
<1> HIDE DEF h0
<1>6. Live(h0, capable, wid', models)
  <2>1. \A m \in Keys : \A v \in Elems(h0[m]) :
          v \in Elems(hist[m]) /\ v \in capable /\ wid'[v] = wid[v]
    BY <1>3, <1>5 DEF IInv, Live
  <2> QED BY <1>5, <2>1, FewerLive DEF IInv
<1>7. Live(h1, capable, wid', models)
  <2>1. /\ h1 \in [Keys -> SUBSET (Windows \X Windows)]
        /\ \A m \in Keys : Elems(h1[m]) = Elems(h0[m]) \ {w}
    BY <1>6, RemoveActivedGone
  <2> HIDE DEF h1
  <2>2. \A m \in Keys : \A v \in Elems(h1[m]) : v \in Elems(h0[m]) /\ v \in capable
    BY <1>6, <2>1 DEF Live
  <2> QED BY <1>6, <2>1, <2>2, FewerLive
<1> HIDE DEF h1
<1>8. Live(h, capable, wid', models)
  BY <1>3, <1>6, <1>7, PushActivedLive DEF IInv
<1> HIDE DEF h
<1>9. /\ Live(hist', capable, wid', models)
      /\ activated' \notin {activated, None}
           => activated' \in capable /\ ShowOn(wid'[activated'], Current)
  <2>1. Latest(h[Current]) # None => ShowOn(wid'[Latest(h[Current])], Current)
    BY <1>1, <1>8, LatestElem DEF Live
  <2>2. capable \in SUBSET Windows BY DEF IInv
  <2> DEFINE A == Activation(Latest(h[Current]), activated, capable, wid', models, h)
  <2>3. /\ Live(A.h, capable, wid', models)
        /\ A.a \in {activated, None} \cup ({Latest(h[Current])} \cap capable)
    BY <1>3, <1>8, <2>2, ActivationLive
  <2> HIDE DEF A
  <2>4. hist' \in {A.h, h} /\ activated' \in {A.a, activated} BY <1>2 DEF A
  <2> QED BY <1>8, <2>1, <2>3, <2>4
<1>10. IInv' BY <1>1, <1>3, <1>4, <1>9 DEF IInv, ListInv
<1>11. NewIsShown BY <1>1, <1>9 DEF NewIsShown, Current
<1> QED BY <1>10, <1>11

-----------------------------------------------------------------------------
\* The list after doCreateModel: the new ids are fresh.
LEMMA CreatedList ==
  ASSUME Placed, NEW n \in Nat, DoCreateModel(n)
  PROVE  /\ models' \in Seq(Ids) /\ Len(models') = Len(models) + n
         /\ Once(models')
         /\ \A i \in 1..Len(models') : models'[i] < nextId'
         /\ Rng(models') = Rng(models) \cup (nextId..(nextId + n - 1))
         /\ \A i \in 1..Len(models) : models'[i] = models[i]
         /\ nextId' \in Nat
<1> DEFINE b == [i \in 1..n |-> nextId + i - 1]
<1>0. /\ models \in Seq(Ids) /\ nextId \in Nat /\ Len(models) \in Nat /\ MaxId \in Nat
      /\ \A i \in 1..Len(models) : models[i] \in Nat /\ models[i] < nextId
      /\ Once(models) /\ nextId' = nextId + n
  BY WorkspacesAssumption DEF Placed, ListInv, DoCreateModel, Ids
<1>1. b \in Seq(Ids) /\ Len(b) = n /\ \A i \in 1..n : b[i] = nextId + i - 1
  <2>1. \A i \in 1..n : nextId + i - 1 \in Ids BY <1>0 DEF DoCreateModel, Ids
  <2> QED BY <2>1
<1> HIDE DEF b
<1>2. models' = models \o b BY DEF DoCreateModel, b
<1>3. models' \in Seq(Ids) /\ Len(models') = Len(models) + n
  BY <1>0, <1>1, <1>2, ConcatProperties
<1>4. ASSUME NEW k \in 1..(Len(models) + n)
      PROVE  models'[k] = IF k <= Len(models) THEN models[k] ELSE nextId + (k - Len(models)) - 1
  <2>1. models'[k] = IF k <= Len(models) THEN models[k] ELSE b[k - Len(models)]
    BY <1>0, <1>1, <1>2, ConcatProperties
  <2>2. k > Len(models) => k - Len(models) \in 1..n BY <1>0
  <2> QED BY <1>0, <1>1, <2>1, <2>2
<1> DEFINE L == Len(models)
           t == models'
<1>5. /\ t \in Seq(Ids) /\ Len(t) = L + n /\ DOMAIN t = 1..(L + n) /\ DOMAIN models = 1..L
      /\ L \in Nat
      /\ \A k \in 1..L : t[k] = models[k]
      /\ \A k \in (L + 1)..(L + n) : t[k] = nextId + (k - L) - 1
  BY <1>0, <1>3, <1>4
<1> HIDE DEF L, t
<1>6. \A k \in 1..(L + n) : k \in 1..L \/ k \in (L + 1)..(L + n) BY <1>5
<1>7. \A k \in 1..L : models[k] \in Nat /\ models[k] < nextId BY <1>0 DEF L
<1>8. Once(t)
  <2> SUFFICES ASSUME NEW i \in 1..(L + n), NEW j \in 1..(L + n), t[i] = t[j] PROVE i = j
    BY <1>5 DEF Once
  <2>1. CASE i \in 1..L /\ j \in 1..L BY <1>0, <1>5, <2>1 DEF Once, L
  <2>2. CASE i \in (L + 1)..(L + n) /\ j \in (L + 1)..(L + n) BY <1>0, <1>5, <2>2
  <2>3. CASE i \in 1..L /\ j \in (L + 1)..(L + n) BY <1>0, <1>5, <1>7, <2>3
  <2>4. CASE j \in 1..L /\ i \in (L + 1)..(L + n) BY <1>0, <1>5, <1>7, <2>4
  <2> QED BY <1>6, <2>1, <2>2, <2>3, <2>4
<1>9. \A i \in 1..(L + n) : t[i] < nextId + n BY <1>0, <1>5, <1>6, <1>7
<1>10. Rng(t) = Rng(models) \cup (nextId..(nextId + n - 1))
  <2>1. Rng(t) = {t[k] : k \in 1..(L + n)} /\ Rng(models) = {models[k] : k \in 1..L}
    BY <1>5 DEF Rng
  <2>2. ASSUME NEW x \in nextId..(nextId + n - 1) PROVE x \in {t[k] : k \in 1..(L + n)}
    <3>1. x - nextId + 1 + L \in (L + 1)..(L + n) BY <1>0, <1>5
    <3>2. t[x - nextId + 1 + L] = x BY <1>0, <1>5, <3>1
    <3> QED BY <1>5, <3>1, <3>2
  <2>3. ASSUME NEW x \in {models[k] : k \in 1..L} PROVE x \in {t[k] : k \in 1..(L + n)}
    BY <1>5
  <2>4. ASSUME NEW k \in 1..(L + n) PROVE t[k] \in Rng(models) \cup (nextId..(nextId + n - 1))
    BY <1>0, <1>5, <1>6, <2>1
  <2> QED BY <2>1, <2>2, <2>3, <2>4
<1>11. \A i \in 1..Len(models') : models'[i] < nextId' BY <1>0, <1>5, <1>9 DEF t
<1> QED BY <1>0, <1>3, <1>5, <1>8, <1>10, <1>11 DEF t, L

\* doCreateModel: the new workspaces share the history of the windows that are
\* shown on all workspaces.
LEMMA CreatedKeeps ==
  ASSUME IInv, NEW n \in Nat, DoCreateModel(n), UNCHANGED <<rows, wid, capable>>,
         cur' \in 1..Len(models')
  PROVE  IInv'
<1>1. /\ models' \in Seq(Ids) /\ Once(models') /\ nextId' \in Nat
      /\ \A i \in 1..Len(models') : models'[i] < nextId'
      /\ Rng(models') = Rng(models) \cup (nextId..(nextId + n - 1))
  BY CreatedList DEF IInv, Placed
<1>2. Places(wid', models') BY <1>1 DEF IInv, Places
<1>3. hist' = [k \in Keys |-> IF k \in nextId..(nextId + n - 1) THEN hist[All] ELSE hist[k]]
  BY DEF DoCreateModel
<1>4. hist' \in [Keys -> SUBSET (Windows \X Windows)] /\ All \in Keys BY <1>3 DEF IInv, Live, Keys
<1>5. ASSUME NEW k \in Keys, NEW w \in Elems(hist'[k])
      PROVE  w \in capable' /\ ShowOn(wid'[w], k)
  <2>1. CASE k \in nextId..(nextId + n - 1)
    <3>1. w \in Elems(hist[All]) BY <1>3, <2>1
    <3> QED BY <1>4, <3>1 DEF IInv, Live, ShowOn
  <2>2. CASE k \notin nextId..(nextId + n - 1)
    <3>1. w \in Elems(hist[k]) BY <1>3, <2>2
    <3> QED BY <3>1 DEF IInv, Live
  <2> QED BY <2>1, <2>2
<1>6. ASSUME NEW k \in Ids \ Rng(models') PROVE Elems(hist'[k]) = {}
  <2>1. k \in Keys /\ k \notin Rng(models) /\ k \notin nextId..(nextId + n - 1)
    BY <1>1 DEF Keys
  <2>2. hist'[k] = hist[k] BY <1>3, <2>1
  <2> QED BY <2>1, <2>2 DEF IInv, Live
<1>7. Live(hist', capable', wid', models') BY <1>4, <1>5, <1>6 DEF Live
<1> QED BY <1>1, <1>2, <1>7 DEF IInv, ListInv, Rows

\* Workspace::createModel.
LEMMA CreateModelKeeps ==
  ASSUME IInv, CreateModel
  PROVE  IInv' /\ NewIsShown
<1>1. DoCreateModel(1) /\ UNCHANGED <<rows, wid, capable, cur, activated>>
  BY DEF CreateModel, placed
<1>2. cur' \in 1..Len(models')
  <2>1. Len(models') = Len(models) + 1 BY <1>1, CreatedList DEF IInv, Placed
  <2> QED BY <1>1, <2>1 DEF IInv, ListInv
<1> QED BY <1>1, <1>2, CreatedKeeps DEF NewIsShown

\* Workspace::moveModelTo.
LEMMA MoveModelToKeeps ==
  ASSUME IInv, NEW i \in DOMAIN models, NEW j \in DOMAIN models, MoveModelTo(i, j)
  PROVE  IInv' /\ NewIsShown
<1> DEFINE t == Put(Cut(models, i), j, models[i])
<1>1. models \in Seq(Ids) /\ i \in 1..Len(models) /\ j \in 1..Len(models) /\ Once(models)
  BY DEF IInv, ListInv
<1>2. /\ models' = t /\ cur' = IndexOf(t, Current)
      /\ UNCHANGED <<nextId, rows, wid, hist, capable, activated>>
  BY Zenon DEF MoveModelTo, placed, Put, Cut
<1>3. t \in Seq(Ids) /\ Len(t) = Len(models) /\ Once(t) /\ Rng(t) = Rng(models)
  BY <1>1, MovedRng
<1> HIDE DEF t
<1>4. DOMAIN t = 1..Len(t) BY <1>3
<1>5. cur' \in 1..Len(t)
  <2>1. Current \in Rng(models) BY DEF IInv, ListInv, Current, Rng
  <2> QED BY <1>2, <1>3, <1>4, <2>1, IndexOfRng
<1>6. \A k \in 1..Len(t) : t[k] < nextId
  <2>1. \A x \in Rng(models) : x < nextId BY DEF IInv, ListInv, Rng
  <2>2. \A k \in 1..Len(t) : t[k] \in Rng(t) BY <1>4 DEF Rng
  <2> QED BY <1>3, <2>1, <2>2
<1>7. ListInv' BY <1>2, <1>3, <1>5, <1>6 DEF IInv, ListInv
<1> QED BY <1>2, <1>3, <1>7 DEF IInv, Places, Rows, Live, NewIsShown

-----------------------------------------------------------------------------
\* The workspace that is current after doRemoveModel.
NowCurrent(gone, target) == IF Current \in gone THEN target ELSE Current

\* It is one of those that are left.
LEMMA NowListed ==
  ASSUME Placed, NEW ms, NEW gone, NEW target, Rng(ms) = Rng(models) \ gone, target \in Rng(ms)
  PROVE  NowCurrent(gone, target) \in Rng(ms)
<1>1. Current \in Rng(models) BY DEF Placed, ListInv, Current, Rng
<1> QED BY <1>1 DEF NowCurrent

\* doRemoveModel: the windows r of the workspaces gone are listed by target.
LEMMA RemovedPlaces ==
  ASSUME Placed, NEW ms \in Seq(Ids), NEW gone, NEW target, NEW r \in SUBSET (Windows \X Windows),
         gone \subseteq Rng(models), Rng(ms) = Rng(models) \ gone, target \in Rng(ms),
         Elems(r) = {w \in Windows : wid[w] \in gone},
         DoRemoveModel(ms, gone, target, r)
  PROVE  Places(wid', ms) /\ Rows(rows', wid')
<1> DEFINE p == [w \in Windows |-> IF w \in Elems(r) THEN target ELSE wid[w]]
<1>0. /\ models \in Seq(Ids) /\ DOMAIN models = 1..Len(models) /\ DOMAIN ms = 1..Len(ms)
      /\ Rng(models) \subseteq Ids /\ Rng(ms) \subseteq Ids
      /\ target \in Ids /\ target \notin gone /\ Ids \subseteq Keys
  BY DEF Placed, ListInv, Rng, Keys
<1>2. /\ wid' = p
      /\ rows' = [k \in Keys |-> IF k \in gone THEN {}
                                 ELSE IF k = target THEN Stack(r, rows[k]) ELSE rows[k]]
  BY DEF DoRemoveModel
<1>3. Places(p, ms)
  <2>1. \A w \in Windows : p[w] \in Rng(ms) \cup {All, Out}
    BY <1>0 DEF Placed, Places
  <2>2. p \in [Windows -> Keys \cup {Out}]
    BY <1>0 DEF Placed, Places
  <2> QED BY <2>1, <2>2 DEF Places
<1>4. Rows(rows', p)
  <2>1. rows' \in [Keys -> SUBSET (Windows \X Windows)]
    <3>1. ASSUME NEW k \in Keys PROVE Stack(r, rows[k]) \in SUBSET (Windows \X Windows)
      <4>1. rows[k] \in SUBSET (Windows \X Windows) BY DEF Placed, Rows
      <4> QED BY <4>1 DEF Stack, Drop, Elems
    <3> QED BY <1>2, <3>1 DEF Placed, Rows
  <2>2. ASSUME NEW k \in Keys PROVE Elems(rows'[k]) = {w \in Windows : p[w] = k}
    <3>0. Elems(rows[k]) = {w \in Windows : wid[w] = k} BY DEF Placed, Rows
    <3>1. CASE k \in gone
      <4>1. Elems(rows'[k]) = {} BY <1>2, <3>1 DEF Elems
      <4>2. \A w \in Windows : p[w] # k BY <1>0, <3>1
      <4> QED BY <4>1, <4>2
    <3>2. CASE k = target
      <4>1. rows'[k] = Stack(r, rows[k]) BY <1>0, <1>2, <3>2
      <4>2. Elems(rows'[k]) = Elems(r) \cup Elems(rows[k]) BY <4>1, ElemsStack
      <4>3. {w \in Windows : p[w] = k} = Elems(r) \cup {w \in Windows : wid[w] = k}
        BY <3>2
      <4> QED BY <3>0, <4>2, <4>3
    <3>3. CASE k # target /\ k \notin gone
      <4>1. rows'[k] = rows[k] BY <1>2, <3>3
      <4>2. {w \in Windows : p[w] = k} = {w \in Windows : wid[w] = k} BY <3>3
      <4> QED BY <3>0, <4>1, <4>2
    <3> QED BY <3>1, <3>2, <3>3
  <2> QED BY <2>1, <2>2 DEF Rows
<1> QED BY <1>2, <1>3, <1>4

\* doRemoveModel, for any workspaces gone whose windows r go to target.
LEMMA RemovedKeeps ==
  ASSUME IInv, NEW ms \in Seq(Ids), NEW gone, NEW target, NEW r \in SUBSET (Windows \X Windows),
         Once(ms), gone \subseteq Rng(models), Rng(ms) = Rng(models) \ gone, target \in Rng(ms),
         Elems(r) = {w \in Windows : wid[w] \in gone},
         DoRemoveModel(ms, gone, target, r), UNCHANGED <<nextId, capable>>, cur' \in 1..Len(ms)
  PROVE  /\ IInv'
         /\ activated' \notin {activated, None}
              => activated' \in capable /\ ShowOn(wid'[activated'], NowCurrent(gone, target))
<1> DEFINE p   == [w \in Windows |-> IF w \in Elems(r) THEN target ELSE wid[w]]
           h   == [k \in Keys |-> IF k \in gone THEN {}
                                  ELSE IF k = target THEN Stack(Keep(r, capable), hist[k])
                                  ELSE hist[k]]
           now == NowCurrent(gone, target)
           A   == LatestActivation(now, activated, capable, p, ms, h)
<1>0. /\ models \in Seq(Ids) /\ DOMAIN models = 1..Len(models) /\ DOMAIN ms = 1..Len(ms)
      /\ Rng(models) \subseteq Ids /\ Rng(ms) \subseteq Ids
      /\ target \in Ids /\ target \notin gone /\ All \notin Ids /\ Out \notin Ids
      /\ Ids \subseteq Keys /\ capable \in SUBSET Windows
  BY WorkspacesAssumption DEF IInv, ListInv, Rng, Keys
<1>1. now \in Rng(ms) /\ now \in Keys
  BY <1>0, NowListed DEF IInv, Placed
<1>2. /\ models' = ms /\ wid' = p /\ hist' = A.h /\ activated' = A.a
      /\ rows' = [k \in Keys |-> IF k \in gone THEN {}
                                 ELSE IF k = target THEN Stack(r, rows[k]) ELSE rows[k]]
  BY DEF DoRemoveModel, Becomes, NowCurrent
<1>3. Places(p, ms) /\ Rows(rows', p) BY <1>2, RemovedPlaces DEF IInv, Placed
<1>4. h \in [Keys -> SUBSET (Windows \X Windows)]
  <2>1. ASSUME NEW k \in Keys PROVE Stack(Keep(r, capable), hist[k]) \in SUBSET (Windows \X Windows)
    <3>1. Keep(r, capable) \in SUBSET (Windows \X Windows) BY DEF Keep
    <3>2. hist[k] \in SUBSET (Windows \X Windows) BY DEF IInv, Live
    <3> QED BY <3>1, <3>2 DEF Stack, Drop, Elems
  <2> QED BY <2>1 DEF IInv, Live
<1>5. ASSUME NEW k \in Keys, NEW w \in Elems(h[k])
      PROVE  w \in capable /\ ShowOn(p[w], k) /\ k \notin gone
  <2>0. w \in Windows BY DEF Elems
  <2>1. k \notin gone BY DEF Elems
  <2>2. CASE k = target
    <3>1. h[k] = Stack(Keep(r, capable), hist[k]) BY <2>1, <2>2
    <3>2. w \in (Elems(r) \cap capable) \cup Elems(hist[k])
      BY <3>1, ElemsStack, ElemsKeep
    <3>3. CASE w \in Elems(r) BY <2>0, <2>1, <2>2, <3>2, <3>3 DEF ShowOn, IInv, Live
    <3>4. CASE w \notin Elems(r) BY <2>0, <2>1, <3>2, <3>4 DEF IInv, Live
    <3> QED BY <3>3, <3>4
  <2>3. CASE k # target
    <3>1. w \in Elems(hist[k]) BY <2>1, <2>3
    <3>2. w \in capable /\ ShowOn(wid[w], k) BY <3>1 DEF IInv, Live
    <3>3. w \notin Elems(r) BY <1>0, <2>1, <3>2 DEF ShowOn
    <3> QED BY <2>0, <2>1, <3>2, <3>3
  <2> QED BY <2>2, <2>3
<1>6. ASSUME NEW k \in Ids \ Rng(ms) PROVE Elems(h[k]) = {}
  <2>1. k \in Keys /\ k # target BY <1>0
  <2>2. CASE k \in gone BY <2>1, <2>2 DEF Elems
  <2>3. CASE k \notin gone
    <3>1. h[k] = hist[k] /\ k \in Ids \ Rng(models) BY <2>1, <2>3
    <3> QED BY <3>1 DEF IInv, Live
  <2> QED BY <2>2, <2>3
<1> HIDE DEF p, h, now, A
<1>8. Live(h, capable, p, ms) BY <1>4, <1>5, <1>6 DEF Live
<1>9. /\ Live(A.h, capable, p, ms)
      /\ A.a \notin {activated, None} => A.a \in capable /\ ShowOn(p[A.a], now)
  BY <1>0, <1>1, <1>3, <1>8, LatestActivationLive DEF A
<1>10. ListInv'
  <2>1. \A k \in 1..Len(ms) : ms[k] < nextId
    <3>1. \A x \in Rng(models) : x < nextId BY DEF IInv, ListInv, Rng
    <3>2. \A k \in 1..Len(ms) : ms[k] \in Rng(ms) BY <1>0 DEF Rng
    <3> QED BY <3>1, <3>2
  <2> QED BY <1>2, <2>1 DEF IInv, ListInv
<1>11. IInv' BY <1>0, <1>2, <1>3, <1>9, <1>10 DEF IInv
<1> QED BY <1>2, <1>9, <1>11 DEF now

\* The display after doRemoveModel shows the workspace that is current then, and
\* a following setCurrentIndex the one it is asked for.
LEMMA RemovedViewCur ==
  ASSUME NEW ms, NEW gone, NEW target, NEW r, NEW rs, NEW i
  PROVE  /\ RemovedView(ms, gone, target, r).cur = IndexOf(ms, NowCurrent(gone, target))
         /\ SetCurrentIndex(RemovedView(ms, gone, target, r), ms, rs, i).cur = i
<1>1. RemovedView(ms, gone, target, r).cur = IndexOf(ms, NowCurrent(gone, target))
  BY DEF RemovedView, Reveal, View, NowCurrent
<1>2. SetCurrentIndex(RemovedView(ms, gone, target, r), ms, rs, i).cur = i
  BY DEF RemovedView, Reveal, View, SetCurrentIndex
<1> QED BY <1>1, <1>2

\* Workspace::removeModel.
LEMMA RemoveModelKeeps ==
  ASSUME IInv, NEW i \in DOMAIN models, RemoveModel(i)
  PROVE  IInv' /\ NewIsShown
<1> DEFINE ms     == Without(i)
           gone   == {models[i]}
           target == Neighbour(i)
           r      == rows[models[i]]
<1>1. /\ models \in Seq(Ids) /\ i \in 1..Len(models) /\ Once(models)
      /\ DOMAIN models = 1..Len(models) /\ Len(models) \in Nat /\ Len(models) > 1
      /\ models[i] \in Keys
  BY DEF IInv, ListInv, RemoveModel, Keys
<1>2. ms = Cut(models, i) BY DEF Without, Cut
<1>3. ms \in Seq(Ids) /\ Once(ms) /\ Rng(ms) = Rng(models) \ gone
  BY <1>1, <1>2, CutRng
<1>4. target \in Rng(ms)
  <2> DEFINE j == IF i > 1 THEN i - 1 ELSE 2
  <2>1. j \in 1..Len(models) /\ j # i BY <1>1
  <2> HIDE DEF j
  <2>2. models[j] # models[i] /\ models[j] \in Rng(models) BY <1>1, <2>1 DEF Once, Rng
  <2> QED BY <1>3, <2>2 DEF Neighbour, j
<1>5. /\ DoRemoveModel(ms, gone, target, r)
      /\ Sees(RemovedView(ms, gone, target, r))
      /\ UNCHANGED <<nextId, capable>>
  BY DEF RemoveModel
<1>6. gone \subseteq Rng(models) /\ r \in SUBSET (Windows \X Windows)
      /\ Elems(r) = {w \in Windows : wid[w] \in gone}
  <2>1. Elems(r) = {w \in Windows : wid[w] = models[i]} BY <1>1 DEF IInv, Rows
  <2> QED BY <1>1, <2>1 DEF IInv, Rows, Rng
<1> HIDE DEF ms, gone, target, r
<1>7. cur' = IndexOf(ms, NowCurrent(gone, target)) BY <1>5, RemovedViewCur DEF Sees
<1>8. /\ cur' \in DOMAIN ms /\ ms[cur'] = NowCurrent(gone, target)
  BY <1>3, <1>4, <1>7, NowListed, IndexOfRng DEF IInv, Placed
<1>9. cur' \in 1..Len(ms) BY <1>3, <1>8
<1>10. /\ IInv'
       /\ activated' \notin {activated, None}
            => activated' \in capable /\ ShowOn(wid'[activated'], NowCurrent(gone, target))
  BY <1>3, <1>4, <1>5, <1>6, <1>9, RemovedKeeps
<1>11. models' = ms BY <1>5 DEF DoRemoveModel
<1> QED BY <1>5, <1>8, <1>10, <1>11 DEF NewIsShown

\* The windows of the workspaces after the first m.
LEMMA TailRowsElems ==
  ASSUME Placed, NEW m \in 1..Len(models)
  PROVE  /\ TailRows(m) \in SUBSET (Windows \X Windows)
         /\ Elems(TailRows(m)) =
              {w \in Windows : wid[w] \in {models[i] : i \in (m + 1)..Len(models)}}
<1> DEFINE tail == (m + 1)..Len(models)
           one  == UNION {rows[models[i]] : i \in tail}
           two  == UNION {Elems(rows[models[p[1]]]) \X Elems(rows[models[p[2]]]) :
                            p \in {q \in tail \X tail : q[1] > q[2]}}
<1>1. TailRows(m) = one \cup two BY Zenon DEF TailRows
<1>2. ASSUME NEW i \in tail
      PROVE  /\ models[i] \in Keys
             /\ rows[models[i]] \in SUBSET (Windows \X Windows)
             /\ Elems(rows[models[i]]) = {w \in Windows : wid[w] = models[i]}
  <2>1. i \in 1..Len(models) /\ models \in Seq(Ids) BY DEF Placed, ListInv
  <2>2. models[i] \in Keys BY <2>1 DEF Keys
  <2> QED BY <2>2 DEF Placed, Rows
<1> HIDE DEF tail
<1>3. one \subseteq Windows \X Windows BY <1>2
<1>4. two \subseteq Windows \X Windows BY DEF Elems
<1>5. ASSUME NEW w \in Windows, <<w, w>> \in two PROVE <<w, w>> \in one
  <2>1. PICK p \in tail \X tail : <<w, w>> \in Elems(rows[models[p[1]]]) \X Elems(rows[models[p[2]]])
    BY <1>5
  <2>2. <<w, w>> \in rows[models[p[1]]] /\ p[1] \in tail BY <2>1 DEF Elems
  <2> QED BY <2>2
<1>6. ASSUME NEW w \in Windows
      PROVE  <<w, w>> \in one <=> wid[w] \in {models[i] : i \in tail}
  <2>1. \A i \in tail : <<w, w>> \in rows[models[i]] <=> wid[w] = models[i]
    BY <1>2 DEF Elems
  <2> QED BY <2>1
<1> HIDE DEF one, two
<1>7. Elems(TailRows(m)) = {w \in Windows : wid[w] \in {models[i] : i \in tail}}
  BY <1>1, <1>5, <1>6 DEF Elems
<1> QED BY <1>1, <1>3, <1>4, <1>7 DEF tail

\* Workspace::reloadFromConfig.
LEMMA ReloadKeeps ==
  ASSUME IInv, NEW n \in 0..MaxModels, NEW c \in 0..MaxModels, ReloadFromConfig(n, c)
  PROVE  IInv'
<1> DEFINE m    == IF n < 1 THEN 1 ELSE n
           to   == IF c < m THEN c + 1 ELSE m
           ms   == SubSeq(models, 1, m)
           gone == {models[i] : i \in (m + 1)..Len(models)}
           v    == [View EXCEPT !.idx = c]
<1>1. /\ models \in Seq(Ids) /\ Once(models) /\ Len(models) \in Nat
      /\ DOMAIN models = 1..Len(models)
  BY DEF IInv, ListInv
<1>2. m \in Nat /\ m >= 1 /\ to \in 1..m BY WorkspacesAssumption
<1>3. UNCHANGED capable BY DEF ReloadFromConfig
<1>4. CASE /\ m >= Len(models) /\ DoCreateModel(m - Len(models))
           /\ Sees(SetCurrentIndex(v, models', rows, to))
           /\ UNCHANGED <<rows, wid, activated>>
  <2>1. cur' = to BY <1>4, SetCurrentIndexCur DEF Sees, View
  <2>2. m - Len(models) \in Nat BY <1>1, <1>2, <1>4
  <2> HIDE DEF m, to
  <2>3. Len(models') = Len(models) + (m - Len(models)) BY <1>4, <2>2, CreatedList DEF IInv, Placed
  <2>4. cur' \in 1..Len(models') BY <1>1, <1>2, <2>1, <2>3
  <2> QED BY <1>3, <1>4, <2>2, <2>4, CreatedKeeps
<1>5. CASE /\ m < Len(models)
           /\ DoRemoveModel(ms, gone, models[m], TailRows(m))
           /\ Sees(SetCurrentIndex(RemovedView(ms, gone, models[m], TailRows(m)), ms, rows', to))
           /\ UNCHANGED nextId
  <2>1. cur' = to
    <3> HIDE DEF ms, gone, to, m
    <3> QED BY <1>5, RemovedViewCur DEF Sees
  <2>2. m \in 1..Len(models) BY <1>1, <1>2, <1>5
  <2> HIDE DEF m
  <2>3. /\ ms \in Seq(Ids) /\ Len(ms) = m /\ Once(ms)
        /\ Rng(ms) = Rng(models) \ gone /\ models[m] \in Rng(ms)
    BY <1>1, <2>2, PrefixRng
  <2>4. gone \subseteq Rng(models) BY <1>1, <1>2 DEF Rng
  <2>5. /\ TailRows(m) \in SUBSET (Windows \X Windows)
        /\ Elems(TailRows(m)) = {w \in Windows : wid[w] \in gone}
    BY <2>2, TailRowsElems DEF IInv, Placed
  <2>6. cur' \in 1..Len(ms) BY <1>2, <2>1, <2>3
  <2> HIDE DEF ms, gone
  <2> QED BY <1>3, <1>5, <2>3, <2>4, <2>5, <2>6, RemovedKeeps
<1>6. QED BY <1>4, <1>5 DEF ReloadFromConfig

-----------------------------------------------------------------------------
\* The initial state satisfies the inductive invariant.
LEMMA InitIInv == Init => IInv
<1> SUFFICES ASSUME Init PROVE IInv OBVIOUS
<1>1. PICK n \in 1..MaxModels :
        /\ models = [i \in 1..n |-> i - 1] /\ nextId = n /\ cur \in 1..n
        /\ n = cfgNum
  BY WorkspacesAssumption DEF Init
<1>2. Elems({}) = {} BY DEF Elems
<1>3. wid = [w \in Windows |-> Out] /\ Out \notin Keys BY WorkspacesAssumption DEF Init, Keys
<1>4. Places(wid, models) BY <1>3 DEF Places
<1>5. Rows(rows, wid) BY <1>2, <1>3 DEF Init, Rows
<1>6. Live(hist, capable, wid, models)
  <2>1. hist = [k \in Keys |-> {}] BY DEF Init
  <2> QED BY <1>2, <2>1 DEF Live, Keys
<1>7. ListInv
  <2>1. models \in Seq(Ids) /\ Len(models) = n /\ \A i \in 1..n : models[i] = i - 1
    <3>1. \A i \in 1..n : i - 1 \in Ids BY WorkspacesAssumption DEF Ids
    <3> QED BY <1>1, <3>1
  <2> QED BY <1>1, <2>1, WorkspacesAssumption DEF ListInv, Once
<1> QED BY <1>4, <1>5, <1>6, <1>7 DEF IInv, Init

\* Every step keeps the invariant and, reloadFromConfig aside, activates only a
\* window that is shown.
LEMMA NextKeeps ==
  ASSUME IInv, ~Unstick, [Next]_vars
  PROVE  IInv' /\ (Reloads \/ NewIsShown)
<1>1. ASSUME NEW i \in DOMAIN models, SwitchTo(i) PROVE IInv' /\ NewIsShown
  BY <1>1, SwitchToKeeps
<1>2. ASSUME NEW i \in DOMAIN models, RemoveModel(i) PROVE IInv' /\ NewIsShown
  BY <1>2, RemoveModelKeeps
<1>3. ASSUME NEW i \in DOMAIN models, NEW j \in DOMAIN models, MoveModelTo(i, j)
      PROVE  IInv' /\ NewIsShown
  BY <1>3, MoveModelToKeeps
<1>4. ASSUME Reloads PROVE IInv'
  BY <1>4, ReloadKeeps DEF Reloads
<1>5. ASSUME CreateModel PROVE IInv' /\ NewIsShown
  BY <1>5, CreateModelKeeps
<1>6. ASSUME Deactivate PROVE IInv' /\ NewIsShown
  BY <1>6 DEF Deactivate, list, placed, IInv, ListInv, Places, Rows, Live, NewIsShown
<1>7. ASSUME ClearActived PROVE IInv' /\ NewIsShown
  <2>1. /\ UNCHANGED <<models, nextId, cur, rows, wid, capable>> /\ activated' = None
        /\ hist' = [k \in Keys |-> {}]
    BY <1>7 DEF ClearActived, list, placed
  <2>2. Live(hist', capable, wid, models) BY <2>1 DEF Live, Elems, Keys
  <2>3. cur' \in 1..Len(models) BY <2>1 DEF IInv, ListInv
  <2> QED BY <2>1, <2>2, <2>3, SameListIInv DEF NewIsShown
<1>8. ASSUME EnterMultitaskview PROVE IInv' /\ NewIsShown
  BY <1>8 DEF EnterMultitaskview, list, placed, IInv, ListInv, Places, Rows, Live, NewIsShown
<1>9. ASSUME NEW w \in Windows \cup {None}, ExitMultitaskview(w) PROVE IInv' /\ NewIsShown
  <2>1. CASE w = None
    <3>1. UNCHANGED <<list, placed, hist, capable, activated>>
      BY <1>9, <2>1 DEF ExitMultitaskview
    <3> QED BY <3>1 DEF list, placed, IInv, ListInv, Places, Rows, Live, NewIsShown
  <2>2. CASE w # None
    <3>1. w \in Windows /\ wid[w] # Out /\ ForceActivate(w)
      BY <1>9, <2>2 DEF ExitMultitaskview
    <3> QED BY <3>1, ForceActivateKeeps
  <2> QED BY <2>1, <2>2
<1>10. ASSUME NEW w \in Windows, NEW k \in Keys, AddSurface(w, k) PROVE IInv' /\ NewIsShown
  BY <1>10, AddSurfaceKeeps
<1>11. ASSUME NEW w \in Windows, NEW k \in Keys, NEW menu \in BOOLEAN, MoveSurfaceTo(w, k, menu)
       PROVE  IInv' /\ NewIsShown
  BY <1>11, MoveSurfaceToKeeps
<1>12. ASSUME NEW w \in Windows, NEW focused \in BOOLEAN, InactivationRequested(w, focused)
       PROVE  IInv' /\ NewIsShown
  BY <1>12, InactivationRequestedKeeps
<1>13. ASSUME NEW w \in Windows, RequestWindow(w) PROVE IInv' /\ NewIsShown
  BY <1>13, ForceActivateKeeps DEF RequestWindow
<1>14. ASSUME NEW w \in Windows, ActivationRequested(w) PROVE IInv' /\ NewIsShown
  BY <1>14, ActivationRequestedKeeps
<1>15. ASSUME NEW w \in Windows, RemoveSurface(w) PROVE IInv' /\ NewIsShown
  BY <1>15, RemoveSurfaceKeeps
<1>16. ASSUME UNCHANGED vars PROVE IInv' /\ NewIsShown
  BY <1>16 DEF vars, list, placed, IInv, ListInv, Places, Rows, Live, NewIsShown
<1>17. ASSUME NEW up \in BOOLEAN, ShowTask(up) PROVE IInv' /\ NewIsShown
  BY <1>17 DEF ShowTask, list, IInv, ListInv, Places, Rows, Live, NewIsShown
<1>18. ASSUME NEW w \in Windows, StartPreviewing(w) PROVE IInv' /\ NewIsShown
  BY <1>18 DEF StartPreviewing, list, IInv, ListInv, Places, Rows, Live, NewIsShown
<1>19. ASSUME StopPreviewing PROVE IInv' /\ NewIsShown
  BY <1>19 DEF StopPreviewing, list, IInv, ListInv, Places, Rows, Live, NewIsShown
<1> QED
  BY <1>1, <1>2, <1>3, <1>4, <1>5, <1>6, <1>7, <1>8, <1>9, <1>10, <1>11, <1>12,
     <1>13, <1>14, <1>15, <1>16, <1>17, <1>18, <1>19 DEF Next

\* HistoryHere for any windows and workspaces: what latestActiveSurface returns
\* is always a live window that can be activated on the workspace.
THEOREM HistoriesAreLive ==
  ASSUME ~Unstick
  PROVE  Spec => []HistoryHere
<1>1. IInv => HistoryHere BY DEF IInv, Live, HistoryHere
<1>2. IInv /\ [Next]_vars => IInv' BY NextKeeps
<1> QED BY InitIInv, <1>1, <1>2, PTL DEF Spec

\* ActivatedIsShown for any windows and workspaces: the assertions of
\* setActivatedSurface hold.
THEOREM ActivatesOnlyShown ==
  ASSUME ~Unstick
  PROVE  Spec => ActivatedIsShown
<1>1. IInv /\ [Next]_vars => IInv' BY NextKeeps
<1>2. IInv /\ [Next]_vars =>
        [(activated' \notin {activated, None} /\ ~Reloads)
           => (activated' \in capable' /\ ShowOn(wid'[activated'], models'[cur']))]_vars
  BY NextKeeps DEF NewIsShown
<1> QED BY InitIInv, <1>1, <1>2, PTL DEF Spec, ActivatedIsShown
=============================================================================
