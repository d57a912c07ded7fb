----------------------- MODULE WorkspacesDisplayProofs -----------------------
(***************************************************************************)
(* Proofs about what the workspaces show and what the config keeps of      *)
(* them, for any windows and workspaces, also when windows are moved away  *)
(* from all workspaces.                                                    *)
(***************************************************************************)
EXTENDS WorkspacesProofs

\* The windows at places p that are hidden while workspace k is the current one.
Off(p, k) == {w \in Windows : p[w] \notin {k, All, Out}}

\* Of the windows T, those in h are the ones to hide.
Right(h, p, k, T) == h \subseteq Windows /\ \A w \in T : (w \in h) <=> (w \in Off(p, k))

\* A display; v shows workspace k alone, at index i, of the windows T those
\* elsewhere are hidden, and the config holds index c.
Display(i, m, h, c)     == [cur |-> i, vis |-> m, hid |-> h, idx |-> c]
Shows(v, i, k, p, c, T) == \E h : v = Display(i, {k}, h, c) /\ Right(h, p, k, T)

\* The settled windows are shown as the current workspace asks.
Calm == {w \in Windows : Settled(w)}
Seen == Shows(View, cur, Current, wid, cur - 1, Calm)

\* The transparent workspaces and the preview.
Looks ==
  /\ dim \subseteq Ids /\ links \subseteq Windows \X Ids
  /\ peek \in Windows \cup {None} /\ strayed \subseteq Windows
  /\ peek # None => wid[peek] # Out

\* The histories and the activation.
Typed ==
  /\ hist \in [Keys -> SUBSET (Windows \X Windows)]
  /\ capable \subseteq Windows
  /\ activated \in Windows \cup {None}
  /\ browsing \in BOOLEAN

DInv ==
  /\ Placed
  /\ Seen /\ Looks
  /\ cfgNum = Len(models)
  /\ Typed

-----------------------------------------------------------------------------
(* The histories stay typed *)

\* What an activation returns.
Returned(r) == /\ r.h \in [Keys -> SUBSET (Windows \X Windows)]
               /\ r.a \in Windows \cup {None}

\* pushActivedSurface and removeActivedSurface.
LEMMA ActivedTyped ==
  ASSUME NEW h \in [Keys -> SUBSET (Windows \X Windows)], NEW ms, NEW k, NEW w \in Windows
  PROVE  /\ PushActived(h, ms, k, w) \in [Keys -> SUBSET (Windows \X Windows)]
         /\ RemoveActived(h, ms, k, w) \in [Keys -> SUBSET (Windows \X Windows)]
<1>1. \A m \in Keys : /\ Push(h[m], w) \in SUBSET (Windows \X Windows)
                      /\ Drop(h[m], {w}) \in SUBSET (Windows \X Windows)
  BY RecencyType
<1> QED BY <1>1 DEF PushActived, RemoveActived

\* activateSurface.
LEMMA ActivationTyped ==
  ASSUME NEW h \in [Keys -> SUBSET (Windows \X Windows)], NEW ms, NEW p, NEW c,
         NEW w \in Windows \cup {None}, NEW was \in Windows \cup {None}, c \subseteq Windows
  PROVE  Returned(Activation(w, was, c, p, ms, h))
<1> DEFINE r == Activation(w, was, c, p, ms, h)
<1>1. r.a = IF w = None \/ w \in c THEN w ELSE was BY DEF Activation
<1>2. r.h = IF w \in c /\ w # was THEN PushActived(h, ms, p[w], w) ELSE h BY DEF Activation
<1> HIDE DEF r
<1>3. r.h \in [Keys -> SUBSET (Windows \X Windows)] BY <1>2, ActivedTyped
<1>4. Returned(r) BY <1>1, <1>3 DEF Returned
<1> QED BY <1>4 DEF r

\* The end of a switch.
LEMMA LatestActivationTyped ==
  ASSUME NEW h \in [Keys -> SUBSET (Windows \X Windows)], NEW ms, NEW p, NEW c, NEW k,
         NEW was \in Windows \cup {None}, c \subseteq Windows
  PROVE  Returned(LatestActivation(k, was, c, p, ms, h))
<1>1. Latest(h[k]) \in Windows \cup {None} BY LatestElem DEF Elems
<1>2. Returned(Activation(Latest(h[k]), was, c, p, ms, h)) BY <1>1, ActivationTyped
<1> QED BY <1>2 DEF LatestActivation, Returned

\* activationRequested.
LEMMA RequestedTyped ==
  ASSUME Typed, NEW w \in Windows, NEW c, c = capable \cup {w}
  PROVE  Returned(Requested(w, c))
<1>1. c \subseteq Windows BY DEF Typed
<1>2. Returned(Activation(w, activated, c, wid, models, hist))
  BY <1>1, ActivationTyped DEF Typed
<1>3. PushActived(hist, models, wid[w], w) \in [Keys -> SUBSET (Windows \X Windows)]
  BY ActivedTyped DEF Typed
<1> QED BY <1>2, <1>3 DEF Requested, Returned, Typed

-----------------------------------------------------------------------------
(* The display *)

\* A display with other hidden windows, and with another workspace shown as well.
Veiled(v, h)    == [v EXCEPT !.hid = h]
Turned(v, k, h) == [v EXCEPT !.vis = {k}, !.hid = h]

LEMMA VeiledFields ==
  ASSUME NEW i, NEW m, NEW g, NEW c, NEW h
  PROVE  Veiled(Display(i, m, g, c), h) = Display(i, m, h, c)
BY DEF Veiled, Display

LEMMA TurnedFields ==
  ASSUME NEW i, NEW m, NEW g, NEW c, NEW k, NEW h
  PROVE  Turned(Display(i, m, g, c), k, h) = Display(i, {k}, h, c)
<1> DEFINE v == Display(i, m, g, c)
<1>1. [v EXCEPT !.vis = {k}] = Display(i, {k}, g, c) BY DEF Display
<1>2. [v EXCEPT !.vis = {k}, !.hid = h] = [[v EXCEPT !.vis = {k}] EXCEPT !.hid = h] OBVIOUS
<1>3. [Display(i, {k}, g, c) EXCEPT !.hid = h] = Display(i, {k}, h, c) BY DEF Display
<1> QED BY <1>1, <1>2, <1>3 DEF Turned

\* What Seen says of the variables.
LEMMA SeenFields ==
  Seen <=> visible = {Current} /\ Right(hidden, wid, Current, Calm) /\ cfgCur = cur - 1
<1>1. ASSUME NEW h, View = Display(cur, {Current}, h, cur - 1)
      PROVE  visible = {Current} /\ hidden = h /\ cfgCur = cur - 1
  BY <1>1 DEF View, Display
<1>2. ASSUME Seen
      PROVE  visible = {Current} /\ Right(hidden, wid, Current, Calm) /\ cfgCur = cur - 1
  BY <1>1, <1>2 DEF Seen, Shows
<1>3. ASSUME visible = {Current}, Right(hidden, wid, Current, Calm), cfgCur = cur - 1
      PROVE  Seen
  <2>1. View = Display(cur, {Current}, hidden, cur - 1) BY <1>3 DEF View, Display
  <2> QED BY <1>3, <2>1 DEF Seen, Shows
<1> QED BY <1>2, <1>3

\* The same of a step.
LEMMA SeenNext ==
  ASSUME visible' = {Current'}, Right(hidden, wid, Current, Calm)', cfgCur' = cur' - 1
  PROVE  Seen'
<1>1. View' = Display(cur', {Current'}, hidden', cur' - 1) BY DEF View, Display
<1> QED BY <1>1 DEF Seen, Shows, Right, Display

\* setVisible shows workspace k in the place of m.
LEMMA RevealShows ==
  ASSUME NEW rs, NEW p, Rows(rs, p), NEW k \in Ids, NEW m \in Ids, NEW i, NEW c,
         NEW T \in SUBSET Windows, NEW v, Shows(v, i, m, p, c, T)
  PROVE  Shows(Reveal(v, rs, k), i, k, p, c, T)
<1> PICK h : v = Display(i, {m}, h, c) /\ Right(h, p, m, T) BY DEF Shows
<1> DEFINE H == (h \ UNION {Elems(rs[n]) : n \in {k} \ {m}})
                   \cup UNION {Elems(rs[n]) : n \in {m} \ {k}}
<1>1. Reveal(v, rs, k) = Display(i, {k}, H, c)
  <2>1. v.hid = h /\ v.vis = {m} BY DEF Display
  <2>2. Reveal(v, rs, k) = Turned(v, k, H) BY <2>1 DEF Reveal, Turned
  <2> HIDE DEF H
  <2>3. Turned(Display(i, {m}, h, c), k, H) = Display(i, {k}, H, c) BY TurnedFields
  <2> QED BY <2>2, <2>3
<1>2. Right(H, p, k, T)
  <2>1. CASE k = m
    <3>1. {k} \ {m} = {} /\ {m} \ {k} = {} BY <2>1
    <3>2. H = h BY <3>1
    <3> HIDE DEF H
    <3> QED BY <2>1, <3>2
  <2>2. CASE k # m
    <3>1. {k} \ {m} = {k} /\ {m} \ {k} = {m} BY <2>2
    <3>2. /\ UNION {Elems(rs[n]) : n \in {k}} = Elems(rs[k])
          /\ UNION {Elems(rs[n]) : n \in {m}} = Elems(rs[m])
      OBVIOUS
    <3>3. H = (h \ Elems(rs[k])) \cup Elems(rs[m]) BY <3>1, <3>2
    <3>4. /\ Elems(rs[k]) = {w \in Windows : p[w] = k}
          /\ Elems(rs[m]) = {w \in Windows : p[w] = m}
      BY DEF Rows, Keys
    <3>5. m \notin {All, Out} BY WorkspacesAssumption
    <3> HIDE DEF H
    <3> QED BY <2>2, <3>3, <3>4, <3>5 DEF Off, Right
  <2> QED BY <2>1, <2>2
<1> HIDE DEF H
<1> QED BY <1>1, <1>2 DEF Shows

\* The same workspace is shown, at another index.
Moved(v, i, c) == [v EXCEPT !.cur = i, !.idx = c]

LEMMA MovedShows ==
  ASSUME NEW i, NEW j, NEW k, NEW p, NEW c, NEW d, NEW T, NEW v, Shows(v, j, k, p, c, T)
  PROVE  Shows(Moved(v, i, d), i, k, p, d, T)
<1> PICK h : v = Display(j, {k}, h, c) /\ Right(h, p, k, T) BY DEF Shows
<1>1. [v EXCEPT !.cur = i] = Display(i, {k}, h, c) BY DEF Display
<1>2. [v EXCEPT !.cur = i, !.idx = d] = [[v EXCEPT !.cur = i] EXCEPT !.idx = d] OBVIOUS
<1>3. [Display(i, {k}, h, c) EXCEPT !.idx = d] = Display(i, {k}, h, d) BY DEF Display
<1>4. Moved(v, i, d) = Display(i, {k}, h, d) BY <1>1, <1>2, <1>3 DEF Moved
<1> QED BY <1>4 DEF Shows

\* setCurrentIndex shows the workspace at index i in the place of the one at j.
LEMMA SetCurrentIndexShows ==
  ASSUME NEW ms \in Seq(Ids), NEW rs, NEW p, Rows(rs, p), NEW i \in 1..Len(ms),
         NEW j \in 1..Len(ms), NEW c \in Int, i = j => c = i - 1,
         NEW T \in SUBSET Windows, NEW v, Shows(v, j, ms[j], p, c, T)
  PROVE  Shows(SetCurrentIndex(v, ms, rs, i), i, ms[i], p, i - 1, T)
<1>0. v.cur = j BY DEF Shows, Display
<1>1. CASE i = j BY <1>0, <1>1 DEF SetCurrentIndex
<1>2. CASE i # j
  <2> PICK k \in Ids, m \in Ids : k = ms[i] /\ m = ms[j] OBVIOUS
  <2>1. Shows(Reveal(v, rs, k), j, k, p, c, T) BY RevealShows
  <2>2. SetCurrentIndex(v, ms, rs, i) = Moved(Reveal(v, rs, k), i, i - 1)
    BY <1>0, <1>2 DEF SetCurrentIndex, Moved
  <2>3. Shows(Moved(Reveal(v, rs, k), i, i - 1), i, k, p, i - 1, T) BY <2>1, MovedShows
  <2> QED BY <2>2, <2>3
<1> QED BY <1>1, <1>2

\* The display that a step has reached.
LEMMA SeesShown ==
  ASSUME NEW v, NEW k, NEW i, NEW p, NEW T, Sees(v), Shows(v, i, k, p, i - 1, T),
         models'[i] = k, wid' = p, Calm' \subseteq T
  PROVE  Seen' /\ cur' = i
<1> PICK h : v = Display(i, {k}, h, i - 1) /\ Right(h, p, k, T) BY DEF Shows
<1>1. cur' = i /\ visible' = {k} /\ hidden' = h /\ cfgCur' = i - 1
  BY DEF Sees, Display
<1>2. Current' = k BY <1>1 DEF Current
<1>3. Right(hidden, wid, Current, Calm)' BY <1>1, <1>2 DEF Right, Off
<1>4. Seen' BY <1>1, <1>2, <1>3, SeenNext
<1> QED BY <1>1, <1>4

\* The windows that stay where they are and the previews that go on.
LEMMA SameLooks ==
  ASSUME UNCHANGED <<wid, look>>
  PROVE  Calm' = Calm /\ (Looks => Looks')
BY DEF look, Calm, Settled, Looks

\* A step that leaves the display and the places alone.
LEMMA SameView ==
  ASSUME DInv, UNCHANGED <<list, placed, look, config>>, Typed'
  PROVE  DInv'
<1>1. Calm' = Calm /\ Looks' BY SameLooks DEF DInv, placed
<1>2. Seen'
  <2>1. UNCHANGED <<visible, hidden, wid, cur, cfgCur, models>> BY DEF list, placed, config
  <2>2. Current' = Current BY <2>1 DEF Current
  <2>3. Right(hidden, wid, Current, Calm)'
    BY <1>1, <2>1, <2>2, SeenFields DEF DInv, Right, Off
  <2> QED BY <2>1, <2>2, <2>3, SeenFields, SeenNext DEF DInv
<1> QED BY <1>1, <1>2 DEF DInv, Placed, ListInv, Places, Rows, list, placed, config

-----------------------------------------------------------------------------
(* The windows and the activation *)

\* Workspace::switchTo.
LEMMA SwitchToShows ==
  ASSUME DInv, NEW i \in DOMAIN models, SwitchTo(i)
  PROVE  DInv'
<1>1. /\ Sees(SetCurrentIndex(View, models, rows, i))
      /\ Becomes(LatestActivation(models[i], activated, capable, wid, models, hist))
      /\ UNCHANGED <<models, nextId, rows, wid, capable, browsing, look, cfgNum>>
  BY DEF SwitchTo
<1>2. /\ models \in Seq(Ids) /\ i \in 1..Len(models) /\ cur \in 1..Len(models)
      /\ Rows(rows, wid)
  BY DEF DInv, Placed, ListInv
<1>3. Shows(SetCurrentIndex(View, models, rows, i), i, models[i], wid, i - 1, Calm)
  <2>1. Calm \in SUBSET Windows BY DEF Calm
  <2>2. Shows(View, cur, models[cur], wid, cur - 1, Calm) BY DEF DInv, Seen, Current
  <2>3. cur - 1 \in Int /\ (i = cur => cur - 1 = i - 1) BY <1>2
  <2> QED BY ONLY <1>2, <2>1, <2>2, <2>3, SetCurrentIndexShows
<1>4. Seen' /\ cur' = i /\ Looks'
  <2>1. Calm' = Calm /\ Looks' BY <1>1, SameLooks DEF DInv
  <2> QED BY <1>1, <1>3, <2>1, SeesShown
<1>5. Typed'
  <2>1. Returned(LatestActivation(models[i], activated, capable, wid, models, hist))
    BY LatestActivationTyped DEF DInv, Typed
  <2> QED BY <1>1, <2>1 DEF DInv, Typed, Returned, Becomes
<1>6. Placed' BY <1>1, <1>2, <1>4 DEF DInv, Placed, ListInv, Places, Rows
<1> QED BY <1>1, <1>4, <1>5, <1>6 DEF DInv

\* FocusController::forceActivateSurface.
LEMMA ForceActivateShows ==
  ASSUME DInv, NEW w \in Windows, wid[w] # Out, ForceActivate(w), cfgNum' = cfgNum,
         browsing' \in BOOLEAN
  PROVE  DInv'
<1> DEFINE c   == capable \cup {w}
           r   == IF w \in capable THEN [a |-> activated, h |-> hist] ELSE Requested(w, c)
           far == ~ShowOn(wid[w], Current)
           i   == IF far THEN IndexOf(models, wid[w]) ELSE cur
           sw  == IF far THEN LatestActivation(wid[w], r.a, c, wid, models, r.h) ELSE r
<1>1. /\ capable' = c
      /\ Sees(SetCurrentIndex(View, models, rows, i))
      /\ Becomes(Activation(w, sw.a, c, wid, models, sw.h))
      /\ UNCHANGED <<models, nextId, rows, wid, look>>
  BY DEF ForceActivate
<1>2. /\ models \in Seq(Ids) /\ cur \in 1..Len(models) /\ DOMAIN models = 1..Len(models)
      /\ Rows(rows, wid) /\ c \subseteq Windows
  BY DEF DInv, Placed, ListInv, Typed
<1>3. i \in 1..Len(models)
  <2>1. CASE far
    <3>1. wid[w] \in Rng(models) BY <2>1 DEF DInv, Placed, Places, ShowOn
    <3> QED BY <1>2, <2>1, <3>1, IndexOfRng
  <2>2. CASE ~far BY <1>2, <2>2
  <2> QED BY <2>1, <2>2
<1>4. Returned(r)
  <2>1. Returned(Requested(w, c)) BY RequestedTyped DEF DInv
  <2>2. Returned([a |-> activated, h |-> hist]) BY DEF DInv, Typed, Returned
  <2> QED BY <2>1, <2>2
<1> HIDE DEF r
<1>5. Returned(sw)
  <2>1. Returned(LatestActivation(wid[w], r.a, c, wid, models, r.h))
    BY <1>2, <1>4, LatestActivationTyped DEF Returned
  <2> QED BY <1>4, <2>1
<1> HIDE DEF c, far, i, sw
<1>6. Returned(Activation(w, sw.a, c, wid, models, sw.h))
  BY <1>2, <1>5, ActivationTyped DEF Returned
<1>7. Typed' BY <1>1, <1>2, <1>6 DEF DInv, Typed, Returned, Becomes
<1>8. Shows(SetCurrentIndex(View, models, rows, i), i, models[i], wid, i - 1, Calm)
  <2> PICK x \in 1..Len(models) : x = i BY <1>3
  <2>0. Calm \in SUBSET Windows BY DEF Calm
  <2>1. Shows(SetCurrentIndex(View, models, rows, x), x, models[x], wid, x - 1, Calm)
    <3>1. Shows(View, cur, models[cur], wid, cur - 1, Calm) BY DEF DInv, Seen, Current
    <3>2. cur - 1 \in Int /\ (x = cur => cur - 1 = x - 1) BY <1>2
    <3> QED BY ONLY <1>2, <2>0, <3>1, <3>2, SetCurrentIndexShows
  <2> QED BY <2>1
<1>9. Seen' /\ cur' = i /\ Looks'
  <2>1. Calm' = Calm /\ Looks' BY <1>1, SameLooks DEF DInv
  <2> QED BY <1>1, <1>8, <2>1, SeesShown
<1>10. Placed' BY <1>1, <1>3, <1>9 DEF DInv, Placed, ListInv, Places, Rows
<1> QED BY <1>1, <1>7, <1>9, <1>10 DEF DInv

\* A window enters workspace k: it is hidden unless k is shown, or is not settled.
LEMMA HiddenInShows ==
  ASSUME DInv, NEW w \in Windows, NEW k \in Rng(models) \cup {All}, UNCHANGED <<list, config>>,
         wid' = [wid EXCEPT ![w] = k], hidden' = HiddenIn(k, {w}, hidden), Entering(k, {w})
  PROVE  Seen' /\ Looks'
<1>1. /\ k \in Ids \cup {All} /\ k # Out /\ Current \in Ids
      /\ wid \in [Windows -> Keys \cup {Out}] /\ Current' = Current
  BY WorkspacesAssumption DEF DInv, Placed, Places, ListInv, Rng, Current, list
<1>2. /\ visible = {Current} /\ Right(hidden, wid, Current, Calm) /\ cfgCur = cur - 1
      /\ UNCHANGED <<visible, cur, cfgCur>>
  BY SeenFields DEF DInv, list, config
<1>3. /\ links' = links \cup Linked(k, {w}) /\ strayed' = strayed \ {w}
      /\ dim' = dim /\ peek' = peek
  BY DEF Entering
<1>4. k \in dim => k \in Ids /\ <<w, k>> \in links' BY <1>3 DEF Linked, DInv, Looks
<1>5. ASSUME NEW x \in Windows, x # w PROVE x \in Calm' <=> x \in Calm
  <2>1. wid'[x] = wid[x] BY <1>1, <1>5
  <2>2. \A m : <<x, m>> \in links' <=> <<x, m>> \in links BY <1>3, <1>5 DEF Linked
  <2>3. x \in strayed' <=> x \in strayed BY <1>3, <1>5
  <2>4. <<x, wid'[x]>> \in links' <=> <<x, wid[x]>> \in links BY <2>1, <2>2
  <2>5. wid'[x] \in dim' <=> wid[x] \in dim BY <1>3, <2>1
  <2> QED BY <1>3, <1>5, <2>3, <2>4, <2>5 DEF Calm, Settled
<1>6. w \in Calm' => k \notin dim
  <2>1. wid'[w] = k BY <1>1
  <2> QED BY <1>3, <1>4, <2>1 DEF Calm, Settled
<1>7. \A x \in Windows : x # w => (x \in hidden' <=> x \in hidden)
  BY DEF HiddenIn, AsVisible
<1>8. k \notin dim => (w \in hidden' <=> k \notin {All, Current})
  BY <1>2 DEF HiddenIn, AsVisible
<1>9. hidden' \subseteq Windows BY <1>2 DEF HiddenIn, AsVisible, Right
<1>10. Right(hidden, wid, Current, Calm)'
  <2> SUFFICES ASSUME NEW x \in Calm' PROVE x \in hidden' <=> x \in Off(wid', Current)
    BY <1>1, <1>9 DEF Right, Off
  <2>0. x \in Windows BY DEF Calm
  <2>1. CASE x = w BY <1>1, <1>6, <1>8, <2>1 DEF Off
  <2>2. CASE x # w
    <3>1. x \in Calm BY <1>5, <2>0, <2>2
    <3>2. wid'[x] = wid[x] BY <1>1, <2>2
    <3> QED BY <1>2, <1>7, <2>0, <2>2, <3>1, <3>2 DEF Right, Off
  <2> QED BY <2>1, <2>2
<1>11. Seen' BY <1>1, <1>2, <1>10, SeenNext
<1>12. Looks'
  <2>1. links' \subseteq Windows \X Ids BY <1>3 DEF Linked, DInv, Looks
  <2>2. peek # None => wid'[peek] # Out BY <1>1 DEF DInv, Looks
  <2> QED BY <1>3, <2>1, <2>2 DEF DInv, Looks
<1> QED BY <1>11, <1>12

\* Workspace::addSurface.
LEMMA AddSurfaceShows ==
  ASSUME DInv, NEW w \in Windows, NEW k \in Keys, AddSurface(w, k)
  PROVE  DInv'
<1>1. /\ k \in Rng(models) \cup {All}
      /\ wid' = [wid EXCEPT ![w] = k] /\ hidden' = HiddenIn(k, {w}, hidden) /\ Entering(k, {w})
      /\ UNCHANGED <<list, hist, capable, activated, browsing, config>>
  BY DEF AddSurface, Listed, Rng
<1>2. Places(wid', models') /\ Rows(rows', wid') BY AddSurfacePlaces DEF DInv
<1>3. Seen' /\ Looks' BY <1>1, HiddenInShows
<1>4. Placed' BY <1>1, <1>2 DEF DInv, Placed, ListInv, list
<1> QED BY <1>1, <1>3, <1>4 DEF DInv, Typed, list, config

\* Workspace::moveSurfaceTo.
LEMMA MoveSurfaceToShows ==
  ASSUME DInv, NEW w \in Windows, NEW k \in Keys, NEW menu \in BOOLEAN, MoveSurfaceTo(w, k, menu)
  PROVE  DInv'
<1> DEFINE h0 == [hist EXCEPT ![wid[w]] = Drop(@, {w})]
           h1 == PushActived(RemoveActived(h0, models, k, w), models, k, w)
           h  == IF w \in capable THEN h1 ELSE h0
           r  == IF menu THEN Activation(Latest(h[Current]), activated, capable, wid', models, h)
                 ELSE [a |-> activated, h |-> h]
<1>1. /\ k \in Rng(models) \cup {All} /\ wid[w] \in Keys
      /\ wid' = [wid EXCEPT ![w] = k] /\ hidden' = HiddenIn(k, {w}, hidden) /\ Entering(k, {w})
      /\ UNCHANGED <<list, capable, browsing, config>>
      /\ Becomes(r)
  BY DEF MoveSurfaceTo, Listed, Rng, DInv, Placed, Places
<1>2. Places(wid', models') /\ Rows(rows', wid') BY MoveSurfaceToPlaces DEF DInv
<1>3. Seen' /\ Looks' BY <1>1, HiddenInShows
<1>4. Placed' BY <1>1, <1>2 DEF DInv, Placed, ListInv, list
<1>5. h0 \in [Keys -> SUBSET (Windows \X Windows)]
  <2>1. Drop(hist[wid[w]], {w}) \in SUBSET (Windows \X Windows)
    BY <1>1, RecencyType DEF DInv, Typed
  <2> QED BY <2>1 DEF DInv, Typed
<1> HIDE DEF h0
<1>6. h1 \in [Keys -> SUBSET (Windows \X Windows)] BY <1>5, ActivedTyped
<1> HIDE DEF h1
<1>7. h \in [Keys -> SUBSET (Windows \X Windows)] BY <1>5, <1>6
<1> HIDE DEF h
<1>8. Returned(r)
  <2>1. Latest(h[Current]) \in Windows \cup {None} BY LatestElem DEF Elems
  <2>2. Returned(Activation(Latest(h[Current]), activated, capable, wid', models, h))
    BY <1>7, <2>1, ActivationTyped DEF DInv, Typed
  <2>3. Returned([a |-> activated, h |-> h]) BY <1>7 DEF DInv, Typed, Returned
  <2> QED BY <2>2, <2>3
<1> HIDE DEF r
<1>9. Typed' BY <1>1, <1>8 DEF DInv, Typed, Returned, Becomes
<1> QED BY <1>1, <1>3, <1>4, <1>9 DEF DInv, list, config

\* destroyForSurface and Workspace::removeSurface.
LEMMA RemoveSurfaceShows ==
  ASSUME DInv, NEW w \in Windows, RemoveSurface(w)
  PROVE  DInv'
<1> DEFINE k == wid[w]
           h == IF w \in capable THEN RemoveActived(hist, models, k, w) ELSE hist
<1>1. /\ k \in Keys
      /\ hist' = [h EXCEPT ![k] = Drop(@, {w})]
      /\ wid' = [wid EXCEPT ![w] = Out] /\ hidden' = hidden \ {w}
      /\ capable' = capable \ {w} /\ activated' \in {activated, None}
      /\ links' = {l \in links : l[1] # w} /\ strayed' = strayed \ {w}
      /\ peek' = (IF peek = w THEN None ELSE peek)
      /\ UNCHANGED <<list, browsing, dim, config>>
  BY DEF RemoveSurface, DInv, Placed, Places
<1>2. Places(wid', models') /\ Rows(rows', wid') BY RemoveSurfacePlaces DEF DInv
<1>3. Placed' BY <1>1, <1>2 DEF DInv, Placed, ListInv, list
<1>4. h \in [Keys -> SUBSET (Windows \X Windows)] BY ActivedTyped DEF DInv, Typed
<1> HIDE DEF h
<1>5. hist' \in [Keys -> SUBSET (Windows \X Windows)]
  <2>1. Drop(h[k], {w}) \in SUBSET (Windows \X Windows) BY <1>1, <1>4, RecencyType
  <2> QED BY <1>1, <1>4, <2>1
<1>6. Typed' BY <1>1, <1>5 DEF DInv, Typed
<1>7. Seen'
  <2>1. /\ visible = {Current} /\ Right(hidden, wid, Current, Calm) /\ cfgCur = cur - 1
        /\ UNCHANGED <<visible, cur, cfgCur>> /\ Current' = Current
        /\ wid \in [Windows -> Keys \cup {Out}]
    BY <1>1, SeenFields DEF DInv, list, config, Current, Placed, Places
  <2>2. ASSUME NEW x \in Calm' PROVE x \in hidden' <=> x \in Off(wid', Current)
    <3>0. x \in Windows BY DEF Calm
    <3>1. CASE x = w BY <1>1, <2>1, <3>1 DEF Off
    <3>2. CASE x # w
      <4>1. wid'[x] = wid[x] /\ (x \in strayed' <=> x \in strayed) BY <1>1, <2>1, <3>2
      <4>2. \A m : <<x, m>> \in links' <=> <<x, m>> \in links BY <1>1, <3>2
      <4>3. x # peek' => x # peek BY <1>1, <3>2
      <4>4. x \in Calm BY <1>1, <3>0, <4>1, <4>2, <4>3 DEF Calm, Settled
      <4> QED BY <1>1, <2>1, <3>0, <3>2, <4>1, <4>4 DEF Right, Off
    <3> QED BY <3>1, <3>2
  <2>3. Right(hidden, wid, Current, Calm)' BY <1>1, <2>1, <2>2 DEF Right, Off
  <2> QED BY <2>1, <2>3, SeenNext
<1>8. Looks'
  <2>1. peek' # None => peek' # w /\ peek' = peek /\ wid[peek] # Out BY <1>1 DEF DInv, Looks
  <2>2. peek' # None => wid'[peek'] # Out BY <1>1, <2>1 DEF DInv, Looks, Placed, Places
  <2> QED BY <1>1, <2>2 DEF DInv, Looks
<1> QED BY <1>1, <1>3, <1>6, <1>7, <1>8 DEF DInv, list, config

\* onSurfaceInactivationRequested.
LEMMA InactivationRequestedShows ==
  ASSUME DInv, NEW w \in Windows, NEW focused \in BOOLEAN, InactivationRequested(w, focused)
  PROVE  DInv'
<1> DEFINE c == capable \ {w}
           h == RemoveActived(hist, models, wid[w], w)
           A == Activation(Latest(h[Current]), None, c, wid, models, h)
<1>1. /\ capable' = c /\ UNCHANGED <<list, placed, browsing, look, config>>
      /\ \/ hist' = A.h /\ activated' = A.a
         \/ hist' = h /\ activated' \in {activated, None}
  BY DEF InactivationRequested, Becomes
<1>2. h \in [Keys -> SUBSET (Windows \X Windows)] /\ c \subseteq Windows
  BY ActivedTyped DEF DInv, Typed
<1> HIDE DEF h, c
<1>3. Returned(A)
  <2>1. Latest(h[Current]) \in Windows \cup {None} BY LatestElem DEF Elems
  <2> QED BY <1>2, <2>1, ActivationTyped
<1> HIDE DEF A
<1>4. Typed' BY <1>1, <1>2, <1>3 DEF DInv, Typed, Returned
<1> QED BY <1>1, <1>4, SameView

\* activationRequested.
LEMMA ActivationRequestedShows ==
  ASSUME DInv, NEW w \in Windows, ActivationRequested(w)
  PROVE  DInv'
<1> DEFINE c == capable \cup {w}
<1>1. capable' = c /\ Becomes(Requested(w, c)) /\ UNCHANGED <<list, placed, browsing, look, config>>
  BY DEF ActivationRequested
<1>2. Returned(Requested(w, c)) BY RequestedTyped DEF DInv
<1>3. Typed' BY <1>1, <1>2 DEF DInv, Typed, Returned, Becomes
<1> QED BY <1>1, <1>3, SameView


-----------------------------------------------------------------------------
(* The list of workspaces *)

\* Workspace::createModel.
LEMMA CreateModelShows ==
  ASSUME DInv, CreateModel
  PROVE  DInv'
<1>1. /\ DoCreateModel(1) /\ cfgNum' = cfgNum + 1
      /\ UNCHANGED <<cur, visible, placed, capable, activated, browsing, look, cfgCur>>
  BY DEF CreateModel
<1>2. /\ models' \in Seq(Ids) /\ Len(models') = Len(models) + 1 /\ Once(models')
      /\ \A i \in 1..Len(models') : models'[i] < nextId'
      /\ Rng(models') = Rng(models) \cup (nextId..(nextId + 1 - 1))
      /\ \A i \in 1..Len(models) : models'[i] = models[i]
      /\ nextId' \in Nat
  BY <1>1, CreatedList DEF DInv
<1>3. cur \in 1..Len(models) /\ cur \in 1..Len(models')
  BY <1>2 DEF DInv, Placed, ListInv
<1>4. Placed'
  <2>1. Places(wid', models') BY <1>1, <1>2 DEF DInv, Placed, Places, placed
  <2> QED BY <1>1, <1>2, <1>3, <2>1 DEF DInv, Placed, ListInv, Rows, placed
<1>5. Seen' /\ Looks'
  <2>1. Calm' = Calm /\ Looks' BY <1>1, SameLooks DEF DInv, placed
  <2>2. Current' = Current BY <1>1, <1>2, <1>3 DEF Current
  <2>3. visible = {Current} /\ Right(hidden, wid, Current, Calm) /\ cfgCur = cur - 1
    BY SeenFields DEF DInv
  <2>4. Right(hidden, wid, Current, Calm)' BY <1>1, <2>1, <2>2, <2>3 DEF Right, Off, placed
  <2> QED BY <1>1, <2>1, <2>2, <2>3, <2>4, SeenNext
<1>6. Typed' BY <1>1 DEF DInv, Typed, DoCreateModel, Keys
<1> QED BY <1>1, <1>2, <1>4, <1>5, <1>6 DEF DInv

\* Workspace::moveModelTo.
LEMMA MoveModelToShows ==
  ASSUME DInv, NEW i \in DOMAIN models, NEW j \in DOMAIN models, MoveModelTo(i, j)
  PROVE  DInv'
<1> DEFINE t == Put(Cut(models, i), j, models[i])
<1>1. models \in Seq(Ids) /\ i \in 1..Len(models) /\ j \in 1..Len(models) /\ Once(models)
  BY DEF DInv, Placed, ListInv
<1>2. /\ models' = t /\ cur' = IndexOf(t, Current) /\ cfgCur' = cur' - 1
      /\ UNCHANGED <<nextId, visible, placed, hist, capable, activated, browsing, look, cfgNum>>
  BY Zenon DEF MoveModelTo, Put, Cut
<1>3. t \in Seq(Ids) /\ Len(t) = Len(models) /\ Once(t) /\ Rng(t) = Rng(models)
  BY <1>1, MovedRng
<1> HIDE DEF t
<1>4. DOMAIN t = 1..Len(t) BY <1>3
<1>5. Current \in Rng(models) BY DEF DInv, Placed, ListInv, Current, Rng
<1>6. cur' \in 1..Len(t) /\ t[cur'] = Current
  BY <1>2, <1>3, <1>4, <1>5, IndexOfRng
<1>7. \A k \in 1..Len(t) : t[k] < nextId
  <2>1. \A x \in Rng(models) : x < nextId BY DEF DInv, Placed, ListInv, Rng
  <2>2. \A k \in 1..Len(t) : t[k] \in Rng(t) BY <1>4 DEF Rng
  <2> QED BY <1>3, <2>1, <2>2
<1>8. Placed' BY <1>2, <1>3, <1>6, <1>7 DEF DInv, Placed, ListInv, Places, Rows, placed
<1>9. Seen' /\ Looks'
  <2>1. Current' = Current BY <1>2, <1>6 DEF Current
  <2>2. visible = {Current} /\ Right(hidden, wid, Current, Calm) BY SeenFields DEF DInv
  <2>3. Calm' = Calm /\ Looks' BY <1>2, SameLooks DEF DInv, placed
  <2>4. Right(hidden, wid, Current, Calm)' BY <1>2, <2>1, <2>2, <2>3 DEF Right, Off, placed
  <2> QED BY <1>2, <2>1, <2>2, <2>3, <2>4, SeenNext
<1> QED BY <1>2, <1>3, <1>8, <1>9 DEF DInv, Typed

\* doRemoveModel: a window that stays is settled if it was; one that goes to target
\* is not if target is transparent.
LEMMA RemovedCalm ==
  ASSUME DInv, NEW ms, NEW gone, NEW target \in Ids, NEW r \in SUBSET (Windows \X Windows),
         target \notin gone, Elems(r) = {w \in Windows : wid[w] \in gone},
         DoRemoveModel(ms, gone, target, r)
  PROVE  /\ \A x \in Calm' \ Elems(r) : x \in Calm /\ wid'[x] = wid[x]
         /\ \A x \in Calm' \cap Elems(r) : target \notin dim /\ wid'[x] = target
         /\ Looks'
<1>1. /\ wid' = [w \in Windows |-> IF w \in Elems(r) THEN target ELSE wid[w]]
      /\ dim' = dim \ gone
      /\ links' = {l \in links : l[2] \notin gone} \cup Linked(target, Elems(r))
      /\ strayed' = strayed \ Elems(r)
      /\ peek' = peek
  BY DEF DoRemoveModel
<1>2. ASSUME NEW x \in Calm', x \notin Elems(r) PROVE x \in Calm /\ wid'[x] = wid[x]
  <2>0. x \in Windows BY DEF Calm
  <2>1. wid'[x] = wid[x] /\ wid[x] \notin gone BY <1>1, <1>2, <2>0
  <2>2. x # peek /\ x \notin strayed BY <1>1, <1>2 DEF Calm, Settled
  <2>3. ASSUME wid[x] \in dim, <<x, wid[x]>> \in links PROVE FALSE
    <3>1. wid'[x] \in dim' BY <1>1, <2>1, <2>3
    <3>2. <<x, wid'[x]>> \in links' BY <1>1, <2>1, <2>3
    <3> QED BY <1>2, <3>1, <3>2 DEF Calm, Settled
  <2> QED BY <2>0, <2>1, <2>2, <2>3 DEF Calm, Settled
<1>3. ASSUME NEW x \in Calm', x \in Elems(r) PROVE target \notin dim /\ wid'[x] = target
  <2>0. x \in Windows BY DEF Calm
  <2>1. wid'[x] = target BY <1>1, <1>3, <2>0
  <2>2. ASSUME target \in dim PROVE FALSE
    <3>1. target \in dim' BY <1>1, <2>2
    <3>2. <<x, target>> \in links' BY <1>1, <1>3, <2>2 DEF Linked
    <3> QED BY <1>3, <2>1, <3>1, <3>2 DEF Calm, Settled
  <2> QED BY <2>1, <2>2
<1>4. Looks'
  <2>1. Elems(r) \subseteq Windows OBVIOUS
  <2>2. links' \subseteq Windows \X Ids BY <1>1, <2>1 DEF DInv, Looks, Linked
  <2>3. peek # None => wid'[peek] # Out
    BY <1>1, WorkspacesAssumption DEF DInv, Looks
  <2> QED BY <1>1, <2>2, <2>3 DEF DInv, Looks
<1> QED BY <1>2, <1>3, <1>4

\* doRemoveModel: what is shown when the workspaces gone have left their windows
\* to target.
LEMMA RemovedShows ==
  ASSUME DInv, NEW ms \in Seq(Ids), NEW gone, NEW target, NEW r \in SUBSET (Windows \X Windows),
         gone \subseteq Rng(models), Rng(ms) = Rng(models) \ gone, target \in Rng(ms),
         Elems(r) = {w \in Windows : wid[w] \in gone},
         DoRemoveModel(ms, gone, target, r)
  PROVE  /\ \E i \in 1..Len(ms) :
              Shows(RemovedView(ms, gone, target, r), i, ms[i], wid', i - 1, Calm')
         /\ Looks'
<1>0. /\ DOMAIN models = 1..Len(models) /\ DOMAIN ms = 1..Len(ms)
      /\ Rng(models) \subseteq Ids /\ Rng(ms) \subseteq Ids
      /\ target \in Ids /\ target \notin gone /\ Ids \subseteq Keys
      /\ All \notin Ids /\ Out \notin Ids /\ Current \in Rng(models)
  BY WorkspacesAssumption DEF DInv, Placed, ListInv, Rng, Keys, Current
<1> PICK p, rs, now, C, T : /\ p = wid' /\ rs = rows' /\ now = NowCurrent(gone, target)
                            /\ C = Current /\ T = Calm'
  OBVIOUS
<1>1. /\ Rows(rs, p)
      /\ p = [w \in Windows |-> IF w \in Elems(r) THEN target ELSE wid[w]]
      /\ C \in gone => Elems(rs[C]) = {}
  <2>1. Rows(rows', wid') BY RemovedPlaces DEF DInv
  <2>2. C \in gone => rs[C] = {} BY <1>0 DEF DoRemoveModel
  <2> QED BY <2>1, <2>2 DEF DoRemoveModel, Elems
<1>2. now \in Rng(ms) /\ now \in Ids BY <1>0, NowListed DEF DInv
<1>3. /\ visible = {C} /\ Right(hidden, wid, C, Calm) /\ wid \in [Windows -> Keys \cup {Out}]
  BY SeenFields DEF DInv, Placed, Places
<1>9. /\ \A x \in T \ Elems(r) : x \in Calm /\ p[x] = wid[x]
      /\ \A x \in T \cap Elems(r) : target \notin dim /\ p[x] = target
      /\ Looks' /\ T \in SUBSET Windows
  BY <1>0, RemovedCalm DEF Calm
<1> PICK H : H = HiddenIn(target, Elems(r), hidden) OBVIOUS
<1>4. Veiled(View, H) = Display(cur, {C}, H, cfgCur)
  <2>1. View = Display(cur, {C}, hidden, cfgCur) BY <1>3 DEF View, Display
  <2>2. Veiled(Display(cur, {C}, hidden, cfgCur), H) = Display(cur, {C}, H, cfgCur)
    BY VeiledFields
  <2> QED BY <2>1, <2>2
<1>10. /\ H \subseteq Windows
       /\ \A x \in T \ Elems(r) : x \in H <=> x \in Off(wid, C)
       /\ \A x \in T \cap Elems(r) : x \in H <=> target # C
  <2>1. H \subseteq Windows BY <1>3 DEF HiddenIn, AsVisible, Right
  <2>2. ASSUME NEW x \in T \ Elems(r) PROVE x \in H <=> x \in Off(wid, C)
    <3>1. x \in H <=> x \in hidden BY DEF HiddenIn, AsVisible
    <3> QED BY <1>3, <1>9, <3>1 DEF Right
  <2>3. ASSUME NEW x \in T \cap Elems(r) PROVE x \in H <=> target # C
    <3>1. H = AsVisible(target, Elems(r), hidden) BY <1>9 DEF HiddenIn
    <3> QED BY <1>0, <1>3, <3>1 DEF AsVisible
  <2> QED BY <2>1, <2>2, <2>3
<1> DEFINE v == Display(cur, {C}, H, cfgCur)
<1>5. Shows(Reveal(v, rs, now), cur, now, p, cfgCur, T)
  <2>1. CASE C \notin gone
    <3>1. now = C BY <2>1 DEF NowCurrent
    <3>2. Right(H, p, C, T)
      <4> SUFFICES ASSUME NEW x \in T PROVE x \in H <=> x \in Off(p, C) BY <1>10 DEF Right
      <4>0. x \in Windows BY <1>9
      <4>1. CASE x \in Elems(r)
        <5>1. p[x] = target /\ target \notin {All, Out} BY <1>0, <1>9, <4>1
        <5> QED BY <1>10, <4>0, <4>1, <5>1 DEF Off
      <4>2. CASE x \notin Elems(r) BY <1>9, <1>10, <4>0, <4>2 DEF Off
      <4> QED BY <4>1, <4>2
    <3>3. Shows(v, cur, C, p, cfgCur, T) BY <3>2 DEF Shows
    <3> HIDE DEF v
    <3> QED BY <1>0, <1>1, <1>9, <3>1, <3>3, RevealShows
  <2>2. CASE C \in gone
    <3>1. now = target /\ target # C BY <1>0, <2>2 DEF NowCurrent
    <3> DEFINE G == (H \ UNION {Elems(rs[n]) : n \in {target} \ {C}})
                       \cup UNION {Elems(rs[n]) : n \in {C} \ {target}}
    <3>3. Right(G, p, target, T)
      <4>1. {target} \ {C} = {target} /\ {C} \ {target} = {C} BY <3>1
      <4>2. /\ UNION {Elems(rs[n]) : n \in {target}} = Elems(rs[target])
            /\ UNION {Elems(rs[n]) : n \in {C}} = Elems(rs[C])
        OBVIOUS
      <4>3. G = H \ Elems(rs[target]) BY <1>1, <2>2, <4>1, <4>2
      <4>4. Elems(rs[target]) = {w \in Windows : p[w] = target} BY <1>0, <1>1 DEF Rows
      <4> HIDE DEF G
      <4> SUFFICES ASSUME NEW x \in T PROVE x \in G <=> x \in Off(p, target)
        BY <1>10, <4>3 DEF Right
      <4>5. x \in Windows BY <1>9
      <4>6. CASE p[x] = target BY <4>3, <4>4, <4>5, <4>6 DEF Off
      <4>7. CASE p[x] # target
        <5>1. x \notin Elems(r) BY <1>9, <4>7
        <5>2. p[x] = wid[x] /\ wid[x] # C BY <1>9, <2>2, <4>5, <5>1
        <5> QED BY <1>10, <4>3, <4>4, <4>5, <4>7, <5>1, <5>2 DEF Off
      <4> QED BY <4>6, <4>7
    <3>4. Reveal(v, rs, target) = Turned(v, target, G)
      <4>1. v.vis = {C} /\ v.hid = H BY DEF Display
      <4> HIDE DEF v
      <4> QED BY <4>1 DEF Reveal, Turned
    <3> HIDE DEF G
    <3>5. Turned(v, target, G) = Display(cur, {target}, G, cfgCur) BY TurnedFields
    <3> HIDE DEF v
    <3> QED BY <3>1, <3>3, <3>4, <3>5 DEF Shows
  <2> QED BY <2>1, <2>2
<1> PICK i : i = IndexOf(ms, now) OBVIOUS
<1>6. i \in 1..Len(ms) /\ ms[i] = now BY <1>0, <1>2, IndexOfRng
<1>7. RemovedView(ms, gone, target, r) = Moved(Reveal(v, rs, now), i, i - 1)
  <2>1. RemovedView(ms, gone, target, r) = Moved(Reveal(Veiled(View, H), rs, now), i, i - 1)
    BY DEF RemovedView, Moved, NowCurrent, Veiled, View
  <2> HIDE DEF v
  <2> QED BY <1>4, <2>1 DEF v
<1> HIDE DEF v
<1>8. Shows(Moved(Reveal(v, rs, now), i, i - 1), i, now, p, i - 1, T) BY <1>5, MovedShows
<1> QED BY <1>6, <1>7, <1>8, <1>9


\* doRemoveModel keeps the list, the places and the histories in order.
LEMMA RemovedPlacedTyped ==
  ASSUME DInv, NEW ms \in Seq(Ids), NEW gone, NEW target, NEW r \in SUBSET (Windows \X Windows),
         Once(ms), gone \subseteq Rng(models), Rng(ms) = Rng(models) \ gone, target \in Rng(ms),
         Elems(r) = {w \in Windows : wid[w] \in gone},
         DoRemoveModel(ms, gone, target, r), UNCHANGED <<nextId, capable, browsing>>,
         cur' \in 1..Len(ms)
  PROVE  Placed' /\ Typed'
<1> DEFINE h == [k \in Keys |-> IF k \in gone THEN {}
                                ELSE IF k = target THEN Stack(Keep(r, capable), hist[k])
                                ELSE hist[k]]
<1>1. /\ models' = ms
      /\ Becomes(LatestActivation(NowCurrent(gone, target), activated, capable, wid', ms, h))
  BY DEF DoRemoveModel, NowCurrent
<1>2. Places(wid', ms) /\ Rows(rows', wid') BY RemovedPlaces DEF DInv
<1>3. h \in [Keys -> SUBSET (Windows \X Windows)]
  <2>1. ASSUME NEW k \in Keys PROVE Stack(Keep(r, capable), hist[k]) \in SUBSET (Windows \X Windows)
    <3>1. Keep(r, capable) \in SUBSET (Windows \X Windows) BY DEF Keep
    <3>2. hist[k] \in SUBSET (Windows \X Windows) BY DEF DInv, Typed
    <3> QED BY <3>1, <3>2 DEF Stack, Drop, Elems
  <2> QED BY <2>1 DEF DInv, Typed
<1> HIDE DEF h
<1>4. ListInv'
  <2>1. \A x \in Rng(models) : x < nextId BY DEF DInv, Placed, ListInv, Rng
  <2>2. \A k \in 1..Len(ms) : ms[k] \in Rng(ms) BY DEF Rng
  <2>3. \A k \in 1..Len(ms) : ms[k] < nextId BY <2>1, <2>2
  <2> QED BY <1>1, <2>3 DEF DInv, Placed, ListInv
<1>5. Placed' BY <1>1, <1>2, <1>4 DEF Placed
<1>6. Typed'
  <2> PICK p : p = wid' OBVIOUS
  <2>1. Returned(LatestActivation(NowCurrent(gone, target), activated, capable, p, ms, h))
    BY <1>3, LatestActivationTyped DEF DInv, Typed
  <2> QED BY <1>1, <2>1 DEF DInv, Typed, Returned, Becomes
<1> QED BY <1>5, <1>6

\* Workspace::removeModel.
LEMMA RemoveModelShows ==
  ASSUME DInv, NEW i \in DOMAIN models, RemoveModel(i)
  PROVE  DInv'
<1> DEFINE ms     == Without(i)
           gone   == {models[i]}
           target == Neighbour(i)
           r      == rows[models[i]]
<1>1. /\ models \in Seq(Ids) /\ i \in 1..Len(models) /\ Once(models)
      /\ DOMAIN models = 1..Len(models) /\ Len(models) \in Nat /\ Len(models) > 1
      /\ models[i] \in Keys
  BY DEF DInv, Placed, ListInv, RemoveModel, Keys
<1>2. ms = Cut(models, i) BY DEF Without, Cut
<1>3. /\ ms \in Seq(Ids) /\ Once(ms) /\ Rng(ms) = Rng(models) \ gone
      /\ Len(ms) = Len(models) - 1
  <2>1. /\ Cut(models, i) \in Seq(Ids) /\ Len(Cut(models, i)) = Len(models) - 1
        /\ Once(Cut(models, i)) /\ Rng(Cut(models, i)) = Rng(models) \ {models[i]}
    BY <1>1, CutRng
  <2> HIDE DEF ms
  <2> QED BY <1>2, <2>1
<1>4. target \in Rng(ms)
  <2> DEFINE j == IF i > 1 THEN i - 1 ELSE 2
  <2>1. j \in 1..Len(models) /\ j # i BY <1>1
  <2> HIDE DEF j
  <2>2. models[j] # models[i] /\ models[j] \in Rng(models) BY <1>1, <2>1 DEF Once, Rng
  <2> QED BY <1>3, <2>2 DEF Neighbour, j
<1>5. /\ DoRemoveModel(ms, gone, target, r)
      /\ Sees(RemovedView(ms, gone, target, r))
      /\ UNCHANGED <<nextId, capable, browsing>> /\ cfgNum' = cfgNum - 1
  BY DEF RemoveModel
<1>6. /\ gone \subseteq Rng(models) /\ r \in SUBSET (Windows \X Windows)
      /\ Elems(r) = {w \in Windows : wid[w] \in gone}
  <2>1. Elems(r) = {w \in Windows : wid[w] = models[i]} BY <1>1 DEF DInv, Placed, Rows
  <2> QED BY <1>1, <2>1 DEF DInv, Placed, Rows, Rng
<1> HIDE DEF ms, gone, target, r
<1>7. models' = ms BY <1>5 DEF DoRemoveModel
<1>12. /\ Looks'
       /\ \E x \in 1..Len(ms) : Shows(RemovedView(ms, gone, target, r), x, ms[x], wid', x - 1, Calm')
  BY <1>3, <1>4, <1>5, <1>6, RemovedShows
<1>8. PICK x \in 1..Len(ms) : Shows(RemovedView(ms, gone, target, r), x, ms[x], wid', x - 1, Calm')
  BY <1>12
<1>9. Seen' /\ cur' = x
  <2> PICK p, v, T : p = wid' /\ v = RemovedView(ms, gone, target, r) /\ T = Calm' OBVIOUS
  <2>1. Shows(v, x, ms[x], p, x - 1, T) /\ Sees(v) BY <1>5, <1>8
  <2> QED BY <1>7, <2>1, SeesShown
<1>10. Placed' /\ Typed'
  BY <1>3, <1>4, <1>5, <1>6, <1>9, RemovedPlacedTyped
<1>11. (cfgNum = Len(models))' BY <1>3, <1>5, <1>7 DEF DInv
<1> QED BY <1>9, <1>10, <1>11, <1>12 DEF DInv


\* Another index in the config.
Noted(v, c) == [v EXCEPT !.idx = c]

LEMMA NotedShows ==
  ASSUME NEW i, NEW k, NEW p, NEW c, NEW d, NEW T, NEW v, Shows(v, i, k, p, c, T)
  PROVE  Shows(Noted(v, d), i, k, p, d, T)
<1> PICK h : v = Display(i, {k}, h, c) /\ Right(h, p, k, T) BY DEF Shows
<1>1. Noted(v, d) = Display(i, {k}, h, d) BY DEF Noted, Display
<1> QED BY <1>1 DEF Shows

\* Workspace::reloadFromConfig with at least as many workspaces as there are.
LEMMA ReloadMoreShows ==
  ASSUME DInv, NEW m \in Nat, NEW to \in 1..m, m >= Len(models),
         DoCreateModel(m - Len(models)),
         Sees(SetCurrentIndex(Noted(View, to - 1), models', rows, to)),
         cfgNum' = m, UNCHANGED <<rows, wid, activated, capable, browsing, look>>
  PROVE  DInv'
<1>1. cur \in 1..Len(models) /\ Len(models) \in Nat BY DEF DInv, Placed, ListInv
<1>2. m - Len(models) \in Nat BY <1>1
<1>3. /\ models' \in Seq(Ids) /\ Len(models') = Len(models) + (m - Len(models)) /\ Once(models')
      /\ \A i \in 1..Len(models') : models'[i] < nextId'
      /\ Rng(models') = Rng(models) \cup (nextId..(nextId + (m - Len(models)) - 1))
      /\ \A i \in 1..Len(models) : models'[i] = models[i]
      /\ nextId' \in Nat
  BY <1>2, CreatedList DEF DInv
<1>4. Len(models') = m /\ cur \in 1..m BY <1>1, <1>3
<1> PICK ms : ms = models' OBVIOUS
<1> PICK u : u = Noted(View, to - 1) OBVIOUS
<1>5. Shows(u, cur, ms[cur], wid, to - 1, Calm)
  <2>1. Shows(View, cur, models[cur], wid, cur - 1, Calm) BY DEF DInv, Seen, Current
  <2>2. models[cur] = ms[cur] BY <1>1, <1>3
  <2>3. Shows(Noted(View, to - 1), cur, models[cur], wid, to - 1, Calm) BY <2>1, NotedShows
  <2> QED BY <2>2, <2>3
<1> PICK j, c \in Int : j = cur /\ c = to - 1 BY <1>1
<1>6. Shows(SetCurrentIndex(u, ms, rows, to), to, ms[to], wid, to - 1, Calm)
  <2>1. ms \in Seq(Ids) /\ to \in 1..Len(ms) /\ j \in 1..Len(ms) /\ (to = j => c = to - 1)
    BY <1>3, <1>4
  <2>2. Rows(rows, wid) /\ Calm \in SUBSET Windows BY DEF DInv, Placed, Calm
  <2>3. Shows(u, j, ms[j], wid, c, Calm) BY <1>5
  <2> QED BY ONLY <2>1, <2>2, <2>3, SetCurrentIndexShows
<1>7. Seen' /\ cur' = to /\ Looks'
  <2> PICK v, p : v = SetCurrentIndex(u, ms, rows, to) /\ p = wid OBVIOUS
  <2>1. Shows(v, to, ms[to], p, to - 1, Calm) BY <1>6
  <2>2. Calm' = Calm /\ Looks' BY SameLooks DEF DInv
  <2> QED BY <2>1, <2>2, SeesShown
<1>8. Placed'
  <2>1. Places(wid', models') BY <1>3 DEF DInv, Placed, Places
  <2>2. Rows(rows', wid') BY DEF DInv, Placed, Rows
  <2>3. ListInv' BY <1>3, <1>4, <1>7 DEF ListInv
  <2> QED BY <2>1, <2>2, <2>3 DEF Placed
<1>9. Typed' BY DEF DInv, Typed, DoCreateModel, Keys
<1> QED BY <1>4, <1>7, <1>8, <1>9 DEF DInv

\* Workspace::reloadFromConfig with fewer.
LEMMA ReloadFewerShows ==
  ASSUME DInv, NEW m \in 1..Len(models), NEW to \in 1..m, NEW ms, NEW gone,
         ms = SubSeq(models, 1, m), gone = {models[i] : i \in (m + 1)..Len(models)},
         DoRemoveModel(ms, gone, models[m], TailRows(m)),
         Sees(SetCurrentIndex(RemovedView(ms, gone, models[m], TailRows(m)), ms, rows', to)),
         cfgNum' = m, UNCHANGED <<nextId, capable, browsing>>
  PROVE  DInv'
<1>1. models \in Seq(Ids) /\ Once(models) /\ DOMAIN models = 1..Len(models) /\ Len(models) \in Nat
  BY DEF DInv, Placed, ListInv
<1>2. /\ ms \in Seq(Ids) /\ Len(ms) = m /\ Once(ms)
      /\ Rng(ms) = Rng(models) \ gone /\ models[m] \in Rng(ms)
  BY <1>1, PrefixRng
<1>3. gone \subseteq Rng(models)
  <2>1. (m + 1)..Len(models) \subseteq DOMAIN models BY <1>1
  <2> QED BY <2>1 DEF Rng
<1>4. /\ TailRows(m) \in SUBSET (Windows \X Windows)
      /\ Elems(TailRows(m)) = {w \in Windows : wid[w] \in gone}
  BY TailRowsElems DEF DInv
<1> PICK target, r : target = models[m] /\ r = TailRows(m) OBVIOUS
<1>11. /\ Looks'
       /\ \E x \in 1..Len(ms) : Shows(RemovedView(ms, gone, target, r), x, ms[x], wid', x - 1, Calm')
  <2>1. /\ DoRemoveModel(ms, gone, target, r) /\ r \in SUBSET (Windows \X Windows)
        /\ Elems(r) = {w \in Windows : wid[w] \in gone} /\ target \in Rng(ms)
    BY <1>2, <1>4
  <2>2. ms \in Seq(Ids) /\ Rng(ms) = Rng(models) \ gone BY <1>2
  <2> QED BY ONLY DInv, <2>2, <1>3, <2>1, RemovedShows
<1>5. PICK x \in 1..Len(ms) : Shows(RemovedView(ms, gone, target, r), x, ms[x], wid', x - 1, Calm')
  BY <1>11
<1>6. Rows(rows', wid') BY <1>2, <1>3, <1>4, RemovedPlaces DEF DInv
<1>7. models' = ms BY DEF DoRemoveModel
<1> PICK p, rs, u, v, T : /\ p = wid' /\ rs = rows' /\ T = Calm'
                          /\ u = RemovedView(ms, gone, target, r)
                          /\ v = SetCurrentIndex(u, ms, rs, to)
  OBVIOUS
<1>8. Shows(v, to, ms[to], p, to - 1, T)
  <2>1. Rows(rs, p) /\ T \in SUBSET Windows BY <1>6 DEF Calm
  <2>2. to \in 1..Len(ms) BY <1>2
  <2>3. Shows(SetCurrentIndex(u, ms, rs, to), to, ms[to], p, to - 1, T)
    <3>1. ms \in Seq(Ids) /\ x - 1 \in Int /\ x \in 1..Len(ms) /\ (to = x => x - 1 = to - 1) BY <1>2
    <3>2. Shows(u, x, ms[x], p, x - 1, T) BY <1>5
    <3> QED BY ONLY <3>1, <3>2, <2>1, <2>2, SetCurrentIndexShows
  <2> QED BY <2>3
<1>9. Seen' /\ cur' = to
  <2>1. Sees(v) /\ Calm' \subseteq T BY Zenon
  <2> QED BY <1>7, <1>8, <2>1, SeesShown
<1>10. Placed' /\ Typed'
  BY <1>2, <1>3, <1>4, <1>9, RemovedPlacedTyped
<1> QED BY <1>2, <1>7, <1>9, <1>10, <1>11 DEF DInv

\* Workspace::reloadFromConfig.
LEMMA ReloadShows ==
  ASSUME DInv, NEW n \in 0..MaxModels, NEW c \in CurrentsOf(n), ReloadFromConfig(n, c)
  PROVE  DInv'
<1> PICK m, to : m = (IF n < 1 THEN 1 ELSE n) /\ to = (IF c < m THEN c + 1 ELSE m) OBVIOUS
<1>1. m \in Nat /\ m >= 1 /\ to \in 1..m /\ c = to - 1
  BY WorkspacesAssumption DEF CurrentsOf
<1>2. Len(models) \in Nat BY DEF DInv, Placed, ListInv
<1>3. cfgNum' = m /\ UNCHANGED <<capable, browsing>> BY DEF ReloadFromConfig
<1>4. CASE /\ m >= Len(models)
           /\ DoCreateModel(m - Len(models))
           /\ Sees(SetCurrentIndex(Noted(View, c), models', rows, to))
           /\ UNCHANGED <<rows, wid, activated, look>>
  BY <1>1, <1>3, <1>4, ReloadMoreShows
<1> PICK ms, gone : ms = SubSeq(models, 1, m) /\ gone = {models[i] : i \in (m + 1)..Len(models)}
  OBVIOUS
<1>5. CASE /\ m < Len(models)
           /\ DoRemoveModel(ms, gone, models[m], TailRows(m))
           /\ Sees(SetCurrentIndex(RemovedView(ms, gone, models[m], TailRows(m)), ms, rows', to))
           /\ UNCHANGED nextId
  <2>1. m \in 1..Len(models) BY <1>1, <1>2, <1>5
  <2> QED BY <1>1, <1>3, <1>5, <2>1, ReloadFewerShows
<1> QED BY <1>4, <1>5 DEF ReloadFromConfig, Noted


-----------------------------------------------------------------------------
(* The task switcher and the previews *)

\* setOpaque and the signal opaqueChanged: with the right flags for the settled
\* windows, a window that is settled afterwards has the right flag.
LEMMA FlaggedShows ==
  ASSUME DInv, NEW b \in BOOLEAN, NEW h, NEW x \in Windows, SetOpaque(b),
         UNCHANGED <<wid, links>>, x \notin strayed',
         ~(wid[x] \in dim' /\ <<x, wid[x]>> \in links),
         (x \notin strayed /\ ~(wid[x] \in dim /\ <<x, wid[x]>> \in links))
           => (x \in h <=> x \in Off(wid, Current))
  PROVE  x \in Flagged(b, h) <=> x \in Off(wid, Current)
<1>1. /\ dim' = IF b THEN dim \ {Current} ELSE dim \cup {Current}
      /\ strayed' = IF Changes(b) THEN strayed \cup {w \in Followers : wid[w] # Current}
                    ELSE strayed
  BY DEF SetOpaque
<1>2. visible = {Current} BY SeenFields DEF DInv
<1>3. CASE ~Changes(b)
  <2>1. dim' = dim /\ strayed' = strayed BY <1>1, <1>3 DEF Changes
  <2> QED BY <1>3, <2>1 DEF Flagged
<1>4. CASE Changes(b) /\ x \in Followers
  <2>1. wid[x] = Current BY <1>1, <1>4
  <2>2. Flagged(b, h) = h \ Followers BY <1>2, <1>4 DEF Flagged, AsVisible
  <2> QED BY <1>4, <2>1, <2>2 DEF Off
<1>5. CASE Changes(b) /\ x \notin Followers
  <2>1. x \in Flagged(b, h) <=> x \in h BY <1>5 DEF Flagged, AsVisible
  <2>2. x \notin strayed BY <1>1, <1>5
  <2>3. <<x, Current>> \notin links BY <1>5 DEF Followers
  <2>4. ~(wid[x] \in dim /\ <<x, wid[x]>> \in links)
    <3>1. CASE wid[x] = Current BY <2>3, <3>1
    <3>2. CASE wid[x] # Current
      <4>1. wid[x] \in dim => wid[x] \in dim' BY <1>1, <3>2
      <4> QED BY <4>1
    <3> QED BY <3>1, <3>2
  <2> QED BY <2>1, <2>2, <2>4
<1> QED BY <1>3, <1>4, <1>5

\* The window that was previewed gets the flag of its workspace, and no other window
\* changes.
LEMMA RestoredShows ==
  ASSUME DInv, NEW h, NEW x \in Windows, x # peek => (x \in h <=> x \in Off(wid, Current))
  PROVE  x \in Restored(h) <=> x \in Off(wid, Current)
<1>1. visible = {Current} BY SeenFields DEF DInv
<1>2. CASE x # peek BY <1>2 DEF Restored, AsVisible
<1>3. CASE x = peek
  <2>1. peek # None /\ wid[x] # Out BY <1>3, RecencyAssumption DEF DInv, Looks
  <2>2. x \in Restored(h) <=> ~(wid[x] = All \/ wid[x] = Current)
    BY <1>1, <1>3, <2>1 DEF Restored, AsVisible
  <2> QED BY <2>1, <2>2 DEF Off
<1> QED BY <1>2, <1>3

\* What the two operators return are windows.
LEMMA FlagsTyped ==
  ASSUME DInv, NEW h \in SUBSET Windows, NEW b
  PROVE  Flagged(b, h) \in SUBSET Windows /\ Restored(h) \in SUBSET Windows
BY DEF Flagged, Restored, AsVisible, Followers, DInv, Looks

\* A preview changes no place and no list.
LEMMA PreviewShows ==
  ASSUME DInv, NEW b \in BOOLEAN, SetOpaque(b), hidden' \in SUBSET Windows,
         UNCHANGED <<list, rows, wid, hist, capable, activated, browsing, links, config>>,
         peek' \in Windows \cup {None}, peek' # None => wid[peek'] # Out,
         \A x \in Calm' : x \in hidden' <=> x \in Off(wid, Current)
  PROVE  DInv'
<1>1. Current \in Ids /\ Current' = Current BY DEF DInv, Placed, ListInv, Current, list
<1>2. Looks'
  <2>1. dim' \subseteq Ids /\ strayed' \subseteq Windows
    BY <1>1 DEF SetOpaque, Followers, DInv, Looks
  <2> QED BY <2>1 DEF DInv, Looks
<1>3. Seen'
  <2>1. visible' = {Current'} /\ cfgCur' = cur' - 1
    BY <1>1, SeenFields DEF DInv, list, config
  <2>2. Right(hidden, wid, Current, Calm)' BY <1>1 DEF Right, Off
  <2> QED BY <2>1, <2>2, SeenNext
<1> QED BY <1>2, <1>3 DEF DInv, Typed, Placed, ListInv, Places, Rows, list, config

\* showTask.
LEMMA ShowTaskShows ==
  ASSUME DInv, NEW up \in BOOLEAN, ShowTask(up)
  PROVE  DInv'
<1> PICK b \in BOOLEAN : b = ~up OBVIOUS
<1>1. /\ hidden' = Flagged(b, hidden) /\ SetOpaque(b)
      /\ UNCHANGED <<list, rows, wid, hist, capable, activated, browsing, links, peek, config>>
  BY DEF ShowTask
<1>2. Right(hidden, wid, Current, Calm) BY SeenFields DEF DInv
<1>3. hidden' \in SUBSET Windows BY <1>1, <1>2, FlagsTyped DEF Right
<1>4. ASSUME NEW x \in Calm' PROVE x \in hidden' <=> x \in Off(wid, Current)
  <2>1. /\ x \in Windows /\ x # peek /\ x \notin strayed'
        /\ ~(wid[x] \in dim' /\ <<x, wid[x]>> \in links)
    BY <1>1, <1>4 DEF Calm, Settled
  <2>2. (x \notin strayed /\ ~(wid[x] \in dim /\ <<x, wid[x]>> \in links))
          => (x \in hidden <=> x \in Off(wid, Current))
    BY <1>2, <2>1 DEF Right, Calm, Settled
  <2> QED BY <1>1, <2>1, <2>2, FlaggedShows
<1>5. peek' \in Windows \cup {None} /\ (peek' # None => wid[peek'] # Out) BY <1>1 DEF DInv, Looks
<1> QED BY <1>1, <1>3, <1>4, <1>5, PreviewShows

\* Workspace::startPreviewing.
LEMMA StartPreviewingShows ==
  ASSUME DInv, NEW w \in Windows, StartPreviewing(w)
  PROVE  DInv'
<1>1. /\ hidden' = Flagged(FALSE, Restored(hidden)) \ {w} /\ SetOpaque(FALSE)
      /\ peek' = w /\ wid[w] # Out
      /\ UNCHANGED <<list, rows, wid, hist, capable, activated, browsing, links, config>>
  BY DEF StartPreviewing
<1>2. Right(hidden, wid, Current, Calm) BY SeenFields DEF DInv
<1> PICK h : h = Restored(hidden) OBVIOUS
<1>3. hidden' \in SUBSET Windows
  <2>1. h \in SUBSET Windows BY <1>2, FlagsTyped DEF Right
  <2>2. Flagged(FALSE, h) \in SUBSET Windows BY <2>1, FlagsTyped
  <2> QED BY <1>1, <2>2
<1>4. ASSUME NEW x \in Calm' PROVE x \in hidden' <=> x \in Off(wid, Current)
  <2>1. /\ x \in Windows /\ x # w /\ x \notin strayed'
        /\ ~(wid[x] \in dim' /\ <<x, wid[x]>> \in links)
    BY <1>1, <1>4 DEF Calm, Settled
  <2>2. ASSUME x \notin strayed, ~(wid[x] \in dim /\ <<x, wid[x]>> \in links)
        PROVE  x \in h <=> x \in Off(wid, Current)
    <3>1. x # peek => (x \in hidden <=> x \in Off(wid, Current))
      BY <1>2, <2>1, <2>2 DEF Right, Calm, Settled
    <3> QED BY <2>1, <3>1, RestoredShows
  <2>3. x \in Flagged(FALSE, h) <=> x \in Off(wid, Current)
    BY <1>1, <2>1, <2>2, FlaggedShows
  <2> QED BY <1>1, <2>1, <2>3
<1> QED BY <1>1, <1>3, <1>4, PreviewShows

\* Workspace::stopPreviewing.
LEMMA StopPreviewingShows ==
  ASSUME DInv, StopPreviewing
  PROVE  DInv'
<1>1. /\ hidden' = Restored(Flagged(TRUE, hidden)) /\ SetOpaque(TRUE) /\ peek' = None
      /\ UNCHANGED <<list, rows, wid, hist, capable, activated, browsing, links, config>>
  BY DEF StopPreviewing
<1>2. Right(hidden, wid, Current, Calm) BY SeenFields DEF DInv
<1> PICK h : h = Flagged(TRUE, hidden) OBVIOUS
<1>3. hidden' \in SUBSET Windows
  <2>1. h \in SUBSET Windows BY <1>2, FlagsTyped DEF Right
  <2> QED BY <1>1, <2>1, FlagsTyped
<1>4. ASSUME NEW x \in Calm' PROVE x \in hidden' <=> x \in Off(wid, Current)
  <2>1. /\ x \in Windows /\ x \notin strayed'
        /\ ~(wid[x] \in dim' /\ <<x, wid[x]>> \in links)
    BY <1>1, <1>4 DEF Calm, Settled
  <2>2. ASSUME x # peek PROVE x \in h <=> x \in Off(wid, Current)
    <3>1. (x \notin strayed /\ ~(wid[x] \in dim /\ <<x, wid[x]>> \in links))
            => (x \in hidden <=> x \in Off(wid, Current))
      BY <1>2, <2>1, <2>2 DEF Right, Calm, Settled
    <3> QED BY <1>1, <2>1, <3>1, FlaggedShows
  <2> QED BY <1>1, <2>1, <2>2, RestoredShows
<1> QED BY <1>1, <1>3, <1>4, PreviewShows

-----------------------------------------------------------------------------
\* The initial state shows the current workspace of the config.
LEMMA InitDInv == Init => DInv
<1> SUFFICES ASSUME Init PROVE DInv OBVIOUS
<1>1. Placed BY InitIInv DEF IInv, Placed
<1>2. /\ models = [i \in 1..cfgNum |-> i - 1] /\ cfgNum \in Nat /\ cfgCur \in Int
      /\ cur = cfgCur + 1 /\ cur \in 1..cfgNum
  BY WorkspacesAssumption DEF Init
<1>3. Len(models) = cfgNum /\ Current = cfgCur /\ cfgCur = cur - 1 BY <1>2 DEF Current
<1>4. Right(hidden, wid, Current, Calm) BY DEF Init, Off, Right, Calm
<1>5. Seen /\ Looks BY <1>3, <1>4, SeenFields DEF Init, Looks
<1>6. Typed BY DEF Init, Typed
<1> QED BY <1>1, <1>3, <1>5, <1>6 DEF DInv

\* Every step keeps the invariant.
LEMMA NextShows ==
  ASSUME DInv, [Next]_vars
  PROVE  DInv'
<1>1. ASSUME NEW i \in DOMAIN models, SwitchTo(i) PROVE DInv' BY <1>1, SwitchToShows
<1>2. ASSUME NEW i \in DOMAIN models, RemoveModel(i) PROVE DInv' BY <1>2, RemoveModelShows
<1>3. ASSUME NEW i \in DOMAIN models, NEW j \in DOMAIN models, MoveModelTo(i, j) PROVE DInv'
  BY <1>3, MoveModelToShows
<1>4. ASSUME Reloads PROVE DInv' BY <1>4, ReloadShows DEF Reloads
<1>5. ASSUME CreateModel PROVE DInv' BY <1>5, CreateModelShows
<1>6. ASSUME Deactivate PROVE DInv'
  <2>1. UNCHANGED <<list, placed, look, config>> BY <1>6 DEF Deactivate
  <2>2. Typed' BY <1>6 DEF Deactivate, DInv, Typed
  <2> QED BY <2>1, <2>2, SameView
<1>7. ASSUME ClearActived PROVE DInv'
  <2>1. UNCHANGED <<list, placed, look, config>> BY <1>7 DEF ClearActived
  <2>2. Typed' BY <1>7 DEF ClearActived, DInv, Typed
  <2> QED BY <2>1, <2>2, SameView
<1>8. ASSUME EnterMultitaskview PROVE DInv'
  <2>1. UNCHANGED <<list, placed, look, config>> BY <1>8 DEF EnterMultitaskview
  <2>2. Typed' BY <1>8 DEF EnterMultitaskview, DInv, Typed
  <2> QED BY <2>1, <2>2, SameView
<1>9. ASSUME NEW w \in Windows \cup {None}, ExitMultitaskview(w) PROVE DInv'
  <2>1. CASE w = None
    <3>1. UNCHANGED <<list, placed, look, config, hist, capable, activated>> /\ browsing' = FALSE
      BY <1>9, <2>1 DEF ExitMultitaskview, config
    <3>2. Typed' BY <3>1 DEF DInv, Typed
    <3> QED BY <3>1, <3>2, SameView
  <2>2. CASE w # None
    <3>1. /\ w \in Windows /\ wid[w] # Out /\ ForceActivate(w)
          /\ cfgNum' = cfgNum /\ browsing' \in BOOLEAN
      BY <1>9, <2>2 DEF ExitMultitaskview
    <3> QED BY <3>1, ForceActivateShows
  <2> QED BY <2>1, <2>2
<1>10. ASSUME NEW w \in Windows, NEW k \in Keys, AddSurface(w, k) PROVE DInv'
  BY <1>10, AddSurfaceShows
<1>11. ASSUME NEW w \in Windows, NEW k \in Keys, NEW menu \in BOOLEAN, MoveSurfaceTo(w, k, menu)
       PROVE  DInv'
  BY <1>11, MoveSurfaceToShows
<1>12. ASSUME NEW w \in Windows, NEW focused \in BOOLEAN, InactivationRequested(w, focused)
       PROVE  DInv'
  BY <1>12, InactivationRequestedShows
<1>13. ASSUME NEW w \in Windows, RequestWindow(w) PROVE DInv'
  <2>1. /\ wid[w] # Out /\ ForceActivate(w) /\ cfgNum' = cfgNum /\ browsing' \in BOOLEAN
    BY <1>13 DEF RequestWindow, DInv, Typed
  <2> QED BY <2>1, ForceActivateShows
<1>14. ASSUME NEW w \in Windows, ActivationRequested(w) PROVE DInv'
  BY <1>14, ActivationRequestedShows
<1>15. ASSUME NEW w \in Windows, RemoveSurface(w) PROVE DInv' BY <1>15, RemoveSurfaceShows
<1>16. ASSUME UNCHANGED vars PROVE DInv'
  <2>1. UNCHANGED <<list, placed, look, config>> BY <1>16 DEF vars
  <2>2. Typed' BY <1>16 DEF vars, DInv, Typed
  <2> QED BY <2>1, <2>2, SameView
<1>17. ASSUME NEW up \in BOOLEAN, ShowTask(up) PROVE DInv' BY <1>17, ShowTaskShows
<1>18. ASSUME NEW w \in Windows, StartPreviewing(w) PROVE DInv' BY <1>18, StartPreviewingShows
<1>19. ASSUME StopPreviewing PROVE DInv' BY <1>19, StopPreviewingShows
<1> QED
  BY <1>1, <1>2, <1>3, <1>4, <1>5, <1>6, <1>7, <1>8, <1>9, <1>10, <1>11, <1>12,
     <1>13, <1>14, <1>15, <1>16, <1>17, <1>18, <1>19 DEF Next

\* The display is in order in every reachable state.
LEMMA DisplayInvariant == Spec => []DInv
<1>1. DInv /\ [Next]_vars => DInv' BY NextShows
<1> QED BY InitDInv, <1>1, PTL DEF Spec

\* Every variable of the workspaces keeps its type: in particular m_currentIndex
\* is the index of a workspace after any removal, move or reload.
THEOREM TypeCorrect == Spec => []TypeOK
<1>1. DInv => TypeOK
  <2> SUFFICES ASSUME DInv PROVE TypeOK OBVIOUS
  <2>1. /\ visible = {Current} /\ hidden \subseteq Windows /\ cfgCur = cur - 1
    BY SeenFields DEF DInv, Right
  <2>2. Current \in Ids /\ Len(models) \in Nat /\ cur \in 1..Len(models) /\ cfgNum = Len(models)
    BY DEF DInv, Placed, ListInv, Current
  <2>3. cfgCur \in Nat BY <2>1, <2>2
  <2> QED BY <2>1, <2>2, <2>3 DEF TypeOK, DInv, Placed, ListInv, Places, Rows, Typed, Looks
<1> QED BY DisplayInvariant, <1>1, PTL

\* HiddenIffElsewhere for any windows and workspaces: m_hideByWorkspace is set on
\* exactly the settled windows of the workspaces that are not current, however
\* setVisible, addSurface, moveSurfaceTo, doRemoveModel, reloadFromConfig, setOpaque
\* and the previews follow each other.
THEOREM HiddenElsewhere == Spec => []HiddenIffElsewhere
<1>1. DInv => HiddenIffElsewhere
  <2> SUFFICES ASSUME DInv PROVE HiddenIffElsewhere OBVIOUS
  <2>1. \A w \in Windows : Settled(w) => (w \in hidden <=> w \in Off(wid, Current))
    BY SeenFields DEF DInv, Right, Calm
  <2>2. \A w \in Windows : wid[w] \in Listed \cup {All, Out}
    BY DEF DInv, Placed, Places, Rng, Listed
  <2> QED BY <2>1, <2>2 DEF HiddenIffElsewhere, Off
<1> QED BY DisplayInvariant, <1>1, PTL

\* ConfigTracks for any windows and workspaces: numWorkspace and currentWorkspace
\* of the config are those on display after every operation.
THEOREM ConfigFollows == Spec => []ConfigTracks
<1>1. DInv => ConfigTracks BY SeenFields DEF DInv, ConfigTracks
<1> QED BY DisplayInvariant, <1>1, PTL
=============================================================================
