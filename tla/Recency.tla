------------------------------ MODULE Recency ------------------------------
(***************************************************************************)
(* The activation history of a WorkspaceModel, and its list of windows:    *)
(* ordered without repetitions, newest first.  Such a list is kept as a    *)
(* relation: <<a, b>> is in it when a is b or comes before b.              *)
(***************************************************************************)
CONSTANTS
  Windows,   \* toplevel surfaces
  None       \* nullptr

ASSUME RecencyAssumption == None \notin Windows

Elems(r)   == {w \in Windows : <<w, w>> \in r}
Keep(r, S) == {p \in r : p[1] \in S /\ p[2] \in S}

\* WorkspaceModel::removeActivedSurface, for a set of windows.
Drop(r, S) == {p \in r : p[1] \notin S /\ p[2] \notin S}

\* The entries of r in front of those of q, which are removed from q first.
Stack(r, q) ==
  LET below == Drop(q, Elems(r))
  IN  r \cup below \cup (Elems(r) \X Elems(below))

\* WorkspaceModel::pushActivedSurface.
Push(r, w) == Stack({<<w, w>>}, r)

Foremost(r) == {w \in Elems(r) : \A v \in Elems(r) : <<w, v>> \in r}

\* WorkspaceModel::latestActiveSurface.
Latest(r)  == IF Foremost(r) = {} THEN None ELSE CHOOSE w \in Foremost(r) : TRUE
=============================================================================
