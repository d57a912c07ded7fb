-------------------------- MODULE MCOutputConfig --------------------------
(***************************************************************************)
(* Instances of OutputConfig for TLC: no group, or a group of all outputs. *)
(***************************************************************************)
EXTENDS OutputConfig

MCGroups == {[members |-> {}, source |-> NoOutput]}
                \cup [members : {Outputs}, source : Outputs]

\* The group has the same source throughout.
MCOneGroup == {[members |-> {}, source |-> NoOutput],
               [members |-> Outputs, source |-> CHOOSE o \in Outputs : TRUE]}

\* The initial scan is over: every output was found and restored.
ReadyInit ==
    /\ waiting = {} /\ plugged = Outputs /\ scan = "done"
    /\ single \in Outputs \cup {NoOutput}
    /\ on = IF single = NoOutput THEN Outputs ELSE {single}
    /\ dpms = {} /\ mode = "extension"
    /\ proxy = [o \in Outputs |-> NoOutput]
    /\ group \in Groups /\ eff = NoMirrors
    /\ pend = NoPend /\ jobs = [o \in Outputs |-> <<>>] /\ inFlight = 0
    /\ dirty = FALSE /\ queued = TRUE
    /\ loop = NoLoop /\ run = NoRun
    /\ req = [c \in Configs |-> CR!Fresh]

ReadySpec == ReadyInit /\ [][Next]_vars /\ Fairness
===========================================================================
