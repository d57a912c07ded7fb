-------------------------- MODULE ConfigRequests --------------------------
(***************************************************************************)
(* What zwlr_output_manager_v1 promises of a configuration that a client   *)
(* applies, whatever the compositor does to carry it out: it is answered   *)
(* once, never again after it was destroyed, and it is answered with       *)
(* success only when every output it names was committed as it asks.       *)
(* Several configurations may take a step at the same time: a new one      *)
(* answers the one it supersedes.                                          *)
(***************************************************************************)
CONSTANTS
    Configs,   \* the wlr_output_configuration_v1 objects (addresses, reused)
    Outputs    \* the outputs

VARIABLE req   \* what the client of each configuration has seen of it

Phases == {"none", "wanted", "queued", "done", "failed", "lost"}

Nothing == [o \in Outputs |-> "none"]

\* One configuration: whether it is owed an answer or the last answer, how far
\* the commit of each output has come (with success, how far it had come by
\* then), and whether it was used after its destruction.
Request == [life : {"asked", "ok", "failed"}, head : [Outputs -> Phases],
            stale : BOOLEAN]

Fresh == [life |-> "failed", head |-> Nothing, stale |-> FALSE]

\* The next phase of the commit of one output.
Moves(h, k) == \/ h = "wanted" /\ k = "queued"
               \/ h = "queued" /\ k \in {"done", "failed", "lost"}

\* The commits progress, or stay where they are.
Progress(a, b) == \A o \in Outputs : b[o] = a[o] \/ Moves(a[o], b[o])

\* Every output the configuration names has been committed as it asks.
AllDone(h) == \A o \in Outputs : h[o] \in {"none", "done"}

\* The client sends apply, for some of the outputs.
Asked(s, t) == /\ s.life # "asked" /\ t.life = "asked"
               /\ t.head \in [Outputs -> {"none", "wanted"}]

\* The compositor works on a configuration that is owed an answer.
Working(s, t) == /\ s.life = "asked" /\ t.life = "asked"
                 /\ Progress(s.head, t.head)

\* The one answer.  Success comes with the last report, and only when the commit
\* of every output that is named has been reported done.
Answered(s, t) == /\ s.life = "asked"
                  /\ \/ t.life = "ok" /\ Progress(s.head, t.head) /\ AllDone(t.head)
                     \/ t.life = "failed" /\ t.head = Nothing

Allowed(s, t) == ~t.stale /\ (Asked(s, t) \/ Working(s, t) \/ Answered(s, t))

Init == req = [c \in Configs |-> Fresh]

Next == /\ req' \in [Configs -> Request]
        /\ \A c \in Configs : req'[c] = req[c] \/ Allowed(req[c], req'[c])

Spec == Init /\ [][Next]_req
===========================================================================
