----------------------------- MODULE MCGateRun ------------------------------
(***************************************************************************)
(* Instances of GateRun for TLC: a call that starts a run, and one that    *)
(* asks for it or follows its log.                                         *)
(***************************************************************************)
EXTENDS GateRun

CONSTANTS starter, reader

Deploy == [kind |-> "deploy", fields |-> {"playbook", "commit", "session", "extra_vars"},
           bad |-> {}, vars |-> "secret", lines |-> FALSE, run |-> starter]
OfLines == [Deploy EXCEPT !.lines = TRUE]
Escaped == [Deploy EXCEPT !.vars = "escaped"]
Tofu == [kind |-> "tofu", fields |-> {"workspace", "action", "commit", "session"},
         bad |-> {}, vars |-> "none", lines |-> FALSE, run |-> starter]
NoCommit == [Tofu EXCEPT !.fields = @ \ {"commit"}]
BadLimit == [Deploy EXCEPT !.fields = @ \cup {"limit"}, !.bad = {"limit"}]
Follow == [Tofu EXCEPT !.kind = "logs", !.fields = {"run", "follow"}]
Look == [Tofu EXCEPT !.kind = "logs", !.fields = {"run"}]
StatusOf == [Look EXCEPT !.kind = "status"]
UnlockOf == [Look EXCEPT !.kind = "unlock", !.fields = {"host", "run", "reason"}]
AllRuns == [Look EXCEPT !.kind = "runs", !.fields = {}]

Calls == {starter, reader}
CallAsks == [c \in Calls |->
  IF c = starter THEN {Deploy, OfLines, Escaped, Tofu, NoCommit, BadLimit}
                 ELSE {Follow, Look, StatusOf, UnlockOf, AllRuns}]
OneLabel == {1}
TwoLabels == {1, 2}
=============================================================================
