------------------------------- MODULE MCCgiRun -------------------------------
(* Instances of CgiRun for TLC: scripts that print their Status line first or     *)
(* after other headers, that print none, and that fail although they have said 200. *)
EXTENDS CgiRun

Says(at) == [at |-> at, code |-> 200]
SomeEndings == {[how |-> "well", out |-> Says(0)], [how |-> "well", out |-> Says(30)],
                [how |-> "failed", out |-> Says(0)], [how |-> "killed", out |-> Silent]}
=============================================================================
