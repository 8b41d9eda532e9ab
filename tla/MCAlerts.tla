------------------------------ MODULE MCAlerts ------------------------------
EXTENDS Alerts

\* In the organisations "top" and its child "sub".
MCOrgOf == [x \in {"m1", "m2", "o"} |-> IF x = "m2" THEN "top" ELSE "sub"]

\* All in one organisation.
MCOneOrg == [x \in {"m1", "m2", "o"} |-> "sub"]

\* All machines, and no other caller than the sweep.
SweepNext ==
    /\ AlertsNext
    /\ caller'["investigation"] \in {Resting, Stopped}
    /\ \A r \in Rules : alertRules'[r].caller # "investigation"

\* Every caller, and one machine.
OneMachineNext ==
    /\ AlertsNext
    /\ silent' \union deleted' \subseteq {"m1"}
    /\ caller'["investigation"].todo \subseteq {"m1"}
=============================================================================
