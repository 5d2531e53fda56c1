---------------------------- MODULE AtomicRollout ----------------------------
(***************************************************************************)
(* What a zero-downtime deployment promises, whoever carries it out.       *)
(* `current' is the revision of the last deployment that succeeded,        *)
(* `target' the one being deployed, and `serving' the set of revisions     *)
(* that answer requests.  While a deployment runs, the current revision    *)
(* keeps answering, and the target may answer beside it; the deployment    *)
(* ends with one of the two answering alone.                               *)
(***************************************************************************)
CONSTANTS Revs, NoRev

VARIABLES current, target, serving

vars == <<current, target, serving>>

Only(r) == {r} \ {NoRev}

Init ==
    /\ current = NoRev
    /\ target = NoRev
    /\ serving = {}

Start(r) ==
    /\ target = NoRev
    /\ target' = r
    /\ UNCHANGED <<current, serving>>

TargetComesUp ==
    /\ target # NoRev
    /\ serving' = Only(current) \cup {target}
    /\ UNCHANGED <<current, target>>

Succeed ==
    /\ target # NoRev
    /\ target \in serving
    /\ current' = target
    /\ target' = NoRev
    /\ serving' = {target}

Fail ==
    /\ target # NoRev
    /\ target' = NoRev
    /\ serving' = Only(current)
    /\ UNCHANGED current

Next ==
    \/ \E r \in Revs : Start(r)
    \/ TargetComesUp
    \/ Succeed
    \/ Fail

Spec == Init /\ [][Next]_vars
=============================================================================
