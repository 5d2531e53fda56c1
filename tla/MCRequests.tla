----------------------------- MODULE MCRequests ------------------------------
(***************************************************************************)
(* The blue-green deployer, the comparison of a commit with its            *)
(* containers, the event streams, and the login and the pages of the web   *)
(* console, checked in one run.  They share no state, so each behaviour    *)
(* moves one part and leaves the others as they start; `part' says which.  *)
(***************************************************************************)
EXTENDS BlueGreen, MCDrift, HostStream, LocalAuth, MCPresentation

VARIABLE part

requestVars == <<deployVars, driftVars, streamVars, authVars, pageVars, part>>

RequestInit ==
  /\ part \in {"deploy", "drift", "streams", "login", "pages"}
  /\ DeployInit /\ DriftInit /\ StreamInit /\ AuthInit /\ PageInit

RequestNext ==
  \/ /\ part = "deploy" /\ DeployNext
     /\ UNCHANGED <<driftVars, streamVars, authVars, pageVars, part>>
  \/ /\ part = "drift" /\ DriftNext
     /\ UNCHANGED <<deployVars, streamVars, authVars, pageVars, part>>
  \/ /\ part = "streams" /\ StreamNext
     /\ UNCHANGED <<deployVars, driftVars, authVars, pageVars, part>>
  \/ /\ part = "login" /\ AuthNext
     /\ UNCHANGED <<deployVars, driftVars, streamVars, pageVars, part>>
  \/ /\ part = "pages" /\ PageNext
     /\ UNCHANGED <<deployVars, driftVars, streamVars, authVars, part>>

RequestSpec == RequestInit /\ [][RequestNext]_requestVars
=============================================================================
