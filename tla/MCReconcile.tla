----------------------------- MODULE MCReconcile -----------------------------
(* Instances of Reconcile for TLC: an application with two services, in one wave and
   in two. *)
EXTENDS Reconcile

OneWave == <<{"web", "db"}>>
TwoWaves == <<{"db"}, {"web"}>>
=============================================================================
