----------------------------- MODULE MCMonitoring -----------------------------
(* Instances of Monitoring for TLC: no symmetry, which liveness forbids. *)
EXTENDS Monitoring, TLC

KafkaCelery == <<"kafka", "celery">>
===============================================================================
