---------------------------- MODULE MCCanaryGate ----------------------------
(* Instances of CanaryGate for TLC: the scrape Prometheus waits for and one *)
(* it has given up each have a thread.                                      *)
EXTENDS CanaryGate

CONSTANTS t1, t2

MCThreads == {t1, t2}
=============================================================================
