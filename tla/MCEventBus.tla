----------------------------- MODULE MCEventBus -----------------------------
(***************************************************************************)
(* The topic bus for TLC: two subscriptions to one topic, and events of    *)
(* that topic and of another.                                              *)
(***************************************************************************)
EXTENDS EventBus

CONSTANTS s1, s2, config, auth

MCTopics == {config, auth}
MCSubscriptions == {s1, s2}
MCInterest == [s \in MCSubscriptions |-> config]
=============================================================================
