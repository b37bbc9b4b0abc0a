---------------------------- MODULE MCSkillExec ----------------------------
(***************************************************************************)
(* Skill execution for TLC: two requests of one user whose quota is one    *)
(* call and a pipeline of two stages share a queue of one job.             *)
(***************************************************************************)
EXTENDS SkillExec, TLC

CONSTANTS q1, q2, p1, w1, w2

MCRequests == {q1, q2}
MCPipelines == {p1}
MCWorkers == {w1, w2}
MCMaxCalls == (q1 :> 1) @@ (q2 :> 1) @@ (p1 :> 2)
=============================================================================
