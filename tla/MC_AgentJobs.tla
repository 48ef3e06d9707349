----------------------------- MODULE MC_AgentJobs -----------------------------
(***************************************************************************)
(* TLC instance of the two stores of long-running agent work: a durable    *)
(* Job (DurableAgentJobs) and the handoffs of a parent to its children     *)
(* (MultiAgentCoordination).  They share no state, so each runs while the  *)
(* other rests where it began.                                             *)
(***************************************************************************)
EXTENDS DurableAgentJobs, MultiAgentCoordination

MCInit == AgentJobInit /\ HandoffInit
MCNext == \/ HandoffInit /\ AgentJobNext /\ UNCHANGED handoffVars
          \/ AgentJobInit /\ state = "RUNNING" /\ HandoffNext /\ UNCHANGED agentJobVars
MCSpec == MCInit /\ [][MCNext]_<<agentJobVars, handoffVars>>

\* The workers and recoveries of the Job are named like the child workers and the handoffs, so
\* that one permutation renames both.
ASSUME SharedNames == AgentWorkers = ChildWorkers /\ Recoveries = Handoffs
MCSymmetry == HandoffSymmetry
=============================================================================
