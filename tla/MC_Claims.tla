------------------------------ MODULE MC_Claims ------------------------------
(***************************************************************************)
(* TLC instance of the places where a claim comes before an effect outside *)
(* any lock: a human-approved action (HumanControl), a delivered Job       *)
(* (WorkerExecution), and the Document check and the relay of a Job intent *)
(* (JobIntake).  The three share no state, so each runs while the others   *)
(* rest where they began.                                                  *)
(***************************************************************************)
EXTENDS HumanControl, WorkerExecution, JobIntake, TLC

CONSTANTS g1, d1, d2, i1, v1, r1, r2     \* command identities

Cmd(i, op, d, choice, to) == [id |-> i, op |-> op, decision |-> d, choice |-> choice, to |-> to]

\* A gate, two people's contradicting decisions, an interrupt, a revocation and two
\* recoveries.
SomeCommands ==
    {Cmd(g1, "GATE", None, None, None),
     Cmd(d1, "DECISION", "x", "APPROVED", None), Cmd(d2, "DECISION", "y", "REJECTED", None),
     Cmd(i1, "INTERRUPT", None, None, None), Cmd(v1, "INVALIDATE", None, None, "REVOKED"),
     Cmd(r1, "RECOVER", None, None, None), Cmd(r2, "RECOVER", None, None, None)}

\* Two commands over the client's own document, and one over a document of another tenant.
MCRequests == [a |-> {"own"}, b |-> {"own"}, f |-> {"foreign"}]

ControlRests == risk = "LOW" /\ Init
WorkerRests == ~ackLate /\ ~job.supported /\ WorkerInit
IntakeRests == BackendInit /\ session.state = "uploading"

MCInit == Init /\ WorkerInit /\ BackendInit
MCNext == \/ WorkerRests /\ IntakeRests /\ Next /\ UNCHANGED <<workerVars, uploadVars, intakeVars>>
          \/ ControlRests /\ IntakeRests /\ WorkerNext /\ UNCHANGED <<vars, uploadVars, intakeVars>>
          \/ ControlRests /\ WorkerRests /\ BackendNext /\ UNCHANGED <<vars, workerVars>>
MCSpec == MCInit /\ [][MCNext]_<<vars, workerVars, uploadVars, intakeVars>>

\* Verifiers are named like the Worker processes, relays like the recovery commands: one
\* permutation renames both.
ASSUME SharedNames == Verifiers = Processes /\ Relays = {r1, r2}
Symmetry == UNION {Permutations(S) : S \in {Relays, Processes, Clients}}
=============================================================================
