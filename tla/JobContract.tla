----------------------------- MODULE JobContract -----------------------------
(***************************************************************************)
(* What the job pipeline promises the owner of a Job, without relays,      *)
(* brokers, workers, leases or sweeps: the Job is accepted, executed,      *)
(* possibly given back to the queue, and settled once; it is authorised to *)
(* use the provider at most once and uses it at most once; it never goes   *)
(* back to the queue after that, and a success follows a real call.        *)
(***************************************************************************)
CONSTANT Jobs

VARIABLES status,      \* job_status as GET /v1/jobs/{job_id} reports it
          authorised,  \* the Job may have reached the provider
          called       \* the Job did reach the provider

vars == <<status, authorised, called>>

Init == /\ status = [j \in Jobs |-> "absent"]
        /\ authorised = [j \in Jobs |-> FALSE]
        /\ called = [j \in Jobs |-> FALSE]

\* Job j moves to status s, with its authorisation and call as given.
Becomes(j, s, a, c) == status'[j] = s /\ authorised'[j] = a /\ called'[j] = c

Same(j) == Becomes(j, status[j], authorised[j], called[j])

Accept(j) == status[j] = "absent" /\ Becomes(j, "queued", authorised[j], called[j])
Start(j)  == status[j] = "queued" /\ Becomes(j, "running", authorised[j], called[j])

\* Only a Job that cannot have reached the provider is executed again.
Requeue(j) == /\ status[j] = "running" /\ ~authorised[j]
              /\ Becomes(j, "queued", FALSE, called[j])

Authorise(j) == /\ status[j] = "running" /\ ~authorised[j]
                /\ Becomes(j, "running", TRUE, called[j])

\* The call may come after the Job was given up for reconciliation.
Call(j) == /\ authorised[j] /\ ~called[j]
           /\ status[j] \in {"running", "pending_reconciliation"}
           /\ Becomes(j, status[j], TRUE, TRUE)

Settle(j) == /\ status[j] = "running" /\ authorised[j]
             /\ \/ called[j] /\ Becomes(j, "succeeded", TRUE, TRUE)
                \/ called[j] /\ Becomes(j, "failed", TRUE, TRUE)
                \/ Becomes(j, "pending_reconciliation", TRUE, called[j])

\* Jobs are independent; one step (a sweep) may move several of them.
Next == /\ \A j \in Jobs : Same(j) \/ Accept(j) \/ Start(j) \/ Requeue(j)
                                   \/ Authorise(j) \/ Call(j) \/ Settle(j)
        /\ DOMAIN status' = Jobs /\ DOMAIN authorised' = Jobs /\ DOMAIN called' = Jobs

Spec == Init /\ [][Next]_vars
=============================================================================
