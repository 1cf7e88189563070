----------------------------- MODULE LeasedJobs ------------------------------
(***************************************************************************)
(* The leased jobs of one catalog table (leased_jobs.py): claim, lease,    *)
(* fence, retry with backoff, give up. The operators are the helper's      *)
(* writes, to be made inside a caller's transaction.                       *)
(*                                                                         *)
(* A row's lease_token is drawn at random at every claim. Here it is the   *)
(* worker whose current claim it belongs to: a worker runs one claim at a  *)
(* time, and a row whose claim ended has none.                             *)
(***************************************************************************)
EXTENDS Integers, FiniteSets

CONSTANTS
    Jobs,     \* the keys of the table's rows
    Workers,  \* who claims jobs
    Retries,  \* len(retry_delays_seconds)
    Lease,    \* ticks a claim's lease lasts
    Delay,    \* ticks a retried job waits
    Memory    \* how many ticks past a lease's end are told apart

ASSUME JobsAssumption ==
    /\ Retries \in Nat
    /\ Lease \in Nat \ {0}
    /\ Delay \in Nat
    /\ Memory \in Nat \ {0}

VARIABLES
    state,      \* the row's state, "none" without a row
    holder,     \* whose claim's token the row bears, as a set of at most one
    leaseLeft,  \* ticks left of a running job's lease, negative once expired
    attempts,   \* failed attempts so far
    wait        \* ticks until a pending job's next attempt

jobVars == <<state, holder, leaseLeft, attempts, wait>>

-----------------------------------------------------------------------------

Terminal == {"stored", "unavailable", "failed", "expired"}

JobsInit ==
    /\ state = [j \in Jobs |-> "none"]
    /\ holder = [j \in Jobs |-> {}]
    /\ leaseLeft = [j \in Jobs |-> 0]
    /\ attempts = [j \in Jobs |-> 0]
    /\ wait = [j \in Jobs |-> 0]

JobsTypeOK ==
    /\ state \in [Jobs -> {"none", "pending", "running"} \cup Terminal]
    /\ holder \in [Jobs -> SUBSET Workers]
    /\ leaseLeft \in [Jobs -> (-Memory)..Lease]
    /\ attempts \in [Jobs -> 0..(Retries + 1)]
    /\ wait \in [Jobs -> 0..Delay]

Expired == {j \in Jobs : state[j] = "running" /\ leaseLeft[j] < 0}
Due == {j \in Jobs : state[j] = "pending" /\ wait[j] = 0}

\* holds: the claim's token still names the row.
Holds(w, j) == state[j] = "running" /\ w \in holder[j]

\* Slip: a takeover puts the job off without counting its attempt.
CountedReported(j) == IF j \in Expired THEN attempts[j] ELSE attempts[j] + 1

\* The failed attempts of a job with one more.
Counted(j) == attempts[j] + 1

\* Slip: there is always another attempt.
AlwaysPending(j) == "pending"

\* Past the last delay the job has failed.
AfterFailure(j) == IF Counted(j) > Retries THEN "failed" ELSE "pending"

\* The rows of these jobs are due, with no failed attempt and no claim.
Enqueue(jobs) ==
    /\ state' = [j \in Jobs |-> IF j \in jobs THEN "pending" ELSE state[j]]
    /\ holder' = [j \in Jobs |-> IF j \in jobs THEN {} ELSE holder[j]]
    /\ leaseLeft' = [j \in Jobs |-> IF j \in jobs THEN 0 ELSE leaseLeft[j]]
    /\ attempts' = [j \in Jobs |-> IF j \in jobs THEN 0 ELSE attempts[j]]
    /\ wait' = [j \in Jobs |-> IF j \in jobs THEN 0 ELSE wait[j]]

\* One claim transaction: each expired holder's attempt is counted (claim, taken over,
\* then retry), and the worker leases one job that is due, if any.
ClaimDue(w, claimed) ==
    /\ claimed \subseteq Due
    /\ IF Due = {} THEN Expired # {} ELSE \E j \in Due : claimed = {j}
    /\ state' = [j \in Jobs |-> IF j \in claimed THEN "running"
                                ELSE IF j \in Expired THEN AfterFailure(j) ELSE state[j]]
    /\ holder' = [j \in Jobs |-> IF j \in claimed THEN {w}
                                 ELSE IF j \in Expired THEN {} ELSE holder[j]]
    /\ leaseLeft' = [j \in Jobs |-> IF j \in claimed THEN Lease
                                    ELSE IF j \in Expired THEN 0 ELSE leaseLeft[j]]
    /\ attempts' = [j \in Jobs |-> IF j \in Expired THEN Counted(j) ELSE attempts[j]]
    /\ wait' = [j \in Jobs |-> IF j \in Expired /\ AfterFailure(j) = "pending" THEN Delay
                               ELSE wait[j]]

\* complete, by a claim that holds the job.
Complete(j, terminal) ==
    /\ state' = [state EXCEPT ![j] = terminal]
    /\ holder' = [holder EXCEPT ![j] = {}]
    /\ leaseLeft' = [leaseLeft EXCEPT ![j] = 0]
    /\ UNCHANGED <<attempts, wait>>

\* retry, by a claim that holds the job.
Retry(j) ==
    /\ state' = [state EXCEPT ![j] = AfterFailure(j)]
    /\ holder' = [holder EXCEPT ![j] = {}]
    /\ leaseLeft' = [leaseLeft EXCEPT ![j] = 0]
    /\ attempts' = [attempts EXCEPT ![j] = Counted(j)]
    /\ wait' = [wait EXCEPT ![j] = IF AfterFailure(j) = "pending" THEN Delay ELSE 0]

\* release: every running job is pending again, due now.
Release ==
    /\ state' = [j \in Jobs |-> IF state[j] = "running" THEN "pending" ELSE state[j]]
    /\ holder' = [j \in Jobs |-> {}]
    /\ leaseLeft' = [j \in Jobs |-> 0]
    /\ UNCHANGED <<attempts, wait>>

\* The row is deleted.
Forget(j) ==
    /\ state' = [state EXCEPT ![j] = "none"]
    /\ holder' = [holder EXCEPT ![j] = {}]
    /\ leaseLeft' = [leaseLeft EXCEPT ![j] = 0]
    /\ attempts' = [attempts EXCEPT ![j] = 0]
    /\ wait' = [wait EXCEPT ![j] = 0]

\* Every row is deleted.
ForgetAll ==
    /\ state' = [j \in Jobs |-> "none"]
    /\ holder' = [j \in Jobs |-> {}]
    /\ leaseLeft' = [j \in Jobs |-> 0]
    /\ attempts' = [j \in Jobs |-> 0]
    /\ wait' = [j \in Jobs |-> 0]

\* A tick: leases run and delays pass.
JobsTick ==
    /\ leaseLeft' = [j \in Jobs |-> IF state[j] = "running" /\ leaseLeft[j] > -Memory
                                    THEN leaseLeft[j] - 1 ELSE leaseLeft[j]]
    /\ wait' = [j \in Jobs |-> IF wait[j] > 0 THEN wait[j] - 1 ELSE 0]
    /\ UNCHANGED <<state, holder, attempts>>

=============================================================================
