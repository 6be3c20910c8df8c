------------------------------ MODULE JobStore ------------------------------
(***************************************************************************)
(* The SQLite tables a generation job lives in, and the transactions the   *)
(* coordinator, the start-up recovery, the reconciler and the operators    *)
(* run on them.  Each operator below is one `store.immediate` call: it     *)
(* either commits (its "Can" guard holds) or throws and changes nothing.   *)
(*                                                                         *)
(* Times are abstracted to what the code compares them with the clock for: *)
(* a hold is still running or has expired, a reconciliation is due later   *)
(* or now, a lease is live or has lapsed.                                  *)
(***************************************************************************)
EXTENDS Naturals

CONSTANTS
  Job,      \* the jobs clients may create; the provider's task for the
            \* submission of job j is called j as well
  NoTask,   \* a null task id
  Pid       \* the process ids the gateway may run under

ASSUME NoTaskAssumption == NoTask \notin Job

VARIABLES
  status,       \* jobs.status; "absent" before the row exists
  hold,         \* jobs.unknown_hold_until: "none", "held" or "expired"
  reconcile,    \* jobs.reconcile_after of a provider_status_unknown job
  task,         \* jobs.upstream_task_id
  budget,       \* budget_entries.state
  outcome,      \* provider_submissions.outcome
  baseline,     \* provider_submissions.baseline_json
  correlation,  \* provider_correlations.upstream_task_id
  lease         \* job_worker_leases: who holds the row, and whether it is live

jobVars        == <<status, hold, reconcile, task>>
submissionVars == <<outcome, baseline, correlation>>
storeVars      == <<jobVars, budget, submissionVars, lease>>

-----------------------------------------------------------------------------

JobStatus == {"queued", "submitting", "discovering", "processing",
              "unknown", "completed", "failed"}
Terminal  == {"completed", "failed"}

BudgetState == {"none", "reserved", "charged", "released"}

SubmissionOutcome ==
  {"none", "baseline_captured", "submitting", "submitted",
   "submission_ambiguous", "rejected", "correlated", "correlation_ambiguous",
   "provider_status_unknown", "provider_succeeded", "provider_failed"}

WorkerId == {"worker", "reconciler"} \X Pid
NoLease  == [by |-> <<>>, live |-> FALSE]
LeaseRow == {NoLease} \cup [by : WorkerId, live : BOOLEAN]

StoreTypeOK ==
  /\ status \in [Job -> JobStatus \cup {"absent"}]
  /\ hold \in [Job -> {"none", "held", "expired"}]
  /\ reconcile \in [Job -> {"none", "later", "due"}]
  /\ task \in [Job -> Job \cup {NoTask}]
  /\ budget \in [Job -> BudgetState]
  /\ outcome \in [Job -> SubmissionOutcome]
  /\ baseline \in [Job -> SUBSET Job]
  /\ correlation \in [Job -> Job \cup {NoTask}]
  /\ lease \in [Job -> LeaseRow]

StoreInit ==
  /\ status = [j \in Job |-> "absent"]
  /\ hold = [j \in Job |-> "none"]
  /\ reconcile = [j \in Job |-> "none"]
  /\ task = [j \in Job |-> NoTask]
  /\ budget = [j \in Job |-> "none"]
  /\ outcome = [j \in Job |-> "none"]
  /\ baseline = [j \in Job |-> {}]
  /\ correlation = [j \in Job |-> NoTask]
  /\ lease = [j \in Job |-> NoLease]

-----------------------------------------------------------------------------
(* Jobs. *)

allowedTransitions ==
  [queued      |-> {"submitting", "failed"},
   submitting  |-> {"discovering", "unknown", "failed"},
   discovering |-> {"processing", "completed", "unknown", "failed"},
   processing  |-> {"processing", "completed", "failed", "unknown"},
   unknown     |-> {"unknown", "discovering", "processing", "completed",
                    "failed"},
   completed   |-> {"completed"},
   failed      |-> {}]

CanTransition(j, expected, to) ==
  /\ status[j] \in expected
  /\ to \in allowedTransitions[status[j]]

\* A transition that leaves the unknown columns to the rule of the code: the
\* hold is cleared by every status but unknown.
Transition(j, to) ==
  /\ status' = [status EXCEPT ![j] = to]
  /\ hold' = [hold EXCEPT ![j] = IF to = "unknown" THEN "held" ELSE "none"]

-----------------------------------------------------------------------------
(* Budget entries. *)

\* Mutant: the idempotency key is not looked up.
ReserveAgain(j) ==
  /\ status' = [status EXCEPT ![j] = "queued"]
  /\ budget' = [budget EXCEPT ![j] = "reserved"]
  /\ UNCHANGED <<hold, reconcile, task, submissionVars>>

\* An idempotent hit of the same idempotency key is not a step: it changes no
\* row.
ReserveOrGet(j) ==
  /\ status[j] = "absent"
  /\ status' = [status EXCEPT ![j] = "queued"]
  /\ budget' = [budget EXCEPT ![j] = "reserved"]
  /\ UNCHANGED <<hold, reconcile, task, submissionVars>>

CanCharge(j) == budget[j] \in {"reserved", "charged"}
Charge(j)    == budget' = [budget EXCEPT ![j] = "charged"]

\* Mutant: the job fails and its entry is left reserved.
ReleaseForgotten(j) == UNCHANGED budget

ReleasePreSubmit(j) ==
  budget' = [budget EXCEPT ![j] = IF @ = "reserved" THEN "released" ELSE @]

\* The transaction rolls back when the entry is charged.
CanFailAndRelease(j, expected) ==
  /\ CanTransition(j, expected, "failed")
  /\ budget[j] \in {"reserved", "released"}
FailAndRelease(j) ==
  /\ Transition(j, "failed")
  /\ ReleasePreSubmit(j)
  /\ UNCHANGED <<reconcile, task, submissionVars>>

CanCancelQueued(j) == status[j] = "queued"
CancelQueued(j) ==
  /\ Transition(j, "failed")
  /\ ReleasePreSubmit(j)
  /\ UNCHANGED <<reconcile, task, submissionVars>>

\* Mutant: the status of the job is not looked at.
CanResolveAny(j) == budget[j] \in {"reserved", "charged"}

CanResolveUnknown(j) ==
  /\ status[j] = "unknown"
  /\ budget[j] \in {"reserved", "charged"}
ResolveUnknown(j, action) ==
  /\ budget' = [budget EXCEPT ![j] =
                  IF action = "charge" THEN "charged" ELSE "released"]
  /\ Transition(j, "failed")
  /\ UNCHANGED <<reconcile, task, submissionVars>>

-----------------------------------------------------------------------------
(* Submission evidence. *)

CanMark(j, expected) == outcome[j] \in expected
Mark(j, to) ==
  /\ outcome' = [outcome EXCEPT ![j] = to]
  /\ UNCHANGED <<baseline, correlation>>

\* A row that exists already is kept, with the baseline it was inserted with.
CaptureBaseline(j, ids) ==
  /\ IF outcome[j] = "none"
       THEN /\ outcome' = [outcome EXCEPT ![j] = "baseline_captured"]
            /\ baseline' = [baseline EXCEPT ![j] = ids]
       ELSE UNCHANGED <<outcome, baseline>>
  /\ UNCHANGED correlation

ProviderOpen == {"correlated", "provider_status_unknown"}
Uncorrelated == {"submitted", "submission_ambiguous", "correlation_ambiguous"}

\* Mutant: no other job is looked for.
BoundNowhere(j, t) == FALSE

\* correlate commits in both cases; on a conflict it throws after the commit.
BoundElsewhere(j, t) == \E k \in Job \ {j} : correlation[k] = t
Correlate(j, t) ==
  IF BoundElsewhere(j, t)
    THEN Mark(j, "correlation_ambiguous")
    ELSE /\ correlation' =
              [correlation EXCEPT ![j] = IF @ = NoTask THEN t ELSE @]
         /\ outcome' = [outcome EXCEPT ![j] =
                          IF @ \in Uncorrelated THEN "correlated" ELSE @]
         /\ UNCHANGED baseline

-----------------------------------------------------------------------------
(* Worker leases.  A row names its holder; a holder takes a row only when it *)
(* starts on a job, so the random token adds nothing to the name.            *)

\* Mutant: the owner is cleared, the expiry is not.
ReleasedOwnerOnly(j, w) ==
  [lease EXCEPT ![j].by = IF @ = w THEN <<>> ELSE @]

Owns(j, w)       == lease[j].by = w /\ lease[j].live
CanAcquire(j, w) == lease[j].live => lease[j].by = w
Acquired(j, w)   == [lease EXCEPT ![j] = [by |-> w, live |-> TRUE]]
Released(j, w)   == [lease EXCEPT ![j] = IF @.by = w THEN NoLease ELSE @]

LeaseLapses(j) ==
  /\ lease[j].live
  /\ lease' = [lease EXCEPT ![j].live = FALSE]
  /\ UNCHANGED <<jobVars, budget, submissionVars>>

=============================================================================
