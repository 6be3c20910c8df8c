----------------------------- MODULE Generation -----------------------------
(***************************************************************************)
(* One gateway process of the SQLite build and the jobs of one account:    *)
(* the coordinator's runners, the start-up recovery, the reconciler of the *)
(* maintenance tick, the operators, and the provider they all talk to.     *)
(* The process may be killed or shut down at any time and started again    *)
(* under any process id.                                                   *)
(*                                                                         *)
(* Node runs JavaScript to completion between two awaits, so a runner at a *)
(* label of Sync keeps every other callback of the process out.  What the  *)
(* process cannot keep out may happen at every step: a kill, the clock,    *)
(* the provider.  An action is at most one database transaction, together  *)
(* with the answer it reacts to and the in-memory changes that follow it,  *)
(* so that a kill may fall between any two transactions.                   *)
(***************************************************************************)
EXTENDS JobStore, FiniteSets

CONSTANTS
  Alike,      \* Alike[j]: the jobs whose task matchAsset takes for a task of j
  MaxStarts,  \* bound: how often the process is started
  AllowStall  \* may a live process miss its heartbeats until a lease lapses?

ASSUME AlikeAssumption == Alike \in [Job -> SUBSET Job]
ASSUME StartsAssumption == MaxStarts \in Nat /\ AllowStall \in BOOLEAN

VARIABLES
  \* The process.
  mode,      \* "down", "boot", "up", "stopping" (registry closed, submissions
             \* draining) or "aborting" (pollers stopped)
  pid,       \* its process id
  starts,    \* how often it was started
  todo,      \* the jobs the start-up recovery has still to visit
  \* Its runners.
  pc,        \* where the runner of a job is; "idle" without a runner
  held,      \* does the job hold its capacity slots?
  behind,    \* the runners it queues behind for the discovery lock
  seen,      \* the assets in the runner's memory: the baseline of a discovery,
             \* then the asset it found
  \* Its reconciler.
  rpc,       \* where the scan is
  rjob,      \* the job it is at
  scan,      \* the due jobs it has still to visit
  \* The provider and the operators.
  sent,      \* how often submitOnce sent the request of a job
  inflight,  \* the requests still on the wire
  accepted,  \* the submissions the provider made a task for
  listed,    \* the tasks whose asset the asset list shows
  decision   \* what an operator ruled about an unknown job

processVars    == <<mode, pid, starts, todo>>
runnerVars     == <<pc, held, behind, seen>>
reconcilerVars == <<rpc, rjob, scan>>
wireVars       == <<sent, inflight, accepted, listed>>
vars == <<storeVars, processVars, runnerVars, reconcilerVars, wireVars,
          decision>>

-----------------------------------------------------------------------------

Await == {"prepare", "resumeQueued", "upload", "awaitLock", "snapshot",
          "sending", "awaitDiscover", "discover", "waitUnknown",
          "awaitRediscover", "discoverUnknown", "poll", "markTerminal", "resume"}
Sync  == {"toSubmitting", "markSubmitting", "send", "charge", "toDiscovering",
          "toProcessing", "toUnknown", "deadlineUnknown", "failQueued",
          "failReject", "resumeProcessing"}
Label == {"idle"} \cup Await \cup Sync

ReconcilerSync == {"settle", "defer", "markDeferred", "lastDefer",
                   "markLastDeferred"}
ReconcilerLabel == {"idle", "scan", "poll"} \cup ReconcilerSync

\* The labels from a call of runtime.discoveryLock.runExclusive to its end.
InLock == {"awaitLock", "snapshot", "toSubmitting", "markSubmitting", "send",
           "sending", "failReject", "charge", "toDiscovering",
           "awaitDiscover", "discover", "awaitRediscover", "discoverUnknown"}

\* A runner of these has reserved the submit critical section.
Reserved == {"upload", "awaitLock", "snapshot", "toSubmitting",
             "markSubmitting", "send", "sending", "failReject", "charge",
             "failQueued"}

\* These look at the abort signal of the pollers before they go on.
Abortable == {"awaitDiscover", "discover", "waitUnknown", "awaitRediscover",
              "discoverUnknown", "poll", "resume"}

InProgress == {"submitting", "discovering", "processing"}

ProcessTypeOK ==
  /\ mode \in {"down", "boot", "up", "stopping", "aborting"}
  /\ pid \in Pid
  /\ starts \in 0..MaxStarts
  /\ todo \subseteq Job

RunnerTypeOK ==
  /\ pc \in [Job -> Label]
  /\ held \in [Job -> BOOLEAN]
  /\ behind \in [Job -> SUBSET Job]
  /\ seen \in [Job -> SUBSET Job]

ReconcilerTypeOK ==
  /\ rpc \in ReconcilerLabel
  /\ rjob \in Job \cup {NoTask}
  /\ scan \subseteq Job

WireTypeOK ==
  /\ sent \in [Job -> Nat]
  /\ inflight \subseteq Job
  /\ accepted \subseteq Job
  /\ listed \subseteq accepted

TypeOK ==
  /\ StoreTypeOK /\ ProcessTypeOK /\ RunnerTypeOK /\ ReconcilerTypeOK
  /\ WireTypeOK
  /\ decision \in [Job -> {"none", "charge", "release"}]

MemoryInit ==
  /\ todo = {}
  /\ pc = [j \in Job |-> "idle"]
  /\ held = [j \in Job |-> FALSE]
  /\ behind = [j \in Job |-> {}]
  /\ seen = [j \in Job |-> {}]
  /\ rpc = "idle"
  /\ rjob = NoTask
  /\ scan = {}

Init ==
  /\ StoreInit
  /\ mode = "down" /\ pid \in Pid /\ starts = 0
  /\ MemoryInit
  /\ sent = [j \in Job |-> 0]
  /\ inflight = {} /\ accepted = {} /\ listed = {}
  /\ decision = [j \in Job |-> "none"]

-----------------------------------------------------------------------------
(* Control. *)

Worker     == <<"worker", pid>>
Reconciler == <<"reconciler", pid>>

Running == mode \in {"up", "stopping", "aborting"}

\* No callback of another runner or of the reconciler is half way.  Runners at
\* "resume" are entered right after the recovery, before any other callback.
Turn(j) ==
  /\ \A k \in Job \ {j} :
       pc[k] \notin Sync \cup (IF pc[j] = "resume" THEN {} ELSE {"resume"})
  /\ rpc \notin ReconcilerSync

\* The event loop is between callbacks, and no runner waits to be entered.
Quiet ==
  /\ \A k \in Job : pc[k] \notin Sync \cup {"resume"}
  /\ rpc \notin ReconcilerSync

\* The runner of j is entered at label l.
At(j, l) ==
  /\ pc[j] = l
  /\ Running
  /\ mode = "aborting" => l \notin Abortable
  /\ Turn(j)
  /\ UNCHANGED <<processVars, reconcilerVars, decision>>

\* The runner moves on.  The discovery lock is a chain of promises: who calls
\* runExclusive queues behind all who called it before and are not done.
MoveTo(j, l) ==
  /\ pc' = [pc EXCEPT ![j] = l]
  /\ behind' = CASE l \notin InLock ->
                     [k \in Job |-> IF k = j THEN {} ELSE behind[k] \ {j}]
                [] l \in InLock /\ pc[j] \notin InLock ->
                     [behind EXCEPT ![j] = {k \in Job \ {j} : pc[k] \in InLock}]
                [] OTHER -> behind

Goto(j, l) == MoveTo(j, l) /\ UNCHANGED <<held, seen>>

\* The runner ends: withWorkerLease deletes the lease row it still holds, and
\* the capacity slots go unless the caller keeps them.
Leave(j, keeps) ==
  /\ MoveTo(j, "idle")
  /\ held' = [held EXCEPT ![j] = @ /\ keeps]
  /\ seen' = [seen EXCEPT ![j] = {}]
  /\ lease' = Released(j, Worker)

\* The outer catch of runInitial and resumeRecovered: the runner ends with the
\* job as it is, and only a terminal job gives its slots back.
Abandon(j) ==
  /\ Leave(j, status[j] \notin Terminal)
  /\ UNCHANGED <<jobVars, budget, submissionVars>>

Fenced(j) == Owns(j, Worker)

\* Mutant: who waits for the lock counts as its holder.
LockFreeOfAll(j) == \A k \in Job \ {j} : pc[k] \notin InLock

LockFree(j) == behind[j] = {}

-----------------------------------------------------------------------------
(* create: admission, and the awaits until the runner is started. *)

Create(j) ==
  /\ mode = "up" /\ Quiet
  /\ ReserveOrGet(j)
  /\ MoveTo(j, "prepare")
  /\ held' = [held EXCEPT ![j] = TRUE]
  /\ UNCHANGED <<lease, processVars, seen, reconcilerVars, wireVars, decision>>

StartRunner(j) ==
  /\ At(j, "prepare") /\ mode = "up" /\ Quiet
  /\ CanAcquire(j, Worker)
  /\ lease' = Acquired(j, Worker)
  /\ Goto(j, "upload")
  /\ UNCHANGED <<jobVars, budget, submissionVars, wireVars>>

\* The inputs or the request snapshot cannot be stored.  When a client has
\* cancelled meanwhile, failAndRelease throws and the slots are not given back.
PrepareFails(j) ==
  /\ At(j, "prepare") /\ Quiet
  /\ Leave(j, ~CanFailAndRelease(j, {"queued"}))
  /\ IF CanFailAndRelease(j, {"queued"})
       THEN FailAndRelease(j)
       ELSE UNCHANGED <<jobVars, budget, submissionVars>>
  /\ UNCHANGED wireVars

\* The registry no longer accepts the runner; the lease row is left behind.
StartRefused(j) ==
  /\ At(j, "prepare") /\ mode # "up" /\ Quiet
  /\ lease' = IF CanAcquire(j, Worker) THEN Acquired(j, Worker) ELSE lease
  /\ IF CanFailAndRelease(j, {"queued"})
       THEN FailAndRelease(j)
       ELSE UNCHANGED <<jobVars, budget, submissionVars>>
  /\ MoveTo(j, "idle")
  /\ held' = [held EXCEPT ![j] = FALSE]
  /\ UNCHANGED <<seen, wireVars>>

-----------------------------------------------------------------------------
(* runInitial: from the upload to the provider's answer. *)

Upload(j) ==
  /\ At(j, "upload")
  /\ \/ Goto(j, "awaitLock") \/ Goto(j, "failQueued")
  /\ UNCHANGED <<storeVars, wireVars>>

TakeDiscoveryLock(j) ==
  /\ At(j, "awaitLock") /\ LockFree(j)
  /\ Goto(j, "snapshot")
  /\ UNCHANGED <<storeVars, wireVars>>

\* The asset list is read and becomes the baseline.
Snapshot(j) ==
  /\ At(j, "snapshot") /\ Fenced(j)
  /\ CaptureBaseline(j, listed)
  /\ seen' = [seen EXCEPT ![j] = listed]
  /\ MoveTo(j, "toSubmitting")
  /\ UNCHANGED <<jobVars, budget, lease, held, wireVars>>

\* The read fails, the fence is lost, or the row of an earlier attempt has
\* another fingerprint.
SnapshotFails(j) ==
  /\ At(j, "snapshot")
  /\ Goto(j, "failQueued")
  /\ UNCHANGED <<storeVars, wireVars>>

ToSubmitting(j) ==
  /\ At(j, "toSubmitting")
  /\ IF Fenced(j) /\ CanTransition(j, {"queued"}, "submitting")
       THEN /\ Transition(j, "submitting")
            /\ Goto(j, "markSubmitting")
            /\ UNCHANGED <<reconcile, task>>
       ELSE /\ Goto(j, "failQueued")
            /\ UNCHANGED jobVars
  /\ UNCHANGED <<budget, submissionVars, lease, wireVars>>

\* Mutant: the intent to submit is not recorded.
MarkSubmittingLater(j) ==
  /\ At(j, "markSubmitting")
  /\ Goto(j, "send")
  /\ UNCHANGED <<storeVars, wireVars>>

MarkSubmitting(j) ==
  /\ At(j, "markSubmitting")
  /\ IF Fenced(j) /\ CanMark(j, {"baseline_captured"})
       THEN /\ Mark(j, "submitting")
            /\ Goto(j, "send")
            /\ UNCHANGED <<jobVars, budget, lease>>
       ELSE Abandon(j)
  /\ UNCHANGED wireVars

\* assertWorkerOwnership, then transport.submitOnce.
Send(j) ==
  /\ At(j, "send")
  /\ IF Fenced(j)
       THEN /\ sent' = [sent EXCEPT ![j] = @ + 1]
            /\ inflight' = inflight \cup {j}
            /\ Goto(j, "sending")
            /\ UNCHANGED <<storeVars, accepted, listed>>
       ELSE /\ Abandon(j)
            /\ UNCHANGED wireVars

SendSucceeds(j) ==
  /\ At(j, "sending") /\ j \in accepted
  /\ IF Fenced(j) /\ CanMark(j, {"submitting"})
       THEN /\ Mark(j, "submitted")
            /\ Goto(j, "charge")
            /\ UNCHANGED <<jobVars, budget, lease>>
       ELSE Abandon(j)
  /\ inflight' = inflight \ {j}
  /\ UNCHANGED <<sent, accepted, listed>>

\* Mutant: the request is sent again.
SendAmbiguousRetries(j) ==
  /\ At(j, "sending")
  /\ Goto(j, "send")
  /\ UNCHANGED <<storeVars, wireVars>>

\* Mutant: no answer is taken for a rejection.
SendAmbiguousRejects(j) ==
  /\ At(j, "sending")
  /\ IF Fenced(j) /\ CanMark(j, {"submitting"})
       THEN /\ Mark(j, "rejected")
            /\ Goto(j, "failReject")
            /\ UNCHANGED <<jobVars, budget, lease>>
       ELSE Abandon(j)
  /\ UNCHANGED wireVars

\* SubmitAmbiguousError: the request may still reach the provider.
SendAmbiguous(j) ==
  /\ At(j, "sending")
  /\ IF Fenced(j) /\ CanMark(j, {"submitting"})
       THEN /\ Mark(j, "submission_ambiguous")
            /\ Goto(j, "charge")
            /\ UNCHANGED <<jobVars, budget, lease>>
       ELSE Abandon(j)
  /\ inflight' = inflight \ (accepted \cap {j})
  /\ UNCHANGED <<sent, accepted, listed>>

\* The provider says it has made no task.
SendRejected(j) ==
  /\ At(j, "sending") /\ j \in inflight \ accepted
  /\ IF Fenced(j) /\ CanMark(j, {"submitting"})
       THEN /\ Mark(j, "rejected")
            /\ Goto(j, "failReject")
            /\ UNCHANGED <<jobVars, budget, lease>>
       ELSE Abandon(j)
  /\ inflight' = inflight \ {j}
  /\ UNCHANGED <<sent, accepted, listed>>

FailReject(j) ==
  /\ At(j, "failReject")
  /\ IF CanFailAndRelease(j, {"submitting"})
       THEN FailAndRelease(j) /\ Leave(j, FALSE)
       ELSE Abandon(j)
  /\ UNCHANGED wireVars

\* The outer catch of runInitial: a job that is still queued fails, unless the
\* pollers were stopped.
FailQueued(j) ==
  /\ At(j, "failQueued")
  /\ IF mode # "aborting" /\ CanFailAndRelease(j, {"queued"})
       THEN FailAndRelease(j)
       ELSE UNCHANGED <<jobVars, budget, submissionVars>>
  /\ Leave(j, mode # "aborting" /\ status'[j] \notin Terminal)
  /\ UNCHANGED wireVars

ChargeSubmitted(j) ==
  /\ At(j, "charge")
  /\ IF CanCharge(j)
       THEN /\ Charge(j)
            /\ Goto(j, "toDiscovering")
            /\ UNCHANGED <<jobVars, submissionVars, lease>>
       ELSE Abandon(j)
  /\ UNCHANGED wireVars

ToDiscovering(j) ==
  /\ At(j, "toDiscovering")
  /\ IF Fenced(j) /\ CanTransition(j, {"submitting"}, "discovering")
       THEN /\ Transition(j, "discovering")
            /\ Goto(j, "discover")
            /\ UNCHANGED <<reconcile, task, budget, submissionVars, lease>>
       ELSE Abandon(j)
  /\ UNCHANGED wireVars

-----------------------------------------------------------------------------
(* Discovery. *)

\* matchAsset over the asset list; the runner knows the assets of ids.
Matches(j, ids) == (listed \cap Alike[j]) \ ids

\* The transition of persistUnknown; the slots are restored for the new hold.
PersistUnknown(j, expected) ==
  IF Fenced(j) /\ CanTransition(j, expected, "unknown")
    THEN /\ Transition(j, "unknown")
         /\ MoveTo(j, "waitUnknown")
         /\ held' = [held EXCEPT ![j] = TRUE]
         /\ seen' = [seen EXCEPT ![j] = {}]
         /\ UNCHANGED <<reconcile, task, budget, submissionVars, lease>>
    ELSE Abandon(j)

\* Mutant: the runner goes on after a conflict.
CorrelatingRegardless(j, t, conflict) ==
  /\ Correlate(j, t)
  /\ MoveTo(j, "toProcessing")
  /\ seen' = [seen EXCEPT ![j] = {t}]
  /\ UNCHANGED <<held, lease, jobVars, budget>>

\* correlate commits whether the task is free or bound to another job, and
\* throws in the second case.
Correlating(j, t, conflict) ==
  /\ Correlate(j, t)
  /\ IF BoundElsewhere(j, t)
       THEN conflict
       ELSE /\ MoveTo(j, "toProcessing")
            /\ seen' = [seen EXCEPT ![j] = {t}]
            /\ UNCHANGED <<held, lease>>
  /\ UNCHANGED <<jobVars, budget>>

DiscoverUnique(j, t) ==
  /\ At(j, "discover") /\ Matches(j, seen[j]) = {t}
  /\ IF Fenced(j)
       THEN Correlating(j, t, Leave(j, TRUE))
       ELSE Abandon(j)
  /\ UNCHANGED wireVars

\* None, several, or an asset without a task id or a creation code.
DiscoverNotUnique(j) ==
  /\ At(j, "discover")
  /\ IF Fenced(j) /\ CanMark(j, Uncorrelated)
       THEN /\ Mark(j, "correlation_ambiguous")
            /\ Goto(j, "toUnknown")
            /\ UNCHANGED <<jobVars, budget, lease>>
       ELSE Abandon(j)
  /\ UNCHANGED wireVars

DiscoverFails(j) ==
  /\ At(j, "discover")
  /\ PersistUnknown(j, {"discovering"})
  /\ UNCHANGED wireVars

ToUnknown(j) ==
  /\ At(j, "toUnknown")
  /\ PersistUnknown(j, {"discovering", "processing"})
  /\ UNCHANGED wireVars

\* A failure while the job is unknown is caught by the loop of recoverUnknown.
ToProcessing(j) ==
  /\ At(j, "toProcessing")
  /\ CASE Fenced(j) /\ CanTransition(j, {"discovering", "unknown"}, "processing") ->
            /\ Transition(j, "processing")
            /\ task' = [task EXCEPT ![j] = CHOOSE t \in seen[j] : TRUE]
            /\ reconcile' = [reconcile EXCEPT ![j] = "none"]
            /\ Goto(j, "poll")
            /\ UNCHANGED <<budget, submissionVars, lease>>
       [] ~Fenced(j) /\ status[j] = "unknown" ->
            /\ Goto(j, "waitUnknown")
            /\ UNCHANGED storeVars
       [] OTHER -> Abandon(j)
  /\ UNCHANGED wireVars

-----------------------------------------------------------------------------
(* recoverUnknown: discovery goes on while the hold runs and the job has its *)
(* slots.  It looks for any matching asset: the baseline is not used.        *)

OwnsUnknownCapacity(j) == hold[j] = "held" /\ held[j]

RetryDiscovery(j) ==
  /\ At(j, "waitUnknown") /\ OwnsUnknownCapacity(j)
  /\ MoveTo(j, "awaitRediscover")
  /\ seen' = [seen EXCEPT ![j] = {}]
  /\ UNCHANGED <<held, storeVars, wireVars>>

Rediscover(j) ==
  /\ At(j, "awaitRediscover") /\ LockFree(j)
  /\ Goto(j, "discoverUnknown")
  /\ UNCHANGED <<storeVars, wireVars>>

RediscoverUnique(j, t) ==
  /\ At(j, "discoverUnknown") /\ OwnsUnknownCapacity(j)
  /\ Matches(j, {}) = {t}
  /\ IF Fenced(j)
       THEN Correlating(j, t, Goto(j, "waitUnknown") /\ UNCHANGED lease)
       ELSE Goto(j, "waitUnknown") /\ UNCHANGED storeVars
  /\ UNCHANGED wireVars

RediscoverNothing(j) ==
  /\ At(j, "discoverUnknown") /\ OwnsUnknownCapacity(j)
  /\ Goto(j, "waitUnknown")
  /\ UNCHANGED <<storeVars, wireVars>>

GiveUpUnknown(j) ==
  /\ \E l \in {"waitUnknown", "discoverUnknown"} : At(j, l)
  /\ ~OwnsUnknownCapacity(j)
  /\ Leave(j, FALSE)
  /\ UNCHANGED <<jobVars, budget, submissionVars, wireVars>>

-----------------------------------------------------------------------------
(* pollUntilSettled.  A task that is still running, a failed read and a lost *)
(* fence leave everything as it is.                                          *)

PollSettles(j) ==
  /\ At(j, "poll") /\ Fenced(j)
  /\ \E s \in Terminal :
       /\ CanTransition(j, {"discovering", "processing", "unknown"}, s)
       /\ Transition(j, s)
  /\ Goto(j, "markTerminal")
  /\ UNCHANGED <<reconcile, task, budget, submissionVars, lease, wireVars>>

\* markProviderTerminal, after the outputs were archived or not.
MarkTerminal(j) ==
  /\ At(j, "markTerminal")
  /\ IF Fenced(j) /\ CanMark(j, ProviderOpen)
       THEN Mark(j, IF status[j] = "completed" THEN "provider_succeeded"
                                               ELSE "provider_failed")
       ELSE UNCHANGED submissionVars
  /\ Leave(j, FALSE)
  /\ UNCHANGED <<jobVars, budget, wireVars>>

\* The processing deadline: markProviderStatusUnknown is outside the try.
PollDeadline(j) ==
  /\ At(j, "poll")
  /\ IF Fenced(j) /\ CanMark(j, ProviderOpen)
       THEN /\ Mark(j, "provider_status_unknown")
            /\ Goto(j, "deadlineUnknown")
            /\ UNCHANGED <<jobVars, budget, lease>>
       ELSE Abandon(j)
  /\ UNCHANGED wireVars

\* Mutant: the runner stays with the job it hands to the reconciler.
DeadlineUnknownStays(j) ==
  /\ At(j, "deadlineUnknown")
  /\ IF Fenced(j) /\ CanTransition(j, {"processing"}, "unknown")
       THEN /\ Transition(j, "unknown")
            /\ reconcile' = [reconcile EXCEPT ![j] = "later"]
            /\ Goto(j, "waitUnknown")
            /\ UNCHANGED <<task, budget, submissionVars, lease>>
       ELSE Abandon(j)
  /\ UNCHANGED wireVars

DeadlineUnknown(j) ==
  /\ At(j, "deadlineUnknown")
  /\ IF Fenced(j) /\ CanTransition(j, {"processing"}, "unknown")
       THEN /\ Transition(j, "unknown")
            /\ reconcile' = [reconcile EXCEPT ![j] = "later"]
            /\ Leave(j, FALSE)
            /\ UNCHANGED <<task, budget, submissionVars>>
       ELSE Abandon(j)
  /\ UNCHANGED wireVars

-----------------------------------------------------------------------------
(* The runners the start-up recovery starts. *)

\* queuedRecoveryRunner, after the inputs and the model were loaded.
ResumeQueued(j) ==
  /\ At(j, "resumeQueued") /\ CanAcquire(j, Worker)
  /\ lease' = Acquired(j, Worker)
  /\ Goto(j, "upload")
  /\ UNCHANGED <<jobVars, budget, submissionVars, wireVars>>

ResumeQueuedFails(j) ==
  /\ At(j, "resumeQueued")
  /\ IF CanFailAndRelease(j, {"queued"})
       THEN FailAndRelease(j)
       ELSE UNCHANGED <<jobVars, budget, submissionVars>>
  /\ Leave(j, FALSE)
  /\ UNCHANGED wireVars

\* acquireWorkerLease returns null: the runner ends and nothing starts another.
ResumeRefused(j) ==
  /\ \E l \in {"resume", "resumeQueued"} : At(j, l)
  /\ ~CanAcquire(j, Worker)
  /\ Leave(j, FALSE)
  /\ UNCHANGED <<jobVars, budget, submissionVars, wireVars>>

\* recoveryResumeRunner takes the lease; runPostSubmit goes on where the
\* persisted job is.  An unknown job without a running hold is given up.
Resume(j) ==
  /\ At(j, "resume") /\ CanAcquire(j, Worker)
  /\ LET given == \/ status[j] \in Terminal
                  \/ status[j] = "unknown" /\ ~OwnsUnknownCapacity(j)
     IN IF given
          THEN Leave(j, FALSE)
          ELSE /\ lease' = Acquired(j, Worker)
               /\ Goto(j, CASE status[j] = "processing" -> "poll"
                            [] status[j] # "processing" /\ task[j] # NoTask ->
                                 "resumeProcessing"
                            [] status[j] = "unknown" /\ task[j] = NoTask ->
                                 "waitUnknown"
                            [] OTHER -> "awaitDiscover")
  /\ UNCHANGED <<jobVars, budget, submissionVars, wireVars>>

ResumeProcessing(j) ==
  /\ At(j, "resumeProcessing")
  /\ IF Fenced(j) /\ CanTransition(j, {"discovering", "unknown"}, "processing")
       THEN /\ Transition(j, "processing")
            /\ Goto(j, "poll")
            /\ UNCHANGED <<reconcile, task, budget, submissionVars, lease>>
       ELSE Abandon(j)
  /\ UNCHANGED wireVars

\* Here the persisted baseline is used.
ResumeDiscovery(j) ==
  /\ At(j, "awaitDiscover") /\ LockFree(j)
  /\ MoveTo(j, "discover")
  /\ seen' = [seen EXCEPT ![j] = baseline[j]]
  /\ UNCHANGED <<held, storeVars, wireVars>>

-----------------------------------------------------------------------------
(* Start, kill and shutdown. *)

\* Mutant: only the jobs that were never polled are recovered.
RecoverableUnpolled ==
  {j \in Job : status[j] \in {"queued", "submitting", "discovering"}}

Recoverable ==
  {j \in Job : /\ status[j] # "absent"
               /\ status[j] = "unknown" => hold[j] = "held"}

Start(p) ==
  /\ mode = "down" /\ starts < MaxStarts
  /\ mode' = "boot" /\ pid' = p /\ starts' = starts + 1
  /\ todo' = Recoverable
  /\ UNCHANGED <<storeVars, runnerVars, reconcilerVars, wireVars, decision>>

Recovering(j) ==
  /\ mode = "boot" /\ j \in todo
  /\ todo' = todo \ {j}
  /\ UNCHANGED <<mode, pid, starts, lease, submissionVars, reconcile, task,
                 seen, reconcilerVars, wireVars, decision>>

\* chargeCompletedJobs and releaseFailedReservations.
RecoverSettled(j) ==
  /\ Recovering(j)
  /\ \/ status[j] = "completed" /\ CanCharge(j) /\ Charge(j)
     \/ status[j] = "failed" /\ ReleasePreSubmit(j)
  /\ UNCHANGED <<status, hold, pc, held, behind>>

\* Mutant: the slots are not restored.
RecoverJobWithoutSlots(j) ==
  /\ Recovering(j)
  /\ \/ status[j] \in InProgress
     \/ status[j] = "unknown" /\ hold[j] = "held"
  /\ CanCharge(j) /\ Charge(j)
  /\ IF status[j] = "submitting"
       THEN Transition(j, "discovering")
       ELSE UNCHANGED <<status, hold>>
  /\ MoveTo(j, "resume")
  /\ UNCHANGED held

\* prepare: the charge, the capacity and the transition of one job.  Running
\* it again after a kill between them has the same effect.
RecoverJob(j) ==
  /\ Recovering(j)
  /\ \/ status[j] \in InProgress
     \/ status[j] = "unknown" /\ hold[j] = "held"
  /\ CanCharge(j) /\ Charge(j)
  /\ IF status[j] = "submitting"
       THEN Transition(j, "discovering")
       ELSE UNCHANGED <<status, hold>>
  /\ MoveTo(j, "resume")
  /\ held' = [held EXCEPT ![j] = TRUE]

\* The hold ran out while the recovery was at other jobs.
RecoverExpired(j) ==
  /\ Recovering(j)
  /\ status[j] = "unknown" /\ hold[j] = "expired"
  /\ CanCharge(j) /\ Charge(j)
  /\ UNCHANGED <<status, hold, pc, held, behind>>

\* The bound account has no runtime: the job becomes unknown, without a runner.
RecoverUnavailable(j) ==
  /\ Recovering(j)
  /\ status[j] \in InProgress \cup {"unknown"}
  /\ CanCharge(j) /\ Charge(j)
  /\ IF status[j] = "unknown"
       THEN UNCHANGED <<status, hold>>
       ELSE Transition(j, "unknown")
  /\ held' = [held EXCEPT ![j] = hold'[j] = "held"]
  /\ UNCHANGED <<pc, behind>>

\* scheduleQueued; without a runtime the job stays queued, without a runner.
RecoverQueued(j) ==
  /\ Recovering(j)
  /\ status[j] = "queued"
  /\ \/ /\ MoveTo(j, "resumeQueued")
        /\ held' = [held EXCEPT ![j] = TRUE]
     \/ UNCHANGED <<pc, held, behind>>
  /\ UNCHANGED <<status, hold, budget>>

BootDone ==
  /\ mode = "boot" /\ todo = {}
  /\ mode' = "up"
  /\ UNCHANGED <<storeVars, pid, starts, todo, runnerVars, reconcilerVars,
                 wireVars, decision>>

\* A process that goes down takes its memory with it.  The last start is not
\* followed by another, so it is not ended either.
GoDown ==
  /\ starts < MaxStarts
  /\ mode' = "down"
  /\ pc' = [j \in Job |-> "idle"]
  /\ held' = [j \in Job |-> FALSE]
  /\ behind' = [j \in Job |-> {}]
  /\ seen' = [j \in Job |-> {}]
  /\ todo' = {} /\ rpc' = "idle" /\ rjob' = NoTask /\ scan' = {}
  /\ UNCHANGED <<storeVars, pid, starts, decision>>

Kill ==
  /\ mode # "down"
  /\ GoDown
  /\ inflight' = inflight \ accepted
  /\ UNCHANGED <<sent, accepted, listed>>

BeginShutdown ==
  /\ mode = "up" /\ Quiet /\ starts < MaxStarts
  /\ mode' = "stopping"
  /\ UNCHANGED <<storeVars, pid, starts, todo, runnerVars, reconcilerVars,
                 wireVars, decision>>

\* The submit critical sections have drained and the tick of the maintenance
\* has ended: stopPollers.
StopPollers ==
  /\ mode = "stopping" /\ Quiet /\ rpc = "idle"
  /\ \A j \in Job : pc[j] \notin Reserved
  /\ mode' = "aborting"
  /\ UNCHANGED <<storeVars, pid, starts, todo, runnerVars, reconcilerVars,
                 wireVars, decision>>

\* Mutant: the shutdown stops every runner at once.
StopRunnerAnywhere(j) ==
  /\ mode \in {"stopping", "aborting"} /\ pc[j] \in Await /\ Turn(j)
  /\ Leave(j, FALSE)
  /\ UNCHANGED <<jobVars, budget, submissionVars, processVars, reconcilerVars,
                 wireVars, decision>>

StopRunner(j) ==
  /\ mode = "aborting" /\ pc[j] \in Abortable /\ Turn(j)
  /\ Leave(j, FALSE)
  /\ UNCHANGED <<jobVars, budget, submissionVars, processVars, reconcilerVars,
                 wireVars, decision>>

CloseProcess ==
  /\ mode = "aborting"
  /\ \A j \in Job : pc[j] = "idle"
  /\ GoDown
  /\ UNCHANGED wireVars

-----------------------------------------------------------------------------
(* ReconciliationWorker.scan. *)

\* Mutant: a job is reconciled only while its hold runs.
ReconciliationDueHeld ==
  {j \in Job : /\ status[j] = "unknown" /\ hold[j] = "held"
               /\ reconcile[j] = "due" /\ task[j] # NoTask}

ReconciliationDue ==
  {j \in Job : status[j] = "unknown" /\ reconcile[j] = "due" /\ task[j] # NoTask}

RAt(l) ==
  /\ rpc = l /\ Running
  /\ \A k \in Job : pc[k] \notin Sync \cup {"resume"}
  /\ UNCHANGED <<processVars, runnerVars, wireVars, decision>>

\* The job is done with, with its lease row: the scan goes on to the next.
NextDue ==
  /\ lease' = Released(rjob, Reconciler)
  /\ rpc' = IF scan = {} THEN "idle" ELSE "scan"
  /\ rjob' = NoTask
  /\ UNCHANGED scan

\* A throw from the catch block ends the scan.
LeaveScan ==
  /\ lease' = Released(rjob, Reconciler)
  /\ rpc' = "idle" /\ rjob' = NoTask /\ scan' = {}

RGoto(l) == rpc' = l /\ UNCHANGED <<rjob, scan>>

\* The catch block: what throws inside the try is deferred, unless the lease
\* was lost as well.
Catch ==
  IF Owns(rjob, Reconciler)
    THEN RGoto("lastDefer") /\ UNCHANGED lease
    ELSE NextDue

\* The maintenance timer goes on while a shutdown drains the submissions.
BeginScan ==
  /\ RAt("idle") /\ Quiet
  /\ \/ mode = "up"
     \/ mode = "stopping" /\ \E j \in Job : pc[j] \in Reserved
  /\ ReconciliationDue # {}
  /\ scan' = ReconciliationDue
  /\ rpc' = "scan"
  /\ UNCHANGED <<rjob, storeVars>>

SkipDue(j) ==
  /\ RAt("scan") /\ j \in scan /\ ~CanAcquire(j, Reconciler)
  /\ scan' = scan \ {j}
  /\ rpc' = IF scan' = {} THEN "idle" ELSE "scan"
  /\ UNCHANGED <<rjob, storeVars>>

AcquireDue(j, l) ==
  /\ RAt("scan") /\ j \in scan /\ CanAcquire(j, Reconciler)
  /\ lease' = Acquired(j, Reconciler)
  /\ scan' = scan \ {j} /\ rjob' = j /\ rpc' = l
  /\ UNCHANGED <<jobVars, budget, submissionVars>>

TakeDue(j)          == AcquireDue(j, "poll")
DeferUnavailable(j) == AcquireDue(j, "defer")  \* the account has no runtime

\* The clock of the fence is read before the request, so a lease that lapsed
\* meanwhile does not stop the transition.
ReconcilePoll ==
  /\ RAt("poll")
  /\ lease[rjob].by = Reconciler
  /\ \E s \in Terminal \cup {"processing"} :
       /\ CanTransition(rjob, {"discovering", "unknown"}
                              \cup (IF s = "processing" THEN {} ELSE {"processing"}), s)
       /\ Transition(rjob, s)
  /\ RGoto("settle")
  /\ UNCHANGED <<reconcile, task, budget, submissionVars, lease>>

\* No answer, a malformed one, or a transition that throws.
ReconcilePollFails ==
  /\ RAt("poll")
  /\ Catch
  /\ UNCHANGED <<jobVars, budget, submissionVars>>

\* The task has succeeded and shows no outputs yet: the job stays unknown.
ReconcilePollEmpty ==
  /\ RAt("poll")
  /\ IF Owns(rjob, Reconciler)
       THEN RGoto("defer") /\ UNCHANGED lease
       ELSE NextDue
  /\ UNCHANGED <<jobVars, budget, submissionVars>>

\* What the poll wrote is recorded; a job that is still processing goes back
\* to unknown, without a fence, and is deferred.
Settle ==
  /\ RAt("settle")
  /\ \/ /\ ~Owns(rjob, Reconciler)
        /\ NextDue
        /\ UNCHANGED <<jobVars, submissionVars>>
     \/ /\ Owns(rjob, Reconciler) /\ status[rjob] = "processing"
        /\ Transition(rjob, "unknown")
        /\ RGoto("defer")
        /\ UNCHANGED <<reconcile, task, submissionVars, lease>>
     \/ /\ Owns(rjob, Reconciler) /\ status[rjob] \in Terminal
        /\ IF CanMark(rjob, ProviderOpen)
             THEN /\ Mark(rjob, IF status[rjob] = "completed"
                                  THEN "provider_succeeded"
                                  ELSE "provider_failed")
                  /\ NextDue
             ELSE Catch /\ UNCHANGED submissionVars
        /\ UNCHANGED jobVars
  /\ UNCHANGED budget

DeferFrom(l, next, throws) ==
  /\ RAt(l)
  /\ IF Owns(rjob, Reconciler) /\ CanTransition(rjob, {"unknown"}, "unknown")
       THEN /\ Transition(rjob, "unknown")
            /\ reconcile' = [reconcile EXCEPT ![rjob] = "later"]
            /\ RGoto(next)
            /\ UNCHANGED <<task, lease>>
       ELSE throws /\ UNCHANGED jobVars
  /\ UNCHANGED <<budget, submissionVars>>

MarkDeferredFrom(l, throws) ==
  /\ RAt(l)
  /\ IF Owns(rjob, Reconciler) /\ CanMark(rjob, ProviderOpen)
       THEN Mark(rjob, "provider_status_unknown") /\ NextDue
       ELSE throws /\ UNCHANGED submissionVars
  /\ UNCHANGED <<jobVars, budget>>

Defer            == DeferFrom("defer", "markDeferred", Catch)
MarkDeferred     == MarkDeferredFrom("markDeferred", Catch)
LastDefer        == DeferFrom("lastDefer", "markLastDeferred", LeaveScan)
MarkLastDeferred == MarkDeferredFrom("markLastDeferred", LeaveScan)

-----------------------------------------------------------------------------
(* Operators, clients, the clock and the provider. *)

OperatorResolves(j, action) ==
  /\ mode = "up" /\ Quiet
  /\ CanResolveUnknown(j)
  /\ ResolveUnknown(j, action)
  /\ held' = [held EXCEPT ![j] = FALSE]
  /\ decision' = [decision EXCEPT ![j] = action]
  /\ UNCHANGED <<lease, processVars, pc, behind, seen, reconcilerVars, wireVars>>

ClientCancels(j) ==
  /\ mode = "up" /\ Quiet
  /\ CanCancelQueued(j)
  /\ CancelQueued(j)
  /\ UNCHANGED <<lease, processVars, runnerVars, reconcilerVars, wireVars,
                 decision>>

HoldExpires(j) ==
  /\ hold[j] = "held"
  /\ hold' = [hold EXCEPT ![j] = "expired"]
  /\ UNCHANGED <<status, reconcile, task, budget, submissionVars, lease,
                 processVars, runnerVars, reconcilerVars, wireVars, decision>>

\* Only an unknown job is asked for.
ReconcileComesDue(j) ==
  /\ status[j] = "unknown" /\ reconcile[j] = "later"
  /\ reconcile' = [reconcile EXCEPT ![j] = "due"]
  /\ UNCHANGED <<status, hold, task, budget, submissionVars, lease,
                 processVars, runnerVars, reconcilerVars, wireVars, decision>>

\* The timer that sweeps the capacity managers.
CapacitySweep(j) ==
  /\ Running /\ Quiet
  /\ held[j] /\ status[j] = "unknown" /\ hold[j] = "expired"
  /\ held' = [held EXCEPT ![j] = FALSE]
  /\ UNCHANGED <<storeVars, processVars, pc, behind, seen, reconcilerVars, wireVars,
                 decision>>

Heartbeats(j) ==
  /\ Running
  /\ \/ lease[j].by = Worker /\ pc[j] # "idle"
     \/ lease[j].by = Reconciler /\ rjob = j

\* Sixty seconds without a heartbeat: the holder is gone, or was stalled.
Lapse(j) ==
  /\ Heartbeats(j) => AllowStall
  /\ LeaseLapses(j)
  /\ UNCHANGED <<processVars, runnerVars, reconcilerVars, wireVars, decision>>

ProviderAccepts(j) ==
  /\ j \in inflight \ accepted
  /\ accepted' = accepted \cup {j}
  /\ inflight' = IF pc[j] = "sending" THEN inflight ELSE inflight \ {j}
  /\ UNCHANGED <<storeVars, processVars, runnerVars, reconcilerVars, sent,
                 listed, decision>>

ProviderLists(j) ==
  /\ j \in accepted \ listed
  /\ listed' = listed \cup {j}
  /\ UNCHANGED <<storeVars, processVars, runnerVars, reconcilerVars, sent,
                 inflight, accepted, decision>>

-----------------------------------------------------------------------------

RunInitial(j) ==
  \/ Upload(j) \/ TakeDiscoveryLock(j) \/ Snapshot(j) \/ SnapshotFails(j)
  \/ ToSubmitting(j) \/ MarkSubmitting(j) \/ Send(j)
  \/ SendSucceeds(j) \/ SendAmbiguous(j) \/ SendRejected(j)
  \/ FailReject(j) \/ FailQueued(j) \/ ChargeSubmitted(j) \/ ToDiscovering(j)

RunPostSubmit(j) ==
  \/ \E t \in Job : DiscoverUnique(j, t) \/ RediscoverUnique(j, t)
  \/ DiscoverNotUnique(j) \/ DiscoverFails(j) \/ ToUnknown(j)
  \/ ToProcessing(j) \/ RetryDiscovery(j) \/ Rediscover(j)
  \/ RediscoverNothing(j)
  \/ GiveUpUnknown(j) \/ PollSettles(j) \/ MarkTerminal(j)
  \/ PollDeadline(j) \/ DeadlineUnknown(j)

RunRecovered(j) ==
  \/ ResumeQueued(j) \/ ResumeQueuedFails(j) \/ ResumeRefused(j)
  \/ Resume(j) \/ ResumeProcessing(j) \/ ResumeDiscovery(j)

Runner(j) ==
  \/ StartRunner(j) \/ PrepareFails(j) \/ StartRefused(j)
  \/ RunInitial(j) \/ RunPostSubmit(j) \/ RunRecovered(j)
  \/ StopRunner(j)

Recover(j) ==
  \/ RecoverSettled(j) \/ RecoverJob(j) \/ RecoverExpired(j)
  \/ RecoverUnavailable(j) \/ RecoverQueued(j)

Reconcile ==
  \/ BeginScan
  \/ \E j \in Job : SkipDue(j) \/ TakeDue(j) \/ DeferUnavailable(j)
  \/ ReconcilePoll \/ ReconcilePollFails \/ ReconcilePollEmpty \/ Settle
  \/ Defer \/ MarkDeferred \/ LastDefer \/ MarkLastDeferred

Lifecycle ==
  \/ \E p \in Pid : Start(p)
  \/ BootDone \/ BeginShutdown \/ StopPollers \/ CloseProcess \/ Kill

Environment ==
  \E j \in Job :
    \/ Create(j) \/ ClientCancels(j)
    \/ \E action \in {"charge", "release"} : OperatorResolves(j, action)
    \/ HoldExpires(j) \/ ReconcileComesDue(j) \/ CapacitySweep(j) \/ Lapse(j)
    \/ ProviderAccepts(j) \/ ProviderLists(j)

Next ==
  \/ \E j \in Job : Runner(j) \/ Recover(j)
  \/ Reconcile
  \/ Lifecycle
  \/ Environment

Spec == Init /\ [][Next]_vars

\* A callback that is ready is not overtaken for ever: the event loop serves
\* its queue in order, the discovery lock is a chain of promises, and every
\* await of a runner has a timeout.  A supervisor restarts the process, a start
\* and a shutdown run to their end, and time passes.  Nothing is assumed of
\* clients, operators or the provider.
StartsAndStops ==
  \/ \E p \in Pid : Start(p)
  \/ \E j \in Job : Recover(j)
  \/ BootDone \/ StopPollers \/ CloseProcess

Fairness ==
  /\ \A j \in Job : /\ SF_vars(Runner(j))
                    /\ WF_vars(HoldExpires(j))
                    /\ WF_vars(ReconcileComesDue(j))
                    /\ WF_vars(Lapse(j) /\ ~Heartbeats(j))
  /\ SF_vars(Reconcile)
  /\ WF_vars(StartsAndStops)

LiveSpec == Spec /\ Fairness

-----------------------------------------------------------------------------
(* Safety. *)

Possible == accepted \cup inflight

\* However often the process is killed, shut down, stalled and restarted, the
\* paid request of a job is sent at most once: every path that looks like a
\* retry (queued recovery, resume, rediscovery) stops short of submitOnce.
SubmitAtMostOnce == \A j \in Job : sent[j] <= 1

\* Points are given back only when the provider cannot have made, and cannot
\* still make, the task, or when an operator ruled so.
NoRefundAfterPossibleSubmit ==
  \A j \in Job :
    budget[j] = "released" => j \notin Possible \/ decision[j] = "release"

\* What the two transactions of a step leave behind fits together after a kill
\* between them: charge never throws in the start-up recovery, and no failed
\* job keeps a reservation.
BudgetFitsStatus ==
  \A j \in Job :
    CASE status[j] = "absent" -> budget[j] = "none"
      [] status[j] = "queued" -> budget[j] = "reserved"
      [] status[j] = "submitting" -> budget[j] \in {"reserved", "charged"}
      [] status[j] = "failed" -> budget[j] \in {"charged", "released"}
      [] OTHER -> budget[j] = "charged"

\* A task is evidence for one job only.
TaskBelongsToOneJob ==
  \A j, k \in Job :
    correlation[j] = correlation[k] /\ correlation[j] # NoTask => j = k

\* The task the pollers ask for is the one the evidence names.
PolledTaskIsCorrelated ==
  \A j \in Job : task[j] # NoTask => task[j] = correlation[j]

\* A runner that owns its lease row and the reconciler are never at work on one
\* job at the same time.
OneOwnerAtWork ==
  \A j \in Job : rjob = j /\ Owns(j, Reconciler) => pc[j] = "idle"

\* A job holds its slots whenever its runner is past the point of no return, so
\* the concurrency limit counts every paid task that is being followed.
SlotHeldWhileFollowed ==
  \A j \in Job :
    pc[j] \in {"send", "sending", "charge", "discover", "toProcessing", "poll",
               "markTerminal"} => held[j]

\* A request goes on the wire only when a restart could find it: the baseline,
\* the intent to submit and the status are in the database.
EvidenceBeforeSend ==
  [][\A j \in Job :
       sent'[j] # sent[j] =>
         /\ status[j] = "submitting" /\ outcome[j] = "submitting"
         /\ baseline[j] \subseteq listed /\ j \notin baseline[j]]_vars

\* A settled job stays settled and keeps its money where it is: the points of a
\* completed job stay charged, and what was given back is not taken again.
SettledStaysSettled ==
  [][\A j \in Job :
       status[j] \in Terminal =>
         status'[j] = status[j] /\ budget'[j] = budget[j]]_vars

\* A process that is shut down, and not killed or stalled, leaves no job between
\* its baseline and the end of its submission.
ShutdownDrainsSubmissions ==
  [][CloseProcess => \A j \in Job : status[j] # "submitting"]_vars

-----------------------------------------------------------------------------
(* Liveness. *)

Settled == Terminal \cup {"unknown"}

\* A job whose runner was started reaches its end, or is unknown and in the
\* hands of the reconciler or an operator, and its slots come back with that: no
\* queue, discovery lock or deadline holds either of them for ever.
StartedJobSettles ==
  \A j \in Job : pc[j] = "upload" ~> status[j] \in Settled /\ ~held[j]

\* A task that was being polled is followed to its end through a kill or a
\* shutdown, when the process comes back under the same process id.
PolledTaskSettles ==
  \A j \in Job :
    pc[j] = "poll" /\ outcome[j] \in ProviderOpen ~> status[j] \in Settled

\* A job that was not identified is unknown, and recovery goes on from there.
NotUniqueBecomesUnknown ==
  \A j \in Job :
    pc[j] = "discover" /\ listed \cap Alike[j] = {} ~> status[j] \in Settled

\* A job the recovery restored is taken up by a runner.
RestoredJobIsResumed ==
  [][\A j \in Job :
       pc[j] \in {"resume", "resumeQueued"} /\ pc'[j] = "idle" /\ mode' = "up"
         => status'[j] \in Settled]_vars

\* A binding conflict is handed to reconciliation.
ConflictIsReconciled ==
  \A j \in Job :
    /\ mode = "up" /\ pc[j] = "idle"
    /\ outcome[j] = "correlation_ambiguous"
    => status[j] \in Settled

\* A task the poller lost sight of is followed by the reconciler until the
\* provider names its end, an operator ruling aside.
LostTaskIsReconciled ==
  \A j \in Job : reconcile[j] # "none" ~> status[j] \in Terminal

\* The account is enabled often enough, the provider ends every task at last,
\* and its answer gets through.
ProviderAnswers ==
  \A j \in Job :
    /\ SF_vars(TakeDue(j))
    /\ SF_vars(rjob = j /\ ReconcilePoll /\ status'[j] \in Terminal)

-----------------------------------------------------------------------------
(* Refinement. *)

Contract == INSTANCE SubmissionContract
  WITH money     <- budget,
       requested <- {j \in Job : sent[j] > 0},
       flying    <- inflight,
       made      <- accepted

\* The gateway keeps the submission contract through every interleaving, kill
\* and restart: what the tables say of the points never contradicts what went
\* over the wire.
KeepsContract == Contract!Spec

=============================================================================
