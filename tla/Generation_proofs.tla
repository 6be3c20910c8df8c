--------------------------- MODULE Generation_proofs ---------------------------
(***************************************************************************)
(* Jobs, their points and their requests, for any set of jobs and of       *)
(* process ids and any bound on the starts, with stalls and without: first *)
(* the types, with one lemma per part of the type invariant and per        *)
(* operator that changes the part, and one step per action that cites      *)
(* them; then the safety properties, the submission contract that          *)
(* Generation implements, and what no step may do to a settled job or      *)
(* without evidence.                                                       *)
(***************************************************************************)
EXTENDS Generation, TLAPS

-----------------------------------------------------------------------------
(* The types. *)

\* The runner that is about to persist a task has found one.
TaskInHand == \A j \in Job : pc[j] = "toProcessing" => seen[j] # {}

RunnerInv == RunnerTypeOK /\ TaskInHand

\* The scan that left its list of due jobs is at one of them.
ReconcilerInv ==
  /\ ReconcilerTypeOK
  /\ rpc \notin {"idle", "scan"} => rjob \in Job

TypeInv ==
  /\ StoreTypeOK /\ ProcessTypeOK /\ RunnerInv /\ ReconcilerInv
  /\ WireTypeOK
  /\ decision \in [Job -> {"none", "charge", "release"}]

-----------------------------------------------------------------------------
(* Parts that a step leaves alone. *)

\* What a step leaves unchanged keeps its type.
LEMMA KeptParts ==
  ASSUME TypeInv
  PROVE  /\ UNCHANGED storeVars => StoreTypeOK'
         /\ UNCHANGED processVars => ProcessTypeOK'
         /\ UNCHANGED runnerVars => RunnerInv'
         /\ UNCHANGED reconcilerVars => ReconcilerInv'
         /\ UNCHANGED wireVars => WireTypeOK'
         /\ UNCHANGED decision => (decision \in [Job -> {"none", "charge", "release"}])'
  BY DEF TypeInv, StoreTypeOK, ProcessTypeOK, RunnerInv, RunnerTypeOK, TaskInHand,
         ReconcilerInv, ReconcilerTypeOK, WireTypeOK, storeVars, jobVars, submissionVars,
         processVars, runnerVars, reconcilerVars, wireVars

\* A step of a runner leaves the process, the reconciler and the rulings alone.
LEMMA AtKeeps ==
  ASSUME TypeInv, NEW j \in Job, NEW l, At(j, l)
  PROVE  /\ ProcessTypeOK' /\ ReconcilerInv'
         /\ (decision \in [Job -> {"none", "charge", "release"}])'
  BY KeptParts DEF At

-----------------------------------------------------------------------------
(* The store. *)

\* Taking or deleting a lease row gives lease rows.
LEMMA LeaseTypes ==
  ASSUME TypeInv, NEW j, NEW w \in {Worker, Reconciler}
  PROVE  /\ Released(j, w) \in [Job -> LeaseRow]
         /\ Acquired(j, w) \in [Job -> LeaseRow]
         /\ lease \in [Job -> LeaseRow]
<1>1. w \in WorkerId
  BY DEF TypeInv, ProcessTypeOK, WorkerId, Worker, Reconciler
<1>2. lease \in [Job -> LeaseRow]
  BY DEF TypeInv, StoreTypeOK
<1> QED
  BY <1>1, <1>2 DEF Released, Acquired, LeaseRow, NoLease

\* A step that writes at most a lease row keeps the types of the store.
LEMMA OnlyLeaseChanges ==
  ASSUME TypeInv, UNCHANGED <<jobVars, budget, submissionVars>>,
         lease' \in [Job -> LeaseRow]
  PROVE  StoreTypeOK'
  BY DEF TypeInv, StoreTypeOK, jobVars, submissionVars

\* A transition writes a status and a hold.
LEMMA TransitionTypes ==
  ASSUME TypeInv, NEW j \in Job, NEW to \in JobStatus, Transition(j, to)
  PROVE  /\ status' \in [Job -> JobStatus \cup {"absent"}]
         /\ hold' \in [Job -> {"none", "held", "expired"}]
  BY DEF TypeInv, StoreTypeOK, Transition

\* A transition that writes nothing but a lease row besides.
LEMMA OnlyStatusChanges ==
  ASSUME TypeInv, NEW j \in Job, NEW to \in JobStatus, Transition(j, to),
         UNCHANGED <<reconcile, task, budget, submissionVars>>,
         lease' \in [Job -> LeaseRow]
  PROVE  StoreTypeOK'
  BY TransitionTypes DEF TypeInv, StoreTypeOK, submissionVars

\* Recording an outcome keeps the types of the store.
LEMMA MarkTypes ==
  ASSUME TypeInv, NEW j \in Job, NEW to \in SubmissionOutcome, Mark(j, to),
         UNCHANGED <<jobVars, budget>>, lease' \in [Job -> LeaseRow]
  PROVE  StoreTypeOK'
  BY DEF TypeInv, StoreTypeOK, Mark, jobVars

\* Charging and releasing write a state of a budget entry.
LEMMA BudgetTypes ==
  ASSUME TypeInv, NEW j \in Job, Charge(j) \/ ReleasePreSubmit(j)
  PROVE  budget' \in [Job -> BudgetState]
  BY DEF TypeInv, StoreTypeOK, Charge, ReleasePreSubmit, BudgetState

\* A job that fails, with its points given back, keeps the types of the store.
LEMMA FailAndReleaseTypes ==
  ASSUME TypeInv, NEW j \in Job, FailAndRelease(j),
         lease' \in [Job -> LeaseRow]
  PROVE  StoreTypeOK'
<1>1. "failed" \in JobStatus
  BY DEF JobStatus
<1> QED
  BY <1>1, TransitionTypes, BudgetTypes
  DEF TypeInv, StoreTypeOK, FailAndRelease, submissionVars

-----------------------------------------------------------------------------
(* The runners. *)

\* A runner that moves comes to its label, and the others stay at theirs.
LEMMA MoveToTypes ==
  ASSUME TypeInv, NEW j \in Job, NEW l \in Label, MoveTo(j, l)
  PROVE  /\ pc' \in [Job -> Label] /\ behind' \in [Job -> SUBSET Job]
         /\ \A k \in Job : pc'[k] = IF k = j THEN l ELSE pc[k]
  BY DEF TypeInv, RunnerInv, RunnerTypeOK, MoveTo

\* A runner that moves with what it had in memory.
LEMMA GotoTypes ==
  ASSUME TypeInv, NEW j \in Job, NEW l \in Label, l # "toProcessing", Goto(j, l)
  PROVE  RunnerInv'
  BY MoveToTypes DEF TypeInv, RunnerInv, RunnerTypeOK, TaskInHand, Goto

\* The same, with the assets in memory or the slots of the job changed.
LEMMA MoveTypes ==
  ASSUME TypeInv, NEW j \in Job, NEW l \in Label, MoveTo(j, l),
         NEW h, held' = held \/ held' = [held EXCEPT ![j] = h], h \in BOOLEAN,
         NEW s, seen' = seen \/ seen' = [seen EXCEPT ![j] = s], s \in SUBSET Job,
         l = "toProcessing" => seen' = [seen EXCEPT ![j] = s] /\ s # {}
  PROVE  RunnerInv'
  BY MoveToTypes DEF TypeInv, RunnerInv, RunnerTypeOK, TaskInHand

\* A runner that ends leaves typed runners and lease rows behind.
LEMMA LeaveTypes ==
  ASSUME TypeInv, NEW j \in Job, NEW keeps, Leave(j, keeps)
  PROVE  RunnerInv' /\ lease' \in [Job -> LeaseRow]
<1>1. "idle" \in Label /\ "idle" # "toProcessing"
  BY DEF Label
<1>2. (held[j] /\ keeps) \in BOOLEAN /\ {} \in SUBSET Job
  OBVIOUS
<1>3. RunnerInv'
  BY <1>1, <1>2, MoveTypes DEF Leave
<1> QED
  BY <1>3, LeaseTypes DEF Leave

\* The same for a runner that ends with the job as it is.
LEMMA AbandonTypes ==
  ASSUME TypeInv, NEW j \in Job, Abandon(j)
  PROVE  RunnerInv' /\ StoreTypeOK'
  BY LeaveTypes, OnlyLeaseChanges DEF Abandon

-----------------------------------------------------------------------------
(* The actions of a runner. *)

\* The actions of create keep the types.
LEMMA StartingTypes ==
  ASSUME TypeInv, NEW j \in Job,
         Create(j) \/ StartRunner(j) \/ PrepareFails(j) \/ StartRefused(j)
  PROVE  TypeInv'
<1>1. /\ {"prepare", "upload", "idle"} \subseteq Label \ {"toProcessing"}
      /\ {"queued", "failed"} \subseteq JobStatus
  BY DEF Label, Await, JobStatus
<1>2. CASE Create(j)
  <2>1. StoreTypeOK'
    BY <1>1, <1>2 DEF Create, ReserveOrGet, TypeInv, StoreTypeOK, BudgetState,
                      submissionVars
  <2>2. RunnerInv'
    BY <1>1, <1>2, MoveTypes DEF Create
  <2> QED
    BY <1>2, <2>1, <2>2, KeptParts DEF Create, TypeInv
<1>3. CASE StartRunner(j)
  BY <1>1, <1>3, AtKeeps, KeptParts, GotoTypes, LeaseTypes, OnlyLeaseChanges
  DEF StartRunner, TypeInv
<1>4. CASE PrepareFails(j)
  BY <1>1, <1>4, AtKeeps, KeptParts, LeaveTypes, OnlyLeaseChanges,
     FailAndReleaseTypes
  DEF PrepareFails, TypeInv
<1>5. CASE StartRefused(j)
  <2>1. RunnerInv'
    BY <1>1, <1>5, MoveTypes DEF StartRefused
  <2>2. lease' \in [Job -> LeaseRow]
    BY <1>5, LeaseTypes DEF StartRefused
  <2> QED
    BY <1>5, <2>1, <2>2, AtKeeps, KeptParts, OnlyLeaseChanges,
       FailAndReleaseTypes
    DEF StartRefused, TypeInv
<1> QED
  BY <1>2, <1>3, <1>4, <1>5

\* The actions of runInitial keep the types.
LEMMA RunInitialTypes ==
  ASSUME TypeInv, NEW j \in Job, RunInitial(j)
  PROVE  TypeInv'
<1>1. /\ {"awaitLock", "failQueued", "snapshot", "toSubmitting", "markSubmitting",
           "send", "sending", "charge", "failReject", "toDiscovering",
           "discover", "idle"} \subseteq Label \ {"toProcessing"}
      /\ {"submitting", "discovering"} \subseteq JobStatus
      /\ {"baseline_captured", "submitting", "submitted", "rejected",
           "submission_ambiguous"} \subseteq SubmissionOutcome
  BY DEF Label, Await, Sync, JobStatus, SubmissionOutcome
<1>2. lease \in [Job -> LeaseRow] /\ accepted \subseteq Job /\ listed \subseteq Job
  BY DEF TypeInv, StoreTypeOK, WireTypeOK
<1>3. ASSUME NEW l, At(j, l), StoreTypeOK', RunnerInv', WireTypeOK'
      PROVE  TypeInv'
  BY <1>3, AtKeeps DEF TypeInv
<1>4. CASE Upload(j) \/ TakeDiscoveryLock(j) \/ SnapshotFails(j)
  BY <1>1, <1>3, <1>4, KeptParts, GotoTypes
  DEF Upload, TakeDiscoveryLock, SnapshotFails
<1>5. CASE Snapshot(j)
  <2>1. StoreTypeOK'
    BY <1>1, <1>2, <1>5 DEF Snapshot, CaptureBaseline, TypeInv, StoreTypeOK, jobVars
  <2>2. RunnerInv'
    BY <1>1, <1>2, <1>5, MoveTypes DEF Snapshot
  <2> QED
    BY <1>3, <1>5, <2>1, <2>2, KeptParts DEF Snapshot
<1>6. CASE ToSubmitting(j)
  <2>1. StoreTypeOK'
    BY <1>1, <1>2, <1>6, OnlyStatusChanges, OnlyLeaseChanges DEF ToSubmitting
  <2> QED
    BY <1>1, <1>3, <1>6, <2>1, KeptParts, GotoTypes DEF ToSubmitting
<1>7. CASE MarkSubmitting(j)
  BY <1>1, <1>2, <1>3, <1>7, KeptParts, GotoTypes, MarkTypes, AbandonTypes
  DEF MarkSubmitting
<1>8. CASE Send(j)
  <2>1. WireTypeOK'
    BY <1>8, KeptParts DEF Send, TypeInv, WireTypeOK
  <2> QED
    BY <1>1, <1>3, <1>8, <2>1, KeptParts, GotoTypes, AbandonTypes DEF Send
<1>9. CASE SendSucceeds(j) \/ SendAmbiguous(j) \/ SendRejected(j)
  <2>1. WireTypeOK'
    BY <1>9 DEF SendSucceeds, SendAmbiguous, SendRejected, TypeInv, WireTypeOK
  <2> QED
    BY <1>1, <1>2, <1>3, <1>9, <2>1, GotoTypes, MarkTypes, AbandonTypes
    DEF SendSucceeds, SendAmbiguous, SendRejected
<1>10. CASE FailReject(j)
  BY <1>3, <1>10, KeptParts, LeaveTypes, FailAndReleaseTypes, AbandonTypes
  DEF FailReject
<1>11. CASE FailQueued(j)
  BY <1>3, <1>11, KeptParts, LeaveTypes, FailAndReleaseTypes, OnlyLeaseChanges
  DEF FailQueued
<1>12. CASE ChargeSubmitted(j)
  <2>1. CASE Abandon(j)
    BY <1>3, <1>12, <2>1, KeptParts, AbandonTypes DEF ChargeSubmitted
  <2>2. CASE /\ Charge(j) /\ Goto(j, "toDiscovering")
             /\ UNCHANGED <<jobVars, submissionVars, lease>>
    <3>1. StoreTypeOK'
      BY <2>2, BudgetTypes DEF TypeInv, StoreTypeOK, jobVars, submissionVars
    <3> QED
      BY <1>1, <1>3, <1>12, <2>2, <3>1, KeptParts, GotoTypes DEF ChargeSubmitted
  <2> QED
    BY <1>12, <2>1, <2>2 DEF ChargeSubmitted
<1>13. CASE ToDiscovering(j)
  BY <1>1, <1>2, <1>3, <1>13, KeptParts, GotoTypes, OnlyStatusChanges,
     AbandonTypes
  DEF ToDiscovering
<1> QED
  BY <1>4, <1>5, <1>6, <1>7, <1>8, <1>9, <1>10, <1>11, <1>12, <1>13
  DEF RunInitial

\* The transition of persistUnknown keeps the types, whether or not it throws.
LEMMA PersistUnknownTypes ==
  ASSUME TypeInv, NEW j \in Job, NEW expected, PersistUnknown(j, expected)
  PROVE  RunnerInv' /\ StoreTypeOK'
<1>1. /\ "waitUnknown" \in Label \ {"toProcessing"} /\ "unknown" \in JobStatus
      /\ {} \in SUBSET Job /\ TRUE \in BOOLEAN
      /\ lease \in [Job -> LeaseRow]
  BY DEF Label, Await, JobStatus, TypeInv, StoreTypeOK
<1> QED
  BY <1>1, AbandonTypes, MoveTypes, OnlyStatusChanges DEF PersistUnknown

\* A task that is not bound elsewhere becomes the job's.
LEMMA CorrelateTypes ==
  ASSUME TypeInv, NEW j \in Job, NEW t \in Job, Correlate(j, t),
         UNCHANGED <<jobVars, budget>>, lease' \in [Job -> LeaseRow]
  PROVE  StoreTypeOK'
<1>1. {"correlation_ambiguous", "correlated"} \subseteq SubmissionOutcome
  BY DEF SubmissionOutcome
<1> QED
  BY <1>1, MarkTypes DEF Correlate, TypeInv, StoreTypeOK, jobVars

\* The actions of a discovery keep the types; what the pollers get is one task.
LEMMA DiscoveryTypes ==
  ASSUME TypeInv, NEW j \in Job, NEW t \in Job,
         \/ DiscoverUnique(j, t) \/ DiscoverNotUnique(j) \/ DiscoverFails(j)
         \/ ToUnknown(j) \/ ToProcessing(j)
  PROVE  TypeInv'
<1>1. /\ {"toUnknown", "poll", "waitUnknown"} \subseteq Label \ {"toProcessing"}
      /\ "toProcessing" \in Label
      /\ "processing" \in JobStatus /\ "correlation_ambiguous" \in SubmissionOutcome
      /\ lease \in [Job -> LeaseRow]
      /\ {t} \in SUBSET Job /\ {t} # {}
  BY DEF Label, Await, Sync, JobStatus, SubmissionOutcome, TypeInv, StoreTypeOK
<1>2. ASSUME NEW l, At(j, l), StoreTypeOK', RunnerInv', WireTypeOK'
      PROVE  TypeInv'
  BY <1>2, AtKeeps DEF TypeInv
<1>3. CASE DiscoverUnique(j, t)
  <2>1. CASE Abandon(j)
    BY <1>2, <1>3, <2>1, KeptParts, AbandonTypes DEF DiscoverUnique
  <2>2. CASE Correlating(j, t, Leave(j, TRUE))
    <3>1. /\ Correlate(j, t) /\ UNCHANGED <<jobVars, budget>>
          /\ \/ Leave(j, TRUE)
             \/ /\ MoveTo(j, "toProcessing")
                /\ seen' = [seen EXCEPT ![j] = {t}]
                /\ UNCHANGED <<held, lease>>
      BY <2>2 DEF Correlating
    <3>2. RunnerInv' /\ lease' \in [Job -> LeaseRow]
      BY <1>1, <3>1, LeaveTypes, MoveTypes
    <3> QED
      BY <1>2, <1>3, <3>1, <3>2, KeptParts, CorrelateTypes DEF DiscoverUnique
  <2> QED
    BY <1>3, <2>1, <2>2 DEF DiscoverUnique
<1>4. CASE DiscoverNotUnique(j)
  BY <1>1, <1>2, <1>4, KeptParts, GotoTypes, MarkTypes, AbandonTypes
  DEF DiscoverNotUnique
<1>5. CASE DiscoverFails(j) \/ ToUnknown(j)
  BY <1>2, <1>5, KeptParts, PersistUnknownTypes DEF DiscoverFails, ToUnknown
<1>6. CASE ToProcessing(j)
  <2>1. CASE Abandon(j)
    BY <1>2, <1>6, <2>1, KeptParts, AbandonTypes DEF ToProcessing
  <2>2. CASE Goto(j, "waitUnknown") /\ UNCHANGED storeVars
    BY <1>1, <1>2, <1>6, <2>2, KeptParts, GotoTypes DEF ToProcessing
  <2>3. CASE /\ Transition(j, "processing")
             /\ task' = [task EXCEPT ![j] = CHOOSE u \in seen[j] : TRUE]
             /\ reconcile' = [reconcile EXCEPT ![j] = "none"]
             /\ Goto(j, "poll")
             /\ UNCHANGED <<budget, submissionVars, lease>>
    <3>1. seen[j] # {} /\ seen[j] \in SUBSET Job
      BY <1>6 DEF ToProcessing, At, TypeInv, RunnerInv, RunnerTypeOK, TaskInHand
    <3>2. (CHOOSE u \in seen[j] : TRUE) \in Job
      BY <3>1
    <3>3. StoreTypeOK'
      BY <1>1, <2>3, <3>2, TransitionTypes
      DEF TypeInv, StoreTypeOK, submissionVars
    <3> QED
      BY <1>1, <1>2, <1>6, <2>3, <3>3, KeptParts, GotoTypes DEF ToProcessing
  <2> QED
    BY <1>6, <2>1, <2>2, <2>3 DEF ToProcessing
<1> QED
  BY <1>3, <1>4, <1>5, <1>6

\* The actions of recoverUnknown keep the types.
LEMMA RediscoveryTypes ==
  ASSUME TypeInv, NEW j \in Job, NEW t \in Job,
         \/ RetryDiscovery(j) \/ Rediscover(j) \/ RediscoverUnique(j, t)
         \/ RediscoverNothing(j) \/ GiveUpUnknown(j)
  PROVE  TypeInv'
<1>1. /\ {"awaitRediscover", "discoverUnknown", "waitUnknown"}
           \subseteq Label \ {"toProcessing"}
      /\ "toProcessing" \in Label
      /\ lease \in [Job -> LeaseRow]
      /\ {} \in SUBSET Job /\ {t} \in SUBSET Job /\ {t} # {}
  BY DEF Label, Await, Sync, TypeInv, StoreTypeOK
<1>2. ASSUME NEW l, At(j, l), StoreTypeOK', RunnerInv', WireTypeOK'
      PROVE  TypeInv'
  BY <1>2, AtKeeps DEF TypeInv
<1>3. CASE RetryDiscovery(j)
  BY <1>1, <1>2, <1>3, KeptParts, MoveTypes DEF RetryDiscovery
<1>4. CASE Rediscover(j) \/ RediscoverNothing(j)
  BY <1>1, <1>2, <1>4, KeptParts, GotoTypes DEF Rediscover, RediscoverNothing
<1>5. CASE RediscoverUnique(j, t)
  <2>1. CASE Goto(j, "waitUnknown") /\ UNCHANGED storeVars
    BY <1>1, <1>2, <1>5, <2>1, KeptParts, GotoTypes DEF RediscoverUnique
  <2>2. CASE Correlating(j, t, Goto(j, "waitUnknown") /\ UNCHANGED lease)
    <3>1. /\ Correlate(j, t) /\ UNCHANGED <<jobVars, budget>>
          /\ \/ Goto(j, "waitUnknown") /\ UNCHANGED lease
             \/ /\ MoveTo(j, "toProcessing")
                /\ seen' = [seen EXCEPT ![j] = {t}]
                /\ UNCHANGED <<held, lease>>
      BY <2>2 DEF Correlating
    <3>2. RunnerInv' /\ lease' \in [Job -> LeaseRow]
      BY <1>1, <3>1, GotoTypes, MoveTypes
    <3> QED
      BY <1>2, <1>5, <3>1, <3>2, KeptParts, CorrelateTypes DEF RediscoverUnique
  <2> QED
    BY <1>5, <2>1, <2>2 DEF RediscoverUnique
<1>6. CASE GiveUpUnknown(j)
  BY <1>2, <1>6, KeptParts, LeaveTypes, OnlyLeaseChanges DEF GiveUpUnknown
<1> QED
  BY <1>3, <1>4, <1>5, <1>6

\* The actions of pollUntilSettled keep the types.
LEMMA PollTypes ==
  ASSUME TypeInv, NEW j \in Job,
         PollSettles(j) \/ MarkTerminal(j) \/ PollDeadline(j) \/ DeadlineUnknown(j)
  PROVE  TypeInv'
<1>1. /\ {"markTerminal", "deadlineUnknown"} \subseteq Label \ {"toProcessing"}
      /\ Terminal \subseteq JobStatus /\ "unknown" \in JobStatus
      /\ {"provider_succeeded", "provider_failed", "provider_status_unknown"}
           \subseteq SubmissionOutcome
      /\ lease \in [Job -> LeaseRow]
  BY DEF Label, Await, Sync, JobStatus, Terminal, SubmissionOutcome, TypeInv,
         StoreTypeOK
<1>2. ASSUME NEW l, At(j, l), StoreTypeOK', RunnerInv', WireTypeOK'
      PROVE  TypeInv'
  BY <1>2, AtKeeps DEF TypeInv
<1>3. CASE PollSettles(j)
  BY <1>1, <1>2, <1>3, KeptParts, GotoTypes, OnlyStatusChanges DEF PollSettles
<1>4. CASE MarkTerminal(j)
  BY <1>1, <1>2, <1>4, KeptParts, LeaveTypes, MarkTypes, OnlyLeaseChanges
  DEF MarkTerminal
<1>5. CASE PollDeadline(j)
  BY <1>1, <1>2, <1>5, KeptParts, GotoTypes, MarkTypes, AbandonTypes
  DEF PollDeadline
<1>6. CASE DeadlineUnknown(j)
  <2>1. CASE Abandon(j)
    BY <1>2, <1>6, <2>1, KeptParts, AbandonTypes DEF DeadlineUnknown
  <2>2. CASE /\ Transition(j, "unknown")
             /\ reconcile' = [reconcile EXCEPT ![j] = "later"]
             /\ Leave(j, FALSE)
             /\ UNCHANGED <<task, budget, submissionVars>>
    <3>1. StoreTypeOK'
      BY <1>1, <2>2, TransitionTypes, LeaveTypes
      DEF TypeInv, StoreTypeOK, submissionVars
    <3> QED
      BY <1>2, <1>6, <2>2, <3>1, KeptParts, LeaveTypes DEF DeadlineUnknown
  <2> QED
    BY <1>6, <2>1, <2>2 DEF DeadlineUnknown
<1> QED
  BY <1>3, <1>4, <1>5, <1>6

\* The actions of the recovered runners keep the types.
LEMMA RunRecoveredTypes ==
  ASSUME TypeInv, NEW j \in Job, RunRecovered(j)
  PROVE  TypeInv'
<1>1. /\ {"upload", "poll", "resumeProcessing", "waitUnknown", "awaitDiscover",
           "discover"} \subseteq Label \ {"toProcessing"}
      /\ "processing" \in JobStatus
      /\ lease \in [Job -> LeaseRow]
      /\ baseline[j] \in SUBSET Job
  BY DEF Label, Await, Sync, JobStatus, TypeInv, StoreTypeOK
<1>2. ASSUME NEW l, At(j, l), StoreTypeOK', RunnerInv', WireTypeOK'
      PROVE  TypeInv'
  BY <1>2, AtKeeps DEF TypeInv
<1>3. CASE ResumeQueued(j)
  BY <1>1, <1>2, <1>3, KeptParts, GotoTypes, LeaseTypes, OnlyLeaseChanges
  DEF ResumeQueued
<1>4. CASE ResumeQueuedFails(j)
  BY <1>2, <1>4, KeptParts, LeaveTypes, FailAndReleaseTypes, OnlyLeaseChanges
  DEF ResumeQueuedFails
<1>5. CASE ResumeRefused(j)
  BY <1>2, <1>5, KeptParts, LeaveTypes, OnlyLeaseChanges DEF ResumeRefused
<1>6. CASE Resume(j)
  <2>1. CASE Leave(j, FALSE)
    BY <1>2, <1>6, <2>1, KeptParts, LeaveTypes, OnlyLeaseChanges DEF Resume
  <2>2. ASSUME NEW l \in Label \ {"toProcessing"}, Goto(j, l),
               lease' = Acquired(j, Worker)
        PROVE  TypeInv'
    BY <1>2, <1>6, <2>2, KeptParts, GotoTypes, LeaseTypes, OnlyLeaseChanges
    DEF Resume
  <2> QED
    BY <1>1, <1>6, <2>1, <2>2 DEF Resume
<1>7. CASE ResumeProcessing(j)
  BY <1>1, <1>2, <1>7, KeptParts, GotoTypes, OnlyStatusChanges, AbandonTypes
  DEF ResumeProcessing
<1>8. CASE ResumeDiscovery(j)
  BY <1>1, <1>2, <1>8, KeptParts, MoveTypes DEF ResumeDiscovery
<1> QED
  BY <1>3, <1>4, <1>5, <1>6, <1>7, <1>8 DEF RunRecovered

\* So does every action of a runner.
LEMMA RunnerTypes ==
  ASSUME TypeInv, NEW j \in Job, Runner(j)
  PROVE  TypeInv'
<1>1. CASE StopRunner(j)
  BY <1>1, KeptParts, LeaveTypes, OnlyLeaseChanges DEF StopRunner, TypeInv
<1>2. CASE RunPostSubmit(j)
  BY <1>2, DiscoveryTypes, RediscoveryTypes, PollTypes DEF RunPostSubmit
<1> QED
  BY <1>1, <1>2, StartingTypes, RunInitialTypes, RunRecoveredTypes DEF Runner

-----------------------------------------------------------------------------
(* The start-up recovery and the life of the process. *)

\* The start-up recovery keeps the types.
LEMMA RecoverTypes ==
  ASSUME TypeInv, NEW j \in Job, Recover(j)
  PROVE  TypeInv'
<1>1. /\ {"resume", "resumeQueued"} \subseteq Label \ {"toProcessing"}
      /\ {"discovering", "unknown"} \subseteq JobStatus
      /\ TRUE \in BOOLEAN
  BY DEF Label, Await, JobStatus
<1>2. Recovering(j)
  BY DEF Recover, RecoverSettled, RecoverJob, RecoverExpired, RecoverUnavailable,
         RecoverQueued
<1>3. /\ ProcessTypeOK' /\ ReconcilerInv' /\ WireTypeOK'
      /\ (decision \in [Job -> {"none", "charge", "release"}])'
  BY <1>2, KeptParts DEF Recovering, TypeInv, ProcessTypeOK
<1>4. StoreTypeOK'
  <2>1. /\ status' \in [Job -> JobStatus \cup {"absent"}]
        /\ hold' \in [Job -> {"none", "held", "expired"}]
    BY <1>1, TransitionTypes
    DEF Recover, RecoverSettled, RecoverJob, RecoverExpired, RecoverUnavailable,
        RecoverQueued, TypeInv, StoreTypeOK
  <2>2. budget' \in [Job -> BudgetState]
    BY BudgetTypes
    DEF Recover, RecoverSettled, RecoverJob, RecoverExpired, RecoverUnavailable,
        RecoverQueued, TypeInv, StoreTypeOK
  <2> QED
    BY <1>2, <2>1, <2>2 DEF Recovering, TypeInv, StoreTypeOK, submissionVars
<1>5. RunnerInv'
  <2>1. seen' = seen
    BY <1>2 DEF Recovering
  <2>2. CASE \E l \in {"resume", "resumeQueued"} :
               MoveTo(j, l) /\ held' = [held EXCEPT ![j] = TRUE]
    BY <1>1, <2>1, <2>2, MoveTypes
  <2>3. CASE UNCHANGED <<pc, behind>> /\ held' \in [Job -> BOOLEAN]
    BY <2>1, <2>3 DEF TypeInv, RunnerInv, RunnerTypeOK, TaskInHand
  <2>4. held \in [Job -> BOOLEAN]
    BY DEF TypeInv, RunnerInv, RunnerTypeOK
  <2>5. CASE RecoverUnavailable(j)
    BY <2>3, <2>4, <2>5 DEF RecoverUnavailable
  <2> QED
    BY <2>2, <2>3, <2>4, <2>5
    DEF Recover, RecoverSettled, RecoverJob, RecoverExpired, RecoverQueued
<1> QED
  BY <1>3, <1>4, <1>5 DEF TypeInv

\* A process that goes down leaves typed, empty memory.
LEMMA GoDownTypes ==
  ASSUME TypeInv, GoDown, WireTypeOK'
  PROVE  TypeInv'
<1>1. StoreTypeOK' /\ (decision \in [Job -> {"none", "charge", "release"}])'
  BY KeptParts DEF GoDown
<1>2. ProcessTypeOK' /\ ReconcilerInv'
  BY DEF GoDown, TypeInv, ProcessTypeOK, ReconcilerInv, ReconcilerTypeOK,
         ReconcilerLabel
<1>3. RunnerInv'
  BY DEF GoDown, RunnerInv, RunnerTypeOK, TaskInHand, Label
<1> QED
  BY <1>1, <1>2, <1>3 DEF TypeInv

\* Start, kill and shutdown keep the types.
LEMMA LifecycleTypes ==
  ASSUME TypeInv, Lifecycle
  PROVE  TypeInv'
<1>1. CASE \E p \in Pid : Start(p)
  <2>1. ProcessTypeOK'
    BY <1>1, StartsAssumption DEF Start, Recoverable, TypeInv, ProcessTypeOK
  <2> QED
    BY <1>1, <2>1, KeptParts DEF Start, TypeInv
<1>2. CASE BootDone \/ BeginShutdown \/ StopPollers
  <2>1. ProcessTypeOK'
    BY <1>2 DEF BootDone, BeginShutdown, StopPollers, TypeInv, ProcessTypeOK
  <2> QED
    BY <1>2, <2>1, KeptParts DEF BootDone, BeginShutdown, StopPollers, TypeInv
<1>3. CASE CloseProcess
  BY <1>3, KeptParts, GoDownTypes DEF CloseProcess
<1>4. CASE Kill
  BY <1>4, GoDownTypes DEF Kill, TypeInv, WireTypeOK
<1> QED
  BY <1>1, <1>2, <1>3, <1>4 DEF Lifecycle

-----------------------------------------------------------------------------
(* The reconciler. *)

\* However the reconciler leaves a job, its place and the lease rows are typed.
LEMMA NextDueTypes ==
  ASSUME TypeInv, rjob \in Job, NextDue \/ LeaveScan \/ Catch
  PROVE  ReconcilerInv' /\ lease' \in [Job -> LeaseRow]
<1>1. CASE NextDue \/ LeaveScan
  BY <1>1, LeaseTypes
  DEF NextDue, LeaveScan, TypeInv, ReconcilerInv, ReconcilerTypeOK, ReconcilerLabel
<1>2. CASE RGoto("lastDefer") /\ UNCHANGED lease
  BY <1>2 DEF RGoto, TypeInv, StoreTypeOK, ReconcilerInv, ReconcilerTypeOK,
              ReconcilerLabel, ReconcilerSync
<1> QED
  BY <1>1, <1>2 DEF Catch

\* Choosing the next due job keeps the types.
LEMMA ScanTypes ==
  ASSUME TypeInv, NEW j \in Job,
         BeginScan \/ SkipDue(j) \/ TakeDue(j) \/ DeferUnavailable(j)
  PROVE  TypeInv'
<1>1. ReconcilerInv' /\ StoreTypeOK'
  <2>1. CASE BeginScan \/ SkipDue(j)
    BY <2>1, KeptParts
    DEF BeginScan, SkipDue, ReconciliationDue, TypeInv, ReconcilerInv,
        ReconcilerTypeOK, ReconcilerLabel
  <2>2. ASSUME NEW l \in ReconcilerLabel, AcquireDue(j, l)
        PROVE  ReconcilerInv' /\ StoreTypeOK'
    BY <2>2, LeaseTypes, OnlyLeaseChanges
    DEF AcquireDue, TypeInv, ReconcilerInv, ReconcilerTypeOK
  <2>3. {"poll", "defer"} \subseteq ReconcilerLabel
    BY DEF ReconcilerLabel, ReconcilerSync
  <2> QED
    BY <2>1, <2>2, <2>3 DEF TakeDue, DeferUnavailable
<1>2. /\ ProcessTypeOK' /\ RunnerInv' /\ WireTypeOK'
      /\ (decision \in [Job -> {"none", "charge", "release"}])'
  BY KeptParts DEF BeginScan, SkipDue, TakeDue, DeferUnavailable, AcquireDue, RAt
<1> QED
  BY <1>1, <1>2 DEF TypeInv

\* Every action of the reconciler keeps the types.
LEMMA ReconcileTypes ==
  ASSUME TypeInv, Reconcile
  PROVE  TypeInv'
<1>1. CASE \/ BeginScan
           \/ \E j \in Job : SkipDue(j) \/ TakeDue(j) \/ DeferUnavailable(j)
  <2>1. CASE BeginScan
    <3>1. PICK j \in Job : j \in ReconciliationDue
      BY <2>1 DEF BeginScan, ReconciliationDue
    <3> QED
      BY <2>1, ScanTypes
  <2> QED
    BY <1>1, <2>1, ScanTypes
<1>2. CASE \/ ReconcilePoll \/ ReconcilePollFails \/ ReconcilePollEmpty \/ Settle
           \/ Defer \/ MarkDeferred \/ LastDefer \/ MarkLastDeferred
  <2> USE DEF ReconcilePoll, ReconcilePollFails, ReconcilePollEmpty, Settle,
              Defer, DeferFrom, MarkDeferred, MarkDeferredFrom, LastDefer,
              MarkLastDeferred
  <2>1. /\ ProcessTypeOK' /\ RunnerInv' /\ WireTypeOK'
        /\ (decision \in [Job -> {"none", "charge", "release"}])'
    BY <1>2, KeptParts DEF RAt
  <2>2. rjob \in Job
    BY <1>2 DEF RAt, TypeInv, ReconcilerInv
  <2>3. /\ {"settle", "defer", "markDeferred", "markLastDeferred"} \subseteq ReconcilerLabel
        /\ Terminal \cup {"processing", "unknown"} \subseteq JobStatus
        /\ {"provider_succeeded", "provider_failed", "provider_status_unknown"}
             \subseteq SubmissionOutcome
        /\ lease \in [Job -> LeaseRow]
    BY DEF ReconcilerLabel, ReconcilerSync, Terminal, JobStatus, SubmissionOutcome,
           TypeInv, StoreTypeOK
  <2>4. ASSUME NEW l \in ReconcilerLabel, RGoto(l)
        PROVE  ReconcilerInv'
    BY <2>2, <2>4 DEF RGoto, TypeInv, ReconcilerInv, ReconcilerTypeOK
  <2>5. CASE ReconcilePoll
    BY <2>1, <2>2, <2>3, <2>4, <2>5, OnlyStatusChanges DEF TypeInv
  <2>6. CASE ReconcilePollFails \/ ReconcilePollEmpty
    <3>1. CASE RGoto("defer") /\ UNCHANGED lease
      BY <2>1, <2>3, <2>4, <2>6, <3>1, OnlyLeaseChanges DEF TypeInv
    <3>2. CASE NextDue \/ Catch
      BY <2>1, <2>2, <2>6, <3>2, NextDueTypes, OnlyLeaseChanges DEF TypeInv
    <3> QED
      BY <2>6, <3>1, <3>2
  <2>7. CASE Settle
    <3>1. CASE NextDue /\ UNCHANGED <<jobVars, submissionVars>>
      BY <2>1, <2>2, <2>7, <3>1, NextDueTypes, OnlyLeaseChanges DEF TypeInv
    <3>2. CASE /\ Transition(rjob, "unknown") /\ RGoto("defer")
               /\ UNCHANGED <<reconcile, task, submissionVars, lease>>
      BY <2>1, <2>2, <2>3, <2>4, <2>7, <3>2, OnlyStatusChanges DEF TypeInv
    <3>3. ASSUME NEW o \in SubmissionOutcome, Mark(rjob, o), NextDue,
                 UNCHANGED jobVars
          PROVE  TypeInv'
      BY <2>1, <2>2, <2>7, <3>3, NextDueTypes, MarkTypes DEF TypeInv
    <3>4. CASE Catch /\ UNCHANGED <<jobVars, submissionVars>>
      BY <2>1, <2>2, <2>7, <3>4, NextDueTypes, OnlyLeaseChanges DEF TypeInv
    <3>5. (IF status[rjob] = "completed" THEN "provider_succeeded"
                                         ELSE "provider_failed") \in SubmissionOutcome
      BY <2>3
    <3>6. CASE Owns(rjob, Reconciler) /\ status[rjob] \in Terminal
      BY <2>7, <3>3, <3>4, <3>5, <3>6 DEF Terminal
    <3> QED
      BY <2>7, <3>1, <3>2, <3>6
  <2>8. CASE Defer \/ LastDefer
    <3>1. CASE (Catch \/ LeaveScan) /\ UNCHANGED jobVars
      BY <2>1, <2>2, <2>8, <3>1, NextDueTypes, OnlyLeaseChanges DEF TypeInv
    <3>2. ASSUME NEW l \in ReconcilerLabel, RGoto(l), Transition(rjob, "unknown"),
                 reconcile' = [reconcile EXCEPT ![rjob] = "later"],
                 UNCHANGED <<task, lease>>
          PROVE  TypeInv'
      <4>1. StoreTypeOK'
        BY <2>2, <2>3, <2>8, <3>2, TransitionTypes
        DEF TypeInv, StoreTypeOK, submissionVars
      <4> QED
        BY <2>1, <2>4, <3>2, <4>1 DEF TypeInv
    <3> QED
      BY <2>3, <2>8, <3>1, <3>2
  <2>9. CASE MarkDeferred \/ MarkLastDeferred
    <3>1. CASE (Catch \/ LeaveScan) /\ UNCHANGED submissionVars
      BY <2>1, <2>2, <2>9, <3>1, NextDueTypes, OnlyLeaseChanges DEF TypeInv
    <3>2. CASE Mark(rjob, "provider_status_unknown") /\ NextDue
      BY <2>1, <2>2, <2>3, <2>9, <3>2, NextDueTypes, MarkTypes DEF TypeInv
    <3> QED
      BY <2>9, <3>1, <3>2
  <2> QED
    BY <1>2, <2>5, <2>6, <2>7, <2>8, <2>9
<1> QED
  BY <1>1, <1>2 DEF Reconcile

-----------------------------------------------------------------------------
(* Operators, clients, the clock and the provider. *)

\* Clients, operators, the clock and the provider keep the types.
LEMMA EnvironmentTypes ==
  ASSUME TypeInv, Environment
  PROVE  TypeInv'
<1> PICK j \in Job :
      \/ Create(j) \/ ClientCancels(j)
      \/ \E action \in {"charge", "release"} : OperatorResolves(j, action)
      \/ HoldExpires(j) \/ ReconcileComesDue(j) \/ CapacitySweep(j) \/ Lapse(j)
      \/ ProviderAccepts(j) \/ ProviderLists(j)
  BY DEF Environment
<1>1. "failed" \in JobStatus
  BY DEF JobStatus
<1>2. CASE Create(j)
  BY <1>2, StartingTypes
<1>3. CASE ClientCancels(j)
  <2>1. StoreTypeOK'
    BY <1>1, <1>3, TransitionTypes, BudgetTypes
    DEF ClientCancels, CancelQueued, TypeInv, StoreTypeOK, submissionVars
  <2> QED
    BY <1>3, <2>1, KeptParts DEF ClientCancels, TypeInv
<1>4. ASSUME NEW action \in {"charge", "release"}, OperatorResolves(j, action)
      PROVE  TypeInv'
  <2>1. StoreTypeOK'
    BY <1>1, <1>4, TransitionTypes
    DEF OperatorResolves, ResolveUnknown, TypeInv, StoreTypeOK, BudgetState,
        submissionVars
  <2>2. RunnerInv'
    BY <1>4 DEF OperatorResolves, TypeInv, RunnerInv, RunnerTypeOK, TaskInHand
  <2>3. (decision \in [Job -> {"none", "charge", "release"}])'
    BY <1>4 DEF OperatorResolves, TypeInv
  <2> QED
    BY <1>4, <2>1, <2>2, <2>3, KeptParts DEF OperatorResolves, TypeInv
<1>5. CASE HoldExpires(j) \/ ReconcileComesDue(j)
  <2>1. StoreTypeOK'
    BY <1>5 DEF HoldExpires, ReconcileComesDue, TypeInv, StoreTypeOK, submissionVars
  <2> QED
    BY <1>5, <2>1, KeptParts DEF HoldExpires, ReconcileComesDue, TypeInv
<1>6. CASE CapacitySweep(j)
  <2>1. RunnerInv'
    BY <1>6 DEF CapacitySweep, TypeInv, RunnerInv, RunnerTypeOK, TaskInHand
  <2> QED
    BY <1>6, <2>1, KeptParts DEF CapacitySweep, TypeInv
<1>7. CASE Lapse(j)
  <2>1. lease[j] \in [by : WorkerId, live : BOOLEAN]
    BY <1>7 DEF Lapse, LeaseLapses, TypeInv, StoreTypeOK, LeaseRow, NoLease
  <2>2. [lease[j] EXCEPT !.live = FALSE] \in LeaseRow
    BY <2>1 DEF LeaseRow
  <2>3. lease' \in [Job -> LeaseRow]
    BY <1>7, <2>2 DEF Lapse, LeaseLapses, TypeInv, StoreTypeOK
  <2> QED
    BY <1>7, <2>3, KeptParts, OnlyLeaseChanges DEF Lapse, LeaseLapses, TypeInv
<1>8. CASE ProviderAccepts(j) \/ ProviderLists(j)
  <2>1. WireTypeOK'
    BY <1>8 DEF ProviderAccepts, ProviderLists, TypeInv, WireTypeOK
  <2> QED
    BY <1>8, <2>1, KeptParts DEF ProviderAccepts, ProviderLists, TypeInv
<1> QED
  BY <1>2, <1>3, <1>4, <1>5, <1>6, <1>7, <1>8

-----------------------------------------------------------------------------

\* The type invariant holds of an empty database.
LEMMA InitTypes == Init => TypeInv
  BY StartsAssumption
  DEF Init, StoreInit, MemoryInit, TypeInv, StoreTypeOK, ProcessTypeOK, RunnerInv,
      RunnerTypeOK, TaskInHand, ReconcilerInv, ReconcilerTypeOK, WireTypeOK,
      BudgetState, SubmissionOutcome, LeaseRow, Label, ReconcilerLabel

\* The type invariant is inductive.
LEMMA NextTypes == TypeInv /\ [Next]_vars => TypeInv'
<1> SUFFICES ASSUME TypeInv, [Next]_vars PROVE TypeInv'
  OBVIOUS
<1>1. CASE UNCHANGED vars
  BY <1>1, KeptParts DEF vars, TypeInv
<1>2. CASE Next
  BY <1>2, RunnerTypes, RecoverTypes, ReconcileTypes, LifecycleTypes,
     EnvironmentTypes
  DEF Next
<1> QED
  BY <1>1, <1>2

\* The inductive type invariant holds in every state: the types, a task in the
\* hands of every runner on its way to processing, and a job in the hands of the
\* reconciler whenever its scan is at one.
THEOREM TypeInvariance == Spec => []TypeInv
  BY InitTypes, NextTypes, PTL DEF Spec

\* Every variable keeps its type, through every kill and restart; so no row ever
\* holds a status, an outcome or a lease the code has no name for, and the task
\* the pollers persist is one the runner has found.
THEOREM TypeCorrect == Spec => []TypeOK
<1>1. TypeInv => TypeOK
  BY DEF TypeInv, TypeOK, RunnerInv, ReconcilerInv
<1> QED
  BY <1>1, TypeInvariance, PTL


-----------------------------------------------------------------------------
(* Points and requests: the inductive invariant. *)

\* Between the transition to submitting and the end of the submission nothing
\* but the runner changes the row of a job.
InSubmission == {"markSubmitting", "send", "sending", "failReject", "charge",
                 "toDiscovering"}

Phase(j) ==
  /\ status[j] \in {"absent", "queued"} => sent[j] = 0 /\ j \notin Possible
  /\ pc[j] \in InSubmission => status[j] = "submitting"
  /\ pc[j] \in {"markSubmitting", "send", "sending", "failReject"}
       => budget[j] = "reserved"
  /\ pc[j] \in {"markSubmitting", "send"} => sent[j] = 0
  /\ pc[j] \in {"markSubmitting", "send", "failReject"} => j \notin Possible
  /\ pc[j] = "send" => outcome[j] = "submitting"
  /\ pc[j] = "toDiscovering" => budget[j] = "charged"

BudgetFits(j) ==
  /\ status[j] = "absent" => budget[j] = "none"
  /\ status[j] = "queued" => budget[j] = "reserved"
  /\ status[j] = "submitting" => budget[j] \in {"reserved", "charged"}
  /\ status[j] \in {"discovering", "processing", "unknown", "completed"}
       => budget[j] = "charged"
  /\ status[j] = "failed" => budget[j] \in {"charged", "released"}

JobInv(j) ==
  /\ Phase(j)
  /\ BudgetFits(j)
  /\ sent[j] <= 1
  /\ budget[j] = "released" => j \notin Possible \/ decision[j] = "release"
  /\ baseline[j] \subseteq listed

\* The recovery visits a job before any runner of it exists.
RecoveredFirst ==
  /\ mode # "boot" => todo = {}
  /\ mode = "down" => \A j \in Job : pc[j] = "idle"
  /\ \A j \in todo : pc[j] = "idle"

SafeInv ==
  /\ TypeInv
  /\ \A j \in Job : JobInv(j)
  /\ RecoveredFirst
  /\ TaskBelongsToOneJob

-----------------------------------------------------------------------------
(* Steps that leave a job's points and request alone. *)

Kept(j) ==
  /\ status'[j] = status[j] /\ budget'[j] = budget[j] /\ sent'[j] = sent[j]
  /\ j \in Possible' => j \in Possible
  /\ decision'[j] = decision[j]
  /\ pc'[j] = pc[j] \/ pc'[j] \notin InSubmission
  /\ outcome'[j] = outcome[j] \/ pc'[j] # "send"
  /\ baseline'[j] = baseline[j] /\ listed \subseteq listed'

\* A step that keeps what JobInv is about keeps it.
LEMMA KeptJob ==
  ASSUME NEW j \in Job, JobInv(j), Kept(j)
  PROVE  JobInv(j)'
  BY DEF JobInv, Phase, BudgetFits, Kept, InSubmission

\* A step of a runner leaves the recovery and the rulings alone.
LEMMA AtFacts ==
  ASSUME SafeInv, NEW j \in Job, NEW l, At(j, l)
  PROVE  /\ RecoveredFirst' /\ UNCHANGED decision
         /\ pc[j] = l
  BY DEF At, Running, SafeInv, RecoveredFirst, processVars

\* The variables of a job's points and request, and of its evidence.
ledgerVars   == <<status, budget, sent, inflight, accepted, decision>>
evidenceVars == <<outcome, baseline, correlation>>

\* A step that touches neither points, request nor evidence keeps the invariant.
LEMMA QuietStep ==
  ASSUME SafeInv, TypeInv', RecoveredFirst', UNCHANGED ledgerVars,
         UNCHANGED <<baseline, correlation>>, listed \subseteq listed',
         \A k \in Job : pc'[k] = pc[k] \/ pc'[k] \notin InSubmission,
         \A k \in Job : outcome'[k] = outcome[k] \/ pc'[k] # "send"
  PROVE  SafeInv'
<1>1. \A k \in Job : Kept(k)
  BY DEF ledgerVars, Kept, Possible
<1>2. TaskBelongsToOneJob'
  BY DEF SafeInv, TaskBelongsToOneJob
<1> QED
  BY <1>1, <1>2, KeptJob DEF SafeInv

-----------------------------------------------------------------------------
(* Operators that change them. *)

\* A transition changes the status of its job only.
LEMMA TransitionAt ==
  ASSUME TypeInv, NEW j \in Job, NEW to, Transition(j, to)
  PROVE  \A k \in Job : status'[k] = IF k = j THEN to ELSE status[k]
  BY DEF TypeInv, StoreTypeOK, Transition

\* Charging and releasing change the entry of their job only.
LEMMA BudgetAt ==
  ASSUME TypeInv, NEW j \in Job
  PROVE  /\ Charge(j) =>
              \A k \in Job : budget'[k] = IF k = j THEN "charged" ELSE budget[k]
         /\ ReleasePreSubmit(j) =>
              \A k \in Job : budget'[k] =
                IF k = j /\ budget[j] = "reserved" THEN "released" ELSE budget[k]
  BY DEF TypeInv, StoreTypeOK, Charge, ReleasePreSubmit

\* Recording an outcome changes the row of its job only.
LEMMA MarkAt ==
  ASSUME TypeInv, NEW j \in Job, NEW to, Mark(j, to)
  PROVE  /\ \A k \in Job : outcome'[k] = IF k = j THEN to ELSE outcome[k]
         /\ UNCHANGED <<baseline, correlation>>
  BY DEF TypeInv, StoreTypeOK, Mark

\* A runner that moves leaves the others where they are.
LEMMA MoveAt ==
  ASSUME TypeInv, NEW j \in Job,
         NEW l \in Label, MoveTo(j, l)
  PROVE  \A k \in Job : pc'[k] = IF k = j THEN l ELSE pc[k]
  BY MoveToTypes

\* A runner that ends leaves the others where they are.
LEMMA LeaveAt ==
  ASSUME TypeInv, NEW j \in Job, NEW keeps, Leave(j, keeps)
  PROVE  /\ \A k \in Job : pc'[k] = IF k = j THEN "idle" ELSE pc[k]
         /\ "idle" \notin InSubmission /\ "idle" # "send"
  BY MoveToTypes DEF Leave, Label, InSubmission

\* The runner that ends leaves the points and the request as they are.
LEMMA AbandonSafe ==
  ASSUME SafeInv, TypeInv', RecoveredFirst', NEW j \in Job, Abandon(j),
         UNCHANGED <<sent, accepted, listed, decision>>,
         inflight' \subseteq inflight
  PROVE  SafeInv'
<1>1. \A k \in Job : Kept(k)
  BY LeaveAt DEF Abandon, Kept, Possible, jobVars, submissionVars, SafeInv
<1>2. TaskBelongsToOneJob'
  BY DEF SafeInv, TaskBelongsToOneJob, Abandon, submissionVars
<1> QED
  BY <1>1, <1>2, KeptJob DEF SafeInv

\* A job that fails gives its points back only if it was never sent.
LEMMA FailSafe ==
  ASSUME SafeInv, TypeInv', RecoveredFirst', NEW j \in Job,
         FailAndRelease(j) \/ CancelQueued(j),
         status[j] = "queued" \/ pc[j] = "failReject",
         UNCHANGED wireVars, UNCHANGED decision,
         \A k \in Job : pc'[k] = pc[k] \/ pc'[k] \notin InSubmission,
         pc[j] = "failReject" => pc'[j] \notin InSubmission
  PROVE  SafeInv'
<1>1. Transition(j, "failed") /\ ReleasePreSubmit(j) /\ UNCHANGED submissionVars
  BY DEF FailAndRelease, CancelQueued
<1>2. JobInv(j) /\ pc'[j] \notin InSubmission
  BY DEF SafeInv, JobInv, Phase, InSubmission
<1>3. ASSUME NEW k \in Job PROVE JobInv(k)'
  <2>1. CASE k = j
    BY <1>1, <1>2, <2>1, TransitionAt, BudgetAt
    DEF JobInv, Phase, BudgetFits, InSubmission, Possible, wireVars,
        submissionVars, SafeInv
  <2>2. CASE k # j
    <3>1. Kept(k)
      BY <1>1, <2>2, TransitionAt, BudgetAt
      DEF Kept, Possible, wireVars, submissionVars, SafeInv
    <3> QED
      BY <3>1, KeptJob DEF SafeInv
  <2> QED
    BY <2>1, <2>2
<1>4. TaskBelongsToOneJob'
  BY <1>1 DEF SafeInv, TaskBelongsToOneJob, submissionVars
<1> QED
  BY <1>3, <1>4 DEF SafeInv

\* A step of one job: the others keep what JobInv is about.
LEMMA OneJobStep ==
  ASSUME SafeInv, TypeInv', RecoveredFirst', NEW j \in Job, JobInv(j)',
         \A k \in Job \ {j} : Kept(k), TaskBelongsToOneJob'
  PROVE  SafeInv'
  BY KeptJob DEF SafeInv

-----------------------------------------------------------------------------
(* From the start of a runner to the end of the submission. *)

\* The actions of create after the reservation keep the invariant.
LEMMA StartingSafe ==
  ASSUME SafeInv, NEW j \in Job,
         StartRunner(j) \/ PrepareFails(j) \/ StartRefused(j)
  PROVE  SafeInv'
<1>1. TypeInv'
  BY StartingTypes DEF SafeInv
<1>2. RecoveredFirst' /\ UNCHANGED <<wireVars, decision>>
  BY AtFacts DEF StartRunner, PrepareFails, StartRefused
<1>3. \A k \in Job : pc'[k] = pc[k] \/ pc'[k] \notin InSubmission
  <2>1. {"idle", "upload"} \subseteq Label \ InSubmission
    BY DEF Label, Await, InSubmission
  <2> QED
    BY <2>1, LeaveAt, MoveAt
    DEF StartRunner, PrepareFails, StartRefused, Goto, SafeInv
<1>4. pc[j] = "prepare"
  BY DEF StartRunner, PrepareFails, StartRefused, At
<1>5. CASE UNCHANGED <<jobVars, budget, submissionVars>>
  BY <1>1, <1>2, <1>3, <1>5, QuietStep
  DEF ledgerVars, jobVars, submissionVars, wireVars
<1>6. CASE FailAndRelease(j) /\ CanFailAndRelease(j, {"queued"})
  BY <1>1, <1>2, <1>3, <1>4, <1>6, FailSafe DEF CanFailAndRelease, CanTransition
<1> QED
  BY <1>5, <1>6 DEF StartRunner, PrepareFails, StartRefused

\* From the upload to the recorded intent to submit.
LEMMA BeforeSendSafe ==
  ASSUME SafeInv, NEW j \in Job,
         \/ Upload(j) \/ TakeDiscoveryLock(j) \/ Snapshot(j) \/ SnapshotFails(j)
         \/ ToSubmitting(j) \/ MarkSubmitting(j)
  PROVE  SafeInv'
<1>1. TypeInv'
  BY RunInitialTypes DEF SafeInv, RunInitial
<1>2. RecoveredFirst' /\ UNCHANGED <<wireVars, decision>>
  BY AtFacts, AbandonSafe
  DEF Upload, TakeDiscoveryLock, Snapshot, SnapshotFails, ToSubmitting,
      MarkSubmitting
<1>3. /\ {"awaitLock", "failQueued", "snapshot", "toSubmitting", "idle"}
           \subseteq Label \ InSubmission
      /\ {"markSubmitting", "send"} \subseteq Label
  BY DEF Label, Await, Sync, InSubmission
<1>4. CASE Upload(j) \/ TakeDiscoveryLock(j) \/ SnapshotFails(j)
  <2>1. \A k \in Job : pc'[k] = pc[k] \/ pc'[k] \notin InSubmission
    BY <1>3, <1>4, MoveAt
    DEF Upload, TakeDiscoveryLock, SnapshotFails, Goto, SafeInv
  <2> QED
    BY <1>1, <1>2, <1>4, <2>1, QuietStep
    DEF Upload, TakeDiscoveryLock, SnapshotFails, ledgerVars, storeVars, jobVars,
        submissionVars, wireVars
<1>5. CASE Snapshot(j)
  <2>1. /\ \A k \in Job : pc'[k] = pc[k] \/ pc'[k] \notin InSubmission
        /\ pc'[j] = "toSubmitting"
    BY <1>3, <1>5, MoveAt DEF Snapshot, SafeInv
  <2>2. /\ UNCHANGED <<status, budget, sent, inflight, accepted, listed, decision>>
        /\ UNCHANGED correlation
        /\ \A k \in Job \ {j} : baseline'[k] = baseline[k] /\ outcome'[k] = outcome[k]
        /\ baseline'[j] \in {baseline[j], listed}
    BY <1>2, <1>5
    DEF Snapshot, CaptureBaseline, jobVars, wireVars, SafeInv, TypeInv, StoreTypeOK
  <2>3. JobInv(j)'
    BY <1>3, <2>1, <2>2 DEF SafeInv, JobInv, Phase, BudgetFits, InSubmission, Possible
  <2>4. \A k \in Job \ {j} : Kept(k)
    BY <2>1, <2>2 DEF Kept, Possible
  <2> QED
    BY <1>1, <1>2, <2>2, <2>3, <2>4, OneJobStep DEF SafeInv, TaskBelongsToOneJob
<1>6. CASE ToSubmitting(j)
  <2>1. CASE Goto(j, "failQueued") /\ UNCHANGED jobVars
    <3>1. \A k \in Job : pc'[k] = pc[k] \/ pc'[k] \notin InSubmission
      BY <1>3, <2>1, MoveAt DEF Goto, SafeInv
    <3> QED
      BY <1>1, <1>2, <1>6, <2>1, <3>1, QuietStep
      DEF ToSubmitting, ledgerVars, jobVars, submissionVars, wireVars
  <2>2. CASE /\ CanTransition(j, {"queued"}, "submitting")
             /\ Transition(j, "submitting") /\ Goto(j, "markSubmitting")
    <3>1. /\ \A k \in Job : pc'[k] = IF k = j THEN "markSubmitting" ELSE pc[k]
          /\ \A k \in Job : status'[k] = IF k = j THEN "submitting" ELSE status[k]
          /\ status[j] = "queued"
      BY <1>3, <2>2, MoveAt, TransitionAt DEF Goto, CanTransition, SafeInv
    <3>2. UNCHANGED <<budget, sent, inflight, accepted, listed, decision, outcome,
                      baseline, correlation>>
      BY <1>2, <1>6 DEF ToSubmitting, submissionVars, wireVars
    <3>3. JobInv(j)'
      BY <3>1, <3>2 DEF SafeInv, JobInv, Phase, BudgetFits, InSubmission, Possible
    <3>4. \A k \in Job \ {j} : Kept(k)
      BY <3>1, <3>2 DEF Kept, Possible
    <3> QED
      BY <1>1, <1>2, <3>2, <3>3, <3>4, OneJobStep DEF SafeInv, TaskBelongsToOneJob
  <2> QED
    BY <1>6, <2>1, <2>2 DEF ToSubmitting
<1>7. CASE MarkSubmitting(j)
  <2>1. CASE Abandon(j)
    BY <1>1, <1>2, <2>1, AbandonSafe DEF wireVars
  <2>2. CASE /\ Mark(j, "submitting") /\ Goto(j, "send")
             /\ UNCHANGED <<jobVars, budget, lease>>
    <3>1. /\ \A k \in Job : pc'[k] = IF k = j THEN "send" ELSE pc[k]
          /\ \A k \in Job : outcome'[k] = IF k = j THEN "submitting" ELSE outcome[k]
          /\ UNCHANGED <<baseline, correlation>>
      BY <1>3, <2>2, MoveAt, MarkAt DEF Goto, SafeInv
    <3>2. /\ UNCHANGED <<status, budget, sent, inflight, accepted, listed, decision>>
          /\ pc[j] = "markSubmitting"
      BY <1>2, <1>7, <2>2 DEF MarkSubmitting, At, jobVars, wireVars
    <3>3. JobInv(j)'
      BY <3>1, <3>2 DEF SafeInv, JobInv, Phase, BudgetFits, InSubmission, Possible
    <3>4. \A k \in Job \ {j} : Kept(k)
      BY <3>1, <3>2 DEF Kept, Possible
    <3> QED
      BY <1>1, <1>2, <3>1, <3>3, <3>4, OneJobStep DEF SafeInv, TaskBelongsToOneJob
  <2> QED
    BY <1>7, <2>1, <2>2 DEF MarkSubmitting
<1> QED
  BY <1>4, <1>5, <1>6, <1>7

\* The request that goes out is the first of its job, on reserved points.
LEMMA SendSafe ==
  ASSUME SafeInv, NEW j \in Job, Send(j)
  PROVE  SafeInv'
<1>1. TypeInv'
  BY RunInitialTypes DEF SafeInv, RunInitial
<1>2. RecoveredFirst' /\ UNCHANGED decision /\ pc[j] = "send"
  BY AtFacts DEF Send
<1>3. CASE Abandon(j) /\ UNCHANGED wireVars
  BY <1>1, <1>2, <1>3, AbandonSafe DEF wireVars
<1>4. CASE /\ sent' = [sent EXCEPT ![j] = @ + 1]
           /\ inflight' = inflight \cup {j}
           /\ Goto(j, "sending")
           /\ UNCHANGED <<storeVars, accepted, listed>>
  <2>1. \A k \in Job : pc'[k] = IF k = j THEN "sending" ELSE pc[k]
    BY <1>4, MoveAt DEF Goto, SafeInv, Label, Await
  <2>2. \A k \in Job : sent'[k] = IF k = j THEN sent[j] + 1 ELSE sent[k]
    BY <1>4 DEF SafeInv, TypeInv, WireTypeOK
  <2>3. UNCHANGED <<status, budget, outcome, baseline, correlation, accepted, listed>>
    BY <1>4 DEF storeVars, jobVars, submissionVars
  <2>4. JobInv(j)'
    BY <1>2, <1>4, <2>1, <2>2, <2>3
    DEF SafeInv, JobInv, Phase, BudgetFits, InSubmission, Possible
  <2>5. \A k \in Job \ {j} : Kept(k)
    BY <1>2, <1>4, <2>1, <2>2, <2>3 DEF Kept, Possible
  <2> QED
    BY <1>1, <1>2, <2>3, <2>4, <2>5, OneJobStep DEF SafeInv, TaskBelongsToOneJob
<1> QED
  BY <1>3, <1>4 DEF Send

\* The answer of the provider, or its absence, is recorded.
LEMMA AnswerSafe ==
  ASSUME SafeInv, NEW j \in Job,
         SendSucceeds(j) \/ SendAmbiguous(j) \/ SendRejected(j)
  PROVE  SafeInv'
<1>1. TypeInv'
  BY RunInitialTypes DEF SafeInv, RunInitial
<1>2. RecoveredFirst' /\ UNCHANGED decision /\ pc[j] = "sending"
  BY AtFacts DEF SendSucceeds, SendAmbiguous, SendRejected
<1>3. inflight' \subseteq inflight /\ UNCHANGED <<sent, accepted, listed>>
  BY DEF SendSucceeds, SendAmbiguous, SendRejected
<1>4. CASE Abandon(j)
  BY <1>1, <1>2, <1>3, <1>4, AbandonSafe
<1>5. ASSUME NEW o, Mark(j, o), NEW l \in {"charge", "failReject"}, Goto(j, l),
             UNCHANGED <<jobVars, budget>>,
             l = "failReject" => j \notin Possible'
      PROVE  SafeInv'
  <2>1. /\ \A k \in Job : pc'[k] = IF k = j THEN l ELSE pc[k]
        /\ \A k \in Job : outcome'[k] = IF k = j THEN o ELSE outcome[k]
        /\ UNCHANGED <<status, budget, baseline, correlation>>
    BY <1>5, MoveAt, MarkAt DEF Goto, SafeInv, Label, Sync, jobVars
  <2>2. JobInv(j)'
    BY <1>2, <1>3, <1>5, <2>1
    DEF SafeInv, JobInv, Phase, BudgetFits, InSubmission, Possible
  <2>3. \A k \in Job \ {j} : Kept(k)
    BY <1>2, <1>3, <2>1 DEF Kept, Possible
  <2> QED
    BY <1>1, <1>2, <2>1, <2>2, <2>3, OneJobStep DEF SafeInv, TaskBelongsToOneJob
<1>6. CASE SendRejected(j)
  <2>1. j \notin Possible'
    BY <1>6 DEF SendRejected, Possible
  <2> QED
    BY <1>4, <1>5, <1>6, <2>1 DEF SendRejected
<1> QED
  BY <1>4, <1>5, <1>6 DEF SendSucceeds, SendAmbiguous

\* What runInitial does with the answer.
LEMMA AfterAnswerSafe ==
  ASSUME SafeInv, NEW j \in Job,
         FailReject(j) \/ FailQueued(j) \/ ChargeSubmitted(j) \/ ToDiscovering(j)
  PROVE  SafeInv'
<1>1. TypeInv'
  BY RunInitialTypes DEF SafeInv, RunInitial
<1>2. RecoveredFirst' /\ UNCHANGED <<wireVars, decision>>
  BY AtFacts DEF FailReject, FailQueued, ChargeSubmitted, ToDiscovering
<1>3. CASE Abandon(j)
  BY <1>1, <1>2, <1>3, AbandonSafe DEF wireVars
<1>4. ASSUME NEW keeps, Leave(j, keeps), FailReject(j) \/ FailQueued(j)
      PROVE  SafeInv'
  <2>1. /\ \A k \in Job : pc'[k] = pc[k] \/ pc'[k] \notin InSubmission
        /\ pc'[j] \notin InSubmission
    BY <1>4, LeaveAt DEF SafeInv
  <2>2. CASE /\ FailAndRelease(j)
             /\ CanFailAndRelease(j, {"queued"}) \/ pc[j] = "failReject"
    BY <1>1, <1>2, <2>1, <2>2, FailSafe DEF CanFailAndRelease, CanTransition
  <2>3. CASE UNCHANGED <<jobVars, budget, submissionVars>>
    BY <1>1, <1>2, <2>1, <2>3, QuietStep
    DEF ledgerVars, jobVars, submissionVars, wireVars
  <2> QED
    BY <1>3, <1>4, <2>2, <2>3 DEF FailReject, FailQueued, At
<1>5. CASE FailReject(j) \/ FailQueued(j)
  BY <1>3, <1>4, <1>5 DEF FailReject, FailQueued
<1>6. CASE ChargeSubmitted(j) /\ ~Abandon(j)
  <2>1. /\ Charge(j) /\ Goto(j, "toDiscovering") /\ pc[j] = "charge"
        /\ UNCHANGED <<jobVars, submissionVars>>
    BY <1>6 DEF ChargeSubmitted, At
  <2>2. /\ \A k \in Job : pc'[k] = IF k = j THEN "toDiscovering" ELSE pc[k]
        /\ \A k \in Job : budget'[k] = IF k = j THEN "charged" ELSE budget[k]
        /\ UNCHANGED <<status, outcome, baseline, correlation, sent, inflight,
                       accepted, listed>>
    BY <1>2, <2>1, MoveAt, BudgetAt
    DEF Goto, SafeInv, Label, Sync, jobVars, submissionVars, wireVars
  <2>3. JobInv(j)'
    BY <1>2, <2>1, <2>2 DEF SafeInv, JobInv, Phase, BudgetFits, InSubmission, Possible
  <2>4. \A k \in Job \ {j} : Kept(k)
    BY <1>2, <2>2 DEF Kept, Possible
  <2> QED
    BY <1>1, <1>2, <2>2, <2>3, <2>4, OneJobStep DEF SafeInv, TaskBelongsToOneJob
<1>7. CASE ToDiscovering(j) /\ ~Abandon(j)
  <2>1. /\ Transition(j, "discovering") /\ Goto(j, "discover")
        /\ pc[j] = "toDiscovering"
        /\ UNCHANGED <<budget, submissionVars>>
    BY <1>7 DEF ToDiscovering, At
  <2>2. /\ \A k \in Job : pc'[k] = IF k = j THEN "discover" ELSE pc[k]
        /\ \A k \in Job : status'[k] = IF k = j THEN "discovering" ELSE status[k]
        /\ UNCHANGED <<budget, outcome, baseline, correlation, sent, inflight,
                       accepted, listed>>
    BY <1>2, <2>1, MoveAt, TransitionAt
    DEF Goto, SafeInv, Label, Await, submissionVars, wireVars
  <2>3. JobInv(j)'
    BY <1>2, <2>1, <2>2 DEF SafeInv, JobInv, Phase, BudgetFits, InSubmission, Possible
  <2>4. \A k \in Job \ {j} : Kept(k)
    BY <1>2, <2>2 DEF Kept, Possible
  <2> QED
    BY <1>1, <1>2, <2>2, <2>3, <2>4, OneJobStep DEF SafeInv, TaskBelongsToOneJob
<1> QED
  BY <1>3, <1>5, <1>6, <1>7

-----------------------------------------------------------------------------
(* A charged job is discovered and followed. *)

Followed == {"discovering", "processing", "unknown"}

\* A transition of a job that is being followed keeps the invariant.
LEMMA FollowStep ==
  ASSUME SafeInv, TypeInv', RecoveredFirst', NEW j \in Job,
         NEW to \in {"processing", "unknown", "completed", "failed"},
         status[j] \in Followed, Transition(j, to),
         UNCHANGED <<budget, submissionVars, wireVars, decision>>,
         \A k \in Job : pc'[k] = pc[k] \/ pc'[k] \notin InSubmission
  PROVE  SafeInv'
<1>1. /\ \A k \in Job : status'[k] = IF k = j THEN to ELSE status[k]
      /\ UNCHANGED <<outcome, baseline, correlation, sent, inflight, accepted,
                     listed>>
  BY TransitionAt DEF SafeInv, submissionVars, wireVars
<1>2. JobInv(j)'
  BY <1>1 DEF Followed, SafeInv, JobInv, Phase, BudgetFits, InSubmission, Possible
<1>3. \A k \in Job \ {j} : Kept(k)
  BY <1>1 DEF Kept, Possible
<1> QED
  BY <1>1, <1>2, <1>3, OneJobStep DEF SafeInv, TaskBelongsToOneJob

\* A new binding is of a task that no other job is bound to.
LEMMA CorrelateStep ==
  ASSUME SafeInv, TypeInv', RecoveredFirst', NEW j \in Job, NEW t \in Job,
         Correlate(j, t), UNCHANGED <<jobVars, budget, wireVars, decision>>,
         \A k \in Job : pc'[k] = pc[k] \/ pc'[k] \notin InSubmission,
         pc'[j] \notin InSubmission
  PROVE  SafeInv'
<1>1. /\ \A k \in Job \ {j} : outcome'[k] = outcome[k]
      /\ UNCHANGED baseline
      /\ UNCHANGED <<status, sent, inflight, accepted, listed>>
  BY MarkAt DEF Correlate, SafeInv, TypeInv, StoreTypeOK, jobVars, wireVars
<1>2. \A k \in Job : Kept(k)
  BY <1>1 DEF Kept, Possible, InSubmission
<1>3. TaskBelongsToOneJob'
  BY MarkAt DEF Correlate, BoundElsewhere, SafeInv, TypeInv, StoreTypeOK,
                TaskBelongsToOneJob
<1> QED
  BY <1>2, <1>3, KeptJob DEF SafeInv

\* The transition of persistUnknown keeps the invariant, whether or not it throws.
LEMMA PersistUnknownSafe ==
  ASSUME SafeInv, TypeInv', RecoveredFirst', NEW j \in Job,
         NEW expected, expected \subseteq Followed, PersistUnknown(j, expected),
         UNCHANGED <<wireVars, decision>>
  PROVE  SafeInv'
<1>1. CASE Abandon(j)
  BY <1>1, AbandonSafe DEF wireVars
<1>2. CASE ~Abandon(j)
  <2>1. "waitUnknown" \in Label \ InSubmission
    BY DEF Label, Await, InSubmission
  <2>2. \A k \in Job : pc'[k] = pc[k] \/ pc'[k] \notin InSubmission
    BY <1>2, <2>1, MoveAt DEF PersistUnknown, SafeInv
  <2> QED
    BY <1>2, <2>2, FollowStep DEF PersistUnknown, CanTransition
<1> QED
  BY <1>1, <1>2

\* The runner of j comes to a label outside the submission.
LEMMA OutsideAt ==
  ASSUME SafeInv, NEW j \in Job,
         NEW l \in Label \ InSubmission, MoveTo(j, l) \/ Goto(j, l)
  PROVE  /\ \A k \in Job : pc'[k] = pc[k] \/ pc'[k] \notin InSubmission
         /\ pc'[j] \notin InSubmission /\ pc'[j] = l
         /\ \A k \in Job \ {j} : pc'[k] = pc[k]
  BY MoveAt DEF Goto, SafeInv

\* The actions of a discovery keep the invariant.
LEMMA DiscoverySafe ==
  ASSUME SafeInv, NEW j \in Job, NEW t \in Job,
         \/ DiscoverUnique(j, t) \/ DiscoverNotUnique(j) \/ DiscoverFails(j)
         \/ ToUnknown(j) \/ ToProcessing(j)
  PROVE  SafeInv'
<1>1. TypeInv'
  BY DiscoveryTypes DEF SafeInv
<1>2. RecoveredFirst' /\ UNCHANGED <<wireVars, decision>>
  BY AtFacts DEF DiscoverUnique, DiscoverNotUnique, DiscoverFails, ToUnknown,
                 ToProcessing
<1>3. {"toProcessing", "toUnknown", "poll", "waitUnknown"} \subseteq Label \ InSubmission
  BY DEF Label, Await, Sync, InSubmission
<1>4. CASE Abandon(j)
  BY <1>1, <1>2, <1>4, AbandonSafe DEF wireVars
<1>5. CASE DiscoverUnique(j, t) /\ ~Abandon(j)
  <2>1. /\ Correlate(j, t) /\ UNCHANGED <<jobVars, budget>>
        /\ Leave(j, TRUE) \/ MoveTo(j, "toProcessing")
    BY <1>5 DEF DiscoverUnique, Correlating
  <2>2. /\ \A k \in Job : pc'[k] = pc[k] \/ pc'[k] \notin InSubmission
        /\ pc'[j] \notin InSubmission
    BY <1>3, <2>1, LeaveAt, OutsideAt DEF SafeInv
  <2> QED
    BY <1>1, <1>2, <2>1, <2>2, CorrelateStep
<1>6. CASE DiscoverNotUnique(j) /\ ~Abandon(j)
  <2>1. /\ Mark(j, "correlation_ambiguous") /\ Goto(j, "toUnknown")
        /\ UNCHANGED <<jobVars, budget>>
    BY <1>6 DEF DiscoverNotUnique
  <2>2. /\ \A k \in Job : pc'[k] = pc[k] \/ pc'[k] \notin InSubmission
        /\ pc'[j] = "toUnknown"
    BY <1>3, <2>1, OutsideAt
  <2>3. /\ \A k \in Job : outcome'[k] = outcome[k] \/ pc'[k] # "send"
        /\ UNCHANGED <<baseline, correlation>>
    BY <2>1, <2>2, MarkAt DEF SafeInv
  <2> QED
    BY <1>1, <1>2, <2>1, <2>2, <2>3, QuietStep DEF ledgerVars, jobVars, wireVars
<1>7. CASE DiscoverFails(j) \/ ToUnknown(j)
  BY <1>1, <1>2, <1>7, PersistUnknownSafe DEF DiscoverFails, ToUnknown, Followed
<1>8. CASE ToProcessing(j) /\ ~Abandon(j)
  <2>1. CASE Goto(j, "waitUnknown") /\ UNCHANGED storeVars
    BY <1>1, <1>2, <1>3, <2>1, OutsideAt, QuietStep
    DEF ledgerVars, storeVars, jobVars, submissionVars, wireVars
  <2>2. CASE /\ CanTransition(j, {"discovering", "unknown"}, "processing")
             /\ Transition(j, "processing") /\ Goto(j, "poll")
             /\ UNCHANGED <<budget, submissionVars>>
    BY <1>1, <1>2, <1>3, <2>2, OutsideAt, FollowStep DEF CanTransition, Followed
  <2> QED
    BY <1>8, <2>1, <2>2 DEF ToProcessing
<1> QED
  BY <1>4, <1>5, <1>6, <1>7, <1>8

\* The actions of recoverUnknown keep the invariant.
LEMMA RediscoverySafe ==
  ASSUME SafeInv, NEW j \in Job, NEW t \in Job,
         \/ RetryDiscovery(j) \/ Rediscover(j) \/ RediscoverUnique(j, t)
         \/ RediscoverNothing(j) \/ GiveUpUnknown(j)
  PROVE  SafeInv'
<1>1. TypeInv'
  BY RediscoveryTypes DEF SafeInv
<1>2. RecoveredFirst' /\ UNCHANGED <<wireVars, decision>>
  BY AtFacts DEF RetryDiscovery, Rediscover, RediscoverUnique, RediscoverNothing,
                 GiveUpUnknown
<1>3. {"awaitRediscover", "discoverUnknown", "waitUnknown", "toProcessing"}
        \subseteq Label \ InSubmission
  BY DEF Label, Await, Sync, InSubmission
<1>4. /\ \A k \in Job : pc'[k] = pc[k] \/ pc'[k] \notin InSubmission
      /\ pc'[j] \notin InSubmission
  BY <1>3, OutsideAt, LeaveAt
  DEF RetryDiscovery, Rediscover, RediscoverUnique, Correlating, RediscoverNothing,
      GiveUpUnknown, SafeInv
<1>5. CASE UNCHANGED <<jobVars, budget, submissionVars>>
  BY <1>1, <1>2, <1>4, <1>5, QuietStep
  DEF ledgerVars, jobVars, submissionVars, wireVars
<1>6. CASE Correlate(j, t) /\ UNCHANGED <<jobVars, budget>>
  BY <1>1, <1>2, <1>4, <1>6, CorrelateStep
<1> QED
  BY <1>5, <1>6
  DEF RetryDiscovery, Rediscover, RediscoverUnique, Correlating, RediscoverNothing,
      GiveUpUnknown, storeVars

\* The actions of pollUntilSettled keep the invariant.
LEMMA PollSafe ==
  ASSUME SafeInv, NEW j \in Job,
         PollSettles(j) \/ MarkTerminal(j) \/ PollDeadline(j) \/ DeadlineUnknown(j)
  PROVE  SafeInv'
<1>1. TypeInv'
  BY PollTypes DEF SafeInv
<1>2. RecoveredFirst' /\ UNCHANGED <<wireVars, decision>>
  BY AtFacts DEF PollSettles, MarkTerminal, PollDeadline, DeadlineUnknown
<1>3. {"markTerminal", "deadlineUnknown"} \subseteq Label \ InSubmission
  BY DEF Label, Await, Sync, InSubmission
<1>4. /\ \A k \in Job : pc'[k] = pc[k] \/ pc'[k] \notin InSubmission
      /\ pc'[j] \notin InSubmission
  BY <1>3, OutsideAt, LeaveAt
  DEF PollSettles, MarkTerminal, PollDeadline, DeadlineUnknown, Abandon, SafeInv
<1>5. CASE Abandon(j)
  BY <1>1, <1>2, <1>5, AbandonSafe DEF wireVars
<1>6. CASE UNCHANGED <<jobVars, budget, submissionVars>>
  BY <1>1, <1>2, <1>4, <1>6, QuietStep
  DEF ledgerVars, jobVars, submissionVars, wireVars
<1>7. ASSUME NEW o, Mark(j, o), UNCHANGED <<jobVars, budget>>
      PROVE  SafeInv'
  <2>1. /\ \A k \in Job : outcome'[k] = outcome[k] \/ pc'[k] # "send"
        /\ UNCHANGED <<baseline, correlation>>
    BY <1>4, <1>7, MarkAt DEF SafeInv, InSubmission
  <2> QED
    BY <1>1, <1>2, <1>4, <1>7, <2>1, QuietStep DEF ledgerVars, jobVars, wireVars
<1>8. ASSUME NEW to \in Terminal \cup {"unknown"}, Transition(j, to),
             status[j] \in Followed, UNCHANGED <<budget, submissionVars>>
      PROVE  SafeInv'
  BY <1>1, <1>2, <1>4, <1>8, FollowStep DEF Terminal
<1> QED
  BY <1>5, <1>6, <1>7, <1>8
  DEF PollSettles, MarkTerminal, PollDeadline, DeadlineUnknown, CanTransition,
      Followed

\* The recovered runners, and those that are stopped, keep the invariant.
LEMMA RunRecoveredSafe ==
  ASSUME SafeInv, NEW j \in Job, RunRecovered(j) \/ StopRunner(j)
  PROVE  SafeInv'
<1>1. TypeInv'
  BY RunnerTypes DEF SafeInv, Runner
<1>2. RecoveredFirst' /\ UNCHANGED <<wireVars, decision>>
  <2>1. CASE RunRecovered(j)
    BY <2>1, AtFacts DEF RunRecovered, ResumeQueued, ResumeQueuedFails, ResumeRefused,
                         Resume, ResumeProcessing, ResumeDiscovery
  <2>2. CASE StopRunner(j)
    BY <2>2 DEF StopRunner, SafeInv, RecoveredFirst, processVars
  <2> QED
    BY <2>1, <2>2
<1>3. {"upload", "poll", "resumeProcessing", "waitUnknown", "awaitDiscover",
        "discover"} \subseteq Label \ InSubmission
  BY DEF Label, Await, Sync, InSubmission
<1>4. \A k \in Job : pc'[k] = pc[k] \/ pc'[k] \notin InSubmission
  BY <1>3, OutsideAt, LeaveAt
  DEF RunRecovered, ResumeQueued, ResumeQueuedFails, ResumeRefused, Resume,
      ResumeProcessing, ResumeDiscovery, StopRunner, Abandon, SafeInv
<1>5. CASE UNCHANGED <<jobVars, budget, submissionVars>>
  BY <1>1, <1>2, <1>4, <1>5, QuietStep
  DEF ledgerVars, jobVars, submissionVars, wireVars
<1>6. CASE ResumeQueuedFails(j)
  <2>1. pc[j] = "resumeQueued"
    BY <1>6 DEF ResumeQueuedFails, At
  <2> QED
    BY <1>1, <1>2, <1>4, <1>5, <1>6, <2>1, FailSafe
    DEF ResumeQueuedFails, CanFailAndRelease, CanTransition
<1>7. CASE ResumeProcessing(j)
  BY <1>1, <1>2, <1>4, <1>5, <1>7, FollowStep
  DEF ResumeProcessing, Abandon, CanTransition, Followed
<1> QED
  BY <1>5, <1>6, <1>7
  DEF RunRecovered, ResumeQueued, ResumeRefused, Resume, ResumeDiscovery, StopRunner,
      storeVars

\* So does every action of a runner.
LEMMA RunnerSafe ==
  ASSUME SafeInv, NEW j \in Job, Runner(j)
  PROVE  SafeInv'
<1>1. CASE RunInitial(j)
  BY <1>1, BeforeSendSafe, SendSafe, AnswerSafe, AfterAnswerSafe DEF RunInitial
<1>2. CASE RunPostSubmit(j)
  BY <1>2, DiscoverySafe, RediscoverySafe, PollSafe DEF RunPostSubmit
<1> QED
  BY <1>1, <1>2, StartingSafe, RunRecoveredSafe DEF Runner

-----------------------------------------------------------------------------
(* The start-up recovery and the life of the process. *)

\* The start-up recovery keeps the invariant: it charges and never gives back
\* the points of a job that may have been sent.
LEMMA RecoverSafe ==
  ASSUME SafeInv, NEW j \in Job, Recover(j)
  PROVE  SafeInv'
<1>1. TypeInv'
  BY RecoverTypes DEF SafeInv
<1>2. /\ Recovering(j) /\ pc[j] = "idle"
  BY DEF Recover, RecoverSettled, RecoverJob, RecoverExpired, RecoverUnavailable,
         RecoverQueued, Recovering, SafeInv, RecoveredFirst
<1>3. /\ pc'[j] \notin InSubmission
      /\ \A k \in Job \ {j} : pc'[k] = pc[k]
  <2>1. {"resume", "resumeQueued"} \subseteq Label \ InSubmission /\ "idle" \notin InSubmission
    BY DEF Label, Await, InSubmission
  <2> QED
    BY <1>2, <2>1, OutsideAt
    DEF Recover, RecoverSettled, RecoverJob, RecoverExpired, RecoverUnavailable,
        RecoverQueued
<1>4. RecoveredFirst'
  BY <1>2, <1>3 DEF Recovering, SafeInv, RecoveredFirst, TypeInv, ProcessTypeOK
<1>5. /\ UNCHANGED <<outcome, baseline, correlation, sent, inflight, accepted, listed,
                     decision>>
  BY <1>2 DEF Recovering, submissionVars, wireVars
<1>6. /\ \A k \in Job \ {j} : status'[k] = status[k] /\ budget'[k] = budget[k]
      /\ \/ status'[j] = status[j] /\ budget'[j] = budget[j]
         \/ status'[j] = status[j] /\ CanCharge(j) /\ budget'[j] = "charged"
              /\ status[j] \in {"submitting", "completed"} \cup Followed
         \/ status'[j] = status[j] /\ status[j] = "failed"
              /\ budget'[j] = IF budget[j] = "reserved" THEN "released" ELSE budget[j]
         \/ status'[j] \in {"discovering", "unknown"} /\ budget'[j] = "charged"
              /\ status[j] \in {"submitting"} \cup Followed
  BY TransitionAt, BudgetAt
  DEF Recover, RecoverSettled, RecoverJob, RecoverExpired, RecoverUnavailable,
      RecoverQueued, InProgress, Followed, SafeInv
<1>7. JobInv(j)'
  BY <1>2, <1>3, <1>5, <1>6
  DEF SafeInv, JobInv, Phase, BudgetFits, InSubmission, Possible, Followed, CanCharge
<1>8. \A k \in Job \ {j} : Kept(k)
  BY <1>3, <1>5, <1>6 DEF Kept, Possible
<1> QED
  BY <1>1, <1>4, <1>5, <1>7, <1>8, OneJobStep DEF SafeInv, TaskBelongsToOneJob

\* Start, kill and shutdown keep the invariant.
LEMMA LifecycleSafe ==
  ASSUME SafeInv, Lifecycle
  PROVE  SafeInv'
<1>1. TypeInv'
  BY LifecycleTypes DEF SafeInv
<1>2. /\ UNCHANGED <<storeVars, sent, accepted, listed, decision>>
      /\ inflight' \subseteq inflight
      /\ pc' \in {pc, [j \in Job |-> "idle"]}
  BY DEF Lifecycle, Start, BootDone, BeginShutdown, StopPollers, CloseProcess, Kill,
         GoDown, wireVars, runnerVars
<1>3. RecoveredFirst'
  BY DEF Lifecycle, Start, Recoverable, BootDone, BeginShutdown, StopPollers,
         CloseProcess, Kill, GoDown, runnerVars, SafeInv, RecoveredFirst
<1>4. \A k \in Job : Kept(k)
  BY <1>2 DEF Kept, Possible, InSubmission, storeVars, jobVars, submissionVars
<1>5. TaskBelongsToOneJob'
  BY <1>2 DEF SafeInv, TaskBelongsToOneJob, storeVars, submissionVars
<1> QED
  BY <1>1, <1>3, <1>4, <1>5, KeptJob DEF SafeInv

-----------------------------------------------------------------------------
(* The reconciler. *)

\* The reconciler keeps the invariant.
LEMMA ReconcileSafe ==
  ASSUME SafeInv, Reconcile
  PROVE  SafeInv'
<1>1. TypeInv'
  BY ReconcileTypes DEF SafeInv
<1>2. UNCHANGED <<processVars, runnerVars, wireVars, decision, budget, baseline,
                  correlation>>
  BY DEF Reconcile, BeginScan, SkipDue, TakeDue, DeferUnavailable, AcquireDue,
         ReconcilePoll, ReconcilePollFails, ReconcilePollEmpty,
         Settle, Defer, DeferFrom, MarkDeferred,
         MarkDeferredFrom, LastDefer, MarkLastDeferred, RAt, storeVars,
         submissionVars, Mark
<1>3. RecoveredFirst'
  BY <1>2 DEF processVars, runnerVars, SafeInv, RecoveredFirst
<1>4. CASE UNCHANGED <<jobVars, submissionVars>>
  BY <1>1, <1>2, <1>3, <1>4, QuietStep
  DEF ledgerVars, jobVars, submissionVars, runnerVars, wireVars
<1>5. ASSUME NEW o, Mark(rjob, o), rjob \in Job, CanMark(rjob, ProviderOpen),
             UNCHANGED jobVars
      PROVE  SafeInv'
  <2>1. \A k \in Job : outcome'[k] = outcome[k] \/ pc'[k] # "send"
    BY <1>2, <1>5, MarkAt
    DEF CanMark, ProviderOpen, runnerVars, SafeInv, JobInv, Phase
  <2> QED
    BY <1>1, <1>2, <1>3, <1>5, <2>1, QuietStep
    DEF ledgerVars, jobVars, runnerVars, wireVars
<1>6. ASSUME NEW to \in Terminal \cup {"processing", "unknown"},
             rjob \in Job, status[rjob] \in Followed, Transition(rjob, to),
             UNCHANGED submissionVars
      PROVE  SafeInv'
  BY <1>1, <1>2, <1>3, <1>6, FollowStep DEF Terminal, runnerVars
<1>7. CASE \/ BeginScan
           \/ \E j \in Job : SkipDue(j) \/ TakeDue(j) \/ DeferUnavailable(j)
  BY <1>4, <1>7
  DEF BeginScan, SkipDue, TakeDue, DeferUnavailable, AcquireDue, storeVars
<1>8. CASE \/ ReconcilePoll \/ ReconcilePollFails \/ ReconcilePollEmpty \/ Settle
           \/ Defer \/ MarkDeferred \/ LastDefer \/ MarkLastDeferred
  <2>1. rjob \in Job
    BY <1>8 DEF ReconcilePoll, ReconcilePollFails, ReconcilePollEmpty,
                Settle, Defer, DeferFrom,
                MarkDeferred, MarkDeferredFrom, LastDefer, MarkLastDeferred, RAt,
                SafeInv, TypeInv, ReconcilerInv
  <2>2. CASE ReconcilePoll \/ ReconcilePollFails \/ ReconcilePollEmpty
    BY <1>4, <1>6, <2>1, <2>2
    DEF ReconcilePoll, ReconcilePollFails, ReconcilePollEmpty, CanTransition, Followed
  <2>3. CASE Settle
    BY <1>4, <1>5, <1>6, <2>1, <2>3 DEF Settle, Followed
  <2>4. CASE Defer \/ MarkDeferred \/ LastDefer \/ MarkLastDeferred
    BY <1>4, <1>5, <1>6, <2>1, <2>4
    DEF Defer, DeferFrom, MarkDeferred, MarkDeferredFrom, LastDefer,
        MarkLastDeferred, CanTransition, Followed
  <2> QED
    BY <1>8, <2>2, <2>3, <2>4
<1> QED
  BY <1>7, <1>8 DEF Reconcile

-----------------------------------------------------------------------------
(* Operators, clients, the clock and the provider. *)

\* A new job keeps the invariant.
LEMMA CreateSafe ==
  ASSUME SafeInv, NEW j \in Job, Create(j)
  PROVE  SafeInv'
<1>1. TypeInv'
  BY StartingTypes DEF SafeInv
<1>2. \A k \in Job : pc'[k] = IF k = j THEN "prepare" ELSE pc[k]
  BY MoveAt DEF Create, SafeInv, Label, Await
<1>3. /\ status[j] = "absent"
      /\ \A k \in Job : status'[k] = IF k = j THEN "queued" ELSE status[k]
      /\ \A k \in Job : budget'[k] = IF k = j THEN "reserved" ELSE budget[k]
  BY DEF Create, ReserveOrGet, SafeInv, TypeInv, StoreTypeOK
<1>4. /\ UNCHANGED <<outcome, baseline, correlation, sent, inflight, accepted, listed,
                     decision, mode, todo>>
      /\ mode = "up"
  BY DEF Create, ReserveOrGet, submissionVars, wireVars, processVars
<1>5. RecoveredFirst'
  BY <1>4 DEF SafeInv, RecoveredFirst
<1>6. JobInv(j)'
  BY <1>2, <1>3, <1>4 DEF SafeInv, JobInv, Phase, BudgetFits, InSubmission, Possible
<1>7. \A k \in Job \ {j} : Kept(k)
  BY <1>2, <1>3, <1>4 DEF Kept, Possible
<1> QED
  BY <1>1, <1>4, <1>5, <1>6, <1>7, OneJobStep DEF SafeInv, TaskBelongsToOneJob

\* The ruling of an operator keeps the invariant.
LEMMA OperatorSafe ==
  ASSUME SafeInv, NEW j \in Job, NEW action \in {"charge", "release"},
         OperatorResolves(j, action)
  PROVE  SafeInv'
<1>1. TypeInv'
  BY EnvironmentTypes DEF SafeInv, Environment
<1>2. /\ status[j] = "unknown"
      /\ \A k \in Job : status'[k] = IF k = j THEN "failed" ELSE status[k]
      /\ budget'[j] = IF action = "charge" THEN "charged" ELSE "released"
      /\ decision'[j] = action
      /\ \A k \in Job \ {j} : budget'[k] = budget[k] /\ decision'[k] = decision[k]
  BY TransitionAt
  DEF OperatorResolves, CanResolveUnknown, ResolveUnknown, SafeInv, TypeInv,
      StoreTypeOK
<1>3. /\ UNCHANGED <<outcome, baseline, correlation, sent, inflight, accepted, listed,
                     pc, mode, todo>>
  BY DEF OperatorResolves, ResolveUnknown, submissionVars, wireVars, processVars
<1>4. RecoveredFirst'
  BY <1>3 DEF SafeInv, RecoveredFirst
<1>5. JobInv(j)'
  BY <1>2, <1>3 DEF SafeInv, JobInv, Phase, BudgetFits, InSubmission, Possible
<1>6. \A k \in Job \ {j} : Kept(k)
  BY <1>2, <1>3 DEF Kept, Possible
<1> QED
  BY <1>1, <1>3, <1>4, <1>5, <1>6, OneJobStep DEF SafeInv, TaskBelongsToOneJob

\* Clients, operators, the clock and the provider keep the invariant.
LEMMA EnvironmentSafe ==
  ASSUME SafeInv, Environment
  PROVE  SafeInv'
<1>1. TypeInv'
  BY EnvironmentTypes DEF SafeInv
<1> PICK j \in Job :
      \/ Create(j) \/ ClientCancels(j)
      \/ \E action \in {"charge", "release"} : OperatorResolves(j, action)
      \/ HoldExpires(j) \/ ReconcileComesDue(j) \/ CapacitySweep(j) \/ Lapse(j)
      \/ ProviderAccepts(j) \/ ProviderLists(j)
  BY DEF Environment
<1>2. CASE ClientCancels(j)
  <2>1. /\ UNCHANGED <<processVars, runnerVars, wireVars, decision>>
        /\ CancelQueued(j) /\ status[j] = "queued"
    BY <1>2 DEF ClientCancels, CanCancelQueued
  <2>2. RecoveredFirst' /\ pc[j] # "failReject" /\ pc' = pc
    BY <2>1 DEF SafeInv, RecoveredFirst, JobInv, Phase, InSubmission, processVars,
                runnerVars
  <2> QED
    BY <1>1, <2>1, <2>2, FailSafe
<1>3. CASE HoldExpires(j) \/ ReconcileComesDue(j) \/ CapacitySweep(j) \/ Lapse(j)
  <2>1. UNCHANGED <<status, budget, submissionVars, wireVars, decision, pc, mode, todo>>
    BY <1>3 DEF HoldExpires, ReconcileComesDue, CapacitySweep, Lapse, LeaseLapses,
                storeVars, jobVars, processVars, runnerVars
  <2>2. RecoveredFirst'
    BY <2>1 DEF SafeInv, RecoveredFirst
  <2> QED
    BY <1>1, <2>1, <2>2, QuietStep DEF ledgerVars, submissionVars, wireVars
<1>4. CASE ProviderAccepts(j) \/ ProviderLists(j)
  <2>1. /\ UNCHANGED <<storeVars, processVars, runnerVars, sent, decision>>
        /\ Possible' \subseteq Possible /\ listed \subseteq listed'
    BY <1>4 DEF ProviderAccepts, ProviderLists, Possible
  <2>2. RecoveredFirst' /\ TaskBelongsToOneJob'
    BY <2>1 DEF SafeInv, RecoveredFirst, TaskBelongsToOneJob, storeVars,
                submissionVars, processVars, runnerVars
  <2>3. \A k \in Job : Kept(k)
    BY <2>1 DEF Kept, storeVars, jobVars, submissionVars, runnerVars
  <2> QED
    BY <1>1, <2>2, <2>3, KeptJob DEF SafeInv
<1> QED
  BY <1>2, <1>3, <1>4, CreateSafe, OperatorSafe

-----------------------------------------------------------------------------
(* The safety theorems. *)

\* The invariant holds of an empty database.
LEMMA InitSafe == Init => SafeInv
  BY InitTypes
  DEF Init, StoreInit, MemoryInit, SafeInv, JobInv, Phase, BudgetFits, InSubmission,
      Possible, RecoveredFirst, TaskBelongsToOneJob

\* A step that changes nothing keeps the invariant.
LEMMA StutterSafe ==
  ASSUME SafeInv, UNCHANGED vars
  PROVE  SafeInv'
<1>1. TypeInv'
  BY NextTypes DEF SafeInv
<1>2. RecoveredFirst'
  BY DEF SafeInv, RecoveredFirst, vars, processVars, runnerVars
<1> QED
  BY <1>1, <1>2, QuietStep
  DEF vars, ledgerVars, storeVars, jobVars, submissionVars, runnerVars, wireVars

\* The invariant is inductive.
LEMMA NextSafe == SafeInv /\ [Next]_vars => SafeInv'
  BY RunnerSafe, RecoverSafe, ReconcileSafe, LifecycleSafe, EnvironmentSafe,
     StutterSafe
  DEF Next

\* The inductive invariant holds in every state: at every place a runner can be
\* killed at, the status, the points and the evidence of the job say how far its
\* request can have come.
THEOREM SafetyInvariance == Spec => []SafeInv
  BY InitSafe, NextSafe, PTL DEF Spec

\* The paid request of a job is sent at most once, whatever the runners, the
\* recovery and the reconciler go through.
THEOREM SubmitsAtMostOnce == Spec => []SubmitAtMostOnce
<1>1. SafeInv => SubmitAtMostOnce
  BY DEF SafeInv, JobInv, SubmitAtMostOnce
<1> QED
  BY <1>1, SafetyInvariance, PTL

\* No points are given back for a task that exists or may still come into being,
\* unless an operator ruled so.
THEOREM RefundsOnlyWithoutTask == Spec => []NoRefundAfterPossibleSubmit
<1>1. SafeInv => NoRefundAfterPossibleSubmit
  BY DEF SafeInv, JobInv, NoRefundAfterPossibleSubmit
<1> QED
  BY <1>1, SafetyInvariance, PTL

\* The budget entry and the status of a job fit together between any two
\* transactions, so that the recovery can always charge what it finds.
THEOREM BudgetAlwaysFits == Spec => []BudgetFitsStatus
<1>1. SafeInv => BudgetFitsStatus
  BY DEF SafeInv, JobInv, BudgetFits, BudgetFitsStatus, TypeInv, StoreTypeOK, JobStatus
<1> QED
  BY <1>1, SafetyInvariance, PTL

\* A task is the evidence of one job: correlate looks for another binding in the
\* transaction that makes its own.
THEOREM TasksAreNotShared == Spec => []TaskBelongsToOneJob
<1>1. SafeInv => TaskBelongsToOneJob
  BY DEF SafeInv
<1> QED
  BY <1>1, SafetyInvariance, PTL

-----------------------------------------------------------------------------
(* The submission contract: the points and the request, action by action. *)

\* What the contract speaks of.
contractVars == <<budget, sent, inflight, accepted>>

\* A step that leaves the points and the wire alone is a stutter of the contract.
LEMMA KeptContract ==
  UNCHANGED contractVars => UNCHANGED Contract!vars
  BY DEF contractVars, Contract!vars

\* Releasing a reservation whose request was not sent is GiveBack, or a stutter.
LEMMA GivesBack ==
  ASSUME SafeInv, NEW j \in Job, ReleasePreSubmit(j),
         budget[j] = "reserved" => j \notin Possible,
         UNCHANGED <<sent, inflight, accepted>>
  PROVE  [Contract!Next]_(Contract!vars)
<1>1. CASE budget[j] = "reserved"
  <2>1. Contract!GiveBack(j)
    BY <1>1 DEF Contract!GiveBack, ReleasePreSubmit, Possible
  <2> QED
    BY <2>1 DEF Contract!Next
<1>2. CASE budget[j] # "reserved"
  <2>1. budget' = budget
    BY <1>2 DEF ReleasePreSubmit, SafeInv, TypeInv, StoreTypeOK
  <2> QED
    BY <2>1, KeptContract DEF contractVars
<1> QED
  BY <1>1, <1>2

\* A charge is Charge, or a stutter when it was made before.
LEMMA Charges ==
  ASSUME SafeInv, NEW j \in Job, CanCharge(j), Charge(j),
         UNCHANGED <<sent, inflight, accepted>>
  PROVE  [Contract!Next]_(Contract!vars)
<1>1. CASE budget[j] = "reserved"
  <2>1. Contract!Charge(j)
    BY <1>1 DEF Contract!Charge, Charge
  <2> QED
    BY <2>1 DEF Contract!Next
<1>2. CASE budget[j] = "charged"
  <2>1. budget' = budget
    BY <1>2 DEF Charge, SafeInv, TypeInv, StoreTypeOK
  <2> QED
    BY <2>1, KeptContract DEF contractVars
<1> QED
  BY <1>1, <1>2 DEF CanCharge

\* A job that fails before it was sent.
LEMMA FailGivesBack ==
  ASSUME SafeInv, NEW j \in Job, ReleasePreSubmit(j),
         status[j] = "queued" \/ pc[j] = "failReject",
         UNCHANGED <<sent, inflight, accepted>>
  PROVE  [Contract!Next]_(Contract!vars)
<1>1. j \notin Possible
  BY DEF SafeInv, JobInv, Phase
<1> QED
  BY <1>1, GivesBack

\* The steps of runInitial are steps of the contract.
LEMMA SubmissionContractSteps ==
  ASSUME SafeInv, NEW j \in Job, RunInitial(j)
  PROVE  [Contract!Next]_(Contract!vars)
<1>1. CASE UNCHANGED contractVars
  BY <1>1, KeptContract
<1>2. CASE \/ Upload(j) \/ TakeDiscoveryLock(j) \/ Snapshot(j) \/ SnapshotFails(j)
           \/ ToSubmitting(j) \/ MarkSubmitting(j) \/ ToDiscovering(j)
  BY <1>1, <1>2
  DEF Upload, TakeDiscoveryLock, Snapshot, SnapshotFails, ToSubmitting,
      MarkSubmitting, ToDiscovering, Abandon, contractVars, storeVars, wireVars
<1>3. CASE Send(j)
  <2>1. CASE Abandon(j) /\ UNCHANGED wireVars
    BY <1>1, <2>1 DEF Abandon, contractVars, wireVars
  <2>2. CASE /\ sent' = [sent EXCEPT ![j] = @ + 1]
             /\ inflight' = inflight \cup {j}
             /\ UNCHANGED <<storeVars, accepted, listed>>
    <3>1. budget[j] = "reserved" /\ sent[j] = 0
      BY <1>3 DEF Send, At, SafeInv, JobInv, Phase
    <3>2. {k \in Job : sent[k] > 0}' = {k \in Job : sent[k] > 0} \cup {j}
      <4>1. \A k \in Job : sent'[k] = IF k = j THEN 1 ELSE sent[k]
        BY <2>2, <3>1 DEF SafeInv, TypeInv, WireTypeOK
      <4> QED
        BY <4>1
    <3>3. Contract!Request(j)
      BY <2>2, <3>1, <3>2 DEF Contract!Request, storeVars
    <3> QED
      BY <3>3 DEF Contract!Next
  <2> QED
    BY <1>3, <2>1, <2>2 DEF Send
<1>4. CASE SendSucceeds(j) \/ SendAmbiguous(j) \/ SendRejected(j)
  <2>1. inflight' \subseteq inflight /\ UNCHANGED <<budget, sent, accepted>>
    BY <1>4 DEF SendSucceeds, SendAmbiguous, SendRejected, Abandon
  <2>2. Contract!Answered
    BY <2>1 DEF Contract!Answered
  <2> QED
    BY <2>2 DEF Contract!Next
<1>5. CASE FailReject(j) \/ FailQueued(j)
  <2>1. UNCHANGED <<sent, inflight, accepted>>
    BY <1>5 DEF FailReject, FailQueued, wireVars
  <2>2. CASE UNCHANGED budget
    BY <1>1, <2>1, <2>2 DEF contractVars
  <2>3. CASE FailAndRelease(j)
    BY <1>5, <2>1, <2>2, <2>3, FailGivesBack
    DEF FailReject, FailQueued, At, FailAndRelease, CanFailAndRelease, CanTransition
  <2> QED
    BY <1>5, <2>2, <2>3 DEF FailReject, FailQueued, Abandon
<1>6. CASE ChargeSubmitted(j)
  BY <1>1, <1>6, Charges
  DEF ChargeSubmitted, Abandon, contractVars, wireVars
<1> QED
  BY <1>2, <1>3, <1>4, <1>5, <1>6 DEF RunInitial

\* So is every step of a runner.
LEMMA RunnerContractSteps ==
  ASSUME SafeInv, NEW j \in Job, Runner(j)
  PROVE  [Contract!Next]_(Contract!vars)
<1>1. CASE UNCHANGED <<budget, wireVars>>
  BY <1>1, KeptContract DEF contractVars, wireVars
<1>2. CASE StartRunner(j) \/ PrepareFails(j) \/ StartRefused(j) \/ ResumeQueuedFails(j)
  <2>1. UNCHANGED wireVars
    BY <1>2 DEF StartRunner, PrepareFails, StartRefused, ResumeQueuedFails
  <2>2. CASE FailAndRelease(j) /\ CanFailAndRelease(j, {"queued"})
    BY <2>1, <2>2, FailGivesBack
    DEF FailAndRelease, CanFailAndRelease, CanTransition, wireVars
  <2> QED
    BY <1>1, <1>2, <2>1, <2>2
    DEF StartRunner, PrepareFails, StartRefused, ResumeQueuedFails
<1>3. CASE RunPostSubmit(j)
  <2>1. PICK t \in Job :
          \/ DiscoverUnique(j, t) \/ RediscoverUnique(j, t)
          \/ DiscoverNotUnique(j) \/ DiscoverFails(j) \/ ToUnknown(j)
          \/ ToProcessing(j) \/ RetryDiscovery(j) \/ Rediscover(j)
          \/ RediscoverNothing(j) \/ GiveUpUnknown(j) \/ PollSettles(j)
          \/ MarkTerminal(j) \/ PollDeadline(j) \/ DeadlineUnknown(j)
    BY <1>3 DEF RunPostSubmit
  <2> QED
    BY <1>1, <2>1
    DEF DiscoverUnique, RediscoverUnique, Correlating, DiscoverNotUnique,
        DiscoverFails, ToUnknown, PersistUnknown, ToProcessing, RetryDiscovery,
        Rediscover, RediscoverNothing, GiveUpUnknown, PollSettles, MarkTerminal,
        PollDeadline, DeadlineUnknown, Abandon, storeVars
<1>4. CASE (RunRecovered(j) \/ StopRunner(j)) /\ ~ResumeQueuedFails(j)
  BY <1>1, <1>4
  DEF RunRecovered, ResumeQueued, ResumeRefused, Resume, ResumeProcessing,
      ResumeDiscovery, StopRunner, Abandon, storeVars
<1> QED
  BY <1>2, <1>3, <1>4, SubmissionContractSteps DEF Runner

\* The start-up recovery charges, gives back or stutters.
LEMMA RecoverContractSteps ==
  ASSUME SafeInv, NEW j \in Job, Recover(j)
  PROVE  [Contract!Next]_(Contract!vars)
<1>1. UNCHANGED <<sent, inflight, accepted>>
  BY DEF Recover, RecoverSettled, RecoverJob, RecoverExpired, RecoverUnavailable,
         RecoverQueued, Recovering, wireVars
<1>2. CASE CanCharge(j) /\ Charge(j)
  BY <1>1, <1>2, Charges
<1>3. CASE status[j] = "failed" /\ ReleasePreSubmit(j)
  BY <1>1, <1>3, GivesBack DEF SafeInv, JobInv, BudgetFits
<1>4. CASE UNCHANGED budget
  BY <1>1, <1>4, KeptContract DEF contractVars
<1> QED
  BY <1>2, <1>3, <1>4
  DEF Recover, RecoverSettled, RecoverJob, RecoverExpired, RecoverUnavailable,
      RecoverQueued

\* A kill can only take requests off the wire.
LEMMA LifecycleContractSteps ==
  ASSUME SafeInv, Lifecycle
  PROVE  [Contract!Next]_(Contract!vars)
<1>1. inflight' \subseteq inflight /\ UNCHANGED <<budget, sent, accepted>>
  BY DEF Lifecycle, Start, BootDone, BeginShutdown, StopPollers, CloseProcess, Kill,
         GoDown, storeVars, wireVars
<1>2. Contract!Answered
  BY <1>1 DEF Contract!Answered
<1> QED
  BY <1>2 DEF Contract!Next

\* Clients reserve and cancel, operators rule, the provider makes tasks.
LEMMA EnvironmentContractSteps ==
  ASSUME SafeInv, Environment
  PROVE  [Contract!Next]_(Contract!vars)
<1> PICK j \in Job :
      \/ Create(j) \/ ClientCancels(j)
      \/ \E action \in {"charge", "release"} : OperatorResolves(j, action)
      \/ HoldExpires(j) \/ ReconcileComesDue(j) \/ CapacitySweep(j) \/ Lapse(j)
      \/ ProviderAccepts(j) \/ ProviderLists(j)
  BY DEF Environment
<1>1. CASE Create(j)
  <2>1. Contract!Reserve(j)
    BY <1>1 DEF Create, ReserveOrGet, Contract!Reserve, wireVars, SafeInv, JobInv,
                BudgetFits
  <2> QED
    BY <2>1 DEF Contract!Next
<1>2. CASE ClientCancels(j)
  BY <1>2, FailGivesBack
  DEF ClientCancels, CanCancelQueued, CancelQueued, wireVars
<1>3. ASSUME NEW action \in {"charge", "release"}, OperatorResolves(j, action)
      PROVE  [Contract!Next]_(Contract!vars)
  <2>1. budget[j] = "charged" /\ UNCHANGED <<sent, inflight, accepted>>
    BY <1>3 DEF OperatorResolves, CanResolveUnknown, wireVars, SafeInv, JobInv,
                BudgetFits
  <2>2. CASE action = "release"
    <3>1. Contract!Rule(j)
      BY <1>3, <2>1, <2>2 DEF OperatorResolves, ResolveUnknown, Contract!Rule
    <3> QED
      BY <3>1 DEF Contract!Next
  <2>3. CASE action = "charge"
    BY <1>3, <2>1, <2>3, Charges
    DEF OperatorResolves, CanResolveUnknown, ResolveUnknown, CanCharge, Charge
  <2> QED
    BY <2>2, <2>3
<1>4. CASE ProviderAccepts(j)
  <2>1. Contract!Make(j)
    BY <1>4 DEF ProviderAccepts, Contract!Make, storeVars
  <2> QED
    BY <2>1 DEF Contract!Next
<1>5. CASE HoldExpires(j) \/ ReconcileComesDue(j) \/ CapacitySweep(j) \/ Lapse(j)
           \/ ProviderLists(j)
  <2>1. UNCHANGED contractVars
    BY <1>5 DEF HoldExpires, ReconcileComesDue, CapacitySweep, Lapse, LeaseLapses,
                ProviderLists, contractVars, storeVars, wireVars
  <2> QED
    BY <2>1, KeptContract
<1> QED
  BY <1>1, <1>2, <1>3, <1>4, <1>5

\* The reconciler touches neither the points nor the wire.
LEMMA ReconcileContractSteps ==
  ASSUME SafeInv, Reconcile
  PROVE  [Contract!Next]_(Contract!vars)
<1>1. UNCHANGED contractVars
  BY DEF Reconcile, BeginScan, SkipDue, TakeDue, DeferUnavailable, AcquireDue,
         ReconcilePoll, ReconcilePollFails, ReconcilePollEmpty,
         Settle, Defer, DeferFrom, MarkDeferred,
         MarkDeferredFrom, LastDefer, MarkLastDeferred, RAt, storeVars, wireVars,
         contractVars
<1> QED
  BY <1>1, KeptContract

\* The gateway implements the submission contract: the refinement mapping reads
\* the points off the budget entries and the requests off the wire.
THEOREM ImplementsContract == Spec => KeepsContract
<1>1. Init => Contract!Init
  BY DEF Init, StoreInit, Contract!Init
<1>2. SafeInv /\ [Next]_vars => [Contract!Next]_(Contract!vars)
  <2> SUFFICES ASSUME SafeInv, [Next]_vars
               PROVE  [Contract!Next]_(Contract!vars)
    OBVIOUS
  <2>1. CASE UNCHANGED vars
    BY <2>1, KeptContract DEF vars, storeVars, wireVars, contractVars
  <2>2. CASE Next
    BY <2>2, RunnerContractSteps, RecoverContractSteps, LifecycleContractSteps,
       EnvironmentContractSteps, ReconcileContractSteps
    DEF Next
  <2> QED
    BY <2>1, <2>2
<1> QED
  BY <1>1, <1>2, SafetyInvariance, PTL DEF Spec, KeepsContract, Contract!Spec

-----------------------------------------------------------------------------
(* A settled job. *)

SettledKept ==
  \A j \in Job : status[j] \in Terminal =>
                   status'[j] = status[j] /\ budget'[j] = budget[j]

\* A transaction that changes the row of a job that is not settled.
LEMMA UnsettledStep ==
  ASSUME SafeInv, NEW j \in Job, status[j] \notin Terminal,
         \/ UNCHANGED status
         \/ \E to \in JobStatus : Transition(j, to),
         UNCHANGED budget \/ Charge(j) \/ ReleasePreSubmit(j)
  PROVE  SettledKept
  BY TransitionAt, BudgetAt DEF SettledKept, SafeInv

\* No runner moves a settled job, late as it may write.
LEMMA RunnerKeepsSettled ==
  ASSUME SafeInv, NEW j \in Job, Runner(j)
  PROVE  SettledKept
<1>1. CASE UNCHANGED <<status, budget>>
  BY <1>1 DEF SettledKept
<1>2. \A to \in {"submitting", "discovering", "processing", "unknown", "completed",
                  "failed"} : to \in JobStatus
  BY DEF JobStatus
<1>3. CASE FailAndRelease(j) /\ status[j] \in {"queued", "submitting"}
  BY <1>2, <1>3, UnsettledStep DEF FailAndRelease, Terminal
<1>4. ASSUME NEW to \in {"submitting", "discovering", "processing", "unknown",
                         "completed", "failed"},
             Transition(j, to), UNCHANGED budget,
             status[j] \in {"queued", "submitting"} \cup Followed
      PROVE  SettledKept
  BY <1>2, <1>4, UnsettledStep DEF Terminal, Followed
<1>5. CASE RunInitial(j)
  <2>1. CASE ChargeSubmitted(j)
    <3>1. status[j] = "submitting"
      BY <2>1 DEF ChargeSubmitted, At, SafeInv, JobInv, Phase, InSubmission
    <3> QED
      BY <1>1, <2>1, <3>1, UnsettledStep
      DEF ChargeSubmitted, Abandon, jobVars, Terminal
  <2>2. CASE FailReject(j) \/ FailQueued(j)
    BY <1>1, <1>3, <2>2
    DEF FailReject, FailQueued, CanFailAndRelease, CanTransition, Abandon, jobVars
  <2>3. CASE ToSubmitting(j) \/ ToDiscovering(j)
    BY <1>1, <1>4, <2>3
    DEF ToSubmitting, ToDiscovering, CanTransition, Abandon, jobVars
  <2>4. CASE \/ Upload(j) \/ TakeDiscoveryLock(j) \/ Snapshot(j) \/ SnapshotFails(j)
             \/ MarkSubmitting(j) \/ Send(j)
             \/ SendSucceeds(j) \/ SendAmbiguous(j) \/ SendRejected(j)
    BY <1>1, <2>4
    DEF Upload, TakeDiscoveryLock, Snapshot, SnapshotFails, MarkSubmitting, Send,
        SendSucceeds, SendAmbiguous, SendRejected, Abandon, jobVars, storeVars
  <2> QED
    BY <1>5, <2>1, <2>2, <2>3, <2>4 DEF RunInitial
<1>6. CASE StartRunner(j) \/ PrepareFails(j) \/ StartRefused(j) \/ ResumeQueuedFails(j)
  BY <1>1, <1>3, <1>6
  DEF StartRunner, PrepareFails, StartRefused, ResumeQueuedFails, CanFailAndRelease,
      CanTransition, jobVars
<1>7. CASE RunPostSubmit(j)
  <2>1. PICK t \in Job :
          \/ DiscoverUnique(j, t) \/ RediscoverUnique(j, t)
          \/ DiscoverNotUnique(j) \/ DiscoverFails(j) \/ ToUnknown(j)
          \/ ToProcessing(j) \/ RetryDiscovery(j) \/ Rediscover(j)
          \/ RediscoverNothing(j) \/ GiveUpUnknown(j) \/ PollSettles(j)
          \/ MarkTerminal(j) \/ PollDeadline(j) \/ DeadlineUnknown(j)
    BY <1>7 DEF RunPostSubmit
  <2>2. CASE \/ DiscoverUnique(j, t) \/ RediscoverUnique(j, t) \/ DiscoverNotUnique(j)
             \/ RetryDiscovery(j) \/ Rediscover(j) \/ RediscoverNothing(j)
             \/ GiveUpUnknown(j) \/ MarkTerminal(j) \/ PollDeadline(j)
    BY <1>1, <2>2
    DEF DiscoverUnique, RediscoverUnique, Correlating, DiscoverNotUnique,
        RetryDiscovery, Rediscover, RediscoverNothing, GiveUpUnknown, MarkTerminal,
        PollDeadline, Abandon, jobVars, storeVars
  <2>3. CASE DiscoverFails(j) \/ ToUnknown(j) \/ ToProcessing(j) \/ DeadlineUnknown(j)
    BY <1>1, <1>4, <2>3
    DEF DiscoverFails, ToUnknown, PersistUnknown, ToProcessing, DeadlineUnknown,
        CanTransition, Abandon, Followed, jobVars, storeVars
  <2>4. CASE PollSettles(j)
    BY <1>4, <2>4 DEF PollSettles, CanTransition, Terminal, Followed
  <2> QED
    BY <2>1, <2>2, <2>3, <2>4
<1>8. CASE (RunRecovered(j) \/ StopRunner(j)) /\ ~ResumeQueuedFails(j)
  BY <1>1, <1>4, <1>8
  DEF RunRecovered, ResumeQueued, ResumeRefused, Resume, ResumeProcessing,
      ResumeDiscovery, StopRunner, CanTransition, Abandon, Followed, jobVars, storeVars
<1> QED
  BY <1>5, <1>6, <1>7, <1>8 DEF Runner

\* The start-up recovery finds a settled job as it leaves it.
LEMMA RecoverKeepsSettled ==
  ASSUME SafeInv, NEW j \in Job, Recover(j)
  PROVE  SettledKept
<1>1. CASE status[j] \in Terminal
  <2>1. status' = status /\ budget' = budget
    BY <1>1
    DEF Recover, RecoverSettled, RecoverJob, RecoverExpired, RecoverUnavailable,
        RecoverQueued, InProgress, Terminal, Charge, ReleasePreSubmit, SafeInv,
        JobInv, BudgetFits, TypeInv, StoreTypeOK
  <2> QED
    BY <2>1 DEF SettledKept
<1>2. CASE status[j] \notin Terminal
  <2>1. {"discovering", "unknown"} \subseteq JobStatus
    BY DEF JobStatus
  <2> QED
    BY <1>2, <2>1, UnsettledStep
    DEF Recover, RecoverSettled, RecoverJob, RecoverExpired, RecoverUnavailable,
        RecoverQueued
<1> QED
  BY <1>1, <1>2

\* Neither do the reconciler, a shutdown, clients, operators or the provider.
LEMMA OthersKeepSettled ==
  ASSUME SafeInv, Reconcile \/ Lifecycle \/ Environment
  PROVE  SettledKept
<1>1. CASE UNCHANGED <<status, budget>>
  BY <1>1 DEF SettledKept
<1>2. {"failed", "unknown", "processing", "completed"} \subseteq JobStatus
  BY DEF JobStatus
<1>3. CASE Lifecycle
  BY <1>1, <1>3
  DEF Lifecycle, Start, BootDone, BeginShutdown, StopPollers, CloseProcess, Kill,
      GoDown, storeVars, jobVars
<1>4. CASE Environment
  <2> PICK j \in Job :
        \/ Create(j) \/ ClientCancels(j)
        \/ \E action \in {"charge", "release"} : OperatorResolves(j, action)
        \/ HoldExpires(j) \/ ReconcileComesDue(j) \/ CapacitySweep(j) \/ Lapse(j)
        \/ ProviderAccepts(j) \/ ProviderLists(j)
    BY <1>4 DEF Environment
  <2>1. CASE Create(j)
    BY <2>1 DEF Create, ReserveOrGet, SettledKept, Terminal, SafeInv, TypeInv,
                StoreTypeOK
  <2>2. CASE ClientCancels(j)
    BY <1>2, <2>2, UnsettledStep
    DEF ClientCancels, CanCancelQueued, CancelQueued, Terminal
  <2>3. CASE \E action \in {"charge", "release"} : OperatorResolves(j, action)
    BY <2>3, TransitionAt
    DEF OperatorResolves, CanResolveUnknown, ResolveUnknown, SettledKept, Terminal,
        SafeInv, TypeInv, StoreTypeOK
  <2>4. CASE \/ HoldExpires(j) \/ ReconcileComesDue(j) \/ CapacitySweep(j)
             \/ Lapse(j) \/ ProviderAccepts(j) \/ ProviderLists(j)
    BY <1>1, <2>4
    DEF HoldExpires, ReconcileComesDue, CapacitySweep, Lapse, LeaseLapses,
        ProviderAccepts, ProviderLists, storeVars, jobVars
  <2> QED
    BY <2>1, <2>2, <2>3, <2>4
<1>5. CASE Reconcile
  <2>1. UNCHANGED budget
    BY <1>5
    DEF Reconcile, BeginScan, SkipDue, TakeDue, DeferUnavailable, AcquireDue,
        ReconcilePoll, ReconcilePollFails, ReconcilePollEmpty,
        Settle, Defer, DeferFrom, MarkDeferred,
        MarkDeferredFrom, LastDefer, MarkLastDeferred, storeVars
  <2>2. CASE UNCHANGED status
    BY <1>1, <2>1, <2>2
  <2>3. ASSUME NEW to \in {"unknown", "processing"} \cup Terminal, Transition(rjob, to),
               status[rjob] \in Followed, ~RAt("scan"), ~RAt("idle"),
               \E l : RAt(l)
        PROVE  SettledKept
    <3>1. rjob \in Job
      BY <2>3 DEF RAt, SafeInv, TypeInv, ReconcilerInv
    <3> QED
      BY <1>2, <2>1, <2>3, <3>1, UnsettledStep DEF Terminal, Followed
  <2>4. CASE ReconcilePoll \/ Settle \/ Defer \/ LastDefer
    BY <2>2, <2>3, <2>4
    DEF ReconcilePoll, Settle, Defer, LastDefer, DeferFrom, RAt, CanTransition,
        Followed, jobVars
  <2>5. CASE ~(ReconcilePoll \/ Settle \/ Defer \/ LastDefer)
    BY <1>5, <2>2, <2>5
    DEF Reconcile, BeginScan, SkipDue, TakeDue, DeferUnavailable, AcquireDue,
        ReconcilePollFails, ReconcilePollEmpty,
        MarkDeferred, MarkDeferredFrom, MarkLastDeferred,
        storeVars, jobVars
  <2> QED
    BY <2>4, <2>5
<1> QED
  BY <1>3, <1>4, <1>5

\* No runner, recovery, reconciler or operator moves a settled job or its points.
THEOREM SettledJobsStay == Spec => SettledStaysSettled
<1>1. SafeInv /\ [Next]_vars => SettledKept
  <2>1. UNCHANGED vars => SettledKept
    BY DEF vars, storeVars, jobVars, SettledKept
  <2> QED
    BY <2>1, RunnerKeepsSettled, RecoverKeepsSettled, OthersKeepSettled DEF Next
<1> QED
  BY <1>1, SafetyInvariance, PTL DEF Spec, SettledStaysSettled, SettledKept

-----------------------------------------------------------------------------
(* What a restart finds of a request. *)

SentWithEvidence ==
  \A j \in Job :
    sent'[j] # sent[j] =>
      /\ status[j] = "submitting" /\ outcome[j] = "submitting"
      /\ baseline[j] \subseteq listed /\ j \notin baseline[j]

\* What the invariant says of the moment before the request is sent.
LEMMA SendHasEvidence ==
  ASSUME SafeInv, NEW j \in Job, Send(j)
  PROVE  SentWithEvidence
<1>1. \A k \in Job \ {j} : sent'[k] = sent[k]
  BY DEF Send, wireVars, SafeInv, TypeInv, WireTypeOK
<1>2. /\ status[j] = "submitting" /\ outcome[j] = "submitting"
      /\ baseline[j] \subseteq listed /\ j \notin accepted
  BY DEF Send, At, SafeInv, JobInv, Phase, InSubmission, Possible
<1>3. j \notin baseline[j]
  BY <1>2 DEF SafeInv, TypeInv, WireTypeOK
<1> QED
  BY <1>1, <1>2, <1>3 DEF SentWithEvidence

\* Send is the only action of a runner that sends a request.
LEMMA RunnerSendsOnce ==
  ASSUME NEW j \in Job, Runner(j), ~Send(j)
  PROVE  UNCHANGED sent
  BY DEF Runner, StartRunner, PrepareFails, StartRefused, RunInitial, Upload,
         TakeDiscoveryLock, Snapshot, SnapshotFails, ToSubmitting, MarkSubmitting,
         SendSucceeds, SendAmbiguous, SendRejected, FailReject, FailQueued,
         ChargeSubmitted, ToDiscovering, RunPostSubmit, DiscoverUnique,
         RediscoverUnique, DiscoverNotUnique, DiscoverFails, ToUnknown, ToProcessing,
         RetryDiscovery, Rediscover, RediscoverNothing, GiveUpUnknown, PollSettles,
         MarkTerminal, PollDeadline, DeadlineUnknown, RunRecovered, ResumeQueued,
         ResumeQueuedFails, ResumeRefused, Resume, ResumeProcessing, ResumeDiscovery,
         StopRunner, wireVars

\* Nobody else sends one.
LEMMA OthersSendNothing ==
  ASSUME \/ \E j \in Job : Recover(j)
         \/ Reconcile \/ Lifecycle \/ Environment
  PROVE  UNCHANGED sent
  BY DEF Recover, RecoverSettled, RecoverJob, RecoverExpired, RecoverUnavailable,
         RecoverQueued, Recovering, Reconcile, BeginScan, SkipDue, TakeDue,
         DeferUnavailable, AcquireDue, ReconcilePoll, ReconcilePollFails, ReconcilePollEmpty,
         Settle,
         Defer, DeferFrom, MarkDeferred, MarkDeferredFrom, LastDefer,
         MarkLastDeferred, RAt, Lifecycle, Start, BootDone, BeginShutdown,
         StopPollers, CloseProcess, Kill, GoDown, Environment, Create,
         ClientCancels, OperatorResolves, HoldExpires, ReconcileComesDue,
         CapacitySweep, Lapse, ProviderAccepts, ProviderLists, wireVars

\* A paid request is never sent before a restart could find it in the tables,
\* with a baseline that tells its own asset from those that were there before.
THEOREM SentOnEvidence == Spec => EvidenceBeforeSend
<1>1. SafeInv /\ [Next]_vars => SentWithEvidence
  <2>1. UNCHANGED sent => SentWithEvidence
    BY DEF SentWithEvidence
  <2>2. UNCHANGED vars => UNCHANGED sent
    BY DEF vars, wireVars
  <2> QED
    BY <2>1, <2>2, SendHasEvidence, RunnerSendsOnce, OthersSendNothing DEF Next
<1> QED
  BY <1>1, SafetyInvariance, PTL
  DEF Spec, EvidenceBeforeSend, SentWithEvidence
=============================================================================
