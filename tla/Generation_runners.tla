-------------------------- MODULE Generation_runners --------------------------
(***************************************************************************)
(* Where a runner may be, what it holds and what it remembers, for any set *)
(* of jobs and of process ids and any bound on the starts; and what a      *)
(* shutdown finds of the submissions it has waited for.                    *)
(***************************************************************************)
EXTENDS Generation_proofs

-----------------------------------------------------------------------------
(* The inductive invariant. *)

Before == {"prepare", "resumeQueued", "upload", "awaitLock", "snapshot",
           "toSubmitting", "failQueued"}

\* The loop of recoverUnknown.
Unidentified == {"waitUnknown", "awaitRediscover", "discoverUnknown"}

Holding == Label \ ({"idle"} \cup Unidentified)

\* What the row of a job says together with its evidence.
Row(j) ==
  /\ hold[j] # "none" => status[j] = "unknown"
  /\ task[j] # NoTask =>
       /\ status[j] \in {"processing", "unknown", "completed", "failed"}
       /\ task[j] = correlation[j]
  /\ correlation[j] # NoTask =>
       /\ correlation[j] \in listed \cap Alike[j]
       /\ status[j] \notin {"absent", "queued", "submitting"}
       /\ status[j] = "discovering" => correlation[j] \notin baseline[j]

\* Where a runner is says what the row of its job can say.
Place(j) ==
  /\ pc[j] \in Before => status[j] \in {"queued", "failed"}
  /\ pc[j] \in {"awaitDiscover", "discover", "toUnknown"}
       => status[j] = "discovering"
  /\ pc[j] = "toProcessing" =>
       status[j] \in {"discovering", "unknown"} /\ task[j] = NoTask
  /\ pc[j] = "resumeProcessing" => status[j] = "unknown" /\ task[j] # NoTask
  /\ pc[j] \in {"poll", "deadlineUnknown"} => status[j] = "processing"
  /\ pc[j] = "markTerminal" => status[j] \in Terminal
  /\ pc[j] = "resume" => status[j] \in Followed
  /\ pc[j] \in Unidentified =>
       status[j] \in {"unknown", "failed"} /\ task[j] = NoTask

\* What a runner remembers of the asset list covers the persisted baseline, so
\* that a task found before a kill is found again.
Memory(j) ==
  /\ pc[j] \in {"toSubmitting", "discover"} \cup (InSubmission \ {"failReject"})
       => baseline[j] \subseteq seen[j]
  /\ pc[j] = "discover" /\ correlation[j] # NoTask => seen[j] = baseline[j]
  /\ pc[j] \in {"awaitRediscover", "discoverUnknown"} => seen[j] = {}
  /\ pc[j] = "toProcessing" =>
       correlation[j] # NoTask /\ seen[j] = {correlation[j]}

Slots(j) == pc[j] \in Holding => held[j]

RunnerOf(j) == Row(j) /\ Place(j) /\ Memory(j) /\ Slots(j)

\* The scan and the runners share no job.
ScanApart ==
  \A j \in Job : j \in scan \/ rjob = j =>
    pc[j] = "idle" /\ status[j] # "absent" /\ mode \notin {"down", "boot"}

RunnersInv ==
  /\ SafeInv
  /\ \A j \in Job : RunnerOf(j)
  /\ ScanApart

-----------------------------------------------------------------------------
(* Steps that leave a job alone. *)

Same(k) ==
  /\ pc'[k] = pc[k] /\ held'[k] = held[k] /\ seen'[k] = seen[k]
  /\ status'[k] = status[k] /\ hold'[k] = hold[k] /\ task'[k] = task[k]
  /\ baseline'[k] = baseline[k] /\ correlation'[k] = correlation[k]

\* What a step leaves alone keeps its invariant.
LEMMA SameJob ==
  ASSUME NEW k \in Job, RunnerOf(k), Same(k), listed \subseteq listed'
  PROVE  RunnerOf(k)'
<1>1. Row(k)'
  BY DEF RunnerOf, Row, Same
<1>2. Place(k)' /\ Slots(k)'
  BY DEF RunnerOf, Place, Slots, Same
<1>3. Memory(k)'
  BY DEF RunnerOf, Memory, Same
<1> QED
  BY <1>1, <1>2, <1>3 DEF RunnerOf

\* The variables of a job's row and evidence.
rowVars == <<status, hold, task, baseline, correlation>>

\* A transaction of job j leaves the rows of the other jobs alone.
LEMMA OtherRows ==
  ASSUME TypeInv, NEW j \in Job, NEW k \in Job, k # j
  PROVE  /\ \A to : Transition(j, to) => status'[k] = status[k] /\ hold'[k] = hold[k]
         /\ \A ids : CaptureBaseline(j, ids) =>
              baseline'[k] = baseline[k] /\ correlation'[k] = correlation[k]
         /\ \A t : Correlate(j, t) =>
              baseline'[k] = baseline[k] /\ correlation'[k] = correlation[k]
         /\ \A to : Mark(j, to) => UNCHANGED <<baseline, correlation>>
  BY DEF TypeInv, StoreTypeOK, Transition, CaptureBaseline, Correlate, Mark

\* A runner that moves or ends leaves the other runners alone.
LEMMA OtherRunners ==
  ASSUME TypeInv, NEW j \in Job, NEW k \in Job, k # j
  PROVE  /\ \A l \in Label : MoveTo(j, l) => pc'[k] = pc[k]
         /\ \A l \in Label : Goto(j, l) =>
              pc'[k] = pc[k] /\ held'[k] = held[k] /\ seen'[k] = seen[k]
         /\ \A keeps : Leave(j, keeps) =>
              pc'[k] = pc[k] /\ held'[k] = held[k] /\ seen'[k] = seen[k]
         /\ Abandon(j) => Same(k)
<1>1. \A l \in Label : MoveTo(j, l) => pc'[k] = pc[k]
  BY MoveToTypes
<1>2. \A l \in Label : Goto(j, l) =>
              pc'[k] = pc[k] /\ held'[k] = held[k] /\ seen'[k] = seen[k]
  BY <1>1 DEF Goto
<1>3. \A keeps : Leave(j, keeps) =>
              pc'[k] = pc[k] /\ held'[k] = held[k] /\ seen'[k] = seen[k]
  BY LeaveAt DEF Leave, TypeInv, RunnerInv, RunnerTypeOK
<1>4. Abandon(j) => Same(k)
  BY <1>3 DEF Abandon, Same, jobVars, submissionVars
<1> QED
  BY <1>1, <1>2, <1>3, <1>4

\* A step of a runner leaves the other jobs, the process and the scan alone.
LEMMA RunnerAlone ==
  ASSUME TypeInv, NEW j \in Job, Runner(j)
  PROVE  /\ \A k \in Job \ {j} : Same(k)
         /\ UNCHANGED <<listed, processVars, reconcilerVars>>
         /\ pc[j] # "idle" /\ mode \notin {"down", "boot"}
<1>0. /\ Label = {"idle"} \cup Await \cup Sync
      /\ "idle" \notin Abortable
  BY DEF Label, Abortable
<1> USE <1>0 DEF Await, Sync
<1>1. CASE StartRunner(j) \/ PrepareFails(j) \/ StartRefused(j)
  <2>1. At(j, "prepare") /\ UNCHANGED wireVars
    BY <1>1 DEF StartRunner, PrepareFails, StartRefused
  <2>2. ASSUME NEW k \in Job \ {j} PROVE Same(k)
    BY <1>1, <2>2, OtherRows, OtherRunners
    DEF StartRunner, PrepareFails, StartRefused, FailAndRelease, Same, jobVars,
        submissionVars, TypeInv, RunnerInv, RunnerTypeOK
  <2> QED
    BY <2>1, <2>2 DEF At, Running, wireVars
<1>2. CASE RunInitial(j)
  <2>1. /\ \E l \in Label \ {"idle"} : At(j, l)
        /\ UNCHANGED listed
    BY <1>2
    DEF RunInitial, Upload, TakeDiscoveryLock, Snapshot, SnapshotFails,
        ToSubmitting, MarkSubmitting, Send, SendSucceeds, SendAmbiguous, SendRejected,
        FailReject, FailQueued, ChargeSubmitted, ToDiscovering, wireVars
  <2>2. ASSUME NEW k \in Job \ {j} PROVE Same(k)
    <3>1. CASE Upload(j) \/ TakeDiscoveryLock(j) \/ Snapshot(j) \/ SnapshotFails(j)
      BY <3>1, <2>2, OtherRows, OtherRunners
      DEF Upload, TakeDiscoveryLock, Snapshot, SnapshotFails, Same, storeVars,
          jobVars, submissionVars, TypeInv, RunnerInv, RunnerTypeOK
    <3>2. CASE \/ ToSubmitting(j) \/ MarkSubmitting(j) \/ Send(j) \/ SendSucceeds(j)
               \/ SendAmbiguous(j) \/ SendRejected(j)
      BY <3>2, <2>2, OtherRows, OtherRunners
      DEF ToSubmitting, MarkSubmitting, Send, SendSucceeds, SendAmbiguous, SendRejected,
          Same, storeVars, jobVars, submissionVars
    <3>3. CASE FailReject(j) \/ FailQueued(j) \/ ChargeSubmitted(j) \/ ToDiscovering(j)
      BY <3>3, <2>2, OtherRows, OtherRunners
      DEF FailReject, FailQueued, ChargeSubmitted, ToDiscovering, FailAndRelease,
          Same, jobVars, submissionVars
    <3> QED
      BY <1>2, <3>1, <3>2, <3>3 DEF RunInitial
  <2> QED
    BY <2>1, <2>2 DEF At, Running
<1>3. CASE RunPostSubmit(j)
  <2>1. PICK t \in Job :
          \/ DiscoverUnique(j, t) \/ RediscoverUnique(j, t)
          \/ DiscoverNotUnique(j) \/ DiscoverFails(j) \/ ToUnknown(j)
          \/ ToProcessing(j) \/ RetryDiscovery(j) \/ Rediscover(j)
          \/ RediscoverNothing(j) \/ GiveUpUnknown(j) \/ PollSettles(j)
          \/ MarkTerminal(j) \/ PollDeadline(j) \/ DeadlineUnknown(j)
    BY <1>3 DEF RunPostSubmit
  <2>2. /\ \E l \in Label \ {"idle"} : At(j, l)
        /\ UNCHANGED wireVars
    BY <2>1
    DEF DiscoverUnique, RediscoverUnique, DiscoverNotUnique, DiscoverFails, ToUnknown,
        ToProcessing, RetryDiscovery, Rediscover, RediscoverNothing, GiveUpUnknown,
        PollSettles, MarkTerminal, PollDeadline, DeadlineUnknown
  <2>3. ASSUME NEW k \in Job \ {j} PROVE Same(k)
    <3>1. CASE DiscoverUnique(j, t) \/ RediscoverUnique(j, t)
      BY <3>1, <2>3, OtherRows, OtherRunners
      DEF DiscoverUnique, RediscoverUnique, Correlating, Same, storeVars,
          jobVars, submissionVars, TypeInv, RunnerInv, RunnerTypeOK
    <3>2. CASE DiscoverNotUnique(j) \/ DiscoverFails(j) \/ ToUnknown(j)
      BY <3>2, <2>3, OtherRows, OtherRunners
      DEF DiscoverNotUnique, DiscoverFails, ToUnknown, PersistUnknown, Same, storeVars,
          jobVars, submissionVars, TypeInv, RunnerInv, RunnerTypeOK
    <3>3. CASE ToProcessing(j)
      BY <3>3, <2>3, OtherRows, OtherRunners
      DEF ToProcessing, Same, storeVars, jobVars, submissionVars, TypeInv, StoreTypeOK
    <3>4. CASE RetryDiscovery(j) \/ Rediscover(j) \/ RediscoverNothing(j) \/ GiveUpUnknown(j)
      BY <3>4, <2>3, OtherRows, OtherRunners
      DEF RetryDiscovery, Rediscover, RediscoverNothing, GiveUpUnknown, Same,
          storeVars, jobVars, submissionVars, TypeInv, RunnerInv, RunnerTypeOK
    <3>5. CASE PollSettles(j) \/ MarkTerminal(j) \/ PollDeadline(j) \/ DeadlineUnknown(j)
      BY <3>5, <2>3, OtherRows, OtherRunners
      DEF PollSettles, MarkTerminal, PollDeadline, DeadlineUnknown, Same, jobVars,
          submissionVars
    <3> QED
      BY <2>1, <3>1, <3>2, <3>3, <3>4, <3>5
  <2> QED
    BY <2>2, <2>3 DEF At, Running, wireVars
<1>4. CASE RunRecovered(j)
  <2>1. /\ \E l \in Label \ {"idle"} : At(j, l)
        /\ UNCHANGED wireVars
    BY <1>4
    DEF RunRecovered, ResumeQueued, ResumeQueuedFails, ResumeRefused, Resume,
        ResumeProcessing, ResumeDiscovery
  <2>2. ASSUME NEW k \in Job \ {j} PROVE Same(k)
    <3>1. CASE ResumeQueued(j) \/ ResumeQueuedFails(j) \/ ResumeRefused(j)
      BY <3>1, <2>2, OtherRows, OtherRunners
      DEF ResumeQueued, ResumeQueuedFails, ResumeRefused, FailAndRelease, Same,
          jobVars, submissionVars
    <3>2. CASE Resume(j)
      BY <3>2, <2>2, OtherRunners DEF Resume, Same, jobVars, submissionVars
    <3>3. CASE ResumeProcessing(j) \/ ResumeDiscovery(j)
      BY <3>3, <2>2, OtherRows, OtherRunners
      DEF ResumeProcessing, ResumeDiscovery, Same, storeVars, jobVars, submissionVars,
          TypeInv, RunnerInv, RunnerTypeOK
    <3> QED
      BY <1>4, <3>1, <3>2, <3>3 DEF RunRecovered
  <2> QED
    BY <2>1, <2>2 DEF At, Running, wireVars
<1>5. CASE StopRunner(j)
  <2>1. \A k \in Job \ {j} : Same(k)
    BY <1>5, OtherRunners DEF StopRunner, Same, jobVars, submissionVars
  <2> QED
    BY <1>5, <2>1 DEF StopRunner, wireVars
<1> QED
  BY <1>1, <1>2, <1>3, <1>4, <1>5 DEF Runner

-----------------------------------------------------------------------------
(* The row of a job through the transactions. *)

\* What leaves the row alone keeps its invariant.
LEMMA RowKept ==
  ASSUME NEW j \in Job, Row(j), listed \subseteq listed',
         status'[j] = status[j], hold'[j] \in {hold[j], "none"},
         task'[j] = task[j], correlation'[j] = correlation[j],
         baseline'[j] = baseline[j]
  PROVE  Row(j)'
  BY DEF Row

\* A transition the code makes.
LEMMA RowMoves ==
  ASSUME TypeInv, NEW j \in Job, Row(j),
         NEW expected \in SUBSET JobStatus, NEW to,
         CanTransition(j, expected, to), Transition(j, to),
         to = "discovering" => status[j] = "submitting",
         UNCHANGED <<task, submissionVars, listed>>
  PROVE  /\ Row(j)' /\ status'[j] = to /\ task'[j] = task[j]
         /\ to # "unknown" => hold'[j] = "none"
<1>1. /\ status'[j] = to
      /\ hold'[j] = IF to = "unknown" THEN "held" ELSE "none"
      /\ to \in allowedTransitions[status[j]]
      /\ status[j] \in JobStatus
  BY DEF Transition, CanTransition, TypeInv, StoreTypeOK
<1>2. CASE status[j] \in {"queued", "submitting"}
  <2>1. correlation[j] = NoTask /\ task[j] = NoTask
    BY <1>2 DEF Row
  <2> QED
    BY <1>1, <2>1 DEF Row, submissionVars
<1>3. CASE status[j] \in Followed \cup Terminal
  <2>1. to \in Followed \cup Terminal /\ to # "discovering"
    BY <1>1, <1>3 DEF allowedTransitions, Followed, Terminal
  <2> QED
    BY <1>1, <2>1 DEF Row, submissionVars, Followed, Terminal
<1>4. status[j] \in {"queued", "submitting"} \cup Followed \cup Terminal
  BY <1>1 DEF JobStatus, Followed, Terminal
<1> QED
  BY <1>2, <1>3, <1>4

\* A job that fails before it was sent has no evidence yet.
LEMMA RowFails ==
  ASSUME TypeInv, NEW j \in Job, Row(j), NEW expected \in SUBSET JobStatus,
         CanFailAndRelease(j, expected), FailAndRelease(j), UNCHANGED listed
  PROVE  Row(j)' /\ status'[j] = "failed"
  BY RowMoves DEF FailAndRelease, CanFailAndRelease

\* correlate of a task that shows in the list and is new to the runner.
LEMMA RowCorrelates ==
  ASSUME TypeInv, NEW j \in Job, Row(j), NEW t \in Job, Correlate(j, t),
         UNCHANGED <<jobVars, listed>>, t \in listed \cap Alike[j],
         status[j] \notin {"absent", "queued", "submitting"},
         status[j] = "discovering" => t \notin baseline[j]
  PROVE  /\ Row(j)' /\ baseline' = baseline
         /\ ~BoundElsewhere(j, t) =>
              correlation'[j] = IF correlation[j] = NoTask THEN t ELSE correlation[j]
<1>1. baseline' = baseline
  BY DEF Correlate, Mark
<1>2. /\ correlation'[j] \in {correlation[j], t}
      /\ ~BoundElsewhere(j, t) =>
           correlation'[j] = IF correlation[j] = NoTask THEN t ELSE correlation[j]
      /\ correlation[j] # NoTask => correlation'[j] = correlation[j]
  BY DEF Correlate, Mark, TypeInv, StoreTypeOK
<1> QED
  BY <1>1, <1>2 DEF Row, jobVars

\* A runner that is gone says nothing about its job.
LEMMA IdleRunner ==
  ASSUME NEW j \in Job, Row(j)', pc'[j] = "idle"
  PROVE  RunnerOf(j)'
  BY DEF RunnerOf, Place, Memory, Slots, Before, Unidentified, Holding, InSubmission

\* A runner that ends, with the job as it is.
LEMMA AbandonRunner ==
  ASSUME TypeInv, NEW j \in Job, Row(j), Abandon(j), listed \subseteq listed'
  PROVE  RunnerOf(j)'
<1>1. pc'[j] = "idle"
  BY LeaveAt DEF Abandon
<1>2. Row(j)'
  BY RowKept DEF Abandon, jobVars, submissionVars
<1> QED
  BY <1>1, <1>2, IdleRunner

-----------------------------------------------------------------------------
(* The actions of a runner. *)

\* create, from the reservation to the runner.
LEMMA StartingRunner ==
  ASSUME RunnersInv, NEW j \in Job,
         StartRunner(j) \/ PrepareFails(j) \/ StartRefused(j)
  PROVE  RunnerOf(j)'
<1>1. TypeInv /\ RunnerOf(j) /\ Row(j) /\ listed' = listed /\ pc[j] = "prepare"
  BY RunnerAlone
  DEF RunnersInv, SafeInv, RunnerOf, Runner, StartRunner, PrepareFails, StartRefused, At
<1>2. CASE StartRunner(j)
  <2>1. pc'[j] = "upload" /\ held'[j] = held[j]
    BY <1>1, <1>2, MoveAt DEF StartRunner, Goto, Label, Await
  <2>2. Row(j)'
    BY <1>1, <1>2, RowKept DEF StartRunner, jobVars, submissionVars
  <2>3. status'[j] \in {"queued", "failed"} /\ held'[j]
    BY <1>1, <1>2, <2>1
    DEF StartRunner, jobVars, RunnerOf, Place, Slots, Before, Holding, Unidentified,
        Label, Await
  <2> QED
    BY <2>1, <2>2, <2>3
    DEF RunnerOf, Place, Memory, Slots, Before, Unidentified, InSubmission
<1>3. CASE PrepareFails(j) \/ StartRefused(j)
  <2>1. pc'[j] = "idle"
    BY <1>1, <1>3, LeaveAt, MoveAt DEF PrepareFails, StartRefused, Label
  <2>2. Row(j)'
    BY <1>1, <1>3, RowKept, RowFails
    DEF PrepareFails, StartRefused, jobVars, submissionVars, JobStatus
  <2> QED
    BY <2>1, <2>2, IdleRunner
<1> QED
  BY <1>2, <1>3

\* What every action of a runner may use.
LEMMA RunnerFacts ==
  ASSUME RunnersInv, NEW j \in Job, Runner(j)
  PROVE  /\ TypeInv /\ RunnerOf(j) /\ Row(j) /\ Place(j) /\ Memory(j) /\ Slots(j)
         /\ JobInv(j) /\ Phase(j)
         /\ listed' = listed
  BY RunnerAlone DEF RunnersInv, SafeInv, RunnerOf, JobInv

\* From the upload to the recorded intent to submit.
LEMMA BeforeSendRunner ==
  ASSUME RunnersInv, NEW j \in Job,
         \/ Upload(j) \/ TakeDiscoveryLock(j) \/ Snapshot(j) \/ SnapshotFails(j)
         \/ ToSubmitting(j) \/ MarkSubmitting(j)
  PROVE  RunnerOf(j)'
<1>1. /\ TypeInv /\ Row(j) /\ Place(j) /\ Memory(j) /\ Slots(j) /\ JobInv(j)
      /\ listed' = listed
  BY RunnerFacts DEF Runner, RunInitial
<1>2. /\ {"awaitLock", "failQueued", "snapshot", "toSubmitting", "markSubmitting",
          "send"} \subseteq Label
      /\ {"upload", "awaitLock", "snapshot", "toSubmitting", "markSubmitting", "send"}
           \subseteq Holding
      /\ {"queued"} \in SUBSET JobStatus
  BY DEF Holding, Unidentified, Label, Await, Sync, JobStatus
<1>3. CASE Upload(j) \/ TakeDiscoveryLock(j) \/ SnapshotFails(j)
  <2>1. /\ pc[j] \in {"upload", "awaitLock", "snapshot"}
        /\ pc'[j] \in {"awaitLock", "failQueued", "snapshot"}
        /\ held'[j] = held[j] /\ UNCHANGED storeVars
    BY <1>1, <1>2, <1>3, MoveAt DEF Upload, TakeDiscoveryLock, SnapshotFails, At, Goto
  <2>2. Row(j)'
    BY <1>1, <2>1, RowKept DEF storeVars, jobVars, submissionVars
  <2>3. Place(j)'
    BY <1>1, <2>1 DEF Place, Before, Unidentified, storeVars, jobVars
  <2>4. Memory(j)' /\ Slots(j)'
    BY <1>1, <1>2, <2>1 DEF Memory, Slots, InSubmission
  <2> QED
    BY <2>2, <2>3, <2>4 DEF RunnerOf
<1>4. CASE Snapshot(j)
  <2>1. /\ pc[j] = "snapshot" /\ pc'[j] = "toSubmitting"
        /\ held'[j] = held[j] /\ UNCHANGED jobVars
        /\ seen'[j] = listed /\ baseline'[j] \in {baseline[j], listed}
        /\ correlation' = correlation
    BY <1>1, <1>2, <1>4, MoveAt
    DEF Snapshot, At, CaptureBaseline, TypeInv, StoreTypeOK, RunnerInv, RunnerTypeOK
  <2>2. Row(j)'
    BY <1>1, <2>1 DEF Row, Place, Before, jobVars
  <2>3. Place(j)'
    BY <1>1, <2>1 DEF Place, Before, Unidentified, jobVars
  <2>4. Memory(j)' /\ Slots(j)'
    BY <1>1, <1>2, <2>1 DEF JobInv, Memory, Slots, InSubmission
  <2> QED
    BY <2>2, <2>3, <2>4 DEF RunnerOf
<1>5. CASE ToSubmitting(j)
  <2>1. /\ pc[j] = "toSubmitting" /\ pc'[j] \in {"failQueued", "markSubmitting"}
        /\ held'[j] = held[j] /\ seen' = seen /\ UNCHANGED submissionVars
    BY <1>1, <1>2, <1>5, MoveAt DEF ToSubmitting, At, Goto
  <2>2. CASE UNCHANGED jobVars /\ pc'[j] = "failQueued"
    <3>1. Row(j)'
      BY <1>1, <2>1, <2>2, RowKept DEF jobVars, submissionVars
    <3>2. Place(j)' /\ Memory(j)' /\ Slots(j)'
      BY <1>1, <1>2, <2>1, <2>2
      DEF Place, Memory, Slots, Before, Unidentified, InSubmission, jobVars
    <3> QED
      BY <3>1, <3>2 DEF RunnerOf
  <2>3. CASE /\ CanTransition(j, {"queued"}, "submitting")
             /\ Transition(j, "submitting") /\ task' = task
             /\ pc'[j] = "markSubmitting"
    <3>1. Row(j)' /\ status'[j] = "submitting"
      BY <1>1, <1>2, <2>1, <2>3, RowMoves
    <3>2. Place(j)' /\ Memory(j)' /\ Slots(j)'
      BY <1>1, <1>2, <2>1, <2>3, <3>1
      DEF Place, Memory, Slots, Before, Unidentified, InSubmission, submissionVars
    <3> QED
      BY <3>1, <3>2 DEF RunnerOf
  <2> QED
    BY <1>1, <1>2, <1>5, <2>1, <2>2, <2>3, MoveAt DEF ToSubmitting, Goto
<1>6. CASE MarkSubmitting(j)
  <2>1. CASE Abandon(j)
    BY <1>1, <2>1, AbandonRunner
  <2>2. CASE Mark(j, "submitting") /\ Goto(j, "send") /\ UNCHANGED jobVars
    <3>1. /\ pc[j] = "markSubmitting" /\ pc'[j] = "send"
          /\ held'[j] = held[j] /\ seen' = seen /\ UNCHANGED <<baseline, correlation>>
      BY <1>1, <1>2, <1>6, <2>2, MoveAt DEF MarkSubmitting, At, Goto, Mark
    <3>2. Row(j)'
      BY <1>1, <2>2, <3>1, RowKept DEF jobVars
    <3>3. Place(j)' /\ Memory(j)' /\ Slots(j)'
      BY <1>1, <1>2, <2>2, <3>1
      DEF Place, Memory, Slots, Before, Unidentified, InSubmission, jobVars
    <3> QED
      BY <3>2, <3>3 DEF RunnerOf
  <2> QED
    BY <1>6, <2>1, <2>2 DEF MarkSubmitting
<1> QED
  BY <1>3, <1>4, <1>5, <1>6

\* A runner that goes on in the submission.
LEMMA SubmissionGoesOn ==
  ASSUME TypeInv, NEW j \in Job, Row(j), Memory(j), Slots(j),
         NEW l \in InSubmission \ {"markSubmitting"}, Goto(j, l),
         pc[j] \in InSubmission \ {"failReject"},
         UNCHANGED <<jobVars, baseline, correlation, listed>>
  PROVE  RunnerOf(j)'
<1>1. l \in Label /\ pc[j] \in Holding
  BY DEF InSubmission, Label, Await, Sync, Holding, Unidentified
<1>2. pc'[j] = l /\ held' = held /\ seen' = seen
  BY <1>1, MoveAt DEF Goto
<1>3. Row(j)'
  BY RowKept DEF jobVars
<1>4. Place(j)' /\ Memory(j)' /\ Slots(j)'
  BY <1>1, <1>2 DEF Place, Memory, Slots, Before, Unidentified, InSubmission
<1> QED
  BY <1>3, <1>4 DEF RunnerOf

\* From the request to the discovery of its task.
LEMMA AfterSendRunner ==
  ASSUME RunnersInv, NEW j \in Job,
         \/ Send(j) \/ SendSucceeds(j) \/ SendAmbiguous(j) \/ SendRejected(j)
         \/ FailReject(j) \/ FailQueued(j) \/ ChargeSubmitted(j) \/ ToDiscovering(j)
  PROVE  RunnerOf(j)'
<1>1. /\ TypeInv /\ Row(j) /\ Place(j) /\ Memory(j) /\ Slots(j) /\ Phase(j)
      /\ listed' = listed
  BY RunnerFacts DEF Runner, RunInitial
<1>2. {"queued"} \in SUBSET JobStatus /\ {"submitting"} \in SUBSET JobStatus
  BY DEF JobStatus
<1>3. CASE Abandon(j)
  BY <1>1, <1>3, AbandonRunner
<1>4. CASE Send(j) \/ SendSucceeds(j) \/ SendAmbiguous(j) \/ SendRejected(j)
           \/ ChargeSubmitted(j)
  <2>1. CASE Send(j) /\ ~Abandon(j)
    BY <1>1, <2>1, SubmissionGoesOn
    DEF Send, At, InSubmission, storeVars, submissionVars
  <2>2. CASE SendSucceeds(j) /\ ~Abandon(j)
    BY <1>1, <2>2, SubmissionGoesOn DEF SendSucceeds, At, InSubmission, Mark
  <2>3. CASE SendAmbiguous(j) /\ ~Abandon(j)
    BY <1>1, <2>3, SubmissionGoesOn DEF SendAmbiguous, At, InSubmission, Mark
  <2>4. CASE SendRejected(j) /\ ~Abandon(j)
    BY <1>1, <2>4, SubmissionGoesOn DEF SendRejected, At, InSubmission, Mark
  <2>5. CASE ChargeSubmitted(j) /\ ~Abandon(j)
    BY <1>1, <2>5, SubmissionGoesOn
    DEF ChargeSubmitted, At, InSubmission, submissionVars
  <2> QED
    BY <1>3, <1>4, <2>1, <2>2, <2>3, <2>4, <2>5
<1>5. CASE (FailReject(j) \/ FailQueued(j)) /\ ~Abandon(j)
  <2>1. pc'[j] = "idle"
    BY <1>1, <1>5, LeaveAt DEF FailReject, FailQueued
  <2>2. Row(j)'
    BY <1>1, <1>2, <1>5, RowKept, RowFails
    DEF FailReject, FailQueued, jobVars, submissionVars
  <2> QED
    BY <2>1, <2>2, IdleRunner
<1>6. CASE ToDiscovering(j) /\ ~Abandon(j)
  <2>1. /\ CanTransition(j, {"submitting"}, "discovering")
        /\ Transition(j, "discovering") /\ Goto(j, "discover")
        /\ UNCHANGED <<task, submissionVars>> /\ pc[j] = "toDiscovering"
    BY <1>6 DEF ToDiscovering, At
  <2>2. pc'[j] = "discover" /\ held' = held /\ seen' = seen
    BY <1>1, <2>1, MoveAt DEF Goto, Label, Await
  <2>3. Row(j)' /\ status'[j] = "discovering" /\ status[j] = "submitting"
    BY <1>1, <1>2, <2>1, RowMoves DEF CanTransition
  <2>4. correlation'[j] = NoTask
    BY <1>1, <2>1, <2>3 DEF Row, submissionVars
  <2>5. Place(j)'
    BY <2>2, <2>3 DEF Place, Before, Unidentified
  <2>6. Memory(j)' /\ Slots(j)'
    BY <1>1, <2>1, <2>2, <2>4
    DEF Memory, Slots, InSubmission, Holding, Unidentified, Label, Await, Sync,
        submissionVars
  <2> QED
    BY <2>3, <2>5, <2>6 DEF RunnerOf
<1> QED
  BY <1>3, <1>4, <1>5, <1>6

\* A discovery that ends with the job unknown.
LEMMA PersistUnknownRunner ==
  ASSUME TypeInv, NEW j \in Job, Row(j), status[j] = "discovering",
         NEW expected \in SUBSET JobStatus, PersistUnknown(j, expected),
         UNCHANGED listed
  PROVE  RunnerOf(j)'
<1>1. CASE Abandon(j)
  BY <1>1, AbandonRunner
<1>2. CASE ~Abandon(j)
  <2>1. /\ CanTransition(j, expected, "unknown") /\ Transition(j, "unknown")
        /\ MoveTo(j, "waitUnknown") /\ UNCHANGED <<task, submissionVars>>
    BY <1>2 DEF PersistUnknown
  <2>2. pc'[j] = "waitUnknown"
    BY <2>1, MoveAt DEF Label, Await
  <2>3. Row(j)' /\ status'[j] = "unknown" /\ task'[j] = NoTask
    BY <2>1, RowMoves DEF Row
  <2> QED
    BY <2>2, <2>3
    DEF RunnerOf, Place, Memory, Slots, Before, Unidentified, Holding, InSubmission,
        Followed
<1> QED
  BY <1>1, <1>2

\* A task is taken for the task of the job: what an earlier attempt has bound is
\* found again, because the runner knows no more than the persisted baseline.
LEMMA CorrelatingRunner ==
  ASSUME TypeInv, NEW j \in Job, Row(j), Place(j), Slots(j), NEW t \in Job,
         Correlate(j, t), ~BoundElsewhere(j, t), MoveTo(j, "toProcessing"),
         seen' = [seen EXCEPT ![j] = {t}], UNCHANGED <<jobVars, listed>>, held'[j],
         NEW ids, Matches(j, ids) = {t},
         status[j] \in {"discovering", "unknown"}, task[j] = NoTask,
         status[j] = "discovering" => baseline[j] \subseteq ids,
         correlation[j] # NoTask => correlation[j] \notin ids
  PROVE  RunnerOf(j)'
<1>1. t \in listed \cap Alike[j] /\ t \notin ids
  BY DEF Matches
<1>2. /\ Row(j)' /\ baseline' = baseline
      /\ correlation'[j] = IF correlation[j] = NoTask THEN t ELSE correlation[j]
  BY <1>1, RowCorrelates
<1>3. correlation[j] # NoTask => correlation[j] = t
  BY DEF Matches, Row
<1>4. correlation'[j] = t /\ t # NoTask
  BY <1>2, <1>3, NoTaskAssumption
<1>5. pc'[j] = "toProcessing" /\ seen'[j] = {t}
  BY MoveAt DEF Label, Sync, TypeInv, RunnerInv, RunnerTypeOK
<1>6. Place(j)'
  BY <1>5 DEF Place, Before, Unidentified, jobVars
<1>7. Memory(j)' /\ Slots(j)'
  BY <1>4, <1>5 DEF Memory, Slots, InSubmission
<1> QED
  BY <1>2, <1>6, <1>7 DEF RunnerOf

\* The actions of a discovery.
LEMMA DiscoveryRunner ==
  ASSUME RunnersInv, NEW j \in Job, NEW t \in Job,
         \/ DiscoverUnique(j, t) \/ DiscoverNotUnique(j) \/ DiscoverFails(j)
         \/ ToUnknown(j) \/ ToProcessing(j)
  PROVE  RunnerOf(j)'
<1>1. /\ TypeInv /\ Row(j) /\ Place(j) /\ Memory(j) /\ Slots(j)
      /\ listed' = listed
  BY RunnerFacts DEF Runner, RunPostSubmit
<1>2. CASE Abandon(j)
  BY <1>1, <1>2, AbandonRunner
<1>3. CASE DiscoverUnique(j, t) /\ ~Abandon(j)
  <2>1. /\ Matches(j, seen[j]) = {t} /\ Correlate(j, t) /\ UNCHANGED jobVars
        /\ pc[j] = "discover"
    BY <1>3 DEF DiscoverUnique, Correlating, At
  <2>2. /\ status[j] = "discovering" /\ task[j] = NoTask /\ held[j]
        /\ baseline[j] \subseteq seen[j]
        /\ correlation[j] # NoTask => correlation[j] \notin seen[j]
    BY <1>1, <2>1
    DEF Row, Place, Memory, Slots, Holding, Unidentified, Label, Await
  <2>3. CASE BoundElsewhere(j, t)
    <3>1. pc'[j] = "idle"
      BY <1>1, <1>3, <2>3, LeaveAt DEF DiscoverUnique, Correlating
    <3>2. Row(j)'
      BY <1>1, <2>1, <2>2, RowCorrelates DEF Matches
    <3> QED
      BY <3>1, <3>2, IdleRunner
  <2>4. CASE ~BoundElsewhere(j, t)
    BY <1>1, <1>3, <2>1, <2>2, <2>4, CorrelatingRunner
    DEF DiscoverUnique, Correlating
  <2> QED
    BY <2>3, <2>4
<1>4. CASE DiscoverNotUnique(j) /\ ~Abandon(j)
  <2>1. /\ pc[j] = "discover" /\ Goto(j, "toUnknown")
        /\ UNCHANGED <<jobVars, baseline, correlation>>
    BY <1>4 DEF DiscoverNotUnique, Mark, At
  <2>2. pc'[j] = "toUnknown" /\ held' = held
    BY <1>1, <2>1, MoveAt DEF Goto, Label, Sync
  <2>3. Row(j)'
    BY <1>1, <2>1, RowKept DEF jobVars
  <2>4. Place(j)' /\ Memory(j)' /\ Slots(j)'
    BY <1>1, <2>1, <2>2
    DEF Place, Memory, Slots, Before, Unidentified, InSubmission, Holding, Label,
        Await, jobVars
  <2> QED
    BY <2>3, <2>4 DEF RunnerOf
<1>5. CASE DiscoverFails(j) \/ ToUnknown(j)
  <2>1. status[j] = "discovering"
    BY <1>1, <1>5 DEF DiscoverFails, ToUnknown, At, Place
  <2> QED
    BY <1>1, <1>5, <2>1, PersistUnknownRunner DEF DiscoverFails, ToUnknown, JobStatus
<1>6. CASE ToProcessing(j) /\ ~Abandon(j)
  <2>1. /\ pc[j] = "toProcessing" /\ UNCHANGED submissionVars
        /\ task[j] = NoTask /\ correlation[j] # NoTask /\ seen[j] = {correlation[j]}
        /\ held[j]
    BY <1>1, <1>6
    DEF ToProcessing, At, Place, Memory, Slots, Holding, Unidentified, Label, Sync,
        storeVars
  <2>2. CASE /\ CanTransition(j, {"discovering", "unknown"}, "processing")
             /\ Transition(j, "processing")
             /\ task' = [task EXCEPT ![j] = CHOOSE t_1 \in seen[j] : TRUE]
             /\ Goto(j, "poll")
    <3>1. /\ status'[j] = "processing" /\ hold'[j] = "none"
          /\ task'[j] = correlation[j]
          /\ pc'[j] = "poll" /\ held' = held
      BY <1>1, <2>1, <2>2, MoveAt
      DEF Transition, Goto, Label, Await, TypeInv, StoreTypeOK
    <3>2. Row(j)'
      BY <1>1, <2>1, <2>2, <3>1 DEF Row, CanTransition, submissionVars
    <3> QED
      BY <2>1, <3>1, <3>2
      DEF RunnerOf, Place, Memory, Slots, Before, Unidentified, InSubmission
  <2>3. CASE Goto(j, "waitUnknown") /\ status[j] = "unknown" /\ UNCHANGED storeVars
    <3>1. pc'[j] = "waitUnknown"
      BY <1>1, <2>3, MoveAt DEF Goto, Label, Await
    <3>2. Row(j)'
      BY <1>1, <2>3, RowKept DEF storeVars, jobVars, submissionVars
    <3> QED
      BY <2>1, <2>3, <3>1, <3>2
      DEF RunnerOf, Place, Memory, Slots, Before, Unidentified, Holding, InSubmission,
          storeVars, jobVars
  <2> QED
    BY <1>6, <2>2, <2>3 DEF ToProcessing
<1> QED
  BY <1>2, <1>3, <1>4, <1>5, <1>6

\* The actions of recoverUnknown.
LEMMA RediscoveryRunner ==
  ASSUME RunnersInv, NEW j \in Job, NEW t \in Job,
         \/ RetryDiscovery(j) \/ Rediscover(j) \/ RediscoverUnique(j, t)
         \/ RediscoverNothing(j) \/ GiveUpUnknown(j)
  PROVE  RunnerOf(j)'
<1>1. /\ TypeInv /\ Row(j) /\ Place(j) /\ Memory(j) /\ Slots(j)
      /\ listed' = listed /\ pc[j] \in Unidentified
      /\ status[j] \in {"unknown", "failed"} /\ task[j] = NoTask
  <2>1. pc[j] \in Unidentified
    BY DEF RetryDiscovery, Rediscover, RediscoverUnique, RediscoverNothing,
           GiveUpUnknown, At, Unidentified
  <2> QED
    BY <2>1, RunnerFacts DEF Runner, RunPostSubmit, Place
<1>2. ASSUME NEW l \in Unidentified, pc'[j] = l, UNCHANGED <<jobVars, baseline, correlation>>,
             l \in {"awaitRediscover", "discoverUnknown"} => seen'[j] = {}
      PROVE  RunnerOf(j)'
  <2>1. Row(j)'
    BY <1>1, <1>2, RowKept DEF jobVars
  <2>2. Place(j)' /\ Memory(j)' /\ Slots(j)'
    BY <1>1, <1>2
    DEF Place, Memory, Slots, Before, Unidentified, Holding, InSubmission, jobVars
  <2> QED
    BY <2>1, <2>2 DEF RunnerOf
<1>3. Unidentified \subseteq Label
  BY DEF Unidentified, Label, Await
<1>4. CASE RetryDiscovery(j)
  BY <1>1, <1>2, <1>3, <1>4, MoveAt
  DEF RetryDiscovery, Unidentified, storeVars, submissionVars, TypeInv, RunnerInv,
      RunnerTypeOK
<1>5. CASE Rediscover(j)
  BY <1>1, <1>2, <1>3, <1>5, MoveAt
  DEF Rediscover, At, Goto, Memory, Unidentified, storeVars, submissionVars
<1>6. CASE RediscoverNothing(j)
  BY <1>1, <1>2, <1>3, <1>6, MoveAt
  DEF RediscoverNothing, Goto, Unidentified, storeVars, submissionVars
<1>7. CASE RediscoverUnique(j, t)
  <2>1. /\ pc[j] = "discoverUnknown" /\ OwnsUnknownCapacity(j)
        /\ Matches(j, {}) = {t}
    BY <1>7 DEF RediscoverUnique, At
  <2>2. status[j] = "unknown" /\ held[j]
    BY <1>1, <2>1 DEF OwnsUnknownCapacity, Row
  <2>3. CASE Goto(j, "waitUnknown") /\ UNCHANGED <<jobVars, baseline, correlation>>
    BY <1>1, <1>2, <1>3, <2>3, MoveAt DEF Goto, Unidentified
  <2>4. CASE Goto(j, "waitUnknown") /\ Correlate(j, t) /\ BoundElsewhere(j, t)
             /\ UNCHANGED jobVars
    BY <2>3, <2>4 DEF Correlate, Mark
  <2>5. CASE /\ Correlate(j, t) /\ ~BoundElsewhere(j, t) /\ MoveTo(j, "toProcessing")
             /\ seen' = [seen EXCEPT ![j] = {t}] /\ UNCHANGED <<held, jobVars>>
    BY <1>1, <2>1, <2>2, <2>5, CorrelatingRunner
  <2> QED
    BY <1>7, <2>3, <2>4, <2>5
       DEF RediscoverUnique, Correlating, storeVars, submissionVars
<1>8. CASE GiveUpUnknown(j)
  <2>1. pc'[j] = "idle" /\ UNCHANGED <<jobVars, submissionVars>>
    BY <1>1, <1>8, LeaveAt DEF GiveUpUnknown
  <2>2. Row(j)'
    BY <1>1, <2>1, RowKept DEF jobVars, submissionVars
  <2> QED
    BY <2>1, <2>2, IdleRunner
<1> QED
  BY <1>4, <1>5, <1>6, <1>7, <1>8

\* The actions of pollUntilSettled.
LEMMA PollRunner ==
  ASSUME RunnersInv, NEW j \in Job,
         PollSettles(j) \/ MarkTerminal(j) \/ PollDeadline(j) \/ DeadlineUnknown(j)
  PROVE  RunnerOf(j)'
<1>1. /\ TypeInv /\ Row(j) /\ Place(j) /\ Memory(j) /\ Slots(j)
      /\ listed' = listed
  BY RunnerFacts DEF Runner, RunPostSubmit
<1>2. CASE Abandon(j)
  BY <1>1, <1>2, AbandonRunner
<1>3. /\ {"poll", "markTerminal", "deadlineUnknown"} \subseteq Holding
      /\ {"markTerminal", "deadlineUnknown"} \subseteq Label
      /\ {"discovering", "processing", "unknown"} \in SUBSET JobStatus
      /\ {"processing"} \in SUBSET JobStatus
  BY DEF Holding, Unidentified, Label, Await, Sync, JobStatus
<1>4. CASE PollSettles(j)
  <2>1. PICK s \in Terminal :
          /\ CanTransition(j, {"discovering", "processing", "unknown"}, s)
          /\ Transition(j, s)
    BY <1>4 DEF PollSettles
  <2>2. /\ pc[j] = "poll" /\ Goto(j, "markTerminal")
        /\ UNCHANGED <<task, submissionVars>>
    BY <1>4 DEF PollSettles, At
  <2>3. pc'[j] = "markTerminal" /\ held' = held
    BY <1>1, <1>3, <2>2, MoveAt DEF Goto
  <2>4. Row(j)' /\ status'[j] = s
    BY <1>1, <1>3, <2>1, <2>2, RowMoves DEF Terminal
  <2> QED
    BY <1>1, <1>3, <2>2, <2>3, <2>4
    DEF RunnerOf, Place, Memory, Slots, Before, Unidentified, InSubmission
<1>5. CASE PollDeadline(j) /\ ~Abandon(j)
  <2>1. /\ pc[j] = "poll" /\ Goto(j, "deadlineUnknown")
        /\ UNCHANGED <<jobVars, baseline, correlation>>
    BY <1>5 DEF PollDeadline, At, Mark
  <2>2. pc'[j] = "deadlineUnknown" /\ held' = held
    BY <1>1, <1>3, <2>1, MoveAt DEF Goto
  <2>3. Row(j)'
    BY <1>1, <2>1, RowKept DEF jobVars
  <2> QED
    BY <1>1, <1>3, <2>1, <2>2, <2>3
    DEF RunnerOf, Place, Memory, Slots, Before, Unidentified, InSubmission, jobVars
<1>6. CASE (MarkTerminal(j) \/ DeadlineUnknown(j)) /\ ~Abandon(j)
  <2>1. pc'[j] = "idle"
    BY <1>1, <1>6, LeaveAt DEF MarkTerminal, DeadlineUnknown
  <2>2. CASE MarkTerminal(j)
    BY <1>1, <2>1, <2>2, RowKept, IdleRunner
    DEF MarkTerminal, Mark, jobVars, submissionVars
  <2>3. CASE DeadlineUnknown(j)
    BY <1>1, <1>3, <1>6, <2>1, <2>3, RowMoves, IdleRunner DEF DeadlineUnknown
  <2> QED
    BY <1>6, <2>2, <2>3
<1> QED
  BY <1>2, <1>4, <1>5, <1>6

\* The recovered runners, and those that are stopped.
LEMMA RunRecoveredRunner ==
  ASSUME RunnersInv, NEW j \in Job, RunRecovered(j) \/ StopRunner(j)
  PROVE  RunnerOf(j)'
<1>1. /\ TypeInv /\ Row(j) /\ Place(j) /\ Memory(j) /\ Slots(j)
      /\ listed' = listed
  BY RunnerFacts DEF Runner
<1>2. CASE Abandon(j)
  BY <1>1, <1>2, AbandonRunner
<1>3. /\ {"resume", "resumeQueued", "awaitDiscover", "resumeProcessing"}
           \subseteq Holding
      /\ {"upload", "poll", "resumeProcessing", "waitUnknown", "awaitDiscover",
          "discover"} \subseteq Label
      /\ {"queued"} \in SUBSET JobStatus
      /\ {"discovering", "unknown"} \in SUBSET JobStatus
  BY DEF Holding, Unidentified, Label, Await, Sync, JobStatus
<1>4. ASSUME pc'[j] = "idle", UNCHANGED <<jobVars, submissionVars>>
      PROVE  RunnerOf(j)'
  BY <1>1, <1>4, RowKept, IdleRunner DEF jobVars, submissionVars
<1>5. CASE ResumeQueued(j)
  <2>1. /\ pc[j] = "resumeQueued" /\ pc'[j] = "upload" /\ held' = held
        /\ UNCHANGED <<jobVars, submissionVars>>
    BY <1>1, <1>3, <1>5, MoveAt DEF ResumeQueued, At, Goto
  <2>2. Row(j)'
    BY <1>1, <2>1, RowKept DEF jobVars, submissionVars
  <2> QED
    BY <1>1, <1>3, <2>1, <2>2
    DEF RunnerOf, Place, Memory, Slots, Before, Unidentified, InSubmission, jobVars
<1>6. CASE ResumeQueuedFails(j)
  <2>1. pc'[j] = "idle"
    BY <1>1, <1>6, LeaveAt DEF ResumeQueuedFails
  <2>2. CASE CanFailAndRelease(j, {"queued"}) /\ FailAndRelease(j)
    BY <1>1, <1>3, <2>1, <2>2, RowFails, IdleRunner
  <2> QED
    BY <1>4, <1>6, <2>1, <2>2 DEF ResumeQueuedFails
<1>7. CASE ResumeRefused(j) \/ StopRunner(j)
  BY <1>1, <1>4, <1>7, LeaveAt DEF ResumeRefused, StopRunner
<1>8. CASE Resume(j)
  <2>1. /\ pc[j] = "resume" /\ UNCHANGED <<jobVars, submissionVars>>
        /\ status[j] \in Followed /\ held[j]
    BY <1>1, <1>3, <1>8 DEF Resume, At, Place, Slots
  <2>2. Row(j)'
    BY <1>1, <2>1, RowKept DEF jobVars, submissionVars
  <2>3. CASE Leave(j, FALSE)
    BY <1>1, <1>4, <2>1, <2>3, LeaveAt
  <2>4. ASSUME NEW l \in {"poll", "resumeProcessing", "waitUnknown", "awaitDiscover"},
               Goto(j, l),
               l = "poll" => status[j] = "processing",
               l = "resumeProcessing" => status[j] = "unknown" /\ task[j] # NoTask,
               l = "waitUnknown" => status[j] = "unknown" /\ task[j] = NoTask,
               l = "awaitDiscover" => status[j] = "discovering"
        PROVE  RunnerOf(j)'
    <3>1. pc'[j] = l /\ held' = held
      BY <1>1, <1>3, <2>4, MoveAt DEF Goto
    <3>2. Place(j)'
      BY <2>1, <2>4, <3>1 DEF Place, Before, Unidentified, jobVars
    <3>3. Memory(j)' /\ Slots(j)'
      BY <2>1, <2>4, <3>1 DEF Memory, Slots, InSubmission
    <3> QED
      BY <2>2, <3>2, <3>3 DEF RunnerOf
  <2>5. CASE status[j] = "processing"
    <3>1. Leave(j, FALSE) \/ Goto(j, "poll")
      BY <1>8, <2>5 DEF Resume
    <3> QED
      BY <2>3, <2>4, <2>5, <3>1
  <2>6. CASE status[j] # "processing" /\ task[j] # NoTask
    <3>1. status[j] = "unknown"
      BY <1>1, <2>1, <2>6 DEF Row, Followed
    <3>2. Leave(j, FALSE) \/ Goto(j, "resumeProcessing")
      BY <1>8, <2>6 DEF Resume
    <3> QED
      BY <2>3, <2>4, <2>6, <3>1, <3>2
  <2>7. CASE status[j] = "unknown" /\ task[j] = NoTask
    BY <1>8, <2>3, <2>4, <2>7 DEF Resume
  <2>8. CASE status[j] = "discovering" /\ task[j] = NoTask
    BY <1>8, <2>3, <2>4, <2>8 DEF Resume
  <2> QED
    BY <2>1, <2>5, <2>6, <2>7, <2>8 DEF Followed
<1>9. CASE ResumeProcessing(j) /\ ~Abandon(j)
  <2>1. /\ pc[j] = "resumeProcessing" /\ Goto(j, "poll")
        /\ CanTransition(j, {"discovering", "unknown"}, "processing")
        /\ Transition(j, "processing") /\ UNCHANGED <<task, submissionVars>>
    BY <1>9 DEF ResumeProcessing, At
  <2>2. pc'[j] = "poll" /\ held' = held
    BY <1>1, <1>3, <2>1, MoveAt DEF Goto
  <2>3. Row(j)' /\ status'[j] = "processing"
    BY <1>1, <1>3, <2>1, RowMoves
  <2> QED
    BY <1>1, <1>3, <2>1, <2>2, <2>3
    DEF RunnerOf, Place, Memory, Slots, Before, Unidentified, InSubmission
<1>10. CASE ResumeDiscovery(j)
  <2>1. /\ pc[j] = "awaitDiscover" /\ pc'[j] = "discover" /\ held' = held
        /\ seen'[j] = baseline[j] /\ UNCHANGED storeVars
    BY <1>1, <1>3, <1>10, MoveAt
    DEF ResumeDiscovery, At, TypeInv, RunnerInv, RunnerTypeOK
  <2>2. Row(j)'
    BY <1>1, <2>1, RowKept DEF storeVars, jobVars, submissionVars
  <2> QED
    BY <1>1, <1>3, <2>1, <2>2
    DEF RunnerOf, Place, Memory, Slots, Before, Unidentified, InSubmission,
        storeVars, jobVars, submissionVars
<1> QED
  BY <1>2, <1>5, <1>6, <1>7, <1>8, <1>9, <1>10 DEF RunRecovered

\* Every step of a runner keeps the invariant.
LEMMA RunnerRuns ==
  ASSUME RunnersInv, NEW j \in Job, Runner(j)
  PROVE  RunnersInv'
<1>1. SafeInv'
  BY RunnerSafe DEF RunnersInv
<1>2. RunnerOf(j)'
  <2>1. CASE RunInitial(j)
    BY <2>1, BeforeSendRunner, AfterSendRunner DEF RunInitial
  <2>2. CASE RunPostSubmit(j)
    BY <2>2, DiscoveryRunner, RediscoveryRunner, PollRunner DEF RunPostSubmit
  <2> QED
    BY <2>1, <2>2, StartingRunner, RunRecoveredRunner DEF Runner
<1>3. /\ \A k \in Job \ {j} : Same(k)
      /\ UNCHANGED <<listed, processVars, reconcilerVars>> /\ pc[j] # "idle"
  BY RunnerAlone DEF RunnersInv, SafeInv
<1>4. \A k \in Job : RunnerOf(k)'
  BY <1>2, <1>3, SameJob DEF RunnersInv
<1>5. ScanApart'
  BY <1>3 DEF RunnersInv, ScanApart, Same, processVars, reconcilerVars
<1> QED
  BY <1>1, <1>4, <1>5 DEF RunnersInv

-----------------------------------------------------------------------------
(* The process, the reconciler and the rest. *)

\* A runner is at one of the labels the invariant speaks of.
LEMMA Places ==
  ASSUME RunnersInv, NEW j \in Job
  PROVE  /\ pc[j] \in {"idle"} \cup Before \cup InSubmission \cup Unidentified \cup
                      {"awaitDiscover", "discover", "toUnknown", "toProcessing",
                       "resumeProcessing", "poll", "deadlineUnknown", "markTerminal",
                       "resume"}
         /\ status[j] = "absent" => pc[j] = "idle"
         /\ status[j] = "queued" => pc[j] \in {"idle"} \cup Before
         /\ status[j] = "unknown" =>
              pc[j] \in {"idle", "toProcessing", "resumeProcessing", "resume"}
                        \cup Unidentified
<1>1. pc[j] \in {"idle"} \cup Before \cup InSubmission \cup Unidentified \cup
                {"awaitDiscover", "discover", "toUnknown", "toProcessing",
                 "resumeProcessing", "poll", "deadlineUnknown", "markTerminal",
                 "resume"}
  BY DEF RunnersInv, SafeInv, TypeInv, RunnerInv, RunnerTypeOK, Label, Await, Sync,
         Before, InSubmission, Unidentified
<1>2. Place(j) /\ (pc[j] \in InSubmission => status[j] = "submitting")
  BY DEF RunnersInv, RunnerOf, SafeInv, JobInv, Phase
<1> QED
  BY <1>1, <1>2 DEF Place, Terminal, Followed

\* The recovery starts a runner where the row says it can go on, with its slots.
LEMMA RecoverRuns ==
  ASSUME RunnersInv, NEW j \in Job, Recover(j)
  PROVE  RunnersInv'
<1>1. SafeInv' /\ TypeInv /\ Row(j)
  BY RecoverSafe DEF RunnersInv, SafeInv, RunnerOf
<1>2. /\ Recovering(j) /\ pc[j] = "idle" /\ mode = "boot" /\ mode' = mode
      /\ UNCHANGED <<task, submissionVars, seen, listed, scan, rjob>>
  BY DEF Recover, RecoverSettled, RecoverJob, RecoverExpired, RecoverUnavailable,
         RecoverQueued, Recovering, RunnersInv, SafeInv, RecoveredFirst, wireVars,
         reconcilerVars
<1>3. {"resume", "resumeQueued"} \subseteq Label /\ "idle" \notin InLock
  BY DEF Label, Await, InLock
<1>4. \A k \in Job \ {j} : pc'[k] = pc[k]
  BY <1>1, <1>3, OtherRunners
  DEF Recover, RecoverSettled, RecoverJob, RecoverExpired, RecoverUnavailable,
      RecoverQueued
<1>5. \A k \in Job \ {j} : status'[k] = status[k] /\ hold'[k] = hold[k]
  BY <1>1, OtherRows
  DEF Recover, RecoverSettled, RecoverJob, RecoverExpired, RecoverUnavailable,
      RecoverQueued
<1>6. \A k \in Job \ {j} : held'[k] = held[k]
  BY <1>1
  DEF Recover, RecoverSettled, RecoverJob, RecoverExpired, RecoverUnavailable,
      RecoverQueued, TypeInv, RunnerInv, RunnerTypeOK
<1>7. \A k \in Job \ {j} : RunnerOf(k)'
  BY <1>2, <1>4, <1>5, <1>6, SameJob DEF Same, submissionVars, RunnersInv
<1>8. RunnerOf(j)'
  <2>1. ASSUME status' = status, hold' = hold PROVE Row(j)'
    BY <1>1, <1>2, <2>1, RowKept DEF submissionVars
  <2>2. {"submitting"} \in SUBSET JobStatus /\ InProgress \in SUBSET JobStatus
    BY DEF JobStatus, InProgress
  <2>3. CASE RecoverSettled(j) \/ RecoverExpired(j)
    BY <1>2, <2>1, <2>3, IdleRunner DEF RecoverSettled, RecoverExpired
  <2>4. CASE RecoverUnavailable(j)
    <3>1. pc'[j] = "idle"
      BY <1>2, <2>4 DEF RecoverUnavailable
    <3>2. ASSUME Transition(j, "unknown"), status[j] \in InProgress PROVE Row(j)'
      BY <1>1, <1>2, <2>2, <3>2, RowMoves
      DEF CanTransition, InProgress, allowedTransitions
    <3>3. Row(j)'
      BY <2>1, <2>4, <3>2 DEF RecoverUnavailable, InProgress
    <3> QED
      BY <3>1, <3>3, IdleRunner
  <2>5. CASE RecoverJob(j)
    <3>1. pc'[j] = "resume" /\ held'[j]
      BY <1>1, <1>3, <2>5, MoveAt
      DEF RecoverJob, TypeInv, RunnerInv, RunnerTypeOK
    <3>2. Row(j)' /\ status'[j] \in Followed
      <4>1. CASE status[j] = "submitting"
        BY <1>1, <1>2, <2>2, <2>5, <4>1, RowMoves
        DEF RecoverJob, CanTransition, allowedTransitions, Followed
      <4>2. CASE status[j] # "submitting"
        BY <2>1, <2>5, <4>2 DEF RecoverJob, InProgress, Followed
      <4> QED
        BY <4>1, <4>2
    <3> QED
      BY <3>1, <3>2
      DEF RunnerOf, Place, Memory, Slots, Before, Unidentified, InSubmission
  <2>6. CASE RecoverQueued(j)
    <3>1. Row(j)' /\ status'[j] = "queued"
      BY <2>1, <2>6 DEF RecoverQueued
    <3>2. CASE pc' = pc
      BY <1>2, <3>1, <3>2, IdleRunner
    <3>3. CASE MoveTo(j, "resumeQueued") /\ held' = [held EXCEPT ![j] = TRUE]
      <4>1. pc'[j] = "resumeQueued" /\ held'[j]
        BY <1>1, <1>3, <3>3, MoveAt DEF TypeInv, RunnerInv, RunnerTypeOK
      <4> QED
        BY <3>1, <4>1
        DEF RunnerOf, Place, Memory, Slots, Before, Unidentified, InSubmission
    <3> QED
      BY <2>6, <3>2, <3>3 DEF RecoverQueued
  <2> QED
    BY <2>3, <2>4, <2>5, <2>6 DEF Recover
<1>9. ScanApart'
  BY <1>2 DEF RunnersInv, ScanApart
<1> QED
  BY <1>1, <1>7, <1>8, <1>9 DEF RunnersInv

\* Start, kill and shutdown: what ends takes its runners and its scan along.
LEMMA LifecycleRuns ==
  ASSUME RunnersInv, Lifecycle
  PROVE  RunnersInv'
<1>1. SafeInv'
  BY LifecycleSafe DEF RunnersInv
<1>2. UNCHANGED <<storeVars, listed>>
  BY DEF Lifecycle, Start, BootDone, BeginShutdown, StopPollers, CloseProcess, Kill,
         GoDown, wireVars
<1>3. CASE UNCHANGED <<runnerVars, reconcilerVars>> /\ mode' \notin {"down", "boot"}
  <2>1. \A k \in Job : RunnerOf(k)'
    BY <1>2, <1>3, SameJob
    DEF Same, RunnersInv, storeVars, jobVars, submissionVars, runnerVars
  <2>2. ScanApart'
    BY <1>2, <1>3
    DEF ScanApart, RunnersInv, storeVars, jobVars, runnerVars, reconcilerVars
  <2> QED
    BY <1>1, <2>1, <2>2 DEF RunnersInv
<1>4. CASE \E p \in Pid : Start(p)
  <2>1. UNCHANGED <<runnerVars, reconcilerVars>> /\ mode = "down"
    BY <1>4 DEF Start
  <2>2. \A k \in Job : RunnerOf(k)'
    BY <1>2, <2>1, SameJob
    DEF Same, RunnersInv, storeVars, jobVars, submissionVars, runnerVars
  <2>3. ScanApart'
    BY <2>1 DEF ScanApart, RunnersInv, reconcilerVars
  <2> QED
    BY <1>1, <2>2, <2>3 DEF RunnersInv
<1>5. CASE GoDown
  <2>1. \A k \in Job : RunnerOf(k)'
    <3> TAKE k \in Job
    <3>1. pc'[k] = "idle"
      BY <1>5 DEF GoDown
    <3>2. Row(k)'
      BY <1>2, RowKept DEF RunnersInv, RunnerOf, storeVars, jobVars, submissionVars
    <3> QED
      BY <3>1, <3>2, IdleRunner
  <2>2. ScanApart'
    BY <1>5, NoTaskAssumption DEF GoDown, ScanApart
  <2> QED
    BY <1>1, <2>1, <2>2 DEF RunnersInv
<1> QED
  BY <1>3, <1>4, <1>5
  DEF Lifecycle, BootDone, BeginShutdown, StopPollers, CloseProcess, Kill

\* A job without a runner keeps its invariant through what is done to its row.
LEMMA RowStep ==
  ASSUME RunnersInv, SafeInv', NEW j \in Job, pc[j] = "idle", Row(j)',
         UNCHANGED <<pc, held, seen, listed, mode>>,
         \A k \in Job \ {j} : /\ status'[k] = status[k] /\ hold'[k] = hold[k]
                              /\ task'[k] = task[k]
                              /\ baseline'[k] = baseline[k]
                              /\ correlation'[k] = correlation[k],
         status'[j] # "absent",
         scan' \subseteq scan, rjob' \in {rjob, NoTask} \cup scan
  PROVE  RunnersInv'
<1>1. \A k \in Job \ {j} : RunnerOf(k)'
  BY SameJob DEF Same, RunnersInv
<1>2. RunnerOf(j)'
  BY IdleRunner
<1>3. ScanApart'
  BY NoTaskAssumption DEF RunnersInv, ScanApart
<1> QED
  BY <1>1, <1>2, <1>3 DEF RunnersInv

\* A step that leaves rows and runners alone, and takes up no other job.
LEMMA ScanStep ==
  ASSUME RunnersInv, SafeInv',
         UNCHANGED <<pc, held, seen, listed, mode, jobVars, baseline, correlation>>,
         scan' \subseteq scan, rjob' \in {rjob, NoTask} \cup scan
  PROVE  RunnersInv'
<1>1. \A k \in Job : RunnerOf(k)'
  BY SameJob DEF Same, RunnersInv, jobVars
<1>2. ScanApart'
  BY NoTaskAssumption DEF RunnersInv, ScanApart, jobVars
<1> QED
  BY <1>1, <1>2 DEF RunnersInv

\* The scan finds jobs without a runner, and no runner comes to a job it is at.
LEMMA ReconcileRuns ==
  ASSUME RunnersInv, Reconcile
  PROVE  RunnersInv'
<1>1. SafeInv' /\ TypeInv
  BY ReconcileSafe DEF RunnersInv, SafeInv
<1>2. /\ UNCHANGED <<pc, held, seen, listed, mode, baseline, correlation, task>>
      /\ mode \notin {"down", "boot"}
  BY DEF Reconcile, BeginScan, SkipDue, TakeDue, DeferUnavailable, AcquireDue,
         ReconcilePoll, ReconcilePollFails, ReconcilePollEmpty,
         Settle, Defer, DeferFrom, MarkDeferred,
         MarkDeferredFrom, LastDefer, MarkLastDeferred, RAt, Running, storeVars,
         jobVars, submissionVars, Mark, processVars, runnerVars, wireVars
<1>3. CASE BeginScan
  <2>1. \A k \in Job : RunnerOf(k)'
    BY <1>2, <1>3, SameJob DEF BeginScan, Same, RunnersInv, storeVars, jobVars
  <2>2. ASSUME NEW k \in ReconciliationDue PROVE k \in Job /\ pc[k] = "idle"
    <3>1. k \in Job /\ status[k] = "unknown" /\ task[k] # NoTask
      BY DEF ReconciliationDue
    <3>2. pc[k] \notin {"toProcessing", "resumeProcessing", "resume"} \cup Unidentified
      BY <1>3, <3>1 DEF BeginScan, Quiet, Sync, RunnersInv, RunnerOf, Place
    <3> QED
      BY <3>1, <3>2, Places
  <2>3. ScanApart'
    BY <1>2, <1>3, <2>2
    DEF BeginScan, RunnersInv, ScanApart, ReconciliationDue, storeVars, jobVars
  <2> QED
    BY <1>1, <2>1, <2>3 DEF RunnersInv
<1>4. CASE \E j \in Job : SkipDue(j) \/ TakeDue(j) \/ DeferUnavailable(j)
  BY <1>1, <1>2, <1>4, ScanStep
  DEF SkipDue, TakeDue, DeferUnavailable, AcquireDue, storeVars
<1>5. CASE \/ ReconcilePoll \/ ReconcilePollFails \/ ReconcilePollEmpty \/ Settle
           \/ Defer \/ MarkDeferred \/ LastDefer \/ MarkLastDeferred
  <2>1. PICK j \in Job : j = rjob
    BY <1>1, <1>5 DEF ReconcilePoll, ReconcilePollFails, ReconcilePollEmpty,
                Settle, Defer, DeferFrom,
                MarkDeferred, MarkDeferredFrom, LastDefer, MarkLastDeferred, RAt,
                TypeInv, ReconcilerInv
  <2>2. pc[j] = "idle" /\ Row(j)
    BY <2>1 DEF RunnersInv, ScanApart, RunnerOf
  <2>3. scan' \in {scan, {}} /\ rjob' \in {rjob, NoTask}
    BY <1>5
    DEF ReconcilePoll, ReconcilePollFails, ReconcilePollEmpty, Settle, Defer,
        DeferFrom, MarkDeferred, MarkDeferredFrom, LastDefer, MarkLastDeferred, Catch,
        NextDue, LeaveScan, RGoto
  <2>4. CASE UNCHANGED jobVars
    BY <1>1, <1>2, <2>3, <2>4, ScanStep
  <2>5. ASSUME NEW expected \in SUBSET JobStatus,
               NEW to \in {"processing", "unknown", "completed", "failed"},
               CanTransition(rjob, expected, to), Transition(rjob, to),
               UNCHANGED submissionVars
        PROVE  RunnersInv'
    <3>1. /\ to # "discovering" /\ to # "absent"
          /\ UNCHANGED <<task, submissionVars, listed>>
          /\ CanTransition(j, expected, to) /\ Transition(j, to)
      BY <1>2, <2>1, <2>5
    <3>2. Row(j)' /\ status'[j] = to
      BY <1>1, <2>2, <2>5, <3>1, RowMoves
    <3>3. \A k \in Job \ {j} :
            /\ status'[k] = status[k] /\ hold'[k] = hold[k] /\ task'[k] = task[k]
            /\ baseline'[k] = baseline[k] /\ correlation'[k] = correlation[k]
      BY <1>1, <1>2, <3>1, OtherRows
    <3> QED
      BY <1>1, <1>2, <2>2, <2>3, <3>1, <3>2, <3>3, RowStep
  <2>6. CASE ReconcilePoll \/ ReconcilePollFails \/ ReconcilePollEmpty
    BY <2>4, <2>5, <2>6
    DEF ReconcilePoll, ReconcilePollFails, ReconcilePollEmpty, Terminal, JobStatus
  <2>7. CASE Settle
    <3>1. ASSUME status[rjob] = "processing", Transition(rjob, "unknown"),
                 UNCHANGED submissionVars
          PROVE  RunnersInv'
      <4>1. CanTransition(rjob, {"processing"}, "unknown")
            /\ {"processing"} \in SUBSET JobStatus
        BY <3>1 DEF CanTransition, allowedTransitions, JobStatus
      <4> QED
        BY <2>5, <3>1, <4>1
    <3> QED
      BY <2>4, <2>7, <3>1 DEF Settle
  <2>8. CASE Defer \/ MarkDeferred \/ LastDefer \/ MarkLastDeferred
    BY <2>4, <2>5, <2>8
    DEF Defer, DeferFrom, MarkDeferred, MarkDeferredFrom, LastDefer,
        MarkLastDeferred, JobStatus
  <2> QED
    BY <1>5, <2>6, <2>7, <2>8
<1> QED
  BY <1>3, <1>4, <1>5 DEF Reconcile

\* A client's job is new to every runner and to the scan.
LEMMA CreateRuns ==
  ASSUME RunnersInv, NEW j \in Job, Create(j)
  PROVE  RunnersInv'
<1>1. SafeInv' /\ TypeInv /\ Row(j) /\ status[j] = "absent" /\ pc[j] = "idle"
  BY CreateSafe, Places DEF RunnersInv, SafeInv, RunnerOf, Create, ReserveOrGet
<1>2. /\ UNCHANGED <<hold, task, baseline, correlation, seen, listed, scan, rjob, mode>>
      /\ mode = "up"
  BY DEF Create, ReserveOrGet, submissionVars, wireVars, processVars, reconcilerVars
<1>3. /\ \A k \in Job : pc'[k] = IF k = j THEN "prepare" ELSE pc[k]
      /\ \A k \in Job : status'[k] = IF k = j THEN "queued" ELSE status[k]
      /\ \A k \in Job : held'[k] = IF k = j THEN TRUE ELSE held[k]
  BY <1>1, MoveAt
  DEF Create, ReserveOrGet, Label, Await, TypeInv, StoreTypeOK, RunnerInv, RunnerTypeOK
<1>4. \A k \in Job \ {j} : RunnerOf(k)'
  BY <1>2, <1>3, SameJob DEF Same, RunnersInv
<1>5. Row(j)'
  BY <1>1, <1>2, <1>3 DEF Row
<1>6. RunnerOf(j)'
  BY <1>3, <1>5 DEF RunnerOf, Place, Memory, Slots, Before, Unidentified, InSubmission
<1>7. ScanApart'
  BY <1>1, <1>2, <1>3 DEF RunnersInv, ScanApart
<1> QED
  BY <1>1, <1>4, <1>6, <1>7 DEF RunnersInv

\* A client or an operator ends a job whose runner, if it has one, has still to
\* find out.
LEMMA EndedFromOutside ==
  ASSUME RunnersInv, SafeInv', NEW j \in Job, Quiet, Transition(j, "failed"),
         status[j] \in {"queued", "unknown"},
         UNCHANGED <<task, submissionVars, listed, pc, seen, scan, rjob, mode>>,
         held' = held \/ (status[j] = "unknown" /\ held' = [held EXCEPT ![j] = FALSE])
  PROVE  RunnersInv'
<1>1. TypeInv /\ Row(j) /\ Place(j) /\ Memory(j) /\ Slots(j)
  BY DEF RunnersInv, SafeInv, RunnerOf
<1>2. Row(j)' /\ status'[j] = "failed" /\ task'[j] = task[j]
  <2>1. /\ CanTransition(j, {"queued", "unknown"}, "failed")
        /\ {"queued", "unknown"} \in SUBSET JobStatus
    BY DEF CanTransition, allowedTransitions, JobStatus
  <2> QED
    BY <1>1, <2>1, RowMoves
<1>3. /\ pc[j] \in {"idle"} \cup Before \cup Unidentified
      /\ status[j] = "unknown" => pc[j] \in {"idle"} \cup Unidentified
  BY Places DEF Quiet, Sync
<1>4. Place(j)'
  BY <1>1, <1>2, <1>3 DEF Place, Before, Unidentified
<1>5. Slots(j)'
  <2>1. held' = held \/ pc'[j] \notin Holding
    BY <1>3 DEF Holding, Unidentified
  <2> QED
    BY <1>1, <2>1 DEF Slots
<1>6. Memory(j)'
  BY <1>1, <1>2 DEF Memory, submissionVars
<1>7. \A k \in Job \ {j} : RunnerOf(k)'
  <2>1. \A k \in Job \ {j} : Same(k)
    BY <1>1, OtherRows
    DEF Same, submissionVars, TypeInv, RunnerInv, RunnerTypeOK
  <2> QED
    BY <2>1, SameJob DEF RunnersInv
<1>8. ScanApart'
  BY <1>1, <1>2, OtherRows DEF RunnersInv, ScanApart
<1> QED
  BY <1>2, <1>4, <1>5, <1>6, <1>7, <1>8 DEF RunnersInv, RunnerOf

\* Clients, operators, the clock and the provider.
LEMMA EnvironmentRuns ==
  ASSUME RunnersInv, Environment
  PROVE  RunnersInv'
<1>1. SafeInv' /\ TypeInv
  BY EnvironmentSafe DEF RunnersInv, SafeInv
<1> PICK j \in Job :
      \/ Create(j) \/ ClientCancels(j)
      \/ \E action \in {"charge", "release"} : OperatorResolves(j, action)
      \/ HoldExpires(j) \/ ReconcileComesDue(j) \/ CapacitySweep(j) \/ Lapse(j)
      \/ ProviderAccepts(j) \/ ProviderLists(j)
  BY DEF Environment
<1>2. CASE ClientCancels(j)
  BY <1>1, <1>2, EndedFromOutside
  DEF ClientCancels, CanCancelQueued, CancelQueued, processVars, runnerVars,
      reconcilerVars, wireVars
<1>3. CASE \E action \in {"charge", "release"} : OperatorResolves(j, action)
  <2>1. PICK action \in {"charge", "release"} : OperatorResolves(j, action)
    BY <1>3
  <2> QED
    BY <1>1, <2>1, EndedFromOutside
    DEF OperatorResolves, CanResolveUnknown, ResolveUnknown, processVars,
        reconcilerVars, wireVars
<1>4. CASE HoldExpires(j)
  <2>1. /\ \A k \in Job \ {j} : hold'[k] = hold[k]
        /\ hold[j] = "held" /\ hold'[j] = "expired"
        /\ UNCHANGED <<status, task, submissionVars, processVars, runnerVars,
                       reconcilerVars, wireVars>>
    BY <1>1, <1>4 DEF HoldExpires, TypeInv, StoreTypeOK
  <2>2. \A k \in Job \ {j} : RunnerOf(k)'
    BY <2>1, SameJob DEF Same, RunnersInv, submissionVars, runnerVars, wireVars
  <2>3. RunnerOf(j)'
    <3>1. RunnerOf(j) /\ Row(j)'
      BY <2>1 DEF RunnersInv, RunnerOf, Row, submissionVars, wireVars
    <3>2. Place(j)' /\ Slots(j)'
      BY <2>1, <3>1 DEF RunnerOf, Place, Slots, runnerVars
    <3>3. Memory(j)'
      BY <2>1, <3>1 DEF RunnerOf, Memory, runnerVars, submissionVars
    <3> QED
      BY <3>1, <3>2, <3>3 DEF RunnerOf
  <2>4. ScanApart'
    BY <2>1 DEF RunnersInv, ScanApart, processVars, runnerVars, reconcilerVars
  <2> QED
    BY <1>1, <2>2, <2>3, <2>4 DEF RunnersInv
<1>5. CASE CapacitySweep(j)
  <2>1. /\ \A k \in Job \ {j} : held'[k] = held[k]
        /\ UNCHANGED <<storeVars, processVars, pc, seen, reconcilerVars, wireVars>>
        /\ status[j] = "unknown" /\ Quiet
    BY <1>1, <1>5 DEF CapacitySweep, TypeInv, RunnerInv, RunnerTypeOK
  <2>2. \A k \in Job \ {j} : RunnerOf(k)'
    BY <2>1, SameJob
    DEF Same, RunnersInv, storeVars, jobVars, submissionVars, wireVars
  <2>3. RunnerOf(j)'
    <3>1. pc[j] \notin Holding
      BY <2>1, Places DEF Quiet, Sync, Holding
    <3>2. RunnerOf(j) /\ Slots(j)'
      BY <2>1, <3>1 DEF RunnersInv, Slots
    <3>3. Row(j)'
      BY <2>1, <3>2, RowKept DEF RunnerOf, storeVars, jobVars, submissionVars, wireVars
    <3>4. Place(j)'
      BY <2>1, <3>2 DEF RunnerOf, Place, storeVars, jobVars
    <3>5. Memory(j)'
      BY <2>1, <3>2 DEF RunnerOf, Memory, storeVars, submissionVars
    <3> QED
      BY <3>2, <3>3, <3>4, <3>5 DEF RunnerOf
  <2>4. ScanApart'
    BY <2>1 DEF RunnersInv, ScanApart, processVars, reconcilerVars, storeVars, jobVars
  <2> QED
    BY <1>1, <2>2, <2>3, <2>4 DEF RunnersInv
<1>6. CASE ReconcileComesDue(j) \/ Lapse(j) \/ ProviderAccepts(j) \/ ProviderLists(j)
  <2>1. /\ UNCHANGED <<status, hold, task, baseline, correlation, mode, scan, rjob>>
        /\ UNCHANGED <<pc, held, seen>> /\ listed \subseteq listed'
    BY <1>6
    DEF ReconcileComesDue, Lapse, LeaseLapses, ProviderAccepts, ProviderLists,
        storeVars, jobVars, submissionVars, processVars, runnerVars, reconcilerVars,
        wireVars
  <2>2. \A k \in Job : RunnerOf(k)'
    BY <2>1, SameJob DEF Same, RunnersInv
  <2>3. ScanApart'
    BY <2>1 DEF RunnersInv, ScanApart
  <2> QED
    BY <1>1, <2>2, <2>3 DEF RunnersInv
<1> QED
  BY <1>2, <1>3, <1>4, <1>5, <1>6, CreateRuns

-----------------------------------------------------------------------------
(* The theorems about the runners. *)

\* The invariant holds of an empty database.
LEMMA InitRuns == Init => RunnersInv
<1> SUFFICES ASSUME Init PROVE RunnersInv
  OBVIOUS
<1>1. \A j \in Job : RunnerOf(j)
  BY DEF Init, StoreInit, MemoryInit, RunnerOf, Row, Place, Memory, Slots, Before,
         Unidentified, Holding, InSubmission
<1>2. ScanApart
  BY NoTaskAssumption DEF Init, MemoryInit, ScanApart
<1> QED
  BY <1>1, <1>2, InitSafe DEF RunnersInv

\* A step that changes nothing keeps the invariant.
LEMMA StutterRuns ==
  ASSUME RunnersInv, UNCHANGED vars
  PROVE  RunnersInv'
<1>1. SafeInv'
  BY StutterSafe DEF RunnersInv
<1> QED
  BY <1>1, ScanStep
  DEF vars, storeVars, submissionVars, processVars, runnerVars, reconcilerVars, wireVars

\* The invariant is inductive.
LEMMA NextRuns == RunnersInv /\ [Next]_vars => RunnersInv'
  BY RunnerRuns, RecoverRuns, ReconcileRuns, LifecycleRuns, EnvironmentRuns,
     StutterRuns
  DEF Next

\* In every state the label of a runner, its memory and its slots fit the row of
\* its job, and the scan is at jobs that have no runner.
THEOREM RunnersInvariance == Spec => []RunnersInv
  BY InitRuns, NextRuns, PTL DEF Spec

\* The reconciler never holds the lease row of a job a runner is at work on: a
\* scan finds only jobs whose runner has ended.
THEOREM OneOwner == Spec => []OneOwnerAtWork
<1>1. RunnersInv => OneOwnerAtWork
  BY DEF RunnersInv, ScanApart, OneOwnerAtWork
<1> QED
  BY <1>1, RunnersInvariance, PTL

\* A job has its slots for as long as its runner can send, follow or poll.
THEOREM SlotsAreHeld == Spec => []SlotHeldWhileFollowed
<1>1. RunnersInv => SlotHeldWhileFollowed
  BY DEF RunnersInv, RunnerOf, Slots, Holding, Unidentified, Label, Await, Sync,
         SlotHeldWhileFollowed
<1> QED
  BY <1>1, RunnersInvariance, PTL

\* The task that is polled is the task of the evidence: a runner that discovers
\* again after a kill comes to the task that was bound before.
THEOREM PolledTaskIsBound == Spec => []PolledTaskIsCorrelated
<1>1. RunnersInv => PolledTaskIsCorrelated
  BY DEF RunnersInv, RunnerOf, Row, PolledTaskIsCorrelated
<1> QED
  BY <1>1, RunnersInvariance, PTL

-----------------------------------------------------------------------------
(* A shutdown drains the submissions of a process that was not stalled. *)

Leased == Label \ {"idle", "prepare", "resumeQueued", "resume"}

\* The evidence row before the request is out.
Outcomes(j) ==
  /\ status[j] \in {"absent", "queued"} => outcome[j] \in {"none", "baseline_captured"}
  /\ pc[j] = "toSubmitting" /\ status[j] = "queued" => outcome[j] = "baseline_captured"
  /\ pc[j] = "markSubmitting" => outcome[j] = "baseline_captured"
  /\ pc[j] \in {"send", "sending"} => outcome[j] = "submitting"

\* A runner at work holds a live lease row.
Leases(j) == pc[j] \in Leased => Running /\ Owns(j, Worker)

\* A job is submitting only while its runner is, or until the recovery comes.
Draining(j) ==
  status[j] = "submitting" =>
    \/ pc[j] \in InSubmission
    \/ mode = "down"
    \/ mode = "boot" /\ j \in todo

Drained(j) == Outcomes(j) /\ Leases(j) /\ Draining(j)

DrainInv == RunnersInv /\ \A j \in Job : Drained(j)

\* What a step leaves alone stays drained.
LEMMA SameDrained ==
  ASSUME NEW k \in Job, Drained(k), pc'[k] = pc[k], status'[k] = status[k],
         outcome'[k] = outcome[k], lease'[k] = lease[k],
         UNCHANGED <<mode, pid, todo>>
  PROVE  Drained(k)'
<1>1. Outcomes(k)'
  BY DEF Drained, Outcomes
<1>2. Leases(k)' /\ Draining(k)'
  BY DEF Drained, Leases, Draining, Running, Owns, Worker
<1> QED
  BY <1>1, <1>2 DEF Drained

\* Taking or giving up the lease row of a job, or writing its evidence, leaves
\* those of the others alone.
LEMMA OtherLeases ==
  ASSUME TypeInv, NEW j \in Job, NEW k \in Job, k # j
  PROVE  /\ \A w : Released(j, w)[k] = lease[k] /\ Acquired(j, w)[k] = lease[k]
         /\ \A keeps : Leave(j, keeps) => lease'[k] = lease[k]
         /\ Abandon(j) => lease'[k] = lease[k] /\ outcome'[k] = outcome[k]
         /\ \A to : Mark(j, to) => outcome'[k] = outcome[k]
         /\ \A ids : CaptureBaseline(j, ids) => outcome'[k] = outcome[k]
         /\ \A t : Correlate(j, t) => outcome'[k] = outcome[k]
<1>1. \A w : Released(j, w)[k] = lease[k] /\ Acquired(j, w)[k] = lease[k]
  BY DEF TypeInv, StoreTypeOK, Released, Acquired
<1>2. \A to : Mark(j, to) => outcome'[k] = outcome[k]
  BY DEF TypeInv, StoreTypeOK, Mark
<1>3. \A ids : CaptureBaseline(j, ids) => outcome'[k] = outcome[k]
  BY DEF TypeInv, StoreTypeOK, CaptureBaseline
<1>4. \A t : Correlate(j, t) => outcome'[k] = outcome[k]
  BY <1>2 DEF TypeInv, StoreTypeOK, Correlate
<1> QED
  BY <1>1, <1>2, <1>3, <1>4 DEF Leave, Abandon, submissionVars

\* The steps of a runner leave lease and evidence of the others alone.
LEMMA RunnerLeavesLeases ==
  ASSUME TypeInv, NEW j \in Job, Runner(j)
  PROVE  \A k \in Job \ {j} : lease'[k] = lease[k] /\ outcome'[k] = outcome[k]
<1> TAKE k \in Job \ {j}
<1>1. CASE StartRunner(j) \/ PrepareFails(j) \/ StartRefused(j)
  BY <1>1, OtherLeases
  DEF StartRunner, PrepareFails, StartRefused, FailAndRelease, submissionVars
<1>2. CASE RunInitial(j)
  <2>1. CASE \/ Upload(j) \/ TakeDiscoveryLock(j) \/ Snapshot(j) \/ SnapshotFails(j)
             \/ ToSubmitting(j) \/ MarkSubmitting(j)
    BY <2>1, OtherLeases
    DEF Upload, TakeDiscoveryLock, Snapshot, SnapshotFails, ToSubmitting,
        MarkSubmitting, storeVars, submissionVars
  <2>2. CASE Send(j) \/ SendSucceeds(j) \/ SendAmbiguous(j) \/ SendRejected(j)
    BY <2>2, OtherLeases
    DEF Send, SendSucceeds, SendAmbiguous, SendRejected, storeVars, submissionVars
  <2>3. CASE FailReject(j) \/ FailQueued(j) \/ ChargeSubmitted(j) \/ ToDiscovering(j)
    BY <2>3, OtherLeases
    DEF FailReject, FailQueued, ChargeSubmitted, ToDiscovering, FailAndRelease,
        submissionVars
  <2> QED
    BY <1>2, <2>1, <2>2, <2>3 DEF RunInitial
<1>3. CASE RunPostSubmit(j)
  <2>1. PICK t \in Job :
          \/ DiscoverUnique(j, t) \/ RediscoverUnique(j, t)
          \/ DiscoverNotUnique(j) \/ DiscoverFails(j) \/ ToUnknown(j)
          \/ ToProcessing(j) \/ RetryDiscovery(j) \/ Rediscover(j)
          \/ RediscoverNothing(j) \/ GiveUpUnknown(j) \/ PollSettles(j)
          \/ MarkTerminal(j) \/ PollDeadline(j) \/ DeadlineUnknown(j)
    BY <1>3 DEF RunPostSubmit
  <2> QED
    BY <2>1, OtherLeases
    DEF DiscoverUnique, RediscoverUnique, Correlating, DiscoverNotUnique, DiscoverFails,
        ToUnknown, PersistUnknown, ToProcessing, RetryDiscovery, Rediscover,
        RediscoverNothing, GiveUpUnknown, PollSettles, MarkTerminal, PollDeadline,
        DeadlineUnknown, storeVars, submissionVars
<1>4. CASE RunRecovered(j) \/ StopRunner(j)
  <2>1. CASE Resume(j)
    <3>1. outcome' = outcome /\ lease' \in {Released(j, Worker), Acquired(j, Worker)}
      BY <2>1 DEF Resume, Leave, submissionVars
    <3> QED
      BY <3>1, OtherLeases
  <2>2. CASE ResumeQueued(j) \/ ResumeQueuedFails(j) \/ ResumeRefused(j) \/ StopRunner(j)
    <3>1. outcome' = outcome /\ lease' \in {Released(j, Worker), Acquired(j, Worker)}
      BY <2>2
      DEF ResumeQueued, ResumeQueuedFails, ResumeRefused, StopRunner, FailAndRelease,
          Leave, submissionVars
    <3> QED
      BY <3>1, OtherLeases
  <2>3. CASE ResumeProcessing(j) \/ ResumeDiscovery(j)
    BY <2>3, OtherLeases
    DEF ResumeProcessing, ResumeDiscovery, storeVars, submissionVars
  <2> QED
    BY <1>4, <2>1, <2>2, <2>3 DEF RunRecovered
<1> QED
  BY <1>1, <1>2, <1>3, <1>4 DEF Runner

\* A runner that is in no submission leaves nothing to drain.
LEMMA OutOfSubmission ==
  ASSUME DrainInv, RunnersInv', NEW j \in Job, UNCHANGED <<mode, pid>>, Running,
         pc'[j] \notin {"toSubmitting", "markSubmitting", "send", "sending"},
         \/ status'[j] \notin {"absent", "queued"}
         \/ status'[j] = status[j] /\ outcome'[j] = outcome[j],
         pc'[j] \in Leased =>
           (pc[j] \in Leased /\ lease' = lease) \/ lease' = Acquired(j, Worker),
         pc'[j] = "idle" => status'[j] # "submitting"
  PROVE  Drained(j)'
<1>1. Outcomes(j)'
  BY DEF DrainInv, Drained, Outcomes
<1>2. Leases(j)'
  <2>1. lease' = Acquired(j, Worker) => lease'[j] = [by |-> Worker, live |-> TRUE]
    BY DEF DrainInv, RunnersInv, SafeInv, TypeInv, StoreTypeOK, Acquired
  <2> QED
    BY <2>1 DEF DrainInv, Drained, Leases, Running, Owns, Worker
<1>3. Draining(j)'
  <2>1. status'[j] = "submitting" => pc'[j] \in {"idle"} \cup InSubmission
    <3>1. Place(j)' /\ pc'[j] \in Label
      BY DEF RunnersInv, RunnerOf, SafeInv, TypeInv, RunnerInv, RunnerTypeOK
    <3> QED
      BY <3>1 DEF Place, Before, Unidentified, InSubmission, Label, Await, Sync,
                  Terminal, Followed
  <2> QED
    BY <2>1 DEF Draining
<1> QED
  BY <1>1, <1>2, <1>3 DEF Drained

\* A runner that owns its lease row goes through its submission to the end.
LEMMA SubmissionDrains ==
  ASSUME DrainInv, RunnersInv', NEW j \in Job,
         \/ Snapshot(j) \/ ToSubmitting(j) \/ MarkSubmitting(j) \/ Send(j)
         \/ SendSucceeds(j) \/ SendAmbiguous(j) \/ SendRejected(j)
         \/ FailReject(j) \/ ChargeSubmitted(j) \/ ToDiscovering(j)
  PROVE  Drained(j)'
<1>1. /\ TypeInv /\ Place(j) /\ Phase(j) /\ BudgetFits(j) /\ Outcomes(j) /\ Leases(j)
  BY DEF DrainInv, RunnersInv, SafeInv, RunnerOf, JobInv, Drained
<1>2. UNCHANGED <<mode, pid>> /\ Running
  BY DEF Snapshot, ToSubmitting, MarkSubmitting, Send, SendSucceeds, SendAmbiguous,
         SendRejected, FailReject, ChargeSubmitted, ToDiscovering, At, processVars
<1>3. /\ {"snapshot", "toSubmitting", "markSubmitting", "send", "sending", "charge",
          "failReject", "toDiscovering", "discover", "failQueued"}
           \subseteq Leased \cap Label
      /\ {"failQueued", "charge", "failReject", "toDiscovering", "discover", "idle"}
           \cap {"toSubmitting", "markSubmitting", "send", "sending"} = {}
  BY DEF Leased, Label, Await, Sync
<1>4. ASSUME pc[j] \in Leased PROVE Fenced(j)
  BY <1>1, <1>4 DEF Leases, Fenced
<1>5. ASSUME lease' = lease, pc[j] \in Leased PROVE Leases(j)'
  BY <1>1, <1>2, <1>5 DEF Leases, Running, Owns, Worker
<1>6. CASE Snapshot(j)
  <2>1. /\ pc[j] = "snapshot" /\ pc'[j] = "toSubmitting" /\ UNCHANGED <<jobVars, lease>>
        /\ outcome'[j] = IF outcome[j] = "none" THEN "baseline_captured" ELSE outcome[j]
    BY <1>1, <1>3, <1>6, MoveAt
    DEF Snapshot, At, CaptureBaseline, TypeInv, StoreTypeOK
  <2>2. status'[j] \in {"queued", "failed"} /\ status'[j] = status[j]
    BY <1>1, <2>1 DEF Place, Before, jobVars
  <2>3. Outcomes(j)'
    BY <1>1, <2>1, <2>2 DEF Outcomes
  <2>4. Leases(j)'
    BY <1>3, <1>5, <2>1
  <2>5. Draining(j)'
    BY <2>2 DEF Draining
  <2> QED
    BY <2>3, <2>4, <2>5 DEF Drained
<1>7. CASE ToSubmitting(j)
  <2>1. pc[j] = "toSubmitting" /\ UNCHANGED <<outcome, lease>>
    BY <1>7 DEF ToSubmitting, At, submissionVars
  <2>2. CASE Goto(j, "failQueued") /\ UNCHANGED jobVars
    <3>1. pc'[j] = "failQueued"
      BY <1>1, <1>3, <2>2, MoveAt DEF Goto
    <3> QED
      BY <1>2, <1>3, <2>1, <2>2, <3>1, OutOfSubmission DEF jobVars
  <2>3. CASE /\ CanTransition(j, {"queued"}, "submitting")
             /\ Transition(j, "submitting") /\ Goto(j, "markSubmitting")
    <3>1. pc'[j] = "markSubmitting" /\ status'[j] = "submitting" /\ status[j] = "queued"
      BY <1>1, <1>3, <2>3, MoveAt, TransitionAt DEF Goto, CanTransition
    <3>2. Outcomes(j)'
      BY <1>1, <2>1, <3>1 DEF Outcomes
    <3> QED
      BY <1>3, <1>5, <2>1, <3>1, <3>2 DEF Drained, Draining, InSubmission
  <2> QED
    BY <1>7, <2>2, <2>3 DEF ToSubmitting
<1>8. CASE MarkSubmitting(j)
  <2>1. pc[j] = "markSubmitting"
    BY <1>8 DEF MarkSubmitting, At
  <2>2. Fenced(j) /\ CanMark(j, {"baseline_captured"})
    BY <1>1, <1>3, <1>4, <2>1 DEF Outcomes, CanMark
  <2>3. Mark(j, "submitting") /\ Goto(j, "send") /\ UNCHANGED <<jobVars, lease>>
    BY <1>8, <2>2 DEF MarkSubmitting
  <2>4. /\ pc'[j] = "send" /\ outcome'[j] = "submitting"
        /\ status'[j] = "submitting"
    BY <1>1, <1>3, <2>1, <2>3, MoveAt, MarkAt DEF Goto, Phase, InSubmission, jobVars
  <2>5. Outcomes(j)'
    BY <2>4 DEF Outcomes
  <2> QED
    BY <1>3, <1>5, <2>1, <2>3, <2>4, <2>5 DEF Drained, Draining, InSubmission
<1>9. CASE Send(j)
  <2>1. pc[j] = "send"
    BY <1>9 DEF Send, At
  <2>2. Goto(j, "sending") /\ UNCHANGED storeVars
    BY <1>3, <1>4, <1>9, <2>1 DEF Send
  <2>3. /\ pc'[j] = "sending" /\ outcome'[j] = "submitting"
        /\ status'[j] = "submitting" /\ lease' = lease
    BY <1>1, <1>3, <2>1, <2>2, MoveAt
    DEF Goto, Phase, InSubmission, Outcomes, storeVars, jobVars, submissionVars
  <2>4. Outcomes(j)'
    BY <2>3 DEF Outcomes
  <2> QED
    BY <1>3, <1>5, <2>1, <2>3, <2>4 DEF Drained, Draining, InSubmission
<1>10. CASE SendSucceeds(j) \/ SendAmbiguous(j) \/ SendRejected(j)
  <2>1. pc[j] = "sending"
    BY <1>10 DEF SendSucceeds, SendAmbiguous, SendRejected, At
  <2>2. Fenced(j) /\ CanMark(j, {"submitting"})
    BY <1>1, <1>3, <1>4, <2>1 DEF Outcomes, CanMark
  <2>3. /\ Goto(j, "charge") \/ Goto(j, "failReject")
        /\ UNCHANGED <<jobVars, lease>>
    BY <1>10, <2>2 DEF SendSucceeds, SendAmbiguous, SendRejected
  <2>4. pc'[j] \in {"charge", "failReject"} /\ status'[j] = "submitting"
    BY <1>1, <1>3, <2>1, <2>3, MoveAt DEF Goto, Phase, InSubmission, jobVars
  <2> QED
    BY <1>2, <1>3, <2>1, <2>3, <2>4, OutOfSubmission
<1>11. CASE FailReject(j)
  <2>1. pc[j] = "failReject" /\ status[j] = "submitting" /\ budget[j] = "reserved"
    BY <1>1, <1>11 DEF FailReject, At, Phase, InSubmission
  <2>2. CanFailAndRelease(j, {"submitting"})
    BY <2>1 DEF CanFailAndRelease, CanTransition, allowedTransitions
  <2>3. pc'[j] = "idle" /\ status'[j] = "failed"
    BY <1>1, <1>11, <2>2, LeaveAt, TransitionAt DEF FailReject, FailAndRelease
  <2> QED
    BY <1>2, <2>3, OutOfSubmission DEF Leased
<1>12. CASE ChargeSubmitted(j)
  <2>1. pc[j] = "charge" /\ status[j] = "submitting" /\ CanCharge(j)
    BY <1>1, <1>12 DEF ChargeSubmitted, At, Phase, InSubmission, BudgetFits, CanCharge
  <2>2. pc'[j] = "toDiscovering" /\ status'[j] = "submitting" /\ lease' = lease
    BY <1>1, <1>3, <1>12, <2>1, MoveAt DEF ChargeSubmitted, Goto, jobVars
  <2> QED
    BY <1>2, <1>3, <2>1, <2>2, OutOfSubmission
<1>13. CASE ToDiscovering(j)
  <2>1. pc[j] = "toDiscovering" /\ status[j] = "submitting"
    BY <1>1, <1>13 DEF ToDiscovering, At, Phase, InSubmission
  <2>2. Fenced(j) /\ CanTransition(j, {"submitting"}, "discovering")
    BY <1>3, <1>4, <2>1 DEF CanTransition, allowedTransitions
  <2>3. pc'[j] = "discover" /\ status'[j] = "discovering" /\ lease' = lease
    BY <1>1, <1>3, <1>13, <2>2, MoveAt, TransitionAt DEF ToDiscovering, Goto
  <2> QED
    BY <1>2, <1>3, <2>1, <2>3, OutOfSubmission
<1> QED
  BY <1>6, <1>7, <1>8, <1>9, <1>10, <1>11, <1>12, <1>13

\* A runner runs in a live process.
LEMMA RunnerModes ==
  ASSUME TypeInv, NEW j \in Job, Runner(j)
  PROVE  Running
  BY RunnerAlone DEF TypeInv, ProcessTypeOK, Running

\* The other actions of a runner.
LEMMA RunnerDrains ==
  ASSUME DrainInv, RunnersInv', NEW j \in Job, Runner(j)
  PROVE  Drained(j)'
<1>1. /\ TypeInv /\ Row(j) /\ Place(j) /\ Outcomes(j) /\ Leases(j)
      /\ (pc[j] \in InSubmission => status[j] = "submitting")
  BY DEF DrainInv, RunnersInv, SafeInv, RunnerOf, JobInv, Phase, Drained
<1>2. /\ UNCHANGED <<mode, pid>> /\ Running
  BY <1>1, RunnerAlone, RunnerModes DEF processVars
<1>3. /\ {"upload", "awaitLock", "snapshot", "failQueued", "discover", "toUnknown",
          "toProcessing", "waitUnknown", "awaitRediscover", "discoverUnknown", "poll",
          "markTerminal", "deadlineUnknown", "resumeProcessing", "awaitDiscover"}
           \subseteq (Leased \cap Label)
                       \ {"toSubmitting", "markSubmitting", "send", "sending"}
      /\ "idle" \in Label \ Leased
  BY DEF Leased, Label, Await, Sync
<1>4. ASSUME UNCHANGED <<jobVars, outcome>>, pc'[j] = "idle", status[j] # "submitting"
      PROVE  Drained(j)'
  BY <1>2, <1>3, <1>4, OutOfSubmission DEF jobVars
<1>5. ASSUME FailAndRelease(j), pc'[j] = "idle" PROVE Drained(j)'
  <2>1. status'[j] = "failed"
    BY <1>1, <1>5, TransitionAt DEF FailAndRelease
  <2> QED
    BY <1>2, <1>3, <1>5, <2>1, OutOfSubmission
<1>6. CASE StartRunner(j) \/ ResumeQueued(j)
  <2>1. /\ pc'[j] = "upload" /\ lease' = Acquired(j, Worker)
        /\ UNCHANGED <<jobVars, outcome>>
    BY <1>1, <1>3, <1>6, MoveAt DEF StartRunner, ResumeQueued, Goto, submissionVars
  <2> QED
    BY <1>2, <1>3, <2>1, OutOfSubmission DEF jobVars
<1>7. CASE PrepareFails(j) \/ StartRefused(j) \/ ResumeQueuedFails(j)
  <2>1. pc'[j] = "idle" /\ status[j] \in {"queued", "failed"}
    BY <1>1, <1>3, <1>7, LeaveAt, MoveAt
    DEF PrepareFails, StartRefused, ResumeQueuedFails, At, Place, Before
  <2> QED
    BY <1>4, <1>5, <1>7, <2>1
    DEF PrepareFails, StartRefused, ResumeQueuedFails, submissionVars
<1>8. CASE Upload(j) \/ TakeDiscoveryLock(j) \/ SnapshotFails(j)
  <2>1. /\ pc[j] \in {"upload", "awaitLock", "snapshot"}
        /\ pc'[j] \in {"awaitLock", "failQueued", "snapshot"} /\ UNCHANGED storeVars
    BY <1>1, <1>3, <1>8, MoveAt DEF Upload, TakeDiscoveryLock, SnapshotFails, At, Goto
  <2> QED
    BY <1>2, <1>3, <2>1, OutOfSubmission DEF storeVars, jobVars, submissionVars
<1>9. CASE FailQueued(j)
  <2>1. pc'[j] = "idle" /\ status[j] \in {"queued", "failed"}
    BY <1>1, <1>9, LeaveAt DEF FailQueued, At, Place, Before
  <2> QED
    BY <1>4, <1>5, <1>9, <2>1 DEF FailQueued, submissionVars
<1>10. CASE RunPostSubmit(j) \/ ResumeProcessing(j) \/ ResumeDiscovery(j)
  <2>1. PICK t \in Job :
          \/ DiscoverUnique(j, t) \/ RediscoverUnique(j, t)
          \/ DiscoverNotUnique(j) \/ DiscoverFails(j) \/ ToUnknown(j)
          \/ ToProcessing(j) \/ RetryDiscovery(j) \/ Rediscover(j)
          \/ RediscoverNothing(j) \/ GiveUpUnknown(j) \/ PollSettles(j)
          \/ MarkTerminal(j) \/ PollDeadline(j) \/ DeadlineUnknown(j)
          \/ ResumeProcessing(j) \/ ResumeDiscovery(j)
    BY <1>10 DEF RunPostSubmit
  <2>2. /\ pc[j] \in Leased /\ pc[j] \notin Before \cup InSubmission \cup {"resume"}
        /\ pc[j] # "idle"
    BY <1>3, <2>1
    DEF DiscoverUnique, RediscoverUnique, DiscoverNotUnique, DiscoverFails, ToUnknown,
        ToProcessing, RetryDiscovery, Rediscover, RediscoverNothing, GiveUpUnknown,
        PollSettles, MarkTerminal, PollDeadline, DeadlineUnknown, ResumeProcessing,
        ResumeDiscovery, At, Before, InSubmission
  <2>3. status[j] \in Followed \cup Terminal
    <3>1. pc[j] \in Unidentified \cup {"awaitDiscover", "discover", "toUnknown",
            "toProcessing", "resumeProcessing", "poll", "deadlineUnknown",
            "markTerminal"}
      BY <2>2, Places DEF DrainInv
    <3> QED
      BY <1>1, <3>1 DEF Place, Followed, Terminal
  <2>4. \/ pc'[j] = "idle"
        \/ /\ pc'[j] \in {"toUnknown", "toProcessing", "waitUnknown", "awaitRediscover",
                          "discoverUnknown", "poll", "markTerminal", "deadlineUnknown",
                          "discover"}
           /\ lease' = lease
    <3>1. ASSUME Abandon(j) PROVE pc'[j] = "idle"
      BY <1>1, <3>1, LeaveAt DEF Abandon
    <3>2. ASSUME NEW keeps, Leave(j, keeps) PROVE pc'[j] = "idle"
      BY <1>1, <3>2, LeaveAt
    <3>3. ASSUME NEW l \in {"toUnknown", "toProcessing", "waitUnknown",
                          "awaitRediscover", "discoverUnknown", "poll", "markTerminal",
                          "deadlineUnknown", "discover"},
                 MoveTo(j, l) \/ Goto(j, l)
          PROVE  pc'[j] = l
      BY <1>1, <1>3, <3>3, MoveAt DEF Goto
    <3>4. CASE DiscoverUnique(j, t) \/ RediscoverUnique(j, t)
      BY <3>1, <3>2, <3>3, <3>4
      DEF DiscoverUnique, RediscoverUnique, Correlating, storeVars
    <3>5. CASE DiscoverNotUnique(j) \/ DiscoverFails(j) \/ ToUnknown(j) \/ ToProcessing(j)
      BY <3>1, <3>3, <3>5
      DEF DiscoverNotUnique, DiscoverFails, ToUnknown, PersistUnknown, ToProcessing,
          storeVars
    <3>6. CASE RetryDiscovery(j) \/ Rediscover(j) \/ RediscoverNothing(j) \/ GiveUpUnknown(j)
      BY <3>2, <3>3, <3>6
      DEF RetryDiscovery, Rediscover, RediscoverNothing, GiveUpUnknown, storeVars
    <3>7. CASE PollSettles(j) \/ MarkTerminal(j) \/ PollDeadline(j) \/ DeadlineUnknown(j)
      BY <3>1, <3>2, <3>3, <3>7
      DEF PollSettles, MarkTerminal, PollDeadline, DeadlineUnknown
    <3>8. CASE ResumeProcessing(j) \/ ResumeDiscovery(j)
      BY <3>1, <3>3, <3>8 DEF ResumeProcessing, ResumeDiscovery, storeVars
    <3> QED
      BY <2>1, <3>4, <3>5, <3>6, <3>7, <3>8
  <2>5. status'[j] \in Followed \cup Terminal
    <3>1. \/ UNCHANGED jobVars
          \/ \E to \in {"processing", "unknown", "completed", "failed"} : Transition(j, to)
      BY <2>1
      DEF DiscoverUnique, RediscoverUnique, Correlating, DiscoverNotUnique,
          DiscoverFails, ToUnknown, PersistUnknown, ToProcessing, RetryDiscovery,
          Rediscover, RediscoverNothing, GiveUpUnknown, PollSettles, MarkTerminal,
          PollDeadline, DeadlineUnknown, ResumeProcessing, ResumeDiscovery, Abandon,
          storeVars, Terminal
    <3> QED
      BY <1>1, <2>3, <3>1, TransitionAt DEF jobVars, Followed, Terminal
  <2>6. status'[j] \notin {"absent", "queued", "submitting"}
    BY <2>5 DEF Followed, Terminal
  <2>7. /\ pc'[j] \notin {"toSubmitting", "markSubmitting", "send", "sending"}
        /\ pc'[j] \in Leased => lease' = lease
    BY <1>3, <2>4
  <2> QED
    BY <1>2, <2>2, <2>6, <2>7, OutOfSubmission
<1>11. CASE ResumeRefused(j) \/ Resume(j)
  <2>1. /\ pc[j] \in {"resume", "resumeQueued"} /\ UNCHANGED <<jobVars, outcome>>
        /\ status[j] # "submitting"
    BY <1>1, <1>11
    DEF ResumeRefused, Resume, At, Place, Before, Followed, submissionVars
  <2>2. \/ pc'[j] = "idle"
        \/ /\ pc'[j] \in {"poll", "resumeProcessing", "waitUnknown", "awaitDiscover"}
           /\ lease' = Acquired(j, Worker)
    BY <1>1, <1>3, <1>11, LeaveAt, MoveAt DEF ResumeRefused, Resume, Goto
  <2> QED
    BY <1>2, <1>3, <1>4, <2>1, <2>2, OutOfSubmission DEF jobVars
<1>12. CASE StopRunner(j)
  <2>1. /\ pc'[j] = "idle" /\ UNCHANGED <<jobVars, outcome>>
        /\ pc[j] \in Abortable
    BY <1>1, <1>12, LeaveAt DEF StopRunner, submissionVars
  <2>2. status[j] # "submitting"
    BY <1>1, <2>1 DEF Abortable, Place, Unidentified, Followed
  <2> QED
    BY <1>4, <2>1, <2>2
<1> QED
  BY <1>6, <1>7, <1>8, <1>9, <1>10, <1>11, <1>12, SubmissionDrains
  DEF Runner, RunInitial, RunRecovered

\* The row of a job moves on while its runner, its evidence and its lease stay.
LEMMA RowDrained ==
  ASSUME NEW k \in Job, Drained(k), pc'[k] = pc[k],
         outcome'[k] = outcome[k] \/ (pc[k] = "idle" /\ status[k] \notin {"absent", "queued"}),
         lease'[k] = lease[k] \/ pc[k] \notin Leased,
         status'[k] = status[k] \/ status'[k] \notin {"absent", "queued", "submitting"},
         UNCHANGED <<mode, pid, todo>>
  PROVE  Drained(k)'
<1>1. Outcomes(k)'
  BY DEF Drained, Outcomes
<1>2. Leases(k)' /\ Draining(k)'
  BY DEF Drained, Leases, Draining, Running, Owns, Worker
<1> QED
  BY <1>1, <1>2 DEF Drained

\* The recovery takes every job out of its submission.
LEMMA RecoverDrains ==
  ASSUME DrainInv, NEW j \in Job, Recover(j)
  PROVE  \A k \in Job : Drained(k)'
<1>1. TypeInv /\ RunnersInv
  BY DEF DrainInv, RunnersInv, SafeInv
<1>2. /\ Recovering(j) /\ pc[j] = "idle" /\ mode = "boot" /\ mode' = "boot"
      /\ todo' = todo \ {j} /\ UNCHANGED <<pid, outcome, lease>>
  BY <1>1
  DEF Recover, RecoverSettled, RecoverJob, RecoverExpired, RecoverUnavailable,
      RecoverQueued, Recovering, RunnersInv, SafeInv, RecoveredFirst, submissionVars
<1>3. {"resume", "resumeQueued"} \subseteq Label
  BY DEF Label, Await
<1>4. /\ \A k \in Job \ {j} : pc'[k] = pc[k] /\ status'[k] = status[k]
      /\ pc'[j] \in {"idle", "resume", "resumeQueued"}
      /\ status'[j] = status[j] \/ status'[j] \in {"discovering", "unknown"}
      /\ status'[j] # "submitting"
  <2>1. /\ \A k \in Job \ {j} : pc'[k] = pc[k]
        /\ pc'[j] \in {"idle", "resume", "resumeQueued"}
    BY <1>1, <1>2, <1>3, MoveAt
    DEF Recover, RecoverSettled, RecoverJob, RecoverExpired, RecoverUnavailable,
        RecoverQueued
  <2>2. /\ \A k \in Job \ {j} : status'[k] = status[k]
        /\ status'[j] = status[j] \/ status'[j] \in {"discovering", "unknown"}
        /\ status'[j] # "submitting"
    BY <1>1, TransitionAt
    DEF Recover, RecoverSettled, RecoverJob, RecoverExpired, RecoverUnavailable,
        RecoverQueued, InProgress
  <2> QED
    BY <2>1, <2>2
<1>5. ASSUME NEW k \in Job \ {j} PROVE Drained(k)'
  <2>1. Outcomes(k)'
    BY <1>2, <1>4 DEF DrainInv, Drained, Outcomes
  <2>2. Leases(k)' /\ Draining(k)'
    BY <1>2, <1>4 DEF DrainInv, Drained, Leases, Draining, Running, Owns, Worker
  <2> QED
    BY <2>1, <2>2 DEF Drained
<1>6. Drained(j)'
  <2>1. Outcomes(j)'
    BY <1>2, <1>4 DEF DrainInv, Drained, Outcomes
  <2>2. Leases(j)' /\ Draining(j)'
    BY <1>4 DEF Leases, Draining, Leased
  <2> QED
    BY <2>1, <2>2 DEF Drained
<1> QED
  BY <1>5, <1>6

\* A start puts every job that is submitting on the list of the recovery.
LEMMA LifecycleDrains ==
  ASSUME DrainInv, Lifecycle
  PROVE  \A k \in Job : Drained(k)'
<1> TAKE k \in Job
<1>1. UNCHANGED <<status, outcome, lease>>
  BY DEF Lifecycle, Start, BootDone, BeginShutdown, StopPollers, CloseProcess, Kill,
         GoDown, storeVars, jobVars, submissionVars
<1>2. CASE \E p \in Pid : Start(p)
  <2>1. /\ mode' = "boot" /\ todo' = Recoverable /\ pc' = pc /\ pc[k] = "idle"
    BY <1>2 DEF Start, runnerVars, DrainInv, RunnersInv, SafeInv, RecoveredFirst
  <2>2. Outcomes(k)'
    BY <1>1, <2>1 DEF DrainInv, Drained, Outcomes
  <2>3. Leases(k)' /\ Draining(k)'
    BY <1>1, <2>1 DEF Leases, Leased, Draining, Recoverable
  <2> QED
    BY <2>2, <2>3 DEF Drained
<1>3. CASE BootDone \/ BeginShutdown \/ StopPollers
  <2>1. Running' /\ (mode # "boot" => Running)
    BY <1>3 DEF BootDone, BeginShutdown, StopPollers, Running
  <2>2. UNCHANGED <<pc, pid>>
    BY <1>3 DEF BootDone, BeginShutdown, StopPollers, runnerVars
  <2>3. Outcomes(k)'
    BY <1>1, <2>2 DEF DrainInv, Drained, Outcomes
  <2>4. Leases(k)'
    BY <1>1, <2>1, <2>2 DEF DrainInv, Drained, Leases, Owns, Worker
  <2>5. Draining(k)'
    BY <1>1, <1>3, <2>2 DEF DrainInv, Drained, Draining, BootDone, BeginShutdown,
                            StopPollers
  <2> QED
    BY <2>3, <2>4, <2>5 DEF Drained
<1>4. CASE GoDown
  <2>1. pc'[k] = "idle" /\ mode' = "down"
    BY <1>4 DEF GoDown
  <2>2. Outcomes(k)'
    BY <1>1, <2>1 DEF DrainInv, Drained, Outcomes
  <2> QED
    BY <2>1, <2>2 DEF Drained, Leases, Leased, Draining
<1> QED
  BY <1>2, <1>3, <1>4 DEF Lifecycle, CloseProcess, Kill

\* The reconciler writes where no runner is.
LEMMA ReconcileDrains ==
  ASSUME DrainInv, Reconcile
  PROVE  \A k \in Job : Drained(k)'
<1>1. TypeInv /\ RunnersInv
  BY DEF DrainInv, RunnersInv, SafeInv
<1>2. UNCHANGED <<pc, mode, pid, todo>>
  BY DEF Reconcile, BeginScan, SkipDue, TakeDue, DeferUnavailable, AcquireDue,
         ReconcilePoll, ReconcilePollFails, ReconcilePollEmpty,
         Settle, Defer, DeferFrom, MarkDeferred,
         MarkDeferredFrom, LastDefer, MarkLastDeferred, RAt, processVars, runnerVars
<1>3. "idle" \notin Leased
  BY DEF Leased
<1>4. CASE BeginScan
  BY <1>2, <1>4, SameDrained
  DEF BeginScan, DrainInv, storeVars, jobVars, submissionVars
<1>5. ASSUME NEW j \in Job, SkipDue(j) \/ TakeDue(j) \/ DeferUnavailable(j)
      PROVE  \A k \in Job : Drained(k)'
  <2>1. pc[j] = "idle"
    BY <1>1, <1>5
    DEF SkipDue, TakeDue, DeferUnavailable, AcquireDue, RunnersInv, ScanApart
  <2>2. UNCHANGED <<status, outcome>>
    BY <1>5 DEF SkipDue, TakeDue, DeferUnavailable, AcquireDue, storeVars, jobVars,
                submissionVars
  <2>3. \A k \in Job \ {j} : lease'[k] = lease[k]
    BY <1>1, <1>5, OtherLeases DEF SkipDue, TakeDue, DeferUnavailable, AcquireDue,
                                   storeVars
  <2> QED
    BY <1>2, <1>3, <2>1, <2>2, <2>3, RowDrained DEF DrainInv
<1>6. CASE \/ ReconcilePoll \/ ReconcilePollFails \/ ReconcilePollEmpty \/ Settle
           \/ Defer \/ MarkDeferred \/ LastDefer \/ MarkLastDeferred
  <2>1. PICK j \in Job : j = rjob
    BY <1>1, <1>6 DEF ReconcilePoll, ReconcilePollFails, ReconcilePollEmpty,
                Settle, Defer, DeferFrom,
                MarkDeferred, MarkDeferredFrom, LastDefer, MarkLastDeferred, RAt,
                TypeInv, ReconcilerInv
  <2>2. pc[j] = "idle"
    BY <1>1, <2>1 DEF RunnersInv, ScanApart
  <2>3. \A k \in Job \ {j} : lease'[k] = lease[k]
    <3>1. lease' = lease \/ lease' = Released(j, Reconciler)
      BY <1>6, <2>1
      DEF ReconcilePoll, ReconcilePollFails, ReconcilePollEmpty, Settle, Defer,
          DeferFrom, MarkDeferred, MarkDeferredFrom, LastDefer, MarkLastDeferred, Catch,
          NextDue, LeaveScan
    <3> QED
      BY <1>1, <3>1, OtherLeases
  <2>4. \/ outcome' = outcome
        \/ \E to : Mark(j, to) /\ CanMark(j, ProviderOpen)
    BY <1>6, <2>1
    DEF ReconcilePoll, ReconcilePollFails, ReconcilePollEmpty, Settle, Defer,
        DeferFrom, MarkDeferred, MarkDeferredFrom, LastDefer, MarkLastDeferred,
        submissionVars
  <2>5. /\ \A k \in Job \ {j} : outcome'[k] = outcome[k]
        /\ outcome'[j] = outcome[j] \/ status[j] \notin {"absent", "queued"}
    <3>1. CanMark(j, ProviderOpen) => status[j] \notin {"absent", "queued"}
      BY DEF CanMark, ProviderOpen, DrainInv, Drained, Outcomes
    <3> QED
      BY <1>1, <2>4, <3>1, OtherLeases
  <2>6. \/ status' = status
        \/ \E to \in {"processing", "unknown", "completed", "failed"} : Transition(j, to)
    BY <1>6, <2>1
    DEF ReconcilePoll, ReconcilePollFails, ReconcilePollEmpty, Settle, Defer,
        DeferFrom, MarkDeferred, MarkDeferredFrom, LastDefer, MarkLastDeferred,
        jobVars, Terminal
  <2>7. \A k \in Job : \/ status'[k] = status[k]
                       \/ status'[k] \notin {"absent", "queued", "submitting"}
    BY <1>1, <2>6, TransitionAt
  <2> QED
    BY <1>2, <1>3, <2>2, <2>3, <2>5, <2>7, RowDrained DEF DrainInv
<1> QED
  BY <1>4, <1>5, <1>6 DEF Reconcile

\* Without stalls a lease row lapses only when its holder is gone.
LEMMA EnvironmentDrains ==
  ASSUME DrainInv, Environment, ~AllowStall
  PROVE  \A k \in Job : Drained(k)'
<1>1. TypeInv /\ RunnersInv
  BY DEF DrainInv, RunnersInv, SafeInv
<1> PICK j \in Job :
      \/ Create(j) \/ ClientCancels(j)
      \/ \E action \in {"charge", "release"} : OperatorResolves(j, action)
      \/ HoldExpires(j) \/ ReconcileComesDue(j) \/ CapacitySweep(j) \/ Lapse(j)
      \/ ProviderAccepts(j) \/ ProviderLists(j)
  BY DEF Environment
<1>2. CASE Create(j)
  <2>1. /\ \A k \in Job : pc'[k] = IF k = j THEN "prepare" ELSE pc[k]
        /\ \A k \in Job : status'[k] = IF k = j THEN "queued" ELSE status[k]
        /\ UNCHANGED <<mode, pid, todo, outcome, lease>> /\ status[j] = "absent"
    BY <1>1, <1>2, MoveAt
    DEF Create, ReserveOrGet, Label, Await, TypeInv, StoreTypeOK, submissionVars,
        processVars
  <2>2. Drained(j)'
    <3>1. Outcomes(j)'
      BY <2>1 DEF DrainInv, Drained, Outcomes
    <3> QED
      BY <2>1, <3>1 DEF Drained, Leases, Leased, Draining
  <2> QED
    BY <2>1, <2>2, SameDrained DEF DrainInv
<1>3. CASE \/ ClientCancels(j)
           \/ \E action \in {"charge", "release"} : OperatorResolves(j, action)
  <2>1. /\ Transition(j, "failed")
        /\ UNCHANGED <<mode, pid, todo, outcome, lease, pc>>
    BY <1>3
    DEF ClientCancels, CancelQueued, OperatorResolves, ResolveUnknown, submissionVars,
        processVars, runnerVars
  <2> QED
    BY <1>1, <2>1, TransitionAt, RowDrained DEF DrainInv
<1>4. CASE \/ HoldExpires(j) \/ ReconcileComesDue(j) \/ CapacitySweep(j)
           \/ ProviderAccepts(j) \/ ProviderLists(j)
  <2>1. UNCHANGED <<mode, pid, todo, outcome, lease, pc, status>>
    BY <1>4
    DEF HoldExpires, ReconcileComesDue, CapacitySweep, ProviderAccepts, ProviderLists,
        storeVars, jobVars, submissionVars, processVars, runnerVars
  <2> QED
    BY <2>1, SameDrained DEF DrainInv
<1>5. CASE Lapse(j)
  <2>1. /\ UNCHANGED <<mode, pid, todo, outcome, pc, status>>
        /\ ~Heartbeats(j)
        /\ \A k \in Job \ {j} : lease'[k] = lease[k]
    BY <1>1, <1>5
    DEF Lapse, LeaseLapses, TypeInv, StoreTypeOK, jobVars, submissionVars, processVars,
        runnerVars
  <2>2. pc[j] \notin Leased
    BY <2>1 DEF Heartbeats, DrainInv, Drained, Leases, Owns, Leased
  <2> QED
    BY <2>1, <2>2, RowDrained DEF DrainInv
<1> QED
  BY <1>2, <1>3, <1>4, <1>5

\* The strengthened invariant of a process that is never stalled is inductive.
LEMMA NextDrains ==
  ASSUME ~AllowStall
  PROVE  DrainInv /\ [Next]_vars => DrainInv'
<1> SUFFICES ASSUME DrainInv, [Next]_vars PROVE DrainInv'
  OBVIOUS
<1>1. RunnersInv'
  BY NextRuns DEF DrainInv
<1>2. ASSUME NEW j \in Job, Runner(j) PROVE \A k \in Job : Drained(k)'
  <2>1. Drained(j)'
    BY <1>1, <1>2, RunnerDrains
  <2>2. /\ \A k \in Job \ {j} : Same(k) /\ lease'[k] = lease[k] /\ outcome'[k] = outcome[k]
        /\ UNCHANGED processVars
    BY <1>2, RunnerAlone, RunnerLeavesLeases DEF DrainInv, RunnersInv, SafeInv
  <2> QED
    BY <2>1, <2>2, SameDrained DEF DrainInv, Same, processVars
<1>3. CASE UNCHANGED vars
  <2>1. UNCHANGED <<pc, status, outcome, lease, mode, pid, todo>>
    BY <1>3
    DEF vars, storeVars, jobVars, submissionVars, processVars, runnerVars
  <2> QED
    BY <1>1, <2>1, SameDrained DEF DrainInv
<1> QED
  BY <1>1, <1>2, <1>3, RecoverDrains, LifecycleDrains, ReconcileDrains,
     EnvironmentDrains
  DEF Next, DrainInv

\* A process that is shut down, and never stalled, leaves no job between its
\* baseline and the end of its submission: it closes when no runner is in a
\* critical section, and no runner leaves one before the job is past it.
THEOREM ShutdownDrains ==
  ASSUME ~AllowStall
  PROVE  Spec => ShutdownDrainsSubmissions
<1>1. Init => DrainInv
  <2> SUFFICES ASSUME Init PROVE DrainInv
    OBVIOUS
  <2>1. \A j \in Job : Drained(j)
    BY DEF Init, StoreInit, MemoryInit, Drained, Outcomes, Leases, Leased, Draining
  <2> QED
    BY <2>1, InitRuns DEF DrainInv
<1>2. DrainInv => (CloseProcess => \A j \in Job : status[j] # "submitting")
  BY DEF DrainInv, Drained, Draining, CloseProcess, InSubmission
<1> QED
  BY <1>1, <1>2, NextDrains, PTL DEF Spec, ShutdownDrainsSubmissions
=============================================================================
