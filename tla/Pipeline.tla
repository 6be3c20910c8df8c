------------------------------ MODULE Pipeline ------------------------------
(***************************************************************************)
(* The worker pipeline of the PostgreSQL build.  Any number of gateways    *)
(* tick on their own; a tick goes through the queue, through the active    *)
(* jobs and through the unknown ones, one job after the other.  Work on a  *)
(* job is done under a lease of its row, and the queue and the unknown     *)
(* jobs are claimed before; both run out after a minute, and nobody        *)
(* prolongs them.  What a worker throws ends the tick and, since nobody    *)
(* catches it, the process.                                                *)
(*                                                                         *)
(* Claims and leases bear a random token: the name of a gateway stands for *)
(* the token it has drawn last, since it works on one job at a time.       *)
(***************************************************************************)
EXTENDS Naturals, FiniteSets

CONSTANTS
  Order,      \* jobs; the task a job's request makes bears its name
  Elsewhere,  \* tasks bound to other jobs, whose assets may match
  Gateway,    \* processes
  Nobody,
  MaxFaults   \* bound: kills and stalls beyond a minute

VARIABLES
  stage,      \* jobs.status
  due,        \* reconcile_after: never, later, or now
  archive,    \* jobs whose archive_status is complete
  points,     \* budget_entries.state
  evidence,   \* provider_submissions.outcome
  bound,      \* provider_correlations: the task of a job
  claim,      \* recovery_claim_token and whether it still counts
  lease,      \* job_worker_leases, likewise
  gateway,    \* where a process is in its tick
  flight,     \* requests the provider may still make a task of
  made        \* tasks of the provider

VARIABLES
  faults,
  sent,       \* history: how often a job's paid request was sent
  disowned    \* history: jobs whose points a queue worker gave back, until it
              \* has ended them in the queue

rowVars == <<stage, due, archive, points>>
evidenceVars == <<evidence, bound>>
providerVars == <<flight, made, sent>>
pipelineVars == <<rowVars, evidenceVars, claim, lease, gateway, providerVars,
                  faults, disowned>>

ASSUME PipelineAssumption ==
  /\ Order # {} /\ Order \cap Elsewhere = {}
  /\ Nobody \notin Gateway \cup Order \cup Elsewhere
  /\ MaxFaults \in Nat

-----------------------------------------------------------------------------

JobStatus == {"unborn", "queued", "submitting", "discovering", "processing",
              "unknown", "completed", "failed"}
Evidence == {"none", "baseline_captured", "submitting", "submitted",
             "submit_rejected", "submission_ambiguous", "correlation_ambiguous",
             "correlated", "provider_status_unknown", "provider_succeeded",
             "provider_failed"}
Reply == {"none", "accepted", "rejected", "ambiguous", "notFound",
           "processing", "completed", "failed", "unavailable"}

\* Between these labels others run: each is an await.
InQueue     == {"baseline", "leaving", "undo", "dropping", "queueDone"}
InSubmit    == {"intent", "send", "answer", "markAnswer", "settle", "moveOn"}
InDiscovery == {"discover", "markLost", "lost", "bind", "correlated"}
InPoll      == {"poll", "markBlind", "blind", "ended", "markEnd"}
InReconcile == {"repoll", "reended", "remark", "reconcileDone"}
Label == {"down", "idle", "queue", "active", "reconcile", "archive"}
           \cup InQueue \cup InSubmit \cup InDiscovery \cup InPoll \cup InReconcile

Hold  == [by : Gateway \cup {Nobody}, live : BOOLEAN]
Process == [pc : Label, todo : SUBSET (Order \X JobStatus), at : Order,
            heard : Reply, task : Order \cup Elsewhere \cup {Nobody}]

Free == [by |-> Nobody, live |-> FALSE]
Off  == [pc |-> "down", todo |-> {}, at |-> CHOOSE j \in Order : TRUE,
         heard |-> "none", task |-> Nobody]

PipelineTypeOK ==
  /\ stage \in [Order -> JobStatus] /\ due \in [Order -> {"never", "later", "now"}]
  /\ archive \subseteq Order
  /\ points \in [Order -> {"none", "reserved", "charged", "released"}]
  /\ evidence \in [Order -> Evidence]
  /\ bound \in [Order -> Order \cup Elsewhere \cup {Nobody}]
  /\ claim \in [Order -> Hold] /\ lease \in [Order -> Hold]
  /\ gateway \in [Gateway -> Process]
  /\ flight \subseteq Order /\ made \subseteq Order
  /\ faults \in 0 .. MaxFaults /\ sent \in [Order -> Nat] /\ disowned \subseteq Order

PipelineInit ==
  /\ stage = [j \in Order |-> "unborn"] /\ due = [j \in Order |-> "never"]
  /\ archive = {} /\ points = [j \in Order |-> "none"]
  /\ evidence = [j \in Order |-> "none"] /\ bound = [j \in Order |-> Nobody]
  /\ claim = [j \in Order |-> Free] /\ lease = [j \in Order |-> Free]
  /\ gateway = [g \in Gateway |-> Off]
  /\ flight = {} /\ made = {}
  /\ faults = 0 /\ sent = [j \in Order |-> 0] /\ disowned = {}

-----------------------------------------------------------------------------
(* Tables. *)

Vacant(h) == h.by = Nobody \/ ~h.live

\* The fence of a worker's write.  The queue worker's has the time at which the
\* lease was acquired, so that it only fails when another has taken it.
Job(g)   == gateway[g].at
Has(g)   == lease[Job(g)].by = g
Owns(g)  == Has(g) /\ lease[Job(g)].live

\* Release of a lease or a claim by its token.
Without(table, g, j) == IF table[j].by = g THEN [table EXCEPT ![j] = Free] ELSE table
With(table, g, j)    == [table EXCEPT ![j] = [by |-> g, live |-> TRUE]]

StepsTo(g, label) == gateway' = [gateway EXCEPT ![g].pc = label]

\* The job is done with: the lease goes back, and the loop goes on.
LetsGo(g, label) ==
  /\ lease' = Without(lease, g, Job(g))
  /\ gateway' = [gateway EXCEPT ![g].pc = label, ![g].heard = "none",
                                ![g].task = Nobody]

\* An exception nobody catches: `finally` gives the lease back, and the rejected
\* promise of the tick ends the process.
Dies(g) ==
  /\ lease' = Without(lease, g, Job(g))
  /\ gateway' = [gateway EXCEPT ![g] = Off]

\* transition(): fenced, and from the expected status.  It clears reconcile_after
\* unless it is given one.
CanMove(g, from) == Owns(g) /\ stage[Job(g)] \in from
Moves(g, to, when) ==
  /\ stage' = [stage EXCEPT ![Job(g)] = to]
  /\ due' = [due EXCEPT ![Job(g)] = when]

\* markOutcome(): fenced, and from one of the expected outcomes.
CanMark(g, from) == Owns(g) /\ evidence[Job(g)] \in from
Marks(g, to) == evidence' = [evidence EXCEPT ![Job(g)] = to]

\* reserve(): job and reservation in one transaction.
AdmitOrder(j) ==
  /\ stage[j] = "unborn"
  /\ stage' = [stage EXCEPT ![j] = "queued"]
  /\ points' = [points EXCEPT ![j] = "reserved"]
  /\ UNCHANGED <<due, archive, evidenceVars, claim, lease, gateway, providerVars,
                 faults, disowned>>

-----------------------------------------------------------------------------
(* The queue worker. *)

\* Mutant: a claim is only free when it was released.
Released(j) == claim[j].by = Nobody

Claimable(j) == Vacant(claim[j])

Claims(g, jobs, label) ==
  /\ claim' = [j \in Order |-> IF j \in jobs THEN [by |-> g, live |-> TRUE]
                               ELSE claim[j]]
  /\ gateway' = [gateway EXCEPT ![g].pc = label,
                                ![g].todo = {<<j, stage[j]>> : j \in jobs}]

StartGateway(g) ==
  /\ gateway[g].pc = "down" /\ StepsTo(g, "idle")
  /\ UNCHANGED <<rowVars, evidenceVars, claim, lease, providerVars, faults, disowned>>

\* tick(): one at a time in a process.
Ticks(g) ==
  /\ gateway[g].pc = "idle"
  /\ Claims(g, {j \in Order : stage[j] = "queued" /\ Claimable(j)}, "queue")
  /\ UNCHANGED <<rowVars, evidenceVars, lease, providerVars, faults, disowned>>

Takes(g, item, label) ==
  gateway' = [gateway EXCEPT ![g].pc = label, ![g].at = item[1],
                             ![g].todo = @ \ {item}]
Skips(g, item) == gateway' = [gateway EXCEPT ![g].todo = @ \ {item}]

\* A job somebody else has a lease of is left to them.
QueueTakes(g) ==
  /\ gateway[g].pc = "queue"
  /\ \E item \in gateway[g].todo :
       IF Vacant(lease[item[1]])
       THEN /\ lease' = With(lease, g, item[1])
            /\ Takes(g, item, "baseline") /\ UNCHANGED claim
       ELSE /\ claim' = Without(claim, g, item[1])
            /\ Skips(g, item) /\ UNCHANGED lease
  /\ UNCHANGED <<rowVars, evidenceVars, providerVars, faults, disowned>>

\* The asset list cannot be read, or the lease is another's by then.
BaselineFails(g) ==
  /\ gateway[g].pc = "baseline" /\ StepsTo(g, "undo")
  /\ UNCHANGED <<rowVars, evidenceVars, claim, lease, providerVars, faults, disowned>>

CapturesBaseline(g) ==
  /\ gateway[g].pc = "baseline" /\ Has(g)
  /\ evidence' = IF evidence[Job(g)] = "none"
                 THEN [evidence EXCEPT ![Job(g)] = "baseline_captured"] ELSE evidence
  /\ StepsTo(g, "leaving")
  /\ UNCHANGED <<rowVars, bound, claim, lease, providerVars, faults, disowned>>

LeavesQueue(g) ==
  /\ gateway[g].pc = "leaving"
  /\ IF Has(g) /\ stage[Job(g)] = "queued"
     THEN Moves(g, "submitting", "never") /\ StepsTo(g, "queueDone")
     ELSE UNCHANGED <<stage, due>> /\ StepsTo(g, "undo")
  /\ UNCHANGED <<archive, points, evidenceVars, claim, lease, providerVars, faults,
                 disowned>>

\* The points go back whoever holds the job by now; settled points stay.
UndoesReservation(g) ==
  LET j == Job(g)
      back == points[j] = "reserved"
  IN /\ gateway[g].pc = "undo"
     /\ points' = IF back THEN [points EXCEPT ![j] = "released"] ELSE points
     /\ disowned' = IF back THEN disowned \cup {j} ELSE disowned
     /\ StepsTo(g, "dropping")
     /\ UNCHANGED <<stage, due, archive, evidenceVars, claim, lease, providerVars,
                    faults>>

\* "stale worker must not overwrite"
DropsOrder(g) ==
  LET j == Job(g)
      mine == Has(g) /\ stage[j] \in {"queued", "submitting"}
  IN /\ gateway[g].pc = "dropping"
     /\ IF mine THEN Moves(g, "failed", "never") ELSE UNCHANGED <<stage, due>>
     /\ disowned' = IF mine /\ stage[j] = "queued" THEN disowned \ {j} ELSE disowned
     /\ StepsTo(g, "queueDone")
     /\ UNCHANGED <<archive, points, evidenceVars, claim, lease, providerVars, faults>>

QueueDone(g) ==
  /\ gateway[g].pc = "queueDone"
  /\ LetsGo(g, "queue") /\ claim' = Without(claim, g, Job(g))
  /\ UNCHANGED <<rowVars, evidenceVars, providerVars, faults, disowned>>

-----------------------------------------------------------------------------
(* The active jobs, as they were when listed. *)

Active(j) ==
  \/ stage[j] \in {"submitting", "discovering", "processing"}
  \/ stage[j] = "completed" /\ j \notin archive

ListsActive(g) ==
  /\ gateway[g].pc = "queue" /\ gateway[g].todo = {}
  /\ gateway' = [gateway EXCEPT ![g].pc = "active",
                   ![g].todo = {<<j, stage[j]>> : j \in {i \in Order : Active(i)}}]
  /\ UNCHANGED <<rowVars, evidenceVars, claim, lease, providerVars, faults, disowned>>

FirstStep(listed) ==
  CASE listed = "submitting"  -> "intent"
    [] listed = "discovering" -> "discover"
    [] listed = "processing"  -> "poll"
    [] OTHER                  -> "archive"

\* A worker takes the lease and looks at the job's row again.
TakesActive(g) ==
  /\ gateway[g].pc = "active"
  /\ \E item \in gateway[g].todo :
       IF ~Vacant(lease[item[1]])
       THEN Skips(g, item) /\ UNCHANGED lease
       ELSE IF stage[item[1]] # item[2]
            THEN Skips(g, item) /\ lease' = [lease EXCEPT ![item[1]] = Free]
            ELSE Takes(g, item, FirstStep(item[2])) /\ lease' = With(lease, g, item[1])
  /\ UNCHANGED <<rowVars, evidenceVars, claim, providerVars, faults, disowned>>

-----------------------------------------------------------------------------
(* The submit worker. *)

\* Mutant: an intent that has been marked before will do.
UnsentOrMarked == {"baseline_captured", "submitting"}

Unsent == {"baseline_captured"}

MarksIntent(g) ==
  /\ gateway[g].pc = "intent"
  /\ IF CanMark(g, Unsent)
     THEN Marks(g, "submitting") /\ StepsTo(g, "send") /\ UNCHANGED lease
     ELSE Dies(g) /\ UNCHANGED evidence
  /\ UNCHANGED <<rowVars, bound, claim, providerVars, faults, disowned>>

\* submitOnce(): nothing is looked at between the intent and the request.
Sends(g) ==
  /\ gateway[g].pc = "send" /\ StepsTo(g, "answer")
  /\ sent' = [sent EXCEPT ![Job(g)] = @ + 1]
  /\ flight' = flight \cup {Job(g)}
  /\ UNCHANGED <<rowVars, evidenceVars, claim, lease, made, faults, disowned>>

\* The inputs cannot be read or uploaded: this counts as ambiguous, too.
SendFails(g) ==
  /\ gateway[g].pc = "send"
  /\ gateway' = [gateway EXCEPT ![g].pc = "markAnswer", ![g].heard = "ambiguous"]
  /\ UNCHANGED <<rowVars, evidenceVars, claim, lease, providerVars, faults, disowned>>

\* A rejection says that there is no task; without an answer there may be one.
HearsAnswer(g) ==
  /\ gateway[g].pc = "answer"
  /\ \E a \in {"accepted", "rejected", "ambiguous"} :
       /\ a = "accepted" => Job(g) \in made
       /\ a = "rejected" => Job(g) \notin made
       /\ flight' = IF a = "rejected" THEN flight \ {Job(g)} ELSE flight
       /\ gateway' = [gateway EXCEPT ![g].pc = "markAnswer", ![g].heard = a]
  /\ UNCHANGED <<rowVars, evidenceVars, claim, lease, made, sent, faults, disowned>>

OutcomeOf(a) ==
  CASE a = "accepted" -> "submitted" [] a = "rejected" -> "submit_rejected"
    [] OTHER -> "submission_ambiguous"

MarksAnswer(g) ==
  /\ gateway[g].pc = "markAnswer"
  /\ IF CanMark(g, {"submitting"})
     THEN Marks(g, OutcomeOf(gateway[g].heard)) /\ StepsTo(g, "settle") /\ UNCHANGED lease
     ELSE Dies(g) /\ UNCHANGED evidence
  /\ UNCHANGED <<rowVars, bound, claim, providerVars, faults, disowned>>

\* Mutant: the points of a request without an answer go back.
PointsUnlessAnswered(a) == IF a = "accepted" THEN "charged" ELSE "released"

PointsFor(a) == IF a = "rejected" THEN "released" ELSE "charged"

\* Mutant: points that are settled otherwise are left alone.
CanSettleAny(j, to) == TRUE

CanSettle(j, to) == points[j] \in {"reserved", to}

\* charge() or release(), without a fence.
SettlesPoints(g) ==
  LET j == Job(g)
      to == PointsFor(gateway[g].heard)
  IN /\ gateway[g].pc = "settle"
     /\ points' = IF points[j] = "reserved" THEN [points EXCEPT ![j] = to] ELSE points
     /\ IF CanSettle(j, to) THEN StepsTo(g, "moveOn") /\ UNCHANGED lease ELSE Dies(g)
     /\ UNCHANGED <<stage, due, archive, evidenceVars, claim, providerVars, faults,
                    disowned>>

StatusAfter(a) ==
  CASE a = "accepted" -> "discovering" [] a = "rejected" -> "failed"
    [] OTHER -> "unknown"

MovesOn(g) ==
  /\ gateway[g].pc = "moveOn"
  /\ IF CanMove(g, {"submitting"})
     THEN Moves(g, StatusAfter(gateway[g].heard), "never") /\ LetsGo(g, "active")
     ELSE Dies(g) /\ UNCHANGED <<stage, due>>
  /\ UNCHANGED <<archive, points, evidenceVars, claim, providerVars, faults, disowned>>

-----------------------------------------------------------------------------
(* The discovery worker. *)

\* One asset that matches, of this job or of one that looks the same; or none,
\* or several, or no answer.
Discovers(g) ==
  /\ gateway[g].pc = "discover"
  /\ \/ \E t \in (made \cap {Job(g)}) \cup Elsewhere :
          gateway' = [gateway EXCEPT ![g].pc = "bind", ![g].task = t]
     \/ StepsTo(g, "markLost")
  /\ UNCHANGED <<rowVars, evidenceVars, claim, lease, providerVars, faults, disowned>>

MarksLost(g) ==
  /\ gateway[g].pc = "markLost"
  /\ IF CanMark(g, {"submitted"})
     THEN Marks(g, "correlation_ambiguous") /\ StepsTo(g, "lost") /\ UNCHANGED lease
     ELSE Dies(g) /\ UNCHANGED evidence
  /\ UNCHANGED <<rowVars, bound, claim, providerVars, faults, disowned>>

\* Nothing reconciles the job from here: it has no time for it.
GetsLost(g) ==
  /\ gateway[g].pc = "lost"
  /\ IF CanMove(g, {"discovering"})
     THEN Moves(g, "unknown", "never") /\ LetsGo(g, "active")
     ELSE Dies(g) /\ UNCHANGED <<stage, due>>
  /\ UNCHANGED <<archive, points, evidenceVars, claim, providerVars, faults, disowned>>

\* correlate(): a task of another job is recorded as a conflict and thrown.
Binds(g) ==
  LET j == Job(g)
      t == gateway[g].task
      taken == t \in Elsewhere \/ \E i \in Order \ {j} : bound[i] = t
  IN /\ gateway[g].pc = "bind"
     /\ IF Owns(g)
        THEN /\ Marks(g, IF taken THEN "correlation_ambiguous" ELSE "correlated")
             /\ bound' = IF taken \/ bound[j] # Nobody THEN bound
                         ELSE [bound EXCEPT ![j] = t]
        ELSE UNCHANGED evidenceVars
     /\ IF Owns(g) /\ ~taken THEN StepsTo(g, "correlated") /\ UNCHANGED lease ELSE Dies(g)
     /\ UNCHANGED <<rowVars, claim, providerVars, faults, disowned>>

GetsFollowed(g) ==
  /\ gateway[g].pc = "correlated"
  /\ IF CanMove(g, {"discovering"})
     THEN Moves(g, "processing", "never") /\ LetsGo(g, "active")
     ELSE Dies(g) /\ UNCHANGED <<stage, due>>
  /\ UNCHANGED <<archive, points, evidenceVars, claim, providerVars, faults, disowned>>

-----------------------------------------------------------------------------
(* The poll worker. *)

Polls(g) ==
  /\ gateway[g].pc = "poll"
  /\ \/ LetsGo(g, "active")  \* no task is bound, or it runs still
     \/ /\ bound[Job(g)] # Nobody /\ UNCHANGED lease
        /\ \/ StepsTo(g, "markBlind")
           \/ \E a \in {"completed", "failed"} :
                gateway' = [gateway EXCEPT ![g].pc = "ended", ![g].heard = a]
  /\ UNCHANGED <<rowVars, evidenceVars, claim, providerVars, faults, disowned>>

MarksBlind(g) ==
  /\ gateway[g].pc = "markBlind"
  /\ IF CanMark(g, {"correlated"})
     THEN Marks(g, "provider_status_unknown") /\ StepsTo(g, "blind") /\ UNCHANGED lease
     ELSE Dies(g) /\ UNCHANGED evidence
  /\ UNCHANGED <<rowVars, bound, claim, providerVars, faults, disowned>>

GoesBlind(g) ==
  /\ gateway[g].pc = "blind"
  /\ IF CanMove(g, {"processing"})
     THEN Moves(g, "unknown", "later") /\ LetsGo(g, "active")
     ELSE Dies(g) /\ UNCHANGED <<stage, due>>
  /\ UNCHANGED <<archive, points, evidenceVars, claim, providerVars, faults, disowned>>

\* The result comes before the evidence, here and in the reconciliation.
EndsAs(g, label, from, next) ==
  /\ gateway[g].pc = label
  /\ IF CanMove(g, from)
     THEN Moves(g, gateway[g].heard, "never") /\ StepsTo(g, next) /\ UNCHANGED lease
     ELSE Dies(g) /\ UNCHANGED <<stage, due>>
  /\ UNCHANGED <<archive, points, evidenceVars, providerVars, faults, disowned>>

EvidenceOfEnd(a) == IF a = "completed" THEN "provider_succeeded" ELSE "provider_failed"

EndsOrder(g) == EndsAs(g, "ended", {"processing"}, "markEnd") /\ UNCHANGED claim

MarksEnd(g) ==
  /\ gateway[g].pc = "markEnd"
  /\ IF CanMark(g, {"correlated"})
     THEN Marks(g, EvidenceOfEnd(gateway[g].heard)) /\ LetsGo(g, "active")
     ELSE Dies(g) /\ UNCHANGED evidence
  /\ UNCHANGED <<rowVars, bound, claim, providerVars, faults, disowned>>

\* The output is copied and the result replaced; a fetch that fails is thrown.
ArchivesOutput(g) ==
  /\ gateway[g].pc = "archive"
  /\ \/ Dies(g) /\ UNCHANGED archive
     \/ /\ CanMove(g, {"completed"})
        /\ archive' = archive \cup {Job(g)} /\ LetsGo(g, "active")
  /\ UNCHANGED <<stage, due, points, evidenceVars, claim, providerVars, faults,
                 disowned>>

-----------------------------------------------------------------------------
(* The reconciliation worker, and the end of the tick. *)

ClaimsUnknown(g) ==
  /\ gateway[g].pc = "active" /\ gateway[g].todo = {}
  /\ Claims(g, {j \in Order : stage[j] = "unknown" /\ due[j] = "now" /\ Claimable(j)},
            "reconcile")
  /\ UNCHANGED <<rowVars, evidenceVars, lease, providerVars, faults, disowned>>

TakesUnknown(g) ==
  /\ gateway[g].pc = "reconcile"
  /\ \E item \in gateway[g].todo :
       IF Vacant(lease[item[1]])
       THEN /\ lease' = With(lease, g, item[1]) /\ UNCHANGED claim
            /\ Takes(g, item, IF bound[item[1]] = Nobody THEN "reconcileDone" ELSE "repoll")
       ELSE /\ claim' = Without(claim, g, item[1])
            /\ Skips(g, item) /\ UNCHANGED lease
  /\ UNCHANGED <<rowVars, evidenceVars, providerVars, faults, disowned>>

\* An exception here gives the claim back as well.
ClaimGoes(g) ==
  claim' = IF gateway'[g].pc = "down" THEN Without(claim, g, Job(g)) ELSE claim

\* The task runs still, or no answer: the job is looked at again later.
Defers(g) ==
  /\ gateway[g].pc = "repoll"
  /\ IF CanMove(g, {"unknown"})
     THEN Moves(g, "unknown", "later") /\ StepsTo(g, "reconcileDone") /\ UNCHANGED lease
     ELSE Dies(g) /\ UNCHANGED <<stage, due>>
  /\ ClaimGoes(g)
  /\ UNCHANGED <<archive, points, evidenceVars, providerVars, faults, disowned>>

HearsEnd(g) ==
  /\ gateway[g].pc = "repoll"
  /\ \E a \in {"completed", "failed"} :
       gateway' = [gateway EXCEPT ![g].pc = "reended", ![g].heard = a]
  /\ UNCHANGED <<rowVars, evidenceVars, claim, lease, providerVars, faults, disowned>>

EndsUnknown(g) == EndsAs(g, "reended", {"unknown"}, "remark") /\ ClaimGoes(g)

MarksEndOfUnknown(g) ==
  /\ gateway[g].pc = "remark"
  /\ IF CanMark(g, {"provider_status_unknown", "correlated"})
     THEN Marks(g, EvidenceOfEnd(gateway[g].heard)) /\ StepsTo(g, "reconcileDone")
          /\ UNCHANGED lease
     ELSE Dies(g) /\ UNCHANGED evidence
  /\ ClaimGoes(g)
  /\ UNCHANGED <<rowVars, bound, providerVars, faults, disowned>>

ReconcileDone(g) ==
  /\ gateway[g].pc = "reconcileDone"
  /\ LetsGo(g, "reconcile") /\ claim' = Without(claim, g, Job(g))
  /\ UNCHANGED <<rowVars, evidenceVars, providerVars, faults, disowned>>

TickEnds(g) ==
  /\ gateway[g].pc = "reconcile" /\ gateway[g].todo = {} /\ StepsTo(g, "idle")
  /\ UNCHANGED <<rowVars, evidenceVars, claim, lease, providerVars, faults, disowned>>

-----------------------------------------------------------------------------
(* The provider, the clock, and kills. *)

MakesTask(j) ==
  /\ j \in flight /\ flight' = flight \ {j} /\ made' = made \cup {j}
  /\ UNCHANGED <<rowVars, evidenceVars, claim, lease, gateway, sent, faults, disowned>>

\* Does a living process still go by its claim or lease?
ClaimInUse(j) ==
  \E g \in Gateway :
    /\ claim[j].by = g /\ gateway[g].pc \in {"queue", "reconcile"} \cup InQueue \cup InReconcile
    /\ \/ Job(g) = j /\ gateway[g].pc \in InQueue \cup InReconcile
       \/ \E p \in JobStatus : <<j, p>> \in gateway[g].todo
LeaseInUse(j) ==
  \E g \in Gateway :
    /\ lease[j].by = g /\ Job(g) = j
    /\ gateway[g].pc \notin {"down", "idle", "queue", "active", "reconcile"}

\* A minute goes by; for a living holder this is a stall, and bounded.
Stalls(inUse) ==
  IF inUse THEN faults < MaxFaults /\ faults' = faults + 1 ELSE UNCHANGED faults
ClaimRunsOut(j) ==
  /\ claim[j].live /\ claim' = [claim EXCEPT ![j].live = FALSE]
  /\ Stalls(ClaimInUse(j))
  /\ UNCHANGED <<rowVars, evidenceVars, lease, gateway, providerVars, disowned>>
LeaseRunsOut(j) ==
  /\ lease[j].live /\ lease' = [lease EXCEPT ![j].live = FALSE]
  /\ Stalls(LeaseInUse(j))
  /\ UNCHANGED <<rowVars, evidenceVars, claim, gateway, providerVars, disowned>>
ComesDue(j) ==
  /\ due[j] = "later" /\ due' = [due EXCEPT ![j] = "now"]
  /\ UNCHANGED <<stage, archive, points, evidenceVars, claim, lease, gateway,
                 providerVars, faults, disowned>>

KillGateway(g) ==
  /\ gateway[g].pc # "down" /\ faults < MaxFaults
  /\ gateway' = [gateway EXCEPT ![g] = Off] /\ faults' = faults + 1
  /\ UNCHANGED <<rowVars, evidenceVars, claim, lease, providerVars, disowned>>

-----------------------------------------------------------------------------

Works(g) ==
  \/ Ticks(g) \/ QueueTakes(g) \/ BaselineFails(g) \/ CapturesBaseline(g)
  \/ LeavesQueue(g) \/ UndoesReservation(g) \/ DropsOrder(g) \/ QueueDone(g)
  \/ ListsActive(g) \/ TakesActive(g)
  \/ MarksIntent(g) \/ Sends(g) \/ SendFails(g) \/ HearsAnswer(g) \/ MarksAnswer(g)
  \/ SettlesPoints(g) \/ MovesOn(g)
  \/ Discovers(g) \/ MarksLost(g) \/ GetsLost(g) \/ Binds(g) \/ GetsFollowed(g)
  \/ Polls(g) \/ MarksBlind(g) \/ GoesBlind(g) \/ EndsOrder(g) \/ MarksEnd(g)
  \/ ArchivesOutput(g)
  \/ ClaimsUnknown(g) \/ TakesUnknown(g) \/ Defers(g) \/ HearsEnd(g)
  \/ EndsUnknown(g) \/ MarksEndOfUnknown(g) \/ ReconcileDone(g) \/ TickEnds(g)

PipelineNext ==
  \/ \E g \in Gateway : StartGateway(g) \/ Works(g) \/ KillGateway(g)
  \/ \E j \in Order : \/ AdmitOrder(j) \/ MakesTask(j) \/ ClaimRunsOut(j)
                      \/ LeaseRunsOut(j) \/ ComesDue(j)

PipelineSpec == PipelineInit /\ [][PipelineNext]_pipelineVars

-----------------------------------------------------------------------------

\* Whichever worker finds a job, and however many are killed or come late: its
\* paid request is sent once.
PaidOnce == \A j \in Order : sent[j] <= 1

\* Points go back when the provider has no task and cannot make one, but for
\* those a queue worker gave back of a job that it did not end in the queue.
RefundsAreSafe ==
  \A j \in Order : points[j] = "released" /\ j \in flight \cup made => j \in disowned

\* Points and status, written in different transactions by workers that come
\* late, fit: a job that was submitted is charged, and a failed one is settled.
PointsFollowStatus ==
  \A j \in Order :
    /\ stage[j] \in {"discovering", "processing", "unknown", "completed"} =>
         points[j] = "charged"
    /\ stage[j] = "failed" => points[j] # "reserved"

\* Evidence the workers cannot go on from.
Stuck(j) ==
  \/ stage[j] = "submitting" /\ evidence[j] # "baseline_captured"
  \/ stage[j] = "discovering" /\ evidence[j] # "submitted"

\* A job is taken up by whichever process lives, also after one that had
\* claimed it died, and goes on to an end, a task or an operator, unless the
\* evidence of some job stops every tick.
OrdersMoveOn ==
  \A j \in Order :
    stage[j] \in {"queued", "submitting", "discovering"} ~>
      \/ stage[j] \notin {"queued", "submitting", "discovering"}
      \/ \E i \in Order : Stuck(i)
=============================================================================
