------------------------------ MODULE Delivery ------------------------------
(***************************************************************************)
(* What happens to the result of a video job: its runner archives the      *)
(* output behind the poll that completed it, the maintenance tick archives *)
(* what is left over, and delivers the webhook events.  One tick at a time *)
(* runs; the runners of jobs run beside it.                                *)
(*                                                                         *)
(* A job has one output; a poster is archived in the same way.  An asset   *)
(* is a row of job_assets with an object in the store.                     *)
(***************************************************************************)
EXTENDS Naturals, FiniteSets

CONSTANTS
  Video,       \* jobs
  Asset,       \* names of assets
  Provider,    \* a result that still has the provider's address
  OtherJobs,   \* may the scan have jobs of its own before those of Video?
  MaxPosts,    \* attempts after which an event is dead
  MaxCrashes   \* bound: kills of the process

VARIABLES
  settled,    \* jobs.status
  result,     \* jobs.result_json: the provider's address or an asset
  archived,   \* jobs.archive_status
  retry,      \* archive_retry_at has come
  rows,       \* job_assets of a job with the role output
  objects,    \* the object store
  holder,     \* job_worker_leases
  runner,     \* the runner of a job
  endpoint,   \* the project's endpoint is enabled
  event,      \* webhook_outbox, at most one event of a job
  tries,      \* attempts of the event
  tick,       \* MaintenanceScheduler.execute
  crashes

VARIABLE expired  \* history: assets that were kept as long as outputs are

jobVars == <<settled, result, archived, retry, holder, runner>>
assetVars == <<rows, objects, expired>>
eventVars == <<endpoint, event, tries>>
deliveryVars == <<jobVars, assetVars, eventVars, tick, crashes>>

ASSUME DeliveryAssumption ==
  Video # {} /\ MaxPosts \in Nat \ {0} /\ MaxCrashes \in Nat

-----------------------------------------------------------------------------

NoAsset == "none"
Holder  == {"none", "runner", "archiver", "dead"}

\* A runner, or the scan for the job it is at: the asset it has put.
Runner == [pc : {"polling", "archiving", "put", "listed", "ended"},
           made : Asset \cup {NoAsset}]
Tick == [pc : {"idle", "elsewhere", "archiving", "put", "listed", "scanned",
               "events", "posted"},
         list : SUBSET Video,                         \* rows read at first
         read : [Video -> Asset \cup {Provider}],     \* and their results
         at : Video, made : Asset \cup {NoAsset}, ok : BOOLEAN]

NoTick == [pc |-> "idle", list |-> {}, read |-> [v \in Video |-> Provider],
           at |-> CHOOSE v \in Video : TRUE, made |-> NoAsset, ok |-> FALSE]
NoRunner == [pc |-> "ended", made |-> NoAsset]

DeliveryTypeOK ==
  /\ settled \in [Video -> {"processing", "completed", "failed"}]
  /\ result \in [Video -> Asset \cup {Provider}]
  /\ archived \in [Video -> {"none", "failed", "complete"}]
  /\ retry \in [Video -> BOOLEAN]
  /\ rows \in [Video -> SUBSET Asset] /\ objects \in [Video -> SUBSET Asset]
  /\ holder \in [Video -> Holder] /\ runner \in [Video -> Runner]
  /\ endpoint \in BOOLEAN
  /\ event \in [Video -> {"none", "pending", "delivered", "dead"}]
  /\ tries \in [Video -> 0 .. MaxPosts] /\ tick \in Tick
  /\ crashes \in 0 .. MaxCrashes
  /\ expired \in [Video -> SUBSET Asset]

DeliveryInit ==
  /\ settled = [v \in Video |-> "processing"]
  /\ result = [v \in Video |-> Provider]
  /\ archived = [v \in Video |-> "none"] /\ retry = [v \in Video |-> TRUE]
  /\ rows = [v \in Video |-> {}] /\ objects = rows /\ expired = rows
  /\ holder = [v \in Video |-> "runner"]
  /\ runner = [v \in Video |-> [pc |-> "polling", made |-> NoAsset]]
  /\ endpoint \in BOOLEAN
  /\ event = [v \in Video |-> "none"] /\ tries = [v \in Video |-> 0]
  /\ tick = NoTick /\ crashes = 0

\* A name nothing refers to.
NewName(v) == Asset \ (rows[v] \cup objects[v] \cup expired[v] \cup
                     {result[v], runner[v].made, tick.made})

-----------------------------------------------------------------------------
(* Steps a runner and the scan have in common. *)

\* Mutant: the archived result is stored without its event.
ReplacedSilently(v, asset) ==
  /\ result' = [result EXCEPT ![v] = asset]
  /\ archived' = [archived EXCEPT ![v] = "complete"]
  /\ event' = event /\ retry' = retry

\* replaceArchivedResult
Replaced(v, asset) ==
  /\ result' = [result EXCEPT ![v] = asset]
  /\ archived' = [archived EXCEPT ![v] = "complete"]
  /\ event' = IF endpoint /\ event[v] = "none"
              THEN [event EXCEPT ![v] = "pending"] ELSE event
  /\ retry' = retry

\* markArchiveFailure
ArchiveFailed(v) ==
  /\ archived' = [archived EXCEPT ![v] = "failed"]
  /\ retry' = [retry EXCEPT ![v] = FALSE]
  /\ UNCHANGED <<result, event>>

\* The catch of archiveAll: every output of the job is deleted.  An object that
\* got no row is removed before.
DeletesOutputs(v, made) ==
  /\ rows' = [rows EXCEPT ![v] = {}]
  /\ objects' = [objects EXCEPT ![v] = @ \ (rows[v] \cup {made})]

Puts(v, asset) ==
  /\ objects' = [objects EXCEPT ![v] = @ \cup {asset}]
  /\ rows' = rows
Lists(v, asset) ==
  /\ rows' = [rows EXCEPT ![v] = @ \cup {asset}]
  /\ objects' = objects

-----------------------------------------------------------------------------
(* Runners. *)

PollCompletes(v) ==
  /\ runner[v].pc = "polling"
  /\ settled' = [settled EXCEPT ![v] = "completed"]
  /\ runner' = [runner EXCEPT ![v].pc = "archiving"]
  /\ UNCHANGED <<result, archived, retry, holder, assetVars, eventVars, tick,
                 crashes>>

PollFails(v) ==
  /\ runner[v].pc = "polling"
  /\ settled' = [settled EXCEPT ![v] = "failed"]
  /\ runner' = [runner EXCEPT ![v] = NoRunner]
  /\ holder' = [holder EXCEPT ![v] = "none"]
  /\ event' = IF endpoint THEN [event EXCEPT ![v] = "pending"] ELSE event
  /\ UNCHANGED <<result, archived, retry, assetVars, endpoint, tries,
                 tick, crashes>>

RunnerPuts(v) ==
  /\ runner[v].pc = "archiving"
  /\ \E asset \in NewName(v) :
       Puts(v, asset) /\ runner' = [runner EXCEPT ![v] = [pc |-> "put",
                                                          made |-> asset]]
  /\ UNCHANGED <<settled, result, archived, retry, holder, expired, eventVars,
                 tick, crashes>>

RunnerLists(v) ==
  /\ runner[v].pc = "put" /\ Lists(v, runner[v].made)
  /\ runner' = [runner EXCEPT ![v].pc = "listed"]
  /\ UNCHANGED <<settled, result, archived, retry, holder, expired, eventVars,
                 tick, crashes>>

RunnerArchives(v) ==
  /\ runner[v].pc = "listed"
  /\ Replaced(v, runner[v].made)
  /\ runner' = [runner EXCEPT ![v] = NoRunner]
  /\ holder' = [holder EXCEPT ![v] = "none"]
  /\ UNCHANGED <<settled, assetVars, endpoint, tries, tick, crashes>>

RunnerFails(v) ==
  /\ runner[v].pc \in {"archiving", "put", "listed"}
  /\ DeletesOutputs(v, runner[v].made) /\ ArchiveFailed(v)
  /\ runner' = [runner EXCEPT ![v] = NoRunner]
  /\ holder' = [holder EXCEPT ![v] = "none"]
  /\ UNCHANGED <<settled, expired, endpoint, tries, tick, crashes>>

-----------------------------------------------------------------------------
(* The maintenance tick: archives, then events, then the cleanup. *)

ArchiveDue(v) ==
  /\ settled[v] = "completed"
  /\ archived[v] = "none" \/ (archived[v] = "failed" /\ retry[v])

\* The scan goes on to the next job of `jobs` whose lease is free, without
\* letting anybody in between; `held` are the leases there are.
Advances(jobs, read, held) ==
  \/ /\ \A v \in jobs : held[v] # "none"
     /\ holder' = held /\ tick' = [NoTick EXCEPT !.pc = "scanned"]
  \/ \E v \in jobs :
       /\ held[v] = "none" /\ holder' = [held EXCEPT ![v] = "archiver"]
       /\ \E skipped \in SUBSET {w \in jobs : held[w] # "none"} :
            tick' = [NoTick EXCEPT !.pc = "archiving", !.at = v, !.read = read,
                                   !.list = jobs \ ({v} \cup skipped)]

\* The jobs are listed once, with the results they have now.
TickStarts ==
  LET due == {v \in Video : ArchiveDue(v)}
  IN /\ tick.pc = "idle"
     /\ \/ Advances(due, result, holder)
        \/ /\ OtherJobs /\ holder' = holder
           /\ tick' = [tick EXCEPT !.pc = "elsewhere", !.list = due,
                                   !.read = result]
     /\ UNCHANGED <<settled, result, archived, retry, runner, assetVars,
                    eventVars, crashes>>

ScanReturns ==
  /\ tick.pc = "elsewhere"
  /\ Advances(tick.list, tick.read, holder)
  /\ UNCHANGED <<settled, result, archived, retry, runner, assetVars, eventVars,
                 crashes>>

\* The job's lease is released and the next one taken.
ScanGoesOn ==
  Advances(tick.list, tick.read, [holder EXCEPT ![tick.at] = "none"])

\* Only the provider's address can be fetched.
ScanPuts ==
  /\ tick.pc = "archiving" /\ tick.read[tick.at] = Provider
  /\ \E asset \in NewName(tick.at) :
       /\ Puts(tick.at, asset)
       /\ tick' = [tick EXCEPT !.pc = "put", !.made = asset]
  /\ UNCHANGED <<jobVars, expired, eventVars, crashes>>

ScanLists ==
  /\ tick.pc = "put" /\ Lists(tick.at, tick.made)
  /\ tick' = [tick EXCEPT !.pc = "listed"]
  /\ UNCHANGED <<jobVars, expired, eventVars, crashes>>

ScanArchives ==
  /\ tick.pc = "listed"
  /\ Replaced(tick.at, tick.made) /\ ScanGoesOn
  /\ UNCHANGED <<settled, runner, assetVars, endpoint, tries, crashes>>

ScanFails ==
  /\ tick.pc \in {"archiving", "put", "listed"}
  /\ DeletesOutputs(tick.at, tick.made) /\ ArchiveFailed(tick.at)
  /\ ScanGoesOn
  /\ UNCHANGED <<settled, runner, expired, endpoint, tries, crashes>>

\* The events that are due are listed once as well.
ListsEvents ==
  /\ tick.pc = "scanned"
  /\ tick' = [NoTick EXCEPT !.pc = "events", !.list =
                 {v \in Video : event[v] = "pending" /\ endpoint}]
  /\ UNCHANGED <<jobVars, assetVars, eventVars, crashes>>

\* The receiver may have taken an event whose post failed.
PostsEvent(v) ==
  /\ tick.pc = "events" /\ v \in tick.list
  /\ \E ok \in BOOLEAN :
       tick' = [tick EXCEPT !.pc = "posted", !.at = v, !.list = @ \ {v},
                            !.ok = ok]
  /\ UNCHANGED <<jobVars, assetVars, eventVars, crashes>>

\* `delivered` changes a pending event, `failed` any.
MarksEvent ==
  LET v == tick.at
  IN /\ tick.pc = "posted"
     /\ IF tick.ok
        THEN /\ event' = IF event[v] = "pending"
                         THEN [event EXCEPT ![v] = "delivered"] ELSE event
             /\ tries' = tries
        ELSE /\ tries' = [tries EXCEPT ![v] = @ + 1]
             /\ event' = [event EXCEPT ![v] =
                            IF tries'[v] >= MaxPosts THEN "dead" ELSE "pending"]
     /\ tick' = [tick EXCEPT !.pc = "events", !.ok = FALSE]
     /\ UNCHANGED <<jobVars, assetVars, endpoint, crashes>>

\* deleteExpired, which does not ask what refers to an asset.  What is being
\* archived just now does not expire.
CleansUp ==
  /\ tick.pc = "events" /\ tick.list = {}
  /\ \E v \in Video, old \in SUBSET Asset :
       /\ old \subseteq rows[v] \ {runner[v].made}
       /\ rows' = [rows EXCEPT ![v] = @ \ old]
       /\ objects' = [objects EXCEPT ![v] = @ \ old]
       /\ expired' = [expired EXCEPT ![v] = @ \cup (old \cap {result[v]})]
  /\ tick' = NoTick
  /\ UNCHANGED <<jobVars, eventVars, crashes>>

-----------------------------------------------------------------------------
(* Time, the operator, and the process. *)

RetryDue(v) ==
  /\ archived[v] = "failed" /\ ~retry[v]
  /\ retry' = [retry EXCEPT ![v] = TRUE]
  /\ UNCHANGED <<settled, result, archived, holder, runner, assetVars,
                 eventVars, tick, crashes>>

Replay(v) ==
  /\ event[v] = "dead"
  /\ event' = [event EXCEPT ![v] = "pending"]
  /\ tries' = [tries EXCEPT ![v] = 0]
  /\ UNCHANGED <<jobVars, assetVars, endpoint, tick, crashes>>

SetEndpoint ==
  /\ endpoint' = ~endpoint
  /\ UNCHANGED <<jobVars, assetVars, event, tries, tick, crashes>>

LeaseOfDeadLapses(v) ==
  /\ holder[v] = "dead"
  /\ holder' = [holder EXCEPT ![v] = "none"]
  /\ UNCHANGED <<settled, result, archived, retry, runner, assetVars, eventVars,
                 tick, crashes>>

\* Leases outlive the process; a job that had completed gets no runner again,
\* and one that was being polled gets none while the old lease is live.
KillProcess ==
  /\ crashes < MaxCrashes /\ crashes' = crashes + 1
  /\ tick' = NoTick
  /\ \E waited \in BOOLEAN :
       LET taken == {v \in Video : waited /\ settled[v] = "processing"
                                          /\ runner[v].pc # "ended"}
       IN /\ runner' = [v \in Video |->
                 IF v \in taken THEN [pc |-> "polling", made |-> NoAsset]
                 ELSE NoRunner]
          /\ holder' = [v \in Video |->
                 CASE v \in taken -> "runner"
                   [] v \notin taken /\ ~waited /\ holder[v] # "none" -> "dead"
                   [] OTHER -> "none"]
  /\ UNCHANGED <<settled, result, archived, retry, assetVars, eventVars>>

\* What goes on by itself.
TickGoesOn == TickStarts \/ ScanReturns \/ ScanFails \/ ListsEvents \/ MarksEvent \/ CleansUp

DeliveryNext ==
  \/ TickGoesOn \/ ScanPuts \/ ScanLists \/ ScanArchives
  \/ SetEndpoint \/ KillProcess
  \/ \E v \in Video :
       \/ PollCompletes(v) \/ PollFails(v) \/ RunnerPuts(v) \/ RunnerLists(v)
       \/ RunnerArchives(v) \/ RunnerFails(v) \/ PostsEvent(v)
       \/ RetryDue(v) \/ Replay(v) \/ LeaseOfDeadLapses(v)

DeliverySpec == DeliveryInit /\ [][DeliveryNext]_deliveryVars

-----------------------------------------------------------------------------

\* A settled job is announced, if the endpoint is enabled for good.
SettledJobIsAnnounced ==
  \A v \in Video :
    []endpoint => (settled[v] = "completed" ~> event[v] # "none")

\* The output of a completed job is there until it expires.
ArchivedOutputExists ==
  \A v \in Video : result[v] \in Asset =>
    \/ result[v] \in expired[v]
    \/ result[v] \in rows[v] /\ result[v] \in objects[v]
=============================================================================
