---------------------------- MODULE Services_types ----------------------------
(***************************************************************************)
(* Every variable of the services keeps its type, for all values of their  *)
(* constants; and what is proved about each service alone holds in the     *)
(* behaviours in which they stand side by side.                            *)
(***************************************************************************)
EXTENDS MCServices, Edge_proofs, Fleet_proofs

-----------------------------------------------------------------------------
(* Access. *)

LEMMA AccessTypesAtFirst == AccessInit => AccessTypeOK
<1> SUFFICES ASSUME AccessInit PROVE AccessTypeOK
  OBVIOUS
<1>1. AccessInv
  BY AccessInvHoldsAtFirst
<1>2. [status |-> "absent", plan |-> LegacyPlan] \in [status : Status, plan : Plan]
  BY AccessAssumption DEF AccessAssumption, Status
<1> QED BY <1>1, <1>2 DEF AccessInit, AccessInv, AccessTypeOK, Status

LEMMA AccessTypesAreKept ==
  AccessInv /\ AccessTypeOK /\ [AccessNext]_accessVars => AccessTypeOK'
<1> SUFFICES ASSUME AccessInv, AccessTypeOK, [AccessNext]_accessVars
             PROVE  AccessTypeOK'
  OBVIOUS
<1>1. key' \in [Key -> KeyRow] /\ caller' \in [Caller -> CallerState]
  <2>1. AccessInv'
    BY AccessInvIsKept
  <2> QED BY <2>1 DEF AccessInv
<1> DEFINE Rows == /\ user' \in [User -> Status]
                   /\ project' \in [Project -> [status : Status, plan : Plan]]
                   /\ plan' \in [Plan -> {"absent", "enabled", "disabled"}]
           Doors == console' \subseteq Console /\ visits' \subseteq Console
           Books == /\ buried' \subseteq Key
                    /\ admitted' \subseteq [late : BOOLEAN, active : BOOLEAN]
<1>2. ASSUME UNCHANGED <<user, project, plan>> PROVE Rows
  BY <1>2 DEF AccessTypeOK
<1>3. ASSUME UNCHANGED <<console, visits>> PROVE Doors
  BY <1>3 DEF AccessTypeOK
<1>4. ASSUME UNCHANGED <<buried, admitted>> PROVE Books
  BY <1>4 DEF AccessTypeOK
<1>5. ASSUME NEW s \in Console, Handled(s), UNCHANGED console PROVE Doors
  BY <1>5 DEF AccessTypeOK, Handled
<1>6. CASE UNCHANGED accessVars
  BY <1>1, <1>2, <1>3, <1>4, <1>6 DEF accessVars, registryVars, AccessTypeOK
<1>7. ASSUME NEW s \in Console, ConsoleLogin(s) \/ SessionEnds(s) \/ Visit(s)
      PROVE  AccessTypeOK'
  <2>1. Doors
    BY <1>7 DEF ConsoleLogin, SessionEnds, Visit, AccessTypeOK
  <2>2. Rows /\ Books
    BY <1>2, <1>4, <1>7 DEF ConsoleLogin, SessionEnds, Visit, registryVars
  <2> QED BY <1>1, <2>1, <2>2 DEF AccessTypeOK
<1>8. ASSUME NEW s \in Console, Refused(s) PROVE AccessTypeOK'
  BY <1>1, <1>2, <1>4, <1>5, <1>8 DEF Refused, registryVars, AccessTypeOK
<1>9. ASSUME NEW s \in Console, NEW u \in User, CreateUser(s, u) \/ SetUserStatus(s, u)
      PROVE  AccessTypeOK'
  <2>1. PICK to \in Status : user' = [user EXCEPT ![u] = to]
    BY <1>9 DEF CreateUser, SetUserStatus, Status
  <2>2. Rows
    BY <1>9, <2>1 DEF CreateUser, SetUserStatus, AccessTypeOK
  <2>3. Doors /\ Books
    BY <1>4, <1>5, <1>9 DEF CreateUser, SetUserStatus
  <2> QED BY <1>1, <2>2, <2>3 DEF AccessTypeOK
<1>10. ASSUME NEW s \in Console, NEW p \in Project,
              CreateProject(s, p) \/ SetProjectStatus(s, p) \/ AssignPlan(s, p)
       PROVE  AccessTypeOK'
  <2>1. project \in [Project -> [status : Status, plan : Plan]]
    BY DEF AccessTypeOK
  <2>2. PICK row1 \in [status : Status, plan : Plan] :
               project' = [project EXCEPT ![p] = row1]
    <3>1. CASE CreateProject(s, p)
      BY <3>1, AccessAssumption DEF CreateProject, AccessAssumption, Status
    <3>2. CASE SetProjectStatus(s, p)
      <4>1. PICK to \in {"active", "suspended"} :
                   project' = [project EXCEPT ![p].status = to]
        BY <3>2 DEF SetProjectStatus
      <4>2. [project[p] EXCEPT !.status = to] \in [status : Status, plan : Plan]
        BY <2>1 DEF Status
      <4> QED BY <4>1, <4>2
    <3>3. CASE AssignPlan(s, p)
      <4>1. PICK l \in Plan : project' = [project EXCEPT ![p].plan = l]
        BY <3>3 DEF AssignPlan
      <4>2. [project[p] EXCEPT !.plan = l] \in [status : Status, plan : Plan]
        BY <2>1
      <4> QED BY <4>1, <4>2
    <3> QED BY <1>10, <3>1, <3>2, <3>3
  <2>3. Rows
    BY <1>10, <2>1, <2>2 DEF CreateProject, SetProjectStatus, AssignPlan, AccessTypeOK
  <2>4. Doors /\ Books
    BY <1>4, <1>5, <1>10 DEF CreateProject, SetProjectStatus, AssignPlan
  <2> QED BY <1>1, <2>3, <2>4 DEF AccessTypeOK
<1>11. ASSUME NEW s \in Console, NEW l \in Plan, CreatePlan(s, l) PROVE AccessTypeOK'
  <2>1. Rows
    BY <1>11 DEF CreatePlan, AccessTypeOK
  <2>2. Doors /\ Books
    BY <1>4, <1>5, <1>11 DEF CreatePlan
  <2> QED BY <1>1, <2>1, <2>2 DEF AccessTypeOK
<1>12. ASSUME NEW s \in Console, NEW k \in Key,
              CreateKey(s, k) \/ UpdateKey(s, k) \/ RevokeKey(s, k)
       PROVE  AccessTypeOK'
  <2>1. Rows /\ Doors
    BY <1>2, <1>5, <1>12 DEF CreateKey, UpdateKey, RevokeKey
  <2>2. Books
    BY <1>12 DEF CreateKey, UpdateKey, RevokeKey, AccessTypeOK
  <2> QED BY <1>1, <2>1, <2>2 DEF AccessTypeOK
<1>13. ASSUME NEW k \in Key, KeyExpires(k) PROVE AccessTypeOK'
  BY <1>1, <1>2, <1>3, <1>4, <1>13 DEF KeyExpires, AccessTypeOK
<1>14. ASSUME NEW c \in Caller,
              \/ Leaves(c) \/ RequireScope(c) \/ AssertVideo(c)
              \/ \E k \in Key : Authenticate(c, k)
       PROVE  AccessTypeOK'
  BY <1>1, <1>2, <1>3, <1>4, <1>14
     DEF Leaves, RequireScope, AssertVideo, Authenticate, registryVars, AccessTypeOK
<1>15. ASSUME NEW c \in Caller, Reserve(c) PROVE AccessTypeOK'
  <2>1. Rows /\ Doors
    BY <1>2, <1>3, <1>15 DEF Reserve, registryVars
  <2>2. PICK job \in [late : BOOLEAN, active : BOOLEAN] : admitted' = admitted \cup {job}
    <3> DEFINE active == /\ user[OwnerOf[OwnProject(c)]] = "active"
                         /\ project[OwnProject(c)].status = "active"
    <3>1. admitted' = admitted \cup {[late |-> caller[c].late, active |-> active]}
      BY <1>15 DEF Reserve
    <3>2. caller[c].late \in BOOLEAN
      BY DEF AccessTypeOK, CallerState
    <3>3. active \in BOOLEAN
      OBVIOUS
    <3> HIDE DEF active
    <3> QED BY <3>1, <3>2, <3>3
  <2>3. buried' = buried
    BY <1>15 DEF Reserve
  <2> QED BY <1>1, <2>1, <2>2, <2>3 DEF AccessTypeOK
<1> HIDE DEF Rows, Doors, Books
<1> QED BY <1>6, <1>7, <1>8, <1>9, <1>10, <1>11, <1>12, <1>13, <1>14, <1>15
        DEF AccessNext

LEMMA AccessTypes == AccessSpec => []AccessTypeOK
  BY AccessInvHoldsAtFirst, AccessInvIsKept, AccessTypesAtFirst, AccessTypesAreKept,
     PTL DEF AccessSpec

-----------------------------------------------------------------------------
(* Waiting answers. *)

LEMMA ServingTypes == ServingSpec => []ServingTypeOK
<1>1. ServingInit => ServingTypeOK
  BY ServingInvHoldsAtFirst DEF ServingInit, ServingTypeOK, ServingInv
<1>2. ServingInv /\ ServingTypeOK /\ [ServingNext]_servingVars => ServingTypeOK'
  <2> SUFFICES ASSUME ServingInv, ServingTypeOK, [ServingNext]_servingVars
               PROVE  ServingTypeOK'
    OBVIOUS
  <2>1. status' \in {"queued", "working"} \cup Settled
        /\ serving' \in [Handler -> ServingState]
    <3>1. ServingInv'
      BY ServingInvIsKept
    <3> QED BY <3>1 DEF ServingInv
  <2>2. announcing' \in {announcing, TRUE, FALSE}
        /\ silent' \in {silent, TRUE, FALSE, status' \in Settled}
    BY Zenon DEF ServingNext, servingVars, Transition, PollWrites, PollNotifies,
       CancelQueued, Reconciles, KillServer, Serve, ServeAtOnce, FindsSettled,
       FindsInterval, Listens, TimeIsUp, IntervalIsOver, Written, FinalWritten,
       ClientCloses
  <2>3. listeners' \subseteq Handler
    BY DEF ServingTypeOK, ServingNext, servingVars, Transition, PollWrites, PollNotifies,
       CancelQueued, Reconciles, KillServer, Serve, ServeAtOnce, FindsSettled,
       FindsInterval, Listens, TimeIsUp, IntervalIsOver, Written, FinalWritten,
       ClientCloses
  <2>4. announcing' \in BOOLEAN /\ silent' \in BOOLEAN
    <3> DEFINE settles == status' \in Settled
    <3>1. settles \in BOOLEAN /\ announcing \in BOOLEAN /\ silent \in BOOLEAN
      BY DEF ServingTypeOK
    <3>2. announcing' \in {announcing, TRUE, FALSE}
          /\ silent' \in {silent, TRUE, FALSE, settles}
      BY <2>2
    <3> HIDE DEF settles
    <3> QED BY <3>1, <3>2, Zenon
  <2> QED BY <2>1, <2>3, <2>4 DEF ServingTypeOK
<1> QED BY <1>1, <1>2, ServingInvHoldsAtFirst, ServingInvIsKept, PTL DEF ServingSpec

-----------------------------------------------------------------------------
(* Sign-in. *)

LEMMA SignInTypes == SignInSpec => []SignInTypeOK
<1> DEFINE Rest == /\ attempts \subseteq Subscriber \X Dates
                   /\ leader \in Signer \cup {NoSigner}
                   /\ sign \in [Subscriber -> Nat]
<1>1. SignInInit => Rest
  BY DEF SignInInit
<1>2. SignInInv /\ Rest /\ [SignInNext]_signInVars => Rest'
  <2> SUFFICES ASSUME SignInInv, Rest, [SignInNext]_signInVars PROVE Rest'
    OBVIOUS
  <2>1. leader' \in Signer \cup {NoSigner}
    BY DEF SignInNext, signInVars, Midnight, LockLost, PostLands, SignsByHand,
       StartSigner, TakesLead, HourStrikes, ListAccounts, TakeAccount, ProgressSettles,
       ProgressOpen, ClaimTaken, Claim, PostCompletion, LookAgain, EndRun, CloseSigner,
       KillSigner
  <2>2. \A p \in Signer : run[p].at \in Subscriber /\ run[p].today \in Dates
    BY DEF SignInInv, Run
  <2>3. attempts' = attempts \/ \E p \in Signer : Claim(p)
    BY DEF SignInNext, signInVars, Midnight, LockLost, PostLands, SignsByHand,
       StartSigner, HourStrikes, ListAccounts, TakeAccount, ProgressSettles,
       ProgressOpen, ClaimTaken, PostCompletion, LookAgain, EndRun, CloseSigner,
       KillSigner
  <2>6. attempts' \subseteq Subscriber \X Dates
    BY <2>2, <2>3 DEF Claim
  <2>4. \/ sign' = sign
        \/ \E s \in Subscriber : sign' = [sign EXCEPT ![s] = @ + 1]
        \/ \E s \in Subscriber : sign[s] > 0 /\ sign' = [sign EXCEPT ![s] = @ - 1]
    BY <2>2 DEF SignInNext, signInVars, Midnight, LockLost, PostLands, SignsByHand,
       StartSigner, HourStrikes, ListAccounts, TakeAccount, ProgressSettles,
       ProgressOpen, ClaimTaken, Claim, PostCompletion, LookAgain, EndRun, CloseSigner,
       KillSigner
  <2>5. sign' \in [Subscriber -> Nat]
    BY <2>4
  <2> QED BY <2>1, <2>5, <2>6
<1>3. SignInInv /\ Rest => SignInTypeOK
  BY DEF SignInInv, SignInTypeOK, Pairs
<1> HIDE DEF Rest
<1> QED BY <1>1, <1>2, <1>3, SignInInvHoldsAtFirst, SignInInvIsKept, PTL
        DEF SignInSpec

-----------------------------------------------------------------------------
(* Delivery. *)

\* A job that has no event is the only one that gets one, an event that waits
\* has attempts left, and the one a tick is at waits; what is archived is the
\* result of a completed job.
EventFits(v) ==
  /\ event[v] = "none" => tries[v] = 0
  /\ event[v] = "pending" => tries[v] < MaxPosts
  /\ settled[v] = "processing" => event[v] = "none"

RunnerFits(v) ==
  /\ runner[v].pc = "polling" => settled[v] = "processing"
  /\ runner[v].pc \in {"archiving", "put", "listed"} => settled[v] = "completed"
  /\ runner[v].pc \in {"put", "listed"} => runner[v].made \in Asset

TickFits ==
  /\ tick.pc \in {"elsewhere", "archiving", "put", "listed"} =>
       \A v \in tick.list : settled[v] = "completed"
  /\ tick.pc \in {"archiving", "put", "listed"} => settled[tick.at] = "completed"
  /\ tick.pc \in {"put", "listed"} => tick.made \in Asset
  /\ tick.pc \in {"events", "posted"} => \A v \in tick.list : event[v] = "pending"
  /\ tick.pc = "posted" => event[tick.at] = "pending" /\ tick.at \notin tick.list

DeliveryInv ==
  /\ DeliveryTypeOK
  /\ \A v \in Video : EventFits(v) /\ RunnerFits(v)
  /\ TickFits

LEMMA NothingTicks ==
  /\ NoTick \in Tick /\ NoRunner \in Runner
  /\ NoTick.pc = "idle" /\ NoTick.list = {} /\ NoRunner.pc = "ended"
<1>1. (CHOOSE v \in Video : TRUE) \in Video
  BY DeliveryAssumption DEF DeliveryAssumption
<1> QED BY <1>1 DEF NoTick, NoRunner, Tick, Runner

\* The scan comes to the end, or to a job of its list.
LEMMA AdvancesTo ==
  ASSUME NEW jobs \in SUBSET Video, NEW read \in [Video -> Asset \cup {Provider}],
         NEW held \in [Video -> Holder], Advances(jobs, read, held)
  PROVE  /\ tick' \in Tick /\ holder' \in [Video -> Holder]
         /\ tick'.pc \in {"scanned", "archiving"} /\ tick'.list \subseteq jobs
         /\ tick'.pc = "archiving" => tick'.at \in jobs
<1>1. NoTick \in Tick
  BY NothingTicks
<1>2. CASE holder' = held /\ tick' = [NoTick EXCEPT !.pc = "scanned"]
  BY <1>1, <1>2, NothingTicks DEF Tick
<1>3. ASSUME NEW v \in jobs, NEW skipped \in SUBSET {w \in jobs : held[w] # "none"},
             holder' = [held EXCEPT ![v] = "archiver"],
             tick' = [NoTick EXCEPT !.pc = "archiving", !.at = v, !.read = read,
                                    !.list = jobs \ ({v} \cup skipped)]
      PROVE  /\ tick' \in Tick /\ holder' \in [Video -> Holder]
             /\ tick'.pc = "archiving" /\ tick'.list \subseteq jobs /\ tick'.at \in jobs
  BY <1>1, <1>3 DEF Tick, Holder
<1> QED BY <1>2, <1>3 DEF Advances

LEMMA DeliveryInvHoldsAtFirst == DeliveryInit => DeliveryInv
<1> SUFFICES ASSUME DeliveryInit PROVE DeliveryInv
  OBVIOUS
<1>1. MaxPosts \in Nat \ {0} /\ 0 \in 0 .. MaxPosts /\ 0 \in 0 .. MaxCrashes
  BY DeliveryAssumption DEF DeliveryAssumption
<1>2. [pc |-> "polling", made |-> NoAsset] \in Runner
  BY DEF Runner
<1>3. DeliveryTypeOK
  BY <1>1, <1>2, NothingTicks DEF DeliveryInit, DeliveryTypeOK, Holder
<1>4. \A v \in Video : EventFits(v) /\ RunnerFits(v)
  BY <1>1 DEF DeliveryInit, EventFits, RunnerFits
<1>5. TickFits
  BY NothingTicks DEF DeliveryInit, TickFits
<1> QED BY <1>3, <1>4, <1>5 DEF DeliveryInv

\* Between two of its own steps the tick finds what it goes by.
LEMMA TickStands ==
  ASSUME DeliveryInv, tick' = tick,
         \A v \in Video : /\ settled[v] = "completed" => settled'[v] = "completed"
                          /\ event[v] = "pending" => event'[v] = "pending"
  PROVE  TickFits'
<1>1. tick.list \subseteq Video /\ tick.at \in Video
  BY DEF DeliveryInv, DeliveryTypeOK, Tick
<1> QED BY <1>1 DEF DeliveryInv, TickFits

\* What a runner and the scan do to the columns of a completed job.
LEMMA ReplacedFits ==
  ASSUME DeliveryInv, NEW v \in Video, NEW asset \in Asset, Replaced(v, asset),
         settled[v] = "completed", UNCHANGED <<settled, tries>>
  PROVE  /\ result' \in [Video -> Asset \cup {Provider}]
         /\ archived' \in [Video -> {"none", "failed", "complete"}] /\ retry' = retry
         /\ event' \in [Video -> {"none", "pending", "delivered", "dead"}]
         /\ \A w \in Video : /\ EventFits(w)'
                             /\ event[w] = "pending" => event'[w] = "pending"
<1>1. /\ result' \in [Video -> Asset \cup {Provider}]
      /\ archived' \in [Video -> {"none", "failed", "complete"}] /\ retry' = retry
  BY DEF Replaced, DeliveryInv, DeliveryTypeOK
<1>2. event' = event \/ (event[v] = "none" /\ event' = [event EXCEPT ![v] = "pending"])
  BY DEF Replaced
<1>3. event' \in [Video -> {"none", "pending", "delivered", "dead"}]
  BY <1>2 DEF DeliveryInv, DeliveryTypeOK
<1>4. ASSUME NEW w \in Video
      PROVE  EventFits(w)' /\ (event[w] = "pending" => event'[w] = "pending")
  <2>1. EventFits(w) /\ MaxPosts \in Nat \ {0}
    BY DeliveryAssumption DEF DeliveryAssumption, DeliveryInv
  <2> QED BY <1>2, <2>1 DEF DeliveryInv, DeliveryTypeOK, EventFits
<1> QED BY <1>1, <1>3, <1>4

LEMMA ArchiveFailedFits ==
  ASSUME DeliveryInv, NEW v \in Video, NEW own, ArchiveFailed(v), DeletesOutputs(v, own)
  PROVE  /\ archived' \in [Video -> {"none", "failed", "complete"}]
         /\ retry' \in [Video -> BOOLEAN] /\ UNCHANGED <<result, event>>
         /\ rows' \in [Video -> SUBSET Asset] /\ objects' \in [Video -> SUBSET Asset]
  BY DEF ArchiveFailed, DeletesOutputs, DeliveryInv, DeliveryTypeOK

LEMMA PutsFits ==
  ASSUME DeliveryInv, NEW v \in Video, NEW asset \in Asset,
         Puts(v, asset) \/ Lists(v, asset)
  PROVE  rows' \in [Video -> SUBSET Asset] /\ objects' \in [Video -> SUBSET Asset]
  BY DEF Puts, Lists, DeliveryInv, DeliveryTypeOK

\* Events and runners are looked at job by job.
LEMMA EventsStand ==
  ASSUME DeliveryInv, UNCHANGED <<event, tries>>,
         \A v \in Video : settled'[v] = "processing" => settled[v] = "processing"
  PROVE  \A v \in Video : EventFits(v)'
  BY DEF DeliveryInv, EventFits

LEMMA RunnersStand ==
  ASSUME DeliveryInv, UNCHANGED <<settled, runner>>
  PROVE  \A v \in Video : RunnerFits(v)'
  BY DEF DeliveryInv, RunnerFits

LEMMA OneRunnerGoesOn ==
  ASSUME DeliveryInv, NEW v \in Video, NEW new \in Runner,
         runner' = [runner EXCEPT ![v] = new],
         \A w \in Video \ {v} : settled'[w] = settled[w],
         new.pc = "polling" => settled'[v] = "processing",
         new.pc \in {"archiving", "put", "listed"} => settled'[v] = "completed",
         new.pc \in {"put", "listed"} => new.made \in Asset
  PROVE  runner' \in [Video -> Runner] /\ \A w \in Video : RunnerFits(w)'
<1>1. runner \in [Video -> Runner]
  BY DEF DeliveryInv, DeliveryTypeOK
<1> QED BY <1>1 DEF DeliveryInv, RunnerFits

LEMMA RunnerStepsFit ==
  ASSUME DeliveryInv, NEW v \in Video,
         \/ PollCompletes(v) \/ PollFails(v) \/ RunnerPuts(v) \/ RunnerLists(v)
         \/ RunnerArchives(v) \/ RunnerFails(v)
  PROVE  DeliveryInv'
<1>0. /\ DeliveryTypeOK /\ EventFits(v) /\ RunnerFits(v) /\ runner[v] \in Runner
      /\ MaxPosts \in Nat \ {0} /\ NoRunner \in Runner /\ NoRunner.pc = "ended"
  BY NothingTicks, DeliveryAssumption DEF DeliveryAssumption, DeliveryInv, DeliveryTypeOK
<1>1. CASE PollCompletes(v)
  <2> DEFINE new == [runner[v] EXCEPT !.pc = "archiving"]
  <2>1. /\ settled[v] = "processing" /\ settled' = [settled EXCEPT ![v] = "completed"]
        /\ runner' = [runner EXCEPT ![v] = new]
        /\ UNCHANGED <<result, archived, retry, holder, rows, objects, expired,
                       endpoint, event, tries, tick, crashes>>
    BY <1>0, <1>1 DEF PollCompletes, RunnerFits, assetVars, eventVars
  <2>2. new \in Runner /\ new.pc = "archiving"
    BY <1>0 DEF Runner
  <2>3. /\ settled' \in [Video -> {"processing", "completed", "failed"}]
        /\ settled'[v] = "completed" /\ \A w \in Video \ {v} : settled'[w] = settled[w]
    BY <1>0, <2>1 DEF DeliveryTypeOK
  <2> HIDE DEF new
  <2>4. runner' \in [Video -> Runner] /\ \A w \in Video : RunnerFits(w)'
    BY <2>1, <2>2, <2>3, OneRunnerGoesOn
  <2>5. \A w \in Video : EventFits(w)'
    BY <2>1, <2>3, EventsStand
  <2>6. TickFits'
    BY <2>1, <2>3, TickStands
  <2> QED BY <1>0, <2>1, <2>3, <2>4, <2>5, <2>6 DEF DeliveryInv, DeliveryTypeOK
<1>2. CASE PollFails(v)
  <2>1. /\ settled[v] = "processing" /\ settled' = [settled EXCEPT ![v] = "failed"]
        /\ runner' = [runner EXCEPT ![v] = NoRunner]
        /\ holder' = [holder EXCEPT ![v] = "none"]
        /\ event' = event \/ event' = [event EXCEPT ![v] = "pending"]
        /\ UNCHANGED <<result, archived, retry, rows, objects, expired, endpoint,
                       tries, tick, crashes>>
    BY <1>0, <1>2 DEF PollFails, RunnerFits, assetVars
  <2>2. event[v] = "none" /\ tries[v] = 0
    BY <1>0, <2>1 DEF EventFits
  <2>3. /\ settled' \in [Video -> {"processing", "completed", "failed"}]
        /\ settled'[v] = "failed" /\ \A w \in Video \ {v} : settled'[w] = settled[w]
        /\ holder' \in [Video -> Holder]
        /\ event' \in [Video -> {"none", "pending", "delivered", "dead"}]
        /\ \A w \in Video \ {v} : event'[w] = event[w]
        /\ event'[v] \in {"none", "pending"}
    BY <1>0, <2>1, <2>2 DEF DeliveryTypeOK, Holder
  <2>4. runner' \in [Video -> Runner] /\ \A w \in Video : RunnerFits(w)'
    BY <1>0, <2>1, <2>3, OneRunnerGoesOn
  <2>5. \A w \in Video : EventFits(w)'
    BY <1>0, <2>1, <2>2, <2>3 DEF EventFits, DeliveryInv
  <2>6. TickFits'
    BY <2>1, <2>2, <2>3, TickStands
  <2> QED BY <1>0, <2>1, <2>3, <2>4, <2>5, <2>6 DEF DeliveryInv, DeliveryTypeOK
<1>3. CASE RunnerPuts(v) \/ RunnerLists(v)
  <2>1. PICK asset \in Asset, pc \in {"put", "listed"} :
               /\ Puts(v, asset) \/ Lists(v, asset)
               /\ runner' = [runner EXCEPT ![v] = [pc |-> pc, made |-> asset]]
    <3>1. CASE RunnerPuts(v)
      BY <3>1 DEF RunnerPuts, NewName
    <3>2. CASE RunnerLists(v)
      <4>1. runner[v].made \in Asset /\ Lists(v, runner[v].made)
            /\ runner' = [runner EXCEPT ![v].pc = "listed"]
        BY <1>0, <3>2 DEF RunnerLists, RunnerFits
      <4>2. [runner[v] EXCEPT !.pc = "listed"] = [pc |-> "listed", made |-> runner[v].made]
        BY <1>0 DEF Runner
      <4> QED BY <4>1, <4>2
    <3> QED BY <1>3, <3>1, <3>2
  <2>2. /\ settled[v] = "completed"
        /\ UNCHANGED <<settled, result, archived, retry, holder, expired, endpoint,
                       event, tries, tick, crashes>>
    BY <1>0, <1>3 DEF RunnerPuts, RunnerLists, RunnerFits, eventVars
  <2>3. [pc |-> pc, made |-> asset] \in Runner
    BY DEF Runner
  <2>4. runner' \in [Video -> Runner] /\ \A w \in Video : RunnerFits(w)'
    BY <2>1, <2>2, <2>3, OneRunnerGoesOn
  <2>5. (\A w \in Video : EventFits(w)') /\ TickFits'
    BY <2>2, EventsStand, TickStands
  <2>6. rows' \in [Video -> SUBSET Asset] /\ objects' \in [Video -> SUBSET Asset]
    BY <2>1, PutsFits
  <2> QED BY <1>0, <2>2, <2>4, <2>5, <2>6 DEF DeliveryInv, DeliveryTypeOK
<1>4. CASE RunnerArchives(v) \/ RunnerFails(v)
  <2>1. /\ settled[v] = "completed" /\ runner' = [runner EXCEPT ![v] = NoRunner]
        /\ holder' = [holder EXCEPT ![v] = "none"]
        /\ UNCHANGED <<settled, expired, endpoint, tries, tick, crashes>>
    BY <1>0, <1>4 DEF RunnerArchives, RunnerFails, RunnerFits, assetVars
  <2>2. /\ result' \in [Video -> Asset \cup {Provider}]
        /\ archived' \in [Video -> {"none", "failed", "complete"}]
        /\ retry' \in [Video -> BOOLEAN]
        /\ event' \in [Video -> {"none", "pending", "delivered", "dead"}]
        /\ rows' \in [Video -> SUBSET Asset] /\ objects' \in [Video -> SUBSET Asset]
        /\ \A w \in Video : /\ EventFits(w)'
                            /\ event[w] = "pending" => event'[w] = "pending"
    <3>1. CASE RunnerArchives(v)
      <4>1. PICK asset \in Asset : asset = runner[v].made
        BY <1>0, <3>1 DEF RunnerArchives, RunnerFits
      <4>2. Replaced(v, asset) /\ UNCHANGED <<rows, objects>>
        BY <3>1, <4>1 DEF RunnerArchives, assetVars
      <4> QED BY <1>0, <2>1, <4>2, ReplacedFits DEF DeliveryTypeOK
    <3>2. CASE RunnerFails(v)
      <4>1. PICK own : own = runner[v].made
        OBVIOUS
      <4>2. ArchiveFailed(v) /\ DeletesOutputs(v, own)
        BY <3>2, <4>1 DEF RunnerFails
      <4>3. UNCHANGED <<result, event>>
        BY <4>2 DEF ArchiveFailed
      <4> QED BY <1>0, <2>1, <4>2, <4>3, ArchiveFailedFits, EventsStand
              DEF DeliveryTypeOK
    <3> QED BY <1>4, <3>1, <3>2
  <2>3. runner' \in [Video -> Runner] /\ \A w \in Video : RunnerFits(w)'
    BY <1>0, <2>1, OneRunnerGoesOn
  <2>4. TickFits' /\ holder' \in [Video -> Holder]
    BY <1>0, <2>1, <2>2, TickStands DEF DeliveryTypeOK, Holder
  <2> QED BY <1>0, <2>1, <2>2, <2>3, <2>4 DEF DeliveryInv, DeliveryTypeOK
<1> QED BY <1>1, <1>2, <1>3, <1>4

\* The scan of the maintenance tick.
LEMMA ScanStepsFit ==
  ASSUME DeliveryInv,
         TickStarts \/ ScanReturns \/ ScanPuts \/ ScanLists \/ ScanArchives \/ ScanFails
  PROVE  DeliveryInv'
<1>0. /\ DeliveryTypeOK /\ TickFits /\ tick \in Tick /\ tick.at \in Video
      /\ tick.list \in SUBSET Video /\ tick.read \in [Video -> Asset \cup {Provider}]
      /\ NoTick \in Tick
  BY NothingTicks DEF DeliveryInv, DeliveryTypeOK, Tick
<1>1. CASE TickStarts
  <2>1. UNCHANGED <<settled, result, archived, retry, runner, rows, objects, expired,
                    endpoint, event, tries, crashes>>
    BY <1>1 DEF TickStarts, assetVars, eventVars
  <2>2. PICK found \in SUBSET {v \in Video : settled[v] = "completed"} :
               \/ Advances(found, result, holder)
               \/ holder' = holder /\ tick' = [tick EXCEPT !.pc = "elsewhere",
                                                 !.list = found, !.read = result]
    <3> DEFINE late == {v \in Video : ArchiveDue(v)}
    <3>1. \/ Advances(late, result, holder)
          \/ holder' = holder /\ tick' = [tick EXCEPT !.pc = "elsewhere",
                                            !.list = late, !.read = result]
      BY <1>1 DEF TickStarts
    <3>2. late \in SUBSET {v \in Video : settled[v] = "completed"}
      BY DEF ArchiveDue
    <3> HIDE DEF late
    <3> QED BY <3>1, <3>2
  <2>3. found \in SUBSET Video /\ \A v \in found : settled[v] = "completed"
    OBVIOUS
  <2>4. tick' \in Tick /\ TickFits' /\ holder' \in [Video -> Holder]
    <3>1. CASE Advances(found, result, holder)
      <4>1. /\ tick' \in Tick /\ holder' \in [Video -> Holder]
            /\ tick'.pc \in {"scanned", "archiving"} /\ tick'.list \subseteq found
            /\ tick'.pc = "archiving" => tick'.at \in found
        BY <1>0, <2>3, <3>1, AdvancesTo DEF DeliveryTypeOK
      <4> QED BY <2>1, <2>3, <4>1 DEF TickFits
    <3>2. CASE holder' = holder /\ tick' = [tick EXCEPT !.pc = "elsewhere",
                                              !.list = found, !.read = result]
      <4>1. tick' \in Tick /\ tick'.pc = "elsewhere" /\ tick'.list = found
        BY <1>0, <2>3, <3>2 DEF Tick, DeliveryTypeOK
      <4> QED BY <1>0, <2>1, <2>3, <3>2, <4>1 DEF TickFits, DeliveryTypeOK
    <3> QED BY <2>2, <3>1, <3>2
  <2>5. \A v \in Video : EventFits(v)' /\ RunnerFits(v)'
    BY <2>1, EventsStand, RunnersStand
  <2> QED BY <1>0, <2>1, <2>4, <2>5 DEF DeliveryInv, DeliveryTypeOK
<1>2. CASE ScanReturns
  <2>1. /\ tick.pc = "elsewhere" /\ Advances(tick.list, tick.read, holder)
        /\ UNCHANGED <<settled, result, archived, retry, runner, rows, objects, expired,
                       endpoint, event, tries, crashes>>
    BY <1>2 DEF ScanReturns, assetVars, eventVars
  <2>2. PICK jobs \in SUBSET Video, read \in [Video -> Asset \cup {Provider}] :
               jobs = tick.list /\ read = tick.read
    BY <1>0
  <2>3. \A v \in jobs : settled[v] = "completed"
    BY <1>0, <2>1, <2>2 DEF TickFits
  <2>4. /\ tick' \in Tick /\ holder' \in [Video -> Holder]
        /\ tick'.pc \in {"scanned", "archiving"} /\ tick'.list \subseteq jobs
        /\ tick'.pc = "archiving" => tick'.at \in jobs
    BY <1>0, <2>1, <2>2, AdvancesTo DEF DeliveryTypeOK
  <2>5. TickFits'
    BY <2>1, <2>3, <2>4 DEF TickFits
  <2>6. \A v \in Video : EventFits(v)' /\ RunnerFits(v)'
    BY <2>1, EventsStand, RunnersStand
  <2> QED BY <1>0, <2>1, <2>4, <2>5, <2>6 DEF DeliveryInv, DeliveryTypeOK
<1>3. CASE ScanPuts \/ ScanLists
  <2>1. /\ UNCHANGED <<settled, result, archived, retry, holder, runner, expired,
                       endpoint, event, tries, crashes>>
        /\ tick.pc \in {"archiving", "put"}
    BY <1>3 DEF ScanPuts, ScanLists, jobVars, eventVars
  <2>2. PICK v \in Video : v = tick.at
    BY <1>0
  <2>3. PICK asset \in Asset, pc \in {"put", "listed"} :
               /\ Puts(v, asset) \/ Lists(v, asset)
               /\ tick' = [tick EXCEPT !.pc = pc, !.made = asset]
    <3>1. CASE ScanPuts
      BY <2>2, <3>1 DEF ScanPuts, NewName
    <3>2. CASE ScanLists
      <4>1. tick.made \in Asset /\ Lists(v, tick.made) /\ tick' = [tick EXCEPT !.pc = "listed"]
        BY <1>0, <2>2, <3>2 DEF ScanLists, TickFits
      <4>2. [tick EXCEPT !.pc = "listed"] = [tick EXCEPT !.pc = "listed", !.made = tick.made]
        BY <1>0 DEF Tick
      <4> QED BY <4>1, <4>2
    <3> QED BY <1>3, <3>1, <3>2
  <2>4. /\ tick' \in Tick /\ tick'.pc = pc /\ tick'.made = asset
        /\ tick'.list = tick.list /\ tick'.at = tick.at
    BY <1>0, <2>3 DEF Tick
  <2>5. TickFits'
    BY <1>0, <2>1, <2>4 DEF TickFits
  <2>6. rows' \in [Video -> SUBSET Asset] /\ objects' \in [Video -> SUBSET Asset]
    BY <2>3, PutsFits
  <2>7. \A w \in Video : EventFits(w)' /\ RunnerFits(w)'
    BY <2>1, EventsStand, RunnersStand
  <2> QED BY <1>0, <2>1, <2>4, <2>5, <2>6, <2>7 DEF DeliveryInv, DeliveryTypeOK
<1>4. CASE ScanArchives \/ ScanFails
  <2>1. /\ tick.pc \in {"archiving", "put", "listed"} /\ settled[tick.at] = "completed"
        /\ UNCHANGED <<settled, runner, expired, endpoint, tries, crashes>>
        /\ ScanGoesOn
    BY <1>0, <1>4 DEF ScanArchives, ScanFails, TickFits, assetVars
  <2>2. PICK jobs \in SUBSET Video, read \in [Video -> Asset \cup {Provider}],
             v \in Video : jobs = tick.list /\ read = tick.read /\ v = tick.at
    BY <1>0
  <2>3. PICK held \in [Video -> Holder] : held = [holder EXCEPT ![v] = "none"]
    BY <1>0 DEF DeliveryTypeOK, Holder
  <2>4. Advances(jobs, read, held)
    BY <2>1, <2>2, <2>3 DEF ScanGoesOn
  <2>5. /\ tick' \in Tick /\ holder' \in [Video -> Holder]
        /\ tick'.pc \in {"scanned", "archiving"} /\ tick'.list \subseteq jobs
        /\ tick'.pc = "archiving" => tick'.at \in jobs
    BY <2>4, AdvancesTo
  <2>6. \A w \in jobs : settled[w] = "completed"
    BY <1>0, <2>1, <2>2 DEF TickFits
  <2>7. TickFits'
    BY <2>1, <2>5, <2>6 DEF TickFits
  <2>8. /\ result' \in [Video -> Asset \cup {Provider}]
        /\ archived' \in [Video -> {"none", "failed", "complete"}]
        /\ retry' \in [Video -> BOOLEAN]
        /\ event' \in [Video -> {"none", "pending", "delivered", "dead"}]
        /\ rows' \in [Video -> SUBSET Asset] /\ objects' \in [Video -> SUBSET Asset]
        /\ \A w \in Video : EventFits(w)'
    <3>1. CASE ScanArchives
      <4>1. PICK asset \in Asset : asset = tick.made
        BY <1>0, <3>1 DEF ScanArchives, TickFits
      <4>2. Replaced(v, asset) /\ UNCHANGED <<rows, objects>>
        BY <2>2, <3>1, <4>1 DEF ScanArchives, assetVars
      <4> QED BY <1>0, <2>1, <2>2, <4>2, ReplacedFits DEF DeliveryTypeOK
    <3>2. CASE ScanFails
      <4>1. PICK own : own = tick.made
        OBVIOUS
      <4>2. ArchiveFailed(v) /\ DeletesOutputs(v, own)
        BY <2>2, <3>2, <4>1 DEF ScanFails
      <4>3. UNCHANGED <<result, event>>
        BY <4>2 DEF ArchiveFailed
      <4> QED BY <1>0, <2>1, <4>2, <4>3, ArchiveFailedFits, EventsStand
              DEF DeliveryTypeOK
    <3> QED BY <1>4, <3>1, <3>2
  <2>9. \A w \in Video : RunnerFits(w)'
    BY <2>1, RunnersStand
  <2> QED BY <1>0, <2>1, <2>5, <2>7, <2>8, <2>9 DEF DeliveryInv, DeliveryTypeOK
<1> QED BY <1>1, <1>2, <1>3, <1>4

\* The events and the cleanup of the maintenance tick.
LEMMA EventStepsFit ==
  ASSUME DeliveryInv,
         ListsEvents \/ (\E v \in Video : PostsEvent(v)) \/ MarksEvent \/ CleansUp
  PROVE  DeliveryInv'
<1>0. /\ DeliveryTypeOK /\ TickFits /\ tick \in Tick /\ tick.at \in Video
      /\ tick.list \in SUBSET Video /\ NoTick \in Tick
      /\ NoTick.pc = "idle" /\ NoTick.list = {}
      /\ MaxPosts \in Nat \ {0}
  BY NothingTicks, DeliveryAssumption
     DEF DeliveryAssumption, DeliveryInv, DeliveryTypeOK, Tick
<1>1. CASE ListsEvents
  <2>1. UNCHANGED <<settled, result, archived, retry, holder, runner, rows, objects,
                    expired, endpoint, event, tries, crashes>>
    BY <1>1 DEF ListsEvents, jobVars, assetVars, eventVars
  <2> DEFINE waiting == {v \in Video : event[v] = "pending" /\ endpoint}
  <2>2. tick' = [NoTick EXCEPT !.pc = "events", !.list = waiting]
    BY <1>1 DEF ListsEvents
  <2>3. waiting \in SUBSET Video /\ \A v \in waiting : event[v] = "pending"
    OBVIOUS
  <2> HIDE DEF waiting
  <2>4. tick' \in Tick /\ tick'.pc = "events" /\ tick'.list = waiting
    BY <1>0, <2>2, <2>3 DEF Tick
  <2>5. TickFits'
    BY <2>1, <2>3, <2>4 DEF TickFits
  <2>6. \A w \in Video : EventFits(w)' /\ RunnerFits(w)'
    BY <2>1, EventsStand, RunnersStand
  <2> QED BY <1>0, <2>1, <2>4, <2>5, <2>6 DEF DeliveryInv, DeliveryTypeOK
<1>2. ASSUME NEW v \in Video, PostsEvent(v) PROVE DeliveryInv'
  <2>1. /\ tick.pc = "events" /\ v \in tick.list
        /\ UNCHANGED <<settled, result, archived, retry, holder, runner, rows, objects,
                       expired, endpoint, event, tries, crashes>>
    BY <1>2 DEF PostsEvent, jobVars, assetVars, eventVars
  <2>2. PICK ok \in BOOLEAN :
               tick' = [tick EXCEPT !.pc = "posted", !.at = v, !.list = @ \ {v}, !.ok = ok]
    BY <1>2 DEF PostsEvent
  <2>3. tick' \in Tick /\ tick'.pc = "posted" /\ tick'.at = v /\ tick'.list = tick.list \ {v}
    BY <1>0, <2>2 DEF Tick
  <2>4. TickFits'
    BY <1>0, <2>1, <2>3 DEF TickFits
  <2>5. \A w \in Video : EventFits(w)' /\ RunnerFits(w)'
    BY <2>1, EventsStand, RunnersStand
  <2> QED BY <1>0, <2>1, <2>3, <2>4, <2>5 DEF DeliveryInv, DeliveryTypeOK
<1>3. CASE MarksEvent
  <2>1. PICK v \in Video : v = tick.at
    BY <1>0
  <2>2. /\ tick.pc = "posted" /\ event[v] = "pending" /\ v \notin tick.list
        /\ tick' = [tick EXCEPT !.pc = "events", !.ok = FALSE]
        /\ UNCHANGED <<settled, result, archived, retry, holder, runner, rows, objects,
                       expired, endpoint, crashes>>
    BY <1>0, <1>3, <2>1 DEF MarksEvent, TickFits, jobVars, assetVars
  <2>3. tries[v] \in Nat /\ tries[v] < MaxPosts /\ settled[v] # "processing"
    BY <1>0, <2>2 DEF DeliveryInv, DeliveryTypeOK, EventFits
  <2>4. \/ event' = [event EXCEPT ![v] = "delivered"] /\ tries' = tries
        \/ /\ tries' = [tries EXCEPT ![v] = tries[v] + 1]
           /\ event' = [event EXCEPT ![v] = IF tries[v] + 1 >= MaxPosts THEN "dead"
                                            ELSE "pending"]
    BY <1>0, <1>3, <2>1, <2>2 DEF MarksEvent, DeliveryTypeOK
  <2>5. /\ event' \in [Video -> {"none", "pending", "delivered", "dead"}]
        /\ tries' \in [Video -> 0 .. MaxPosts]
        /\ \A w \in Video \ {v} : event'[w] = event[w] /\ tries'[w] = tries[w]
        /\ event'[v] # "none" /\ (event'[v] = "pending" => tries'[v] < MaxPosts)
    BY <1>0, <2>3, <2>4 DEF DeliveryTypeOK
  <2>6. \A w \in Video : EventFits(w)'
    BY <2>2, <2>3, <2>5 DEF DeliveryInv, EventFits
  <2>7. tick' \in Tick /\ tick'.pc = "events" /\ tick'.list = tick.list
    BY <1>0, <2>2 DEF Tick
  <2>8. TickFits'
    BY <1>0, <2>2, <2>5, <2>7 DEF TickFits
  <2>9. \A w \in Video : RunnerFits(w)'
    BY <2>2, RunnersStand
  <2> QED BY <1>0, <2>2, <2>5, <2>6, <2>7, <2>8, <2>9 DEF DeliveryInv, DeliveryTypeOK
<1>4. CASE CleansUp
  <2>1. PICK v \in Video, old \in SUBSET Asset :
          /\ rows' = [rows EXCEPT ![v] = @ \ old]
          /\ objects' = [objects EXCEPT ![v] = @ \ old]
          /\ expired' = [expired EXCEPT ![v] = @ \cup (old \cap {result[v]})]
    BY <1>4 DEF CleansUp
  <2>2. /\ tick' = NoTick
        /\ UNCHANGED <<settled, result, archived, retry, holder, runner, endpoint,
                       event, tries, crashes>>
    BY <1>4 DEF CleansUp, jobVars, eventVars
  <2>3. /\ rows' \in [Video -> SUBSET Asset] /\ objects' \in [Video -> SUBSET Asset]
        /\ expired' \in [Video -> SUBSET Asset]
    BY <1>0, <2>1 DEF DeliveryTypeOK
  <2>4. TickFits'
    BY <1>0, <2>2 DEF TickFits
  <2>5. \A w \in Video : EventFits(w)' /\ RunnerFits(w)'
    BY <2>2, EventsStand, RunnersStand
  <2> QED BY <1>0, <2>2, <2>3, <2>4, <2>5 DEF DeliveryInv, DeliveryTypeOK
<1> QED BY <1>1, <1>2, <1>3, <1>4

\* Time, operators and kills.
LEMMA OutsideOfDelivery ==
  ASSUME DeliveryInv,
         \/ SetEndpoint \/ KillProcess
         \/ \E v \in Video : RetryDue(v) \/ Replay(v) \/ LeaseOfDeadLapses(v)
  PROVE  DeliveryInv'
<1>0. /\ DeliveryTypeOK /\ TickFits /\ tick \in Tick /\ NoTick \in Tick
      /\ NoTick.pc = "idle" /\ NoRunner \in Runner /\ NoRunner.pc = "ended"
      /\ MaxPosts \in Nat \ {0}
  BY NothingTicks, DeliveryAssumption
     DEF DeliveryAssumption, DeliveryInv, DeliveryTypeOK
<1>1. CASE SetEndpoint \/ \E v \in Video : RetryDue(v) \/ LeaseOfDeadLapses(v)
  <2>1. UNCHANGED <<settled, result, archived, runner, rows, objects, expired, event,
                    tries, tick, crashes>>
    BY <1>1 DEF SetEndpoint, RetryDue, LeaseOfDeadLapses, jobVars, assetVars, eventVars
  <2>2. /\ endpoint' \in BOOLEAN /\ retry' \in [Video -> BOOLEAN]
        /\ holder' \in [Video -> Holder]
    <3>1. CASE SetEndpoint
      BY <1>0, <3>1 DEF SetEndpoint, jobVars, DeliveryTypeOK
    <3>2. CASE \E v \in Video : RetryDue(v) \/ LeaseOfDeadLapses(v)
      BY <1>0, <3>2 DEF RetryDue, LeaseOfDeadLapses, eventVars, DeliveryTypeOK, Holder
    <3> QED BY <1>1, <3>1, <3>2
  <2>3. (\A w \in Video : EventFits(w)' /\ RunnerFits(w)') /\ TickFits'
    BY <2>1, EventsStand, RunnersStand, TickStands
  <2> QED BY <1>0, <2>1, <2>2, <2>3 DEF DeliveryInv, DeliveryTypeOK
<1>2. ASSUME NEW v \in Video, Replay(v) PROVE DeliveryInv'
  <2>1. /\ event[v] = "dead" /\ event' = [event EXCEPT ![v] = "pending"]
        /\ tries' = [tries EXCEPT ![v] = 0]
        /\ UNCHANGED <<settled, result, archived, retry, holder, runner, rows, objects,
                       expired, endpoint, tick, crashes>>
    BY <1>2 DEF Replay, jobVars, assetVars
  <2>2. /\ event' \in [Video -> {"none", "pending", "delivered", "dead"}]
        /\ tries' \in [Video -> 0 .. MaxPosts] /\ settled[v] # "processing"
        /\ \A w \in Video : EventFits(w)'
    BY <1>0, <2>1 DEF DeliveryInv, DeliveryTypeOK, EventFits
  <2>3. (\A w \in Video : RunnerFits(w)') /\ TickFits'
    BY <1>0, <2>1, RunnersStand, TickStands DEF DeliveryTypeOK
  <2> QED BY <1>0, <2>1, <2>2, <2>3 DEF DeliveryInv, DeliveryTypeOK
<1>3. CASE KillProcess
  <2>1. /\ crashes < MaxCrashes /\ crashes' = crashes + 1 /\ tick' = NoTick
        /\ UNCHANGED <<settled, result, archived, retry, rows, objects, expired,
                       endpoint, event, tries>>
    BY <1>3 DEF KillProcess, assetVars, eventVars
  <2>2. crashes' \in 0 .. MaxCrashes
    BY <1>0, <2>1, DeliveryAssumption DEF DeliveryAssumption, DeliveryTypeOK
  <2>3. PICK waited \in BOOLEAN, taken \in SUBSET {v \in Video : settled[v] = "processing"} :
          /\ runner' = [v \in Video |->
                 IF v \in taken THEN [pc |-> "polling", made |-> NoAsset] ELSE NoRunner]
          /\ holder' = [v \in Video |->
                 CASE v \in taken -> "runner"
                   [] v \notin taken /\ ~waited /\ holder[v] # "none" -> "dead"
                   [] OTHER -> "none"]
    <3>1. PICK waited \in BOOLEAN :
            LET taken == {v \in Video : waited /\ settled[v] = "processing"
                                               /\ runner[v].pc # "ended"}
            IN /\ runner' = [v \in Video |->
                 IF v \in taken THEN [pc |-> "polling", made |-> NoAsset] ELSE NoRunner]
               /\ holder' = [v \in Video |->
                 CASE v \in taken -> "runner"
                   [] v \notin taken /\ ~waited /\ holder[v] # "none" -> "dead"
                   [] OTHER -> "none"]
      BY <1>3 DEF KillProcess
    <3> DEFINE taken == {v \in Video : waited /\ settled[v] = "processing"
                                               /\ runner[v].pc # "ended"}
    <3>2. taken \in SUBSET {v \in Video : settled[v] = "processing"}
      OBVIOUS
    <3> QED BY <3>1, <3>2
  <2>4. holder' \in [Video -> Holder]
    BY <2>3 DEF Holder
  <2>5. [pc |-> "polling", made |-> NoAsset] \in Runner
    BY DEF Runner
  <2>6. runner' \in [Video -> Runner]
    BY <1>0, <2>3, <2>5
  <2>7. \A w \in Video : RunnerFits(w)'
    BY <1>0, <2>1, <2>3 DEF RunnerFits
  <2>8. (\A w \in Video : EventFits(w)') /\ TickFits'
    BY <1>0, <2>1, EventsStand DEF TickFits
  <2> QED BY <1>0, <2>1, <2>2, <2>4, <2>6, <2>7, <2>8 DEF DeliveryInv, DeliveryTypeOK
<1> QED BY <1>1, <1>2, <1>3

LEMMA DeliveryInvIsKept == DeliveryInv /\ [DeliveryNext]_deliveryVars => DeliveryInv'
<1> SUFFICES ASSUME DeliveryInv, [DeliveryNext]_deliveryVars PROVE DeliveryInv'
  OBVIOUS
<1>1. CASE UNCHANGED deliveryVars
  <2>1. UNCHANGED <<settled, result, archived, retry, holder, runner, rows, objects,
                    expired, endpoint, event, tries, tick, crashes>>
    BY <1>1 DEF deliveryVars, jobVars, assetVars, eventVars
  <2>2. (\A w \in Video : EventFits(w)' /\ RunnerFits(w)') /\ TickFits'
    BY <2>1, EventsStand, RunnersStand, TickStands
  <2> QED BY <2>1, <2>2 DEF DeliveryInv, DeliveryTypeOK
<1> QED BY <1>1, RunnerStepsFit, ScanStepsFit, EventStepsFit, OutsideOfDelivery
        DEF DeliveryNext, TickGoesOn

LEMMA DeliveryTypes == DeliverySpec => []DeliveryTypeOK
<1>1. DeliveryInv => DeliveryTypeOK
  BY DEF DeliveryInv
<1> QED BY <1>1, DeliveryInvHoldsAtFirst, DeliveryInvIsKept, PTL DEF DeliverySpec

-----------------------------------------------------------------------------
(* The worker pipeline. *)

\* What the invariants of the pipeline do not speak of.
ClaimsTypeOK ==
  /\ due \in [Order -> {"never", "later", "now"}] /\ archive \subseteq Order
  /\ bound \in [Order -> Order \cup Elsewhere \cup {Nobody}]
  /\ claim \in [Order -> Hold] /\ lease \in [Order -> Hold]
  /\ faults \in 0 .. MaxFaults /\ disowned \subseteq Order

\* Claims and leases are taken and given back.
LEMMA HoldsAreTyped ==
  ASSUME NEW g \in Gateway, NEW table \in [Order -> Hold], NEW j \in Order
  PROVE  Without(table, g, j) \in [Order -> Hold] /\ With(table, g, j) \in [Order -> Hold]
         /\ [table EXCEPT ![j] = Free] \in [Order -> Hold]
<1>1. Free \in Hold /\ [by |-> g, live |-> TRUE] \in Hold
  BY DEF Free, Hold
<1> QED BY <1>1 DEF Without, With

LEMMA HoldsRunOut ==
  ASSUME NEW table \in [Order -> Hold], NEW j \in Order
  PROVE  [table EXCEPT ![j].live = FALSE] \in [Order -> Hold]
<1>1. \A h \in Hold : [h EXCEPT !.live = FALSE] \in Hold
  BY DEF Hold
<1>2. [table EXCEPT ![j].live = FALSE] = [table EXCEPT ![j] = [table[j] EXCEPT !.live = FALSE]]
  OBVIOUS
<1> QED BY <1>1, <1>2

\* What a worker may do to the tables while it works on its job.
KeepsTables(g) ==
  /\ claim' \in {claim, Without(claim, g, Job(g))}
  /\ lease' \in {lease, Without(lease, g, Job(g))}
  /\ \/ UNCHANGED due
     \/ \E when \in {"never", "later"} : due' = [due EXCEPT ![Job(g)] = when]

LEMMA TablesStayTyped ==
  ASSUME ClaimsTypeOK, NEW g \in Gateway, Job(g) \in Order, KeepsTables(g)
  PROVE  /\ claim' \in [Order -> Hold] /\ lease' \in [Order -> Hold]
         /\ due' \in [Order -> {"never", "later", "now"}]
<1>1. PICK j \in Order : j = Job(g)
  OBVIOUS
<1>2. Without(claim, g, j) \in [Order -> Hold] /\ Without(lease, g, j) \in [Order -> Hold]
  BY HoldsAreTyped DEF ClaimsTypeOK
<1>3. due' \in [Order -> {"never", "later", "now"}]
  BY DEF ClaimsTypeOK, KeepsTables
<1> QED BY <1>1, <1>2, <1>3 DEF ClaimsTypeOK, KeepsTables

\* A job of the list of a tick.
LEMMA ListedAreOrders ==
  ASSUME NEW g \in Gateway, gateway[g] \in Process, NEW item \in gateway[g].todo
  PROVE  item[1] \in Order
  BY DEF Process

LEMMA ClaimingIsTyped ==
  ASSUME ClaimsTypeOK, NEW g \in Gateway, NEW jobs, NEW label, Claims(g, jobs, label)
  PROVE  claim' \in [Order -> Hold]
<1>1. [by |-> g, live |-> TRUE] \in Hold
  BY DEF Hold
<1> QED BY <1>1 DEF ClaimsTypeOK, Claims

\* The steps that take jobs, in the order of a tick.
LEMMA TakingIsTyped ==
  ASSUME ClaimsTypeOK, NEW g \in Gateway, gateway[g] \in Process,
         \/ Ticks(g) \/ QueueTakes(g) \/ TakesActive(g) \/ ClaimsUnknown(g)
         \/ TakesUnknown(g)
  PROVE  ClaimsTypeOK'
<1>1. UNCHANGED <<due, archive, bound, faults, disowned>>
  BY DEF Ticks, QueueTakes, TakesActive, ClaimsUnknown, TakesUnknown, rowVars, evidenceVars
<1>2. CASE Ticks(g) \/ ClaimsUnknown(g)
  <2>1. claim' \in [Order -> Hold] /\ UNCHANGED lease
    BY <1>2, ClaimingIsTyped DEF Ticks, ClaimsUnknown
  <2> QED BY <1>1, <2>1 DEF ClaimsTypeOK
<1>3. CASE QueueTakes(g) \/ TakesUnknown(g)
  <2>1. PICK item \in gateway[g].todo :
          \/ lease' = With(lease, g, item[1]) /\ UNCHANGED claim
          \/ claim' = Without(claim, g, item[1]) /\ UNCHANGED lease
    BY <1>3 DEF QueueTakes, TakesUnknown
  <2>2. PICK j \in Order : j = item[1]
    BY ListedAreOrders
  <2>3. With(lease, g, j) \in [Order -> Hold] /\ Without(claim, g, j) \in [Order -> Hold]
    BY HoldsAreTyped DEF ClaimsTypeOK
  <2> QED BY <1>1, <2>1, <2>2, <2>3 DEF ClaimsTypeOK
<1>4. CASE TakesActive(g)
  <2>1. PICK item \in gateway[g].todo :
          \/ UNCHANGED lease \/ lease' = [lease EXCEPT ![item[1]] = Free]
          \/ lease' = With(lease, g, item[1])
    BY <1>4 DEF TakesActive
  <2>2. PICK j \in Order : j = item[1]
    BY ListedAreOrders
  <2>3. With(lease, g, j) \in [Order -> Hold] /\ [lease EXCEPT ![j] = Free] \in [Order -> Hold]
    BY HoldsAreTyped DEF ClaimsTypeOK
  <2>4. UNCHANGED claim
    BY <1>4 DEF TakesActive
  <2> QED BY <1>1, <2>1, <2>2, <2>3, <2>4 DEF ClaimsTypeOK
<1> QED BY <1>2, <1>3, <1>4

\* The queue worker at its job, and the lists.
LEMMA QueueKeepsTables ==
  ASSUME NEW g \in Gateway, Job(g) \in Order, ClaimsTypeOK,
         \/ StartGateway(g) \/ BaselineFails(g) \/ CapturesBaseline(g) \/ LeavesQueue(g)
         \/ UndoesReservation(g) \/ DropsOrder(g) \/ QueueDone(g) \/ ListsActive(g)
         \/ TickEnds(g)
  PROVE  KeepsTables(g) /\ UNCHANGED <<archive, bound, faults>> /\ disowned' \subseteq Order
  BY DEF ClaimsTypeOK, KeepsTables, StartGateway, BaselineFails, CapturesBaseline,
     LeavesQueue, UndoesReservation, DropsOrder, QueueDone, ListsActive, TickEnds, Moves,
     LetsGo, rowVars, evidenceVars

LEMMA SubmitKeepsTables ==
  ASSUME NEW g \in Gateway, Job(g) \in Order,
         \/ MarksIntent(g) \/ Sends(g) \/ SendFails(g) \/ HearsAnswer(g) \/ MarksAnswer(g)
         \/ SettlesPoints(g) \/ MovesOn(g)
  PROVE  KeepsTables(g) /\ UNCHANGED <<archive, bound, faults, disowned>>
  BY DEF KeepsTables, MarksIntent, Sends, SendFails, HearsAnswer, MarksAnswer,
     SettlesPoints, MovesOn, Moves, LetsGo, Dies, rowVars, evidenceVars

LEMMA DiscoveryKeepsTables ==
  ASSUME NEW g \in Gateway, Job(g) \in Order,
         \/ Discovers(g) \/ MarksLost(g) \/ GetsLost(g) \/ GetsFollowed(g)
         \/ Polls(g) \/ MarksBlind(g) \/ GoesBlind(g) \/ EndsOrder(g) \/ MarksEnd(g)
  PROVE  KeepsTables(g) /\ UNCHANGED <<archive, bound, faults, disowned>>
  BY DEF KeepsTables, Discovers, MarksLost, GetsLost, GetsFollowed, Polls, MarksBlind,
     GoesBlind, EndsOrder, EndsAs, MarksEnd, Moves, LetsGo, Dies, rowVars, evidenceVars

LEMMA ReconcileKeepsTables ==
  ASSUME NEW g \in Gateway, Job(g) \in Order,
         \/ Defers(g) \/ HearsEnd(g) \/ EndsUnknown(g) \/ MarksEndOfUnknown(g)
         \/ ReconcileDone(g)
  PROVE  KeepsTables(g) /\ UNCHANGED <<archive, bound, faults, disowned>>
  BY DEF KeepsTables, Defers, HearsEnd, EndsUnknown, EndsAs, MarksEndOfUnknown,
     ReconcileDone, ClaimGoes, Moves, LetsGo, Dies, rowVars, evidenceVars

LEMMA BindingIsTyped ==
  ASSUME ClaimsTypeOK, NEW g \in Gateway, gateway[g] \in Process, Binds(g)
  PROVE  ClaimsTypeOK'
<1>0. Job(g) \in Order /\ gateway[g].task \in Order \cup Elsewhere \cup {Nobody}
  BY DEF Process, Job
<1>1. KeepsTables(g) /\ UNCHANGED <<archive, faults, disowned>>
  BY DEF Binds, KeepsTables, Dies, rowVars
<1>2. bound' = bound \/ bound' = [bound EXCEPT ![Job(g)] = gateway[g].task]
  BY DEF Binds, evidenceVars
<1>3. bound' \in [Order -> Order \cup Elsewhere \cup {Nobody}]
  BY <1>0, <1>2 DEF ClaimsTypeOK
<1> QED BY <1>0, <1>1, <1>3, TablesStayTyped DEF ClaimsTypeOK

LEMMA ArchivingIsTyped ==
  ASSUME ClaimsTypeOK, NEW g \in Gateway, Job(g) \in Order, ArchivesOutput(g)
  PROVE  ClaimsTypeOK'
<1>1. KeepsTables(g) /\ UNCHANGED <<bound, faults, disowned>> /\ archive' \subseteq Order
  BY DEF ClaimsTypeOK, ArchivesOutput, KeepsTables, LetsGo, Dies, evidenceVars
<1> QED BY <1>1, TablesStayTyped DEF ClaimsTypeOK

\* The clock, the provider, new jobs and kills.
LEMMA OutsideIsTyped ==
  ASSUME ClaimsTypeOK,
         \/ \E g \in Gateway : KillGateway(g)
         \/ \E j \in Order : \/ AdmitOrder(j) \/ MakesTask(j) \/ ClaimRunsOut(j)
                             \/ LeaseRunsOut(j) \/ ComesDue(j)
  PROVE  ClaimsTypeOK'
<1> USE PipelineAssumption DEF PipelineAssumption
<1>1. faults' \in 0 .. MaxFaults
  BY DEF ClaimsTypeOK, KillGateway, AdmitOrder, MakesTask, ClaimRunsOut, LeaseRunsOut,
     ComesDue, Stalls
<1>2. UNCHANGED <<archive, bound, disowned>>
  BY DEF KillGateway, AdmitOrder, MakesTask, ClaimRunsOut, LeaseRunsOut, ComesDue,
     rowVars, evidenceVars
<1>3. \/ UNCHANGED <<due, claim, lease>>
      \/ \E j \in Order : ClaimRunsOut(j) \/ LeaseRunsOut(j) \/ ComesDue(j)
  BY DEF KillGateway, AdmitOrder, MakesTask, rowVars
<1>4. ASSUME NEW j \in Order, ClaimRunsOut(j) \/ LeaseRunsOut(j) \/ ComesDue(j)
      PROVE  /\ claim' \in [Order -> Hold] /\ lease' \in [Order -> Hold]
             /\ due' \in [Order -> {"never", "later", "now"}]
  <2>1. CASE ClaimRunsOut(j)
    BY <2>1, HoldsRunOut DEF ClaimRunsOut, ClaimsTypeOK, rowVars
  <2>2. CASE LeaseRunsOut(j)
    BY <2>2, HoldsRunOut DEF LeaseRunsOut, ClaimsTypeOK, rowVars
  <2>3. CASE ComesDue(j)
    BY <2>3 DEF ComesDue, ClaimsTypeOK
  <2> QED BY <1>4, <2>1, <2>2, <2>3
<1> QED BY <1>1, <1>2, <1>3, <1>4 DEF ClaimsTypeOK

LEMMA ClaimsAreTyped ==
  ClaimsTypeOK /\ RefundsInv /\ [PipelineNext]_pipelineVars => ClaimsTypeOK'
<1> SUFFICES ASSUME ClaimsTypeOK, RefundsInv, [PipelineNext]_pipelineVars
             PROVE  ClaimsTypeOK'
  OBVIOUS
<1>1. \A g \in Gateway : gateway[g] \in Process /\ Job(g) \in Order
  BY DEF RefundsInv, SendsInv, Process, Job
<1>2. CASE UNCHANGED pipelineVars
  BY <1>2 DEF pipelineVars, rowVars, evidenceVars, ClaimsTypeOK
<1>3. ASSUME NEW g \in Gateway, StartGateway(g) \/ Works(g)
      PROVE  ClaimsTypeOK'
  <2>0. gateway[g] \in Process /\ Job(g) \in Order
    BY <1>1
  <2>1. \/ Ticks(g) \/ QueueTakes(g) \/ TakesActive(g) \/ ClaimsUnknown(g)
        \/ TakesUnknown(g) \/ Binds(g) \/ ArchivesOutput(g)
        \/ KeepsTables(g) /\ UNCHANGED <<archive, bound, faults>> /\ disowned' \subseteq Order
    <3>1. disowned \subseteq Order
      BY DEF ClaimsTypeOK
    <3> QED BY <1>3, <2>0, <3>1, QueueKeepsTables, SubmitKeepsTables, DiscoveryKeepsTables,
               ReconcileKeepsTables DEF Works
  <2>2. CASE KeepsTables(g) /\ UNCHANGED <<archive, bound, faults>> /\ disowned' \subseteq Order
    BY <2>0, <2>2, TablesStayTyped DEF ClaimsTypeOK
  <2> QED BY <2>0, <2>1, <2>2, TakingIsTyped, BindingIsTyped, ArchivingIsTyped
<1> QED BY <1>2, <1>3, OutsideIsTyped DEF PipelineNext

LEMMA PipelineTypes == PipelineSpec => []PipelineTypeOK
<1>1. PipelineInit => ClaimsTypeOK
  BY PipelineAssumption DEF PipelineAssumption, PipelineInit, ClaimsTypeOK, Free, Hold
<1>2. RefundsInv /\ ClaimsTypeOK => PipelineTypeOK
  BY DEF RefundsInv, SendsInv, PointsInv, ClaimsTypeOK, PipelineTypeOK
<1> QED BY <1>1, <1>2, ClaimsAreTyped, RefundsInvHoldsAtFirst, RefundsInvIsKept, PTL
        DEF PipelineSpec

-----------------------------------------------------------------------------
(* The services side by side. *)

LEMMA ServicesBegin ==
  ServicesInit => /\ AccountsInit /\ SignInInit /\ DeliveryInit /\ IntakeInit
                  /\ UploadInit /\ AccessInit /\ ServingInit /\ PipelineInit
  BY DEF ServicesInit

LEMMA ServicesGoOn ==
  [ServicesNext]_servicesVars =>
    /\ [AccountsNext]_accountsVars /\ [SignInNext]_signInVars
    /\ [DeliveryNext]_deliveryVars /\ [IntakeNext]_intakeVars
    /\ [UploadNext]_uploadVars /\ [AccessNext]_accessVars
    /\ [ServingNext]_servingVars /\ [PipelineNext]_pipelineVars
<1>1. CASE UNCHANGED servicesVars
  BY <1>1 DEF servicesVars
<1>2. CASE ServicesNext
  BY <1>2 DEF ServicesNext, Others
<1> QED BY <1>1, <1>2

\* A behaviour of the services side by side is one of each of them, so that what
\* is proved of a service alone holds there: they share no state.
THEOREM PartsAreServices ==
  ServicesSpec => /\ AccountsSpec /\ SignInSpec /\ DeliverySpec /\ IntakeSpec
                  /\ UploadSpec /\ AccessSpec /\ ServingSpec /\ PipelineSpec
BY ServicesBegin, ServicesGoOn, PTL
   DEF ServicesSpec, AccountsSpec, SignInSpec, DeliverySpec, IntakeSpec, UploadSpec,
       AccessSpec, ServingSpec, PipelineSpec

LEMMA UploadTypes == UploadSpec => []UploadTypeOK
<1>1. UploadInit => UploadInv
  BY UploadAssumption, UploadInvHoldsAtFirst
<1>2. UploadInv /\ [UploadNext]_uploadVars => UploadInv'
  BY UploadAssumption, UploadInvIsKept
<1>3. UploadInv => UploadTypeOK
  BY DEF UploadInv
<1> QED BY <1>1, <1>2, <1>3, PTL DEF UploadSpec

\* Whatever accounts, subscribers, videos, requests, parts, keys, connections and
\* jobs there are: no step of a service writes what its variables cannot hold, a
\* counter below zero, a row of an unknown key or a claim of no process.
THEOREM ServicesTypes == ServicesSpec => []ServicesTypeOK
<1>1. ServicesSpec =>
        /\ []AccountsTypeOK /\ []SignInTypeOK /\ []DeliveryTypeOK /\ []IntakeTypeOK
        /\ []UploadTypeOK /\ []AccessTypeOK /\ []ServingTypeOK /\ []PipelineTypeOK
  BY PartsAreServices, AccountsTypes, SignInTypes, DeliveryTypes, IntakeTypes,
     UploadTypes, AccessTypes, ServingTypes, PipelineTypes, PTL
<1>2. ServicesTypeOK <=>
        /\ AccountsTypeOK /\ SignInTypeOK /\ DeliveryTypeOK /\ IntakeTypeOK
        /\ UploadTypeOK /\ AccessTypeOK /\ ServingTypeOK /\ PipelineTypeOK
  BY DEF ServicesTypeOK
<1> QED BY <1>1, <1>2, PTL

\* What a run of the services checks of their states, for all of them at once.
ServicesAreSafe ==
  /\ OneManagerPerAccount /\ CredentialsOfOneLogin /\ RuntimeFollowsRow
  /\ CompletedOncePerDay /\ SignedWasPosted /\ TempSpaceAccounted /\ UploadIsWhole
  /\ JobsOfActiveOwners /\ NobodySleepsThrough
  /\ PaidOnce /\ RefundsAreSafe /\ PointsFollowStatus

\* Side by side, too, every service keeps its promise: credentials are of one
\* login, a day is completed once, an upload is whole, a request paid once.
THEOREM ServicesKeepTheirPromises == ServicesSpec => []ServicesAreSafe
<1>1. ServicesSpec =>
        /\ []OneManagerPerAccount /\ []CredentialsOfOneLogin /\ []RuntimeFollowsRow
        /\ []CompletedOncePerDay /\ []SignedWasPosted /\ []TempSpaceAccounted
        /\ []UploadIsWhole /\ []JobsOfActiveOwners /\ []NobodySleepsThrough
        /\ []PaidOnce /\ []RefundsAreSafe /\ []PointsFollowStatus
  BY PartsAreServices, ManagersAreSingle, CredentialsAreOfOneLogin, RuntimesFollowRows,
     OneCompletionPerDay, SignedIsSigned, TempSpaceIsAccounted, UploadsAreWhole,
     JobsAreOfActiveOwners, SleepersAreWoken, PaidOnceAlways, RefundsAreSafeAlways,
     PointsFollowStatusAlways, PTL
<1>2. ServicesAreSafe <=>
        /\ OneManagerPerAccount /\ CredentialsOfOneLogin /\ RuntimeFollowsRow
        /\ CompletedOncePerDay /\ SignedWasPosted /\ TempSpaceAccounted /\ UploadIsWhole
        /\ JobsOfActiveOwners /\ NobodySleepsThrough
        /\ PaidOnce /\ RefundsAreSafe /\ PointsFollowStatus
  BY DEF ServicesAreSafe
<1> QED BY <1>1, <1>2, PTL
=============================================================================
