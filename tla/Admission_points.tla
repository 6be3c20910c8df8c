-------------------------- MODULE Admission_points --------------------------
(***************************************************************************)
(* The points and the keys of the requests, for any set of requests,       *)
(* accounts and projects, any limits and any number of restarts: one job   *)
(* for a key, a ledger that tells what became of the points, limits that   *)
(* are not overrun, and what a client is told.                             *)
(***************************************************************************)
EXTENDS Admission, Sums

-----------------------------------------------------------------------------
(* Types, but for those of the managers. *)

CallTypeOK ==
  /\ pc \in [Request -> Label]
  /\ todo \in [Request -> SUBSET Account]
  /\ others \in [Request -> SUBSET Account]
  /\ candidate \in [Request -> Account \cup {NoAccount}]
  /\ allFull \in [Request -> BOOLEAN]
  /\ answer \in [Request -> Refusal \cup Request]
  /\ running \subseteq Request
  /\ restarts \in 0..MaxRestarts
  /\ leaked \subseteq Request

\* A call has a candidate while it waits for its slots.
HasCandidate ==
  \A r \in Request : pc[r] \in {"waitSlot", "waitSeat"} => candidate[r] \in Account

Typed == StoreTypeOK /\ CallTypeOK /\ HasCandidate

\* A step of the transactions that leaves the tables alone.
LEMMA StoreKept ==
  ASSUME StoreTypeOK, UNCHANGED storeVars
  PROVE  StoreTypeOK'
  BY DEF StoreTypeOK, storeVars, moneyVars

\* A step that leaves the calls alone.
LEMMA CallsKept ==
  ASSUME CallTypeOK, HasCandidate, UNCHANGED <<requestVars, restarts>>,
         running' \subseteq running, leaked' \subseteq Request
  PROVE  CallTypeOK' /\ HasCandidate'
  BY DEF CallTypeOK, HasCandidate, requestVars

\* An answer ends a call well.
LEMMA AnswerTyped ==
  ASSUME CallTypeOK, HasCandidate, NEW r \in Request,
         NEW what \in Refusal \cup Request, Answer(r, what),
         UNCHANGED <<todo, restarts>>, running' \subseteq Request,
         leaked' \subseteq Request
  PROVE  CallTypeOK' /\ HasCandidate'
<1>1. CallTypeOK'
  BY DEF CallTypeOK, Answer, Goto, Label
<1>2. HasCandidate'
  BY DEF CallTypeOK, HasCandidate, Answer, Goto
<1> QED BY <1>1, <1>2

\* So does a call that turns to a candidate.
LEMMA TryTyped ==
  ASSUME CallTypeOK, HasCandidate, NEW r \in Request, NEW full \in BOOLEAN,
         \E a \in First(others[r]) : Try(r, a, full),
         UNCHANGED <<todo, running, restarts, leaked>>
  PROVE  CallTypeOK' /\ HasCandidate'
<1>1. PICK a \in others[r] : Try(r, a, full)
  BY DEF First
<1>2. a \in Account
  BY <1>1 DEF CallTypeOK
<1>3. CallTypeOK'
  BY <1>1, <1>2 DEF CallTypeOK, Try, Goto, Label
<1>4. HasCandidate'
  BY <1>1, <1>2 DEF CallTypeOK, HasCandidate, Try, Goto
<1> QED BY <1>3, <1>4

\* And one that looks for the next candidate.
LEMMA TryNextTyped ==
  ASSUME CallTypeOK, HasCandidate, NEW r \in Request, NEW full \in BOOLEAN,
         TryNext(r, full), UNCHANGED <<todo, running, restarts, leaked>>
  PROVE  CallTypeOK' /\ HasCandidate'
<1>1. \/ \E what \in {"queue_full", "no_account"} : Answer(r, what)
      \/ \E a \in First(others[r]) : Try(r, a, full)
  BY DEF TryNext
<1>2. {"queue_full", "no_account"} \subseteq Refusal
  BY DEF Refusal
<1>3. running' \subseteq Request /\ leaked' \subseteq Request
  BY DEF CallTypeOK
<1> QED BY <1>1, <1>2, <1>3, AnswerTyped, TryTyped

\* A job that is found under a key is a request.
LEMMA SameKeyTyped ==
  ASSUME NEW r, NEW j \in SameKey(r)
  PROVE  j \in Request
  BY DEF SameKey

-----------------------------------------------------------------------------
(* Every step is typed. *)

\* The steps of a call, whose transactions leave the tables alone.
LEMMA CallStepTyped ==
  ASSUME Typed, NEW r \in Request,
         \/ Arrive(r) \/ PrepareFails(r) \/ LookUpKey(r)
         \/ \E a \in Account : LookAt(r, a)
         \/ Choose(r) \/ TakeSeat(r)
         \/ ReserveFindsJob(r) \/ ReserveRefusedByPlan(r)
         \/ ReserveRefusedByAccount(r)
         \/ StartRunner(r) \/ RequeuedTakesSeat(r) \/ RequeuedStarts(r)
  PROVE  Typed'
<1> USE DEF Typed
<1>0. running \subseteq Request /\ leaked \subseteq Request
      /\ {"queue_full", "invalid", "conflict", "no_account", "plan"} \subseteq Refusal
  BY DEF CallTypeOK, Refusal
<1>1. StoreTypeOK'
  <2>1. UNCHANGED storeVars
    BY DEF Arrive, PrepareFails, LookUpKey, LookAt, Choose, TakeSeat,
           ReserveFindsJob, ReserveRefusedByPlan, ReserveRefusedByAccount,
           StartRunner, RequeuedTakesSeat, RequeuedStarts, Settled
  <2> QED BY <2>1, StoreKept
<1>2. CASE Arrive(r)
  <2>1. CASE Answer(r, "queue_full")
    BY <1>0, <1>1, <1>2, <2>1, AnswerTyped DEF Arrive, Settled
  <2>2. CASE Goto(r, "preparing") /\ UNCHANGED <<answer, Memory>>
    BY <1>1, <1>2, <2>2
       DEF Arrive, Settled, Goto, Memory, CallTypeOK, HasCandidate, Label
  <2> QED BY <1>2, <2>1, <2>2 DEF Arrive
<1>3. CASE PrepareFails(r)
  BY <1>0, <1>1, <1>3, AnswerTyped DEF PrepareFails, Settled
<1>4. CASE LookUpKey(r)
  <2>1. CASE \E j \in SameKey(r) :
               Answer(r, IF Matches(r, account[j], j) THEN j ELSE "conflict")
    <3>1. PICK j \in Request :
                 Answer(r, IF Matches(r, account[j], j) THEN j ELSE "conflict")
      BY <2>1, SameKeyTyped
    <3>2. UNCHANGED <<todo, restarts, running, leaked>> \/ SameKey(r) = {}
      BY <1>4 DEF LookUpKey, Settled
    <3>3. SameKey(r) # {}
      BY <2>1
    <3> QED BY <1>0, <1>1, <3>1, <3>2, <3>3, AnswerTyped
  <2>2. CASE /\ Goto(r, "evaluating")
             /\ todo' = [todo EXCEPT ![r] = {a \in Account : open[a]}]
             /\ UNCHANGED <<answer, Memory>>
    <3>1. {a \in Account : open[a]} \in SUBSET Account
      OBVIOUS
    <3> QED BY <1>1, <1>4, <2>2, <3>1
       DEF LookUpKey, Settled, Goto, Memory, CallTypeOK, HasCandidate, Label
  <2> QED BY <1>4, <2>1, <2>2 DEF LookUpKey
<1>5. ASSUME NEW a \in Account, LookAt(r, a) PROVE Typed'
  <2>1. todo' \in [Request -> SUBSET Account] /\ others' \in [Request -> SUBSET Account]
    BY <1>5 DEF LookAt, CallTypeOK
  <2> QED BY <1>1, <1>5, <2>1 DEF LookAt, Settled, CallTypeOK, HasCandidate
<1>6. CASE Choose(r)
  <2>1. CASE Answer(r, "no_account")
    BY <1>0, <1>1, <1>6, <2>1, AnswerTyped DEF Choose, Settled
  <2>2. CASE \E a \in First(others[r]) : Try(r, a, TRUE)
    BY <1>1, <1>6, <2>2, TryTyped DEF Choose, Settled
  <2> QED BY <1>6, <2>1, <2>2 DEF Choose
<1>7. CASE TakeSeat(r)
  <2>1. CASE TryNext(r, allFull[r])
    BY <1>1, <1>7, <2>1, TryNextTyped DEF TakeSeat, Settled, CallTypeOK
  <2>2. CASE AskForSeat(r, candidate[r])
    BY <1>1, <1>7, <2>2
       DEF TakeSeat, AskForSeat, Settled, Goto, Memory, CallTypeOK, HasCandidate, Label
  <2> QED BY <1>7, <2>1, <2>2 DEF TakeSeat
<1>8. CASE ReserveFindsJob(r)
  <2>1. PICK j \in Request :
               Answer(r, IF Matches(r, candidate[r], j) THEN j ELSE "conflict")
    BY <1>8, SameKeyTyped DEF ReserveFindsJob
  <2> QED BY <1>0, <1>1, <1>8, <2>1, AnswerTyped DEF ReserveFindsJob, Settled
<1>9. CASE ReserveRefusedByPlan(r)
  BY <1>0, <1>1, <1>9, AnswerTyped DEF ReserveRefusedByPlan, Settled
<1>10. CASE ReserveRefusedByAccount(r)
  BY <1>1, <1>10, TryNextTyped DEF ReserveRefusedByAccount, Settled
<1>11. CASE StartRunner(r)
  BY <1>0, <1>1, <1>11, AnswerTyped DEF StartRunner
<1>12. CASE RequeuedTakesSeat(r)
  <2>1. pc' \in [Request -> Label] /\ leaked' \subseteq Request
    BY <1>0, <1>12 DEF RequeuedTakesSeat, Goto, CallTypeOK, Label
  <2>2. \A x \in Request : pc'[x] \in {"waitSlot", "waitSeat"} => pc[x] = pc'[x]
    BY <1>12 DEF RequeuedTakesSeat, Goto, CallTypeOK
  <2> QED BY <1>1, <1>12, <2>1, <2>2
          DEF RequeuedTakesSeat, Memory, CallTypeOK, HasCandidate
<1>13. CASE RequeuedStarts(r)
  <2>1. pc' \in [Request -> Label] /\ running' \subseteq Request
    BY <1>0, <1>13 DEF RequeuedStarts, Goto, CallTypeOK, Label
  <2>2. \A x \in Request : pc'[x] \in {"waitSlot", "waitSeat"} => pc[x] = pc'[x]
    BY <1>13 DEF RequeuedStarts, Goto, CallTypeOK
  <2> QED BY <1>1, <1>13, <2>1, <2>2
          DEF RequeuedStarts, Memory, CallTypeOK, HasCandidate
<1> QED BY <1>2, <1>3, <1>4, <1>5, <1>6, <1>7, <1>8, <1>9, <1>10, <1>11, <1>12, <1>13

\* A row of the ledger that some transaction writes.
LEMMA LedgerTyped ==
  ASSUME NEW r, ledger \in [Request -> SUBSET LedgerRow],
         NEW row \in LedgerRow, ledger' = [ledger EXCEPT ![r] = @ \cup {row}]
  PROVE  ledger' \in [Request -> SUBSET LedgerRow]
  OBVIOUS

\* A job that failed before it was submitted has its points back.
LEMMA FailTyped ==
  ASSUME StoreTypeOK, NEW r \in Request, FailAndRelease(r), expiring' \subseteq Request
  PROVE  StoreTypeOK'
<1>1. <<"release", "before_submit">> \in LedgerRow
  BY DEF LedgerRow
<1>2. ledger' \in [Request -> SUBSET LedgerRow]
  BY <1>1, LedgerTyped DEF FailAndRelease, Enter, StoreTypeOK
<1> QED BY <1>2 DEF StoreTypeOK, FailAndRelease, Status

\* The steps that reserve points for a request, or fail to.
LEMMA ReserveStepTyped ==
  ASSUME Typed, NEW r \in Request,
         ReserveCreates(r) \/ ReserveAtMidnight(r) \/ PersistFails(r)
  PROVE  Typed'
<1> USE DEF Typed
<1>0. running \subseteq Request /\ leaked \subseteq Request /\ expiring \subseteq Request
      /\ "invalid" \in Refusal
  BY DEF CallTypeOK, Refusal, StoreTypeOK
<1>1. CASE ReserveCreates(r)
  <2>1. candidate[r] \in Account
    BY <1>1 DEF ReserveCreates, Seated, HasCandidate
  <2>2. <<"hold", "quoted_generation_cost">> \in LedgerRow
    BY DEF LedgerRow
  <2>3. ledger' \in [Request -> SUBSET LedgerRow]
    BY <1>1, <2>2, LedgerTyped DEF ReserveCreates, Reserve, Enter, StoreTypeOK
  <2>4. StoreTypeOK'
    BY <1>1, <2>1, <2>3 DEF ReserveCreates, Reserve, StoreTypeOK, Status
  <2>5. CallTypeOK' /\ HasCandidate'
    BY <1>1 DEF ReserveCreates, Goto, Memory, CallTypeOK, HasCandidate, Label
  <2> QED BY <2>4, <2>5
<1>2. CASE ReserveAtMidnight(r)
  <2>1. StoreTypeOK'
    BY <1>2 DEF ReserveAtMidnight, StoreTypeOK, moneyVars
  <2> QED BY <1>0, <1>2, <2>1, AnswerTyped DEF ReserveAtMidnight
<1>3. CASE PersistFails(r)
  <2>1. StoreTypeOK'
    BY <1>0, <1>3, FailTyped, StoreKept DEF PersistFails
  <2>2. leaked' \subseteq Request
    BY <1>0, <1>3 DEF PersistFails
  <2> QED BY <1>0, <1>3, <2>1, <2>2, AnswerTyped DEF PersistFails
<1> QED BY <1>1, <1>2, <1>3

\* The steps of a runner, of the reconciler, of clients and of operators.
LEMMA JobStepTyped ==
  ASSUME Typed, NEW r \in Request,
         \/ Submit(r) \/ ChargeSubmitted(r) \/ Follow(r) \/ Finish(r) \/ Stop(r)
         \/ FailBeforeTask(r) \/ Lose(r) \/ HandOver(r) \/ Reconcile(r)
         \/ HoldExpires(r) \/ Cancel(r) \/ Resolve(r)
  PROVE  Typed'
<1> USE DEF Typed
<1>0. running \subseteq Request /\ leaked \subseteq Request /\ expiring \subseteq Request
  BY DEF CallTypeOK, StoreTypeOK
<1>1. CallTypeOK' /\ HasCandidate'
  <2>1. /\ UNCHANGED <<requestVars, restarts>> /\ running' \subseteq running
        /\ leaked' \subseteq Request
    BY <1>0 DEF Submit, ChargeSubmitted, Follow, Finish, Stop, FailBeforeTask, Lose,
           HandOver, Reconcile, HoldExpires, Cancel, Resolve
  <2> QED BY <2>1, CallsKept
<1>2. ASSUME Submit(r) \/ Follow(r) \/ Finish(r) \/ Lose(r) \/ HandOver(r) \/ Reconcile(r)
      PROVE  StoreTypeOK'
  <2>1. status' \in [Request -> Status] /\ expiring' \subseteq Request
    BY <1>0, <1>2
       DEF Submit, Follow, Finish, Lose, HandOver, Reconcile, StoreTypeOK, Status
  <2>2. UNCHANGED <<day, open, limit, plan, ask, account, moneyVars>>
    BY <1>2 DEF Submit, Follow, Finish, Lose, HandOver, Reconcile
  <2> QED BY <2>1, <2>2 DEF StoreTypeOK, moneyVars
<1>3. CASE ChargeSubmitted(r)
  <2>1. <<"charge", "upstream_submit_may_have_occurred">> \in LedgerRow
    BY DEF LedgerRow
  <2>2. ledger' \in [Request -> SUBSET LedgerRow]
    BY <1>3, <2>1, LedgerTyped DEF ChargeSubmitted, Charge, Enter, StoreTypeOK
  <2> QED BY <1>1, <1>3, <2>2 DEF ChargeSubmitted, Charge, StoreTypeOK
<1>4. CASE Stop(r)
  BY <1>1, <1>4, StoreKept DEF Stop
<1>5. CASE FailBeforeTask(r) \/ Cancel(r)
  BY <1>0, <1>1, <1>5, FailTyped DEF FailBeforeTask, Cancel
<1>6. CASE HoldExpires(r)
  BY <1>0, <1>1, <1>6 DEF HoldExpires, StoreTypeOK, moneyVars
<1>7. CASE Resolve(r)
  <2>1. PICK action \in {"charge", "release"} : ResolveUnknown(r, action)
    BY <1>7 DEF Resolve
  <2>2. <<action, "admin_resolved_unknown">> \in LedgerRow
    BY DEF LedgerRow
  <2>3. ledger' \in [Request -> SUBSET LedgerRow]
    BY <2>1, <2>2, LedgerTyped DEF ResolveUnknown, Enter, StoreTypeOK
  <2>4. expiring' \subseteq Request
    BY <1>0, <1>7 DEF Resolve
  <2> QED BY <1>1, <2>1, <2>3, <2>4 DEF ResolveUnknown, StoreTypeOK, Status
<1> QED BY <1>1, <1>2, <1>3, <1>4, <1>5, <1>6, <1>7

\* The steps of operators on accounts and projects, and those of the clock.
LEMMA SettingTyped ==
  ASSUME Typed,
         \/ \E a \in Account : Toggle(a) \/ SetLimit(a)
         \/ \E p \in Project : Assign(p)
         \/ Midnight
  PROVE  Typed'
<1> USE DEF Typed
<1>1. CallTypeOK' /\ HasCandidate'
  <2>1. UNCHANGED <<requestVars, restarts, running, leaked>>
    BY DEF Toggle, SetLimit, Assign, Midnight
  <2>2. running' \subseteq running /\ leaked' \subseteq Request
    BY <2>1 DEF CallTypeOK
  <2> QED BY <2>1, <2>2, CallsKept
<1>2. ASSUME NEW a \in Account, Toggle(a) PROVE StoreTypeOK'
  BY <1>2 DEF Toggle, StoreTypeOK, moneyVars
<1>3. ASSUME NEW a \in Account, SetLimit(a) PROVE StoreTypeOK'
  BY <1>3, LimitAssumption DEF SetLimit, StoreTypeOK, moneyVars
<1>4. ASSUME NEW p \in Project, Assign(p) PROVE StoreTypeOK'
  BY <1>4, LimitAssumption DEF Assign, StoreTypeOK, moneyVars
<1>5. ASSUME Midnight PROVE StoreTypeOK'
  BY <1>5 DEF Midnight, StoreTypeOK, moneyVars
<1> QED BY <1>1, <1>2, <1>3, <1>4, <1>5

\* A kill and the start after it.
LEMMA RestartTyped ==
  ASSUME Typed, Restart
  PROVE  Typed'
<1> USE DEF Typed
<1>1. PICK n \in SlotLimits, gone \in SUBSET {a \in Account : ~open[a]},
           order \in Orders({r \in Request : status[r] = "queued"}) :
             Recover(n, order, gone)
  BY DEF Restart
<1>2. status' \in [Request -> Status]
  BY <1>1 DEF Recover, StoreTypeOK, Status
<1>3. entry' \in [Request -> {"none", "reserved", "charged", "released"}]
  BY <1>1 DEF Recover, StoreTypeOK
<1>4. ledger' \in [Request -> SUBSET LedgerRow]
  <2>1. <<"charge", "upstream_submit_may_have_occurred">> \in LedgerRow
    BY DEF LedgerRow
  <2> QED BY <1>1, <2>1 DEF Recover, StoreTypeOK
<1>5. expiring' \subseteq Request /\ running' \subseteq Request
  BY <1>1 DEF Recover, StoreTypeOK
<1>6. StoreTypeOK'
  BY <1>2, <1>3, <1>4, <1>5 DEF Restart, StoreTypeOK
<1>7. pc' \in [Request -> {"requeued", "new", "done"}]
  BY <1>1 DEF Recover
<1>8. /\ todo' \in [Request -> SUBSET Account]
      /\ others' \in [Request -> SUBSET Account]
      /\ candidate' \in [Request -> Account \cup {NoAccount}]
      /\ allFull' \in [Request -> BOOLEAN]
      /\ leaked' \subseteq Request
  BY DEF Restart
<1>9. answer' \in [Request -> Refusal \cup Request]
  BY DEF Restart, CallTypeOK, Refusal
<1>10. restarts' \in 0..MaxRestarts
  BY BoundAssumption DEF Restart, CallTypeOK
<1>11. CallTypeOK'
  BY <1>5, <1>7, <1>8, <1>9, <1>10 DEF CallTypeOK, Label
<1>12. HasCandidate'
  BY <1>7 DEF HasCandidate
<1> QED BY <1>6, <1>11, <1>12

\* The program starts well typed.
LEMMA InitTyped ==
  ASSUME Init
  PROVE  Typed
<1>1. StoreTypeOK
  BY LimitAssumption DEF Init, StoreTypeOK, Status
<1>2. CallTypeOK /\ HasCandidate
  BY BoundAssumption DEF Init, CallTypeOK, HasCandidate, Label, Refusal
<1> QED BY <1>1, <1>2 DEF Typed

\* Every step is typed.
LEMMA StepTyped ==
  ASSUME Typed, [Next]_vars
  PROVE  Typed'
<1>1. ASSUME UNCHANGED vars PROVE Typed'
  <2>1. CallTypeOK' /\ HasCandidate'
    BY <1>1 DEF vars, requestVars, Typed, CallTypeOK, HasCandidate
  <2> QED BY <1>1, <2>1, StoreKept DEF vars, Typed
<1> QED BY <1>1, CallStepTyped, ReserveStepTyped, JobStepTyped, SettingTyped,
           RestartTyped DEF Next, Call, Runner

-----------------------------------------------------------------------------
(* The inductive invariant. *)

\* A call before the end of its reservation has no job.
Early == {"new", "preparing", "evaluating", "waitSlot", "waitSeat"}

Types(r) == {row[1] : row \in ledger[r]}

EntryFollowed(r) ==
  /\ Exists(r) <=> entry[r] # "none"
  /\ ~Exists(r) => ledger[r] = {}
  /\ Exists(r) => "hold" \in Types(r)
  /\ entry[r] = "reserved" => Types(r) = {"hold"}
  /\ entry[r] = "charged" => "charge" \in Types(r)
  /\ entry[r] = "released" => "release" \in Types(r)

Unborn(r) == pc[r] \in Early => ~Exists(r)

PointsInv ==
  /\ Typed
  /\ \A r \in Request : Unborn(r) /\ EntryFollowed(r)
  /\ OneJobPerKey

\* A step that leaves the job of a request, its points and its ledger alone,
\* but for what is made of the job.
Kept(r) ==
  /\ Exists(r)' <=> Exists(r)
  /\ entry'[r] = entry[r] /\ ledger'[r] = ledger[r]
  /\ pc'[r] \in Early => pc[r] \in Early

\* What is kept stays as it should be.
LEMMA KeptFollowed ==
  ASSUME NEW r \in Request, Unborn(r), EntryFollowed(r), Kept(r)
  PROVE  Unborn(r)' /\ EntryFollowed(r)'
  BY DEF Unborn, EntryFollowed, Kept, Exists, Types

\* A key stays with its job while no job is made.
LEMMA KeysKept ==
  ASSUME OneJobPerKey, ask' = ask, \A r \in Request : Exists(r)' => Exists(r)
  PROVE  OneJobPerKey'
  BY DEF OneJobPerKey, Key

\* A new row of the ledger adds its type.
LEMMA Entered ==
  ASSUME StoreTypeOK, NEW r \in Request, NEW type, NEW reason,
         Enter(r, type, reason)
  PROVE  /\ Types(r)' = Types(r) \cup {type}
         /\ \A x \in Request : x # r => ledger'[x] = ledger[x]
<1>1. /\ ledger'[r] = ledger[r] \cup {<<type, reason>>}
      /\ \A x \in Request : x # r => ledger'[x] = ledger[x]
  BY DEF Enter, StoreTypeOK
<1>2. Types(r) = {row[1] : row \in ledger[r]}
  BY DEF Types
<1>3. Types(r)' = {row[1] : row \in ledger'[r]}
  BY DEF Types
<1>4. ASSUME NEW rows, NEW row
      PROVE  {x[1] : x \in rows \cup {row}} = {x[1] : x \in rows} \cup {row[1]}
  OBVIOUS
<1>5. Types(r)' = {row[1] : row \in ledger[r]} \cup {<<type, reason>>[1]}
  BY <1>1, <1>3, <1>4
<1> QED BY <1>1, <1>2, <1>5

\* A call does not go back before its reservation, and its steps make no job.
LEMMA CallStepKeeps ==
  ASSUME Typed, NEW r \in Request,
         \/ Arrive(r) \/ PrepareFails(r) \/ LookUpKey(r)
         \/ \E a \in Account : LookAt(r, a)
         \/ Choose(r) \/ TakeSeat(r)
         \/ ReserveFindsJob(r) \/ ReserveRefusedByPlan(r)
         \/ ReserveRefusedByAccount(r)
         \/ StartRunner(r) \/ RequeuedTakesSeat(r) \/ RequeuedStarts(r),
         NEW x \in Request
  PROVE  Kept(x) /\ ask' = ask
<1>1. UNCHANGED storeVars
  BY DEF Arrive, PrepareFails, LookUpKey, LookAt, Choose, TakeSeat,
         ReserveFindsJob, ReserveRefusedByPlan, ReserveRefusedByAccount,
         StartRunner, RequeuedTakesSeat, RequeuedStarts, Settled
<1>2. pc'[x] = pc[x] \/ pc'[x] \notin Early \/ (x = r /\ pc[r] \in Early)
  BY DEF Arrive, PrepareFails, LookUpKey, LookAt, Choose, TakeSeat, TryNext,
         ReserveFindsJob, ReserveRefusedByPlan, ReserveRefusedByAccount,
         StartRunner, RequeuedTakesSeat, RequeuedStarts, Answer, Try, AskForSeat,
         Goto, Seated, Early, Typed, CallTypeOK
<1> QED BY <1>1, <1>2 DEF Kept, Exists, storeVars, moneyVars

\* So it is with the steps that change what is made of a job only.
LEMMA OtherStepKeeps ==
  ASSUME Typed, NEW r \in Request,
         \/ Submit(r) \/ Follow(r) \/ Finish(r) \/ Stop(r) \/ Lose(r)
         \/ HandOver(r) \/ Reconcile(r) \/ HoldExpires(r) \/ ReserveAtMidnight(r)
         \/ \E a \in Account : Toggle(a) \/ SetLimit(a)
         \/ \E p \in Project : Assign(p)
         \/ Midnight \/ UNCHANGED vars,
         NEW x \in Request
  PROVE  Kept(x) /\ ask' = ask
<1>1. UNCHANGED <<ask, account, moneyVars>>
  BY DEF Submit, Follow, Finish, Stop, Lose, HandOver, Reconcile, HoldExpires,
         ReserveAtMidnight, Toggle, SetLimit, Assign, Midnight, vars, storeVars
<1>2. Exists(x)' <=> Exists(x)
  BY DEF Submit, Follow, Finish, Stop, Lose, HandOver, Reconcile, HoldExpires,
         ReserveAtMidnight, Toggle, SetLimit, Assign, Midnight, vars, storeVars,
         Exists, Typed, StoreTypeOK
<1>3. pc'[x] = pc[x] \/ pc'[x] \notin Early
  BY DEF Submit, Follow, Finish, Stop, Lose, HandOver, Reconcile, HoldExpires,
         ReserveAtMidnight, Toggle, SetLimit, Assign, Midnight, vars, requestVars,
         Answer, Goto, Early, Typed, CallTypeOK
<1> QED BY <1>1, <1>2, <1>3 DEF Kept, moneyVars

\* The points that are given back are told.
LEMMA FailFollowed ==
  ASSUME Typed, NEW r \in Request, FailAndRelease(r), Exists(r), EntryFollowed(r)
  PROVE  /\ EntryFollowed(r)' /\ Exists(r)' /\ ask' = ask
         /\ \A x \in Request : x # r =>
              status'[x] = status[x] /\ entry'[x] = entry[x] /\ ledger'[x] = ledger[x]
<1>1. /\ Types(r)' = Types(r) \cup {"release"}
      /\ \A x \in Request : x # r => ledger'[x] = ledger[x]
  BY Entered DEF FailAndRelease, Typed
<1>2. /\ status'[r] = "failed" /\ entry'[r] = "released" /\ ask' = ask
      /\ \A x \in Request : x # r => status'[x] = status[x] /\ entry'[x] = entry[x]
  BY DEF FailAndRelease, Typed, StoreTypeOK
<1> QED BY <1>1, <1>2 DEF EntryFollowed, Exists

\* A reservation holds the points of the one job of its key.
LEMMA ReserveKeeps ==
  ASSUME PointsInv, NEW r \in Request, ReserveCreates(r)
  PROVE  /\ \A x \in Request : Unborn(x)' /\ EntryFollowed(x)'
         /\ OneJobPerKey'
<1>1. Typed /\ SameKey(r) = {} /\ ~Exists(r) /\ ledger[r] = {}
  BY DEF PointsInv, ReserveCreates, CanReserve, Seated, Unborn, EntryFollowed, Early
<1>2. /\ Types(r)' = Types(r) \cup {"hold"}
      /\ \A x \in Request : x # r => ledger'[x] = ledger[x]
  BY <1>1, Entered DEF ReserveCreates, Reserve, Typed
<1>3. /\ status'[r] = "queued" /\ entry'[r] = "reserved" /\ ask' = ask
      /\ pc'[r] = "persisting"
      /\ \A x \in Request : x # r =>
           status'[x] = status[x] /\ entry'[x] = entry[x] /\ pc'[x] = pc[x]
  BY <1>1 DEF ReserveCreates, Reserve, Goto, Typed, StoreTypeOK, CallTypeOK
<1>4. Types(r) = {}
  BY <1>1 DEF Types
<1>5. Unborn(r)' /\ EntryFollowed(r)'
  BY <1>2, <1>3, <1>4 DEF Unborn, EntryFollowed, Exists, Early
<1>6. \A x \in Request : x # r => Kept(x)
  BY <1>2, <1>3 DEF Kept, Exists
<1>7. \A x \in Request : x # r => Unborn(x)' /\ EntryFollowed(x)'
  BY <1>6, KeptFollowed DEF PointsInv
<1>8. OneJobPerKey'
  <2>1. \A x \in Request : Exists(x) /\ Key(x) = Key(r) => Key(r) = NoKey
    BY <1>1 DEF SameKey
  <2>2. \A x \in Request : Exists(x)' => Exists(x) \/ x = r
    BY <1>3 DEF Exists
  <2>3. \A x \in Request : Key(x)' = Key(x)
    BY <1>3 DEF Key
  <2> QED BY <2>1, <2>2, <2>3 DEF PointsInv, OneJobPerKey
<1> QED BY <1>5, <1>7, <1>8

\* The steps that charge a job or give its points back.
LEMMA SettleKeeps ==
  ASSUME PointsInv, NEW r \in Request,
         \/ PersistFails(r) \/ ChargeSubmitted(r) \/ FailBeforeTask(r)
         \/ Cancel(r) \/ Resolve(r)
  PROVE  /\ \A x \in Request : Unborn(x)' /\ EntryFollowed(x)'
         /\ OneJobPerKey'
<1>0. Typed /\ EntryFollowed(r) /\ Unborn(r)
  BY DEF PointsInv
<1>1. \A x \in Request : pc'[x] \in Early => pc[x] \in Early
  BY <1>0 DEF PersistFails, ChargeSubmitted, FailBeforeTask, Cancel, Resolve, Answer,
              Goto, Early, requestVars, Typed, CallTypeOK
<1>2. CASE UNCHANGED storeVars
  <2>1. \A x \in Request : Kept(x)
    BY <1>1, <1>2 DEF Kept, Exists, storeVars, moneyVars
  <2>2. ask' = ask /\ \A x \in Request : Exists(x)' => Exists(x)
    BY <1>2 DEF Exists, storeVars
  <2> QED BY <2>1, <2>2, KeptFollowed, KeysKept DEF PointsInv
<1>3. CASE /\ Exists(r)' /\ Exists(r) /\ EntryFollowed(r)' /\ ask' = ask
           /\ \A x \in Request : x # r =>
                status'[x] = status[x] /\ entry'[x] = entry[x] /\ ledger'[x] = ledger[x]
  <2>1. \A x \in Request : x # r => Kept(x)
    BY <1>1, <1>3 DEF Kept, Exists
  <2>2. \A x \in Request : x # r => Unborn(x)' /\ EntryFollowed(x)'
    BY <2>1, KeptFollowed DEF PointsInv
  <2>3. Unborn(r)'
    BY <1>0, <1>1, <1>3 DEF Unborn
  <2>4. \A x \in Request : Exists(x)' => Exists(x)
    BY <1>3 DEF Exists
  <2>5. OneJobPerKey'
    BY <1>3, <2>4, KeysKept DEF PointsInv
  <2> QED BY <1>3, <2>2, <2>3, <2>5
<1>4. CASE Exists(r) /\ FailAndRelease(r)
  BY <1>0, <1>3, <1>4, FailFollowed
<1>5. CASE ChargeSubmitted(r)
  <2>1. /\ Types(r)' = Types(r) \cup {"charge"}
        /\ \A x \in Request : x # r => ledger'[x] = ledger[x]
    BY <1>0, <1>5, Entered DEF ChargeSubmitted, Charge, Typed
  <2>2. /\ status' = status /\ status[r] = "submitting" /\ entry'[r] = "charged"
        /\ ask' = ask
        /\ \A x \in Request : x # r => entry'[x] = entry[x]
    BY <1>0, <1>5 DEF ChargeSubmitted, Charge, Typed, StoreTypeOK
  <2>3. EntryFollowed(r)' /\ Exists(r)' /\ Exists(r)
    BY <1>0, <2>1, <2>2 DEF EntryFollowed, Exists
  <2> QED BY <2>1, <2>2, <2>3, <1>3
<1>6. CASE Resolve(r)
  <2>1. PICK action \in {"charge", "release"} : ResolveUnknown(r, action)
    BY <1>6 DEF Resolve
  <2>2. /\ Types(r)' = Types(r) \cup {action}
        /\ \A x \in Request : x # r => ledger'[x] = ledger[x]
    BY <1>0, <2>1, Entered DEF ResolveUnknown, Typed
  <2>3. /\ status[r] = "unknown" /\ status'[r] = "failed" /\ ask' = ask
        /\ entry'[r] = IF action = "charge" THEN "charged" ELSE "released"
        /\ \A x \in Request : x # r => status'[x] = status[x] /\ entry'[x] = entry[x]
    BY <1>0, <2>1 DEF ResolveUnknown, Typed, StoreTypeOK
  <2>4. EntryFollowed(r)' /\ Exists(r)' /\ Exists(r)
    BY <1>0, <2>2, <2>3 DEF EntryFollowed, Exists
  <2> QED BY <2>2, <2>3, <2>4, <1>3
<1> QED BY <1>2, <1>4, <1>5, <1>6
        DEF PersistFails, FailBeforeTask, Cancel, Exists

\* A start charges what may have been submitted, and the ledger is told.
LEMMA RestartKeeps ==
  ASSUME PointsInv, Restart
  PROVE  /\ \A x \in Request : Unborn(x)' /\ EntryFollowed(x)'
         /\ OneJobPerKey'
<1>1. PICK n \in SlotLimits, gone \in SUBSET {a \in Account : ~open[a]},
           order \in Orders({r \in Request : status[r] = "queued"}) :
             Recover(n, order, gone)
  BY DEF Restart
<1>2. \A x \in Request :
        /\ Exists(x)' <=> Exists(x)
        /\ pc'[x] \in Early => pc[x] \in Early
        /\ \/ entry'[x] = entry[x] /\ ledger'[x] = ledger[x]
           \/ /\ Exists(x) /\ entry'[x] = "charged"
              /\ ledger'[x] = ledger[x] \cup
                                {<<"charge", "upstream_submit_may_have_occurred">>}
  <2> DEFINE back == {r \in Request : \/ status[r] \in {"submitting", "processing"}
                                      \/ status[r] = "unknown" /\ r \in expiring}
  <2>1. \A x \in Request : Exists(x)' <=> Exists(x)
    BY <1>1 DEF Recover, Exists
  <2>2. \A x \in Request : pc'[x] \in Early => pc[x] \in Early
    BY <1>1 DEF Recover, Early
  <2>3. \A x \in back : Exists(x)
    BY DEF Exists
  <2>4. /\ entry' = [r \in Request |->
                       IF r \in back /\ entry[r] = "reserved" THEN "charged"
                       ELSE entry[r]]
        /\ ledger' = [r \in Request |->
                        IF r \in back /\ entry[r] = "reserved"
                          THEN ledger[r] \cup
                                 {<<"charge", "upstream_submit_may_have_occurred">>}
                          ELSE ledger[r]]
    BY <1>1 DEF Recover
  <2> HIDE DEF back
  <2> QED BY <2>1, <2>2, <2>3, <2>4
<1>3. ask' = ask
  BY DEF Restart
<1>4. ASSUME NEW x \in Request PROVE Unborn(x)' /\ EntryFollowed(x)'
  <2>1. CASE entry'[x] = entry[x] /\ ledger'[x] = ledger[x]
    BY <1>2, <2>1, KeptFollowed DEF PointsInv, Kept
  <2>2. CASE /\ Exists(x) /\ entry'[x] = "charged"
             /\ ledger'[x] = ledger[x] \cup
                               {<<"charge", "upstream_submit_may_have_occurred">>}
    <3>1. <<"charge", "upstream_submit_may_have_occurred">>[1] = "charge"
      OBVIOUS
    <3>2. Types(x)' = Types(x) \cup {"charge"}
      BY <2>2, <3>1 DEF Types
    <3> QED BY <1>2, <2>2, <3>2 DEF PointsInv, Unborn, EntryFollowed
  <2> QED BY <1>2, <2>1, <2>2
<1>5. OneJobPerKey'
  BY <1>2, <1>3, KeysKept DEF PointsInv
<1> QED BY <1>4, <1>5

\* Every step keeps the points, the ledger and the keys together.
LEMMA PointsStep ==
  ASSUME PointsInv, [Next]_vars
  PROVE  PointsInv'
<1>1. Typed'
  BY StepTyped DEF PointsInv
<1> DEFINE Goal == /\ \A x \in Request : Unborn(x)' /\ EntryFollowed(x)'
                   /\ OneJobPerKey'
<1>2. ASSUME ask' = ask \/ Request = {}, \A x \in Request : Kept(x) PROVE Goal
  <2>1. \A x \in Request : Exists(x)' => Exists(x)
    BY <1>2 DEF Kept
  <2>2. OneJobPerKey'
    BY <1>2, <2>1, KeysKept DEF PointsInv, OneJobPerKey
  <2> QED BY <1>2, <2>2, KeptFollowed DEF PointsInv
<1>3. ASSUME NEW r \in Request,
             \/ Arrive(r) \/ PrepareFails(r) \/ LookUpKey(r)
             \/ \E a \in Account : LookAt(r, a)
             \/ Choose(r) \/ TakeSeat(r)
             \/ ReserveFindsJob(r) \/ ReserveRefusedByPlan(r)
             \/ ReserveRefusedByAccount(r)
             \/ StartRunner(r) \/ RequeuedTakesSeat(r) \/ RequeuedStarts(r)
      PROVE  Goal
  BY <1>2, <1>3, CallStepKeeps DEF PointsInv
<1>4. ASSUME NEW r \in Request,
             \/ Submit(r) \/ Follow(r) \/ Finish(r) \/ Stop(r) \/ Lose(r)
             \/ HandOver(r) \/ Reconcile(r) \/ HoldExpires(r) \/ ReserveAtMidnight(r)
      PROVE  Goal
  BY <1>2, <1>4, OtherStepKeeps DEF PointsInv
<1>5. ASSUME \/ \E a \in Account : Toggle(a) \/ SetLimit(a)
             \/ \E p \in Project : Assign(p)
             \/ Midnight \/ UNCHANGED vars
      PROVE  Goal
  BY <1>2, <1>5, OtherStepKeeps DEF PointsInv
<1> HIDE DEF Goal
<1>6. Goal
  <2>1. ASSUME NEW r \in Request, ReserveCreates(r) PROVE Goal
    BY <2>1, ReserveKeeps DEF Goal
  <2>2. ASSUME NEW r \in Request,
               \/ PersistFails(r) \/ ChargeSubmitted(r) \/ FailBeforeTask(r)
               \/ Cancel(r) \/ Resolve(r)
        PROVE  Goal
    BY <2>2, SettleKeeps DEF Goal
  <2>3. ASSUME Restart PROVE Goal
    BY <2>3, RestartKeeps DEF Goal
  <2> QED BY <1>3, <1>4, <1>5, <2>1, <2>2, <2>3 DEF Next, Call, Runner
<1> QED BY <1>1, <1>6 DEF PointsInv, Goal

\* The program starts without a job.
LEMMA PointsInit ==
  ASSUME Init
  PROVE  PointsInv
<1>1. Typed
  BY InitTyped
<1>2. \A r \in Request : ~Exists(r) /\ entry[r] = "none" /\ ledger[r] = {}
  BY DEF Init, Exists
<1> QED BY <1>1, <1>2 DEF PointsInv, Unborn, EntryFollowed, OneJobPerKey, Types

\* Every transaction on points and keys, a restart between any two of them
\* included, keeps the inductive invariant.
THEOREM PointsInvariant == Spec => []PointsInv
<1>1. Init => PointsInv
  BY PointsInit
<1>2. PointsInv /\ [Next]_vars => PointsInv'
  BY PointsStep
<1> QED BY <1>1, <1>2, PTL DEF Spec

-----------------------------------------------------------------------------
(* What follows from it. *)

\* However the calls with one key overlap, are repeated or come after a
\* restart, one of them at most has made a job
\* (accounts/sqlite-admission-repository.ts:539-549).
THEOREM OneJobForAKey == Spec => []OneJobPerKey
<1>1. PointsInv => OneJobPerKey
  BY DEF PointsInv
<1> QED BY <1>1, PointsInvariant, PTL

\* The ledger tells what became of every entry
\* (accounts/sqlite-admission-repository.ts:351-470).
THEOREM LedgerIsTrue == Spec => []LedgerFollowsEntry
<1>1. PointsInv => LedgerFollowsEntry
  <2>1. SUFFICES ASSUME PointsInv, NEW r \in Request
                 PROVE  /\ entry[r] = "reserved" => Types(r) = {"hold"}
                        /\ entry[r] = "charged" => {"hold", "charge"} \subseteq Types(r)
                        /\ entry[r] = "released" => {"hold", "release"} \subseteq Types(r)
    BY DEF LedgerFollowsEntry, Types
  <2> QED BY <2>1 DEF PointsInv, EntryFollowed
<1> QED BY <1>1, PointsInvariant, PTL

-----------------------------------------------------------------------------
(* The limits of accounts and projects. *)

\* The jobs whose points count on a day or in a month.
OnDay(jobs, d) == {r \in jobs : countsTowardBudget(r) /\ booked[r] = d}
InMonth(jobs, m) == {r \in jobs : countsTowardBudget(r) /\ Month(booked[r]) = m}

LEMMA PointsTyped ==
  ASSUME StoreTypeOK
  PROVE  \A r \in Request : Points(r) \in Nat
  BY AskAssumption DEF StoreTypeOK, Points, Quote

\* A step that leaves alone what requests ask for adds up the same points.
LEMMA UsageIsTotal ==
  ASSUME StoreTypeOK, UNCHANGED ask
  PROVE  \E f \in [Request -> Nat] :
           /\ \A r \in Request : f[r] = Points(r)
           /\ \A jobs, d :
                /\ UsedOnDay(jobs, d) = Total(f, OnDay(jobs, d))
                /\ UsedInMonth(jobs, d) = Total(f, InMonth(jobs, d))
           /\ \A a, d :
                /\ UsedOnDay(JobsOf(a), d)' = Total(f, OnDay(JobsOf(a), d)')
                /\ UsedInMonth(JobsOf(a), d)' = Total(f, InMonth(JobsOf(a), d)')
           /\ \A p, d :
                /\ UsedOnDay(JobsFor(p), d)' = Total(f, OnDay(JobsFor(p), d)')
                /\ UsedInMonth(JobsFor(p), d)' = Total(f, InMonth(JobsFor(p), d)')
<1>1. PICK f : f = [r \in Request |-> Points(r)]
  OBVIOUS
<1>2. f \in [Request -> Nat] /\ \A r \in Request : f[r] = Points(r)
  BY <1>1, PointsTyped
<1>3. \A r \in Request : Points(r)' = Points(r)
  BY DEF Points, Quote
<1>4. f = [r \in Request |-> Points(r)']
  BY <1>1, <1>3
<1> USE DEF UsedOnDay, UsedInMonth, OnDay, InMonth, PointsOf, Total
<1>5. \A jobs, d :
         /\ UsedOnDay(jobs, d) = Total(f, OnDay(jobs, d))
         /\ UsedInMonth(jobs, d) = Total(f, InMonth(jobs, d))
  BY <1>1
<1>6. \A a, d :
         /\ UsedOnDay(JobsOf(a), d)' = Total(f, OnDay(JobsOf(a), d)')
         /\ UsedInMonth(JobsOf(a), d)' = Total(f, InMonth(JobsOf(a), d)')
  BY <1>4 DEF JobsOf
<1>7. \A p, d :
         /\ UsedOnDay(JobsFor(p), d)' = Total(f, OnDay(JobsFor(p), d)')
         /\ UsedInMonth(JobsFor(p), d)' = Total(f, InMonth(JobsFor(p), d)')
  BY <1>4 DEF JobsFor
<1> HIDE DEF UsedOnDay, UsedInMonth, OnDay, InMonth, PointsOf, Total
<1> QED BY <1>2, <1>5, <1>6, <1>7

\* Fewer jobs do not have more points.
LEMMA NoGrowth ==
  ASSUME NEW f \in [Request -> Nat], NEW S \in SUBSET Request, NEW T \in SUBSET S,
         NEW most
  PROVE  Grows(Total(f, S), Total(f, T), most)
<1>1. IsFiniteSet(S) /\ IsFiniteSet(T) /\ T \subseteq Request
  BY RequestAssumption, FS_Subset
<1>2. Total(f, S) \in Nat /\ Total(f, T) \in Nat /\ Total(f, T) <= Total(f, S)
  BY <1>1, SumGrows, SumType
<1> QED BY <1>2 DEF Grows

\* One job more has its own points more.
LEMMA OneMoreJob ==
  ASSUME NEW f \in [Request -> Nat], NEW S \in SUBSET Request, NEW r \in Request,
         NEW T \in SUBSET (S \cup {r}), NEW most \in Nat,
         most # 0 => Total(f, S) + f[r] <= most
  PROVE  Grows(Total(f, S), Total(f, T), most)
<1>1. /\ IsFiniteSet(S) /\ IsFiniteSet(S \cup {r}) /\ IsFiniteSet(T)
      /\ S \cup {r} \subseteq Request /\ T \subseteq Request
  BY RequestAssumption, FS_Subset
<1>2. Total(f, T) <= Total(f, S \cup {r})
  BY <1>1, SumGrows
<1>3. Total(f, T) \in Nat /\ Total(f, S) \in Nat /\ Total(f, S \cup {r}) \in Nat
  BY <1>1, SumType
<1>4. CASE r \in S
  <2>1. T \in SUBSET S
    BY <1>4
  <2> QED BY <2>1, NoGrowth
<1>5. CASE r \notin S
  <2>1. Total(f, S \cup {r}) = f[r] + Total(f, S)
    BY <1>1, <1>5, SumWith
  <2>2. f[r] \in Nat
    OBVIOUS
  <2>3. ASSUME most # 0 PROVE Total(f, T) <= most
    <3> DEFINE t == Total(f, T)
               u == Total(f, S \cup {r})
               v == Total(f, S)
    <3>1. t <= u /\ u = f[r] + v /\ v + f[r] <= most
      BY <1>2, <2>1, <2>3
    <3>2. t \in Nat /\ u \in Nat /\ v \in Nat
      BY <1>3
    <3> HIDE DEF t, u, v
    <3>3. u = v + f[r]
      BY <2>2, <3>1, <3>2
    <3>4. t <= most
      BY <3>1, <3>2, <3>3
    <3> QED BY <3>4 DEF t
  <2> QED BY <2>3 DEF Grows
<1> QED BY <1>4, <1>5

\* What a step may do to the points of an account and of a project.
LimitsKept ==
  \A d \in 0..LastDay :
    /\ \A a \in Account :
         /\ Grows(UsedOnDay(JobsOf(a), d), UsedOnDay(JobsOf(a), d)', limit[a].day)
         /\ Grows(UsedInMonth(JobsOf(a), d), UsedInMonth(JobsOf(a), d)', limit[a].month)
    /\ \A p \in Project :
         /\ Grows(UsedOnDay(JobsFor(p), d), UsedOnDay(JobsFor(p), d)', plan[p].day)
         /\ Grows(UsedInMonth(JobsFor(p), d), UsedInMonth(JobsFor(p), d)', plan[p].month)

\* A step after which no job counts that did not count before.
LEMMA QuietStep ==
  ASSUME StoreTypeOK, UNCHANGED <<ask, booked, account>>,
         \A r \in Request : countsTowardBudget(r)' => countsTowardBudget(r),
         \A r \in Request : Exists(r)' => Exists(r)
  PROVE  LimitsKept
<1>1. PICK f \in [Request -> Nat] :
           /\ \A jobs, d :
                /\ UsedOnDay(jobs, d) = Total(f, OnDay(jobs, d))
                /\ UsedInMonth(jobs, d) = Total(f, InMonth(jobs, d))
           /\ \A a, d :
                /\ UsedOnDay(JobsOf(a), d)' = Total(f, OnDay(JobsOf(a), d)')
                /\ UsedInMonth(JobsOf(a), d)' = Total(f, InMonth(JobsOf(a), d)')
           /\ \A p, d :
                /\ UsedOnDay(JobsFor(p), d)' = Total(f, OnDay(JobsFor(p), d)')
                /\ UsedInMonth(JobsFor(p), d)' = Total(f, InMonth(JobsFor(p), d)')
  BY UsageIsTotal
<1>2. \A S, T, most : T \subseteq S /\ S \subseteq Request =>
                        Grows(Total(f, S), Total(f, T), most)
  BY NoGrowth
<1>3. \A a, d : /\ OnDay(JobsOf(a), d)' \subseteq OnDay(JobsOf(a), d)
                /\ InMonth(JobsOf(a), d)' \subseteq InMonth(JobsOf(a), d)
                /\ OnDay(JobsOf(a), d) \subseteq Request
                /\ InMonth(JobsOf(a), d) \subseteq Request
  BY DEF JobsOf, OnDay, InMonth, Month
<1>4. \A p, d : /\ OnDay(JobsFor(p), d)' \subseteq OnDay(JobsFor(p), d)
                /\ InMonth(JobsFor(p), d)' \subseteq InMonth(JobsFor(p), d)
                /\ OnDay(JobsFor(p), d) \subseteq Request
                /\ InMonth(JobsFor(p), d) \subseteq Request
  BY DEF JobsFor, OnDay, InMonth, Month
<1> QED BY <1>1, <1>2, <1>3, <1>4 DEF LimitsKept

\* The reservation looks at the windows it adds its points to.
LEMMA ReserveWithin ==
  ASSUME Typed, NEW r \in Request, ReserveCreates(r)
  PROVE  LimitsKept
<1>1. PICK c \in Account : c = candidate[r]
  BY DEF Typed, HasCandidate, ReserveCreates, Seated
<1>2. PICK p \in {ProjectOf[r]} : p = ProjectOf[r]
  OBVIOUS
<1>3. /\ UNCHANGED <<ask, limit, plan>>
      /\ booked' = [booked EXCEPT ![r] = day] /\ account' = [account EXCEPT ![r] = c]
      /\ entry' = [entry EXCEPT ![r] = "reserved"]
      /\ status' = [status EXCEPT ![r] = "queued"]
  BY <1>1 DEF ReserveCreates, Reserve
<1>4. Fits(r, JobsOf(c), limit[c]) /\ Fits(r, JobsFor(p), plan[p])
  BY <1>1, <1>2 DEF ReserveCreates, CanReserve, FitsAccount, FitsPlan
<1>5. StoreTypeOK
  BY DEF Typed
<1>6. PICK f \in [Request -> Nat] :
           /\ \A x \in Request : f[x] = Points(x)
           /\ \A jobs, d :
                /\ UsedOnDay(jobs, d) = Total(f, OnDay(jobs, d))
                /\ UsedInMonth(jobs, d) = Total(f, InMonth(jobs, d))
           /\ \A a, d :
                /\ UsedOnDay(JobsOf(a), d)' = Total(f, OnDay(JobsOf(a), d)')
                /\ UsedInMonth(JobsOf(a), d)' = Total(f, InMonth(JobsOf(a), d)')
           /\ \A q, d :
                /\ UsedOnDay(JobsFor(q), d)' = Total(f, OnDay(JobsFor(q), d)')
                /\ UsedInMonth(JobsFor(q), d)' = Total(f, InMonth(JobsFor(q), d)')
  BY <1>3, <1>5, UsageIsTotal
\* Every other account, project, day and month has no job more.
<1>7. \A S, T, most : T \subseteq S /\ S \subseteq Request =>
                        Grows(Total(f, S), Total(f, T), most)
  BY NoGrowth
<1>8. \A S, T : \A most \in Nat :
                      /\ T \subseteq S \cup {r} /\ S \subseteq Request
                      /\ most # 0 => Total(f, S) + f[r] <= most
                      => Grows(Total(f, S), Total(f, T), most)
  BY OneMoreJob
<1>9. f[r] = Points(r)
  BY <1>6
<1>10. \A jobs, most : Fits(r, jobs, most) =>
         /\ most.day # 0 => Total(f, OnDay(jobs, day)) + f[r] <= most.day
         /\ most.month # 0 =>
              Total(f, InMonth(jobs, Month(day))) + f[r] <= most.month
  BY <1>6, <1>9 DEF Fits, Points
<1>11. \A a, d :
         /\ OnDay(JobsOf(a), d)' \subseteq OnDay(JobsOf(a), d) \cup {r}
         /\ InMonth(JobsOf(a), d)' \subseteq InMonth(JobsOf(a), d) \cup {r}
         /\ OnDay(JobsOf(a), d) \subseteq Request
         /\ InMonth(JobsOf(a), d) \subseteq Request
         /\ d # day \/ a # c => OnDay(JobsOf(a), d)' \subseteq OnDay(JobsOf(a), d)
         /\ d # Month(day) \/ a # c =>
              InMonth(JobsOf(a), d)' \subseteq InMonth(JobsOf(a), d)
  BY <1>3, <1>5 DEF StoreTypeOK, JobsOf, OnDay, InMonth, Month, countsTowardBudget
<1>12. \A q, d :
         /\ OnDay(JobsFor(q), d)' \subseteq OnDay(JobsFor(q), d) \cup {r}
         /\ InMonth(JobsFor(q), d)' \subseteq InMonth(JobsFor(q), d) \cup {r}
         /\ OnDay(JobsFor(q), d) \subseteq Request
         /\ InMonth(JobsFor(q), d) \subseteq Request
         /\ d # day \/ q # p => OnDay(JobsFor(q), d)' \subseteq OnDay(JobsFor(q), d)
         /\ d # Month(day) \/ q # p =>
              InMonth(JobsFor(q), d)' \subseteq InMonth(JobsFor(q), d)
  BY <1>2, <1>3, <1>5 DEF StoreTypeOK, JobsFor, OnDay, InMonth, Month,
     countsTowardBudget, Exists
<1>13. ASSUME NEW a \in Account, NEW d
       PROVE  /\ Grows(UsedOnDay(JobsOf(a), d), UsedOnDay(JobsOf(a), d)', limit[a].day)
              /\ Grows(UsedInMonth(JobsOf(a), d), UsedInMonth(JobsOf(a), d)',
                       limit[a].month)
  <2>1. limit[a].day \in Nat /\ limit[a].month \in Nat
    BY <1>5 DEF StoreTypeOK, PointLimit
  <2> QED BY <2>1, <1>4, <1>6, <1>7, <1>8, <1>10, <1>11
<1>14. ASSUME NEW q \in Project, NEW d
       PROVE  /\ Grows(UsedOnDay(JobsFor(q), d), UsedOnDay(JobsFor(q), d)', plan[q].day)
              /\ Grows(UsedInMonth(JobsFor(q), d), UsedInMonth(JobsFor(q), d)',
                       plan[q].month)
  <2>1. plan[q].day \in Nat /\ plan[q].month \in Nat
    BY <1>5 DEF StoreTypeOK, Plan
  <2> QED BY <2>1, <1>4, <1>6, <1>7, <1>8, <1>10, <1>12
<1> QED BY <1>13, <1>14 DEF LimitsKept

\* No other step makes a job, or makes one count.
LEMMA OtherSteps ==
  ASSUME Typed, Next, \A r \in Request : ~ReserveCreates(r)
  PROVE  /\ UNCHANGED <<ask, booked, account>>
         /\ \A x \in Request : countsTowardBudget(x)' => countsTowardBudget(x)
         /\ \A x \in Request : Exists(x)' <=> Exists(x)
<1> USE DEF Typed, StoreTypeOK, countsTowardBudget, Exists
<1>1. ASSUME UNCHANGED <<ask, booked, account, entry, status>>
      PROVE  /\ UNCHANGED <<ask, booked, account>>
             /\ \A x \in Request : countsTowardBudget(x)' => countsTowardBudget(x)
             /\ \A x \in Request : Exists(x)' <=> Exists(x)
  BY <1>1
<1>2. ASSUME NEW r \in Request,
             \/ Arrive(r) \/ PrepareFails(r) \/ LookUpKey(r)
             \/ \E a \in Account : LookAt(r, a)
             \/ Choose(r) \/ TakeSeat(r)
             \/ ReserveFindsJob(r) \/ ReserveRefusedByPlan(r)
             \/ ReserveRefusedByAccount(r)
             \/ StartRunner(r) \/ RequeuedTakesSeat(r) \/ RequeuedStarts(r)
      PROVE  UNCHANGED <<ask, booked, account, entry, status>>
  BY <1>2 DEF Arrive, PrepareFails, LookUpKey, LookAt, Choose, TakeSeat,
     ReserveFindsJob, ReserveRefusedByPlan, ReserveRefusedByAccount,
     StartRunner, RequeuedTakesSeat, RequeuedStarts, Settled, storeVars, moneyVars
<1>3. ASSUME NEW r \in Request, ReserveAtMidnight(r) \/ Stop(r)
      PROVE  UNCHANGED <<ask, booked, account, entry, status>>
  BY <1>3 DEF ReserveAtMidnight, Stop, storeVars, moneyVars
<1>4. ASSUME NEW r \in Request, FailAndRelease(r)
      PROVE  /\ UNCHANGED <<ask, booked, account>>
             /\ \A x \in Request : countsTowardBudget(x)' => countsTowardBudget(x)
  BY <1>4 DEF FailAndRelease
<1>5. ASSUME NEW r \in Request, PersistFails(r)
      PROVE  \/ UNCHANGED <<ask, booked, account, entry, status>>
             \/ status[r] = "queued" /\ FailAndRelease(r)
  BY <1>5 DEF PersistFails, storeVars, moneyVars
<1>6. ASSUME NEW r \in Request, FailBeforeTask(r) \/ Cancel(r)
      PROVE  status[r] # "absent" /\ FailAndRelease(r)
  BY <1>6 DEF FailBeforeTask, Cancel
<1>7. ASSUME NEW r \in Request, status[r] # "absent", FailAndRelease(r)
      PROVE  \A x \in Request : Exists(x)' <=> Exists(x)
  BY <1>7 DEF FailAndRelease
<1>8. ASSUME NEW r \in Request,
             \/ Submit(r) \/ Follow(r) \/ Finish(r) \/ Lose(r) \/ HandOver(r)
             \/ Reconcile(r) \/ HoldExpires(r)
      PROVE  /\ UNCHANGED <<ask, booked, account, entry>>
             /\ \A x \in Request : Exists(x)' <=> Exists(x)
  BY <1>8 DEF Submit, Follow, Finish, Lose, HandOver, Reconcile, HoldExpires, moneyVars
<1>9. ASSUME NEW r \in Request, ChargeSubmitted(r)
      PROVE  /\ UNCHANGED <<ask, booked, account, status>>
             /\ \A x \in Request : countsTowardBudget(x)' => countsTowardBudget(x)
  BY <1>9 DEF ChargeSubmitted, Charge
<1>10. ASSUME NEW r \in Request, Resolve(r)
       PROVE  /\ UNCHANGED <<ask, booked, account>>
              /\ \A x \in Request : countsTowardBudget(x)' => countsTowardBudget(x)
              /\ \A x \in Request : Exists(x)' <=> Exists(x)
  BY <1>10 DEF Resolve, ResolveUnknown
<1>11. ASSUME \/ \E a \in Account : Toggle(a) \/ SetLimit(a)
              \/ \E p \in Project : Assign(p)
              \/ Midnight
       PROVE  UNCHANGED <<ask, booked, account, entry, status>>
  BY <1>11 DEF Toggle, SetLimit, Assign, Midnight, moneyVars
<1>12. ASSUME Restart
       PROVE  /\ UNCHANGED <<ask, booked, account>>
              /\ \A x \in Request : countsTowardBudget(x)' => countsTowardBudget(x)
              /\ \A x \in Request : Exists(x)' <=> Exists(x)
  <2>1. PICK n \in SlotLimits, gone \in SUBSET {a \in Account : ~open[a]},
             order \in Orders({r \in Request : status[r] = "queued"}) :
               Recover(n, order, gone)
    BY <1>12 DEF Restart
  <2> QED BY <2>1, <1>12 DEF Restart, Recover
<1> QED
  BY <1>1, <1>2, <1>3, <1>4, <1>5, <1>6, <1>7, <1>8, <1>9, <1>10, <1>11, <1>12
     DEF Next, Call, Runner

\* A reservation reads the windows again in its transaction, and nobody else
\* makes points count: whatever was read before the awaits, whatever limits are
\* changed to and whenever the day ends, no step raises the points of an account
\* or a project above its limit (accounts/sqlite-admission-repository.ts:237-283).
THEOREM LimitsHold == Spec => BudgetNeverOverrun
<1>1. ASSUME Typed, [Next]_vars PROVE [LimitsKept]_vars
  <2>1. ASSUME Next, \A r \in Request : ~ReserveCreates(r) PROVE LimitsKept
    BY <1>1, <2>1, OtherSteps, QuietStep DEF Typed
  <2> QED BY <1>1, <2>1, ReserveWithin
<1>2. PointsInv => Typed
  BY DEF PointsInv
<1> QED BY <1>1, <1>2, PointsInvariant, PTL DEF Spec, BudgetNeverOverrun, LimitsKept

-----------------------------------------------------------------------------
(* What clients are told. *)

\* An answer that names the job of another request, or a conflict with one.
NamesItsJob(r) ==
  \A j \in Request : answer[r] = j /\ r # j =>
    Exists(j) /\ Key(r) = Key(j) /\ ask[r].payload = ask[j].payload
ConflictsWith(r, k) ==
  /\ k \in SameKey(r)
  /\ \/ ask[r].payload # ask[k].payload
     \/ \E a \in Account : ApiId[a] # ApiId[account[k]]

AnswersInv ==
  /\ PointsInv
  /\ \A r \in Request : Exists(r) => account[r] \in Account
  /\ \A r \in Request :
       /\ NamesItsJob(r)
       /\ answer[r] = "conflict" => \E k \in Request : ConflictsWith(r, k)

\* The jobs there are stay, under the account they were made for.
JobsStay ==
  /\ UNCHANGED ask
  /\ \A r \in Request : Exists(r) => Exists(r)' /\ account'[r] = account[r]
  /\ \A r \in Request : Exists(r)' => account'[r] \in Account

LEMMA AnswerStays ==
  ASSUME AnswersInv, JobsStay, NEW r \in Request, answer'[r] = answer[r]
  PROVE  /\ NamesItsJob(r)'
         /\ answer'[r] = "conflict" => \E k \in Request : ConflictsWith(r, k)'
<1>1. NamesItsJob(r)'
  BY DEF AnswersInv, JobsStay, NamesItsJob, Key
<1>2. ASSUME NEW k \in Request, ConflictsWith(r, k) PROVE ConflictsWith(r, k)'
  BY <1>2 DEF JobsStay, ConflictsWith, SameKey, Key
<1> QED BY <1>1, <1>2 DEF AnswersInv

\* An answer that is neither a job of another request nor a conflict.
LEMMA PlainAnswer ==
  ASSUME NEW r \in Request, answer'[r] \in (Refusal \ {"conflict"}) \cup {r}
  PROVE  /\ NamesItsJob(r)'
         /\ answer'[r] = "conflict" => \E k \in Request : ConflictsWith(r, k)'
  BY AnswerAssumption DEF NamesItsJob, Refusal

\* The job found under the key is the answer if the fingerprints match.
LEMMA FoundAnswer ==
  ASSUME AnswersInv, JobsStay, NEW r \in Request, NEW j \in SameKey(r),
         NEW a \in Account,
         answer'[r] = IF Matches(r, a, j) THEN j ELSE "conflict"
  PROVE  /\ NamesItsJob(r)'
         /\ answer'[r] = "conflict" => \E k \in Request : ConflictsWith(r, k)'
<1>1. j \in Request /\ Exists(j) /\ Key(j) = Key(r) /\ Key(r) # NoKey
  BY DEF SameKey
<1>2. j \in SameKey(r)' /\ Exists(j)' /\ Key(j)' = Key(r)' /\ account'[j] = account[j]
  BY <1>1 DEF JobsStay, SameKey, Key
<1>3. CASE Matches(r, a, j)
  <2>1. answer'[r] = j /\ j # "conflict"
    BY <1>1, <1>3, AnswerAssumption DEF Refusal
  <2>2. ask[r].payload = ask[j].payload
    BY <1>3 DEF Matches, Fingerprint
  <2> QED BY <1>2, <2>1, <2>2 DEF NamesItsJob, JobsStay
<1>4. CASE ~Matches(r, a, j)
  <2>1. answer'[r] = "conflict" /\ "conflict" \notin Request
    BY <1>4, AnswerAssumption DEF Refusal
  <2>2. ask[r].payload # ask[j].payload \/ ApiId[a] # ApiId[account[j]]
    BY <1>4 DEF Matches, Fingerprint
  <2>3. ConflictsWith(r, j)'
    BY <1>2, <2>2 DEF ConflictsWith, JobsStay
  <2> QED BY <1>1, <2>1, <2>3 DEF NamesItsJob
<1> QED BY <1>3, <1>4

\* The jobs stay in every step.
LEMMA JobsDoStay ==
  ASSUME AnswersInv, Next
  PROVE  JobsStay
<1> USE DEF AnswersInv, PointsInv
<1>1. CASE \A r \in Request : ~ReserveCreates(r)
  BY <1>1, OtherSteps DEF JobsStay
<1>2. ASSUME NEW r \in Request, ReserveCreates(r) PROVE JobsStay
  <2>1. candidate[r] \in Account /\ ~Exists(r)
    BY <1>2 DEF ReserveCreates, Seated, Unborn, Early, Typed, HasCandidate
  <2> QED BY <1>2, <2>1
          DEF JobsStay, ReserveCreates, Reserve, Exists, Typed, StoreTypeOK
<1> QED BY <1>1, <1>2

\* What a client was told is true.
Told(r) ==
  /\ NamesItsJob(r)
  /\ answer[r] = "conflict" => \E k \in Request : ConflictsWith(r, k)

\* A call whose answer says nothing about a job of another request.
LEMMA NothingTold ==
  ASSUME AnswersInv, JobsStay, NEW r \in Request,
         answer' = [answer EXCEPT ![r] = answer'[r]],
         answer'[r] \in (Refusal \ {"conflict"}) \cup {r}
  PROVE  \A x \in Request : Told(x)'
<1> SUFFICES ASSUME NEW x \in Request PROVE Told(x)'
  OBVIOUS
<1>1. CASE x = r
  BY <1>1, PlainAnswer DEF Told
<1>2. CASE x # r
  BY <1>2, AnswerStays DEF Told, AnswersInv, PointsInv, Typed, CallTypeOK
<1> QED BY <1>1, <1>2

LEMMA NobodyTold ==
  ASSUME AnswersInv, JobsStay, UNCHANGED answer
  PROVE  \A x \in Request : Told(x)'
  BY AnswerStays DEF Told

\* The three ways a call goes on or ends.
LEMMA TryNextTells ==
  ASSUME AnswersInv, JobsStay, NEW r \in Request, NEW full, TryNext(r, full)
  PROVE  \A x \in Request : Told(x)'
<1>1. CASE UNCHANGED answer
  BY <1>1, NobodyTold
<1>2. CASE \E what \in {"queue_full", "no_account"} : Answer(r, what)
  <2>1. /\ answer' = [answer EXCEPT ![r] = answer'[r]]
        /\ answer'[r] \in Refusal \ {"conflict"}
    BY <1>2 DEF Answer, Refusal, AnswersInv, PointsInv, Typed, CallTypeOK
  <2> QED BY <2>1, NothingTold
<1> QED BY <1>1, <1>2 DEF TryNext, Try

LEMMA FindsTell ==
  ASSUME AnswersInv, JobsStay, NEW r \in Request, NEW j \in SameKey(r),
         NEW a \in Account,
         Answer(r, IF Matches(r, a, j) THEN j ELSE "conflict")
  PROVE  \A x \in Request : Told(x)'
<1> SUFFICES ASSUME NEW x \in Request PROVE Told(x)'
  OBVIOUS
<1> USE DEF AnswersInv, PointsInv, Typed, CallTypeOK
<1>1. answer' = [answer EXCEPT ![r] = IF Matches(r, a, j) THEN j ELSE "conflict"]
  BY DEF Answer
<1>2. CASE x = r
  BY <1>1, <1>2, FoundAnswer DEF Told
<1>3. CASE x # r
  BY <1>1, <1>3, AnswerStays DEF Told
<1> QED BY <1>2, <1>3

LEMMA EveryoneIsTold ==
  ASSUME AnswersInv, Next
  PROVE  \A x \in Request : Told(x)'
<1>0. JobsStay
  BY JobsDoStay
<1> USE DEF AnswersInv, PointsInv, Typed, CallTypeOK
<1>1. ASSUME UNCHANGED answer PROVE \A x \in Request : Told(x)'
  BY <1>0, <1>1, NobodyTold
<1>2. ASSUME NEW r \in Request, NEW what \in (Refusal \ {"conflict"}) \cup {r},
             Answer(r, what)
      PROVE  \A x \in Request : Told(x)'
  <2>1. answer' = [answer EXCEPT ![r] = what] /\ answer'[r] = what
    BY <1>2 DEF Answer
  <2> QED BY <1>0, <2>1, NothingTold
<1>3. ASSUME NEW r \in Request,
             \/ Arrive(r) \/ PrepareFails(r)
             \/ ReserveRefusedByPlan(r) \/ ReserveAtMidnight(r)
             \/ StartRunner(r) \/ PersistFails(r)
      PROVE  \A x \in Request : Told(x)'
  <2>1. UNCHANGED answer \/ \E what \in {"queue_full", "invalid", "plan", r} : Answer(r, what)
    BY <1>3 DEF Arrive, PrepareFails, ReserveRefusedByPlan, ReserveAtMidnight,
       StartRunner, PersistFails, Memory
  <2>2. {"queue_full", "invalid", "plan", r} \subseteq (Refusal \ {"conflict"}) \cup {r}
    BY DEF Refusal
  <2> QED BY <1>1, <1>2, <2>1, <2>2
<1>4. ASSUME NEW r \in Request, LookUpKey(r)
      PROVE  \A x \in Request : Told(x)'
  <2>1. CASE SameKey(r) = {}
    BY <1>0, <1>4, <2>1, NobodyTold DEF LookUpKey
  <2>2. CASE SameKey(r) # {}
    <3>1. PICK j \in SameKey(r) :
                 Answer(r, IF Matches(r, account[j], j) THEN j ELSE "conflict")
      BY <1>4, <2>2 DEF LookUpKey
    <3>2. PICK a \in Account : a = account[j]
      BY <3>1 DEF SameKey
    <3> QED BY <1>0, <3>1, <3>2, FindsTell
  <2> QED BY <2>1, <2>2
<1>5. ASSUME NEW r \in Request, ReserveFindsJob(r)
      PROVE  \A x \in Request : Told(x)'
  <2>1. PICK a \in Account : a = candidate[r]
    BY <1>5 DEF ReserveFindsJob, Seated, HasCandidate
  <2>2. PICK j \in SameKey(r) :
               Answer(r, IF Matches(r, a, j) THEN j ELSE "conflict")
    BY <1>5, <2>1 DEF ReserveFindsJob
  <2> QED BY <1>0, <2>2, FindsTell
<1>6. ASSUME NEW r \in Request, Choose(r)
      PROVE  \A x \in Request : Told(x)'
  <2>1. UNCHANGED answer \/ Answer(r, "no_account")
    BY <1>6 DEF Choose, Try
  <2>2. "no_account" \in Refusal \ {"conflict"}
    BY DEF Refusal
  <2> QED BY <1>1, <1>2, <2>1, <2>2
<1>7. ASSUME NEW r \in Request, TakeSeat(r)
      PROVE  \A x \in Request : Told(x)'
  <2>1. CASE TryNext(r, allFull[r])
    <3>1. PICK full \in BOOLEAN : full = allFull[r]
      OBVIOUS
    <3> QED BY <1>0, <2>1, <3>1, TryNextTells
  <2>2. CASE AskForSeat(r, candidate[r])
    BY <1>0, <2>2, NobodyTold DEF AskForSeat
  <2> QED BY <1>7, <2>1, <2>2 DEF TakeSeat
<1>8. ASSUME NEW r \in Request, ReserveRefusedByAccount(r)
      PROVE  \A x \in Request : Told(x)'
  BY <1>0, <1>8, TryNextTells DEF ReserveRefusedByAccount
<1>9. ASSUME NEW r \in Request,
             \/ \E a \in Account : LookAt(r, a)
             \/ ReserveCreates(r)
             \/ RequeuedTakesSeat(r) \/ RequeuedStarts(r)
             \/ Submit(r) \/ ChargeSubmitted(r) \/ Follow(r) \/ Finish(r) \/ Stop(r)
             \/ FailBeforeTask(r) \/ Lose(r) \/ HandOver(r) \/ Reconcile(r)
             \/ HoldExpires(r) \/ Cancel(r) \/ Resolve(r)
      PROVE  UNCHANGED answer
  BY <1>9 DEF LookAt, ReserveCreates, RequeuedTakesSeat, RequeuedStarts, Submit,
     ChargeSubmitted, Follow, Finish, Stop, FailBeforeTask, Lose, HandOver, Reconcile,
     HoldExpires, Cancel, Resolve, requestVars
<1>10. ASSUME \/ \E a \in Account : Toggle(a) \/ SetLimit(a)
              \/ \E p \in Project : Assign(p)
              \/ Midnight
       PROVE  UNCHANGED answer
  BY <1>10 DEF Toggle, SetLimit, Assign, Midnight, requestVars
<1>11. ASSUME Restart PROVE \A x \in Request : Told(x)'
  <2> SUFFICES ASSUME NEW x \in Request PROVE Told(x)'
    OBVIOUS
  <2>1. answer'[x] = "lost" \/ answer'[x] = answer[x]
    BY <1>11 DEF Restart
  <2>2. "lost" \in Refusal \ {"conflict"}
    BY DEF Refusal
  <2>3. CASE answer'[x] = "lost"
    BY <2>2, <2>3, PlainAnswer DEF Told
  <2>4. CASE answer'[x] = answer[x]
    BY <1>0, <2>4, AnswerStays DEF Told
  <2> QED BY <2>1, <2>3, <2>4
<1> HIDE DEF AnswersInv, PointsInv, Typed, CallTypeOK
<1> QED
  BY <1>1, <1>3, <1>4, <1>5, <1>6, <1>7, <1>8, <1>9, <1>10, <1>11
     DEF Next, Call, Runner

\* However calls under one key overlap and whatever candidate each has chosen,
\* a client is given the job of another request only if both ask for the same
\* thing, and is told of a conflict only if they do not, or if the catalogs of
\* two accounts resolve the model differently (accounts/scheduler.ts:163-184,
\* accounts/sqlite-admission-repository.ts:539-549).
THEOREM AnswersInvariant == Spec => []AnswersInv
<1>1. Init => AnswersInv
  <2> SUFFICES ASSUME Init PROVE AnswersInv
    OBVIOUS
  <2>1. PointsInv
    BY PointsInit
  <2>2. \A r \in Request : ~Exists(r) /\ answer[r] = "none"
    BY DEF Init, Exists
  <2>3. "none" \notin Request /\ "none" # "conflict"
    BY AnswerAssumption DEF Refusal
  <2> QED BY <2>1, <2>2, <2>3 DEF AnswersInv, NamesItsJob
<1>2. AnswersInv /\ [Next]_vars => AnswersInv'
  <2> SUFFICES ASSUME AnswersInv, [Next]_vars PROVE AnswersInv'
    OBVIOUS
  <2>1. PointsInv'
    BY PointsStep DEF AnswersInv
  <2>2. CASE Next
    BY <2>1, <2>2, JobsDoStay, EveryoneIsTold DEF AnswersInv, JobsStay, Told
  <2>3. CASE UNCHANGED vars
    <3>1. UNCHANGED <<ask, status, account, answer>>
      BY <2>3 DEF vars, storeVars, requestVars
    <3>2. JobsStay
      BY <3>1 DEF JobsStay, AnswersInv, Exists
    <3> QED BY <2>1, <3>1, <3>2, NobodyTold DEF AnswersInv, JobsStay, Told
  <2> QED BY <2>2, <2>3
<1> QED BY <1>1, <1>2, PTL DEF Spec

\* Where one catalog holds for all accounts, this is AnswerFitsRequest.
THEOREM AnswersFit ==
  ASSUME \A a, b \in Account : ApiId[a] = ApiId[b]
  PROVE  Spec => []AnswerFitsRequest
<1>1. AnswersInv => AnswerFitsRequest
  <2> SUFFICES ASSUME AnswersInv, NEW r \in Request
               PROVE  /\ NamesItsJob(r)
                      /\ answer[r] = "conflict" =>
                           \E k \in SameKey(r) : ~Matches(r, account[k], k)
    BY DEF AnswerFitsRequest, NamesItsJob
  <2>1. ASSUME NEW k \in Request, ConflictsWith(r, k)
        PROVE  k \in SameKey(r) /\ ~Matches(r, account[k], k)
    <3>1. account[k] \in Account
      BY <2>1 DEF ConflictsWith, SameKey, AnswersInv
    <3> QED BY <2>1, <3>1 DEF ConflictsWith, Matches, Fingerprint
  <2> QED BY <2>1 DEF AnswersInv
<1> QED BY <1>1, AnswersInvariant, PTL
=============================================================================
