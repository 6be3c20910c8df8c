------------------------------ MODULE Admission -----------------------------
(***************************************************************************)
(* How a request gets a slot, an account and points, and how it gives them *)
(* back: the account scheduler over two levels of capacity managers, the   *)
(* admission repository under it, and the start-up recovery that fills the *)
(* managers again.  What a job does between its submission and its end is  *)
(* only outlined here; module Generation has it in detail.                 *)
(*                                                                         *)
(* A request is a call of create; a repetition by a client is another      *)
(* request with the same key.  An action runs from one await to the next.  *)
(***************************************************************************)
EXTENDS AdmissionStore, Capacity

CONSTANTS
  Priority,      \* Priority[a]: accounts.priority; small goes first
  AccountLimits, \* the point limits operators may give an account,
  Plans,         \* the plans they may assign to a project,
  SlotLimits,    \* and the active limits the process may be started with
  LastDay,       \* bound: the last day of the clock
  MaxRestarts    \* bound: how often the process is restarted

ASSUME SlotAssumption == SlotLimits \subseteq Nat \ {0}
ASSUME LimitAssumption == AccountLimits \subseteq PointLimit /\ Plans \subseteq Plan
ASSUME BoundAssumption == LastDay \in Nat /\ MaxRestarts \in Nat

VARIABLES
  slots,     \* the gateway's capacity manager
  seats,     \* the capacity manager of each account
  pc,        \* where the call of create of a request is
  todo,      \* the accounts candidates() has still to look at
  others,    \* the candidates it found that were not tried yet
  candidate, \* the candidate that is tried
  allFull,   \* was every candidate so far refused by its manager?
  answer,    \* what the client is told: a job, or why there is none
  running,   \* the jobs with a runner, which holds their slots
  restarts,
  leaked     \* history: whose slots were left behind by an error path

requestVars == <<pc, todo, others, candidate, allFull, answer>>
managerVars == <<slots, seats>>
vars == <<storeVars, managerVars, requestVars, running, restarts, leaked>>

-----------------------------------------------------------------------------

Label == {"new", "preparing", "evaluating", "waitSlot", "waitSeat",
          "persisting", "requeued", "requeuedSeat", "done"}
Refusal == {"none", "invalid", "conflict", "queue_full", "no_account", "plan",
            "lost"}

ASSUME AnswerAssumption == Request \cap Refusal = {}

TypeOK ==
  /\ StoreTypeOK
  /\ slots \in Manager(Request)
  /\ seats \in [Account -> Manager(Request)]
  /\ pc \in [Request -> Label]
  /\ todo \in [Request -> SUBSET Account]
  /\ others \in [Request -> SUBSET Account]
  /\ candidate \in [Request -> Account \cup {NoAccount}]
  /\ allFull \in [Request -> BOOLEAN]
  /\ answer \in [Request -> Refusal \cup Request]
  /\ running \subseteq Request
  /\ restarts \in 0..MaxRestarts
  /\ leaked \subseteq Request

Init ==
  /\ day = 0
  /\ ask \in [Request -> Ask]
  /\ open = [a \in Account |-> TRUE]
  /\ limit \in [Account -> AccountLimits]
  /\ plan \in [Project -> Plans]
  /\ status = [r \in Request |-> "absent"]
  /\ account = [r \in Request |-> NoAccount]
  /\ entry = [r \in Request |-> "none"]
  /\ booked = [r \in Request |-> 0]
  /\ ledger = [r \in Request |-> {}]
  /\ expiring = {}
  /\ \E n \in SlotLimits :
       /\ slots = Empty(n)
       /\ seats = [a \in Account |-> Empty(n)]
  /\ pc = [r \in Request |-> "new"]
  /\ todo = [r \in Request |-> {}]
  /\ others = [r \in Request |-> {}]
  /\ candidate = [r \in Request |-> NoAccount]
  /\ allFull = [r \in Request |-> TRUE]
  /\ answer = [r \in Request |-> "none"]
  /\ running = {}
  /\ restarts = 0
  /\ leaked = {}

-----------------------------------------------------------------------------
(* The call of create. *)

Goto(r, label) == pc' = [pc EXCEPT ![r] = label]

\* An answer ends the call, and with it what it remembers.
Answer(r, what) ==
  /\ Goto(r, "done")
  /\ answer' = [answer EXCEPT ![r] = what]
  /\ others' = [others EXCEPT ![r] = {}]
  /\ candidate' = [candidate EXCEPT ![r] = NoAccount]
  /\ allFull' = [allFull EXCEPT ![r] = TRUE]

\* A step of a call that keeps what it remembers.
Memory == <<others, candidate, allFull>>
Settled == UNCHANGED <<storeVars, running, restarts, leaked>>

Arrive(r) ==
  /\ pc[r] = "new"
  /\ IF Full(slots)
       THEN Answer(r, "queue_full") /\ UNCHANGED slots
       ELSE /\ Goto(r, "preparing")
            /\ slots' = Admit(slots, r)
            /\ UNCHANGED <<answer, Memory>>
  /\ UNCHANGED <<seats, todo>> /\ Settled

\* The media of the request cannot be fetched or read.
PrepareFails(r) ==
  /\ pc[r] = "preparing"
  /\ Answer(r, "invalid")
  /\ slots' = ReleaseAdmission(slots, r)
  /\ UNCHANGED <<seats, todo>> /\ Settled

\* The key is looked up before any account is.
LookUpKey(r) ==
  /\ pc[r] = "preparing"
  /\ IF SameKey(r) = {}
       THEN /\ Goto(r, "evaluating")
            /\ todo' = [todo EXCEPT ![r] = {a \in Account : open[a]}]
            /\ UNCHANGED <<slots, answer, Memory>>
       ELSE /\ \E j \in SameKey(r) :
                 Answer(r, IF Matches(r, account[j], j) THEN j ELSE "conflict")
            /\ slots' = ReleaseAdmission(slots, r)
            /\ UNCHANGED todo
  /\ UNCHANGED seats /\ Settled

\* The row and the usage of an account are read, and then the catalog, the
\* balance and the price are awaited, any of which may rule the account out.
LookAt(r, a) ==
  /\ pc[r] = "evaluating" /\ a \in todo[r]
  /\ todo' = [todo EXCEPT ![r] = @ \ {a}]
  /\ \E offered \in BOOLEAN :
       others' = [others EXCEPT ![r] =
                    IF offered /\ open[a] /\ FitsAccount(r, a)
                      THEN @ \cup {a} ELSE @]
  /\ UNCHANGED <<managerVars, pc, candidate, allFull, answer>> /\ Settled

\* Candidates of one priority are ordered by load, last use and name, as they
\* were read: any order.
First(candidates) ==
  {a \in candidates : \A b \in candidates : Priority[a] <= Priority[b]}

Try(r, a, full) ==
  /\ Goto(r, "waitSlot")
  /\ candidate' = [candidate EXCEPT ![r] = a]
  /\ others' = [others EXCEPT ![r] = @ \ {a}]
  /\ allFull' = [allFull EXCEPT ![r] = full]
  /\ UNCHANGED answer

Choose(r) ==
  /\ pc[r] = "evaluating" /\ todo[r] = {}
  /\ IF others[r] = {}
       THEN /\ Answer(r, "no_account")
            /\ slots' = ReleaseAdmission(slots, r)
       ELSE /\ \E a \in First(others[r]) : Try(r, a, TRUE)
            /\ slots' = Acquire(slots, r)
  /\ UNCHANGED <<seats, todo>> /\ Settled

\* A candidate is dropped with its slot; the next one needs a new admission,
\* at the end of the queue.
TryNext(r, full) ==
  LET freed == ReleaseLease(slots, r)
  IN  IF others[r] = {}
        THEN /\ Answer(r, IF full THEN "queue_full" ELSE "no_account")
             /\ slots' = freed
        ELSE IF Full(freed)
        THEN /\ Answer(r, "queue_full")
             /\ slots' = freed
        ELSE /\ \E a \in First(others[r]) : Try(r, a, full)
             /\ slots' = Acquire(Admit(freed, r), r)

AskForSeat(r, a) ==
  /\ Goto(r, "waitSeat")
  /\ seats' = [seats EXCEPT ![a] = Acquire(Admit(@, r), r)]
  /\ UNCHANGED <<slots, answer, Memory>>

\* Mutant: the slot of the gateway is forgotten when the account is full.
TakeSeatForgets(r) ==
  /\ pc[r] = "waitSlot" /\ r \in slots.active
  /\ IF Full(seats[candidate[r]])
       THEN Answer(r, "queue_full") /\ UNCHANGED managerVars
       ELSE AskForSeat(r, candidate[r])
  /\ UNCHANGED todo /\ Settled

TakeSeat(r) ==
  /\ pc[r] = "waitSlot" /\ r \in slots.active
  /\ IF Full(seats[candidate[r]])
       THEN TryNext(r, allFull[r]) /\ UNCHANGED seats
       ELSE AskForSeat(r, candidate[r])
  /\ UNCHANGED todo /\ Settled

Seated(r) == pc[r] = "waitSeat" /\ r \in seats[candidate[r]].active

FreeSeat(r, a) == seats' = [seats EXCEPT ![a] = ReleaseLease(@, r)]

ReserveFindsJob(r) ==
  /\ Seated(r) /\ SameKey(r) # {}
  /\ \E j \in SameKey(r) :
       Answer(r, IF Matches(r, candidate[r], j) THEN j ELSE "conflict")
  /\ FreeSeat(r, candidate[r]) /\ slots' = ReleaseLease(slots, r)
  /\ UNCHANGED todo /\ Settled

ReserveRefusedByPlan(r) ==
  /\ Seated(r) /\ RefusedByPlan(r, candidate[r])
  /\ Answer(r, "plan")
  /\ FreeSeat(r, candidate[r]) /\ slots' = ReleaseLease(slots, r)
  /\ UNCHANGED todo /\ Settled

ReserveRefusedByAccount(r) ==
  /\ Seated(r) /\ RefusedByAccount(r, candidate[r])
  /\ FreeSeat(r, candidate[r])
  /\ TryNext(r, FALSE)
  /\ UNCHANGED todo /\ Settled

ReserveCreates(r) ==
  /\ Seated(r) /\ CanReserve(r, candidate[r])
  /\ Reserve(r, candidate[r])
  /\ Goto(r, "persisting")
  /\ UNCHANGED <<managerVars, answer, todo, Memory, running, restarts, leaked>>

\* Midnight falls between the two readings of the clock: the repository
\* refuses the windows of the scheduler.
ReserveAtMidnight(r) ==
  /\ Seated(r) /\ day < LastDay
  /\ day' = day + 1
  /\ Answer(r, "invalid")
  /\ FreeSeat(r, candidate[r]) /\ slots' = ReleaseLease(slots, r)
  /\ UNCHANGED <<open, limit, plan, ask, status, account, moneyVars, expiring,
                 todo, running, restarts, leaked>>

\* Inputs, bindings and the snapshot are written, then the runner is started.
StartRunner(r) ==
  /\ pc[r] = "persisting"
  /\ Answer(r, r)
  /\ running' = running \cup {r}
  /\ UNCHANGED <<storeVars, managerVars, todo, restarts, leaked>>

\* If the client has cancelled meanwhile, failAndRelease throws before the
\* lease is released.
PersistFails(r) ==
  /\ pc[r] = "persisting"
  /\ Answer(r, "invalid")
  /\ IF status[r] = "queued"
       THEN /\ FailAndRelease(r) /\ UNCHANGED expiring
            /\ FreeSeat(r, account[r]) /\ slots' = ReleaseLease(slots, r)
            /\ UNCHANGED leaked
       ELSE leaked' = leaked \cup {r} /\ UNCHANGED <<storeVars, managerVars>>
  /\ UNCHANGED <<todo, running, restarts>>

-----------------------------------------------------------------------------
(* The life of a job, in outline. *)

FreeBoth(r) == FreeSeat(r, account[r]) /\ slots' = ReleaseLease(slots, r)

Submit(r) ==
  /\ r \in running /\ status[r] = "queued"
  /\ status' = [status EXCEPT ![r] = "submitting"]
  /\ UNCHANGED <<day, open, limit, plan, ask, account, moneyVars, expiring,
                 managerVars, requestVars, running, restarts, leaked>>

\* Nothing was sent, or the provider rejected it.
FailBeforeTask(r) ==
  /\ r \in running /\ status[r] \in {"queued", "submitting"}
  /\ entry[r] = "reserved"
  /\ FailAndRelease(r) /\ UNCHANGED expiring
  /\ FreeBoth(r) /\ running' = running \ {r}
  /\ UNCHANGED <<requestVars, restarts, leaked>>

ChargeSubmitted(r) ==
  /\ r \in running /\ status[r] = "submitting" /\ entry[r] = "reserved"
  /\ Charge(r)
  /\ UNCHANGED <<day, open, limit, plan, ask, status, account, expiring,
                 managerVars, requestVars, running, restarts, leaked>>

\* The task is found, or looked for in vain while the hold runs.
Follow(r) ==
  /\ r \in running
  /\ \/ status[r] = "submitting" /\ entry[r] = "charged"
     \/ status[r] = "unknown" /\ r \in expiring
  /\ status' = [status EXCEPT ![r] = "processing"]
  /\ expiring' = expiring \ {r}
  /\ UNCHANGED <<day, open, limit, plan, ask, account, moneyVars, managerVars,
                 requestVars, running, restarts, leaked>>

Lose(r) ==
  /\ r \in running /\ status[r] = "processing"
  /\ status' = [status EXCEPT ![r] = "unknown"]
  /\ expiring' = expiring \cup {r}
  /\ UNCHANGED <<day, open, limit, plan, ask, account, moneyVars, managerVars,
                 requestVars, running, restarts, leaked>>

\* At its deadline a job is left to the reconciler, without its slots.
HandOver(r) ==
  /\ r \in running /\ status[r] = "processing"
  /\ status' = [status EXCEPT ![r] = "unknown"]
  /\ expiring' = expiring \cup {r}
  /\ FreeBoth(r) /\ running' = running \ {r}
  /\ UNCHANGED <<day, open, limit, plan, ask, account, moneyVars, requestVars,
                 restarts, leaked>>

Finish(r) ==
  /\ r \in running /\ status[r] = "processing"
  /\ \E final \in {"completed", "failed"} :
       status' = [status EXCEPT ![r] = final]
  /\ FreeBoth(r) /\ running' = running \ {r}
  /\ UNCHANGED <<day, open, limit, plan, ask, account, moneyVars, expiring,
                 requestVars, restarts, leaked>>

\* The reconciler looks for the job when the hold has run out, and defers it
\* with a new hold; which unknown jobs it takes up is left open.
Reconcile(r) ==
  /\ r \notin running \cup expiring /\ status[r] = "unknown"
  /\ \/ /\ \E final \in {"completed", "failed"} :
             status' = [status EXCEPT ![r] = final]
        /\ UNCHANGED expiring
     \/ expiring' = expiring \cup {r} /\ UNCHANGED status
  /\ UNCHANGED <<day, open, limit, plan, ask, account, moneyVars, managerVars,
                 requestVars, running, restarts, leaked>>

\* A runner whose job was settled by somebody else gives the slots back.
Stop(r) ==
  /\ r \in running /\ status[r] = "failed"
  /\ FreeBoth(r) /\ running' = running \ {r}
  /\ UNCHANGED <<storeVars, requestVars, restarts, leaked>>

\* The hold runs out and the sweep takes the leases back.
HoldExpires(r) ==
  /\ r \in expiring
  /\ expiring' = expiring \ {r}
  /\ FreeBoth(r) /\ running' = running \ {r}
  /\ UNCHANGED <<day, open, limit, plan, ask, status, account, moneyVars,
                 requestVars, restarts, leaked>>

-----------------------------------------------------------------------------
(* Clients, operators, the clock. *)

Cancel(r) ==
  /\ status[r] = "queued"
  /\ FailAndRelease(r)
  /\ UNCHANGED <<expiring, managerVars, requestVars, running, restarts, leaked>>

\* The runtime of an account that is not open may be gone, and with it the
\* way to its manager.
Resolve(r) ==
  /\ \E action \in {"charge", "release"} : ResolveUnknown(r, action)
  /\ expiring' = expiring \ {r}
  /\ slots' = ReleaseLease(slots, r)
  /\ \/ FreeSeat(r, account[r])
     \/ ~open[account[r]] /\ UNCHANGED seats
  /\ UNCHANGED <<requestVars, running, restarts, leaked>>

Toggle(a) ==
  /\ open' = [open EXCEPT ![a] = ~@]
  /\ UNCHANGED <<day, limit, plan, ask, status, account, moneyVars, expiring,
                 managerVars, requestVars, running, restarts, leaked>>

SetLimit(a) ==
  /\ \E l \in AccountLimits : limit' = [limit EXCEPT ![a] = l]
  /\ UNCHANGED <<day, open, plan, ask, status, account, moneyVars, expiring,
                 managerVars, requestVars, running, restarts, leaked>>

Assign(p) ==
  /\ \E l \in Plans : plan' = [plan EXCEPT ![p] = l]
  /\ UNCHANGED <<day, open, limit, ask, status, account, moneyVars, expiring,
                 managerVars, requestVars, running, restarts, leaked>>

Midnight ==
  /\ day < LastDay
  /\ day' = day + 1
  /\ UNCHANGED <<open, limit, plan, ask, status, account, moneyVars, expiring,
                 managerVars, requestVars, running, restarts, leaked>>

-----------------------------------------------------------------------------
(* A kill and the start after it. *)

Orders(jobs) ==
  {q \in [1..Cardinality(jobs) -> jobs] :
     \A i, k \in DOMAIN q : i # k => q[i] # q[k]}

Take(q, n) == SubSeq(q, 1, IF Len(q) < n THEN Len(q) ELSE n)

Interrupted(r) ==
  pc[r] \in {"preparing", "evaluating", "waitSlot", "waitSeat", "persisting"}

\* The recovery admits the queued jobs first; those beyond the limit and the
\* room get an error that nobody looks at.  Then every job that may have
\* reached the provider is charged and gets its slots back; without a runtime
\* it becomes unknown and has no seat and no runner.
Recover(n, order, gone) ==
  LET admitted == Take(order, n + Room)
      requeued == {admitted[i] : i \in DOMAIN admitted}
      back == {r \in Request : \/ status[r] \in {"submitting", "processing"}
                               \/ status[r] = "unknown" /\ r \in expiring}
      stray == {r \in back : account[r] \in gone}
      late == {r \in back : entry[r] = "reserved"}
  IN  /\ slots' = Restore(Pump([limit |-> n, queue |-> admitted,
                                asking |-> requeued, active |-> {}]), back)
      /\ seats' = [a \in Account |->
                     Restore(Empty(n), {r \in back \ stray : account[r] = a})]
      /\ running' = back \ stray
      /\ status' = [r \in Request |->
                      IF r \in stray THEN "unknown"
                      ELSE IF r \in back /\ status[r] = "submitting"
                      THEN "processing" ELSE status[r]]
      /\ expiring' = expiring \cup stray
      /\ entry' = [r \in Request |-> IF r \in late THEN "charged" ELSE entry[r]]
      /\ ledger' = [r \in Request |->
                      IF r \in late
                        THEN ledger[r] \cup
                               {<<"charge", "upstream_submit_may_have_occurred">>}
                        ELSE ledger[r]]
      /\ pc' = [r \in Request |->
                  IF r \in requeued THEN "requeued"
                  ELSE IF pc[r] = "new" THEN "new" ELSE "done"]

Restart ==
  /\ restarts < MaxRestarts
  /\ restarts' = restarts + 1
  /\ \E n \in SlotLimits, gone \in SUBSET {a \in Account : ~open[a]},
        order \in Orders({r \in Request : status[r] = "queued"}) :
       Recover(n, order, gone)
  /\ answer' = [r \in Request |-> IF Interrupted(r) THEN "lost" ELSE answer[r]]
  /\ leaked' = {}
  /\ todo' = [r \in Request |-> {}]
  /\ others' = [r \in Request |-> {}]
  /\ candidate' = [r \in Request |-> NoAccount]
  /\ allFull' = [r \in Request |-> TRUE]
  /\ UNCHANGED <<day, open, limit, plan, ask, account, booked>>

\* A queued job whose account has no runtime stays queued; one whose account
\* is full throws and keeps the slot of the gateway.
RequeuedTakesSeat(r) ==
  /\ pc[r] = "requeued" /\ r \in slots.active
  /\ LET a == account[r]
     IN  \/ /\ ~open[a]
            /\ Goto(r, "done") /\ slots' = ReleaseLease(slots, r)
            /\ UNCHANGED <<seats, leaked>>
         \/ /\ Full(seats[a])
            /\ Goto(r, "done") /\ leaked' = leaked \cup {r}
            /\ UNCHANGED managerVars
         \/ /\ ~Full(seats[a])
            /\ Goto(r, "requeuedSeat")
            /\ seats' = [seats EXCEPT ![a] = Acquire(Admit(@, r), r)]
            /\ UNCHANGED <<slots, leaked>>
  /\ UNCHANGED <<storeVars, answer, todo, Memory, running, restarts>>

RequeuedStarts(r) ==
  /\ pc[r] = "requeuedSeat" /\ r \in seats[account[r]].active
  /\ Goto(r, "done")
  /\ running' = running \cup {r}
  /\ UNCHANGED <<storeVars, managerVars, answer, todo, Memory, restarts,
                 leaked>>

-----------------------------------------------------------------------------

Call(r) ==
  \/ LookUpKey(r) \/ \E a \in Account : LookAt(r, a)
  \/ Choose(r) \/ TakeSeat(r)
  \/ ReserveFindsJob(r) \/ ReserveRefusedByPlan(r)
  \/ ReserveRefusedByAccount(r) \/ ReserveCreates(r)
  \/ StartRunner(r) \/ RequeuedTakesSeat(r) \/ RequeuedStarts(r)

Runner(r) ==
  \/ Submit(r) \/ ChargeSubmitted(r) \/ Follow(r) \/ Finish(r) \/ Stop(r)

Next ==
  \/ \E r \in Request :
       \/ Arrive(r) \/ PrepareFails(r) \/ Call(r) \/ ReserveAtMidnight(r)
       \/ PersistFails(r) \/ Runner(r) \/ FailBeforeTask(r) \/ Lose(r)
       \/ HandOver(r) \/ Reconcile(r) \/ HoldExpires(r)
       \/ Cancel(r) \/ Resolve(r)
  \/ \E a \in Account : Toggle(a) \/ SetLimit(a)
  \/ \E p \in Project : Assign(p)
  \/ Midnight
  \/ Restart

Spec == Init /\ [][Next]_vars

\* Every await of a call and of a runner has a timeout; a job is not lost and
\* found for ever, since its deadline is fixed when it is submitted.
LiveSpec ==
  /\ Spec
  /\ \A r \in Request :
       /\ WF_vars(Call(r)) /\ WF_vars(HoldExpires(r))
       /\ WF_vars(Submit(r) \/ ChargeSubmitted(r) \/ Stop(r))
       /\ SF_vars(Follow(r)) /\ SF_vars(Finish(r) \/ HandOver(r))

-----------------------------------------------------------------------------
(* Properties. *)

\* The usage of candidates() is stale when the reservation is made, limits are
\* changed and the day ends meanwhile: still no step of anybody raises the
\* points of an account or a project, in any day or month, above its limit
\* (sqlite-admission-repository.ts:237-283).
Grows(used, usedThen, most) == usedThen > used /\ most # 0 => usedThen <= most
BudgetNeverOverrun ==
  [][\A d \in 0..LastDay :
       /\ \A a \in Account :
            /\ Grows(UsedOnDay(JobsOf(a), d), UsedOnDay(JobsOf(a), d)',
                     limit[a].day)
            /\ Grows(UsedInMonth(JobsOf(a), d), UsedInMonth(JobsOf(a), d)',
                     limit[a].month)
       /\ \A p \in Project :
            /\ Grows(UsedOnDay(JobsFor(p), d), UsedOnDay(JobsFor(p), d)',
                     plan[p].day)
            /\ Grows(UsedInMonth(JobsFor(p), d), UsedInMonth(JobsFor(p), d)',
                     plan[p].month)]_vars

\* Whatever calls with one key overlap, are repeated after a lost answer or
\* come after a restart, there is one job for the key
\* (sqlite-admission-repository.ts:539-549, scheduler.ts:163-184).
OneJobPerKey ==
  \A r, j \in Request :
    Exists(r) /\ Exists(j) /\ Key(r) = Key(j) /\ Key(r) # NoKey => r = j

\* A client that is given a job it did not make has asked for the very same
\* thing under the key of that job, and one that is told of a conflict has not.
AnswerFitsRequest ==
  \A r, j \in Request :
    /\ answer[r] = j /\ r # j =>
         Exists(j) /\ Key(r) = Key(j) /\ ask[r].payload = ask[j].payload
    /\ answer[r] = "conflict" =>
         \E k \in SameKey(r) : ~Matches(r, account[k], k)

\* No wake-up is lost: while a slot is free, nobody who asked for one is first
\* in the queue (capacity.ts:296-316).
QueueMoves == Moves(slots) /\ \A a \in Account : Moves(seats[a])

\* No grant goes above the limit, also when a restart has restored more jobs
\* than it allows and some of them give their slots back: then the queue waits
\* (capacity.ts:296-316, 116-165).
GrantsFitLimit ==
  [][\/ Restart
     \/ Grants(slots, slots') /\ \A a \in Account : Grants(seats[a], seats'[a])]_vars

\* A slot or a seat is held by a call on its way to a runner, by a runner, or
\* by an unknown job whose hold will run out: no path of the scheduler leaves
\* one behind, but for the two recorded in `leaked'.
SlotsAreOwned ==
  \A r \in Request :
    /\ r \in slots.active =>
         \/ pc[r] \in {"waitSlot", "waitSeat", "persisting", "requeued",
                      "requeuedSeat"}
         \/ r \in running \cup expiring \cup leaked
    /\ \A a \in Account : r \in seats[a].active =>
         \/ pc[r] = "waitSeat" /\ a = candidate[r]
         \/ pc[r] \in {"persisting", "requeuedSeat"} /\ a = account[r]
         \/ r \in running \cup leaked /\ a = account[r]

\* The ledger tells what became of an entry, also when a kill falls between
\* the submission and the charge, or an operator rules
\* (sqlite-admission-repository.ts:351-470).
LedgerFollowsEntry ==
  \A r \in Request :
    LET types == {row[1] : row \in ledger[r]}
    IN  /\ entry[r] = "reserved" => types = {"hold"}
        /\ entry[r] = "charged" => {"hold", "charge"} \subseteq types
        /\ entry[r] = "released" => {"hold", "release"} \subseteq types

\* Every call that has got past the admission is answered, unless a slot has
\* been left behind: nobody waits for ever behind a slow or a failed one.
CallsAreAnswered ==
  [](leaked = {}) => \A r \in Request : pc[r] = "preparing" ~> pc[r] = "done"

\* Refuted: the points the usage summary adds up for a job are those its
\* budget entry is charged with.
UsageIsWhatWasCharged ==
  \A r \in Request :
    ChargedPoints(r) = IF entry[r] = "charged" THEN Points(r) ELSE 0
=============================================================================
