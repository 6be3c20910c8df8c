--------------------------- MODULE AdmissionStore ---------------------------
(***************************************************************************)
(* What the admission repository and its tables promise about points: the  *)
(* reservation of a quote in a day and a month of an account and of a      *)
(* project, the idempotency key, and the ledger.  One operator per         *)
(* transaction; a request and the job it makes bear the same name.         *)
(***************************************************************************)
EXTENDS Naturals, FiniteSets, Functions

CONSTANTS
  Request, Account, Project,
  NoKey,        \* a null idempotency key
  NoQuote,      \* a null quote
  NoAccount,
  Ask,          \* what clients may ask for: a key or NoKey, a payload (the
                \* model, parameters and inputs), and what it costs
  ProjectOf,    \* ProjectOf[r]: the project a request is made for
  ApiId,        \* ApiId[a]: what the catalog of an account resolves the model to
  DaysInMonth   \* bound: how many days of the clock make a month

ASSUME RequestAssumption == IsFiniteSet(Request)
ASSUME AskAssumption == \A what \in Ask : what.quote \in Nat \cup {NoQuote}
ASSUME MonthAssumption == DaysInMonth \in Nat \ {0}

VARIABLES
  day,      \* the day of the clock, in Shanghai
  open,     \* is the account enabled, ready, and its runtime loaded?
  limit,    \* accounts.daily_point_limit and monthly_point_limit
  plan,     \* the limits of the plan of a project
  ask,      \* what a request asks for
  status,   \* jobs.status; "absent" before the row exists
  account,  \* jobs.account_id
  entry,    \* budget_entries.state
  booked,   \* budget_entries.day_window_start, which fixes the month as well
  ledger,   \* the rows <<entry_type, reason>> of usage_ledger for a job
  expiring  \* the unknown jobs whose hold has not run out

moneyVars == <<entry, booked, ledger>>
storeVars == <<day, open, limit, plan, ask, status, account, moneyVars, expiring>>

-----------------------------------------------------------------------------

Status == {"absent", "queued", "submitting", "processing", "unknown",
           "completed", "failed"}
PointLimit == [day : Nat, month : Nat]
Plan == [day : Nat, month : Nat, running : Nat, queued : Nat]
LedgerRow == {"hold", "charge", "release"} \X
             {"quoted_generation_cost", "upstream_submit_may_have_occurred",
              "admin_resolved_unknown", "before_submit"}

StoreTypeOK ==
  /\ day \in Nat
  /\ open \in [Account -> BOOLEAN]
  /\ limit \in [Account -> PointLimit]
  /\ plan \in [Project -> Plan]
  /\ ask \in [Request -> Ask]
  /\ status \in [Request -> Status]
  /\ account \in [Request -> Account \cup {NoAccount}]
  /\ entry \in [Request -> {"none", "reserved", "charged", "released"}]
  /\ booked \in [Request -> Nat]
  /\ ledger \in [Request -> SUBSET LedgerRow]
  /\ expiring \subseteq Request

Month(d) == d \div DaysInMonth
Exists(r) == status[r] # "absent"
Key(r) == ask[r].key
Quote(r) == ask[r].quote
Points(r) == IF Quote(r) = NoQuote THEN 0 ELSE Quote(r)

-----------------------------------------------------------------------------
(* Usage. *)

JobsOf(a)  == {r \in Request : account[r] = a}
JobsFor(p) == {r \in Request : Exists(r) /\ ProjectOf[r] = p}

countsTowardBudget(r) == entry[r] \in {"reserved", "charged"}

PointsOf(jobs) == SumFunctionOnSet([r \in Request |-> Points(r)], jobs)
UsedOnDay(jobs, d) ==
  PointsOf({r \in jobs : countsTowardBudget(r) /\ booked[r] = d})
UsedInMonth(jobs, m) ==
  PointsOf({r \in jobs : countsTowardBudget(r) /\ Month(booked[r]) = m})

\* A limit of zero is no limit; what has no quote fits no other limit.
Fits(r, jobs, most) ==
  IF Quote(r) = NoQuote
    THEN most.day = 0 /\ most.month = 0
    ELSE /\ most.day # 0 => UsedOnDay(jobs, day) + Quote(r) <= most.day
         /\ most.month # 0 =>
              UsedInMonth(jobs, Month(day)) + Quote(r) <= most.month

FitsAccount(r, a) == Fits(r, JobsOf(a), limit[a])
FitsPlan(r) == Fits(r, JobsFor(ProjectOf[r]), plan[ProjectOf[r]])

Active(p) ==
  {r \in JobsFor(p) : \/ status[r] \in {"submitting", "processing"}
                      \/ status[r] = "unknown" /\ r \in expiring}
Queued(p) == {r \in JobsFor(p) : status[r] = "queued"}

PlanHasRoom(r) ==
  LET p == ProjectOf[r]
  IN  /\ plan[p].running # 0 => Cardinality(Active(p)) < plan[p].running
      /\ plan[p].queued # 0 => Cardinality(Queued(p)) < plan[p].queued

-----------------------------------------------------------------------------
(* Idempotency. *)

SameKey(r) ==
  {j \in Request : Exists(j) /\ Key(j) = Key(r) /\ Key(r) # NoKey}

Fingerprint(r, a) == <<ApiId[a], ask[r].payload>>

\* Mutant: whatever is found under the key is the answer.
MatchesAnything(r, a, j) == TRUE

Matches(r, a, j) == Fingerprint(r, a) = Fingerprint(j, account[j])

-----------------------------------------------------------------------------
(* Transactions.  The ledger has one row per job, type and reason. *)

Enter(r, type, reason) ==
  ledger' = [ledger EXCEPT ![r] = @ \cup {<<type, reason>>}]

\* Mutants: the budget is read before the transaction only; any key is new.
CanReserveUnchecked(r, a) ==
  SameKey(r) = {} /\ open[a] /\ PlanHasRoom(r) /\ FitsPlan(r)
CanReserveTwice(r, a) ==
  open[a] /\ PlanHasRoom(r) /\ FitsPlan(r) /\ FitsAccount(r, a)

CanReserve(r, a) ==
  /\ SameKey(r) = {}
  /\ open[a]
  /\ PlanHasRoom(r)
  /\ FitsPlan(r)
  /\ FitsAccount(r, a)

Reserve(r, a) ==
  /\ status' = [status EXCEPT ![r] = "queued"]
  /\ account' = [account EXCEPT ![r] = a]
  /\ entry' = [entry EXCEPT ![r] = "reserved"]
  /\ booked' = [booked EXCEPT ![r] = day]
  /\ Enter(r, "hold", "quoted_generation_cost")
  /\ UNCHANGED <<day, open, limit, plan, ask, expiring>>

\* The order of the checks decides what a request that fails several is told.
RefusedByPlan(r, a) ==
  SameKey(r) = {} /\ open[a] /\ ~(PlanHasRoom(r) /\ FitsPlan(r))
RefusedByAccount(r, a) ==
  /\ SameKey(r) = {}
  /\ \/ ~open[a]
     \/ PlanHasRoom(r) /\ FitsPlan(r) /\ ~FitsAccount(r, a)

\* Mutant: the entry is charged and the ledger is not told.
ChargeSilently(r) ==
  entry' = [entry EXCEPT ![r] = "charged"] /\ UNCHANGED <<booked, ledger>>

Charge(r) ==
  /\ entry' = [entry EXCEPT ![r] = "charged"]
  /\ Enter(r, "charge", "upstream_submit_may_have_occurred")
  /\ UNCHANGED booked

FailAndRelease(r) ==
  /\ status' = [status EXCEPT ![r] = "failed"]
  /\ entry' = [entry EXCEPT ![r] = "released"]
  /\ Enter(r, "release", "before_submit")
  /\ UNCHANGED <<day, open, limit, plan, ask, account, booked>>

\* Mutant: the ruling is stored for the state it leads to.
ResolveUnknownByName(r, action) ==
  /\ status[r] = "unknown" /\ entry[r] \in {"reserved", "charged"}
  /\ status' = [status EXCEPT ![r] = "failed"]
  /\ entry' = [entry EXCEPT ![r] = action]
  /\ Enter(r, action, "admin_resolved_unknown")
  /\ UNCHANGED <<day, open, limit, plan, ask, account, booked>>

ResolveUnknown(r, action) ==
  /\ status[r] = "unknown" /\ entry[r] \in {"reserved", "charged"}
  /\ status' = [status EXCEPT ![r] = "failed"]
  /\ entry' = [entry EXCEPT ![r] =
                 IF action = "charge" THEN "charged" ELSE "released"]
  /\ Enter(r, action, "admin_resolved_unknown")
  /\ UNCHANGED <<day, open, limit, plan, ask, account, booked>>

\* What the usage summary adds up for a job: each row has the full quote.
ChargedPoints(r) ==
  Points(r) * Cardinality({row \in ledger[r] : row[1] = "charge"})
=============================================================================
