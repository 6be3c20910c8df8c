------------------------------- MODULE SignIn -------------------------------
(***************************************************************************)
(* The daily sign-in of provider accounts.  A process checks all of its    *)
(* accounts when it starts and once an hour; on PostgreSQL several do, and *)
(* the run is for the one that holds the advisory lock.  For an account a  *)
(* run reads the progress, claims the account's attempt of the day, sends  *)
(* the completion and reads the progress again.                            *)
(*                                                                         *)
(* One activity, which the provider may open or close at any time; its     *)
(* date and this process's are the same clock, which may strike midnight   *)
(* between any two steps of a run.                                         *)
(***************************************************************************)
EXTENDS Naturals, FiniteSets

CONSTANTS
  Signer,     \* processes that run the scheduler
  Subscriber, \* provider accounts with an enabled runtime
  NoSigner,
  LastDay     \* bound: the last Shanghai date

VARIABLES
  date,      \* the Shanghai date
  updated,   \* updateTime of an account's progress, as a date; 0 for earlier
  attempts,  \* sign_in_attempts: account and date
  check,     \* sign_in_check_state, or accountChecks
  leader,    \* who holds the advisory lock
  run,       \* executeAccounts of a process
  sign       \* posts of the completion that may still reach the provider

VARIABLE posted  \* history: account and claimed date of each post

signInVars ==
  <<date, updated, attempts, check, leader, run, sign, posted>>

ASSUME SignInAssumption == Subscriber # {} /\ LastDay \in Nat \ {0}

-----------------------------------------------------------------------------

Dates == 1 .. LastDay
Result == {"signed", "already_signed", "no_active_activity", "unknown", "failed"}
Step   == {"off", "waiting", "listing", "next", "reading", "claiming", "posting",
           "rereading"}
Run    == [pc : Step, left : SUBSET Subscriber, at : Subscriber, today : Dates,
           closing : BOOLEAN]

NoRun == [pc |-> "waiting", left |-> {}, at |-> CHOOSE s \in Subscriber : TRUE,
          today |-> 1, closing |-> FALSE]

SignInTypeOK ==
  /\ date \in Dates
  /\ updated \in [Subscriber -> 0 .. LastDay]
  /\ attempts \subseteq Subscriber \X Dates
  /\ check \in [Subscriber -> Result \cup {"none", "checking"}]
  /\ leader \in Signer \cup {NoSigner}
  /\ run \in [Signer -> Run]
  /\ sign \in [Subscriber -> Nat]
  /\ posted \in [Subscriber \X Dates -> Nat]

SignInInit ==
  /\ date = 1
  /\ updated = [s \in Subscriber |-> 0]
  /\ attempts = {}
  /\ check = [s \in Subscriber |-> "none"]
  /\ leader = NoSigner
  /\ run = [p \in Signer |-> [NoRun EXCEPT !.pc = "off"]]
  /\ sign = [s \in Subscriber |-> 0]
  /\ posted = [c \in Subscriber \X Dates |-> 0]

-----------------------------------------------------------------------------
(* The provider. *)

Midnight ==
  /\ date < LastDay /\ date' = date + 1
  /\ UNCHANGED <<updated, attempts, check, leader, run, sign,
                 posted>>

\* A post whose answer nobody waited for is carried out, or lost.
PostLands(s) ==
  /\ sign[s] > 0
  /\ sign' = [sign EXCEPT ![s] = @ - 1]
  /\ updated' \in {updated, [updated EXCEPT ![s] = date]}
  /\ UNCHANGED <<date, attempts, check, leader, run, posted>>

\* The account is signed in on the provider's page.
SignsByHand(s) ==
  /\ updated' = [updated EXCEPT ![s] = date]
  /\ UNCHANGED <<date, attempts, check, leader, run, sign, posted>>

-----------------------------------------------------------------------------
(* The scheduler. *)

Idle(p) == run[p].pc = "waiting"

\* A run begins for the holder of the lock, and for nobody else.
TakesLead(p) ==
  IF leader = NoSigner
  THEN /\ leader' = p
       /\ run' = [run EXCEPT ![p] = [NoRun EXCEPT !.pc = "listing"]]
  ELSE UNCHANGED leader /\ run' = [run EXCEPT ![p] = NoRun]

StartSigner(p) ==
  /\ run[p].pc = "off"
  /\ TakesLead(p)
  /\ UNCHANGED <<date, updated, attempts, check, sign, posted>>

\* The hour strikes, or somebody asks: runNow joins the run that is under way.
HourStrikes(p) ==
  /\ run[p].pc # "off" /\ ~run[p].closing
  /\ IF Idle(p) THEN TakesLead(p) ELSE UNCHANGED <<leader, run>>
  /\ UNCHANGED <<date, updated, attempts, check, sign, posted>>

\* The snapshot of listEnabled(), taken once.
ListAccounts(p) ==
  /\ run[p].pc = "listing"
  /\ \E listed \in SUBSET Subscriber :
       /\ check' = [s \in Subscriber |-> IF s \in listed THEN check[s] ELSE "none"]
       /\ run' = [run EXCEPT ![p].pc = "next", ![p].left = listed]
  /\ UNCHANGED <<date, updated, attempts, leader, sign, posted>>

\* The next account; its date is fixed here.
TakeAccount(p) ==
  /\ run[p].pc = "next"
  /\ \E s \in run[p].left :
       /\ check' = [check EXCEPT ![s] = "checking"]
       /\ run' = [run EXCEPT ![p].pc = "reading", ![p].at = s, ![p].today = date,
                             ![p].left = @ \ {s}]
  /\ UNCHANGED <<date, updated, attempts, leader, sign, posted>>

Report(p, result) ==
  /\ check' = [check EXCEPT ![run[p].at] = result]
  /\ run' = [run EXCEPT ![p].pc = "next", ![p].today = 1]

\* What the first look at the progress may end with.
ProgressSettles(p) ==
  /\ run[p].pc = "reading"
  /\ \/ \E result \in {"failed", "no_active_activity"} : Report(p, result)
     \/ /\ updated[run[p].at] = run[p].today
        /\ Report(p, "already_signed")
  /\ UNCHANGED <<date, updated, attempts, leader, sign, posted>>

ProgressOpen(p) ==
  /\ run[p].pc = "reading"
  /\ updated[run[p].at] # run[p].today
  /\ run' = [run EXCEPT ![p].pc = "claiming"]
  /\ UNCHANGED <<date, updated, attempts, check, leader, sign,
                 posted>>

\* Mutant: the attempt is looked up under the date of now.
ClaimedToday(p) == <<run[p].at, date>> \in attempts

Claimed(p) == <<run[p].at, run[p].today>> \in attempts

ClaimTaken(p) ==
  /\ run[p].pc = "claiming" /\ Claimed(p)
  /\ Report(p, "unknown")
  /\ UNCHANGED <<date, updated, attempts, leader, sign, posted>>

Claim(p) ==
  /\ run[p].pc = "claiming" /\ ~Claimed(p)
  /\ attempts' = attempts \cup {<<run[p].at, run[p].today>>}
  /\ run' = [run EXCEPT ![p].pc = "posting"]
  /\ UNCHANGED <<date, updated, check, leader, sign, posted>>

\* The completion is on its way; the answer may be waited for in vain.
PostCompletion(p) ==
  /\ run[p].pc = "posting"
  /\ run' = [run EXCEPT ![p].pc = "rereading"]
  /\ sign' = [sign EXCEPT ![run[p].at] = @ + 1]
  /\ posted' = [posted EXCEPT ![<<run[p].at, run[p].today>>] = @ + 1]
  /\ UNCHANGED <<date, updated, attempts, check, leader>>

\* Mutant: any progress at all is taken for the one of today.
LookAgainAnyDay(p) ==
  /\ run[p].pc = "rereading"
  /\ \/ \E result \in {"failed", "unknown"} : Report(p, result)
     \/ updated[run[p].at] # 0 /\ Report(p, "signed")
  /\ UNCHANGED <<date, updated, attempts, leader, sign, posted>>

\* The second look decides, whatever the answer was.
LookAgain(p) ==
  /\ run[p].pc = "rereading"
  /\ \/ \E result \in {"failed", "unknown"} : Report(p, result)
     \/ updated[run[p].at] = run[p].today /\ Report(p, "signed")
  /\ UNCHANGED <<date, updated, attempts, leader, sign, posted>>

\* The run ends, and gives up the lock if its connection still has it.
EndRun(p) ==
  /\ run[p].pc = "next" /\ run[p].left = {}
  /\ leader' = IF leader = p THEN NoSigner ELSE leader
  /\ run' = [run EXCEPT ![p] = [NoRun EXCEPT
                !.pc = IF run[p].closing THEN "off" ELSE "waiting"]]
  /\ UNCHANGED <<date, updated, attempts, check, sign, posted>>

\* PostgreSQL loses the connection that holds the lock; the run goes on.
LockLost ==
  /\ leader # NoSigner /\ leader' = NoSigner
  /\ UNCHANGED <<date, updated, attempts, check, run, sign,
                 posted>>

\* close() sets no timer any more and waits for the run.
CloseSigner(p) ==
  /\ run[p].pc # "off" /\ ~run[p].closing
  /\ run' = IF Idle(p) THEN [run EXCEPT ![p].pc = "off"]
            ELSE [run EXCEPT ![p].closing = TRUE]
  /\ UNCHANGED <<date, updated, attempts, check, leader, sign, posted>>

KillSigner(p) ==
  /\ run[p].pc # "off"
  /\ run' = [run EXCEPT ![p] = [NoRun EXCEPT !.pc = "off"]]
  /\ leader' = IF leader = p THEN NoSigner ELSE leader
  /\ UNCHANGED <<date, updated, attempts, check, sign, posted>>

SignInNext ==
  \/ Midnight \/ LockLost
  \/ \E s \in Subscriber : PostLands(s) \/ SignsByHand(s)
  \/ \E p \in Signer :
       \/ StartSigner(p) \/ HourStrikes(p) \/ ListAccounts(p) \/ TakeAccount(p)
       \/ ProgressSettles(p) \/ ProgressOpen(p) \/ ClaimTaken(p) \/ Claim(p)
       \/ PostCompletion(p) \/ LookAgain(p) \/ EndRun(p)
       \/ CloseSigner(p) \/ KillSigner(p)

SignInSpec == SignInInit /\ [][SignInNext]_signInVars

-----------------------------------------------------------------------------

\* However runs overlap, processes are killed and dates change, the completion
\* of an account and a date is posted at most once.
CompletedOncePerDay == \A c \in Subscriber \X Dates : posted[c] <= 1

\* What the console shows as signed is signed: the provider has a completion of
\* a day in which a completion was posted.
SignedWasPosted ==
  \A s \in Subscriber : check[s] = "signed" =>
    \E d \in Dates : posted[<<s, d>>] = 1 /\ updated[s] >= d
=============================================================================
