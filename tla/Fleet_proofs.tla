----------------------------- MODULE Fleet_proofs -----------------------------
(***************************************************************************)
(* The provider accounts of a gateway: their daily sign-in, for any number *)
(* of processes, accounts and days; their capacity managers, their rows,   *)
(* runtimes and files, for any number of administrators' requests and      *)
(* credentials.  The workers of the PostgreSQL build, for any number of    *)
(* gateways and jobs: what becomes of the points and of the paid request   *)
(* of a job.                                                               *)
(***************************************************************************)
EXTENDS Accounts, SignIn, Pipeline, TLAPS

-----------------------------------------------------------------------------
(* Sign-in. *)

Pairs == Subscriber \X Dates

\* The account and date a run works on.
At(p) == <<run[p].at, run[p].today>>

\* A run that is about to post has claimed a day nobody has posted for, and it
\* is the only one about to; whoever looks again has posted.
RunsFit ==
  \A p \in Signer :
    /\ run[p].pc = "posting" =>
         /\ At(p) \in attempts /\ posted[At(p)] = 0
         /\ \A q \in Signer : run[q].pc = "posting" /\ q # p => At(q) # At(p)
    /\ run[p].pc = "rereading" => posted[At(p)] = 1

SignInInv ==
  /\ date \in Dates
  /\ updated \in [Subscriber -> 0 .. LastDay]
  /\ \A s \in Subscriber : updated[s] <= date
  /\ check \in [Subscriber -> Result \cup {"none", "checking"}]
  /\ run \in [Signer -> Run]
  /\ posted \in [Pairs -> Nat]
  /\ \A c \in Pairs : posted[c] <= 1 /\ (posted[c] > 0 => c \in attempts)
  /\ RunsFit
  /\ SignedWasPosted

LEMMA NoRunIsARun == \A pc \in Step : [NoRun EXCEPT !.pc = pc] \in Run
<1>1. 1 \in Dates
  BY SignInAssumption DEF SignInAssumption, Dates
<1>2. (CHOOSE s \in Subscriber : TRUE) \in Subscriber
  BY SignInAssumption DEF SignInAssumption
<1> QED BY <1>1, <1>2 DEF NoRun, Run, Step

LEMMA SignInInvHoldsAtFirst == SignInInit => SignInInv
<1> SUFFICES ASSUME SignInInit PROVE SignInInv
  OBVIOUS
<1>1. 1 \in Dates /\ 0 \in 0 .. LastDay
  BY SignInAssumption DEF SignInAssumption, Dates
<1>2. run \in [Signer -> Run] /\ \A p \in Signer : run[p].pc = "off"
  BY NoRunIsARun DEF SignInInit, Step, NoRun
<1>3. posted \in [Pairs -> Nat] /\ \A c \in Pairs : posted[c] = 0
  BY DEF SignInInit, Pairs
<1>4. SignedWasPosted
  BY DEF SignInInit, SignedWasPosted
<1>5. RunsFit
  BY <1>2 DEF RunsFit
<1>6. updated \in [Subscriber -> 0 .. LastDay] /\ check \in [Subscriber -> {"none"}]
      /\ date = 1 /\ \A s \in Subscriber : updated[s] = 0
  BY <1>1 DEF SignInInit
<1> QED BY <1>1, <1>2, <1>3, <1>4, <1>5, <1>6 DEF SignInInv

\* A run that neither posts nor looks again is no matter to the others.
LEMMA RunsGoOn ==
  ASSUME SignInInv, NEW p \in Signer, NEW new \in Run,
         new.pc \notin {"posting", "rereading"},
         run' = [run EXCEPT ![p] = new], UNCHANGED <<attempts, posted>>
  PROVE  RunsFit' /\ run' \in [Signer -> Run]
<1>1. run' \in [Signer -> Run]
  BY DEF SignInInv
<1>2. ASSUME NEW q \in Signer, run'[q].pc \in {"posting", "rereading"}
      PROVE  q # p /\ run'[q] = run[q]
  BY <1>2 DEF SignInInv
<1>3. RunsFit'
  BY <1>2 DEF SignInInv, RunsFit, At
<1> QED BY <1>1, <1>3

\* Reports other than "signed" show nothing as signed.
LEMMA ChecksGoOn ==
  ASSUME SignInInv, UNCHANGED <<updated, posted>>,
         check' \in [Subscriber -> Result \cup {"none", "checking"}],
         \A s \in Subscriber : check'[s] = "signed" => check[s] = "signed"
  PROVE  SignedWasPosted'
  BY DEF SignInInv, SignedWasPosted

LEMMA SignInInvIsKept == SignInInv /\ [SignInNext]_signInVars => SignInInv'
<1> SUFFICES ASSUME SignInInv, [SignInNext]_signInVars PROVE SignInInv'
  OBVIOUS
<1>0. /\ date \in Nat /\ date <= LastDay /\ LastDay \in Nat
      /\ \A s \in Subscriber : updated[s] \in Nat
  BY SignInAssumption DEF SignInAssumption, SignInInv, Dates
<1>1. CASE UNCHANGED signInVars
  BY <1>1 DEF signInVars, SignInInv, RunsFit, At, SignedWasPosted
<1>2. CASE Midnight
  <2>1. date' \in Dates /\ date <= date'
    BY <1>0, <1>2 DEF Midnight, Dates
  <2>2. \A s \in Subscriber : updated'[s] <= date'
    BY <1>0, <1>2, <2>1 DEF Midnight, SignInInv, Dates
  <2> QED BY <1>2, <2>1, <2>2 DEF Midnight, SignInInv, RunsFit, At, SignedWasPosted
<1>3. CASE LockLost
  BY <1>3 DEF LockLost, SignInInv, RunsFit, At, SignedWasPosted
\* The provider's date of an account grows.
<1>4. ASSUME NEW s \in Subscriber, PostLands(s) \/ SignsByHand(s) PROVE SignInInv'
  <2>1. /\ UNCHANGED <<date, attempts, check, run, posted>>
        /\ updated' = updated \/ updated' = [updated EXCEPT ![s] = date]
    BY <1>4 DEF PostLands, SignsByHand
  <2>2. /\ updated' \in [Subscriber -> 0 .. LastDay]
        /\ \A t \in Subscriber : updated[t] <= updated'[t] /\ updated'[t] <= date
    BY <1>0, <2>1 DEF SignInInv
  <2>3. \A t \in Subscriber, d \in Dates : updated[t] >= d => updated'[t] >= d
    BY <1>0, <2>2 DEF Dates
  <2>4. SignedWasPosted'
    BY <2>1, <2>3 DEF SignInInv, SignedWasPosted
  <2>5. RunsFit'
    BY <2>1 DEF SignInInv, RunsFit, At
  <2> QED BY <2>1, <2>2, <2>4, <2>5 DEF SignInInv
<1>5. ASSUME NEW p \in Signer,
             \/ StartSigner(p) \/ HourStrikes(p) \/ EndRun(p)
             \/ CloseSigner(p) \/ KillSigner(p)
      PROVE  SignInInv'
  <2>1. UNCHANGED <<date, updated, attempts, check, posted>>
    BY <1>5 DEF StartSigner, HourStrikes, EndRun, CloseSigner, KillSigner
  <2>2. SignedWasPosted'
    BY <2>1 DEF SignInInv, SignedWasPosted
  <2>3. RunsFit' /\ run' \in [Signer -> Run]
    <3>1. CASE run' = run
      BY <2>1, <3>1 DEF SignInInv, RunsFit, At
    <3>2. CASE \E pc \in {"off", "waiting", "listing"} :
                 run' = [run EXCEPT ![p] = [NoRun EXCEPT !.pc = pc]]
      <4>1. PICK pc \in {"off", "waiting", "listing"} :
              run' = [run EXCEPT ![p] = [NoRun EXCEPT !.pc = pc]]
        BY <3>2
      <4>2. [NoRun EXCEPT !.pc = pc] \in Run /\ [NoRun EXCEPT !.pc = pc].pc = pc
        BY NoRunIsARun DEF Step, NoRun
      <4> QED BY <2>1, <4>1, <4>2, RunsGoOn
    <3>3. CASE run' = [run EXCEPT ![p].pc = "off"]
      <4>1. [run[p] EXCEPT !.pc = "off"] \in Run
            /\ [run[p] EXCEPT !.pc = "off"].pc = "off"
        BY DEF SignInInv, Run, Step
      <4> QED BY <2>1, <3>3, <4>1, RunsGoOn
    <3>4. CASE run' = [run EXCEPT ![p].closing = TRUE]
      <4>1. /\ run' \in [Signer -> Run]
            /\ \A q \in Signer : run'[q].pc = run[q].pc /\ At(q)' = At(q)
        BY <3>4 DEF SignInInv, Run, At
      <4> QED BY <2>1, <4>1 DEF SignInInv, RunsFit
    <3>5. NoRun = [NoRun EXCEPT !.pc = "waiting"]
      BY DEF NoRun
    <3> QED BY <1>5, <3>1, <3>2, <3>3, <3>4, <3>5
            DEF StartSigner, HourStrikes, EndRun, CloseSigner, KillSigner, TakesLead
  <2> QED BY <2>1, <2>2, <2>3 DEF SignInInv
<1>6. ASSUME NEW p \in Signer, ListAccounts(p) PROVE SignInInv'
  <2>1. PICK listed \in SUBSET Subscriber :
          /\ check' = [s \in Subscriber |-> IF s \in listed THEN check[s] ELSE "none"]
          /\ run' = [run EXCEPT ![p].pc = "next", ![p].left = listed]
          /\ UNCHANGED <<date, updated, attempts, posted>>
    BY <1>6 DEF ListAccounts
  <2> DEFINE new == [run[p] EXCEPT !.pc = "next", !.left = listed]
  <2>2. new \in Run /\ new.pc = "next" /\ run' = [run EXCEPT ![p] = new]
    BY <2>1 DEF SignInInv, Run, Step
  <2> HIDE DEF new
  <2>3. check' \in [Subscriber -> Result \cup {"none", "checking"}]
        /\ \A s \in Subscriber : check'[s] = "signed" => check[s] = "signed"
    BY <2>1 DEF SignInInv
  <2> QED BY <2>1, <2>2, <2>3, RunsGoOn, ChecksGoOn DEF SignInInv
<1>7. ASSUME NEW p \in Signer, TakeAccount(p) PROVE SignInInv'
  <2>1. PICK s \in run[p].left :
          /\ check' = [check EXCEPT ![s] = "checking"]
          /\ run' = [run EXCEPT ![p].pc = "reading", ![p].at = s, ![p].today = date,
                                ![p].left = @ \ {s}]
          /\ UNCHANGED <<date, updated, attempts, posted>>
    BY <1>7 DEF TakeAccount
  <2> DEFINE new == [run[p] EXCEPT !.pc = "reading", !.at = s, !.today = date,
                                   !.left = @ \ {s}]
  <2>2. s \in Subscriber
    BY DEF SignInInv, Run
  <2>3. new \in Run /\ new.pc = "reading" /\ run' = [run EXCEPT ![p] = new]
    BY <2>1, <2>2 DEF SignInInv, Run, Step
  <2> HIDE DEF new
  <2>4. check' \in [Subscriber -> Result \cup {"none", "checking"}]
        /\ \A t \in Subscriber : check'[t] = "signed" => check[t] = "signed"
    BY <2>1, <2>2 DEF SignInInv
  <2> QED BY <2>1, <2>3, <2>4, RunsGoOn, ChecksGoOn DEF SignInInv
<1>8. ASSUME NEW p \in Signer, NEW result \in Result, Report(p, result),
             UNCHANGED <<date, updated, attempts, posted>>,
             result = "signed" => run[p].pc = "rereading"
                                  /\ updated[run[p].at] = run[p].today
      PROVE  SignInInv'
  <2> DEFINE new == [run[p] EXCEPT !.pc = "next", !.today = 1]
  <2>1. 1 \in Dates /\ run[p].at \in Subscriber /\ run[p].today \in Dates
    BY SignInAssumption DEF SignInAssumption, Dates, SignInInv, Run
  <2>2. new \in Run /\ new.pc = "next" /\ run' = [run EXCEPT ![p] = new]
    BY <1>8, <2>1 DEF Report, SignInInv, Run, Step
  <2> HIDE DEF new
  <2>3. check' \in [Subscriber -> Result \cup {"none", "checking"}]
        /\ check' = [check EXCEPT ![run[p].at] = result]
    BY <1>8, <2>1 DEF Report, SignInInv
  <2>4. SignedWasPosted'
    <3>1. CASE result # "signed"
      BY <1>8, <2>1, <2>3, <3>1, ChecksGoOn DEF SignInInv
    <3>2. CASE result = "signed"
      <4>1. posted[At(p)] = 1
            /\ updated[run[p].at] >= run[p].today
        BY <1>0, <1>8, <2>1, <3>2 DEF SignInInv, RunsFit, At
      <4>2. \A s \in Subscriber : s # run[p].at => check'[s] = check[s]
        BY <2>3 DEF SignInInv
      <4>3. \E d \in Dates : posted[<<run[p].at, d>>] = 1 /\ updated[run[p].at] >= d
        BY <2>1, <4>1 DEF At
      <4> QED BY <1>8, <4>2, <4>3 DEF SignInInv, SignedWasPosted
    <3> QED BY <3>1, <3>2
  <2> QED BY <1>8, <2>2, <2>3, <2>4, RunsGoOn DEF SignInInv
<1>9. ASSUME NEW p \in Signer, ProgressSettles(p) \/ ClaimTaken(p) \/ LookAgain(p)
      PROVE  SignInInv'
  <2>1. UNCHANGED <<date, updated, attempts, posted>>
    BY <1>9 DEF ProgressSettles, ClaimTaken, LookAgain
  <2>2. \/ \E result \in Result \ {"signed"} : Report(p, result)
        \/ run[p].pc = "rereading" /\ updated[run[p].at] = run[p].today
           /\ Report(p, "signed")
    BY <1>9 DEF ProgressSettles, ClaimTaken, LookAgain, Result
  <2>3. "signed" \in Result
    BY DEF Result
  <2> QED BY <1>8, <2>1, <2>2, <2>3
<1>10. ASSUME NEW p \in Signer, ProgressOpen(p) PROVE SignInInv'
  <2> DEFINE new == [run[p] EXCEPT !.pc = "claiming"]
  <2>1. new \in Run /\ new.pc = "claiming" /\ run' = [run EXCEPT ![p] = new]
        /\ UNCHANGED <<date, updated, attempts, check, posted>>
    BY <1>10 DEF ProgressOpen, SignInInv, Run, Step
  <2> HIDE DEF new
  <2> QED BY <2>1, RunsGoOn, ChecksGoOn DEF SignInInv
\* Nobody had claimed the day, so nobody is about to post for it, nor has.
<1>11. ASSUME NEW p \in Signer, Claim(p) PROVE SignInInv'
  <2>1. /\ At(p) \notin attempts /\ attempts' = attempts \cup {At(p)}
        /\ run' = [run EXCEPT ![p].pc = "posting"]
        /\ UNCHANGED <<date, updated, check, posted>>
    BY <1>11 DEF Claim, Claimed, At
  <2>2. /\ run' \in [Signer -> Run] /\ run'[p].pc = "posting"
        /\ \A q \in Signer : At(q)' = At(q) /\ (q # p => run'[q] = run[q])
    BY <2>1 DEF SignInInv, Run, Step, At
  <2>3. At(p) \in Pairs
    BY DEF SignInInv, Run, At, Pairs
  <2>4. posted[At(p)] = 0
    BY <2>1, <2>3 DEF SignInInv
  <2>5. RunsFit'
    BY <2>1, <2>2, <2>4 DEF SignInInv, RunsFit
  <2>6. SignedWasPosted'
    BY <2>1, ChecksGoOn DEF SignInInv
  <2> QED BY <2>1, <2>2, <2>5, <2>6 DEF SignInInv
<1>12. ASSUME NEW p \in Signer, PostCompletion(p) PROVE SignInInv'
  <2>1. /\ run[p].pc = "posting" /\ run' = [run EXCEPT ![p].pc = "rereading"]
        /\ posted' = [posted EXCEPT ![At(p)] = @ + 1]
        /\ UNCHANGED <<date, updated, attempts, check>>
    BY <1>12 DEF PostCompletion, At
  <2>2. /\ run' \in [Signer -> Run] /\ run'[p].pc = "rereading"
        /\ \A q \in Signer : At(q)' = At(q) /\ (q # p => run'[q] = run[q])
    BY <2>1 DEF SignInInv, Run, Step, At
  <2>3. At(p) \in Pairs /\ At(p) \in attempts /\ posted[At(p)] = 0
        /\ \A q \in Signer : run[q].pc = "posting" /\ q # p => At(q) # At(p)
    BY <2>1 DEF SignInInv, Run, At, Pairs, RunsFit
  <2>4. posted' \in [Pairs -> Nat] /\ posted'[At(p)] = 1
        /\ \A c \in Pairs : c # At(p) => posted'[c] = posted[c]
    BY <2>1, <2>3 DEF SignInInv
  <2>5. \A q \in Signer : At(q) \in Pairs
    BY DEF SignInInv, Run, At, Pairs
  <2>6. RunsFit'
    BY <2>1, <2>2, <2>3, <2>4, <2>5 DEF SignInInv, RunsFit
  <2>7. \A c \in Pairs : posted'[c] <= 1 /\ (posted'[c] > 0 => c \in attempts)
    BY <2>3, <2>4 DEF SignInInv
  <2>8. SignedWasPosted'
    BY <2>1, <2>3, <2>4 DEF SignInInv, SignedWasPosted, Pairs
  <2> QED BY <2>1, <2>2, <2>4, <2>6, <2>7, <2>8 DEF SignInInv
<1> QED BY <1>1, <1>2, <1>3, <1>4, <1>5, <1>6, <1>7, <1>9, <1>10, <1>11, <1>12
        DEF SignInNext

LEMMA SignInInvariant == SignInSpec => []SignInInv
  BY SignInInvHoldsAtFirst, SignInInvIsKept, PTL DEF SignInSpec

\* However many processes run the sign-in, are killed and lose their lock, the
\* completion of an account and a date is posted at most once.
THEOREM OneCompletionPerDay == SignInSpec => []CompletedOncePerDay
<1>1. SignInInv => CompletedOncePerDay
  BY DEF SignInInv, CompletedOncePerDay, Pairs
<1> QED BY <1>1, SignInInvariant, PTL

\* An account is shown as signed only when a completion was posted for a day and
\* the provider has one of that day or a later one.
THEOREM SignedIsSigned == SignInSpec => []SignedWasPosted
<1>1. SignInInv => SignedWasPosted
  BY DEF SignInInv
<1> QED BY <1>1, SignInInvariant, PTL

-----------------------------------------------------------------------------
(* Capacity managers. *)

\* An import that has made its account; it alone works on it.
Importing(o) == call[o].kind = "import" /\ call[o].pc \notin {"idle", "describing"}

Imports ==
  \A o \in Operator :
    /\ call[o].pc = "removing" => call[o].kind = "import"
    /\ Importing(o) =>
         /\ Exists(call[o].on)
         /\ \A q \in Operator : Importing(q) /\ q # o => call[q].on # call[o].on

\* What the registry and the requests have; cookies and history are left out.
Typed ==
  /\ row \in [Account -> Row \cup {Unborn, Removed}]
  /\ file \in [Account -> Pair]
  /\ published \in [Account -> Runtime \cup {NoRuntime}]
  /\ shelved \in [Account -> BOOLEAN]
  /\ managers \in [Account -> Nat]
  /\ tail \in [Account -> Seq(Operation)]
  /\ call \in [Operator -> Call]

\* Whoever has a manager has a runtime, or the manager is kept for the next one,
\* or the account is gone for good.
ManagersAreKept ==
  \A a \in Account :
    /\ managers[a] <= 1
    /\ managers[a] = 1 => published[a] # NoRuntime \/ shelved[a] \/ row[a] = Removed
    /\ row[a] = Unborn => managers[a] = 0

AccountsInv == Typed /\ Imports /\ ManagersAreKept

\* What is under way brings cookies of logins.
Wire  == [login : Cookies, by : {"published", "older"}]
Wired == wire \in [Account -> SUBSET Wire]

LEMMA RowsAndPairs ==
  /\ Unborn # Removed /\ Unborn \notin Row /\ Removed \notin Row
  /\ NoRuntime \notin Runtime
  /\ Fresh \in Row /\ NoFiles \in Pair
  /\ \A login \in Cookies : BothFiles(login) \in Pair
  /\ \A a \in Account : NoCall(a) \in Call
<1>1. Fresh \in Row
  BY DEF Fresh, Row, Health
<1>2. NoFiles \in Pair
  BY DEF NoFiles, Pair, Cookies
<1>3. \A login \in Cookies : BothFiles(login) \in Pair
  BY DEF BothFiles, Pair
<1>4. {} \in Cookies
  BY DEF Cookies
<1>5. ASSUME NEW a \in Account PROVE NoCall(a) \in Call
  BY <1>1, <1>2, <1>4 DEF NoCall, Call, Phase
<1> QED BY <1>1, <1>2, <1>3, <1>5, AccountsAssumption DEF AccountsAssumption

LEMMA AccountsInvHoldsAtFirst == AccountsInit => AccountsInv
<1> SUFFICES ASSUME AccountsInit PROVE AccountsInv
  OBVIOUS
<1>1. PICK l \in Login, some \in SUBSET Account :
       /\ row = [a \in Account |->
                  IF a \in some THEN [enabled |-> TRUE, health |-> "ready"]
                  ELSE Unborn]
       /\ file = [a \in Account |->
                   IF a \in some THEN [state |-> {l}, profile |-> {l}]
                   ELSE NoFiles]
       /\ published = [a \in Account |->
                        IF a \in some THEN [row |-> row[a], login |-> {l}]
                        ELSE NoRuntime]
       /\ managers = [a \in Account |-> IF a \in some THEN 1 ELSE 0]
  BY DEF AccountsInit
<1>2. {l} \in Cookies
  BY DEF Cookies
<1>3. [enabled |-> TRUE, health |-> "ready"] \in Row
  BY DEF Row, Health
<1>4. row \in [Account -> Row \cup {Unborn, Removed}]
      /\ \A a \in some : row[a] \in Row
  BY <1>1, <1>3
<1>5. file \in [Account -> Pair]
  BY <1>1, <1>2, RowsAndPairs DEF Pair
<1>6. published \in [Account -> Runtime \cup {NoRuntime}]
      /\ \A a \in some : published[a] \in Runtime
  BY <1>1, <1>2, <1>4 DEF Runtime
<1>7. (CHOOSE a \in Account : TRUE) \in Account
  BY AccountsAssumption DEF AccountsAssumption
<1>8. call \in [Operator -> Call] /\ \A o \in Operator : call[o].pc = "idle"
  BY <1>7, RowsAndPairs DEF AccountsInit, NoCall
<1>9. shelved \in [Account -> BOOLEAN] /\ managers \in [Account -> Nat]
      /\ tail \in [Account -> Seq(Operation)]
  <2>1. \A a \in Account : tail[a] = <<>>
    BY DEF AccountsInit
  <2> QED BY <1>1, <2>1 DEF AccountsInit
<1>10. ManagersAreKept
  <2>1. ASSUME NEW a \in Account, a \in some
        PROVE  managers[a] = 1 /\ published[a] # NoRuntime /\ row[a] # Unborn
    BY <1>1, <1>4, <1>6, <2>1, RowsAndPairs
  <2>2. ASSUME NEW a \in Account, a \notin some PROVE managers[a] = 0
    BY <1>1, <2>2
  <2> QED BY <2>1, <2>2 DEF ManagersAreKept
<1>11. Imports
  BY <1>8 DEF Imports, Importing
<1> QED BY <1>4, <1>5, <1>6, <1>8, <1>9, <1>10, <1>11 DEF AccountsInv, Typed

\* Calls that go on, or end: no import begins and no row disappears.
LEMMA ImportsGoOn ==
  ASSUME Imports,
         \A a \in Account : Exists(a) => Exists(a)',
         call \in [Operator -> Call],
         \A o \in Operator :
           /\ Importing(o)' => Importing(o) /\ call'[o].on = call[o].on
           /\ call'[o].pc = "removing" => call'[o].kind = "import"
  PROVE  Imports'
<1>1. \A o \in Operator : call[o].on \in Account
  BY DEF Call
<1> QED BY <1>1 DEF Imports

\* One call goes on.
LEMMA CallGoesOn ==
  ASSUME Imports, call \in [Operator -> Call],
         \A a \in Account : Exists(a) => Exists(a)',
         NEW o \in Operator, NEW new \in Call,
         call' = [call EXCEPT ![o] = new],
         \/ new.kind # "import"
         \/ new.pc \in {"idle", "describing"}
         \/ Importing(o) /\ new.on = call[o].on,
         new.pc = "removing" => new.kind = "import"
  PROVE  Imports' /\ call' \in [Operator -> Call]
<1>1. call'[o] = new /\ \A q \in Operator : q # o => call'[q] = call[q]
  OBVIOUS
<1>2. \A q \in Operator :
         /\ Importing(q)' => Importing(q) /\ call'[q].on = call[q].on
         /\ call'[q].pc = "removing" => call'[q].kind = "import"
  BY <1>1 DEF Imports, Importing
<1> QED BY <1>2, ImportsGoOn

\* The managers where runtimes, shelves and managers are left alone.
LEMMA ManagersStandStill ==
  ASSUME Typed, ManagersAreKept, UNCHANGED <<published, shelved, managers>>,
         \A a \in Account : /\ row'[a] = Unborn => row[a] = Unborn
                            /\ row[a] = Removed => row'[a] = Removed
  PROVE  ManagersAreKept'
  BY DEF ManagersAreKept

\* Rows that are changed and rows that appear.
LEMMA RowGoesOn ==
  ASSUME Typed, NEW a \in Account, NEW new \in Row, row[a] # Removed,
         row' = [row EXCEPT ![a] = new]
  PROVE  /\ row' \in [Account -> Row \cup {Unborn, Removed}]
         /\ \A b \in Account : /\ Exists(b) => Exists(b)'
                               /\ row'[b] = Unborn => row[b] = Unborn
                               /\ row[b] = Removed => row'[b] = Removed
  BY RowsAndPairs DEF Typed, Exists

LEMMA ExistingRow ==
  ASSUME Typed, NEW a \in Account, Exists(a)
  PROVE  /\ row[a] \in Row /\ row[a] # Removed
         /\ \A health \in Health : [row[a] EXCEPT !.health = health] \in Row
         /\ \A on \in BOOLEAN : [row[a] EXCEPT !.enabled = on] \in Row
<1>1. row[a] \in Row /\ row[a] # Removed
  BY DEF Typed, Exists
<1> QED BY <1>1 DEF Row

\* The head of the line has ended, and its caller goes on if there is one.
LEMMA EndsGoOn ==
  ASSUME Typed, Imports, NEW a \in Account, tail[a] # <<>>, NEW ready \in BOOLEAN,
         Ends(a, ready), \A b \in Account : Exists(b) => Exists(b)'
  PROVE  /\ tail' \in [Account -> Seq(Operation)]
         /\ Imports' /\ call' \in [Operator -> Call]
<1> DEFINE o == Next1(a).by
           next == CASE o \in Operator /\ call[o].pc = "refreshing" -> "answered"
                     [] o \in Operator /\ call[o].pc = "reloading"  -> "reloaded"
                     [] o \in Operator /\ call[o].pc = "retiring"   -> "reading"
                     [] OTHER -> "idle"
           new == [call[o] EXCEPT !.pc = next, !.ready = ready]
<1>1. tail' \in [Account -> Seq(Operation)]
  <2>1. Tail(tail[a]) \in Seq(Operation)
    BY DEF Typed
  <2>2. tail' = [tail EXCEPT ![a] = Tail(tail[a])]
    BY DEF Ends
  <2> QED BY <2>1, <2>2 DEF Typed
<1>2. CASE o \notin Operator
  <2>1. call' = call
    BY <1>2 DEF Ends
  <2> QED BY <1>1, <2>1, ImportsGoOn DEF Typed, Imports, Importing
<1>3. CASE o \in Operator
  <2>1. call' = [call EXCEPT ![o] = new]
    BY <1>3 DEF Ends
  <2>2. /\ next \in {"answered", "reloaded", "reading", "idle"}
        /\ next # "idle" => call[o].pc \in {"refreshing", "reloading", "retiring"}
    BY <1>3
  <2> HIDE DEF next, o
  <2>3. new \in Call /\ new.pc = next /\ new.kind = call[o].kind
        /\ new.on = call[o].on
    BY <1>3, <2>2 DEF Typed, Call, Phase
  <2>4. new.pc # "removing"
    BY <2>2, <2>3
  <2>5. new.kind # "import" \/ new.pc = "idle" \/ (Importing(o) /\ new.on = call[o].on)
    BY <2>2, <2>3 DEF Importing
  <2> HIDE DEF new
  <2> QED BY <1>1, <1>3, <2>1, <2>3, <2>4, <2>5, CallGoesOn DEF Typed
<1> QED BY <1>2, <1>3

LEMMA LineGrows ==
  ASSUME Typed, NEW a \in Account, NEW op \in {"refresh", "retire"},
         NEW by \in Operator \cup {Boot, Checker}, Enqueue(a, op, by)
  PROVE  tail' \in [Account -> Seq(Operation)]
<1> DEFINE next == [op |-> op, by |-> by, step |-> "start", login |-> {}]
<1>1. next \in Operation
  BY DEF Operation, Cookies
<1>2. tail' = [tail EXCEPT ![a] = Append(@, next)]
  BY DEF Enqueue
<1> HIDE DEF next
<1> QED BY <1>1, <1>2 DEF Typed

-----------------------------------------------------------------------------
(* The registry's steps. *)

LEMMA FailureIsRecorded ==
  ASSUME AccountsInv, NEW a \in Account, NEW health \in Health, tail[a] # <<>>,
         Exists(a), RecordsFailure(a, health)
  PROVE  AccountsInv'
<1> USE DEF AccountsInv
<1> DEFINE new == [row[a] EXCEPT !.health = health]
<1>1. new \in Row /\ row[a] # Removed
  BY ExistingRow
<1>2. row' = [row EXCEPT ![a] = new] /\ row'[a] = new
  BY DEF RecordsFailure, Observe, Typed
<1> HIDE DEF new
<1>3. /\ row' \in [Account -> Row \cup {Unborn, Removed}]
      /\ \A b \in Account : /\ Exists(b) => Exists(b)'
                            /\ row'[b] = Unborn => row[b] = Unborn
                            /\ row[b] = Removed => row'[b] = Removed
  BY <1>1, <1>2, RowGoesOn
<1>4. /\ tail' \in [Account -> Seq(Operation)]
      /\ Imports' /\ call' \in [Operator -> Call]
  BY <1>3, EndsGoOn DEF RecordsFailure
<1>5. UNCHANGED <<file, shelved, managers>>
  BY DEF RecordsFailure
<1>6. /\ published' \in [Account -> Runtime \cup {NoRuntime}]
      /\ \A b \in Account : published[b] # NoRuntime => published'[b] # NoRuntime
  <2>1. CASE published[a] = NoRuntime
    BY <2>1 DEF RecordsFailure, Typed
  <2>2. CASE published[a] # NoRuntime
    <3>1. published[a] \in Runtime
      BY <2>2 DEF Typed
    <3>2. [published[a] EXCEPT !.row = new] \in Runtime
      BY <1>1, <3>1 DEF Runtime
    <3>3. published' = [published EXCEPT ![a] = [published[a] EXCEPT !.row = new]]
      BY <1>2, <2>2 DEF RecordsFailure, Typed
    <3> QED BY <3>2, <3>3, RowsAndPairs DEF Typed
  <2> QED BY <2>1, <2>2
<1>7. ManagersAreKept'
  BY <1>3, <1>5, <1>6 DEF ManagersAreKept
<1> QED BY <1>3, <1>4, <1>5, <1>6, <1>7 DEF Typed

LEMMA RefreshStartsKeeps ==
  ASSUME AccountsInv, NEW a \in Account, RefreshStarts(a)
  PROVE  AccountsInv'
<1> USE DEF AccountsInv
<1>1. tail[a] # <<>> /\ Len(tail[a]) \in Nat \ {0} /\ tail[a] \in Seq(Operation)
  BY DEF RefreshStarts, Typed
<1>2. CASE ~Exists(a) /\ RefreshOfNothing(a)
  <2>1. /\ published' = [published EXCEPT ![a] = NoRuntime]
        /\ shelved' = [shelved EXCEPT ![a] = FALSE]
        /\ UNCHANGED <<row, file, managers>>
    BY <1>2 DEF RefreshOfNothing
  <2>2. /\ tail' \in [Account -> Seq(Operation)]
        /\ Imports' /\ call' \in [Operator -> Call]
    BY <1>1, <1>2, <2>1, EndsGoOn DEF RefreshOfNothing, Exists
  <2>3. ManagersAreKept'
    BY <1>2, <2>1 DEF ManagersAreKept, Exists, Typed
  <2> QED BY <2>1, <2>2, <2>3 DEF Typed
<1>3. CASE RefreshLoads(a)
  <2>1. UNCHANGED <<row, file, published, shelved, managers, call>>
    BY <1>3 DEF RefreshLoads
  <2>2. [tail[a][1] EXCEPT !.step = "describe", !.login = file[a].state] \in Operation
    <3>1. tail[a][1] \in Operation
      BY <1>1
    <3>2. file[a].state \in Cookies
      BY DEF Typed, Pair
    <3> QED BY <3>1, <3>2 DEF Operation
  <2>3. tail' \in [Account -> Seq(Operation)]
    <3> DEFINE new == [tail[a][1] EXCEPT !.step = "describe", !.login = file[a].state]
    <3>1. tail' = [tail EXCEPT ![a] = [tail[a] EXCEPT ![1] = new]]
      BY <1>1, <1>3 DEF RefreshLoads, Typed
    <3> HIDE DEF new
    <3>2. [tail[a] EXCEPT ![1] = new] \in Seq(Operation)
      BY <1>1, <2>2 DEF new
    <3> QED BY <3>1, <3>2 DEF Typed
  <2> QED BY <2>1, <2>3 DEF Typed, Imports, Importing, Exists, ManagersAreKept
<1>4. CASE Exists(a) /\ RecordsFailure(a, "needs_login")
  BY <1>1, <1>4, FailureIsRecorded DEF Health
<1> QED BY <1>2, <1>3, <1>4 DEF RefreshStarts

\* A second manager is made only for an account without one.
LEMMA RefreshDescribesKeeps ==
  ASSUME AccountsInv, NEW a \in Account, RefreshDescribes(a)
  PROVE  AccountsInv'
<1> USE DEF AccountsInv
<1>1. tail[a] # <<>> /\ Len(tail[a]) \in Nat \ {0} /\ tail[a] \in Seq(Operation)
  BY DEF RefreshDescribes, Typed
<1>2. CASE ~Exists(a) /\ ObservesNothing(a)
  <2>1. UNCHANGED <<row, file, published, shelved, managers>>
    BY <1>2 DEF ObservesNothing
  <2>2. /\ tail' \in [Account -> Seq(Operation)]
        /\ Imports' /\ call' \in [Operator -> Call]
    BY <1>1, <1>2, <2>1, EndsGoOn DEF ObservesNothing, Exists
  <2> QED BY <2>1, <2>2 DEF Typed, ManagersAreKept
<1>3. CASE Exists(a) /\ RecordsFailure(a, "unhealthy")
  BY <1>1, <1>3, FailureIsRecorded DEF Health
<1>4. CASE Exists(a) /\ Publishes(a)
  <2> DEFINE new == [row[a] EXCEPT !.health = "ready"]
             runtime == [row |-> new, login |-> Next1(a).login]
  <2>1. new \in Row /\ row[a] # Removed /\ row[a] # Unborn
    BY <1>4, ExistingRow DEF Health, Exists
  <2>2. row' = [row EXCEPT ![a] = new] /\ row'[a] = new
    BY <1>4 DEF Publishes, Observe, Typed
  <2>3. Next1(a).login \in Cookies
    <3>1. tail[a][1] \in Operation
      BY <1>1
    <3> QED BY <3>1 DEF Next1, Operation
  <2> HIDE DEF new
  <2>4. runtime \in Runtime
    BY <2>1, <2>3 DEF Runtime
  <2>5. /\ published' = [published EXCEPT ![a] = runtime]
        /\ shelved' = [shelved EXCEPT ![a] = FALSE]
        /\ managers' = IF published[a] # NoRuntime \/ shelved[a] THEN managers
                       ELSE [managers EXCEPT ![a] = @ + 1]
        /\ file' = file /\ Ends(a, TRUE)
    BY <1>4, <2>2 DEF Publishes
  <2> HIDE DEF runtime
  <2>6. /\ row' \in [Account -> Row \cup {Unborn, Removed}]
        /\ \A b \in Account : /\ Exists(b) => Exists(b)'
                              /\ row'[b] = Unborn => row[b] = Unborn
                              /\ row[b] = Removed => row'[b] = Removed
    BY <2>1, <2>2, RowGoesOn
  <2>7. /\ tail' \in [Account -> Seq(Operation)]
        /\ Imports' /\ call' \in [Operator -> Call]
    BY <1>1, <2>5, <2>6, EndsGoOn
  <2>8. /\ published' \in [Account -> Runtime \cup {NoRuntime}]
        /\ published'[a] # NoRuntime
        /\ \A b \in Account : b # a => published'[b] = published[b]
                                       /\ shelved'[b] = shelved[b]
    BY <2>4, <2>5, RowsAndPairs DEF Typed
  <2>9. /\ managers' \in [Account -> Nat] /\ managers'[a] <= 1
        /\ \A b \in Account : b # a => managers'[b] = managers[b]
    <3>1. CASE published[a] # NoRuntime \/ shelved[a]
      BY <2>5, <3>1 DEF Typed, ManagersAreKept
    <3>2. CASE ~(published[a] # NoRuntime \/ shelved[a])
      <4>1. managers[a] = 0
        BY <2>1, <3>2 DEF ManagersAreKept, Typed
      <4> QED BY <2>5, <3>2, <4>1 DEF Typed
    <3> QED BY <3>1, <3>2
  <2>10. row'[a] # Unborn
    BY <2>1, <2>2, RowsAndPairs
  <2>11. ManagersAreKept'
    BY <2>6, <2>8, <2>9, <2>10 DEF ManagersAreKept
  <2> QED BY <2>5, <2>6, <2>7, <2>8, <2>9, <2>11 DEF Typed
<1> QED BY <1>2, <1>3, <1>4 DEF RefreshDescribes

LEMMA RetiresKeeps ==
  ASSUME AccountsInv, NEW a \in Account, Retires(a)
  PROVE  AccountsInv'
<1> USE DEF AccountsInv
<1>1. /\ shelved' = [shelved EXCEPT ![a] = @ \/ published[a] # NoRuntime]
      /\ published' = [published EXCEPT ![a] = NoRuntime]
      /\ UNCHANGED <<row, file, managers>>
  BY DEF Retires
<1>2. /\ tail' \in [Account -> Seq(Operation)]
      /\ Imports' /\ call' \in [Operator -> Call]
  BY <1>1, EndsGoOn DEF Retires, Exists
<1>3. /\ shelved' \in [Account -> BOOLEAN]
      /\ shelved'[a] = (shelved[a] \/ published[a] # NoRuntime)
      /\ \A b \in Account : b # a => shelved'[b] = shelved[b]
                                     /\ published'[b] = published[b]
  BY <1>1 DEF Typed
<1>4. ManagersAreKept'
  BY <1>1, <1>3 DEF ManagersAreKept
<1> QED BY <1>1, <1>2, <1>3, <1>4 DEF Typed

-----------------------------------------------------------------------------
(* The administrators' steps. *)

\* What a request makes of itself at a step.
StepOf(o, new) ==
  /\ call' = [call EXCEPT ![o] = new]
  /\ \/ new.kind # "import"
     \/ new.pc \in {"idle", "describing"}
     \/ Importing(o) /\ new.on = call[o].on
  /\ new.pc = "removing" => new.kind = "import"

\* A request goes on, and may change a row; the runtimes stay.
LEMMA CallMovesOn ==
  ASSUME AccountsInv, NEW o \in Operator, NEW new \in Call, StepOf(o, new),
         \/ row' = row
         \/ \E a \in Account, r \in Row :
              Exists(a) /\ row' = [row EXCEPT ![a] = r],
         UNCHANGED <<published, shelved, managers>>,
         file' \in [Account -> Pair], tail' \in [Account -> Seq(Operation)]
  PROVE  AccountsInv'
<1> USE DEF AccountsInv
<1>1. /\ row' \in [Account -> Row \cup {Unborn, Removed}]
      /\ \A b \in Account : /\ Exists(b) => Exists(b)'
                            /\ row'[b] = Unborn => row[b] = Unborn
                            /\ row[b] = Removed => row'[b] = Removed
  <2>1. CASE row' = row
    BY <2>1 DEF Typed, Exists
  <2>2. CASE \E a \in Account, r \in Row :
               Exists(a) /\ row' = [row EXCEPT ![a] = r]
    BY <2>2, RowGoesOn DEF Exists
  <2> QED BY <2>1, <2>2
<1>2. Imports' /\ call' \in [Operator -> Call]
  BY <1>1, CallGoesOn DEF StepOf, Typed
<1>3. ManagersAreKept'
  BY <1>1, ManagersStandStill
<1> QED BY <1>1, <1>2, <1>3 DEF Typed

LEMMA AnsweredIsAStep ==
  ASSUME AccountsInv, NEW o \in Operator, Answered(o)
  PROVE  NoCall(call[o].on) \in Call /\ StepOf(o, NoCall(call[o].on))
<1>1. call[o].on \in Account
  BY DEF AccountsInv, Typed, Call
<1>2. NoCall(call[o].on) \in Call
  BY <1>1, RowsAndPairs
<1>3. NoCall(call[o].on).pc = "idle"
  BY DEF NoCall
<1> QED BY <1>2, <1>3 DEF Answered, StepOf

\* A request that has made or retired its account stays at it.
LEMMA AtItsAccount ==
  ASSUME AccountsInv, NEW o \in Operator, NEW new \in Call,
         call[o].pc \notin {"idle", "describing"} \/ call[o].kind # "import",
         call' = [call EXCEPT ![o] = new],
         new.on = call[o].on, new.kind = call[o].kind,
         new.pc = "removing" => call[o].kind = "import"
  PROVE  StepOf(o, new)
  BY DEF StepOf, Importing

LEMMA ProceedIsAStep ==
  ASSUME AccountsInv, NEW o \in Operator, NEW pc \in Phase, Proceed(o, pc),
         call[o].pc \notin {"idle", "describing"} \/ call[o].kind # "import",
         pc = "removing" => call[o].kind = "import"
  PROVE  \E new \in Call : StepOf(o, new)
<1> DEFINE new == [call[o] EXCEPT !.pc = pc]
<1>1. new \in Call /\ new.on = call[o].on /\ new.kind = call[o].kind /\ new.pc = pc
  BY DEF AccountsInv, Typed, Call
<1>2. call' = [call EXCEPT ![o] = new]
  BY DEF Proceed
<1> HIDE DEF new
<1> QED BY <1>1, <1>2, AtItsAccount

LEMMA UndoIsAStep ==
  ASSUME AccountsInv, NEW o \in Operator, Undo(o),
         call[o].pc \notin {"idle", "describing"}
  PROVE  \E new \in Call : StepOf(o, new)
<1> DEFINE new == [call[o] EXCEPT !.pc = "backState", !.undo = TRUE,
                                  !.write = call[o].old, !.bak = NoFiles]
<1>1. /\ new \in Call /\ new.on = call[o].on /\ new.kind = call[o].kind
      /\ new.pc = "backState"
  <2>1. NoFiles \in Pair /\ call[o] \in Call
    BY RowsAndPairs DEF AccountsInv, Typed
  <2>2. "backState" \in Phase
    BY DEF Phase, Writing
  <2> HIDE DEF NoFiles
  <2> QED BY <2>1, <2>2 DEF Call
<1>2. call' = [call EXCEPT ![o] = new]
  BY DEF Undo
<1> HIDE DEF new
<1> QED BY <1>1, <1>2, AtItsAccount

LEMMA DisownIsAStep ==
  ASSUME AccountsInv, NEW o \in Operator, Disown(o), call[o].kind = "import",
         call[o].pc \notin {"idle", "describing"}
  PROVE  /\ \E new \in Call : StepOf(o, new)
         /\ \E a \in Account, r \in Row :
              Exists(a) /\ row' = [row EXCEPT ![a] = r]
<1>1. \E new \in Call : StepOf(o, new)
  BY ProceedIsAStep DEF Disown, Phase
<1>2. call[o].on \in Account /\ Exists(call[o].on)
  BY DEF AccountsInv, Typed, Call, Imports, Importing
<1> DEFINE r == [row[call[o].on] EXCEPT !.enabled = FALSE]
<1>3. r \in Row
  BY <1>2, ExistingRow DEF AccountsInv
<1>4. row' = [row EXCEPT ![call[o].on] = r]
  BY DEF Disown
<1> QED BY <1>1, <1>2, <1>3, <1>4

LEMMA RestoreIsAStep ==
  ASSUME AccountsInv, NEW o \in Operator, RestorePublished(o),
         call[o].pc \notin {"idle", "describing"}
  PROVE  /\ \E new \in Call : StepOf(o, new)
         /\ \/ row' = row
            \/ \E a \in Account, r \in Row :
                 Exists(a) /\ row' = [row EXCEPT ![a] = r]
         /\ tail' \in [Account -> Seq(Operation)]
<1> USE DEF AccountsInv
<1> DEFINE a == call[o].on
<1>1. a \in Account /\ call[o].before.health \in Health /\ call[o] \in Call
  BY DEF Typed, Call, Row
<1>2. CASE ~Exists(a)
  <2>1. Answered(o) /\ UNCHANGED <<row, tail>>
    BY <1>2 DEF RestorePublished
  <2> QED BY <2>1, AnsweredIsAStep DEF Typed
<1>3. CASE Exists(a)
  <2> DEFINE r == [row[a] EXCEPT !.health = call[o].before.health]
             new == [call[o] EXCEPT !.pc = "reloading", !.before = r]
  <2>1. r \in Row
    BY <1>1, <1>3, ExistingRow
  <2>2. row' = [row EXCEPT ![a] = r] /\ row'[a] = r
    BY <1>1, <1>3 DEF RestorePublished, Observe, Typed
  <2>3. call' = [call EXCEPT ![o] = new]
    BY <1>3, <2>2 DEF RestorePublished
  <2> HIDE DEF r
  <2>4. /\ new \in Call /\ new.on = call[o].on /\ new.kind = call[o].kind
        /\ new.pc = "reloading"
    BY <1>1, <2>1 DEF Call, Phase
  <2> HIDE DEF new
  <2>5. StepOf(o, new)
    BY <2>3, <2>4, AtItsAccount
  <2>6. Enqueue(a, "refresh", o)
    BY <1>3 DEF RestorePublished
  <2>7. tail' \in [Account -> Seq(Operation)]
    BY <1>1, <2>6, LineGrows
  <2> QED BY <1>1, <1>3, <2>1, <2>2, <2>4, <2>5, <2>7
<1> QED BY <1>2, <1>3

LEMMA AskKeeps ==
  ASSUME AccountsInv, NEW o \in Operator,
         AskImport(o) \/ \E a \in Account : AskReplace(o, a)
  PROVE  AccountsInv'
<1>1. UNCHANGED <<row, file, published, shelved, managers, tail>>
  BY DEF AskImport, AskReplace
<1>2. \A l \in Login : {l} \in Cookies
  BY DEF Cookies
<1>3. CASE AskImport(o)
  <2> DEFINE Asked(l) == [NoCall(call[o].on) EXCEPT !.pc = "describing",
                            !.kind = "import", !.login = {l}]
  <2>1. PICK l \in Login : call' = [call EXCEPT ![o] = Asked(l)]
    BY <1>3 DEF AskImport
  <2>2. NoCall(call[o].on) \in Call
    BY RowsAndPairs DEF AccountsInv, Typed, Call
  <2>3. Asked(l) \in Call /\ Asked(l).pc = "describing"
    BY <1>2, <2>2 DEF Call, Phase
  <2> HIDE DEF Asked
  <2>4. StepOf(o, Asked(l))
    BY <2>1, <2>3 DEF StepOf
  <2> QED BY <1>1, <2>3, <2>4, CallMovesOn DEF AccountsInv, Typed
<1>4. CASE \E a \in Account : AskReplace(o, a)
  <2>1. PICK a \in Account : AskReplace(o, a)
    BY <1>4
  <2> DEFINE Asked(l) == [NoCall(a) EXCEPT !.pc = "describing",
                            !.kind = "replace", !.login = {l}, !.before = row[a]]
  <2>2. PICK l \in Login : call' = [call EXCEPT ![o] = Asked(l)]
    BY <2>1 DEF AskReplace
  <2>3. NoCall(a) \in Call
    BY RowsAndPairs
  <2>4. row[a] \in Row
    BY <2>1, ExistingRow DEF AskReplace, AccountsInv
  <2>5. Asked(l) \in Call /\ Asked(l).pc = "describing"
    BY <1>2, <2>3, <2>4 DEF Call, Phase
  <2> HIDE DEF Asked
  <2>6. StepOf(o, Asked(l))
    BY <2>2, <2>5 DEF StepOf
  <2> QED BY <1>1, <2>5, <2>6, CallMovesOn DEF AccountsInv, Typed
<1> QED BY <1>3, <1>4

LEMMA AnswerKeeps ==
  ASSUME AccountsInv, NEW o \in Operator,
         CandidateRefused(o) \/ ReadFails(o) \/ RefreshedReady(o) \/ RemoveFails(o)
  PROVE  AccountsInv'
<1>1. Answered(o) /\ UNCHANGED <<row, file, published, shelved, managers, tail>>
  BY DEF CandidateRefused, ReadFails, RefreshedReady, RemoveFails
<1> QED BY <1>1, AnsweredIsAStep, CallMovesOn DEF AccountsInv, Typed

LEMMA PairStepsKeep ==
  ASSUME AccountsInv, NEW o \in Operator, ReadsPrevious(o) \/ BackUp(o) \/ MoveIn(o)
  PROVE  AccountsInv'
<1> USE DEF AccountsInv
<1> DEFINE a == call[o].on
<1>1. UNCHANGED <<row, published, shelved, managers, tail>>
  BY DEF ReadsPrevious, BackUp, MoveIn
<1>2. a \in Account /\ call[o] \in Call /\ file[a] \in Pair
  BY DEF Typed, Call
<1>3. CASE ReadsPrevious(o)
  <2> DEFINE new == [call[o] EXCEPT !.pc = "backState", !.old = file[a],
                       !.write = BothFiles(call[o].login), !.bak = NoFiles]
  <2>1. call' = [call EXCEPT ![o] = new] /\ file' = file /\ call[o].pc = "reading"
    BY <1>3 DEF ReadsPrevious
  <2>2. NoFiles \in Pair /\ call[o].login \in Cookies
    BY <1>2, RowsAndPairs DEF Call
  <2>3. BothFiles(call[o].login) \in Pair
    BY <2>2, RowsAndPairs
  <2>4. "backState" \in Phase
    BY DEF Phase, Writing
  <2> HIDE DEF NoFiles, BothFiles
  <2>5. /\ new \in Call /\ new.on = a /\ new.kind = call[o].kind
        /\ new.pc = "backState"
    BY <1>2, <2>2, <2>3, <2>4 DEF Call
  <2> HIDE DEF new
  <2>6. StepOf(o, new)
    BY <2>1, <2>5, AtItsAccount
  <2> QED BY <1>1, <2>1, <2>5, <2>6, CallMovesOn DEF Typed
<1>4. CASE BackUp(o) \/ MoveIn(o)
  <2> DEFINE f == FileOf[call[o].pc]
             pc == After[call[o].pc]
  <2>1. call[o].pc \in Writing
    BY <1>4 DEF BackUp, MoveIn, Writing
  <2>2. f \in {"state", "profile"}
    BY <2>1 DEF FileOf, Writing
  <2>3. pc \in Phase /\ pc # "removing" /\ call[o].pc \notin {"idle", "describing"}
    BY <2>1 DEF After, Writing, Phase
  <2>4. PICK content \in Cookies : file' = [file EXCEPT ![a][f] = content]
    <3>1. CASE BackUp(o)
      BY <3>1 DEF BackUp, Cookies
    <3>2. CASE MoveIn(o)
      <4>1. call[o].write \in Pair
        BY <1>2 DEF Call
      <4>2. call[o].write[f] \in Cookies
        BY <2>2, <4>1 DEF Pair
      <4> QED BY <3>2, <4>2 DEF MoveIn
    <3> QED BY <1>4, <3>1, <3>2
  <2>5. PICK bak \in Pair : call' = [call EXCEPT ![o] = [call[o] EXCEPT !.pc = pc, !.bak = bak]]
    <3>1. call[o].bak \in Pair /\ call \in [Operator -> Call]
      BY <1>2 DEF Call, Typed
    <3>2. CASE BackUp(o)
      <4>1. file[a][f] \in Cookies
        BY <1>2, <2>2 DEF Pair
      <4>2. [call[o].bak EXCEPT ![f] = file[a][f]] \in Pair
        BY <2>2, <3>1, <4>1 DEF Pair
      <4>3. call' = [call EXCEPT ![o] = [call[o] EXCEPT !.pc = pc,
                       !.bak = [call[o].bak EXCEPT ![f] = file[a][f]]]]
        BY <3>1, <3>2 DEF BackUp, Call
      <4> QED BY <4>2, <4>3
    <3>3. CASE MoveIn(o)
      <4>1. [call[o] EXCEPT !.pc = pc] = [call[o] EXCEPT !.pc = pc, !.bak = call[o].bak]
        BY <1>2 DEF Call
      <4>2. call' = [call EXCEPT ![o] = [call[o] EXCEPT !.pc = pc]]
        BY <3>3 DEF MoveIn
      <4> QED BY <3>1, <4>1, <4>2
    <3> QED BY <1>4, <3>2, <3>3
  <2> DEFINE new == [call[o] EXCEPT !.pc = pc, !.bak = bak]
  <2> HIDE DEF f, pc
  <2>6. /\ new \in Call /\ new.on = a /\ new.kind = call[o].kind /\ new.pc = pc
    BY <1>2, <2>3 DEF Call
  <2> HIDE DEF new
  <2>7. StepOf(o, new)
    BY <2>3, <2>5, <2>6, AtItsAccount DEF new
  <2>8. file' \in [Account -> Pair]
    BY <1>2, <2>2, <2>4 DEF Typed, Pair
  <2> QED BY <1>1, <2>6, <2>7, <2>8, CallMovesOn DEF Typed
<1> QED BY <1>3, <1>4

LEMMA PairEndsKeep ==
  ASSUME AccountsInv, NEW o \in Operator,
         PairFails(o) \/ CleanupFails(o) \/ PairWritten(o) \/ RefreshedNotReady(o)
  PROVE  AccountsInv'
<1> USE DEF AccountsInv
<1> DEFINE a == call[o].on
<1>1. a \in Account /\ call[o] \in Call /\ file[a] \in Pair
  BY DEF Typed, Call
<1>2. call[o].pc \notin {"idle", "describing"}
  BY DEF PairFails, CleanupFails, PairWritten, RefreshedNotReady, Writing
<1>3. UNCHANGED <<published, shelved, managers>>
  BY DEF PairFails, CleanupFails, PairWritten, RefreshedNotReady
<1>4. file' \in [Account -> Pair]
  <2>1. RolledBack(o) \in Pair
    <3>1. call[o].bak \in Pair /\ {} \in Cookies
      BY <1>1 DEF Call, Cookies
    <3> QED BY <1>1, <3>1 DEF RolledBack, Pair
  <2>2. CASE PairFails(o)
    <3>1. file' = [file EXCEPT ![a] = RolledBack(o)]
      BY <2>2 DEF PairFails
    <3> QED BY <2>1, <3>1 DEF Typed
  <2>3. CASE ~PairFails(o)
    BY <2>3 DEF CleanupFails, PairWritten, RefreshedNotReady, Typed
  <2> QED BY <2>2, <2>3
<1>5. CASE call[o].kind = "import" /\ Disown(o) /\ tail' = tail
  BY <1>2, <1>3, <1>4, <1>5, DisownIsAStep, CallMovesOn DEF Typed
<1>6. CASE RestorePublished(o)
  BY <1>2, <1>3, <1>4, <1>6, RestoreIsAStep, CallMovesOn
<1>7. CASE GivesUp(o)
  BY <1>3, <1>4, <1>7, AnsweredIsAStep, CallMovesOn DEF GivesUp, Typed
<1>8. CASE Undo(o) /\ UNCHANGED <<row, tail>>
  BY <1>2, <1>3, <1>4, <1>8, UndoIsAStep, CallMovesOn DEF Typed
<1>9. CASE /\ Exists(a) /\ Proceed(o, "refreshing") /\ Enqueue(a, "refresh", o)
           /\ row' = [row EXCEPT ![a].health = "ready",
                                 ![a].enabled = @ \/ call[o].kind = "import"]
  <2> DEFINE r == [row[a] EXCEPT !.health = "ready",
                                 !.enabled = @ \/ call[o].kind = "import"]
  <2>1. (row[a].enabled \/ call[o].kind = "import") \in BOOLEAN
    OBVIOUS
  <2>2. r \in Row
    BY <1>1, <1>9, <2>1, ExistingRow DEF Row, Health
  <2>3. row' = [row EXCEPT ![a] = r]
    BY <1>9
  <2> HIDE DEF r
  <2>4. tail' \in [Account -> Seq(Operation)]
    BY <1>1, <1>9, LineGrows
  <2>5. \E new \in Call : StepOf(o, new)
    BY <1>2, <1>9, ProceedIsAStep DEF Phase
  <2> QED BY <1>1, <1>3, <1>4, <1>9, <2>2, <2>3, <2>4, <2>5, CallMovesOn
<1> QED BY <1>5, <1>6, <1>7, <1>8, <1>9
        DEF PairFails, CleanupFails, PairWritten, RefreshedNotReady

\* The account of an import is new to everybody.
LEMMA ImportDescribedKeeps ==
  ASSUME AccountsInv, NEW o \in Operator, ImportDescribed(o)
  PROVE  AccountsInv'
<1> USE DEF AccountsInv
<1>1. PICK a \in Account :
        /\ row[a] = Unborn /\ row' = [row EXCEPT ![a] = Fresh]
        /\ call' = [call EXCEPT ![o].pc = "backState", ![o].on = a,
                                ![o].write = BothFiles(call[o].login)]
  BY DEF ImportDescribed
<1>2. UNCHANGED <<file, published, shelved, managers, tail>>
  BY DEF ImportDescribed
<1> DEFINE new == [call[o] EXCEPT !.pc = "backState", !.on = a,
                                  !.write = BothFiles(call[o].login)]
<1>3. new \in Call /\ new.on = a /\ new.pc = "backState"
  <2>1. call[o] \in Call /\ call[o].login \in Cookies
    BY DEF Typed, Call
  <2>2. BothFiles(call[o].login) \in Pair
    BY <2>1, RowsAndPairs
  <2>3. "backState" \in Phase
    BY DEF Phase, Writing
  <2> HIDE DEF BothFiles
  <2> QED BY <2>1, <2>2, <2>3 DEF Call
<1>4. call' = [call EXCEPT ![o] = new]
  BY <1>1
<1> HIDE DEF new
<1>5. /\ row' \in [Account -> Row \cup {Unborn, Removed}]
      /\ \A b \in Account : /\ Exists(b) => Exists(b)'
                            /\ row'[b] = Unborn => row[b] = Unborn
                            /\ row[b] = Removed => row'[b] = Removed
      /\ Exists(a)'
  <2>1. row[a] # Removed /\ Fresh \in Row
    BY <1>1, RowsAndPairs
  <2>2. row'[a] = Fresh
    BY <1>1 DEF Typed
  <2> QED BY <1>1, <2>1, <2>2, RowGoesOn, RowsAndPairs DEF Exists
<1>6. Imports'
  <2>1. call'[o] = new /\ \A q \in Operator : q # o => call'[q] = call[q]
    BY <1>4 DEF Typed
  <2>2. \A q \in Operator : Importing(q) => call[q].on # a /\ call[q].on \in Account
    BY <1>1 DEF Imports, Exists, Typed, Call
  <2>3. call[o].kind = "import" /\ new.kind = "import"
    BY DEF ImportDescribed, new, Typed, Call
  <2>4. \A q \in Operator : q # o => (Importing(q)' <=> Importing(q))
    BY <2>1 DEF Importing
  <2>5. ASSUME NEW q \in Operator, Importing(q)'
        PROVE  /\ Exists(call[q].on)' \/ q = o
               /\ \A r \in Operator : Importing(r)' /\ r # q => call'[r].on # call'[q].on
    <3>1. CASE q = o
      BY <1>3, <2>1, <2>2, <2>4, <3>1
    <3>2. CASE q # o
      <4>1. Importing(q) /\ Exists(call[q].on) /\ call[q].on \in Account
        BY <2>2, <2>4, <2>5, <3>2 DEF Imports
      <4>2. (row[call[q].on] \notin {Unborn, Removed})
        BY <4>1 DEF Exists
      <4>3. row'[call[q].on] = row[call[q].on]
        BY <1>1, <4>1, <4>2 DEF Typed
      <4>4. \A r \in Operator : Importing(r)' /\ r # q => call'[r].on # call'[q].on
        BY <1>3, <2>1, <2>2, <2>4, <3>2, <4>1 DEF Imports
      <4>5. call'[q].on = call[q].on
        BY <2>1, <3>2
      <4> QED BY <4>2, <4>3, <4>4, <4>5 DEF Exists
    <3> QED BY <3>1, <3>2
  <2>6. \A q \in Operator : call'[q].pc = "removing" => call'[q].kind = "import"
    BY <1>3, <2>1 DEF Imports
  <2>7. ASSUME NEW q \in Operator, Importing(q)' PROVE Exists(call[q].on)'
    <3>1. CASE q = o
      BY <1>3, <1>5, <2>1, <3>1 DEF Exists
    <3>2. CASE q # o
      BY <2>5, <2>7, <3>2
    <3> QED BY <3>1, <3>2
  <2> QED BY <2>5, <2>6, <2>7 DEF Imports
<1>7. call' \in [Operator -> Call]
  BY <1>3, <1>4 DEF Typed
<1>8. ManagersAreKept'
  BY <1>2, <1>5, ManagersStandStill
<1> QED BY <1>2, <1>5, <1>6, <1>7, <1>8 DEF Typed

\* No other import loses its account.
LEMMA RemoveImportedKeeps ==
  ASSUME AccountsInv, NEW o \in Operator, RemoveImported(o)
  PROVE  AccountsInv'
<1> USE DEF AccountsInv
<1> DEFINE a == call[o].on
<1>1. /\ call[o].pc = "removing" /\ Answered(o)
      /\ file' = [file EXCEPT ![a] = NoFiles] /\ row' = [row EXCEPT ![a] = Removed]
      /\ UNCHANGED <<published, shelved, managers, tail>>
  BY DEF RemoveImported
<1>2. a \in Account /\ Importing(o)
  BY <1>1 DEF Typed, Call, Imports, Importing
<1>3. /\ call' \in [Operator -> Call] /\ call'[o].pc = "idle"
      /\ \A q \in Operator : q # o => call'[q] = call[q]
  BY <1>1, <1>2, RowsAndPairs DEF Answered, Typed, NoCall
<1>4. ASSUME NEW q \in Operator, Importing(q)'
      PROVE  /\ q # o /\ Importing(q) /\ call'[q] = call[q]
             /\ call[q].on # a /\ row'[call[q].on] = row[call[q].on]
  <2>1. q # o /\ call'[q] = call[q]
    BY <1>3, <1>4 DEF Importing
  <2>2. Importing(q)
    BY <1>4, <2>1 DEF Importing
  <2>3. call[q].on # a /\ call[q].on \in Account
    BY <1>2, <2>1, <2>2 DEF Imports, Typed, Call
  <2> QED BY <1>1, <2>1, <2>2, <2>3 DEF Typed
<1>5. Imports'
  <2>1. \A q \in Operator : call'[q].pc = "removing" => call'[q].kind = "import"
    BY <1>3 DEF Imports
  <2>2. \A q \in Operator : Importing(q)' => Exists(call[q].on)'
    BY <1>4 DEF Imports, Exists
  <2> QED BY <1>4, <2>1, <2>2 DEF Imports
<1>6. ManagersAreKept'
  BY <1>1, RowsAndPairs DEF ManagersAreKept, Typed
<1> QED BY <1>1, <1>2, <1>3, <1>5, <1>6, RowsAndPairs DEF Typed

LEMMA ReloadedKeeps ==
  ASSUME AccountsInv, NEW o \in Operator, Reloaded(o)
  PROVE  AccountsInv'
<1> USE DEF AccountsInv
<1> DEFINE a == call[o].on
<1>1. UNCHANGED <<row, file, shelved, managers, tail>> /\ Answered(o)
  BY DEF Reloaded
<1>2. /\ published' \in [Account -> Runtime \cup {NoRuntime}]
      /\ \A b \in Account : published[b] # NoRuntime => published'[b] # NoRuntime
  <2>1. CASE published' = published
    BY <2>1 DEF Typed
  <2>2. CASE published' # published
    <3>1. /\ published[a] # NoRuntime
          /\ published' = [published EXCEPT ![a].row = call[o].before]
      BY <2>2 DEF Reloaded
    <3>2. a \in Account /\ call[o].before \in Row
      BY DEF Typed, Call
    <3>3. published[a] \in Runtime
      BY <3>1, <3>2 DEF Typed
    <3>4. [published[a] EXCEPT !.row = call[o].before] \in Runtime
      BY <3>2, <3>3 DEF Runtime
    <3> QED BY <3>1, <3>4, RowsAndPairs DEF Typed
  <2> QED BY <2>1, <2>2
<1>3. Imports' /\ call' \in [Operator -> Call]
  BY <1>1, AnsweredIsAStep, CallGoesOn DEF StepOf, Typed, Exists
<1>4. ManagersAreKept'
  BY <1>1, <1>2 DEF ManagersAreKept
<1> QED BY <1>1, <1>2, <1>3, <1>4 DEF Typed

\* Nothing of the process outlives it.
LEMMA KillAndLoadKeeps ==
  ASSUME AccountsInv, KillAndLoad PROVE AccountsInv'
<1> USE DEF AccountsInv
<1>1. /\ published' = [b \in Account |-> NoRuntime]
      /\ shelved' = [b \in Account |-> FALSE] /\ managers' = [b \in Account |-> 0]
      /\ UNCHANGED <<row, file>>
  BY DEF KillAndLoad
<1>2. tail' \in [Account -> Seq(Operation)]
  <2> DEFINE load == [op |-> "refresh", by |-> Boot, step |-> "start", login |-> {}]
  <2>1. load \in Operation
    BY DEF Operation, Cookies
  <2>2. tail' = [b \in Account |-> IF Exists(b) THEN <<load>> ELSE <<>>]
    BY DEF KillAndLoad
  <2> HIDE DEF load
  <2> QED BY <2>1, <2>2
<1>3. call' \in [Operator -> Call] /\ \A o \in Operator : call'[o].pc = "idle"
  <2>1. \A o \in Operator : call[o].on \in Account
    BY DEF Typed, Call
  <2>2. call' = [o \in Operator |-> NoCall(call[o].on)]
    BY DEF KillAndLoad
  <2>3. \A o \in Operator : NoCall(call[o].on).pc = "idle"
    BY DEF NoCall
  <2> QED BY <2>1, <2>2, <2>3, RowsAndPairs
<1>4. Imports'
  BY <1>3 DEF Imports, Importing
<1>5. ManagersAreKept'
  BY <1>1 DEF ManagersAreKept
<1> QED BY <1>1, <1>2, <1>3, <1>4, <1>5 DEF Typed

LEMMA AccountStepsKeep ==
  ASSUME AccountsInv, Wired, NEW a \in Account,
         RequestGoes(a) \/ CookiesArrive(a) \/ CreateAccount(a) \/ CheckAccount(a)
  PROVE  AccountsInv'
<1> USE DEF AccountsInv
<1>1. UNCHANGED <<published, shelved, managers, call>>
  BY DEF RequestGoes, CookiesArrive, CreateAccount, CheckAccount
<1>2. file' \in [Account -> Pair]
  <2>1. CASE CookiesArrive(a)
    <3>1. PICK w \in wire[a] :
            \/ file' = file
            \/ file' = [file EXCEPT ![a].state = @ \cup w.login]
      BY <2>1 DEF CookiesArrive
    <3>2. w.login \in Cookies /\ file[a] \in Pair
      BY DEF Wired, Wire, Typed
    <3>3. (file[a].state \cup w.login) \in Cookies
      BY <3>2 DEF Pair, Cookies
    <3>4. [file[a] EXCEPT !.state = @ \cup w.login] \in Pair
      BY <3>2, <3>3 DEF Pair
    <3> QED BY <3>1, <3>4 DEF Typed
  <2>2. CASE ~CookiesArrive(a)
    BY <2>2 DEF RequestGoes, CreateAccount, CheckAccount, Typed
  <2> QED BY <2>1, <2>2
<1>3. tail' \in [Account -> Seq(Operation)]
  BY LineGrows DEF RequestGoes, CookiesArrive, CreateAccount, CheckAccount, Typed
<1>4. row' = row \/ \E r \in Row : row' = [row EXCEPT ![a] = r] /\ row[a] # Removed
  <2>1. CASE CheckAccount(a)
    <3>1. Exists(a) /\ (row' = row \/ \E on \in BOOLEAN :
                          row' = [row EXCEPT ![a] = [row[a] EXCEPT !.enabled = on]])
      BY <2>1 DEF CheckAccount
    <3> QED BY <3>1, ExistingRow
  <2>2. CASE CreateAccount(a)
    BY <2>2, RowsAndPairs DEF CreateAccount
  <2>3. CASE RequestGoes(a) \/ CookiesArrive(a)
    BY <2>3 DEF RequestGoes, CookiesArrive
  <2> QED BY <2>1, <2>2, <2>3
<1>5. /\ row' \in [Account -> Row \cup {Unborn, Removed}]
      /\ \A b \in Account : /\ Exists(b) => Exists(b)'
                            /\ row'[b] = Unborn => row[b] = Unborn
                            /\ row[b] = Removed => row'[b] = Removed
  <2>1. CASE row' = row
    BY <2>1 DEF Typed, Exists
  <2> QED BY <1>4, <2>1, RowGoesOn
<1>6. Imports'
  BY <1>1, <1>5, ImportsGoOn DEF Typed, Imports, Importing
<1>7. ManagersAreKept'
  BY <1>1, <1>5, ManagersStandStill
<1> QED BY <1>1, <1>2, <1>3, <1>5, <1>6, <1>7 DEF Typed

LEMMA ReplaceDescribedKeeps ==
  ASSUME AccountsInv, NEW o \in Operator, ReplaceDescribed(o)
  PROVE  AccountsInv'
<1>1. \E new \in Call : StepOf(o, new)
  BY ProceedIsAStep DEF ReplaceDescribed, Phase
<1>2. call[o].on \in Account
  BY DEF AccountsInv, Typed, Call
<1>3. tail' \in [Account -> Seq(Operation)]
  BY <1>2, LineGrows DEF ReplaceDescribed, AccountsInv
<1>4. UNCHANGED <<row, file, published, shelved, managers>>
  BY DEF ReplaceDescribed
<1> QED BY <1>1, <1>3, <1>4, CallMovesOn DEF AccountsInv, Typed

LEMMA WiredIsKept ==
  ASSUME AccountsInv, Wired, [AccountsNext]_accountsVars PROVE Wired'
<1> USE DEF Wired
<1>1. CASE \E a \in Account : RefreshDescribes(a)
  <2>1. PICK a \in Account :
          \/ wire' = wire
          \/ wire' = [wire EXCEPT ![a] = {[w EXCEPT !.by = "older"] : w \in wire[a]}]
    BY <1>1 DEF RefreshDescribes, Publishes, RecordsFailure, ObservesNothing
  <2>2. \A w \in wire[a] : [w EXCEPT !.by = "older"] \in Wire
    BY DEF Wire
  <2> QED BY <2>1, <2>2
<1>2. CASE \E a \in Account : Retires(a)
  BY <1>2 DEF Retires
<1>3. CASE \E a \in Account : RequestGoes(a)
  <2>1. PICK a \in Account : RequestGoes(a)
    BY <1>3
  <2>2. published[a] \in Runtime
    BY <2>1 DEF RequestGoes, AccountsInv, Typed
  <2>3. [login |-> published[a].login, by |-> "published"] \in Wire
    BY <2>2 DEF Runtime, Wire
  <2> QED BY <2>1, <2>3 DEF RequestGoes
<1>4. CASE \E a \in Account : CookiesArrive(a)
  BY <1>4 DEF CookiesArrive
<1>5. CASE KillAndLoad
  BY <1>5 DEF KillAndLoad
<1>6. CASE \E a \in Account : \/ RefreshStarts(a) \/ CreateAccount(a)
                              \/ CheckAccount(a)
                              \/ \E o \in Operator : AskReplace(o, a)
  BY <1>6 DEF RefreshStarts, RefreshOfNothing, RefreshLoads, RecordsFailure,
              CreateAccount, CheckAccount, AskReplace
<1>7. CASE \E o \in Operator :
             \/ AskImport(o) \/ CandidateRefused(o)
             \/ ImportDescribed(o) \/ ReplaceDescribed(o)
             \/ ReadsPrevious(o) \/ ReadFails(o) \/ BackUp(o) \/ MoveIn(o)
             \/ PairFails(o) \/ CleanupFails(o) \/ PairWritten(o)
             \/ RefreshedReady(o) \/ RefreshedNotReady(o) \/ Reloaded(o)
             \/ RemoveImported(o) \/ RemoveFails(o)
  BY <1>7 DEF AskImport, CandidateRefused, ImportDescribed, ReplaceDescribed,
              ReadsPrevious, ReadFails, BackUp, MoveIn, PairFails, CleanupFails,
              PairWritten, RefreshedReady, RefreshedNotReady, Reloaded,
              RemoveImported, RemoveFails
<1>8. CASE UNCHANGED accountsVars
  BY <1>8 DEF accountsVars
<1> QED BY <1>1, <1>2, <1>3, <1>4, <1>5, <1>6, <1>7, <1>8 DEF AccountsNext

LEMMA AccountsInvIsKept ==
  AccountsInv /\ Wired /\ [AccountsNext]_accountsVars => AccountsInv'
<1> SUFFICES ASSUME AccountsInv, Wired, [AccountsNext]_accountsVars
             PROVE  AccountsInv'
  OBVIOUS
<1>1. CASE UNCHANGED accountsVars
  BY <1>1 DEF accountsVars, AccountsInv, Typed, Imports, Importing, Exists,
              ManagersAreKept
<1>2. CASE KillAndLoad
  BY <1>2, KillAndLoadKeeps
<1>3. ASSUME NEW a \in Account,
             \/ RefreshStarts(a) \/ RefreshDescribes(a) \/ Retires(a)
             \/ RequestGoes(a) \/ CookiesArrive(a) \/ CreateAccount(a)
             \/ CheckAccount(a) \/ \E o \in Operator : AskReplace(o, a)
      PROVE  AccountsInv'
  BY <1>3, RefreshStartsKeeps, RefreshDescribesKeeps, RetiresKeeps,
     AccountStepsKeep, AskKeeps
<1>4. ASSUME NEW o \in Operator,
             \/ AskImport(o) \/ CandidateRefused(o)
             \/ ImportDescribed(o) \/ ReplaceDescribed(o)
             \/ ReadsPrevious(o) \/ ReadFails(o) \/ BackUp(o) \/ MoveIn(o)
             \/ PairFails(o) \/ CleanupFails(o) \/ PairWritten(o)
             \/ RefreshedReady(o) \/ RefreshedNotReady(o) \/ Reloaded(o)
             \/ RemoveImported(o) \/ RemoveFails(o)
      PROVE  AccountsInv'
  BY <1>4, AskKeeps, AnswerKeeps, ImportDescribedKeeps, ReplaceDescribedKeeps,
     PairStepsKeep, PairEndsKeep, ReloadedKeeps, RemoveImportedKeeps
<1> QED BY <1>1, <1>2, <1>3, <1>4 DEF AccountsNext

\* However an account is checked, imported, replaced and rolled back, and
\* whatever fails, a process has one capacity manager for its slots at most.
THEOREM ManagersAreSingle == AccountsSpec => []OneManagerPerAccount
<1>1. AccountsInv => OneManagerPerAccount
  BY DEF AccountsInv, ManagersAreKept, OneManagerPerAccount
<1>2. AccountsInit => Wired
  BY DEF AccountsInit, Wired
<1>3. AccountsInv /\ Wired /\ [AccountsNext]_accountsVars => Wired'
  BY WiredIsKept
<1> QED BY <1>1, <1>2, <1>3, AccountsInvHoldsAtFirst, AccountsInvIsKept, PTL
        DEF AccountsSpec

-----------------------------------------------------------------------------
(* Rows, runtimes and credentials. *)

Usable == [enabled |-> TRUE, health |-> "ready"]

\* A replacement at an account, or an import that has made it.
AtWork(o, a) ==
  /\ call[o].on = a /\ call[o].pc # "idle"
  /\ call[o].kind = "replace" \/ Importing(o)

\* Who replaces waits for the retirement, and whoever has written for the
\* refresh; nobody is in line twice.
Waits(op) == IF op = "retire" THEN {"retiring"} ELSE {"refreshing", "reloading"}

LineAt(a) ==
  \A i \in DOMAIN tail[a] :
    LET o == tail[a][i].by
    IN /\ tail[a][i].op = "retire" => o \in Operator
       /\ o \in Operator =>
            /\ AtWork(o, a) /\ call[o].pc \in Waits(tail[a][i].op)
            /\ \A j \in DOMAIN tail[a] : tail[a][j].by = o => i = j

\* Credentials of one login at most.
OneLogin(logins) == \A k, l \in logins : k = l
OfOneLogin(pair) == OneLogin(pair.state \cup pair.profile)

KindOf(o) ==
  /\ OneLogin(call[o].login)
  /\ call[o].pc # "idle" => call[o].kind \in {"import", "replace"}
  /\ call[o].pc \in {"retiring", "reading", "reloading", "reloaded"} \/ call[o].undo
       => call[o].kind = "replace"
  /\ call[o].pc = "answered" /\ call[o].ready => published[call[o].on] # NoRuntime
  /\ call[o].pc = "describing" => call[o].old = NoFiles /\ call[o].bak = NoFiles

\* A usable account without a runtime is given one: by a refresh in line, or by
\* a replacement on its way to one.
Pending(a) == \E i \in DOMAIN tail[a] : tail[a][i].op = "refresh"
Moving     == {"reading", "written"} \cup Writing

OwedAt(a) ==
  row[a] = Usable /\ published[a] = NoRuntime =>
    \/ lost[a] \/ Pending(a)
    \/ \E o \in Operator : /\ call[o].on = a /\ call[o].kind = "replace"
                           /\ call[o].pc \in Moving

\* From the retirement to the refresh an account has no runtime.
Withdrawn(o) ==
  \/ call[o].pc \in Moving \cup {"refreshing", "reloading", "removing"}
  \/ call[o].pc = "answered" /\ ~call[o].ready

WorkerAt(o, a) ==
  /\ Exists(a)
  /\ \A i \in DOMAIN tail[a] : tail[a][i].by = o
  /\ Withdrawn(o) => published[a] = NoRuntime
  /\ call[o].pc \in {"reloading", "reloaded"} =>
       call[o].before.enabled = row[a].enabled
  /\ call[o].pc = "reloaded" /\ call[o].ready => row[a].health = "ready"

\* An account where no two requests met: its worker is alone, and what the
\* scheduler is offered is as the table says or about to be looked at.
AloneAt(a) ==
  ~contended[a] =>
    /\ ~Exists(a) => published[a] = NoRuntime /\ tail[a] = <<>>
    /\ Listed(a) => row[a] = Usable \/ Pending(a)
    /\ \A o, q \in Operator : AtWork(o, a) /\ AtWork(q, a) => o = q
    /\ \A o \in Operator : AtWork(o, a) => WorkerAt(o, a)

\* What a pair write holds while its files are moved: what it would leave if it
\* failed is of one login.
PairAt(o, a) ==
  /\ OfOneLogin(call[o].old) /\ OfOneLogin(call[o].write)
  /\ call[o].pc \in Writing => OfOneLogin(RolledBack(o))
  /\ call[o].pc = "backState" => call[o].bak = NoFiles
  /\ call[o].pc = "backProfile" => call[o].bak.profile = {}
  /\ call[o].pc \in {"backProfile", "putState"} => file[a].state = {}
  /\ call[o].pc \in {"putState", "putProfile"} => file[a].profile = {}
  /\ call[o].pc = "putProfile" => file[a].state = call[o].write.state

\* The logins of the runtime and of the session that is being made.
Session(a) == IF published[a] = NoRuntime THEN {} ELSE published[a].login
Loaded(a)  == UNION {tail[a][i].login : i \in DOMAIN tail[a]}
Known(a)   == file[a].state \cup file[a].profile \cup Session(a) \cup Loaded(a)

CookiesAt(a) ==
  ~contended[a] /\ ~outdated[a] =>
    /\ OneLogin(Known(a))
    /\ \A w \in wire[a] : w.by = "published" =>
         published[a] # NoRuntime /\ w.login = published[a].login
    /\ \A o \in Operator : AtWork(o, a) => PairAt(o, a)

HistoryTyped ==
  /\ contended \in [Account -> BOOLEAN] /\ outdated \in [Account -> BOOLEAN]
  /\ lost \in [Account -> BOOLEAN]

FitsAt(a) == LineAt(a) /\ OwedAt(a) /\ AloneAt(a) /\ CookiesAt(a)

Base == AccountsInv /\ Wired /\ HistoryTyped

FleetInv ==
  /\ Base
  /\ \A o \in Operator : KindOf(o)
  /\ \A a \in Account : FitsAt(a)

-----------------------------------------------------------------------------
(* Steps that work on one account. *)

\* An account that a step does not touch.
LEMMA ElsewhereFits ==
  ASSUME NEW b \in Account, FitsAt(b),
         row'[b] = row[b], file'[b] = file[b], published'[b] = published[b],
         tail'[b] = tail[b], wire'[b] = wire[b], lost'[b] = lost[b],
         contended'[b] = contended[b], outdated'[b] = outdated[b],
         \A q \in Operator : AtWork(q, b) \/ AtWork(q, b)' => call'[q] = call[q]
  PROVE  FitsAt(b)'
<1>1. \A q \in Operator : AtWork(q, b)' <=> AtWork(q, b)
  BY DEF AtWork, Importing
<1>2. LineAt(b)'
  BY <1>1 DEF FitsAt, LineAt
<1>3. OwedAt(b)'
  <2>1. \A o \in Operator : call[o].on = b /\ call[o].kind = "replace"
                            /\ call[o].pc \in Moving => AtWork(o, b)
    BY DEF AtWork, Moving, Writing
  <2> QED BY <2>1 DEF FitsAt, OwedAt, Pending
<1>4. AloneAt(b)'
  BY <1>1 DEF FitsAt, AloneAt, WorkerAt, Withdrawn, Listed, Exists, Pending
<1>5. CookiesAt(b)'
  <2>1. Known(b)' = Known(b)
    BY DEF Known, Session, Loaded
  <2>2. \A o \in Operator : AtWork(o, b) => RolledBack(o)' = RolledBack(o)
    BY DEF RolledBack, AtWork
  <2>3. \A o \in Operator : AtWork(o, b) /\ PairAt(o, b) => PairAt(o, b)'
    BY <2>2 DEF PairAt
  <2> QED BY <1>1, <2>1, <2>3 DEF FitsAt, CookiesAt
<1> QED BY <1>2, <1>3, <1>4, <1>5 DEF FitsAt

\* The frame of a step at one account: nothing happens elsewhere.
OnlyAt(a) ==
  \A b \in Account \ {a} :
    /\ row'[b] = row[b] /\ file'[b] = file[b] /\ published'[b] = published[b]
    /\ tail'[b] = tail[b] /\ wire'[b] = wire[b] /\ lost'[b] = lost[b]
    /\ contended'[b] = contended[b] /\ outdated'[b] = outdated[b]

OnlyBy(o) == \A q \in Operator \ {o} : call'[q] = call[q]

\* A step of a request at the account it works on.
LEMMA WorkerStep ==
  ASSUME FleetInv, NEW o \in Operator, NEW a \in Account, AtWork(o, a),
         call'[o].on = a, OnlyBy(o), OnlyAt(a), contended'[a] = contended[a],
         Base', KindOf(o)', LineAt(a)', OwedAt(a)',
         published[a] # NoRuntime => published'[a] # NoRuntime,
         ~contended[a] =>
           /\ (~Exists(a) => published[a] = NoRuntime /\ tail[a] = <<>>)'
           /\ (Listed(a) => row[a] = Usable \/ Pending(a))'
           /\ (AtWork(o, a) => WorkerAt(o, a))',
         ~contended[a] /\ ~outdated'[a] =>
           /\ OneLogin(Known(a))'
           /\ \A w \in wire'[a] : w.by = "published" =>
                published'[a] # NoRuntime /\ w.login = published'[a].login
           /\ (AtWork(o, a) => PairAt(o, a))'
  PROVE  FleetInv'
<1>1. ASSUME NEW q \in Operator \ {o} PROVE KindOf(q)'
  <2>1. call'[q] = call[q] /\ KindOf(q) /\ call[q].on \in Account
    BY DEF FleetInv, Base, AccountsInv, Typed, Call, OnlyBy
  <2>2. published[call[q].on] # NoRuntime => published'[call[q].on] # NoRuntime
    BY <2>1 DEF OnlyAt
  <2> QED BY <2>1, <2>2 DEF KindOf
<1>2. ASSUME NEW b \in Account \ {a} PROVE FitsAt(b)'
  <2>1. \A q \in Operator : AtWork(q, b) \/ AtWork(q, b)' => call'[q] = call[q]
    BY DEF AtWork, OnlyBy
  <2> QED BY <2>1, ElsewhereFits DEF FleetInv, OnlyAt
<1>3. \A q \in Operator \ {o} : AtWork(q, a)' <=> AtWork(q, a)
  BY DEF AtWork, Importing, OnlyBy
<1>4. AloneAt(a)'
  <2>1. ~contended[a] => \A q \in Operator \ {o} : ~AtWork(q, a)
    BY DEF FleetInv, FitsAt, AloneAt
  <2> QED BY <1>3, <2>1 DEF AloneAt
<1>5. CookiesAt(a)'
  <2>1. ~contended[a] => \A q \in Operator \ {o} : ~AtWork(q, a)
    BY DEF FleetInv, FitsAt, AloneAt
  <2> QED BY <1>3, <2>1 DEF CookiesAt
<1> QED BY <1>1, <1>2, <1>4, <1>5 DEF FleetInv, FitsAt

\* What the invariant says of a request at work, alone or not.
LEMMA AtAccount ==
  ASSUME FleetInv, NEW o \in Operator, NEW a \in Account, AtWork(o, a)
  PROVE  /\ call[o] \in Call /\ KindOf(o) /\ LineAt(a) /\ OwedAt(a)
         /\ ~contended[a] =>
              /\ WorkerAt(o, a) /\ (Listed(a) => row[a] = Usable \/ Pending(a))
              /\ call[o].pc \notin {"retiring", "refreshing", "reloading"} =>
                   tail[a] = <<>>
         /\ ~contended[a] /\ ~outdated[a] =>
              /\ OneLogin(Known(a)) /\ PairAt(o, a)
              /\ \A w \in wire[a] : w.by = "published" =>
                   published[a] # NoRuntime /\ w.login = published[a].login
<1>1. /\ call[o] \in Call /\ KindOf(o) /\ FitsAt(a) /\ tail[a] \in Seq(Operation)
  BY DEF FleetInv, Base, AccountsInv, Typed
<1>2. ASSUME ~contended[a], call[o].pc \notin {"retiring", "refreshing", "reloading"}
      PROVE  tail[a] = <<>>
  <2>1. \A i \in DOMAIN tail[a] : FALSE
    BY <1>1, <1>2 DEF FitsAt, AloneAt, WorkerAt, LineAt, Waits
  <2> QED BY <1>1, <2>1
<1> QED BY <1>1, <1>2 DEF FitsAt, AloneAt, CookiesAt

\* The line stands still, and so do those who wait in it.
LEMMA LineStands ==
  ASSUME FleetInv, NEW o \in Operator, NEW a \in Account, OnlyBy(o),
         tail'[a] = tail[a],
         call[o].pc \notin {"retiring", "refreshing", "reloading"}
  PROVE  LineAt(a)'
<1>1. LineAt(a)
  BY DEF FleetInv, FitsAt
<1>2. \A i \in DOMAIN tail[a] : tail[a][i].by # o
  BY <1>1 DEF LineAt, Waits
<1>3. \A q \in Operator \ {o} : AtWork(q, a)' <=> AtWork(q, a)
  BY DEF AtWork, Importing, OnlyBy
<1> QED BY <1>1, <1>2, <1>3 DEF LineAt, OnlyBy

\* What is owed stays owed: the row and the runtime are as they were, and a
\* replacement goes on or gives up.
LEMMA OwedStands ==
  ASSUME FleetInv, NEW o \in Operator, NEW a \in Account, OnlyBy(o),
         row'[a] = row[a] \/ row'[a] # Usable,
         published[a] # NoRuntime => published'[a] # NoRuntime, tail'[a] = tail[a],
         lost[a] => lost'[a],
         call[o].on = a /\ call[o].kind = "replace" /\ call[o].pc \in Moving =>
           \/ lost'[a]
           \/ /\ call'[o].on = a /\ call'[o].kind = "replace"
              /\ call'[o].pc \in Moving
  PROVE  OwedAt(a)'
<1>1. OwedAt(a)
  BY DEF FleetInv, FitsAt
<1>2. (Pending(a))' <=> Pending(a)
  BY DEF Pending
<1> QED BY <1>1, <1>2 DEF OwedAt, OnlyBy

LEMMA BaseIsKept == Base /\ [AccountsNext]_accountsVars => Base'
<1> SUFFICES ASSUME Base, [AccountsNext]_accountsVars PROVE Base'
  OBVIOUS
<1>1. AccountsInv' /\ Wired'
  BY AccountsInvIsKept, WiredIsKept DEF Base
<1>2. HistoryTyped'
  <2> USE DEF Base, HistoryTyped
  <2>1. CASE UNCHANGED accountsVars \/ KillAndLoad
    BY <2>1 DEF accountsVars, accountsHistory, KillAndLoad
  <2>2. ASSUME NEW a \in Account,
               \/ RefreshStarts(a) \/ RefreshDescribes(a) \/ Retires(a)
               \/ RequestGoes(a) \/ CreateAccount(a)
        PROVE  HistoryTyped'
    BY <2>2 DEF RefreshStarts, RefreshDescribes, Retires, RequestGoes, CreateAccount,
                RefreshOfNothing, RefreshLoads, RecordsFailure, Publishes,
                ObservesNothing, accountsHistory
  <2>3. ASSUME NEW a \in Account, CookiesArrive(a) \/ CheckAccount(a)
        PROVE  HistoryTyped'
    BY <2>3 DEF CookiesArrive, CheckAccount
  <2>4. ASSUME NEW a \in Account, NEW o \in Operator, AskReplace(o, a)
        PROVE  HistoryTyped'
    BY <2>4 DEF AskReplace
  <2>5. ASSUME NEW o \in Operator,
               \/ AskImport(o) \/ CandidateRefused(o) \/ ImportDescribed(o)
               \/ ReplaceDescribed(o) \/ ReadsPrevious(o) \/ BackUp(o) \/ MoveIn(o)
               \/ RefreshedNotReady(o) \/ Reloaded(o) \/ RemoveImported(o)
               \/ RemoveFails(o)
        PROVE  HistoryTyped'
    <3>1. UNCHANGED accountsHistory
      BY <2>5, Zenon
         DEF AskImport, CandidateRefused, ImportDescribed, ReplaceDescribed,
             ReadsPrevious, BackUp, MoveIn, RefreshedNotReady, Reloaded,
             RemoveImported, RemoveFails
    <3> QED BY <3>1 DEF accountsHistory
  <2>6. ASSUME NEW o \in Operator,
               \/ ReadFails(o) \/ PairFails(o) \/ CleanupFails(o) \/ PairWritten(o)
               \/ RefreshedReady(o)
        PROVE  HistoryTyped'
    <3>1. \/ lost' = lost
          \/ \E t \in BOOLEAN : lost' = [lost EXCEPT ![call[o].on] = t]
      BY <2>6 DEF ReadFails, PairFails, CleanupFails, PairWritten, RefreshedReady,
                  RestorePublished, GivesUp
    <3>2. UNCHANGED <<contended, outdated>>
      BY <2>6 DEF ReadFails, PairFails, CleanupFails, PairWritten, RefreshedReady
    <3> QED BY <3>1, <3>2
  <2> QED BY <2>1, <2>2, <2>3, <2>4, <2>5, <2>6 DEF AccountsNext
<1> QED BY <1>1, <1>2 DEF Base

\* A step that leaves all but a request, its files and its account's history of
\* runtimes alone.
LEMMA WorkerIsBusy ==
  ASSUME FleetInv, NEW o \in Operator, call[o].pc \notin {"idle", "describing"}
  PROVE  /\ call[o] \in Call /\ call[o].on \in Account /\ AtWork(o, call[o].on)
         /\ call \in [Operator -> Call] /\ file[call[o].on] \in Pair
         /\ file \in [Account -> Pair]
<1>1. call[o] \in Call /\ KindOf(o)
  BY DEF FleetInv, Base, AccountsInv, Typed
<1> QED BY <1>1 DEF FleetInv, Base, AccountsInv, Typed, Call, AtWork, Importing, KindOf

-----------------------------------------------------------------------------
(* The moves of both files. *)

LEMMA ReadsPreviousFits ==
  ASSUME FleetInv, Base', NEW o \in Operator, ReadsPrevious(o)
  PROVE  FleetInv'
<1>a. PICK a \in Account : a = call[o].on
  BY WorkerIsBusy DEF ReadsPrevious
<1>1. /\ UNCHANGED <<row, file, published, tail, wire, contended, outdated, lost>>
      /\ call[o].pc = "reading" /\ call[o] \in Call /\ AtWork(o, a)
      /\ call \in [Operator -> Call] /\ file[a] \in Pair
  BY <1>a, WorkerIsBusy DEF ReadsPrevious, accountsHistory
<1>2. /\ OnlyBy(o) /\ call'[o].pc = "backState" /\ call'[o].on = a
      /\ call'[o].kind = call[o].kind /\ call'[o].undo = call[o].undo
      /\ call'[o].ready = call[o].ready /\ call'[o].old = file[a]
      /\ call'[o].write = BothFiles(call[o].login) /\ call'[o].bak = NoFiles
      /\ call'[o].login = call[o].login
  BY <1>1, <1>a DEF ReadsPrevious, OnlyBy, Call
<1>3. OnlyAt(a)
  BY <1>1 DEF OnlyAt
<1>4. LineAt(a)'
  BY <1>1, <1>2, LineStands
<1>5. OwedAt(a)' /\ KindOf(o)'
  <2>1. KindOf(o) /\ call[o].kind = "replace"
    BY <1>1, AtAccount DEF KindOf
  <2> QED BY <1>1, <1>2, <2>1, OwedStands DEF Moving, Writing, KindOf
<1>6. ASSUME ~contended[a]
      PROVE  /\ (~Exists(a) => published[a] = NoRuntime /\ tail[a] = <<>>)'
             /\ (Listed(a) => row[a] = Usable \/ Pending(a))'
             /\ (AtWork(o, a) => WorkerAt(o, a))'
  <2>1. WorkerAt(o, a) /\ tail[a] = <<>> /\ (Listed(a) => row[a] = Usable \/ Pending(a))
    BY <1>1, <1>6, AtAccount
  <2>2. Withdrawn(o)
    BY <1>1 DEF Withdrawn, Moving
  <2> QED BY <1>1, <1>2, <2>1, <2>2 DEF WorkerAt, Exists, Listed, Pending
<1>7. ASSUME ~contended[a], ~outdated'[a]
      PROVE  /\ OneLogin(Known(a))'
             /\ \A w \in wire'[a] : w.by = "published" =>
                  published'[a] # NoRuntime /\ w.login = published'[a].login
             /\ (AtWork(o, a) => PairAt(o, a))'
  <2>1. /\ OneLogin(Known(a))
        /\ \A w \in wire[a] : w.by = "published" =>
             published[a] # NoRuntime /\ w.login = published[a].login
    BY <1>1, <1>7, AtAccount
  <2>2. Known(a)' = Known(a)
    BY <1>1 DEF Known, Session, Loaded
  <2>3. OfOneLogin(file[a])
    BY <2>1 DEF OneLogin, Known, OfOneLogin
  <2>4. OfOneLogin(BothFiles(call[o].login))
    BY <1>1, AtAccount DEF OfOneLogin, OneLogin, BothFiles, KindOf
  <2>5. RolledBack(o)'.state = file[a].state /\ RolledBack(o)'.profile = file[a].profile
    BY <1>1, <1>2 DEF RolledBack, NoFiles
  <2>6. OfOneLogin(RolledBack(o)')
    BY <2>3, <2>5 DEF OfOneLogin
  <2> QED BY <1>1, <1>2, <2>1, <2>2, <2>3, <2>4, <2>6 DEF PairAt
<1> QED BY <1>1, <1>2, <1>3, <1>4, <1>5, <1>6, <1>7, WorkerStep

\* A request that has withdrawn its account's runtime goes on with its pair of
\* files; nothing else moves.
LEMMA PairGoesOn ==
  ASSUME FleetInv, Base', NEW o \in Operator, NEW a \in Account, a = call[o].on,
         \/ call[o].pc \in Moving
         \/ call[o].pc = "answered" /\ ~call[o].ready,
         UNCHANGED <<row, published, tail, wire, contended, outdated, lost>>,
         \A b \in Account \ {a} : file'[b] = file[b],
         OnlyBy(o), call'[o].pc \in Moving \ {"reading"}, call'[o].on = a,
         call'[o].kind = call[o].kind, call'[o].login = call[o].login,
         call'[o].undo => call[o].kind = "replace",
         ~contended[a] /\ ~outdated[a] /\ OneLogin(Known(a)) /\ PairAt(o, a) =>
           OfOneLogin(file'[a]) /\ PairAt(o, a)'
  PROVE  FleetInv'
<1>1. /\ call[o].pc \notin {"idle", "describing", "retiring", "refreshing", "reloading"}
      /\ call'[o].pc \notin {"idle", "describing", "retiring", "refreshing",
                             "reloading", "reloaded", "answered"}
  BY DEF Moving, Writing
<1>2. AtWork(o, a) /\ KindOf(o)
  BY <1>1, WorkerIsBusy, AtAccount
<1>3. OnlyAt(a) /\ LineAt(a)'
  BY <1>1, LineStands DEF OnlyAt
<1>4. OwedAt(a)' /\ KindOf(o)'
  BY <1>1, <1>2, OwedStands DEF KindOf, Moving, Writing
<1>5. ASSUME ~contended[a]
      PROVE  /\ tail[a] = <<>> /\ WorkerAt(o, a) /\ published[a] = NoRuntime
             /\ (Listed(a) => row[a] = Usable \/ Pending(a))
  BY <1>1, <1>2, <1>5, AtAccount DEF WorkerAt, Withdrawn
<1>6. ASSUME ~contended[a]
      PROVE  /\ (~Exists(a) => published[a] = NoRuntime /\ tail[a] = <<>>)'
             /\ (Listed(a) => row[a] = Usable \/ Pending(a))'
             /\ (AtWork(o, a) => WorkerAt(o, a))'
  BY <1>1, <1>5, <1>6 DEF WorkerAt, Exists, Listed, Pending
<1>7. ASSUME ~contended[a], ~outdated'[a]
      PROVE  /\ OneLogin(Known(a))'
             /\ \A w \in wire'[a] : w.by = "published" =>
                  published'[a] # NoRuntime /\ w.login = published'[a].login
             /\ (AtWork(o, a) => PairAt(o, a))'
  <2>1. /\ OneLogin(Known(a)) /\ PairAt(o, a)
        /\ \A w \in wire[a] : w.by = "published" =>
             published[a] # NoRuntime /\ w.login = published[a].login
    BY <1>2, <1>7, AtAccount
  <2>2. OfOneLogin(file'[a]) /\ PairAt(o, a)'
    BY <1>7, <2>1
  <2>3. Known(a)' = file'[a].state \cup file'[a].profile
    BY <1>5, <1>7 DEF Known, Session, Loaded
  <2> QED BY <2>1, <2>2, <2>3 DEF OfOneLogin
<1> QED BY <1>2, <1>3, <1>4, <1>6, <1>7, WorkerStep

LEMMA BackUpFits ==
  ASSUME FleetInv, Base', NEW o \in Operator, BackUp(o)
  PROVE  FleetInv'
<1>a. PICK a \in Account : a = call[o].on
  BY WorkerIsBusy DEF BackUp
<1>1. /\ UNCHANGED <<row, published, tail, wire, contended, outdated, lost>>
      /\ call[o].pc \in {"backState", "backProfile"} /\ call[o] \in Call
      /\ AtWork(o, a) /\ call \in [Operator -> Call] /\ file[a] \in Pair
      /\ file \in [Account -> Pair] /\ call[o].bak \in Pair /\ KindOf(o)
  BY <1>a, WorkerIsBusy, AtAccount DEF BackUp, accountsHistory, Call
<1>2. CASE call[o].pc = "backState"
  <2>0. FileOf[call[o].pc] = "state" /\ After[call[o].pc] = "backProfile"
    BY <1>2 DEF FileOf, After
  <2>1. /\ file' = [file EXCEPT ![a]["state"] = {}]
        /\ call' = [call EXCEPT ![o].pc = "backProfile", ![o].bak["state"] = file[a]["state"]]
    BY <2>0, <1>a, Zenon DEF BackUp
  <2>2. /\ OnlyBy(o) /\ call'[o].pc = "backProfile" /\ call'[o].on = a
        /\ call'[o].kind = call[o].kind /\ call'[o].undo = call[o].undo
        /\ call'[o].old = call[o].old /\ call'[o].write = call[o].write
        /\ call'[o].login = call[o].login
        /\ call'[o].bak.state = file[a].state
        /\ call'[o].bak.profile = call[o].bak.profile
    BY <1>1, <1>a, <2>1 DEF OnlyBy, Call, Pair
  <2>3. /\ file'[a].state = {} /\ file'[a].profile = file[a].profile
        /\ \A b \in Account \ {a} : file'[b] = file[b]
    BY <1>1, <2>1 DEF Pair
  <2>4. ASSUME OneLogin(Known(a)), PairAt(o, a)
        PROVE  OfOneLogin(file'[a]) /\ PairAt(o, a)'
    <3>1. OfOneLogin(file[a]) /\ call[o].bak.profile = {}
      BY <1>2, <2>4 DEF OneLogin, OfOneLogin, Known, PairAt, NoFiles
    <3>2. /\ RolledBack(o)'.state = file[a].state
          /\ RolledBack(o)'.profile = file[a].profile
      BY <1>1, <2>2, <2>3, <3>1 DEF RolledBack
    <3>3. OfOneLogin(RolledBack(o)')
      BY <3>1, <3>2 DEF OfOneLogin
    <3> QED BY <2>2, <2>3, <2>4, <3>1, <3>3 DEF PairAt, OfOneLogin, OneLogin
  <2> QED BY <1>1, <1>2, <1>a, <2>2, <2>3, <2>4, PairGoesOn
          DEF Moving, Writing, KindOf
<1>3. CASE call[o].pc = "backProfile"
  <2>0. FileOf[call[o].pc] = "profile" /\ After[call[o].pc] = "putState"
    BY <1>3 DEF FileOf, After
  <2>1. /\ file' = [file EXCEPT ![a]["profile"] = {}]
        /\ call' = [call EXCEPT ![o].pc = "putState", ![o].bak["profile"] = file[a]["profile"]]
    BY <2>0, <1>a, Zenon DEF BackUp
  <2>2. /\ OnlyBy(o) /\ call'[o].pc = "putState" /\ call'[o].on = a
        /\ call'[o].kind = call[o].kind /\ call'[o].undo = call[o].undo
        /\ call'[o].old = call[o].old /\ call'[o].write = call[o].write
        /\ call'[o].login = call[o].login
        /\ call'[o].bak.profile = file[a].profile
        /\ call'[o].bak.state = call[o].bak.state
    BY <1>1, <1>a, <2>1 DEF OnlyBy, Call, Pair
  <2>3. /\ file'[a].profile = {} /\ file'[a].state = file[a].state
        /\ \A b \in Account \ {a} : file'[b] = file[b]
    BY <1>1, <2>1 DEF Pair
  <2>4. ASSUME OneLogin(Known(a)), PairAt(o, a)
        PROVE  OfOneLogin(file'[a]) /\ PairAt(o, a)'
    <3>1. file[a].state = {} /\ call[o].bak.profile = {} /\ OfOneLogin(RolledBack(o))
      BY <1>3, <2>4 DEF PairAt, Writing
    <3>2. /\ RolledBack(o).state = call[o].bak.state
          /\ RolledBack(o).profile = file[a].profile
      BY <1>3, <1>a, <3>1 DEF RolledBack
    <3>3. /\ RolledBack(o)'.state = call[o].bak.state
          /\ RolledBack(o)'.profile = file[a].profile
      BY <1>1, <2>2, <2>3, <3>1 DEF RolledBack
    <3>4. OfOneLogin(RolledBack(o)')
      BY <3>1, <3>2, <3>3 DEF OfOneLogin
    <3> QED BY <2>2, <2>3, <2>4, <3>1, <3>4 DEF PairAt, OfOneLogin, OneLogin
  <2> QED BY <1>1, <1>3, <1>a, <2>2, <2>3, <2>4, PairGoesOn
          DEF Moving, Writing, KindOf
<1> QED BY <1>1, <1>2, <1>3

LEMMA MoveInFits ==
  ASSUME FleetInv, Base', NEW o \in Operator, MoveIn(o)
  PROVE  FleetInv'
<1>a. PICK a \in Account : a = call[o].on
  BY WorkerIsBusy DEF MoveIn
<1>1. /\ UNCHANGED <<row, published, tail, wire, contended, outdated, lost>>
      /\ call[o].pc \in {"putState", "putProfile"} /\ call[o] \in Call
      /\ AtWork(o, a) /\ call \in [Operator -> Call] /\ file[a] \in Pair
      /\ file \in [Account -> Pair] /\ call[o].bak \in Pair /\ KindOf(o)
  BY <1>a, WorkerIsBusy, AtAccount DEF MoveIn, accountsHistory, Call
<1>2. CASE call[o].pc = "putState"
  <2>0. FileOf[call[o].pc] = "state" /\ After[call[o].pc] = "putProfile"
    BY <1>2 DEF FileOf, After
  <2>1. /\ file' = [file EXCEPT ![a]["state"] = call[o].write["state"]]
        /\ call' = [call EXCEPT ![o].pc = "putProfile"]
    BY <2>0, <1>a, Zenon DEF MoveIn
  <2>2. /\ OnlyBy(o) /\ call'[o].pc = "putProfile" /\ call'[o].on = a
        /\ call'[o].kind = call[o].kind /\ call'[o].undo = call[o].undo
        /\ call'[o].old = call[o].old /\ call'[o].write = call[o].write
        /\ call'[o].login = call[o].login /\ call'[o].bak = call[o].bak
    BY <1>1, <1>a, <2>1 DEF OnlyBy, Call
  <2>3. /\ file'[a].state = call[o].write.state /\ file'[a].profile = file[a].profile
        /\ \A b \in Account \ {a} : file'[b] = file[b]
    BY <1>1, <2>1 DEF Pair
  <2>4. ASSUME OneLogin(Known(a)), PairAt(o, a)
        PROVE  OfOneLogin(file'[a]) /\ PairAt(o, a)'
    <3>1. /\ file[a].state = {} /\ file[a].profile = {}
          /\ OfOneLogin(RolledBack(o)) /\ OfOneLogin(call[o].write)
      BY <1>2, <2>4 DEF PairAt, Writing
    <3>2. /\ RolledBack(o).state = call[o].bak.state
          /\ RolledBack(o).profile = call[o].bak.profile
      BY <1>2, <1>a, <3>1 DEF RolledBack
    <3>3. /\ RolledBack(o)'.state = call[o].bak.state
          /\ RolledBack(o)'.profile = call[o].bak.profile
      BY <1>1, <2>2, <2>3, <3>1 DEF RolledBack
    <3>4. OfOneLogin(RolledBack(o)')
      BY <3>1, <3>2, <3>3 DEF OfOneLogin
    <3> QED BY <2>2, <2>3, <2>4, <3>1, <3>4 DEF PairAt, OfOneLogin, OneLogin
  <2> QED BY <1>1, <1>2, <1>a, <2>2, <2>3, <2>4, PairGoesOn
          DEF Moving, Writing, KindOf
<1>3. CASE call[o].pc = "putProfile"
  <2>0. FileOf[call[o].pc] = "profile" /\ After[call[o].pc] = "written"
    BY <1>3 DEF FileOf, After
  <2>1. /\ file' = [file EXCEPT ![a]["profile"] = call[o].write["profile"]]
        /\ call' = [call EXCEPT ![o].pc = "written"]
    BY <2>0, <1>a, Zenon DEF MoveIn
  <2>2. /\ OnlyBy(o) /\ call'[o].pc = "written" /\ call'[o].on = a
        /\ call'[o].kind = call[o].kind /\ call'[o].undo = call[o].undo
        /\ call'[o].old = call[o].old /\ call'[o].write = call[o].write
        /\ call'[o].login = call[o].login /\ call'[o].bak = call[o].bak
    BY <1>1, <1>a, <2>1 DEF OnlyBy, Call
  <2>3. /\ file'[a].profile = call[o].write.profile /\ file'[a].state = file[a].state
        /\ \A b \in Account \ {a} : file'[b] = file[b]
    BY <1>1, <2>1 DEF Pair
  <2>4. ASSUME OneLogin(Known(a)), PairAt(o, a)
        PROVE  OfOneLogin(file'[a]) /\ PairAt(o, a)'
    BY <1>3, <2>2, <2>3, <2>4 DEF PairAt, OfOneLogin, Writing
  <2> QED BY <1>1, <1>3, <1>a, <2>2, <2>3, <2>4, PairGoesOn
          DEF Moving, Writing, KindOf
<1> QED BY <1>1, <1>2, <1>3

-----------------------------------------------------------------------------
(* Requests that end, and the line of refreshes. *)

\* A request that works at no account, before the step and after it.
LEMMA BystanderStep ==
  ASSUME FleetInv, Base', NEW o \in Operator, OnlyBy(o),
         UNCHANGED <<row, file, published, tail, wire, contended, outdated, lost>>,
         KindOf(o)', \A b \in Account : ~AtWork(o, b) /\ ~AtWork(o, b)'
  PROVE  FleetInv'
<1>1. ASSUME NEW q \in Operator \ {o} PROVE KindOf(q)'
  <2>1. call'[q] = call[q] /\ KindOf(q)
    BY DEF FleetInv, OnlyBy
  <2> QED BY <2>1 DEF KindOf
<1>2. ASSUME NEW b \in Account PROVE FitsAt(b)'
  <2>1. \A q \in Operator : AtWork(q, b) \/ AtWork(q, b)' => call'[q] = call[q]
    BY DEF OnlyBy
  <2> QED BY <2>1, ElsewhereFits DEF FleetInv
<1> QED BY <1>1, <1>2 DEF FleetInv

LEMMA AnsweredCall ==
  ASSUME FleetInv, NEW o \in Operator, Answered(o)
  PROVE  /\ OnlyBy(o) /\ call'[o] = NoCall(call[o].on) /\ call'[o].pc = "idle"
         /\ call'[o].on = call[o].on /\ KindOf(o)'
         /\ \A b \in Account : ~AtWork(o, b)'
<1>1. call \in [Operator -> Call]
  BY DEF FleetInv, Base, AccountsInv, Typed
<1>2. OnlyBy(o) /\ call'[o] = NoCall(call[o].on)
  BY <1>1 DEF Answered, OnlyBy
<1>3. /\ NoCall(call[o].on).pc = "idle" /\ NoCall(call[o].on).login = {}
      /\ NoCall(call[o].on).undo = FALSE /\ NoCall(call[o].on).on = call[o].on
  BY DEF NoCall
<1>4. /\ call'[o].pc = "idle" /\ call'[o].login = {} /\ call'[o].undo = FALSE
      /\ call'[o].on = call[o].on
  BY <1>2, <1>3
<1> QED BY <1>2, <1>4 DEF KindOf, OneLogin, AtWork

\* A request ends at its account: if it was to bring a runtime, that is noted.
LEMMA LeavesFit ==
  ASSUME FleetInv, Base', NEW o \in Operator, NEW a \in Account, AtWork(o, a),
         Answered(o), call[o].pc \notin {"retiring", "refreshing", "reloading"},
         UNCHANGED <<row, published, tail, wire, contended, outdated>>,
         \A b \in Account \ {a} : file'[b] = file[b] /\ lost'[b] = lost[b],
         published[a] # NoRuntime \/ (lost[a] => lost'[a]),
         call[o].kind = "replace" /\ call[o].pc \in Moving => lost'[a],
         \/ file' = file
         \/ /\ call[o].pc \in Moving
            /\ ~contended[a] /\ ~outdated[a] /\ OneLogin(Known(a)) /\ PairAt(o, a) =>
                 OfOneLogin(file'[a])
  PROVE  FleetInv'
<1>1. /\ OnlyBy(o) /\ KindOf(o)' /\ ~AtWork(o, a)' /\ call[o].on = a
      /\ call'[o].on = a
  BY AnsweredCall DEF AtWork
<1>2. OnlyAt(a) /\ LineAt(a)'
  BY <1>1, LineStands DEF OnlyAt
<1>3. OwedAt(a)'
  <2>1. CASE published[a] # NoRuntime
    BY <2>1 DEF OwedAt
  <2>2. CASE lost[a] => lost'[a]
    BY <1>1, <2>2, OwedStands
  <2> QED BY <2>1, <2>2
<1>4. ASSUME ~contended[a]
      PROVE  /\ tail[a] = <<>> /\ WorkerAt(o, a)
             /\ (Listed(a) => row[a] = Usable \/ Pending(a))
  BY <1>4, AtAccount
<1>5. ASSUME ~contended[a]
      PROVE  /\ (~Exists(a) => published[a] = NoRuntime /\ tail[a] = <<>>)'
             /\ (Listed(a) => row[a] = Usable \/ Pending(a))'
             /\ (AtWork(o, a) => WorkerAt(o, a))'
  BY <1>1, <1>4, <1>5 DEF WorkerAt, Exists, Listed, Pending
<1>6. ASSUME ~contended[a], ~outdated'[a]
      PROVE  /\ OneLogin(Known(a))'
             /\ \A w \in wire'[a] : w.by = "published" =>
                  published'[a] # NoRuntime /\ w.login = published'[a].login
             /\ (AtWork(o, a) => PairAt(o, a))'
  <2>1. /\ OneLogin(Known(a)) /\ PairAt(o, a)
        /\ \A w \in wire[a] : w.by = "published" =>
             published[a] # NoRuntime /\ w.login = published[a].login
    BY <1>6, AtAccount
  <2>2. CASE file' = file
    <3>1. Known(a)' = Known(a)
      BY <2>2 DEF Known, Session, Loaded
    <3> QED BY <1>1, <2>1, <3>1
  <2>3. CASE call[o].pc \in Moving /\ OfOneLogin(file'[a])
    <3>1. published[a] = NoRuntime
      BY <1>4, <1>6, <2>3 DEF WorkerAt, Withdrawn
    <3>2. Known(a)' = file'[a].state \cup file'[a].profile
      BY <1>4, <1>6, <3>1 DEF Known, Session, Loaded
    <3> QED BY <1>1, <2>1, <2>3, <3>2 DEF OfOneLogin
  <2> QED BY <1>6, <2>1, <2>2, <2>3
<1> QED BY <1>1, <1>2, <1>3, <1>5, <1>6, WorkerStep

LEMMA CandidateRefusedFits ==
  ASSUME FleetInv, Base', NEW o \in Operator, CandidateRefused(o)
  PROVE  FleetInv'
<1>1. /\ UNCHANGED <<row, file, published, tail, wire, contended, outdated, lost>>
      /\ call[o].pc = "describing" /\ Answered(o)
  BY DEF CandidateRefused, accountsHistory
<1>2. call[o] \in Call /\ call[o].on \in Account /\ call[o].kind \in {"import", "replace"}
  BY <1>1 DEF FleetInv, Base, AccountsInv, Typed, Call, KindOf
<1>3. CASE call[o].kind = "import"
  <2>1. \A b \in Account : ~AtWork(o, b)
    BY <1>1, <1>3 DEF AtWork, Importing
  <2> QED BY <1>1, <2>1, AnsweredCall, BystanderStep
<1>4. CASE call[o].kind = "replace"
  <2>1. PICK a \in Account : a = call[o].on
    BY <1>2
  <2>2. AtWork(o, a)
    BY <1>1, <1>4, <2>1 DEF AtWork
  <2>3. call[o].pc \notin Moving
    BY <1>1 DEF Moving, Writing
  <2> QED BY <1>1, <2>2, <2>3, LeavesFit
<1> QED BY <1>2, <1>3, <1>4

LEMMA EndsFit ==
  ASSUME FleetInv, Base', NEW o \in Operator,
         ReadFails(o) \/ RemoveFails(o) \/ RefreshedReady(o)
  PROVE  FleetInv'
<1>1. /\ UNCHANGED <<row, file, published, tail, wire, contended, outdated>>
      /\ call[o].pc \in {"reading", "removing", "answered"} /\ Answered(o)
      /\ call[o].pc = "answered" => call[o].ready
  BY DEF ReadFails, RemoveFails, RefreshedReady, accountsHistory
<1>2. PICK a \in Account : a = call[o].on
  BY <1>1, WorkerIsBusy
<1>3. AtWork(o, a)
  BY <1>1, <1>2, WorkerIsBusy
<1>4. KindOf(o) /\ lost \in [Account -> BOOLEAN]
  BY DEF FleetInv, Base, HistoryTyped
<1>5. /\ \A b \in Account \ {a} : lost'[b] = lost[b]
      /\ call[o].pc = "reading" => lost'[a]
      /\ call[o].pc = "removing" => lost'[a] = lost[a]
  BY <1>2, <1>4 DEF ReadFails, RemoveFails, RefreshedReady, accountsHistory
<1>6. call[o].pc = "answered" => published[a] # NoRuntime
  BY <1>1, <1>2, <1>4 DEF KindOf
<1>7. call[o].pc \in Moving => call[o].pc = "reading"
  BY <1>1 DEF Moving, Writing
<1> QED BY <1>1, <1>3, <1>5, <1>6, <1>7, LeavesFit

\* An operation comes into line.
LEMMA LineOf ==
  ASSUME FleetInv, NEW a \in Account, NEW op, NEW by, Enqueue(a, op, by)
  PROVE  /\ \A b \in Account \ {a} : tail'[b] = tail[b]
         /\ tail[a] \in Seq(Operation) /\ Len(tail[a]) \in Nat
         /\ DOMAIN tail[a] = 1 .. Len(tail[a])
         /\ DOMAIN tail'[a] = DOMAIN tail[a] \cup {Len(tail[a]) + 1}
         /\ \A i \in DOMAIN tail[a] : tail'[a][i] = tail[a][i]
         /\ tail'[a][Len(tail[a]) + 1].op = op
         /\ tail'[a][Len(tail[a]) + 1].by = by
         /\ tail'[a][Len(tail[a]) + 1].login = {}
         /\ Loaded(a)' = Loaded(a)
         /\ Pending(a) \/ op = "refresh" => Pending(a)'
<1> DEFINE next == [op |-> op, by |-> by, step |-> "start", login |-> {}]
<1>1. tail \in [Account -> Seq(Operation)]
  BY DEF FleetInv, Base, AccountsInv, Typed
<1>2. tail' = [tail EXCEPT ![a] = Append(tail[a], next)]
  BY DEF Enqueue
<1>3. next.op = op /\ next.by = by /\ next.login = {}
  OBVIOUS
<1> HIDE DEF next
<1>4. tail'[a] = Append(tail[a], next) /\ \A b \in Account \ {a} : tail'[b] = tail[b]
  BY <1>1, <1>2
<1>5. tail[a] \in Seq(Operation) /\ Len(tail[a]) \in Nat
      /\ DOMAIN tail[a] = 1 .. Len(tail[a])
  BY <1>1
<1>6. /\ DOMAIN tail'[a] = DOMAIN tail[a] \cup {Len(tail[a]) + 1}
      /\ \A i \in DOMAIN tail[a] : tail'[a][i] = tail[a][i]
      /\ tail'[a][Len(tail[a]) + 1] = next
  <2>1. Len(Append(tail[a], next)) = Len(tail[a]) + 1
    BY <1>5
  <2>2. DOMAIN Append(tail[a], next) = 1 .. Len(tail[a]) + 1
    BY <1>5, <2>1
  <2>3. 1 .. Len(tail[a]) + 1 = (1 .. Len(tail[a])) \cup {Len(tail[a]) + 1}
    BY <1>5
  <2>4. \A i \in 1 .. Len(tail[a]) : Append(tail[a], next)[i] = tail[a][i]
    BY <1>5
  <2>5. Append(tail[a], next)[Len(tail[a]) + 1] = next
    BY <1>5
  <2> QED BY <1>4, <1>5, <2>2, <2>3, <2>4, <2>5
<1>7. Loaded(a)' = Loaded(a)
  BY <1>3, <1>6 DEF Loaded
<1>8. Pending(a) \/ op = "refresh" => Pending(a)'
  BY <1>3, <1>6 DEF Pending
<1> QED BY <1>3, <1>4, <1>5, <1>6, <1>7, <1>8

\* A request at work comes into line, where it was not.
LEMMA ComesIntoLine ==
  ASSUME FleetInv, NEW o \in Operator, NEW a \in Account, AtWork(o, a),
         NEW op \in {"refresh", "retire"}, Enqueue(a, op, o),
         call[o].pc \notin {"retiring", "refreshing", "reloading"},
         OnlyBy(o), AtWork(o, a)', call'[o].pc \in Waits(op)
  PROVE  /\ LineAt(a)'
         /\ ~contended[a] => \A i \in DOMAIN tail'[a] : tail'[a][i].by = o
<1> DEFINE new == Len(tail[a]) + 1
<1>1. /\ DOMAIN tail'[a] = DOMAIN tail[a] \cup {new} /\ new \notin DOMAIN tail[a]
      /\ \A i \in DOMAIN tail[a] : tail'[a][i] = tail[a][i]
      /\ tail'[a][new].op = op /\ tail'[a][new].by = o
  BY LineOf
<1> HIDE DEF new
<1>2. LineAt(a) /\ (~contended[a] => tail[a] = <<>>)
  BY AtAccount
<1>3. \A i \in DOMAIN tail[a] : tail[a][i].by # o
  BY <1>2 DEF LineAt, Waits
<1>4. \A q \in Operator \ {o} : call'[q] = call[q] /\ (AtWork(q, a)' <=> AtWork(q, a))
  BY DEF AtWork, Importing, OnlyBy
<1>5. ASSUME NEW i \in DOMAIN tail'[a]
      PROVE  /\ tail'[a][i].op = "retire" => tail'[a][i].by \in Operator
             /\ tail'[a][i].by \in Operator =>
                  /\ AtWork(tail[a][i].by, a)'
                  /\ call'[tail'[a][i].by].pc \in Waits(tail'[a][i].op)
                  /\ \A j \in DOMAIN tail'[a] :
                       tail'[a][j].by = tail'[a][i].by => i = j
  <2>1. CASE i = new
    <3>1. tail'[a][i].by = o /\ tail'[a][i].op = op
      BY <1>1, <2>1
    <3>2. \A j \in DOMAIN tail'[a] : tail'[a][j].by = o => i = j
      BY <1>1, <1>3, <2>1
    <3> QED BY <3>1, <3>2 DEF AtWork, Importing
  <2>2. CASE i \in DOMAIN tail[a]
    <3>1. PICK q : q = tail[a][i].by
      OBVIOUS
    <3>2. tail'[a][i].by = q /\ tail'[a][i].op = tail[a][i].op /\ q # o
      BY <1>1, <1>3, <2>2, <3>1
    <3>3. /\ tail[a][i].op = "retire" => q \in Operator
          /\ q \in Operator =>
               /\ AtWork(q, a) /\ call[q].pc \in Waits(tail[a][i].op)
               /\ \A j \in DOMAIN tail[a] : tail[a][j].by = q => i = j
      BY <1>2, <2>2, <3>1 DEF LineAt
    <3>4. q \in Operator => \A j \in DOMAIN tail'[a] : tail'[a][j].by = q => i = j
      BY <1>1, <3>2, <3>3
    <3>5. q \in Operator => AtWork(q, a)' /\ call'[q].pc \in Waits(tail[a][i].op)
      BY <1>4, <3>2, <3>3
    <3> QED BY <3>2, <3>3, <3>4, <3>5 DEF AtWork, Importing
  <2> QED BY <1>1, <2>1, <2>2
<1>6. LineAt(a)'
  BY <1>5 DEF LineAt
<1> QED BY <1>1, <1>2, <1>6

-----------------------------------------------------------------------------
(* Replacement and rollback. *)

\* The provider has taken the new credentials: the account is to be retired.
LEMMA ReplaceDescribedFits ==
  ASSUME FleetInv, Base', NEW o \in Operator, ReplaceDescribed(o)
  PROVE  FleetInv'
<1>a. PICK a \in Account : a = call[o].on
  BY DEF FleetInv, Base, AccountsInv, Typed, Call
<1>1. /\ UNCHANGED <<row, file, published, wire, contended, outdated, lost>>
      /\ call[o].pc = "describing" /\ call[o].kind = "replace"
      /\ Proceed(o, "retiring") /\ Enqueue(a, "retire", o)
  BY <1>a DEF ReplaceDescribed, accountsHistory
<1>2. AtWork(o, a)
  BY <1>1, <1>a DEF AtWork
<1>3. call[o] \in Call /\ call \in [Operator -> Call] /\ KindOf(o)
  BY DEF FleetInv, Base, AccountsInv, Typed
<1>4. /\ OnlyBy(o) /\ call'[o].pc = "retiring" /\ call'[o].on = a
      /\ call'[o].kind = call[o].kind /\ call'[o].login = call[o].login
      /\ call'[o].old = call[o].old /\ call'[o].write = call[o].write
      /\ call'[o].undo = call[o].undo
  BY <1>1, <1>3, <1>a DEF Proceed, OnlyBy, Call
<1>5. AtWork(o, a)'
  BY <1>1, <1>4 DEF AtWork
<1>6. /\ LineAt(a)'
      /\ ~contended[a] => \A i \in DOMAIN tail'[a] : tail'[a][i].by = o
  BY <1>1, <1>2, <1>4, <1>5, ComesIntoLine DEF Waits
<1>7. /\ OnlyAt(a) /\ Loaded(a)' = Loaded(a) /\ (Pending(a) => Pending(a)')
  BY <1>1, LineOf DEF OnlyAt
<1>8. OwedAt(a)' /\ KindOf(o)'
  <2>1. KindOf(o)'
    BY <1>1, <1>3, <1>4 DEF KindOf
  <2>2. OwedAt(a)
    BY <1>2, AtAccount
  <2>3. call[o].pc \notin Moving
    BY <1>1 DEF Moving, Writing
  <2>4. \A q \in Operator : call[q].pc \in Moving => call'[q] = call[q]
    BY <1>4, <2>3 DEF OnlyBy
  <2> QED BY <1>1, <1>7, <2>1, <2>2, <2>4 DEF OwedAt
<1>9. ASSUME ~contended[a]
      PROVE  /\ (~Exists(a) => published[a] = NoRuntime /\ tail[a] = <<>>)'
             /\ (Listed(a) => row[a] = Usable \/ Pending(a))'
             /\ (AtWork(o, a) => WorkerAt(o, a))'
  <2>1. WorkerAt(o, a) /\ (Listed(a) => row[a] = Usable \/ Pending(a))
    BY <1>2, <1>9, AtAccount
  <2>2. ~Withdrawn(o)'
    BY <1>4 DEF Withdrawn, Moving, Writing
  <2> QED BY <1>1, <1>4, <1>6, <1>7, <1>9, <2>1, <2>2 DEF WorkerAt, Exists, Listed
<1>10. ASSUME ~contended[a], ~outdated'[a]
       PROVE  /\ OneLogin(Known(a))'
              /\ \A w \in wire'[a] : w.by = "published" =>
                   published'[a] # NoRuntime /\ w.login = published'[a].login
              /\ (AtWork(o, a) => PairAt(o, a))'
  <2>1. /\ OneLogin(Known(a)) /\ PairAt(o, a)
        /\ \A w \in wire[a] : w.by = "published" =>
             published[a] # NoRuntime /\ w.login = published[a].login
    BY <1>1, <1>2, <1>10, AtAccount
  <2>2. Known(a)' = Known(a)
    BY <1>1, <1>7 DEF Known, Session
  <2> QED BY <1>1, <1>4, <2>1, <2>2 DEF PairAt, Writing
<1> QED BY <1>1, <1>2, <1>4, <1>6, <1>7, <1>8, <1>9, <1>10, WorkerStep

\* A request that has withdrawn its account's runtime changes the row and asks
\* for a refresh.
LEMMA AsksForRefresh ==
  ASSUME FleetInv, Base', NEW o \in Operator, NEW a \in Account, a = call[o].on,
         call[o].pc \in Moving, Exists(a)', Enqueue(a, "refresh", o), OnlyBy(o),
         UNCHANGED <<published, wire, contended, outdated, lost>>,
         \A b \in Account \ {a} : row'[b] = row[b] /\ file'[b] = file[b],
         call'[o].pc \in {"refreshing", "reloading"}, call'[o].on = a,
         call'[o].kind = call[o].kind, call'[o].login = call[o].login,
         call'[o].old = call[o].old, call'[o].write = call[o].write,
         call'[o].undo = call[o].undo,
         call'[o].pc = "reloading" =>
           call[o].kind = "replace" /\ call'[o].before.enabled = row'[a].enabled,
         ~contended[a] /\ ~outdated[a] /\ OneLogin(Known(a)) /\ PairAt(o, a) =>
           OfOneLogin(file'[a])
  PROVE  FleetInv'
<1>1. /\ call[o].pc \notin {"idle", "describing", "retiring", "refreshing", "reloading"}
      /\ call'[o].pc \notin {"idle", "describing", "reloaded", "answered"} \cup Writing
  BY DEF Moving, Writing
<1>2. AtWork(o, a) /\ KindOf(o)
  BY <1>1, WorkerIsBusy, AtAccount
<1>3. AtWork(o, a)'
  BY <1>1, <1>2 DEF AtWork, Importing
<1>4. /\ LineAt(a)'
      /\ ~contended[a] => \A i \in DOMAIN tail'[a] : tail'[a][i].by = o
  <2>1. call'[o].pc \in Waits("refresh")
    BY DEF Waits
  <2> QED BY <1>1, <1>2, <1>3, <2>1, ComesIntoLine
<1>5. OnlyAt(a) /\ Loaded(a)' = Loaded(a) /\ Pending(a)'
  BY LineOf DEF OnlyAt
<1>6. OwedAt(a)' /\ KindOf(o)'
  <2>1. KindOf(o)'
    BY <1>1, <1>2 DEF KindOf
  <2> QED BY <1>5, <2>1 DEF OwedAt
<1>7. ASSUME ~contended[a]
      PROVE  tail[a] = <<>> /\ WorkerAt(o, a) /\ published[a] = NoRuntime
  BY <1>1, <1>2, <1>7, AtAccount DEF WorkerAt, Withdrawn
<1>8. ASSUME ~contended[a]
      PROVE  /\ (~Exists(a) => published[a] = NoRuntime /\ tail[a] = <<>>)'
             /\ (Listed(a) => row[a] = Usable \/ Pending(a))'
             /\ (AtWork(o, a) => WorkerAt(o, a))'
  BY <1>1, <1>4, <1>5, <1>7, <1>8 DEF WorkerAt
<1>9. ASSUME ~contended[a], ~outdated'[a]
      PROVE  /\ OneLogin(Known(a))'
             /\ \A w \in wire'[a] : w.by = "published" =>
                  published'[a] # NoRuntime /\ w.login = published'[a].login
             /\ (AtWork(o, a) => PairAt(o, a))'
  <2>1. /\ OneLogin(Known(a)) /\ PairAt(o, a)
        /\ \A w \in wire[a] : w.by = "published" =>
             published[a] # NoRuntime /\ w.login = published[a].login
    BY <1>2, <1>9, AtAccount
  <2>2. OfOneLogin(file'[a])
    BY <1>9, <2>1
  <2>3. Known(a)' = file'[a].state \cup file'[a].profile
    BY <1>5, <1>7, <1>9 DEF Known, Session, Loaded
  <2>4. PairAt(o, a)'
    BY <1>1, <2>1 DEF PairAt, Writing
  <2> QED BY <2>1, <2>2, <2>3, <2>4 DEF OfOneLogin
<1> QED BY <1>2, <1>4, <1>5, <1>6, <1>8, <1>9, WorkerStep

\* What the row and the runtime said at first is to come back.
LEMMA RestoresFit ==
  ASSUME FleetInv, Base', NEW o \in Operator, NEW a \in Account, a = call[o].on,
         call[o].pc \in Moving, call[o].kind = "replace", RestorePublished(o),
         UNCHANGED <<published, wire, contended, outdated>>,
         \A b \in Account \ {a} : file'[b] = file[b],
         \/ file' = file
         \/ ~contended[a] /\ ~outdated[a] /\ OneLogin(Known(a)) /\ PairAt(o, a) =>
              OfOneLogin(file'[a])
  PROVE  FleetInv'
<1>1. /\ call[o].pc \notin {"idle", "describing", "retiring", "refreshing", "reloading"}
      /\ AtWork(o, a) /\ call[o] \in Call /\ call \in [Operator -> Call]
      /\ row \in [Account -> Row \cup {Unborn, Removed}]
      /\ lost \in [Account -> BOOLEAN]
  <2>1. call[o].pc \notin {"idle", "describing", "retiring", "refreshing", "reloading"}
    BY DEF Moving, Writing
  <2> QED BY <2>1, WorkerIsBusy DEF FleetInv, Base, AccountsInv, Typed, HistoryTyped
<1>2. CASE ~Exists(a)
  <2>1. /\ Answered(o) /\ lost' = [lost EXCEPT ![a] = TRUE] /\ UNCHANGED <<row, tail>>
    BY <1>2 DEF RestorePublished
  <2>2. lost'[a] /\ \A b \in Account \ {a} : lost'[b] = lost[b]
    BY <1>1, <2>1
  <2> QED BY <1>1, <2>1, <2>2, LeavesFit
<1>3. CASE Exists(a)
  <2>1. /\ row' = [row EXCEPT ![a].health = call[o].before.health]
        /\ call' = [call EXCEPT ![o].pc = "reloading", ![o].before = row'[a]]
        /\ Enqueue(a, "refresh", o) /\ lost' = lost
    BY <1>3 DEF RestorePublished, Observe
  <2>2. /\ OnlyBy(o) /\ call'[o].pc = "reloading" /\ call'[o].on = a
        /\ call'[o].before = row'[a]
        /\ call'[o].kind = call[o].kind /\ call'[o].login = call[o].login
        /\ call'[o].old = call[o].old /\ call'[o].write = call[o].write
        /\ call'[o].undo = call[o].undo
    <3> DEFINE new == row'[a]
    <3>1. call' = [call EXCEPT ![o].pc = "reloading", ![o].before = new]
      BY <2>1
    <3> HIDE DEF new
    <3>2. /\ OnlyBy(o) /\ call'[o].pc = "reloading" /\ call'[o].on = a
          /\ call'[o].before = new
          /\ call'[o].kind = call[o].kind /\ call'[o].login = call[o].login
          /\ call'[o].old = call[o].old /\ call'[o].write = call[o].write
          /\ call'[o].undo = call[o].undo
      BY <1>1, <3>1 DEF OnlyBy, Call
    <3> QED BY <3>2 DEF new
  <2>3. Exists(a)' /\ \A b \in Account \ {a} : row'[b] = row[b]
    <3>1. row[a] \in Row /\ call[o].before.health \in Health
      BY <1>1, <1>3 DEF Exists, Call, Row
    <3>2. [row[a] EXCEPT !.health = call[o].before.health] \in Row
      BY <3>1 DEF Row
    <3>3. row'[a] \in Row /\ \A b \in Account \ {a} : row'[b] = row[b]
      BY <1>1, <2>1, <3>2
    <3> QED BY <3>3, RowsAndPairs DEF Exists
  <2>4. ~contended[a] /\ ~outdated[a] /\ OneLogin(Known(a)) /\ PairAt(o, a) =>
          OfOneLogin(file'[a])
    BY DEF OfOneLogin, OneLogin, Known
  <2> QED BY <1>1, <2>1, <2>2, <2>3, <2>4, AsksForRefresh
<1> QED BY <1>2, <1>3

\* The files that were read are to come back.
LEMMA UndoFits ==
  ASSUME FleetInv, Base', NEW o \in Operator, Undo(o), call[o].kind = "replace",
         \/ call[o].pc \in Moving
         \/ call[o].pc = "answered" /\ ~call[o].ready,
         UNCHANGED <<row, file, published, tail, wire, contended, outdated, lost>>
  PROVE  FleetInv'
<1>1. call[o].pc \notin {"idle", "describing"}
  BY DEF Moving, Writing
<1>a. PICK a \in Account : a = call[o].on
  BY <1>1, WorkerIsBusy
<1>2. call[o] \in Call /\ call \in [Operator -> Call]
  BY DEF FleetInv, Base, AccountsInv, Typed
<1>3. /\ OnlyBy(o) /\ call'[o].pc = "backState" /\ call'[o].on = a
      /\ call'[o].kind = call[o].kind /\ call'[o].login = call[o].login
      /\ call'[o].old = call[o].old /\ call'[o].write = call[o].old
      /\ call'[o].bak = NoFiles
  <2> DEFINE none == NoFiles
  <2>1. call' = [call EXCEPT ![o].pc = "backState", ![o].undo = TRUE,
                             ![o].write = call[o].old, ![o].bak = none]
    BY DEF Undo
  <2> HIDE DEF none
  <2>2. /\ OnlyBy(o) /\ call'[o].pc = "backState" /\ call'[o].on = a
        /\ call'[o].kind = call[o].kind /\ call'[o].login = call[o].login
        /\ call'[o].old = call[o].old /\ call'[o].write = call[o].old
        /\ call'[o].bak = none
    BY <1>2, <1>a, <2>1 DEF OnlyBy, Call
  <2> QED BY <2>2 DEF none
<1>4. ASSUME OneLogin(Known(a)), PairAt(o, a)
      PROVE  OfOneLogin(file'[a]) /\ PairAt(o, a)'
  <2>1. OfOneLogin(file[a]) /\ OfOneLogin(call[o].old)
    BY <1>4 DEF OneLogin, OfOneLogin, Known, PairAt
  <2>2. /\ RolledBack(o)'.state = file[a].state
        /\ RolledBack(o)'.profile = file[a].profile
    BY <1>3 DEF RolledBack, NoFiles
  <2>3. OfOneLogin(RolledBack(o)')
    BY <2>1, <2>2 DEF OfOneLogin
  <2> QED BY <1>3, <2>1, <2>3 DEF PairAt
<1>5. call'[o].pc \in Moving \ {"reading"}
  BY <1>3 DEF Moving, Writing
<1> QED BY <1>3, <1>4, <1>5, <1>a, PairGoesOn

\* An import disables the account it has made, to remove it.
LEMMA DisownFits ==
  ASSUME FleetInv, Base', NEW o \in Operator, NEW a \in Account, a = call[o].on,
         Disown(o), call[o].kind = "import",
         \/ call[o].pc \in Moving
         \/ call[o].pc = "answered" /\ ~call[o].ready,
         UNCHANGED <<published, tail, wire, contended, outdated, lost>>,
         \A b \in Account \ {a} : file'[b] = file[b],
         \/ file' = file
         \/ /\ call[o].pc \in Moving
            /\ ~contended[a] /\ ~outdated[a] /\ OneLogin(Known(a)) /\ PairAt(o, a) =>
                 OfOneLogin(file'[a])
  PROVE  FleetInv'
<1>1. /\ call[o].pc \notin {"idle", "describing", "retiring", "refreshing", "reloading"}
      /\ AtWork(o, a) /\ KindOf(o) /\ call[o] \in Call /\ call \in [Operator -> Call]
      /\ row \in [Account -> Row \cup {Unborn, Removed}]
  <2>1. call[o].pc \notin {"idle", "describing", "retiring", "refreshing", "reloading"}
    BY DEF Moving, Writing
  <2> QED BY <2>1, WorkerIsBusy, AtAccount DEF FleetInv, Base, AccountsInv, Typed
<1>2. Exists(a) /\ row[a] \in Row
  BY <1>1 DEF FleetInv, Base, AccountsInv, Imports, Importing, Exists
<1>3. /\ OnlyBy(o) /\ call'[o].pc = "removing" /\ call'[o].on = a
      /\ call'[o].kind = call[o].kind /\ call'[o].login = call[o].login
      /\ call'[o].old = call[o].old /\ call'[o].write = call[o].write
      /\ call'[o].undo = call[o].undo
  BY <1>1 DEF Disown, Proceed, OnlyBy, Call
<1>4. /\ \A b \in Account \ {a} : row'[b] = row[b]
      /\ row'[a] \in Row /\ row'[a].enabled = FALSE /\ row'[a].health = row[a].health
  <2>1. [row[a] EXCEPT !.enabled = FALSE] \in Row
    BY <1>2 DEF Row
  <2>2. row'[a] = [row[a] EXCEPT !.enabled = FALSE]
    BY <1>1 DEF Disown
  <2>3. \A b \in Account \ {a} : row'[b] = row[b]
    BY <1>1 DEF Disown
  <2> QED BY <1>2, <2>1, <2>2, <2>3 DEF Row
<1>5. Exists(a)' /\ row'[a] # Usable
  BY <1>4, RowsAndPairs DEF Exists, Usable
<1>6. OnlyAt(a) /\ LineAt(a)'
  BY <1>1, <1>3, <1>4, LineStands DEF OnlyAt
<1>7. OwedAt(a)' /\ KindOf(o)'
  BY <1>1, <1>3, <1>5 DEF OwedAt, KindOf
<1>8. ASSUME ~contended[a]
      PROVE  tail[a] = <<>> /\ WorkerAt(o, a) /\ published[a] = NoRuntime
  BY <1>1, <1>8, AtAccount DEF WorkerAt, Withdrawn
<1>9. ASSUME ~contended[a]
      PROVE  /\ (~Exists(a) => published[a] = NoRuntime /\ tail[a] = <<>>)'
             /\ (Listed(a) => row[a] = Usable \/ Pending(a))'
             /\ (AtWork(o, a) => WorkerAt(o, a))'
  BY <1>3, <1>5, <1>8, <1>9 DEF WorkerAt, Listed
<1>10. ASSUME ~contended[a], ~outdated'[a]
       PROVE  /\ OneLogin(Known(a))'
              /\ \A w \in wire'[a] : w.by = "published" =>
                   published'[a] # NoRuntime /\ w.login = published'[a].login
              /\ (AtWork(o, a) => PairAt(o, a))'
  <2>1. /\ OneLogin(Known(a)) /\ PairAt(o, a)
        /\ \A w \in wire[a] : w.by = "published" =>
             published[a] # NoRuntime /\ w.login = published[a].login
    BY <1>1, <1>10, AtAccount
  <2>2. OneLogin(Known(a)')
    <3>1. CASE file' = file
      <4>1. Known(a)' = Known(a)
        BY <3>1 DEF Known, Session, Loaded
      <4> QED BY <2>1, <4>1
    <3>2. CASE OfOneLogin(file'[a])
      <4>1. Known(a)' = file'[a].state \cup file'[a].profile
        BY <1>8, <1>10 DEF Known, Session, Loaded
      <4> QED BY <3>2, <4>1 DEF OfOneLogin
    <3> QED BY <1>10, <2>1, <3>1, <3>2
  <2>3. PairAt(o, a)'
    BY <1>3, <2>1 DEF PairAt, Writing
  <2> QED BY <2>1, <2>2, <2>3
<1> QED BY <1>1, <1>3, <1>6, <1>7, <1>9, <1>10, WorkerStep

LEMMA PairFailsFits ==
  ASSUME FleetInv, Base', NEW o \in Operator, PairFails(o)
  PROVE  FleetInv'
<1>a. PICK a \in Account : a = call[o].on
  BY WorkerIsBusy DEF PairFails, Writing
<1>1. /\ UNCHANGED <<published, wire, contended, outdated>> /\ call[o].pc \in Writing
      /\ file' = [file EXCEPT ![a] = RolledBack(o)]
  BY <1>a DEF PairFails
<1>2. /\ file'[a] = RolledBack(o) /\ \A b \in Account \ {a} : file'[b] = file[b]
  BY <1>1 DEF FleetInv, Base, AccountsInv, Typed
<1>3. PairAt(o, a) => OfOneLogin(file'[a])
  BY <1>1, <1>2 DEF PairAt
<1>4. call[o].pc \in Moving
  BY <1>1 DEF Moving
<1>5. AtWork(o, a)
  BY <1>1, <1>a, WorkerIsBusy DEF Writing
<1>6. CASE call[o].kind = "import" /\ Disown(o) /\ UNCHANGED <<tail, lost>>
  BY <1>1, <1>2, <1>3, <1>4, <1>6, <1>a, DisownFits
<1>7. CASE call[o].kind = "replace" /\ RestorePublished(o)
  BY <1>1, <1>2, <1>3, <1>4, <1>7, <1>a, RestoresFit
<1>8. CASE GivesUp(o)
  <2>1. /\ Answered(o) /\ UNCHANGED <<row, tail>> /\ lost'[a]
        /\ \A b \in Account \ {a} : lost'[b] = lost[b]
    BY <1>8, <1>a DEF GivesUp, FleetInv, Base, HistoryTyped
  <2>2. call[o].pc \notin {"retiring", "refreshing", "reloading"}
    BY <1>1 DEF Writing
  <2> QED BY <1>1, <1>2, <1>3, <1>4, <1>5, <2>1, <2>2, LeavesFit
<1> QED BY <1>6, <1>7, <1>8 DEF PairFails

LEMMA CleanupFailsFits ==
  ASSUME FleetInv, Base', NEW o \in Operator, CleanupFails(o)
  PROVE  FleetInv'
<1>a. PICK a \in Account : a = call[o].on
  BY WorkerIsBusy DEF CleanupFails
<1>1. /\ UNCHANGED <<file, published, wire, contended, outdated>>
      /\ call[o].pc = "written"
  BY DEF CleanupFails
<1>2. call[o].pc \in Moving
  BY <1>1 DEF Moving
<1>3. AtWork(o, a)
  BY <1>1, <1>a, WorkerIsBusy
<1>4. CASE call[o].kind = "import" /\ Disown(o) /\ UNCHANGED <<tail, lost>>
  BY <1>1, <1>2, <1>4, <1>a, DisownFits
<1>5. CASE call[o].kind = "replace" /\ Undo(o) /\ UNCHANGED <<row, tail, lost>>
  BY <1>1, <1>2, <1>5, UndoFits
<1>6. CASE GivesUp(o)
  <2>1. /\ Answered(o) /\ UNCHANGED <<row, tail>> /\ lost'[a]
        /\ \A b \in Account \ {a} : lost'[b] = lost[b]
    BY <1>6, <1>a DEF GivesUp, FleetInv, Base, HistoryTyped
  <2> QED BY <1>1, <1>3, <2>1, LeavesFit
<1> QED BY <1>4, <1>5, <1>6 DEF CleanupFails

LEMMA RefreshedNotReadyFits ==
  ASSUME FleetInv, Base', NEW o \in Operator, RefreshedNotReady(o)
  PROVE  FleetInv'
<1>a. PICK a \in Account : a = call[o].on
  BY WorkerIsBusy DEF RefreshedNotReady
<1>1. /\ UNCHANGED <<file, published, tail, wire, contended, outdated, lost>>
      /\ call[o].pc = "answered" /\ ~call[o].ready
  BY DEF RefreshedNotReady, accountsHistory
<1>2. CASE call[o].kind = "import" /\ Disown(o)
  BY <1>1, <1>2, <1>a, DisownFits
<1>3. CASE call[o].kind = "replace" /\ Undo(o) /\ row' = row
  BY <1>1, <1>3, UndoFits
<1> QED BY <1>2, <1>3 DEF RefreshedNotReady

LEMMA PairWrittenFits ==
  ASSUME FleetInv, Base', NEW o \in Operator, PairWritten(o)
  PROVE  FleetInv'
<1>a. PICK a \in Account : a = call[o].on
  BY WorkerIsBusy DEF PairWritten
<1>1. /\ UNCHANGED <<file, published, wire, contended, outdated>>
      /\ call[o].pc = "written"
  BY DEF PairWritten
<1>2. /\ call[o].pc \in Moving /\ call[o] \in Call /\ call \in [Operator -> Call]
      /\ row \in [Account -> Row \cup {Unborn, Removed}] /\ KindOf(o) /\ AtWork(o, a)
  BY <1>1, <1>a, WorkerIsBusy DEF FleetInv, Base, AccountsInv, Typed, Moving
<1>3. CASE /\ ~call[o].undo /\ Exists(a)
           /\ row' = [row EXCEPT ![a].health = "ready",
                                 ![a].enabled = @ \/ call[o].kind = "import"]
           /\ Proceed(o, "refreshing") /\ Enqueue(a, "refresh", o) /\ lost' = lost
  <2>1. /\ OnlyBy(o) /\ call'[o].pc = "refreshing" /\ call'[o].on = a
        /\ call'[o].kind = call[o].kind /\ call'[o].login = call[o].login
        /\ call'[o].old = call[o].old /\ call'[o].write = call[o].write
        /\ call'[o].undo = call[o].undo
    BY <1>2, <1>3, <1>a DEF Proceed, OnlyBy, Call
  <2>2. Exists(a)' /\ \A b \in Account \ {a} : row'[b] = row[b]
    <3>1. row[a] \in Row /\ row'[a] = [row[a] EXCEPT !.health = "ready",
                            !.enabled = row[a].enabled \/ call[o].kind = "import"]
      BY <1>2, <1>3 DEF Exists
    <3>2. row'[a] \in Row
      BY <3>1 DEF Row, Health
    <3>3. \A b \in Account \ {a} : row'[b] = row[b]
      BY <1>2, <1>3
    <3> QED BY <3>2, <3>3, RowsAndPairs DEF Exists
  <2>3. OneLogin(Known(a)) => OfOneLogin(file'[a])
    BY <1>1 DEF OfOneLogin, OneLogin, Known
  <2> QED BY <1>1, <1>2, <1>3, <1>a, <2>1, <2>2, <2>3, AsksForRefresh
<1>4. CASE ~call[o].undo /\ ~Exists(a) /\ Undo(o) /\ UNCHANGED <<row, tail, lost>>
  <2>1. call[o].kind = "replace"
    <3>1. call[o].kind = "import" => Exists(a)
      BY <1>1, <1>a DEF FleetInv, Base, AccountsInv, Imports, Importing
    <3> QED BY <1>1, <1>2, <1>4, <3>1 DEF KindOf
  <2> QED BY <1>1, <1>2, <1>4, <2>1, UndoFits
<1>5. CASE call[o].undo /\ RestorePublished(o)
  <2>1. call[o].kind = "replace"
    BY <1>2, <1>5 DEF KindOf
  <2> QED BY <1>1, <1>2, <1>5, <1>a, <2>1, RestoresFit
<1> QED BY <1>3, <1>4, <1>5, <1>a DEF PairWritten

\* A step at one account.
LEMMA StepAt ==
  ASSUME FleetInv, Base', NEW a \in Account, OnlyAt(a),
         \A q \in Operator : KindOf(q)',
         \A q \in Operator : \A b \in Account \ {a} :
           AtWork(q, b) \/ AtWork(q, b)' => call'[q] = call[q],
         FitsAt(a)'
  PROVE  FleetInv'
<1>1. ASSUME NEW b \in Account \ {a} PROVE FitsAt(b)'
  BY ElsewhereFits DEF FleetInv, OnlyAt
<1> QED BY <1>1 DEF FleetInv

-----------------------------------------------------------------------------
(* Import. *)

LEMMA AskImportFits ==
  ASSUME FleetInv, Base', NEW o \in Operator, AskImport(o)
  PROVE  FleetInv'
<1>1. /\ UNCHANGED <<row, file, published, tail, wire, contended, outdated, lost>>
      /\ call[o].pc = "idle" /\ call \in [Operator -> Call]
  BY DEF AskImport, accountsHistory, FleetInv, Base, AccountsInv, Typed
<1> DEFINE Asked(l) == [NoCall(call[o].on) EXCEPT !.pc = "describing",
                          !.kind = "import", !.login = {l}]
<1>2. PICK l \in Login : call' = [call EXCEPT ![o] = Asked(l)]
  BY Zenon DEF AskImport
<1>3. /\ OnlyBy(o) /\ call'[o].pc = "describing" /\ call'[o].kind = "import"
      /\ call'[o].login = {l} /\ call'[o].undo = FALSE
      /\ call'[o].old = NoFiles /\ call'[o].bak = NoFiles
  BY <1>1, <1>2 DEF OnlyBy, NoCall
<1>4. KindOf(o)'
  BY <1>3 DEF KindOf, OneLogin
<1>5. \A b \in Account : ~AtWork(o, b) /\ ~AtWork(o, b)'
  BY <1>1, <1>3 DEF AtWork, Importing
<1> QED BY <1>1, <1>3, <1>4, <1>5, BystanderStep

LEMMA AskReplaceFits ==
  ASSUME FleetInv, Base', NEW o \in Operator, NEW a \in Account, AskReplace(o, a)
  PROVE  FleetInv'
<1>1. /\ UNCHANGED <<row, file, published, tail, wire, outdated, lost>>
      /\ call[o].pc = "idle" /\ call \in [Operator -> Call] /\ Exists(a)
  BY DEF AskReplace, FleetInv, Base, AccountsInv, Typed
<1> DEFINE Asked(l) == [NoCall(a) EXCEPT !.pc = "describing",
                          !.kind = "replace", !.login = {l}, !.before = row[a]]
<1>2. PICK l \in Login : call' = [call EXCEPT ![o] = Asked(l)]
  BY Zenon DEF AskReplace
<1>3. /\ OnlyBy(o) /\ call'[o].pc = "describing" /\ call'[o].kind = "replace"
      /\ call'[o].on = a /\ call'[o].login = {l} /\ call'[o].undo = FALSE
      /\ call'[o].old = NoFiles /\ call'[o].write = NoFiles
      /\ call'[o].bak = NoFiles
  BY <1>1, <1>2 DEF OnlyBy, NoCall
<1>4. KindOf(o)'
  BY <1>3 DEF KindOf, OneLogin
<1>5. \A q \in Operator : KindOf(q)'
  <2>1. \A q \in Operator \ {o} : call'[q] = call[q] /\ KindOf(q)
    BY <1>3 DEF FleetInv, OnlyBy
  <2> QED BY <1>1, <1>4, <2>1 DEF KindOf
<1>6. /\ \A b \in Account : ~AtWork(o, b)
      /\ \A b \in Account \ {a} : ~AtWork(o, b)'
  BY <1>1, <1>3 DEF AtWork
<1>7. /\ \A b \in Account \ {a} : contended'[b] = contended[b]
      /\ contended'[a] = (contended[a] \/ tail[a] # <<>> \/ Busy(a) # {})
  <2>1. contended \in [Account -> BOOLEAN]
    BY DEF FleetInv, Base, HistoryTyped
  <2>2. contended' = [contended EXCEPT ![a] = @ \/ tail[a] # <<>> \/ Busy(a) # {}]
    BY DEF AskReplace
  <2> QED BY <2>1, <2>2
<1>8. OnlyAt(a)
  BY <1>1, <1>7 DEF OnlyAt
<1>9. LineAt(a) /\ OwedAt(a) /\ AloneAt(a) /\ CookiesAt(a)
  BY DEF FleetInv, FitsAt
<1>10. \A q \in Operator \ {o} : call'[q] = call[q] /\ (AtWork(q, a)' <=> AtWork(q, a))
  BY <1>3 DEF AtWork, Importing, OnlyBy
<1>11. LineAt(a)'
  <2>1. call[o].pc \notin {"retiring", "refreshing", "reloading"}
    BY <1>1
  <2> QED BY <1>1, <1>3, <2>1, LineStands
<1>12. OwedAt(a)'
  <2>1. call[o].pc \notin Moving
    BY <1>1 DEF Moving, Writing
  <2>2. \A q \in Operator : call[q].pc \in Moving => call'[q] = call[q]
    BY <1>10, <2>1
  <2> QED BY <1>1, <1>9, <2>2 DEF OwedAt, Pending
<1>13. ~contended'[a] =>
         /\ ~contended[a] /\ tail[a] = <<>>
         /\ \A q \in Operator \ {o} : ~AtWork(q, a)'
  <2>1. \A q \in Operator : AtWork(q, a) => q \in Busy(a)
    BY DEF AtWork, Busy
  <2> QED BY <1>7, <1>10, <2>1
<1>14. AloneAt(a)'
  <2>1. ~Withdrawn(o)'
    BY <1>3 DEF Withdrawn, Moving, Writing
  <2>2. ~contended'[a] => WorkerAt(o, a)'
    BY <1>1, <1>3, <1>13, <2>1 DEF WorkerAt, Exists
  <2>3. Listed(a)' = Listed(a) /\ Pending(a)' = Pending(a) /\ Exists(a)'
    BY <1>1 DEF Listed, Pending, Exists
  <2> QED BY <1>1, <1>9, <1>13, <2>2, <2>3 DEF AloneAt
<1>15. CookiesAt(a)'
  <2>1. Known(a)' = Known(a)
    BY <1>1 DEF Known, Session, Loaded
  <2>2. OfOneLogin(NoFiles)
    BY DEF OfOneLogin, OneLogin, NoFiles
  <2>3. PairAt(o, a)'
    BY <1>3, <2>2 DEF PairAt, Writing
  <2> QED BY <1>1, <1>9, <1>13, <2>1, <2>3 DEF CookiesAt
<1>16. FitsAt(a)'
  BY <1>11, <1>12, <1>14, <1>15 DEF FitsAt
<1>17. \A q \in Operator : \A b \in Account \ {a} :
         AtWork(q, b) \/ AtWork(q, b)' => call'[q] = call[q]
  BY <1>6, <1>10
<1> QED BY <1>5, <1>8, <1>16, <1>17, StepAt

\* An import makes its account: nobody works on one that is not there.
LEMMA ImportDescribedFits ==
  ASSUME FleetInv, Base', NEW o \in Operator, ImportDescribed(o)
  PROVE  FleetInv'
<1>1. /\ UNCHANGED <<file, published, tail, wire, contended, outdated, lost>>
      /\ call[o].pc = "describing" /\ call[o].kind = "import"
      /\ call \in [Operator -> Call] /\ call[o] \in Call /\ KindOf(o)
  BY DEF ImportDescribed, accountsHistory, FleetInv, Base, AccountsInv, Typed
<1>2. PICK a \in Account :
        /\ row[a] = Unborn /\ row' = [row EXCEPT ![a] = Fresh]
        /\ call' = [call EXCEPT ![o].pc = "backState", ![o].on = a,
                                ![o].write = BothFiles(call[o].login)]
  BY Zenon DEF ImportDescribed
<1>3. /\ OnlyBy(o) /\ call'[o].pc = "backState" /\ call'[o].kind = "import"
      /\ call'[o].on = a /\ call'[o].login = call[o].login
      /\ call'[o].undo = call[o].undo /\ call'[o].old = call[o].old
      /\ call'[o].write = BothFiles(call[o].login)
      /\ call'[o].bak = call[o].bak
  BY <1>1, <1>2 DEF OnlyBy, Call
<1>4. \A q \in Operator : KindOf(q)'
  <2>1. \A q \in Operator \ {o} : call'[q] = call[q] /\ KindOf(q)
    BY <1>3 DEF FleetInv, OnlyBy
  <2>2. KindOf(o)'
    BY <1>1, <1>3 DEF KindOf
  <2> QED BY <1>1, <2>1, <2>2 DEF KindOf
<1>5. /\ \A b \in Account : ~AtWork(o, b)
      /\ \A b \in Account \ {a} : ~AtWork(o, b)'
  BY <1>1, <1>3 DEF AtWork, Importing
<1>6. /\ row'[a] = Fresh /\ Fresh \in Row /\ ~Exists(a) /\ Exists(a)' /\ Fresh # Usable
      /\ \A b \in Account \ {a} : row'[b] = row[b]
  <2>1. row'[a] = Fresh /\ \A b \in Account \ {a} : row'[b] = row[b]
    BY <1>2 DEF FleetInv, Base, AccountsInv, Typed
  <2> QED BY <1>2, <2>1, RowsAndPairs DEF Exists, Fresh, Usable
<1>7. OnlyAt(a)
  BY <1>1, <1>6 DEF OnlyAt
<1>8. LineAt(a) /\ AloneAt(a) /\ CookiesAt(a)
  BY DEF FleetInv, FitsAt
<1>9. \A q \in Operator \ {o} : call'[q] = call[q] /\ (AtWork(q, a)' <=> AtWork(q, a))
  BY <1>3 DEF AtWork, Importing, OnlyBy
<1>10. LineAt(a)'
  BY <1>1, <1>3, LineStands
<1>11. OwedAt(a)'
  BY <1>6 DEF OwedAt
<1>12. ~contended[a] =>
         /\ published[a] = NoRuntime /\ tail[a] = <<>>
         /\ \A q \in Operator \ {o} : ~AtWork(q, a)'
  BY <1>6, <1>8, <1>9 DEF AloneAt, WorkerAt
<1>13. AloneAt(a)'
  <2>1. ~contended[a] => WorkerAt(o, a)'
    BY <1>1, <1>3, <1>6, <1>12 DEF WorkerAt
  <2>2. ~contended[a] => ~Listed(a)'
    BY <1>1, <1>12 DEF Listed
  <2> QED BY <1>1, <1>6, <1>12, <2>1, <2>2 DEF AloneAt
<1>14. CookiesAt(a)'
  <2>1. Known(a)' = Known(a)
    BY <1>1 DEF Known, Session, Loaded
  <2>2. OfOneLogin(NoFiles) /\ OfOneLogin(BothFiles(call[o].login))
    BY <1>1 DEF OfOneLogin, OneLogin, NoFiles, BothFiles, KindOf
  <2>3. call[o].old = NoFiles /\ call[o].bak = NoFiles
    BY <1>1 DEF KindOf
  <2>4. /\ RolledBack(o)'.state = file[a].state
        /\ RolledBack(o)'.profile = file[a].profile
    BY <1>1, <1>3, <2>3 DEF RolledBack, NoFiles
  <2>5. OneLogin(Known(a)) => OfOneLogin(RolledBack(o)')
    BY <2>4 DEF OfOneLogin, OneLogin, Known
  <2>6. OneLogin(Known(a)) => PairAt(o, a)'
    BY <1>3, <2>2, <2>3, <2>5 DEF PairAt
  <2> QED BY <1>1, <1>8, <1>12, <2>1, <2>6 DEF CookiesAt
<1>15. FitsAt(a)'
  BY <1>10, <1>11, <1>13, <1>14 DEF FitsAt
<1>16. \A q \in Operator : \A b \in Account \ {a} :
         AtWork(q, b) \/ AtWork(q, b)' => call'[q] = call[q]
  BY <1>5, <1>9
<1> QED BY <1>4, <1>7, <1>15, <1>16, StepAt

LEMMA RemoveImportedFits ==
  ASSUME FleetInv, Base', NEW o \in Operator, RemoveImported(o)
  PROVE  FleetInv'
<1>a. PICK a \in Account : a = call[o].on
  BY WorkerIsBusy DEF RemoveImported
<1>1. /\ UNCHANGED <<published, tail, wire, contended, outdated, lost>>
      /\ call[o].pc = "removing" /\ Answered(o)
      /\ file' = [file EXCEPT ![a] = NoFiles] /\ row' = [row EXCEPT ![a] = Removed]
  BY <1>a DEF RemoveImported, accountsHistory
<1>2. AtWork(o, a) /\ ~AtWork(o, a)' /\ OnlyBy(o) /\ call'[o].on = a /\ KindOf(o)'
  BY <1>1, <1>a, WorkerIsBusy, AnsweredCall
<1>3. /\ file'[a] = NoFiles /\ row'[a] = Removed
      /\ \A b \in Account \ {a} : file'[b] = file[b] /\ row'[b] = row[b]
  BY <1>1 DEF FleetInv, Base, AccountsInv, Typed
<1>4. ~Exists(a)' /\ row'[a] # Usable
  <2>1. Usable \in Row
    BY DEF Usable, Row, Health
  <2> QED BY <1>3, <2>1, RowsAndPairs DEF Exists
<1>5. OnlyAt(a) /\ LineAt(a)' /\ OwedAt(a)'
  BY <1>1, <1>2, <1>3, <1>4, LineStands DEF OnlyAt, OwedAt
<1>6. ~contended[a] => published[a] = NoRuntime /\ tail[a] = <<>>
  BY <1>1, <1>2, AtAccount DEF WorkerAt, Withdrawn
<1>7. ~contended[a] =>
           /\ (~Exists(a) => published[a] = NoRuntime /\ tail[a] = <<>>)'
           /\ (Listed(a) => row[a] = Usable \/ Pending(a))'
           /\ (AtWork(o, a) => WorkerAt(o, a))'
  BY <1>1, <1>2, <1>6 DEF Listed
<1>8. ~contended[a] /\ ~outdated'[a] =>
           /\ OneLogin(Known(a))'
           /\ \A w \in wire'[a] : w.by = "published" =>
                published'[a] # NoRuntime /\ w.login = published'[a].login
           /\ (AtWork(o, a) => PairAt(o, a))'
  <2>1. ~contended[a] /\ ~outdated[a] =>
          \A w \in wire[a] : w.by = "published" =>
             published[a] # NoRuntime /\ w.login = published[a].login
    BY <1>2, AtAccount
  <2>2. ~contended[a] => Known(a)' = {}
    BY <1>1, <1>3, <1>6 DEF Known, Session, Loaded, NoFiles
  <2> QED BY <1>1, <1>2, <2>1, <2>2 DEF OneLogin
<1> QED BY <1>1, <1>2, <1>5, <1>7, <1>8, WorkerStep

\* The runtime is listed as the row was when the request came.
LEMMA ReloadedFits ==
  ASSUME FleetInv, Base', NEW o \in Operator, Reloaded(o)
  PROVE  FleetInv'
<1>a. PICK a \in Account : a = call[o].on
  BY WorkerIsBusy DEF Reloaded
<1>1. /\ UNCHANGED <<row, file, tail, wire, contended, outdated, lost>>
      /\ call[o].pc = "reloaded" /\ Answered(o)
      /\ published \in [Account -> Runtime \cup {NoRuntime}]
      /\ row \in [Account -> Row \cup {Unborn, Removed}]
  BY DEF Reloaded, accountsHistory, FleetInv, Base, AccountsInv, Typed
<1>2. /\ AtWork(o, a) /\ ~AtWork(o, a)' /\ OnlyBy(o) /\ call'[o].on = a /\ KindOf(o)'
      /\ call[o] \in Call
  BY <1>1, <1>a, WorkerIsBusy, AnsweredCall
<1>3. \/ published' = published
      \/ /\ published[a] # NoRuntime
         /\ ~(call[o].before.health = "ready" /\ ~call[o].ready)
         /\ published' = [published EXCEPT ![a].row = call[o].before]
  BY <1>a DEF Reloaded
<1>4. /\ \A b \in Account \ {a} : published'[b] = published[b]
      /\ published[a] # NoRuntime <=> published'[a] # NoRuntime
      /\ published[a] # NoRuntime => published'[a].login = published[a].login
  <2>1. CASE published' = published
    BY <2>1
  <2>2. CASE /\ published[a] # NoRuntime
             /\ published' = [published EXCEPT ![a].row = call[o].before]
    <3>1. published[a] \in Runtime
      BY <1>1, <2>2
    <3>2. [published[a] EXCEPT !.row = call[o].before] \in Runtime
      BY <1>2, <3>1 DEF Runtime, Call
    <3>3. published'[a] = [published[a] EXCEPT !.row = call[o].before]
          /\ \A b \in Account \ {a} : published'[b] = published[b]
      BY <1>1, <2>2
    <3> QED BY <2>2, <3>1, <3>2, <3>3, RowsAndPairs DEF Runtime
  <2> QED BY <1>3, <2>1, <2>2
<1>5. OnlyAt(a) /\ LineAt(a)'
  BY <1>1, <1>2, <1>4, LineStands DEF OnlyAt
<1>6. OwedAt(a)'
  <2>1. call[o].pc \notin Moving
    BY <1>1 DEF Moving, Writing
  <2> QED BY <1>1, <1>2, <1>4, <2>1, OwedStands
<1>7. ASSUME ~contended[a]
      PROVE  /\ (~Exists(a) => published[a] = NoRuntime /\ tail[a] = <<>>)'
             /\ (Listed(a) => row[a] = Usable \/ Pending(a))'
             /\ (AtWork(o, a) => WorkerAt(o, a))'
  <2>1. /\ WorkerAt(o, a) /\ (Listed(a) => row[a] = Usable \/ Pending(a))
    BY <1>2, <1>7, AtAccount
  <2>2. Exists(a)'
    BY <1>1, <2>1 DEF WorkerAt, Exists
  <2>3. (Listed(a) => row[a] = Usable \/ Pending(a))'
    <3>1. CASE published' = published
      BY <1>1, <2>1, <3>1 DEF Listed, Pending
    <3>2. CASE /\ published[a] # NoRuntime
               /\ ~(call[o].before.health = "ready" /\ ~call[o].ready)
               /\ published' = [published EXCEPT ![a].row = call[o].before]
      <4>1. published[a] \in Runtime
        BY <1>1, <3>2
      <4>2. published'[a].row = call[o].before
        BY <1>1, <3>2, <4>1 DEF Runtime
      <4>3. ASSUME Listed(a)' PROVE row[a] = Usable
        <5>1. call[o].before = Usable
          BY <4>2, <4>3 DEF Listed, Usable
        <5>2. row[a] \in Row
          BY <1>1, <2>1 DEF WorkerAt, Exists
        <5>3. row[a].enabled = TRUE /\ row[a].health = "ready"
          <6>1. call[o].before.enabled = TRUE /\ call[o].before.health = "ready"
            BY <5>1 DEF Usable
          <6>2. call[o].ready = TRUE
            BY <1>2, <3>2, <6>1 DEF Call
          <6> QED BY <1>1, <2>1, <6>1, <6>2 DEF WorkerAt
        <5> QED BY <5>2, <5>3 DEF Row, Usable
      <4> QED BY <1>1, <4>3
    <3> QED BY <1>3, <3>1, <3>2
  <2> QED BY <1>2, <2>2, <2>3
<1>8. ASSUME ~contended[a], ~outdated'[a]
      PROVE  /\ OneLogin(Known(a))'
             /\ \A w \in wire'[a] : w.by = "published" =>
                  published'[a] # NoRuntime /\ w.login = published'[a].login
             /\ (AtWork(o, a) => PairAt(o, a))'
  <2>1. /\ OneLogin(Known(a))
        /\ \A w \in wire[a] : w.by = "published" =>
             published[a] # NoRuntime /\ w.login = published[a].login
    BY <1>1, <1>2, <1>8, AtAccount
  <2>2. Known(a)' = Known(a)
    BY <1>1, <1>4 DEF Known, Session, Loaded
  <2> QED BY <1>1, <1>2, <1>4, <2>1, <2>2
<1> QED BY <1>1, <1>2, <1>4, <1>5, <1>6, <1>7, <1>8, WorkerStep

-----------------------------------------------------------------------------
(* The refreshes. *)

\* What is left in line when its head has gone.
LEMMA LineMovesUp ==
  ASSUME FleetInv, NEW a \in Account, tail[a] # <<>>,
         tail' = [tail EXCEPT ![a] = Tail(@)]
  PROVE  /\ \A b \in Account \ {a} : tail'[b] = tail[b]
         /\ 1 \in DOMAIN tail[a] /\ Next1(a) = tail[a][1] /\ Next1(a) \in Operation
         /\ \A i \in DOMAIN tail'[a] : /\ i + 1 \in DOMAIN tail[a] /\ i + 1 # 1
                                       /\ tail'[a][i] = tail[a][i + 1] /\ i \in Nat
         /\ \A i \in DOMAIN tail[a] : i # 1 => /\ i - 1 \in DOMAIN tail'[a]
                                               /\ tail'[a][i - 1] = tail[a][i]
         /\ tail'[a] \in Seq(Operation)
         /\ Loaded(a)' \subseteq Loaded(a) /\ Next1(a).login \subseteq Loaded(a)
<1>1. tail[a] \in Seq(Operation) /\ tail' = [tail EXCEPT ![a] = Tail(tail[a])]
      /\ tail \in [Account -> Seq(Operation)]
  BY DEF FleetInv, Base, AccountsInv, Typed
<1>2. tail'[a] = Tail(tail[a]) /\ \A b \in Account \ {a} : tail'[b] = tail[b]
  BY <1>1
<1>3. /\ Len(tail[a]) \in Nat \ {0} /\ DOMAIN tail[a] = 1 .. Len(tail[a])
      /\ DOMAIN Tail(tail[a]) = 1 .. (Len(tail[a]) - 1)
      /\ \A i \in 1 .. (Len(tail[a]) - 1) : Tail(tail[a])[i] = tail[a][i + 1]
      /\ Tail(tail[a]) \in Seq(Operation)
  BY <1>1
<1>4. 1 \in DOMAIN tail[a] /\ Next1(a) = tail[a][1] /\ Next1(a) \in Operation
  BY <1>1, <1>3 DEF Next1
<1>5. \A i \in DOMAIN tail'[a] : /\ i + 1 \in DOMAIN tail[a] /\ i + 1 # 1
                                 /\ tail'[a][i] = tail[a][i + 1] /\ i \in Nat
  <2>1. ASSUME NEW i \in 1 .. (Len(tail[a]) - 1)
        PROVE  i + 1 \in 1 .. Len(tail[a]) /\ i + 1 # 1 /\ i \in Nat
    BY <1>3
  <2> QED BY <1>2, <1>3, <2>1
<1>6. \A i \in DOMAIN tail[a] : i # 1 => /\ i - 1 \in DOMAIN tail'[a]
                                         /\ tail'[a][i - 1] = tail[a][i]
  <2>1. ASSUME NEW i \in 1 .. Len(tail[a]), i # 1
        PROVE  i - 1 \in 1 .. (Len(tail[a]) - 1) /\ (i - 1) + 1 = i
    BY <1>3, <2>1
  <2>2. ASSUME NEW i \in 1 .. Len(tail[a]), i # 1
        PROVE  Tail(tail[a])[i - 1] = tail[a][i]
    <3>1. PICK k : k = i - 1
      OBVIOUS
    <3>2. k \in 1 .. (Len(tail[a]) - 1) /\ k + 1 = i
      BY <2>1, <2>2, <3>1
    <3>3. Tail(tail[a])[k] = tail[a][k + 1]
      BY <1>3, <3>2
    <3> QED BY <3>1, <3>2, <3>3
  <2> QED BY <1>2, <1>3, <2>1, <2>2
<1>7. Loaded(a)' \subseteq Loaded(a) /\ Next1(a).login \subseteq Loaded(a)
  BY <1>4, <1>5 DEF Loaded
<1> QED BY <1>2, <1>3, <1>4, <1>5, <1>6, <1>7

\* The head of the line has ended, and its caller goes on if it waited.
LEMMA HeadEnds ==
  ASSUME FleetInv, NEW a \in Account, tail[a] # <<>>, NEW ready \in BOOLEAN,
         Ends(a, ready)
  PROVE  /\ LineAt(a)'
         /\ \A q \in Operator \ {Next1(a).by} : call'[q] = call[q]
         /\ \A q \in Operator : \A b \in Account : AtWork(q, b)' <=> AtWork(q, b)
         /\ \A q \in Operator : q = Next1(a).by =>
              /\ AtWork(q, a) /\ call[q].pc \in Waits(Next1(a).op)
              /\ call[q].pc = "refreshing" => call'[q].pc = "answered"
              /\ call[q].pc = "reloading"  => call'[q].pc = "reloaded"
              /\ call[q].pc = "retiring"   => call'[q].pc = "reading"
              /\ call'[q].ready = ready /\ call'[q].on = call[q].on
              /\ call'[q].kind = call[q].kind /\ call'[q].login = call[q].login
              /\ call'[q].before = call[q].before /\ call'[q].old = call[q].old
              /\ call'[q].write = call[q].write /\ call'[q].undo = call[q].undo
         /\ ~contended[a] => \A q \in Operator : AtWork(q, a) =>
              q = Next1(a).by /\ tail'[a] = <<>>
<1>1. tail' = [tail EXCEPT ![a] = Tail(@)]
  BY DEF Ends
<1>2. /\ 1 \in DOMAIN tail[a] /\ Next1(a) = tail[a][1]
      /\ \A i \in DOMAIN tail'[a] : /\ i + 1 \in DOMAIN tail[a] /\ i + 1 # 1
                                    /\ tail'[a][i] = tail[a][i + 1] /\ i \in Nat
      /\ tail'[a] \in Seq(Operation)
  BY <1>1, LineMovesUp
<1>3. LineAt(a) /\ AloneAt(a) /\ call \in [Operator -> Call]
  BY DEF FleetInv, FitsAt, Base, AccountsInv, Typed
<1>h. PICK o : o = Next1(a).by
  OBVIOUS
<1>4. o \in Operator => AtWork(o, a) /\ call[o].pc \in Waits(Next1(a).op)
  BY <1>2, <1>3, <1>h DEF LineAt
<1>5. o \in Operator =>
        call[o].pc \in {"refreshing", "reloading", "retiring"}
  BY <1>4 DEF Waits
<1>6. o \notin Operator => call' = call
  BY <1>h, Zenon DEF Ends
<1>7. ASSUME o \in Operator
      PROVE  /\ \A q \in Operator \ {o} : call'[q] = call[q]
             /\ call[o].pc = "refreshing" => call'[o].pc = "answered"
             /\ call[o].pc = "reloading"  => call'[o].pc = "reloaded"
             /\ call[o].pc = "retiring"   => call'[o].pc = "reading"
             /\ call'[o].ready = ready /\ call'[o].on = call[o].on
             /\ call'[o].kind = call[o].kind /\ call'[o].login = call[o].login
             /\ call'[o].before = call[o].before /\ call'[o].old = call[o].old
             /\ call'[o].write = call[o].write /\ call'[o].undo = call[o].undo
  <2> DEFINE next == CASE o \in Operator /\ call[o].pc = "refreshing" -> "answered"
                       [] o \in Operator /\ call[o].pc = "reloading"  -> "reloaded"
                       [] o \in Operator /\ call[o].pc = "retiring"   -> "reading"
                       [] OTHER -> "idle"
  <2>1. call' = [call EXCEPT ![o].pc = next, ![o].ready = ready]
    BY <1>7, <1>h, Zenon DEF Ends
  <2>2. /\ call[o].pc = "refreshing" => next = "answered"
        /\ call[o].pc = "reloading"  => next = "reloaded"
        /\ call[o].pc = "retiring"   => next = "reading"
    BY <1>7
  <2> HIDE DEF next
  <2>3. call[o] \in Call
    BY <1>3, <1>7
  <2>4. /\ \A q \in Operator \ {o} : call'[q] = call[q]
        /\ call'[o].pc = next
        /\ call'[o].ready = ready /\ call'[o].on = call[o].on
        /\ call'[o].kind = call[o].kind /\ call'[o].login = call[o].login
        /\ call'[o].before = call[o].before /\ call'[o].old = call[o].old
        /\ call'[o].write = call[o].write /\ call'[o].undo = call[o].undo
    BY <1>3, <1>7, <2>1, <2>3 DEF Call
  <2> QED BY <2>2, <2>4
<1>8. \A q \in Operator \ {o} : call'[q] = call[q]
  BY <1>6, <1>7
<1>9. \A q \in Operator : \A b \in Account : AtWork(q, b)' <=> AtWork(q, b)
  <2>1. ASSUME NEW q \in Operator, q # o, NEW b \in Account
        PROVE  AtWork(q, b)' <=> AtWork(q, b)
    BY <1>8, <2>1 DEF AtWork, Importing
  <2>2. ASSUME o \in Operator, NEW b \in Account
        PROVE  AtWork(o, b)' <=> AtWork(o, b)
    BY <1>5, <1>7, <2>2 DEF AtWork, Importing
  <2> QED BY <2>1, <2>2
<1>10. LineAt(a)'
  <2>1. ASSUME NEW i \in DOMAIN tail'[a]
        PROVE  /\ tail'[a][i].op = "retire" => tail'[a][i].by \in Operator
               /\ tail'[a][i].by \in Operator =>
                    /\ AtWork(tail[a][i].by, a)'
                    /\ call'[tail'[a][i].by].pc \in Waits(tail'[a][i].op)
                    /\ \A j \in DOMAIN tail'[a] :
                         tail'[a][j].by = tail'[a][i].by => i = j
    <3>1. PICK q : q = tail[a][i + 1].by
      OBVIOUS
    <3>2. /\ tail'[a][i].by = q /\ tail'[a][i].op = tail[a][i + 1].op
          /\ i + 1 \in DOMAIN tail[a] /\ i + 1 # 1 /\ i \in Nat
      BY <1>2, <3>1
    <3>3. /\ tail[a][i + 1].op = "retire" => q \in Operator
          /\ q \in Operator =>
               /\ AtWork(q, a) /\ call[q].pc \in Waits(tail[a][i + 1].op)
               /\ \A j \in DOMAIN tail[a] : tail[a][j].by = q => i + 1 = j
      BY <1>3, <3>1, <3>2 DEF LineAt
    <3>4. q \in Operator => q # o
      BY <1>2, <1>h, <3>2, <3>3
    <3>5. q \in Operator => AtWork(q, a)' /\ call'[q].pc \in Waits(tail[a][i + 1].op)
      BY <1>8, <1>9, <3>3, <3>4
    <3>6. ASSUME q \in Operator, NEW j \in DOMAIN tail'[a], tail'[a][j].by = q
          PROVE  i = j
      <4>1. j + 1 \in DOMAIN tail[a] /\ tail[a][j + 1].by = q /\ j \in Nat
        BY <1>2, <3>6
      <4> QED BY <3>2, <3>3, <3>6, <4>1
    <3> QED BY <3>2, <3>3, <3>5, <3>6 DEF AtWork, Importing
  <2> QED BY <2>1 DEF LineAt
<1>11. ASSUME ~contended[a], NEW q \in Operator, AtWork(q, a)
       PROVE  q = o /\ tail'[a] = <<>>
  <2>1. \A i \in DOMAIN tail[a] : tail[a][i].by = q
    BY <1>3, <1>11 DEF AloneAt, WorkerAt
  <2>2. q = o
    BY <1>2, <1>h, <2>1
  <2>3. \A i \in DOMAIN tail[a] : 1 = i
    BY <1>2, <1>3, <2>1 DEF LineAt
  <2>4. \A i \in DOMAIN tail'[a] : FALSE
    BY <1>2, <2>3
  <2> QED BY <1>2, <2>2, <2>4
<1> QED BY <1>4, <1>7, <1>8, <1>9, <1>10, <1>11, <1>h

\* A step of the registry: what it does to the account is said by the rest.
LEMMA RegistryStep ==
  ASSUME FleetInv, Base', NEW a \in Account, tail[a] # <<>>, NEW ready \in BOOLEAN,
         Calm, Ends(a, ready),
         \A b \in Account \ {a} :
           row'[b] = row[b] /\ published'[b] = published[b] /\ wire'[b] = wire[b],
         UNCHANGED <<file, contended, outdated, lost>>,
         ready => published'[a] # NoRuntime, OwedAt(a)',
         ~contended[a] =>
           /\ Exists(a)' /\ (Listed(a) => row[a] = Usable \/ Pending(a))'
           /\ \A q \in Operator :
                AtWork(q, a) /\ q = Next1(a).by /\ WorkerAt(q, a) => WorkerAt(q, a)',
         ~contended[a] /\ ~outdated[a] =>
           /\ Session(a)' \subseteq Known(a)
           /\ \A w \in wire'[a] : w.by = "published" =>
                published'[a] # NoRuntime /\ w.login = published'[a].login
  PROVE  FleetInv'
<1>1. /\ LineAt(a)'
      /\ \A q \in Operator \ {Next1(a).by} : call'[q] = call[q]
      /\ \A q \in Operator : \A b \in Account : AtWork(q, b)' <=> AtWork(q, b)
      /\ ~contended[a] => \A q \in Operator : AtWork(q, a) =>
           q = Next1(a).by /\ tail'[a] = <<>>
  BY HeadEnds
<1>2. \A q \in Operator : q = Next1(a).by =>
              /\ AtWork(q, a) /\ call[q].pc \in Waits(Next1(a).op)
              /\ call[q].pc = "refreshing" => call'[q].pc = "answered"
              /\ call[q].pc = "reloading"  => call'[q].pc = "reloaded"
              /\ call[q].pc = "retiring"   => call'[q].pc = "reading"
              /\ call'[q].ready = ready /\ call'[q].on = call[q].on
              /\ call'[q].kind = call[q].kind /\ call'[q].login = call[q].login
              /\ call'[q].old = call[q].old
              /\ call'[q].write = call[q].write /\ call'[q].undo = call[q].undo
  BY HeadEnds
<1>3. /\ \A b \in Account \ {a} : tail'[b] = tail[b]
      /\ Loaded(a)' \subseteq Loaded(a)
  <2>1. tail' = [tail EXCEPT ![a] = Tail(@)]
    BY DEF Ends
  <2> QED BY <2>1, LineMovesUp
<1>4. OnlyAt(a)
  BY <1>3 DEF OnlyAt
<1>5. ASSUME NEW q \in Operator PROVE KindOf(q)'
  <2>1. KindOf(q) /\ call[q].pc # "answered"
    BY DEF FleetInv, Calm
  <2>2. CASE q # Next1(a).by
    <3>1. call'[q] = call[q]
      BY <1>1, <2>2
    <3> QED BY <2>1, <3>1 DEF KindOf
  <2>3. CASE q = Next1(a).by
    <3>1. call[q].pc \in {"refreshing", "reloading", "retiring"} /\ call[q].on = a
      BY <1>2, <2>3 DEF Waits, AtWork
    <3>2. /\ call'[q].pc \in {"answered", "reloaded", "reading"} /\ call'[q].on = a
          /\ call'[q].pc \in {"reloaded", "reading"} =>
               call[q].pc \in {"reloading", "retiring"}
      BY <1>2, <2>3, <3>1
    <3>3. /\ call'[q].ready = ready /\ call'[q].kind = call[q].kind
          /\ call'[q].login = call[q].login /\ call'[q].undo = call[q].undo
      BY <1>2, <2>3
    <3> QED BY <2>1, <3>1, <3>2, <3>3 DEF KindOf
  <2> QED BY <2>2, <2>3
<1>6. \A q \in Operator : \A b \in Account \ {a} :
        AtWork(q, b) \/ AtWork(q, b)' => call'[q] = call[q]
  BY <1>1, <1>2 DEF AtWork
<1>7. AloneAt(a) /\ CookiesAt(a)
  BY DEF FleetInv, FitsAt
<1>8. AloneAt(a)'
  <2>1. ASSUME ~contended[a], NEW q \in Operator, AtWork(q, a)' PROVE WorkerAt(q, a)'
    <3>1. AtWork(q, a) /\ q = Next1(a).by
      BY <1>1, <2>1
    <3>2. WorkerAt(q, a)
      BY <1>7, <2>1, <3>1 DEF AloneAt
    <3> QED BY <2>1, <3>1, <3>2
  <2>2. ~contended[a] => \A q, r \in Operator : AtWork(q, a)' /\ AtWork(r, a)' => q = r
    BY <1>1
  <2> QED BY <2>1, <2>2 DEF AloneAt
<1>9. CookiesAt(a)'
  <2>1. ASSUME ~contended[a], ~outdated[a] PROVE OneLogin(Known(a)')
    <3>1. OneLogin(Known(a))
      BY <1>7, <2>1 DEF CookiesAt
    <3>2. Known(a)' \subseteq Known(a)
      BY <1>3, <2>1 DEF Known
    <3> QED BY <3>1, <3>2 DEF OneLogin
  <2>2. ASSUME ~contended[a], ~outdated[a], NEW q \in Operator, AtWork(q, a)'
        PROVE  PairAt(q, a)'
    <3>1. AtWork(q, a) /\ q = Next1(a).by
      BY <1>1, <2>2
    <3>2. PairAt(q, a)
      BY <1>7, <2>2, <3>1 DEF CookiesAt
    <3>3. call'[q].pc \in {"answered", "reloaded", "reading"}
          /\ call'[q].old = call[q].old /\ call'[q].write = call[q].write
      BY <1>2, <3>1 DEF Waits
    <3> QED BY <3>2, <3>3 DEF PairAt, Writing
  <2> QED BY <2>1, <2>2 DEF CookiesAt
<1>10. FitsAt(a)'
  BY <1>1, <1>8, <1>9 DEF FitsAt
<1> QED BY <1>4, <1>5, <1>6, <1>10, StepAt

\* A usable account exists.
LEMMA UsableExists == \A r \in {Unborn, Removed} : r # Usable
<1>1. Usable \in Row
  BY DEF Usable, Row, Health
<1> QED BY <1>1, RowsAndPairs

\* Nothing is in line for an account that is not there, if it is uncontended.
LEMMA NothingInLine ==
  ASSUME FleetInv, NEW a \in Account, ~Exists(a), tail[a] # <<>>
  PROVE  contended[a] /\ row[a] # Usable
<1>1. contended[a]
  BY DEF FleetInv, FitsAt, AloneAt
<1> QED BY <1>1, UsableExists DEF Exists

LEMMA RefreshOfNothingFits ==
  ASSUME FleetInv, Base', NEW a \in Account, Calm, tail[a] # <<>>, ~Exists(a),
         RefreshOfNothing(a) \/ ObservesNothing(a)
  PROVE  FleetInv'
<1>1. /\ Ends(a, FALSE)
      /\ UNCHANGED <<row, file, wire, contended, outdated, lost>>
      /\ published' = published \/ published' = [published EXCEPT ![a] = NoRuntime]
  BY DEF RefreshOfNothing, ObservesNothing, accountsHistory
<1>2. \A b \in Account \ {a} : published'[b] = published[b]
  BY <1>1 DEF FleetInv, Base, AccountsInv, Typed
<1>3. contended[a] /\ row[a] # Usable
  BY NothingInLine
<1>4. OwedAt(a)'
  BY <1>1, <1>3 DEF OwedAt
<1> QED BY <1>1, <1>2, <1>3, <1>4, RegistryStep

LEMMA RefreshLoadsFits ==
  ASSUME FleetInv, Base', NEW a \in Account, tail[a] # <<>>, RefreshLoads(a)
  PROVE  FleetInv'
<1> DEFINE head == [tail[a][1] EXCEPT !.step = "describe", !.login = file[a].state]
<1>1. UNCHANGED <<row, file, published, wire, call, contended, outdated, lost>>
  BY DEF RefreshLoads, accountsHistory
<1>2. /\ tail \in [Account -> Seq(Operation)] /\ tail[a] \in Seq(Operation)
      /\ 1 \in DOMAIN tail[a] /\ tail[a][1] \in Operation
  <2>1. tail \in [Account -> Seq(Operation)] /\ tail[a] \in Seq(Operation)
    BY DEF FleetInv, Base, AccountsInv, Typed
  <2>2. Len(tail[a]) \in Nat \ {0} /\ DOMAIN tail[a] = 1 .. Len(tail[a])
    BY <2>1
  <2> QED BY <2>1, <2>2
<1>3. tail' = [tail EXCEPT ![a] = [tail[a] EXCEPT ![1] = head]]
  BY Zenon DEF RefreshLoads
<1>4. head.op = tail[a][1].op /\ head.by = tail[a][1].by /\ head.login = file[a].state
  BY <1>2 DEF Operation
<1> HIDE DEF head
<1>5. /\ \A b \in Account \ {a} : tail'[b] = tail[b]
      /\ DOMAIN tail'[a] = DOMAIN tail[a]
      /\ tail'[a][1] = head /\ \A i \in DOMAIN tail[a] : i # 1 => tail'[a][i] = tail[a][i]
  BY <1>2, <1>3
<1>6. \A i \in DOMAIN tail[a] : /\ tail'[a][i].op = tail[a][i].op
                                /\ tail'[a][i].by = tail[a][i].by
                                /\ tail'[a][i].login \subseteq
                                     tail[a][i].login \cup file[a].state
  BY <1>4, <1>5
<1>7. LineAt(a) /\ OwedAt(a) /\ AloneAt(a) /\ CookiesAt(a)
  BY DEF FleetInv, FitsAt
<1>8. \A q \in Operator : \A b \in Account : AtWork(q, b)' <=> AtWork(q, b)
  BY <1>1 DEF AtWork, Importing
<1>9. LineAt(a)'
  BY <1>1, <1>5, <1>6, <1>7 DEF LineAt, AtWork, Importing
<1>10. Pending(a)' <=> Pending(a)
  BY <1>5, <1>6 DEF Pending
<1>11. OwedAt(a)'
  BY <1>1, <1>7, <1>10 DEF OwedAt
<1>12. AloneAt(a)'
  <2>1. \A q \in Operator : WorkerAt(q, a) => WorkerAt(q, a)'
    BY <1>1, <1>5, <1>6 DEF WorkerAt, Exists, Withdrawn
  <2>2. ~Exists(a)' => ~Exists(a)
    BY <1>1 DEF Exists
  <2>3. Listed(a)' => Listed(a)
    BY <1>1 DEF Listed
  <2>4. ~contended[a] => Exists(a)
    BY <1>7 DEF AloneAt
  <2> QED BY <1>1, <1>7, <1>8, <1>10, <2>1, <2>2, <2>3, <2>4 DEF AloneAt
<1>13. CookiesAt(a)'
  <2>1. Known(a)' \subseteq Known(a)
    BY <1>1, <1>5, <1>6 DEF Known, Session, Loaded
  <2>2. OneLogin(Known(a)) => OneLogin(Known(a)')
    BY <2>1 DEF OneLogin
  <2>3. \A q \in Operator : PairAt(q, a) => PairAt(q, a)'
    BY <1>1 DEF PairAt, RolledBack
  <2> QED BY <1>1, <1>7, <1>8, <2>2, <2>3 DEF CookiesAt
<1>14. FitsAt(a)' /\ OnlyAt(a)
  BY <1>1, <1>5, <1>9, <1>11, <1>12, <1>13 DEF FitsAt, OnlyAt
<1>15. \A q \in Operator : KindOf(q)'
  BY <1>1 DEF FleetInv, KindOf
<1> QED BY <1>1, <1>14, <1>15, StepAt

LEMMA RecordsFailureFits ==
  ASSUME FleetInv, Base', NEW a \in Account, Calm, tail[a] # <<>>, Exists(a),
         Next1(a).op = "refresh", NEW health \in {"needs_login", "unhealthy"},
         RecordsFailure(a, health)
  PROVE  FleetInv'
<1>1. /\ Ends(a, FALSE)
      /\ UNCHANGED <<file, wire, contended, outdated, lost>>
      /\ row' = [row EXCEPT ![a].health = health]
      /\ published' = IF published[a] = NoRuntime THEN published
                      ELSE [published EXCEPT ![a].row = row'[a]]
  BY DEF RecordsFailure, Observe, accountsHistory
<1>2. /\ row \in [Account -> Row \cup {Unborn, Removed}] /\ row[a] \in Row
      /\ published \in [Account -> Runtime \cup {NoRuntime}]
      /\ row' \in [Account -> Row \cup {Unborn, Removed}]
  BY DEF FleetInv, Base, AccountsInv, Typed, Exists
<1>3. /\ row'[a] \in Row /\ row'[a].health = health
      /\ row'[a].enabled = row[a].enabled
      /\ \A b \in Account \ {a} : row'[b] = row[b]
  <2>1. [row[a] EXCEPT !.health = health] \in Row
    BY <1>2 DEF Row, Health
  <2>2. row'[a] = [row[a] EXCEPT !.health = health]
        /\ \A b \in Account \ {a} : row'[b] = row[b]
    BY <1>1, <1>2
  <2> QED BY <1>2, <2>1, <2>2 DEF Row
<1>4. row'[a] # Usable /\ Exists(a)'
  BY <1>3, RowsAndPairs DEF Usable, Exists
<1>5. /\ \A b \in Account \ {a} : published'[b] = published[b]
      /\ published[a] = NoRuntime => published'[a] = NoRuntime
      /\ published[a] # NoRuntime =>
           /\ published'[a] # NoRuntime /\ published'[a].row = row'[a]
           /\ published'[a].login = published[a].login
  <2>1. CASE published[a] = NoRuntime
    BY <1>1, <2>1
  <2>2. CASE published[a] # NoRuntime
    <3> DEFINE new == row'[a]
    <3>1. published[a] \in Runtime /\ new \in Row
      BY <1>2, <1>3, <2>2
    <3>2. published' = [published EXCEPT ![a].row = new]
      BY <1>1, <2>2
    <3> HIDE DEF new
    <3>3. [published[a] EXCEPT !.row = new] \in Runtime
      BY <3>1 DEF Runtime
    <3>4. published'[a] = [published[a] EXCEPT !.row = new]
          /\ \A b \in Account \ {a} : published'[b] = published[b]
      BY <1>2, <3>2
    <3>5. published'[a].row = new /\ published'[a].login = published[a].login
      BY <3>1, <3>4 DEF Runtime
    <3> QED BY <2>2, <3>3, <3>4, <3>5, RowsAndPairs DEF new
  <2> QED BY <2>1, <2>2
<1>6. OwedAt(a)'
  BY <1>4 DEF OwedAt
<1>7. ~Listed(a)'
  BY <1>3, <1>5 DEF Listed
<1>8. ASSUME NEW q \in Operator, q = Next1(a).by, WorkerAt(q, a), ~contended[a]
      PROVE  WorkerAt(q, a)'
  <2>1. /\ AtWork(q, a) /\ call[q].pc \in Waits(Next1(a).op)
        /\ call[q].pc = "refreshing" => call'[q].pc = "answered"
        /\ call[q].pc = "reloading"  => call'[q].pc = "reloaded"
        /\ call'[q].ready = FALSE /\ call'[q].before = call[q].before
    BY <1>1, <1>8, HeadEnds
  <2>2. call[q].pc \in {"refreshing", "reloading"}
    BY <2>1 DEF Waits
  <2>3. tail'[a] = <<>>
    BY <1>1, <1>8, <2>1, HeadEnds
  <2> QED BY <1>3, <1>4, <1>5, <1>8, <2>1, <2>2, <2>3
          DEF WorkerAt, Withdrawn
<1>9. ~contended[a] /\ ~outdated[a] =>
        /\ Session(a)' \subseteq Known(a)
        /\ \A w \in wire'[a] : w.by = "published" =>
             published'[a] # NoRuntime /\ w.login = published'[a].login
  <2>1. Session(a)' = Session(a)
    BY <1>5 DEF Session
  <2>2. CookiesAt(a)
    BY DEF FleetInv, FitsAt
  <2> QED BY <1>1, <1>5, <2>1, <2>2 DEF Known, CookiesAt
<1> QED BY <1>1, <1>3, <1>4, <1>5, <1>6, <1>7, <1>8, <1>9, RegistryStep

LEMMA PublishesFits ==
  ASSUME FleetInv, Base', NEW a \in Account, Calm, tail[a] # <<>>, Exists(a),
         Next1(a).op = "refresh", Publishes(a)
  PROVE  FleetInv'
<1>1. /\ Ends(a, TRUE)
      /\ UNCHANGED <<file, contended, outdated, lost>>
      /\ row' = [row EXCEPT ![a].health = "ready"]
      /\ published' = [published EXCEPT ![a] = [row |-> row'[a],
                                                login |-> Next1(a).login]]
      /\ wire' = [wire EXCEPT ![a] = {[w EXCEPT !.by = "older"] : w \in @}]
  BY DEF Publishes, Observe, accountsHistory
<1>2. /\ row \in [Account -> Row \cup {Unborn, Removed}] /\ row[a] \in Row
      /\ published \in [Account -> Runtime \cup {NoRuntime}]
      /\ wire \in [Account -> SUBSET Wire]
  BY DEF FleetInv, Base, AccountsInv, Typed, Wired, Exists
<1>3. /\ row'[a] \in Row /\ row'[a].health = "ready"
      /\ row'[a].enabled = row[a].enabled
      /\ \A b \in Account \ {a} : row'[b] = row[b]
  <2>1. [row[a] EXCEPT !.health = "ready"] \in Row
    BY <1>2 DEF Row, Health
  <2>2. row'[a] = [row[a] EXCEPT !.health = "ready"]
        /\ \A b \in Account \ {a} : row'[b] = row[b]
    BY <1>1, <1>2
  <2> QED BY <1>2, <2>1, <2>2 DEF Row
<1>4. Exists(a)'
  BY <1>3, RowsAndPairs DEF Exists
<1>5. Next1(a).login \subseteq Loaded(a) /\ Next1(a) \in Operation
  <2>1. tail' = [tail EXCEPT ![a] = Tail(@)]
    BY <1>1 DEF Ends
  <2> QED BY <2>1, LineMovesUp
<1>6. /\ \A b \in Account \ {a} : published'[b] = published[b]
      /\ published'[a] # NoRuntime /\ published'[a].row = row'[a]
      /\ published'[a].login = Next1(a).login
  <2> DEFINE new == [row |-> row'[a], login |-> Next1(a).login]
  <2>1. new \in Runtime /\ new.row = row'[a] /\ new.login = Next1(a).login
    BY <1>3, <1>5 DEF Runtime, Operation
  <2>2. published' = [published EXCEPT ![a] = new]
    BY <1>1
  <2> HIDE DEF new
  <2>3. published'[a] = new /\ \A b \in Account \ {a} : published'[b] = published[b]
    BY <1>2, <2>2
  <2> QED BY <2>1, <2>3, RowsAndPairs
<1>7. /\ \A b \in Account \ {a} : wire'[b] = wire[b]
      /\ \A w \in wire'[a] : w.by # "published"
  <2>1. /\ \A b \in Account \ {a} : wire'[b] = wire[b]
        /\ wire'[a] = {[w EXCEPT !.by = "older"] : w \in wire[a]}
    BY <1>1, <1>2
  <2>2. \A w \in wire[a] : [w EXCEPT !.by = "older"].by = "older"
    BY <1>2 DEF Wire
  <2> QED BY <2>1, <2>2
<1>8. OwedAt(a)'
  BY <1>6 DEF OwedAt
<1>9. Listed(a)' => row'[a] = Usable
  BY <1>3, <1>6 DEF Listed, Usable, Row
<1>10. ASSUME NEW q \in Operator, q = Next1(a).by, WorkerAt(q, a), ~contended[a]
       PROVE  WorkerAt(q, a)'
  <2>1. /\ AtWork(q, a) /\ call[q].pc \in Waits(Next1(a).op)
        /\ call[q].pc = "refreshing" => call'[q].pc = "answered"
        /\ call[q].pc = "reloading"  => call'[q].pc = "reloaded"
        /\ call'[q].ready = TRUE /\ call'[q].before = call[q].before
    BY <1>1, <1>10, HeadEnds
  <2>2. call[q].pc \in {"refreshing", "reloading"}
    BY <2>1 DEF Waits
  <2>3. tail'[a] = <<>>
    BY <1>1, <1>10, <2>1, HeadEnds
  <2>4. ~Withdrawn(q)'
    BY <2>1, <2>2 DEF Withdrawn, Moving, Writing
  <2> QED BY <1>3, <1>4, <1>10, <2>1, <2>2, <2>3, <2>4 DEF WorkerAt
<1>11. Session(a)' \subseteq Known(a)
  BY <1>5, <1>6 DEF Session, Known
<1> QED BY <1>1, <1>3, <1>4, <1>6, <1>7, <1>8, <1>9, <1>10, <1>11, RegistryStep

LEMMA RetiresFits ==
  ASSUME FleetInv, Base', NEW a \in Account, Retires(a)
  PROVE  FleetInv'
<1>1. /\ Calm /\ tail[a] # <<>> /\ Next1(a).op = "retire" /\ Ends(a, FALSE)
      /\ UNCHANGED <<row, file, contended, outdated, lost>>
      /\ published' = [published EXCEPT ![a] = NoRuntime]
      /\ wire' = [wire EXCEPT ![a] = {w \in @ : w.by # "published"}]
  BY DEF Retires, accountsHistory
<1>2. /\ \A b \in Account \ {a} : published'[b] = published[b] /\ wire'[b] = wire[b]
      /\ published'[a] = NoRuntime /\ \A w \in wire'[a] : w.by # "published"
  BY <1>1 DEF FleetInv, Base, AccountsInv, Typed, Wired
<1>3. PICK o : o = Next1(a).by
  OBVIOUS
<1>4. o \in Operator
  <2>1. Next1(a) = tail[a][1] /\ 1 \in DOMAIN tail[a]
    <3>1. tail' = [tail EXCEPT ![a] = Tail(@)]
      BY <1>1 DEF Ends
    <3> QED BY <1>1, <3>1, LineMovesUp
  <2> QED BY <1>1, <1>3, <2>1 DEF FleetInv, FitsAt, LineAt
<1>5. /\ AtWork(o, a) /\ call[o].pc = "retiring" /\ call'[o].pc = "reading"
      /\ call'[o].on = call[o].on /\ call'[o].kind = call[o].kind
  <2>1. /\ AtWork(o, a) /\ call[o].pc \in Waits(Next1(a).op)
        /\ call[o].pc = "retiring" => call'[o].pc = "reading"
        /\ call'[o].on = call[o].on /\ call'[o].kind = call[o].kind
    BY <1>1, <1>3, <1>4, HeadEnds
  <2> QED BY <1>1, <2>1 DEF Waits
<1>6. call[o].on = a /\ call[o].kind = "replace"
  BY <1>4, <1>5 DEF AtWork, FleetInv, KindOf
<1>7. OwedAt(a)'
  BY <1>4, <1>5, <1>6 DEF OwedAt, Moving
<1>8. ASSUME ~contended[a] PROVE Exists(a)' /\ WorkerAt(o, a)'
  <2>1. WorkerAt(o, a)
    BY <1>4, <1>5, <1>8 DEF FleetInv, FitsAt, AloneAt
  <2>2. tail'[a] = <<>>
    BY <1>1, <1>4, <1>5, <1>8, HeadEnds
  <2> QED BY <1>1, <1>2, <1>5, <2>1, <2>2 DEF WorkerAt, Exists
<1>9. ~Listed(a)'
  BY <1>2 DEF Listed
<1>10. Session(a)' = {}
  BY <1>2 DEF Session
<1>11. \A q \in Operator :
         ~contended[a] /\ q = Next1(a).by => WorkerAt(q, a)'
  BY <1>3, <1>8 DEF WorkerAt, Withdrawn, Exists
<1> QED BY <1>1, <1>2, <1>7, <1>8, <1>9, <1>10, <1>11, RegistryStep

LEMMA RegistryFits ==
  ASSUME FleetInv, Base', NEW a \in Account,
         RefreshStarts(a) \/ RefreshDescribes(a) \/ Retires(a)
  PROVE  FleetInv'
<1>1. CASE RefreshStarts(a)
  BY <1>1, RefreshOfNothingFits, RefreshLoadsFits, RecordsFailureFits DEF RefreshStarts
<1>2. CASE RefreshDescribes(a)
  BY <1>2, PublishesFits, RefreshOfNothingFits, RecordsFailureFits DEF RefreshDescribes
<1> QED BY <1>1, <1>2, RetiresFits

-----------------------------------------------------------------------------
(* Answers with cookies, checks and the process. *)

\* A request of a job goes out with the cookies of its account's runtime.
LEMMA RequestGoesFits ==
  ASSUME FleetInv, Base', NEW a \in Account, RequestGoes(a)
  PROVE  FleetInv'
<1>1. /\ UNCHANGED <<row, file, published, tail, call, contended, outdated, lost>>
      /\ published[a] # NoRuntime
      /\ wire' = [wire EXCEPT ![a] = @ \cup {[login |-> published[a].login,
                                              by |-> "published"]}]
  BY DEF RequestGoes, accountsHistory
<1>2. /\ \A b \in Account \ {a} : wire'[b] = wire[b]
      /\ \A w \in wire'[a] : w \in wire[a] \/ w.login = published[a].login
  BY <1>1 DEF FleetInv, Base, Wired
<1>3. OnlyAt(a)
  BY <1>1, <1>2 DEF OnlyAt
<1>4. /\ LineAt(a) /\ OwedAt(a) /\ AloneAt(a) /\ CookiesAt(a)
      /\ \A q \in Operator : KindOf(q)
  BY DEF FleetInv, FitsAt
<1>5. \A q \in Operator : KindOf(q)'
  BY <1>1, <1>4 DEF KindOf
<1>6. \A q \in Operator : AtWork(q, a)' <=> AtWork(q, a)
  BY <1>1 DEF AtWork, Importing
<1>7. LineAt(a)' /\ OwedAt(a)'
  BY <1>1, <1>4, <1>6 DEF LineAt, OwedAt, Pending
<1>8. AloneAt(a)'
  BY <1>1, <1>4, <1>6 DEF AloneAt, WorkerAt, Withdrawn, Exists, Listed, Pending
<1>9. CookiesAt(a)'
  <2>1. Known(a)' = Known(a)
    BY <1>1 DEF Known, Session, Loaded
  <2>2. \A q \in Operator : PairAt(q, a) => PairAt(q, a)'
    BY <1>1 DEF PairAt, RolledBack
  <2> QED BY <1>1, <1>2, <1>4, <1>6, <2>1, <2>2 DEF CookiesAt
<1>10. FitsAt(a)'
  BY <1>7, <1>8, <1>9 DEF FitsAt
<1> QED BY <1>1, <1>3, <1>5, <1>10, StepAt

\* Cookies of the runtime are of the login the account has already; those of an
\* older session are noted.
LEMMA CookiesArriveFits ==
  ASSUME FleetInv, Base', NEW a \in Account, CookiesArrive(a)
  PROVE  FleetInv'
<1>1. PICK w \in wire[a] :
        /\ wire' = [wire EXCEPT ![a] = @ \ {w}]
        /\ IF file[a].state = {} THEN UNCHANGED <<file, outdated>>
           ELSE /\ file' = [file EXCEPT ![a].state = @ \cup w.login]
                /\ outdated' = [outdated EXCEPT ![a] = @ \/ w.by = "older"]
        /\ UNCHANGED <<row, published, shelved, managers, tail, call, contended, lost>>
  BY Zenon DEF CookiesArrive
<1>2. UNCHANGED <<row, published, tail, call, contended, lost>>
  BY <1>1
<1>3. /\ wire \in [Account -> SUBSET Wire] /\ outdated \in [Account -> BOOLEAN]
      /\ file \in [Account -> Pair] /\ file[a] \in Pair
      /\ w.by \in {"published", "older"}
  BY DEF FleetInv, Base, AccountsInv, Typed, Wired, HistoryTyped, Wire
<1>4. /\ \A b \in Account \ {a} : wire'[b] = wire[b]
      /\ wire'[a] \subseteq wire[a]
  BY <1>1, <1>3
<1>5. /\ \A b \in Account \ {a} : file'[b] = file[b] /\ outdated'[b] = outdated[b]
      /\ file'[a].profile = file[a].profile
      /\ outdated[a] => outdated'[a]
      /\ \/ file'[a].state = file[a].state
         \/ /\ file'[a].state = file[a].state \cup w.login
            /\ outdated'[a] \/ w.by = "published"
  <2>1. CASE file[a].state = {}
    BY <1>1, <2>1
  <2>2. CASE file[a].state # {}
    <3>1. /\ file' = [file EXCEPT ![a].state = @ \cup w.login]
          /\ outdated' = [outdated EXCEPT ![a] = @ \/ w.by = "older"]
      BY <1>1, <2>2
    <3>2. /\ \A b \in Account \ {a} : file'[b] = file[b]
          /\ file'[a] = [file[a] EXCEPT !.state = @ \cup w.login]
      BY <1>3, <3>1
    <3>3. /\ \A b \in Account \ {a} : outdated'[b] = outdated[b]
          /\ outdated'[a] = (outdated[a] \/ w.by = "older")
      BY <1>3, <3>1
    <3>4. file'[a].profile = file[a].profile
          /\ file'[a].state = file[a].state \cup w.login
      BY <1>3, <3>2 DEF Pair
    <3> QED BY <1>3, <3>2, <3>3, <3>4
  <2> QED BY <2>1, <2>2
<1>6. OnlyAt(a)
  BY <1>2, <1>4, <1>5 DEF OnlyAt
<1>7. /\ LineAt(a) /\ OwedAt(a) /\ AloneAt(a) /\ CookiesAt(a)
      /\ \A q \in Operator : KindOf(q)
  BY DEF FleetInv, FitsAt
<1>8. \A q \in Operator : KindOf(q)'
  BY <1>2, <1>7 DEF KindOf
<1>9. \A q \in Operator : AtWork(q, a)' <=> AtWork(q, a)
  BY <1>2 DEF AtWork, Importing
<1>10. LineAt(a)' /\ OwedAt(a)'
  BY <1>2, <1>7, <1>9 DEF LineAt, OwedAt, Pending
<1>11. AloneAt(a)'
  BY <1>2, <1>7, <1>9 DEF AloneAt, WorkerAt, Withdrawn, Exists, Listed, Pending
<1>12. CookiesAt(a)'
  <2> SUFFICES ASSUME ~contended[a], ~outdated'[a]
               PROVE  /\ OneLogin(Known(a))'
                      /\ \A v \in wire'[a] : v.by = "published" =>
                           published'[a] # NoRuntime /\ v.login = published'[a].login
                      /\ \A q \in Operator : AtWork(q, a)' => PairAt(q, a)'
    BY <1>2 DEF CookiesAt
  <2>1. /\ OneLogin(Known(a))
        /\ \A v \in wire[a] : v.by = "published" =>
             published[a] # NoRuntime /\ v.login = published[a].login
        /\ \A q \in Operator : AtWork(q, a) => PairAt(q, a)
    BY <1>5, <1>7 DEF CookiesAt
  <2>2. CASE file'[a].state = file[a].state
    <3>1. Known(a)' = Known(a)
      BY <1>2, <1>5, <2>2 DEF Known, Session, Loaded
    <3>2. file'[a] = file[a]
      <4>1. file'[a] \in Pair
        BY DEF Base, AccountsInv, Typed
      <4> QED BY <1>3, <1>5, <2>2, <4>1 DEF Pair
    <3>3. \A q \in Operator : PairAt(q, a) /\ AtWork(q, a) => PairAt(q, a)'
      <4>1. ASSUME NEW q \in Operator, AtWork(q, a)
            PROVE  RolledBack(q)' = RolledBack(q)
        <5>1. call[q].on = a /\ call' = call
          BY <1>2, <4>1 DEF AtWork
        <5> QED BY <3>2, <5>1 DEF RolledBack
      <4> QED BY <1>2, <3>2, <4>1 DEF PairAt
    <3> QED BY <1>2, <1>4, <1>9, <2>1, <3>1, <3>3
  <2>3. CASE file'[a].state = file[a].state \cup w.login /\ w.by = "published"
    <3>1. published[a] # NoRuntime /\ w.login = published[a].login
      BY <2>1, <2>3
    <3>2. Known(a)' = Known(a)
      BY <1>2, <1>5, <2>3, <3>1 DEF Known, Session, Loaded
    <3>3. ASSUME NEW q \in Operator, AtWork(q, a) PROVE PairAt(q, a)'
      <4>1. WorkerAt(q, a) /\ PairAt(q, a)
        BY <1>7, <2>1, <3>3 DEF AloneAt
      <4>2. call[q].pc \notin Writing
        BY <3>1, <4>1 DEF WorkerAt, Withdrawn, Moving
      <4> QED BY <1>2, <4>1, <4>2 DEF PairAt, Writing
    <3> QED BY <1>2, <1>4, <1>9, <2>1, <3>2, <3>3
  <2> QED BY <1>5, <2>2, <2>3
<1>13. FitsAt(a)'
  BY <1>10, <1>11, <1>12 DEF FitsAt
<1> QED BY <1>2, <1>6, <1>8, <1>13, StepAt

LEMMA CreateAccountFits ==
  ASSUME FleetInv, Base', NEW a \in Account, CreateAccount(a)
  PROVE  FleetInv'
<1>1. /\ UNCHANGED <<file, published, tail, wire, call, contended, outdated, lost>>
      /\ row[a] = Unborn /\ row' = [row EXCEPT ![a] = Fresh]
  BY DEF CreateAccount, accountsHistory
<1>2. /\ row'[a] = Fresh /\ ~Exists(a) /\ Fresh # Usable /\ Exists(a)'
      /\ \A b \in Account \ {a} : row'[b] = row[b]
  <2>1. row'[a] = Fresh /\ \A b \in Account \ {a} : row'[b] = row[b]
    BY <1>1 DEF FleetInv, Base, AccountsInv, Typed
  <2> QED BY <1>1, <2>1, RowsAndPairs DEF Exists, Fresh, Usable
<1>3. OnlyAt(a)
  BY <1>1, <1>2 DEF OnlyAt
<1>4. /\ LineAt(a) /\ AloneAt(a) /\ CookiesAt(a)
      /\ \A q \in Operator : KindOf(q)
  BY DEF FleetInv, FitsAt
<1>5. \A q \in Operator : KindOf(q)'
  BY <1>1, <1>4 DEF KindOf
<1>6. \A q \in Operator : AtWork(q, a)' <=> AtWork(q, a)
  BY <1>1 DEF AtWork, Importing
<1>7. LineAt(a)' /\ OwedAt(a)'
  BY <1>1, <1>2, <1>4, <1>6 DEF LineAt, OwedAt
<1>8. ~contended[a] => published[a] = NoRuntime /\ \A q \in Operator : ~AtWork(q, a)
  BY <1>2, <1>4 DEF AloneAt, WorkerAt
<1>9. AloneAt(a)'
  BY <1>1, <1>2, <1>6, <1>8 DEF AloneAt, Listed
<1>10. CookiesAt(a)'
  <2>1. Known(a)' = Known(a)
    BY <1>1 DEF Known, Session, Loaded
  <2> QED BY <1>1, <1>4, <1>6, <1>8, <2>1 DEF CookiesAt
<1>11. FitsAt(a)'
  BY <1>7, <1>9, <1>10 DEF FitsAt
<1> QED BY <1>1, <1>3, <1>5, <1>11, StepAt

\* A check asks for a refresh; who works there meets it.
LEMMA CheckAccountFits ==
  ASSUME FleetInv, Base', NEW a \in Account, CheckAccount(a)
  PROVE  FleetInv'
<1>1. /\ UNCHANGED <<file, published, wire, call, outdated, lost>>
      /\ Exists(a) /\ Enqueue(a, "refresh", Checker)
      /\ \/ row' = row
         \/ \E on \in BOOLEAN : row' = [row EXCEPT ![a].enabled = on]
      /\ contended' = [contended EXCEPT ![a] = @ \/ Busy(a) # {}]
  BY DEF CheckAccount
<1>2. Exists(a)' /\ \A b \in Account \ {a} : row'[b] = row[b]
  <2>1. row \in [Account -> Row \cup {Unborn, Removed}] /\ row[a] \in Row
    BY <1>1 DEF FleetInv, Base, AccountsInv, Typed, Exists
  <2>2. ASSUME NEW on \in BOOLEAN, row' = [row EXCEPT ![a].enabled = on]
        PROVE  row'[a] \in Row /\ \A b \in Account \ {a} : row'[b] = row[b]
    <3>1. [row[a] EXCEPT !.enabled = on] \in Row
      BY <2>1 DEF Row
    <3> QED BY <2>1, <2>2, <3>1
  <2> QED BY <1>1, <2>1, <2>2, RowsAndPairs DEF Exists
<1>3. /\ \A b \in Account \ {a} : contended'[b] = contended[b]
      /\ contended'[a] = (contended[a] \/ Busy(a) # {})
  BY <1>1 DEF FleetInv, Base, HistoryTyped
<1> DEFINE new == Len(tail[a]) + 1
<1>4. /\ \A b \in Account \ {a} : tail'[b] = tail[b]
      /\ DOMAIN tail'[a] = DOMAIN tail[a] \cup {new}
      /\ \A i \in DOMAIN tail[a] : tail'[a][i] = tail[a][i]
      /\ tail'[a][new].op = "refresh" /\ tail'[a][new].by = Checker
      /\ Loaded(a)' = Loaded(a) /\ Pending(a)'
  BY <1>1, LineOf
<1> HIDE DEF new
<1>5. OnlyAt(a)
  BY <1>1, <1>2, <1>3, <1>4 DEF OnlyAt
<1>6. /\ LineAt(a) /\ CookiesAt(a) /\ \A q \in Operator : KindOf(q)
  BY DEF FleetInv, FitsAt
<1>7. \A q \in Operator : KindOf(q)'
  BY <1>1, <1>6 DEF KindOf
<1>8. \A q \in Operator : AtWork(q, a)' <=> AtWork(q, a)
  BY <1>1 DEF AtWork, Importing
<1>9. LineAt(a)'
  <2>1. Checker \notin Operator
    BY AccountsAssumption DEF AccountsAssumption
  <2>2. ASSUME NEW i \in DOMAIN tail'[a]
        PROVE  /\ tail'[a][i].op = "retire" => tail'[a][i].by \in Operator
               /\ tail'[a][i].by \in Operator =>
                    /\ AtWork(tail[a][i].by, a)'
                    /\ call'[tail'[a][i].by].pc \in Waits(tail'[a][i].op)
                    /\ \A j \in DOMAIN tail'[a] :
                         tail'[a][j].by = tail'[a][i].by => i = j
    <3>1. CASE i = new
      <4>1. tail'[a][i].by \notin Operator /\ tail'[a][i].op = "refresh"
        BY <1>4, <2>1, <3>1
      <4> QED BY <4>1
    <3>2. CASE i \in DOMAIN tail[a]
      <4>1. PICK q : q = tail[a][i].by
        OBVIOUS
      <4>2. tail'[a][i].by = q /\ tail'[a][i].op = tail[a][i].op
        BY <1>4, <3>2, <4>1
      <4>3. /\ tail[a][i].op = "retire" => q \in Operator
            /\ q \in Operator =>
                 /\ AtWork(q, a) /\ call[q].pc \in Waits(tail[a][i].op)
                 /\ \A j \in DOMAIN tail[a] : tail[a][j].by = q => i = j
        BY <1>6, <3>2, <4>1 DEF LineAt
      <4>4. q \in Operator => \A j \in DOMAIN tail'[a] : tail'[a][j].by = q => i = j
        BY <1>4, <2>1, <4>3
      <4>5. q \in Operator => AtWork(q, a)' /\ call'[q].pc \in Waits(tail[a][i].op)
        BY <1>1, <1>8, <4>3
      <4> QED BY <4>2, <4>3, <4>4, <4>5 DEF AtWork, Importing
    <3> QED BY <1>4, <3>1, <3>2
  <2> QED BY <2>2 DEF LineAt
<1>10. OwedAt(a)'
  BY <1>4 DEF OwedAt
<1>11. ~contended'[a] => ~contended[a] /\ \A q \in Operator : ~AtWork(q, a)'
  <2>1. \A q \in Operator : AtWork(q, a) => q \in Busy(a)
    BY DEF AtWork, Busy
  <2> QED BY <1>3, <1>8, <2>1
<1>12. AloneAt(a)'
  BY <1>2, <1>4, <1>11 DEF AloneAt
<1>13. CookiesAt(a)'
  <2>1. Known(a)' = Known(a)
    BY <1>1, <1>4 DEF Known, Session
  <2> QED BY <1>1, <1>6, <1>11, <2>1 DEF CookiesAt
<1>14. FitsAt(a)'
  BY <1>9, <1>10, <1>12, <1>13 DEF FitsAt
<1> QED BY <1>1, <1>5, <1>7, <1>14, StepAt

\* The next start looks at every row that is there, and nobody is at work.
LEMMA KillAndLoadFits ==
  ASSUME FleetInv, Base', KillAndLoad PROVE FleetInv'
<1> DEFINE load == [op |-> "refresh", by |-> Boot, step |-> "start", login |-> {}]
<1>1. /\ UNCHANGED <<row, file, contended, outdated>>
      /\ published' = [a \in Account |-> NoRuntime]
      /\ tail' = [a \in Account |-> IF Exists(a) THEN <<load>> ELSE <<>>]
      /\ wire' = [a \in Account |-> {}]
      /\ call' = [o \in Operator |-> NoCall(call[o].on)]
  BY Zenon DEF KillAndLoad
<1>2. ASSUME NEW o \in Operator
      PROVE  call'[o].pc = "idle" /\ call'[o].login = {} /\ call'[o].undo = FALSE
  BY <1>1 DEF NoCall
<1>3. \A o \in Operator : KindOf(o)'
  BY <1>2 DEF KindOf, OneLogin
<1>4. load.op = "refresh" /\ load.by = Boot /\ load.login = {} /\ Boot \notin Operator
  BY AccountsAssumption DEF AccountsAssumption
<1> HIDE DEF load
<1>5. ASSUME NEW a \in Account PROVE FitsAt(a)'
  <2>1. \A o \in Operator : ~AtWork(o, a)'
    BY <1>2 DEF AtWork
  <2>2. /\ published'[a] = NoRuntime /\ wire'[a] = {} /\ row'[a] = row[a]
        /\ file'[a] = file[a] /\ contended'[a] = contended[a]
        /\ outdated'[a] = outdated[a]
    BY <1>1
  <2>3. /\ Exists(a) => tail'[a] = <<load>>
        /\ ~Exists(a) => tail'[a] = <<>>
    BY <1>1
  <2>4. \A i \in DOMAIN tail'[a] : tail'[a][i] = load
    BY <2>3
  <2>5. LineAt(a)'
    BY <1>4, <2>4 DEF LineAt
  <2>6. Exists(a) => Pending(a)'
    <3>1. Exists(a) => 1 \in DOMAIN tail'[a]
      BY <2>3
    <3> QED BY <1>4, <2>4, <3>1 DEF Pending
  <2>7. OwedAt(a)'
    BY <2>2, <2>6, UsableExists DEF OwedAt, Exists
  <2>8. AloneAt(a)'
    BY <2>1, <2>2, <2>3 DEF AloneAt, Exists, Listed
  <2>9. CookiesAt(a)'
    <3>1. Loaded(a)' = {} /\ Session(a)' = {}
      BY <1>4, <2>2, <2>4 DEF Loaded, Session
    <3>2. Known(a)' \subseteq Known(a)
      BY <2>2, <3>1 DEF Known
    <3>3. CookiesAt(a)
      BY DEF FleetInv, FitsAt
    <3> QED BY <2>1, <2>2, <3>2, <3>3 DEF CookiesAt, OneLogin
  <2> QED BY <2>5, <2>7, <2>8, <2>9 DEF FitsAt
<1> QED BY <1>3, <1>5 DEF FleetInv

-----------------------------------------------------------------------------
(* The theorems about accounts. *)

LEMMA FleetInvHoldsAtFirst == AccountsInit => FleetInv
<1> SUFFICES ASSUME AccountsInit PROVE FleetInv
  OBVIOUS
<1>1. PICK l \in Login, some \in SUBSET Account :
       /\ row = [a \in Account |->
                  IF a \in some THEN [enabled |-> TRUE, health |-> "ready"]
                  ELSE Unborn]
       /\ file = [a \in Account |->
                   IF a \in some THEN [state |-> {l}, profile |-> {l}]
                   ELSE NoFiles]
       /\ published = [a \in Account |->
                        IF a \in some THEN [row |-> row[a], login |-> {l}]
                        ELSE NoRuntime]
       /\ managers = [a \in Account |-> IF a \in some THEN 1 ELSE 0]
  BY DEF AccountsInit
<1>2. /\ tail = [a \in Account |-> <<>>] /\ wire = [a \in Account |-> {}]
      /\ contended = [a \in Account |-> FALSE] /\ outdated = contended
      /\ lost = contended
  BY DEF AccountsInit
<1>3. ASSUME NEW o \in Operator
      PROVE  call[o].pc = "idle" /\ call[o].login = {} /\ call[o].undo = FALSE
  <2>1. call = [q \in Operator |-> NoCall(CHOOSE a \in Account : TRUE)]
    BY DEF AccountsInit
  <2> QED BY <2>1 DEF NoCall
<1>4. AccountsInv
  BY AccountsInvHoldsAtFirst
<1>5. Base
  BY <1>2, <1>4 DEF Base, Wired, HistoryTyped
<1>6. \A o \in Operator : KindOf(o)
  BY <1>3 DEF KindOf, OneLogin
<1>7. ASSUME NEW a \in Account PROVE FitsAt(a)
  <2>1. /\ tail[a] = <<>> /\ wire[a] = {} /\ \A o \in Operator : ~AtWork(o, a)
    BY <1>2, <1>3 DEF AtWork
  <2>2. LineAt(a)
    BY <2>1 DEF LineAt
  <2>3. CASE a \in some
    <3>1. /\ row[a] = Usable /\ published[a] = [row |-> Usable, login |-> {l}]
          /\ file[a] = [state |-> {l}, profile |-> {l}]
      BY <1>1, <2>3 DEF Usable
    <3>2. Usable \in Row /\ {l} \in Cookies
      BY DEF Usable, Row, Health, Cookies
    <3>3. published[a] # NoRuntime
      BY <3>1, <3>2, RowsAndPairs DEF Runtime
    <3>4. Exists(a)
      BY <3>1, <3>2, RowsAndPairs DEF Exists
    <3>5. Known(a) = {l}
      BY <2>1, <3>1, <3>3 DEF Known, Session, Loaded
    <3> QED BY <2>1, <2>2, <3>1, <3>3, <3>4, <3>5
            DEF FitsAt, OwedAt, AloneAt, CookiesAt, OneLogin
  <2>4. CASE a \notin some
    <3>1. row[a] = Unborn /\ published[a] = NoRuntime /\ file[a] = NoFiles
      BY <1>1, <2>4
    <3>2. Known(a) = {}
      BY <2>1, <3>1 DEF Known, Session, Loaded, NoFiles
    <3> QED BY <2>1, <2>2, <3>1, <3>2, UsableExists
            DEF FitsAt, OwedAt, AloneAt, CookiesAt, OneLogin, Listed
  <2> QED BY <2>3, <2>4
<1> QED BY <1>5, <1>6, <1>7 DEF FleetInv

LEMMA FleetInvIsKept == FleetInv /\ [AccountsNext]_accountsVars => FleetInv'
<1> SUFFICES ASSUME FleetInv, [AccountsNext]_accountsVars PROVE FleetInv'
  OBVIOUS
<1>1. Base'
  BY BaseIsKept DEF FleetInv
<1>2. CASE UNCHANGED accountsVars
  <2>1. UNCHANGED <<row, file, published, tail, wire, call, contended, outdated, lost>>
    BY <1>2 DEF accountsVars, accountsHistory
  <2>2. \A b \in Account : FitsAt(b)'
    BY <2>1, ElsewhereFits DEF FleetInv
  <2>3. \A o \in Operator : KindOf(o)'
    BY <2>1 DEF FleetInv, KindOf
  <2> QED BY <1>1, <2>2, <2>3 DEF FleetInv
<1>3. CASE KillAndLoad
  BY <1>1, <1>3, KillAndLoadFits
<1>4. ASSUME NEW a \in Account,
             \/ RefreshStarts(a) \/ RefreshDescribes(a) \/ Retires(a)
             \/ RequestGoes(a) \/ CookiesArrive(a) \/ CreateAccount(a)
             \/ CheckAccount(a) \/ \E o \in Operator : AskReplace(o, a)
      PROVE  FleetInv'
  BY <1>1, <1>4, RegistryFits, RequestGoesFits, CookiesArriveFits, CreateAccountFits,
     CheckAccountFits, AskReplaceFits
<1>5. ASSUME NEW o \in Operator,
             \/ AskImport(o) \/ CandidateRefused(o)
             \/ ImportDescribed(o) \/ ReplaceDescribed(o)
             \/ ReadsPrevious(o) \/ ReadFails(o) \/ BackUp(o) \/ MoveIn(o)
      PROVE  FleetInv'
  BY <1>1, <1>5, AskImportFits, CandidateRefusedFits, ImportDescribedFits,
     ReplaceDescribedFits, ReadsPreviousFits, EndsFit, BackUpFits, MoveInFits
<1>6. ASSUME NEW o \in Operator,
             \/ PairFails(o) \/ CleanupFails(o) \/ PairWritten(o)
             \/ RefreshedReady(o) \/ RefreshedNotReady(o) \/ Reloaded(o)
             \/ RemoveImported(o) \/ RemoveFails(o)
      PROVE  FleetInv'
  BY <1>1, <1>6, PairFailsFits, CleanupFailsFits, PairWrittenFits, EndsFit,
     RefreshedNotReadyFits, ReloadedFits, RemoveImportedFits
<1> HIDE DEF FleetInv
<1> QED BY <1>2, <1>3, <1>4, <1>5, <1>6 DEF AccountsNext

LEMMA FleetInvariant == AccountsSpec => []FleetInv
<1> QED BY FleetInvHoldsAtFirst, FleetInvIsKept, PTL DEF AccountsSpec

\* The variables of the accounts keep their types: no step of the registry or
\* of an administrator leaves half a pair of files, a request without its local
\* variables, or an operation in line that nobody knows.
THEOREM AccountsTypes == AccountsSpec => []AccountsTypeOK
<1>1. FleetInv => AccountsTypeOK
  BY DEF FleetInv, Base, AccountsInv, Typed, Wired, Wire, HistoryTyped, AccountsTypeOK
<1> QED BY <1>1, FleetInvariant, PTL

\* AccountRuntimeRegistry and the credential store: whatever fails and whenever
\* the process is killed, the files of an account are of one login, for any
\* number of accounts, administrators and logins.
THEOREM CredentialsAreOfOneLogin == AccountsSpec => []CredentialsOfOneLogin
<1>1. FleetInv => CredentialsOfOneLogin
  <2> SUFFICES ASSUME FleetInv, NEW a \in Account, ~contended[a], ~outdated[a]
               PROVE  OneLogin(file[a].state \cup file[a].profile)
    BY DEF CredentialsOfOneLogin, OneLogin
  <2>1. OneLogin(Known(a))
    BY DEF FleetInv, FitsAt, CookiesAt
  <2> QED BY <2>1 DEF OneLogin, Known
<1> QED BY <1>1, FleetInvariant, PTL

\* The registry's answer to the scheduler: when nobody works on an account, it
\* is offered only if its row is enabled and ready, and a row that says so has
\* its runtime.
THEOREM RuntimesFollowRows == AccountsSpec => []RuntimeFollowsRow
<1>1. FleetInv => RuntimeFollowsRow
  <2> SUFFICES ASSUME FleetInv, NEW a \in Account, AtRest(a)
               PROVE  /\ Listed(a) => contended[a] \/ row[a] = Usable
                      /\ row[a] = Usable => published[a] # NoRuntime \/ lost[a]
    BY DEF RuntimeFollowsRow, Usable
  <2>1. ~Pending(a)
    <3>1. tail[a] = <<>>
      BY DEF AtRest
    <3> QED BY <3>1 DEF Pending
  <2>2. \A o \in Operator : call[o].on = a => call[o].pc \notin Moving
    BY DEF AtRest, Busy, Moving, Writing
  <2>3. OwedAt(a) /\ AloneAt(a)
    BY DEF FleetInv, FitsAt
  <2> QED BY <2>1, <2>2, <2>3 DEF OwedAt, AloneAt
<1> QED BY <1>1, FleetInvariant, PTL

-----------------------------------------------------------------------------
(* The worker pipeline. *)

\* A step of g leaves the other processes where they are.
Only(g) ==
  /\ gateway' \in [Gateway -> Process]
  /\ \A h \in Gateway \ {g} : gateway'[h] = gateway[h]

\* A process that is down is one, and has nothing to do.
LEMMA OffIsAProcess == Off \in Process /\ Off.pc = "down" /\ Off.todo = {}
<1>1. (CHOOSE j \in Order : TRUE) \in Order
  BY PipelineAssumption DEF PipelineAssumption
<1> QED BY <1>1 DEF Off, Process, Label, Reply

\* What a process is after it let go of its job.
LEMMA Returning ==
  ASSUME gateway \in [Gateway -> Process], NEW g \in Gateway, NEW l \in Label, LetsGo(g, l)
  PROVE  Only(g) /\ gateway'[g].pc = l /\ gateway'[g].todo = gateway[g].todo
<1> DEFINE new == [gateway[g] EXCEPT !.pc = l, !.heard = "none", !.task = Nobody]
<1>1. gateway[g] \in Process
  OBVIOUS
<1>2. new \in Process /\ new.pc = l /\ new.todo = gateway[g].todo
  BY <1>1 DEF Process, Reply
<1>3. gateway' = [gateway EXCEPT ![g] = new]
  BY <1>1 DEF LetsGo, Process
<1> QED BY <1>2, <1>3 DEF Only

\* What a process is after an answer.
LEMMA Hearing ==
  ASSUME gateway \in [Gateway -> Process], NEW g \in Gateway, NEW l \in Label, NEW a \in Reply,
         gateway' = [gateway EXCEPT ![g].pc = l, ![g].heard = a]
  PROVE  /\ Only(g) /\ gateway'[g].pc = l /\ gateway'[g].heard = a
         /\ gateway'[g].todo = gateway[g].todo /\ gateway'[g].at = gateway[g].at
BY DEF Only, Process

\* What a process is after it made a list of jobs.
LEMMA Listing ==
  ASSUME gateway \in [Gateway -> Process], NEW g \in Gateway, NEW l \in Label,
         NEW s \in SUBSET (Order \X JobStatus),
         gateway' = [gateway EXCEPT ![g].pc = l, ![g].todo = s]
  PROVE  Only(g) /\ gateway'[g].pc = l /\ gateway'[g].todo = s
BY DEF Only, Process

\* A step of the pipeline is one of a single process.
LEMMA OnlyOneMoves ==
  ASSUME gateway \in [Gateway -> Process], stage \in [Order -> JobStatus],
         NEW g \in Gateway, Works(g) \/ StartGateway(g) \/ KillGateway(g)
  PROVE  Only(g)
<1> USE DEF Process, Label, InQueue, InSubmit, InDiscovery, InPoll, InReconcile,
            Reply, StepsTo, Dies
<1>0. Off \in Process
  BY OffIsAProcess
<1>00. \A l \in Label : LetsGo(g, l) => Only(g)
  BY Returning
<1>1. CASE Ticks(g)
  <2> DEFINE items == {<<j, stage[j]>> : j \in {j \in Order : stage[j] = "queued" /\ Claimable(j)}}
  <2>1. gateway' = [gateway EXCEPT ![g].pc = "queue", ![g].todo = items]
    BY <1>1 DEF Ticks, Claims
  <2>2. items \in SUBSET (Order \X JobStatus)
    OBVIOUS
  <2> HIDE DEF items
  <2> QED BY <2>1, <2>2, Listing DEF Label
<1>2. CASE QueueTakes(g)
  BY <1>2, <1>0 DEF QueueTakes, Takes, Skips, Only, LetsGo
<1>3. CASE BaselineFails(g)
  BY <1>3, <1>0 DEF BaselineFails, Only, LetsGo
<1>4. CASE CapturesBaseline(g)
  BY <1>4, <1>0 DEF CapturesBaseline, Only, LetsGo
<1>5. CASE LeavesQueue(g)
  BY <1>5, <1>0 DEF LeavesQueue, Only, LetsGo
<1>6. CASE UndoesReservation(g)
  BY <1>6, <1>0 DEF UndoesReservation, Only, LetsGo
<1>7. CASE DropsOrder(g)
  BY <1>7, <1>0 DEF DropsOrder, Only, LetsGo
<1>8. CASE QueueDone(g)
  BY <1>8, <1>00 DEF QueueDone
<1>9. CASE ListsActive(g)
  <2> DEFINE items == {<<j, stage[j]>> : j \in {j \in Order : Active(j)}}
  <2>1. gateway' = [gateway EXCEPT ![g].pc = "active", ![g].todo = items]
    BY <1>9 DEF ListsActive, Claims
  <2>2. items \in SUBSET (Order \X JobStatus)
    OBVIOUS
  <2> HIDE DEF items
  <2> QED BY <2>1, <2>2, Listing DEF Label
<1>10. CASE TakesActive(g)
  BY <1>10, <1>0 DEF TakesActive, Takes, Skips, FirstStep, Only, LetsGo
<1>11. CASE MarksIntent(g)
  BY <1>11, <1>0 DEF MarksIntent, Only, LetsGo
<1>12. CASE Sends(g)
  BY <1>12, <1>0 DEF Sends, Only, LetsGo
<1>13. CASE SendFails(g)
  <2>1. gateway' = [gateway EXCEPT ![g].pc = "markAnswer", ![g].heard = "ambiguous"]
    BY <1>13 DEF SendFails
  <2> QED BY <2>1, Hearing
<1>14. CASE HearsAnswer(g)
  <2>1. PICK a \in {"accepted", "rejected", "ambiguous"} :
          gateway' = [gateway EXCEPT ![g].pc = "markAnswer", ![g].heard = a]
    BY <1>14 DEF HearsAnswer
  <2> QED BY <2>1, Hearing
<1>15. CASE MarksAnswer(g)
  BY <1>15, <1>0 DEF MarksAnswer, Only, LetsGo
<1>16. CASE SettlesPoints(g)
  BY <1>16, <1>0 DEF SettlesPoints, Only, LetsGo
<1>17. CASE MovesOn(g)
  BY <1>17, <1>0 DEF MovesOn, Only, LetsGo
<1>18. CASE Discovers(g)
  BY <1>18, <1>0 DEF Discovers, Only, LetsGo
<1>19. CASE MarksLost(g)
  BY <1>19, <1>0 DEF MarksLost, Only, LetsGo
<1>20. CASE GetsLost(g)
  BY <1>20, <1>0 DEF GetsLost, Only, LetsGo
<1>21. CASE Binds(g)
  BY <1>21, <1>0 DEF Binds, Only, LetsGo
<1>22. CASE GetsFollowed(g)
  BY <1>22, <1>0 DEF GetsFollowed, Only, LetsGo
<1>23. CASE Polls(g)
  BY <1>23, <1>0 DEF Polls, Only, LetsGo
<1>24. CASE MarksBlind(g)
  BY <1>24, <1>0 DEF MarksBlind, Only, LetsGo
<1>25. CASE GoesBlind(g)
  BY <1>25, <1>0 DEF GoesBlind, Only, LetsGo
<1>26. CASE EndsOrder(g)
  BY <1>26, <1>0 DEF EndsOrder, EndsAs, Only, LetsGo
<1>27. CASE MarksEnd(g)
  BY <1>27, <1>0 DEF MarksEnd, Only, LetsGo
<1>28. CASE ArchivesOutput(g)
  BY <1>28, <1>0 DEF ArchivesOutput, Only, LetsGo
<1>29. CASE ClaimsUnknown(g)
  <2> DEFINE items == {<<j, stage[j]>> : j \in {j \in Order : stage[j] = "unknown" /\ due[j] = "now" /\ Claimable(j)}}
  <2>1. gateway' = [gateway EXCEPT ![g].pc = "reconcile", ![g].todo = items]
    BY <1>29 DEF ClaimsUnknown, Claims
  <2>2. items \in SUBSET (Order \X JobStatus)
    OBVIOUS
  <2> HIDE DEF items
  <2> QED BY <2>1, <2>2, Listing DEF Label
<1>30. CASE TakesUnknown(g)
  BY <1>30, <1>0 DEF TakesUnknown, Takes, Skips, Only, LetsGo
<1>31. CASE Defers(g)
  BY <1>31, <1>0 DEF Defers, Only, LetsGo
<1>32. CASE HearsEnd(g)
  <2>1. PICK a \in {"completed", "failed"} :
          gateway' = [gateway EXCEPT ![g].pc = "reended", ![g].heard = a]
    BY <1>32 DEF HearsEnd
  <2> QED BY <2>1, Hearing
<1>33. CASE EndsUnknown(g)
  BY <1>33, <1>0 DEF EndsUnknown, EndsAs, Only, LetsGo
<1>34. CASE MarksEndOfUnknown(g)
  BY <1>34, <1>0 DEF MarksEndOfUnknown, Only, LetsGo
<1>35. CASE ReconcileDone(g)
  BY <1>35, <1>00 DEF ReconcileDone
<1>36. CASE TickEnds(g)
  BY <1>36, <1>0 DEF TickEnds, Only, LetsGo
<1>37. CASE StartGateway(g)
  BY <1>37 DEF StartGateway, Only
<1>38. CASE KillGateway(g)
  BY <1>38, <1>0 DEF KillGateway, Only
<1> QED
  BY <1>1, <1>2, <1>3, <1>4, <1>5, <1>6, <1>7, <1>8, <1>9, <1>10, <1>11, <1>12,
     <1>13, <1>14, <1>15, <1>16, <1>17, <1>18, <1>19, <1>20, <1>21, <1>22, <1>23,
     <1>24, <1>25, <1>26, <1>27, <1>28, <1>29, <1>30, <1>31, <1>32, <1>33, <1>34,
     <1>35, <1>36, <1>37, <1>38
     DEF Works

-----------------------------------------------------------------------------
(* Points. *)

\* What the labels of a process say of the points of its job; the items it has
\* yet to look at are jobs.
ProcessFits(g) ==
  LET p == gateway[g] IN
  /\ \A item \in p.todo : points[item[1]] # "none"
  /\ p.pc \in {"baseline", "leaving", "undo"} => points[p.at] # "none"
  /\ p.pc = "dropping" => points[p.at] \in {"charged", "released"}
  /\ p.pc = "moveOn" => points[p.at] = PointsFor(p.heard)
  /\ p.pc \in {"ended", "reended"} => p.heard \in {"completed", "failed"}

\* Points and status, row by row.
RowsFit ==
  /\ \A j \in Order : points[j] = "none" <=> stage[j] = "unborn"
  /\ PointsFollowStatus

\* Points settle once.
PointsSettle ==
  \A j \in Order :
    \/ points'[j] = points[j]
    \/ points[j] = "none" /\ points'[j] = "reserved"
    \/ points[j] = "reserved" /\ points'[j] \in {"charged", "released"}

\* Types, rows and labels: this is inductive.
PointsInv ==
  /\ stage \in [Order -> JobStatus]
  /\ points \in [Order -> {"none", "reserved", "charged", "released"}]
  /\ gateway \in [Gateway -> Process]
  /\ RowsFit
  /\ \A g \in Gateway : ProcessFits(g)

\* The labels of the others go on to fit: settled points stay.
LEMMA OthersFit ==
  ASSUME PointsInv, PointsSettle, NEW g \in Gateway, gateway'[g] = gateway[g]
  PROVE  ProcessFits(g)'
<1>1. gateway[g] \in Process /\ ProcessFits(g)
  BY DEF PointsInv
<1>2. \A item \in gateway[g].todo : item[1] \in Order
  BY <1>1 DEF Process
<1> QED BY <1>1, <1>2 DEF PointsSettle, ProcessFits, PointsFor, Process

\* The process that moves is again where its points allow it to be.
LEMMA MoverFits ==
  ASSUME PointsInv, NEW g \in Gateway, Works(g) \/ StartGateway(g) \/ KillGateway(g)
  PROVE  ProcessFits(g)' /\ PointsSettle
<1> USE DEF ProcessFits, rowVars, PointsSettle
<1>0. Off.pc = "down" /\ Off.todo = {}
  BY OffIsAProcess
<1>00. gateway[g] \in Process /\ ProcessFits(g) /\ g \in DOMAIN gateway
  BY DEF PointsInv
<1>000. /\ gateway[g].todo \subseteq Order \X JobStatus /\ gateway[g].at \in Order
        /\ \A j \in Order : points[j] \in {"none", "reserved", "charged", "released"}
        /\ gateway \in [Gateway -> Process]
  BY <1>00 DEF Process, PointsInv
<1>0000. \A l \in Label : LetsGo(g, l) => gateway'[g].pc = l /\ gateway'[g].todo = gateway[g].todo
  BY <1>000, Returning
<1> USE DEF StepsTo, Dies
<1>1. CASE Ticks(g)
  <2> DEFINE items == {<<j, stage[j]>> : j \in {j \in Order : stage[j] = "queued" /\ Claimable(j)}}
  <2>1. gateway' = [gateway EXCEPT ![g].pc = "queue", ![g].todo = items] /\ points' = points
    BY <1>1 DEF Ticks, Claims
  <2>2. items \in SUBSET (Order \X JobStatus) /\ \A item \in items : points[item[1]] # "none"
    BY DEF PointsInv, RowsFit, Active
  <2> HIDE DEF items
  <2>3. gateway'[g].pc = "queue" /\ gateway'[g].todo = items
    BY <2>1, <2>2, <1>000, Listing DEF Label
  <2> QED BY <2>1, <2>2, <2>3
<1>2. CASE QueueTakes(g)
  <2>1. PICK item \in gateway[g].todo :
          Takes(g, item, "baseline") \/ Skips(g, item)
    BY <1>2 DEF QueueTakes
  <2>2. gateway[g].pc = "queue" /\ points' = points
    BY <1>2 DEF QueueTakes
  <2>3. CASE Takes(g, item, "baseline")
    <3>1. /\ gateway'[g].pc = "baseline" /\ gateway'[g].at = item[1]
          /\ gateway'[g].todo = gateway[g].todo \ {item}
      BY <2>3, <1>00, <1>000 DEF Takes, Process
    <3> QED BY <3>1, <2>2, <1>00
  <2>4. CASE Skips(g, item)
    <3>1. gateway'[g].pc = "queue" /\ gateway'[g].todo = gateway[g].todo \ {item}
      BY <2>2, <2>4, <1>00, <1>000 DEF Skips, Process
    <3> QED BY <3>1, <2>2, <1>00
  <2> QED BY <2>1, <2>3, <2>4
<1>3. CASE BaselineFails(g)
  BY <1>3, <1>0, <1>00, <1>000, <1>0000 DEF BaselineFails, Process, Label
<1>4. CASE CapturesBaseline(g)
  BY <1>4, <1>0, <1>00, <1>000, <1>0000 DEF CapturesBaseline, Process, Label
<1>5. CASE LeavesQueue(g)
  BY <1>5, <1>0, <1>00, <1>000, <1>0000 DEF LeavesQueue, Process, Label
<1>6. CASE UndoesReservation(g)
  <2>1. /\ gateway'[g].pc = "dropping" /\ gateway'[g].at = gateway[g].at
        /\ gateway'[g].todo = gateway[g].todo
    BY <1>6, <1>00, <1>000 DEF UndoesReservation, Process
  <2>2. /\ gateway[g].pc = "undo"
        /\ points' = IF points[gateway[g].at] = "reserved"
                     THEN [points EXCEPT ![gateway[g].at] = "released"] ELSE points
    BY <1>6 DEF UndoesReservation, Job
  <2>3. PointsSettle
    BY <2>2, <1>000 DEF PointsInv
  <2>4. \A j \in Order : points[j] # "none" => points'[j] # "none"
    BY <2>3
  <2>5. points'[gateway[g].at] \in {"charged", "released"}
    BY <2>2, <1>00, <1>000 DEF PointsInv
  <2>6. \A item \in gateway[g].todo : item[1] \in Order
    BY <1>000
  <2> QED BY <2>1, <2>3, <2>4, <2>5, <2>6, <1>00
<1>7. CASE DropsOrder(g)
  BY <1>7, <1>0, <1>00, <1>000, <1>0000 DEF DropsOrder, Process, Label
<1>8. CASE QueueDone(g)
  BY <1>8, <1>00, <1>0000 DEF QueueDone, Label, InQueue
<1>9. CASE ListsActive(g)
  <2> DEFINE items == {<<j, stage[j]>> : j \in {j \in Order : Active(j)}}
  <2>1. gateway' = [gateway EXCEPT ![g].pc = "active", ![g].todo = items] /\ points' = points
    BY <1>9 DEF ListsActive, Claims
  <2>2. items \in SUBSET (Order \X JobStatus) /\ \A item \in items : points[item[1]] # "none"
    BY DEF PointsInv, RowsFit, Active
  <2> HIDE DEF items
  <2>3. gateway'[g].pc = "active" /\ gateway'[g].todo = items
    BY <2>1, <2>2, <1>000, Listing DEF Label
  <2> QED BY <2>1, <2>2, <2>3
<1>10. CASE TakesActive(g)
  BY <1>10, <1>0, <1>00, <1>000, <1>0000
     DEF TakesActive, Takes, Skips, FirstStep, Process, Label
<1>11. CASE MarksIntent(g)
  BY <1>11, <1>0, <1>00, <1>000, <1>0000 DEF MarksIntent, Process, Label
<1>12. CASE Sends(g)
  BY <1>12, <1>0, <1>00, <1>000, <1>0000 DEF Sends, Process, Label
<1>13. CASE SendFails(g)
  <2>1. PICK a \in {"ambiguous"} :
          gateway' = [gateway EXCEPT ![g].pc = "markAnswer", ![g].heard = a]
    BY <1>13 DEF SendFails
  <2>2. /\ gateway'[g].pc = "markAnswer" /\ gateway'[g].heard = a
        /\ gateway'[g].todo = gateway[g].todo /\ gateway'[g].at = gateway[g].at
    BY <2>1, <1>000, Hearing DEF Label, Reply, InSubmit, InReconcile
  <2> QED BY <1>13, <2>2, <1>00 DEF SendFails
<1>14. CASE HearsAnswer(g)
  <2>1. PICK a \in {"accepted", "rejected", "ambiguous"} :
          gateway' = [gateway EXCEPT ![g].pc = "markAnswer", ![g].heard = a]
    BY <1>14 DEF HearsAnswer
  <2>2. /\ gateway'[g].pc = "markAnswer" /\ gateway'[g].heard = a
        /\ gateway'[g].todo = gateway[g].todo /\ gateway'[g].at = gateway[g].at
    BY <2>1, <1>000, Hearing DEF Label, Reply, InSubmit, InReconcile
  <2> QED BY <1>14, <2>2, <1>00 DEF HearsAnswer
<1>15. CASE MarksAnswer(g)
  BY <1>15, <1>0, <1>00, <1>000, <1>0000 DEF MarksAnswer, Process, Label
<1>16. CASE SettlesPoints(g)
  <2> DEFINE to == PointsFor(gateway[g].heard)
  <2>1. /\ points' = IF points[gateway[g].at] = "reserved"
                     THEN [points EXCEPT ![gateway[g].at] = to] ELSE points
        /\ to \in {"charged", "released"}
    BY <1>16 DEF SettlesPoints, Job, PointsFor
  <2>2. PointsSettle
    BY <2>1, <1>000 DEF PointsInv
  <2>3. \A item \in gateway[g].todo : points'[item[1]] # "none"
    BY <2>2, <1>00, <1>000
  <2>4. CASE CanSettle(gateway[g].at, to)
    <3>1. /\ gateway'[g].pc = "moveOn" /\ gateway'[g].at = gateway[g].at
          /\ gateway'[g].todo = gateway[g].todo /\ gateway'[g].heard = gateway[g].heard
      BY <2>4, <1>16, <1>00, <1>000 DEF SettlesPoints, Job, Process
    <3>2. points'[gateway[g].at] = to
      BY <2>1, <2>4, <1>000 DEF CanSettle, PointsInv
    <3> QED BY <3>1, <3>2, <2>2, <2>3 DEF PointsFor
  <2>5. CASE ~CanSettle(gateway[g].at, to)
    BY <2>2, <2>5, <1>16, <1>0, <1>000 DEF SettlesPoints, Job
  <2> QED BY <2>4, <2>5
<1>17. CASE MovesOn(g)
  BY <1>17, <1>0, <1>00, <1>000, <1>0000
     DEF MovesOn, Job, CanSettle, PointsFor, Process, Label
<1>18. CASE Discovers(g)
  <2>1. /\ gateway'[g].pc \in {"bind", "markLost"} /\ gateway'[g].todo = gateway[g].todo
        /\ points' = points
    <3>1. CASE \E t \in (made \cap {Job(g)}) \cup Elsewhere :
                 gateway' = [gateway EXCEPT ![g].pc = "bind", ![g].task = t]
      <4>1. PICK t \in (made \cap {Job(g)}) \cup Elsewhere :
              gateway' = [gateway EXCEPT ![g].pc = "bind", ![g].task = t]
        BY <3>1
      <4>2. gateway'[g] = [[gateway[g] EXCEPT !.pc = "bind"] EXCEPT !.task = t]
        BY <4>1, <1>000
      <4>3. gateway'[g].pc = "bind" /\ gateway'[g].todo = gateway[g].todo
        BY <4>2, <1>00 DEF Process
      <4> QED BY <4>3, <1>18 DEF Discovers
    <3>2. CASE gateway' = [gateway EXCEPT ![g].pc = "markLost"]
      BY <3>2, <1>18, <1>00, <1>000 DEF Discovers, Process
    <3> QED BY <3>1, <3>2, <1>18 DEF Discovers
  <2> QED BY <2>1, <1>00
<1>19. CASE MarksLost(g)
  BY <1>19, <1>0, <1>00, <1>000, <1>0000 DEF MarksLost, Process, Label
<1>20. CASE GetsLost(g)
  BY <1>20, <1>0, <1>00, <1>000, <1>0000 DEF GetsLost, Process, Label
<1>21. CASE Binds(g)
  BY <1>21, <1>0, <1>00, <1>000, <1>0000 DEF Binds, Process, Label
<1>22. CASE GetsFollowed(g)
  BY <1>22, <1>0, <1>00, <1>000, <1>0000 DEF GetsFollowed, Process, Label
<1>23. CASE Polls(g)
  BY <1>23, <1>0, <1>00, <1>000, <1>0000 DEF Polls, Process, Label
<1>24. CASE MarksBlind(g)
  BY <1>24, <1>0, <1>00, <1>000, <1>0000 DEF MarksBlind, Process, Label
<1>25. CASE GoesBlind(g)
  BY <1>25, <1>0, <1>00, <1>000, <1>0000 DEF GoesBlind, Process, Label
<1>26. CASE EndsOrder(g)
  BY <1>26, <1>0, <1>00, <1>000, <1>0000 DEF EndsOrder, EndsAs, Process, Label
<1>27. CASE MarksEnd(g)
  BY <1>27, <1>0, <1>00, <1>000, <1>0000 DEF MarksEnd, Process, Label
<1>28. CASE ArchivesOutput(g)
  BY <1>28, <1>0, <1>00, <1>000, <1>0000 DEF ArchivesOutput, Process, Label
<1>29. CASE ClaimsUnknown(g)
  <2> DEFINE items == {<<j, stage[j]>> : j \in {j \in Order : stage[j] = "unknown" /\ due[j] = "now" /\ Claimable(j)}}
  <2>1. gateway' = [gateway EXCEPT ![g].pc = "reconcile", ![g].todo = items] /\ points' = points
    BY <1>29 DEF ClaimsUnknown, Claims
  <2>2. items \in SUBSET (Order \X JobStatus) /\ \A item \in items : points[item[1]] # "none"
    BY DEF PointsInv, RowsFit, Active
  <2> HIDE DEF items
  <2>3. gateway'[g].pc = "reconcile" /\ gateway'[g].todo = items
    BY <2>1, <2>2, <1>000, Listing DEF Label
  <2> QED BY <2>1, <2>2, <2>3
<1>30. CASE TakesUnknown(g)
  BY <1>30, <1>0, <1>00, <1>000, <1>0000 DEF TakesUnknown, Takes, Skips, Process, Label
<1>31. CASE Defers(g)
  BY <1>31, <1>0, <1>00, <1>000, <1>0000 DEF Defers, Process, Label
<1>32. CASE HearsEnd(g)
  <2>1. PICK a \in {"completed", "failed"} :
          gateway' = [gateway EXCEPT ![g].pc = "reended", ![g].heard = a]
    BY <1>32 DEF HearsEnd
  <2>2. /\ gateway'[g].pc = "reended" /\ gateway'[g].heard = a
        /\ gateway'[g].todo = gateway[g].todo /\ gateway'[g].at = gateway[g].at
    BY <2>1, <1>000, Hearing DEF Label, Reply, InSubmit, InReconcile
  <2> QED BY <1>32, <2>2, <1>00 DEF HearsEnd
<1>33. CASE EndsUnknown(g)
  BY <1>33, <1>0, <1>00, <1>000, <1>0000 DEF EndsUnknown, EndsAs, Process, Label
<1>34. CASE MarksEndOfUnknown(g)
  BY <1>34, <1>0, <1>00, <1>000, <1>0000 DEF MarksEndOfUnknown, Process, Label
<1>35. CASE ReconcileDone(g)
  BY <1>35, <1>00, <1>0000 DEF ReconcileDone, Label, InQueue
<1>36. CASE TickEnds(g)
  BY <1>36, <1>0, <1>00, <1>000, <1>0000 DEF TickEnds, Process, Label
<1>37. CASE StartGateway(g)
  BY <1>37, <1>00, <1>000 DEF StartGateway, Process
<1>38. CASE KillGateway(g)
  BY <1>38, <1>0, <1>00, <1>000 DEF KillGateway, Process
<1> QED
  BY <1>1, <1>2, <1>3, <1>4, <1>5, <1>6, <1>7, <1>8, <1>9, <1>10, <1>11, <1>12,
     <1>13, <1>14, <1>15, <1>16, <1>17, <1>18, <1>19, <1>20, <1>21, <1>22, <1>23,
     <1>24, <1>25, <1>26, <1>27, <1>28, <1>29, <1>30, <1>31, <1>32, <1>33, <1>34,
     <1>35, <1>36, <1>37, <1>38
     DEF Works

\* Rows fit after every step.
LEMMA RowsGoOn ==
  ASSUME PointsInv, NEW g \in Gateway, Works(g) \/ StartGateway(g) \/ KillGateway(g)
  PROVE  RowsFit' /\ stage' \in [Order -> JobStatus]
         /\ points' \in [Order -> {"none", "reserved", "charged", "released"}]
<1> DEFINE Rows == RowsFit' /\ stage' \in [Order -> JobStatus]
                   /\ points' \in [Order -> {"none", "reserved", "charged", "released"}]
<1>0. /\ stage \in [Order -> JobStatus]
      /\ points \in [Order -> {"none", "reserved", "charged", "released"}]
      /\ RowsFit /\ ProcessFits(g) /\ Job(g) \in Order
  BY DEF PointsInv, Process, Job
<1> USE DEF RowsFit, PointsFollowStatus, rowVars, JobStatus
<1>00. UNCHANGED <<stage, points>> => Rows
  BY <1>0
<1>1. CASE Ticks(g)
  BY <1>1, <1>00 DEF Ticks
<1>2. CASE QueueTakes(g)
  BY <1>2, <1>00 DEF QueueTakes
<1>3. CASE BaselineFails(g)
  BY <1>3, <1>00 DEF BaselineFails
<1>4. CASE CapturesBaseline(g)
  BY <1>4, <1>00 DEF CapturesBaseline
<1>5. CASE LeavesQueue(g)
  BY <1>5, <1>0 DEF LeavesQueue, Moves, CanMove, Job
<1>6. CASE UndoesReservation(g)
  BY <1>6, <1>0 DEF UndoesReservation, Moves, Job
<1>7. CASE DropsOrder(g)
  BY <1>7, <1>0 DEF DropsOrder, Moves, ProcessFits, Job
<1>8. CASE QueueDone(g)
  BY <1>8, <1>00 DEF QueueDone
<1>9. CASE ListsActive(g)
  BY <1>9, <1>00 DEF ListsActive
<1>10. CASE TakesActive(g)
  BY <1>10, <1>00 DEF TakesActive
<1>11. CASE MarksIntent(g)
  BY <1>11, <1>00 DEF MarksIntent
<1>12. CASE Sends(g)
  BY <1>12, <1>00 DEF Sends
<1>13. CASE SendFails(g)
  BY <1>13, <1>00 DEF SendFails
<1>14. CASE HearsAnswer(g)
  BY <1>14, <1>00 DEF HearsAnswer
<1>15. CASE MarksAnswer(g)
  BY <1>15, <1>00 DEF MarksAnswer
<1>16. CASE SettlesPoints(g)
  BY <1>16, <1>0 DEF SettlesPoints, Moves, PointsFor, Job
<1>17. CASE MovesOn(g)
  BY <1>17, <1>0 DEF MovesOn, Moves, CanMove, StatusAfter, PointsFor, ProcessFits, Job
<1>18. CASE Discovers(g)
  BY <1>18, <1>00 DEF Discovers
<1>19. CASE MarksLost(g)
  BY <1>19, <1>00 DEF MarksLost
<1>20. CASE GetsLost(g)
  BY <1>20, <1>0 DEF GetsLost, Moves, CanMove, Job
<1>21. CASE Binds(g)
  BY <1>21, <1>00 DEF Binds
<1>22. CASE GetsFollowed(g)
  BY <1>22, <1>0 DEF GetsFollowed, Moves, CanMove, Job
<1>23. CASE Polls(g)
  BY <1>23, <1>00 DEF Polls
<1>24. CASE MarksBlind(g)
  BY <1>24, <1>00 DEF MarksBlind
<1>25. CASE GoesBlind(g)
  BY <1>25, <1>0 DEF GoesBlind, Moves, CanMove, Job
<1>26. CASE EndsOrder(g)
  BY <1>26, <1>0 DEF EndsOrder, Moves, CanMove, EndsAs, ProcessFits, Job
<1>27. CASE MarksEnd(g)
  BY <1>27, <1>00 DEF MarksEnd
<1>28. CASE ArchivesOutput(g)
  BY <1>28, <1>00 DEF ArchivesOutput
<1>29. CASE ClaimsUnknown(g)
  BY <1>29, <1>00 DEF ClaimsUnknown
<1>30. CASE TakesUnknown(g)
  BY <1>30, <1>00 DEF TakesUnknown
<1>31. CASE Defers(g)
  BY <1>31, <1>0 DEF Defers, Moves, CanMove, Job
<1>32. CASE HearsEnd(g)
  BY <1>32, <1>00 DEF HearsEnd
<1>33. CASE EndsUnknown(g)
  BY <1>33, <1>0 DEF EndsUnknown, Moves, CanMove, EndsAs, ProcessFits, Job
<1>34. CASE MarksEndOfUnknown(g)
  BY <1>34, <1>00 DEF MarksEndOfUnknown
<1>35. CASE ReconcileDone(g)
  BY <1>35, <1>00 DEF ReconcileDone
<1>36. CASE TickEnds(g)
  BY <1>36, <1>00 DEF TickEnds
<1>37. CASE StartGateway(g)
  BY <1>37, <1>00 DEF StartGateway
<1>38. CASE KillGateway(g)
  BY <1>38, <1>00 DEF KillGateway
<1> QED
  BY <1>1, <1>2, <1>3, <1>4, <1>5, <1>6, <1>7, <1>8, <1>9, <1>10, <1>11, <1>12,
     <1>13, <1>14, <1>15, <1>16, <1>17, <1>18, <1>19, <1>20, <1>21, <1>22, <1>23,
     <1>24, <1>25, <1>26, <1>27, <1>28, <1>29, <1>30, <1>31, <1>32, <1>33, <1>34,
     <1>35, <1>36, <1>37, <1>38
     DEF Works

\* Nothing is admitted at first.
LEMMA PointsInvHoldsAtFirst == PipelineInit => PointsInv
<1> SUFFICES ASSUME PipelineInit PROVE PointsInv
  OBVIOUS
<1>1. stage \in [Order -> JobStatus] /\ \A j \in Order : stage[j] = "unborn"
  BY DEF PipelineInit, JobStatus
<1>2. /\ points \in [Order -> {"none", "reserved", "charged", "released"}]
      /\ \A j \in Order : points[j] = "none"
  BY DEF PipelineInit
<1>3. gateway \in [Gateway -> Process] /\ \A g \in Gateway : gateway[g] = Off
  BY OffIsAProcess DEF PipelineInit
<1>4. RowsFit
  BY <1>1, <1>2 DEF RowsFit, PointsFollowStatus
<1>5. \A g \in Gateway : ProcessFits(g)
  BY <1>3, OffIsAProcess DEF ProcessFits
<1> QED BY <1>1, <1>2, <1>3, <1>4, <1>5 DEF PointsInv

\* Every step keeps points, status and labels in line.
LEMMA PointsInvIsKept == PointsInv /\ [PipelineNext]_pipelineVars => PointsInv'
<1> SUFFICES ASSUME PointsInv, [PipelineNext]_pipelineVars PROVE PointsInv'
  OBVIOUS
<1> DEFINE Move(g) == Works(g) \/ StartGateway(g) \/ KillGateway(g)
<1>1. ASSUME NEW g \in Gateway, Move(g) PROVE PointsInv'
  <2>1. Only(g)
    BY <1>1, OnlyOneMoves DEF PointsInv
  <2>2. ProcessFits(g)' /\ PointsSettle
    BY <1>1, MoverFits
  <2>3. \A h \in Gateway : ProcessFits(h)'
    BY <2>1, <2>2, OthersFit DEF Only
  <2> QED BY <1>1, <2>1, <2>3, RowsGoOn DEF PointsInv, Only
<1>2. ASSUME NEW j \in Order, AdmitOrder(j) PROVE PointsInv'
  <2>1. /\ stage' = [stage EXCEPT ![j] = "queued"] /\ points' = [points EXCEPT ![j] = "reserved"]
        /\ stage[j] = "unborn" /\ points[j] = "none" /\ gateway' = gateway
    BY <1>2 DEF AdmitOrder, PointsInv, RowsFit
  <2>2. PointsSettle
    BY <2>1 DEF PointsSettle, PointsInv
  <2>3. \A h \in Gateway : ProcessFits(h)'
    BY <2>1, <2>2, OthersFit
  <2>4. RowsFit' /\ stage' \in [Order -> JobStatus]
        /\ points' \in [Order -> {"none", "reserved", "charged", "released"}]
    BY <2>1 DEF PointsInv, RowsFit, PointsFollowStatus, JobStatus
  <2> QED BY <2>1, <2>3, <2>4 DEF PointsInv
<1>3. ASSUME UNCHANGED <<stage, points, gateway>> PROVE PointsInv'
  BY <1>3 DEF PointsInv, RowsFit, PointsFollowStatus, ProcessFits
<1>4. ASSUME NEW j \in Order,
             MakesTask(j) \/ ClaimRunsOut(j) \/ LeaseRunsOut(j) \/ ComesDue(j)
      PROVE  UNCHANGED <<stage, points, gateway>>
  BY <1>4 DEF MakesTask, ClaimRunsOut, LeaseRunsOut, ComesDue, rowVars
<1>5. CASE UNCHANGED pipelineVars
  BY <1>3, <1>5 DEF pipelineVars, rowVars
<1> QED BY <1>1, <1>2, <1>3, <1>4, <1>5 DEF PipelineNext

\* Points and status fit, for any number of gateways, jobs, kills and stalls.
THEOREM PointsFollowStatusAlways == PipelineSpec => []PointsFollowStatus
<1>1. PointsInv => PointsFollowStatus
  BY DEF PointsInv, RowsFit
<1> QED BY PointsInvHoldsAtFirst, PointsInvIsKept, <1>1, PTL DEF PipelineSpec

-----------------------------------------------------------------------------
(* The paid request. *)

\* The intent of a job has been marked.
Late(j) == evidence[j] \notin {"none", "baseline_captured"}

\* A job is sent after its intent was marked, and by the one that marked it.
SendsFit ==
  \A j \in Order :
    /\ sent[j] \in {0, 1}
    /\ ~Late(j) => sent[j] = 0
    /\ \A g \in Gateway : gateway[g].pc = "send" /\ gateway[g].at = j =>
         /\ Late(j) /\ sent[j] = 0
         /\ \A h \in Gateway : gateway[h].pc = "send" /\ gateway[h].at = j => h = g

\* Types and requests: inductive beside PointsInv.
SendsInv ==
  /\ stage \in [Order -> JobStatus]
  /\ gateway \in [Gateway -> Process]
  /\ evidence \in [Order -> Evidence] /\ sent \in [Order -> Nat]
  /\ SendsFit

\* What all steps but two do: no request is sent or about to be, and a marked
\* intent stays marked.
Harmless(g) ==
  /\ gateway'[g].pc # "send" /\ sent' = sent
  /\ evidence' \in [Order -> Evidence]
  /\ \A j \in Order : Late(j) => Late(j)'

\* Harmless steps keep what holds of requests.
LEMMA HarmlessSteps ==
  ASSUME SendsInv, NEW g \in Gateway, Harmless(g), Only(g)
  PROVE  SendsFit'
BY DEF Harmless, Only, SendsFit, SendsInv, Late

\* All steps but an intent and a request are harmless.
LEMMA MostStepsAreHarmless ==
  ASSUME SendsInv, NEW g \in Gateway, Works(g) \/ StartGateway(g) \/ KillGateway(g),
         ~MarksIntent(g), ~Sends(g)
  PROVE  Harmless(g)
<1> USE DEF Harmless, providerVars, evidenceVars, Late, StepsTo, Dies
<1>0. Off.pc = "down"
  BY OffIsAProcess
<1>00. /\ gateway \in [Gateway -> Process] /\ gateway[g] \in Process /\ Job(g) \in Order
       /\ evidence \in [Order -> Evidence]
  BY DEF SendsInv, Process, Job
<1>000. \A l \in Label : LetsGo(g, l) => gateway'[g].pc = l
  BY <1>00, Returning
<1>1. CASE Ticks(g)
  BY <1>1, <1>0, <1>00, <1>000 DEF Ticks, Claims, Process, Label, InQueue
<1>2. CASE QueueTakes(g)
  BY <1>2, <1>0, <1>00, <1>000 DEF QueueTakes, Takes, Skips, Process, Label, InQueue
<1>3. CASE BaselineFails(g)
  BY <1>3, <1>0, <1>00, <1>000 DEF BaselineFails, Process, Label, InQueue
<1>4. CASE CapturesBaseline(g)
  BY <1>4, <1>0, <1>00, <1>000 DEF CapturesBaseline, Evidence, Process, Label, InQueue
<1>5. CASE LeavesQueue(g)
  BY <1>5, <1>0, <1>00, <1>000 DEF LeavesQueue, Process, Label, InQueue
<1>6. CASE UndoesReservation(g)
  BY <1>6, <1>0, <1>00, <1>000 DEF UndoesReservation, Process, Label, InQueue
<1>7. CASE DropsOrder(g)
  BY <1>7, <1>0, <1>00, <1>000 DEF DropsOrder, Process, Label, InQueue
<1>8. CASE QueueDone(g)
  BY <1>8, <1>0, <1>00, <1>000 DEF QueueDone, Process, Label, InQueue
<1>9. CASE ListsActive(g)
  BY <1>9, <1>0, <1>00, <1>000 DEF ListsActive, Process, Label, InQueue
<1>10. CASE TakesActive(g)
  BY <1>10, <1>0, <1>00, <1>000
     DEF TakesActive, Takes, Skips, FirstStep, Process, Label, InQueue
<1>11. CASE SendFails(g)
  BY <1>11, <1>0, <1>00, <1>000 DEF SendFails, Process, Label, InQueue
<1>12. CASE HearsAnswer(g)
  BY <1>12, <1>0, <1>00, <1>000 DEF HearsAnswer, Process, Label, InQueue
<1>13. CASE MarksAnswer(g)
  BY <1>13, <1>0, <1>00, <1>000
     DEF MarksAnswer, Marks, OutcomeOf, Evidence, Process, Label, InQueue
<1>14. CASE SettlesPoints(g)
  BY <1>14, <1>0, <1>00, <1>000 DEF SettlesPoints, Process, Label, InQueue
<1>15. CASE MovesOn(g)
  BY <1>15, <1>0, <1>00, <1>000 DEF MovesOn, Process, Label, InQueue
<1>16. CASE Discovers(g)
  BY <1>16, <1>0, <1>00, <1>000 DEF Discovers, Process, Label, InQueue
<1>17. CASE MarksLost(g)
  BY <1>17, <1>0, <1>00, <1>000 DEF MarksLost, Marks, Evidence, Process, Label, InQueue
<1>18. CASE GetsLost(g)
  BY <1>18, <1>0, <1>00, <1>000 DEF GetsLost, Process, Label, InQueue
<1>19. CASE Binds(g)
  BY <1>19, <1>0, <1>00, <1>000 DEF Binds, Marks, Evidence, Process, Label, InQueue
<1>20. CASE GetsFollowed(g)
  BY <1>20, <1>0, <1>00, <1>000 DEF GetsFollowed, Process, Label, InQueue
<1>21. CASE Polls(g)
  BY <1>21, <1>0, <1>00, <1>000 DEF Polls, Process, Label, InQueue
<1>22. CASE MarksBlind(g)
  BY <1>22, <1>0, <1>00, <1>000 DEF MarksBlind, Marks, Evidence, Process, Label, InQueue
<1>23. CASE GoesBlind(g)
  BY <1>23, <1>0, <1>00, <1>000 DEF GoesBlind, Process, Label, InQueue
<1>24. CASE EndsOrder(g)
  BY <1>24, <1>0, <1>00, <1>000 DEF EndsOrder, EndsAs, Process, Label, InQueue
<1>25. CASE MarksEnd(g)
  BY <1>25, <1>0, <1>00, <1>000
     DEF MarksEnd, Marks, EvidenceOfEnd, Evidence, Process, Label, InQueue
<1>26. CASE ArchivesOutput(g)
  BY <1>26, <1>0, <1>00, <1>000 DEF ArchivesOutput, Process, Label, InQueue
<1>27. CASE ClaimsUnknown(g)
  BY <1>27, <1>0, <1>00, <1>000 DEF ClaimsUnknown, Claims, Process, Label, InQueue
<1>28. CASE TakesUnknown(g)
  BY <1>28, <1>0, <1>00, <1>000 DEF TakesUnknown, Takes, Skips, Process, Label, InQueue
<1>29. CASE Defers(g)
  BY <1>29, <1>0, <1>00, <1>000 DEF Defers, Process, Label, InQueue
<1>30. CASE HearsEnd(g)
  BY <1>30, <1>0, <1>00, <1>000 DEF HearsEnd, Process, Label, InQueue
<1>31. CASE EndsUnknown(g)
  BY <1>31, <1>0, <1>00, <1>000 DEF EndsUnknown, EndsAs, Process, Label, InQueue
<1>32. CASE MarksEndOfUnknown(g)
  BY <1>32, <1>0, <1>00, <1>000
     DEF MarksEndOfUnknown, Marks, EvidenceOfEnd, Evidence, Process, Label, InQueue
<1>33. CASE ReconcileDone(g)
  BY <1>33, <1>0, <1>00, <1>000 DEF ReconcileDone, Process, Label, InQueue
<1>34. CASE TickEnds(g)
  BY <1>34, <1>0, <1>00, <1>000 DEF TickEnds, Process, Label, InQueue
<1>35. CASE StartGateway(g)
  BY <1>35, <1>00 DEF StartGateway, Process
<1>36. CASE KillGateway(g)
  BY <1>36, <1>0, <1>00 DEF KillGateway
<1> QED
  BY <1>1, <1>2, <1>3, <1>4, <1>5, <1>6, <1>7, <1>8, <1>9, <1>10, <1>11, <1>12,
     <1>13, <1>14, <1>15, <1>16, <1>17, <1>18, <1>19, <1>20, <1>21, <1>22, <1>23,
     <1>24, <1>25, <1>26, <1>27, <1>28, <1>29, <1>30, <1>31, <1>32, <1>33, <1>34,
     <1>35, <1>36
     DEF Works

\* An intent is marked by one process, and before any request.
LEMMA IntentIsMarkedOnce ==
  ASSUME SendsInv, NEW g \in Gateway, MarksIntent(g), Only(g)
  PROVE  SendsFit' /\ evidence' \in [Order -> Evidence] /\ sent' = sent
<1>0. /\ gateway \in [Gateway -> Process] /\ Job(g) \in Order /\ sent' = sent
      /\ evidence \in [Order -> Evidence]
  BY DEF SendsInv, Process, Job, MarksIntent, providerVars
<1>1. CASE CanMark(g, Unsent)
  <2>1. /\ evidence' = [evidence EXCEPT ![Job(g)] = "submitting"]
        /\ ~Late(Job(g)) /\ gateway'[g].pc = "send" /\ gateway'[g].at = Job(g)
    BY <1>0, <1>1 DEF MarksIntent, CanMark, Unsent, Marks, Late, StepsTo, Job, Process
  <2>2. evidence' \in [Order -> Evidence] /\ Late(Job(g))' /\ \A j \in Order : Late(j) => Late(j)'
    BY <1>0, <2>1 DEF Evidence, Late, Job
  <2>3. sent[Job(g)] = 0 /\ \A h \in Gateway : ~(gateway[h].pc = "send" /\ gateway[h].at = Job(g))
    BY <1>0, <2>1 DEF SendsInv, SendsFit
  <2> QED BY <1>0, <2>1, <2>2, <2>3 DEF SendsInv, SendsFit, Only, Job, Late
<1>2. CASE ~CanMark(g, Unsent)
  <2>1. gateway'[g].pc = "down" /\ evidence' = evidence
    BY <1>0, <1>2, OffIsAProcess DEF MarksIntent, Dies
  <2> QED BY <1>0, <2>1, HarmlessSteps DEF Harmless, Late
<1> QED BY <1>1, <1>2

\* A request is the first of its job.
LEMMA RequestIsSentOnce ==
  ASSUME SendsInv, NEW g \in Gateway, Sends(g), Only(g)
  PROVE  SendsFit' /\ evidence' = evidence /\ sent' \in [Order -> Nat]
<1>0. gateway \in [Gateway -> Process] /\ Job(g) \in Order /\ evidence' = evidence
  BY DEF SendsInv, Process, Job, Sends, evidenceVars
<1>1. /\ gateway[g].pc = "send" /\ gateway'[g].pc = "answer"
      /\ sent' = [sent EXCEPT ![Job(g)] = @ + 1]
  BY <1>0 DEF Sends, StepsTo, Process
<1>2. Late(Job(g)) /\ sent[Job(g)] = 0
      /\ \A h \in Gateway : gateway[h].pc = "send" /\ gateway[h].at = Job(g) => h = g
  BY <1>0, <1>1 DEF SendsInv, SendsFit, Job
<1>3. sent' \in [Order -> Nat] /\ sent'[Job(g)] = 1
      /\ \A j \in Order \ {Job(g)} : sent'[j] = sent[j]
  BY <1>0, <1>1, <1>2 DEF SendsInv
<1> QED BY <1>0, <1>1, <1>2, <1>3 DEF SendsInv, SendsFit, Only, Late

\* Nothing is sent at first.
LEMMA SendsInvHoldsAtFirst == PipelineInit => SendsInv
BY OffIsAProcess DEF PipelineInit, SendsInv, SendsFit, Late, JobStatus, Evidence

\* Every step keeps what holds of requests.
LEMMA SendsInvIsKept ==
  SendsInv /\ PointsInv /\ [PipelineNext]_pipelineVars => SendsInv'
<1> SUFFICES ASSUME SendsInv, PointsInv, [PipelineNext]_pipelineVars PROVE SendsInv'
  OBVIOUS
<1> DEFINE Move(g) == Works(g) \/ StartGateway(g) \/ KillGateway(g)
<1>0. \A g \in Gateway : Move(g) => Only(g)
  BY OnlyOneMoves DEF SendsInv
<1>1. stage' \in [Order -> JobStatus]
  BY PointsInvIsKept DEF PointsInv
<1>2. ASSUME NEW g \in Gateway, Move(g) PROVE SendsInv'
  <2>1. CASE MarksIntent(g)
    BY <1>0, <1>1, <1>2, <2>1, IntentIsMarkedOnce DEF SendsInv, Only
  <2>2. CASE Sends(g)
    BY <1>0, <1>1, <1>2, <2>2, RequestIsSentOnce DEF SendsInv, Only
  <2>3. CASE ~MarksIntent(g) /\ ~Sends(g)
    <3>1. Harmless(g) /\ Only(g)
      BY <1>0, <1>2, <2>3, MostStepsAreHarmless
    <3> QED BY <1>1, <3>1, HarmlessSteps DEF SendsInv, Only, Harmless
  <2> QED BY <2>1, <2>2, <2>3
<1>3. ASSUME UNCHANGED <<evidence, sent, gateway>> PROVE SendsInv'
  BY <1>1, <1>3 DEF SendsInv, SendsFit, Late
<1>4. ASSUME NEW j \in Order,
             \/ AdmitOrder(j) \/ MakesTask(j) \/ ClaimRunsOut(j)
             \/ LeaseRunsOut(j) \/ ComesDue(j)
      PROVE  UNCHANGED <<evidence, sent, gateway>>
  BY <1>4 DEF AdmitOrder, MakesTask, ClaimRunsOut, LeaseRunsOut, ComesDue, evidenceVars,
              providerVars
<1>5. CASE UNCHANGED pipelineVars
  BY <1>3, <1>5 DEF pipelineVars, evidenceVars, providerVars
<1> QED BY <1>2, <1>3, <1>4, <1>5 DEF PipelineNext

\* The paid request of a job is sent once, for any number of gateways, jobs,
\* kills and stalls.
THEOREM PaidOnceAlways == PipelineSpec => []PaidOnce
<1>1. SendsInv => PaidOnce
  BY DEF SendsInv, SendsFit, PaidOnce
<1> QED BY SendsInvHoldsAtFirst, SendsInvIsKept, PointsInvHoldsAtFirst, PointsInvIsKept,
           <1>1, PTL DEF PipelineSpec

-----------------------------------------------------------------------------
(* Refunds. *)

\* The job has not left the queue.
Early(j) == stage[j] \in {"unborn", "queued"}

\* What the labels of a process say of its request.
RequestFits(g) ==
  LET p == gateway[g] IN
  /\ p.pc \in {"intent", "discover", "bind"} => ~Early(p.at)
  /\ p.pc = "answer" => sent[p.at] = 1
  /\ p.pc \in {"markAnswer", "settle", "moveOn"} /\ p.heard = "rejected" =>
       sent[p.at] = 1 /\ p.at \notin flight \cup made

\* A job that ended in the queue is not sent any more.
Shut(j) ==
  /\ stage[j] = "failed"
  /\ \A g \in Gateway : gateway[g].pc \in {"intent", "send"} => gateway[g].at # j

\* Points that went back for good were those of a job that was rejected, or
\* that ended in the queue.
RefundFits(j) ==
  /\ j \in flight \cup made => sent[j] = 1
  /\ Early(j) => ~Late(j)
  /\ points[j] = "released" /\ j \notin disowned =>
       j \notin flight \cup made /\ (sent[j] = 1 \/ Shut(j))

\* Inductive: the two before, with what refunds rest on.
RefundsInv ==
  /\ PointsInv /\ SendsInv
  /\ flight \subseteq Order /\ made \subseteq Order
  /\ \A g \in Gateway : RequestFits(g)
  /\ \A j \in Order : RefundFits(j)

Watched == {"intent", "discover", "bind", "send", "answer", "markAnswer", "settle", "moveOn"}

\* Most steps neither come near the request nor move points.
StageGoesOn ==
  \A j \in Order : stage'[j] = stage[j] \/ (~Early(j)' /\ stage[j] # "failed")
\* A step that is not near a request, nor at points.
Remote(g) ==
  /\ UNCHANGED <<flight, made, sent, points, disowned>>
  /\ gateway'[g].pc \notin Watched
  /\ \A j \in Order : Late(j)' => Late(j)
  /\ StageGoesOn

\* What holds of requests after a step of g, the rows apart.
LEMMA RemoteSteps ==
  ASSUME RefundsInv, NEW g \in Gateway, Remote(g), Only(g)
  PROVE  (\A h \in Gateway : RequestFits(h)') /\ \A j \in Order : RefundFits(j)'
<1>0. \A h \in Gateway : gateway[h] \in Process /\ gateway[h].at \in Order
  BY DEF RefundsInv, SendsInv, Process
<1>1. \A h \in Gateway : RequestFits(h)'
  BY <1>0 DEF RefundsInv, Remote, StageGoesOn, Only, RequestFits, Early, Watched
<1>2. ASSUME NEW j \in Order, Shut(j) PROVE Shut(j)'
  BY <1>2 DEF Remote, StageGoesOn, Only, Shut, Watched
<1>3. \A j \in Order : RefundFits(j)'
  BY <1>2 DEF RefundsInv, Remote, StageGoesOn, RefundFits, Early
<1> QED BY <1>1, <1>3

\* All steps but eleven are remote.
LEMMA MostStepsAreRemote ==
  ASSUME RefundsInv, NEW g \in Gateway, Works(g) \/ StartGateway(g) \/ KillGateway(g),
         ~UndoesReservation(g), ~DropsOrder(g), ~TakesActive(g), ~MarksIntent(g),
         ~Sends(g), ~SendFails(g), ~HearsAnswer(g), ~MarksAnswer(g),
         ~SettlesPoints(g), ~Discovers(g), ~Binds(g)
  PROVE  Remote(g)
<1> USE DEF Remote, Watched, StageGoesOn, Early, Late, StepsTo, Dies, rowVars,
            evidenceVars, providerVars
<1>0. Off.pc = "down"
  BY OffIsAProcess
<1>00. /\ gateway \in [Gateway -> Process] /\ gateway[g] \in Process /\ Job(g) \in Order
       /\ evidence \in [Order -> Evidence] /\ stage \in [Order -> JobStatus]
       /\ ProcessFits(g)
  BY DEF RefundsInv, PointsInv, SendsInv, Process, Job
<1>000. \A l \in Label : LetsGo(g, l) => gateway'[g].pc = l
  BY <1>00, Returning
<1>1. CASE Ticks(g)
  BY <1>1, <1>0, <1>00, <1>000 DEF Ticks, Claims, Job, Process, Label, InQueue
<1>2. CASE QueueTakes(g)
  BY <1>2, <1>0, <1>00, <1>000
     DEF QueueTakes, Takes, Skips, Job, Process, Label, InQueue
<1>3. CASE BaselineFails(g)
  BY <1>3, <1>0, <1>00, <1>000 DEF BaselineFails, Job, Process, Label, InQueue
<1>4. CASE CapturesBaseline(g)
  BY <1>4, <1>0, <1>00, <1>000
     DEF CapturesBaseline, Evidence, Job, Process, Label, InQueue
<1>5. CASE LeavesQueue(g)
  BY <1>5, <1>0, <1>00, <1>000 DEF LeavesQueue, Moves, Job, Process, Label, InQueue
<1>6. CASE QueueDone(g)
  BY <1>6, <1>0, <1>00, <1>000 DEF QueueDone, Job, Process, Label, InQueue
<1>7. CASE ListsActive(g)
  BY <1>7, <1>0, <1>00, <1>000 DEF ListsActive, Job, Process, Label, InQueue
<1>8. CASE MovesOn(g)
  BY <1>8, <1>0, <1>00, <1>000
     DEF MovesOn, Moves, CanMove, StatusAfter, Job, Process, Label, InQueue
<1>9. CASE MarksLost(g)
  BY <1>9, <1>0, <1>00, <1>000
     DEF MarksLost, Marks, CanMark, Evidence, Job, Process, Label, InQueue
<1>10. CASE GetsLost(g)
  BY <1>10, <1>0, <1>00, <1>000
     DEF GetsLost, Moves, CanMove, Job, Process, Label, InQueue
<1>11. CASE GetsFollowed(g)
  BY <1>11, <1>0, <1>00, <1>000
     DEF GetsFollowed, Moves, CanMove, Job, Process, Label, InQueue
<1>12. CASE Polls(g)
  BY <1>12, <1>0, <1>00, <1>000 DEF Polls, Job, Process, Label, InQueue
<1>13. CASE MarksBlind(g)
  BY <1>13, <1>0, <1>00, <1>000
     DEF MarksBlind, Marks, CanMark, Evidence, Job, Process, Label, InQueue
<1>14. CASE GoesBlind(g)
  BY <1>14, <1>0, <1>00, <1>000
     DEF GoesBlind, Moves, CanMove, Job, Process, Label, InQueue
<1>15. CASE EndsOrder(g)
  BY <1>15, <1>0, <1>00, <1>000
     DEF EndsOrder, EndsAs, Moves, CanMove, ProcessFits, Job, Process, Label,
         InQueue
<1>16. CASE MarksEnd(g)
  BY <1>16, <1>0, <1>00, <1>000
     DEF MarksEnd, Marks, CanMark, EvidenceOfEnd, Evidence, Job, Process, Label,
         InQueue
<1>17. CASE ArchivesOutput(g)
  BY <1>17, <1>0, <1>00, <1>000 DEF ArchivesOutput, Job, Process, Label, InQueue
<1>18. CASE ClaimsUnknown(g)
  BY <1>18, <1>0, <1>00, <1>000 DEF ClaimsUnknown, Claims, Job, Process, Label, InQueue
<1>19. CASE TakesUnknown(g)
  BY <1>19, <1>0, <1>00, <1>000
     DEF TakesUnknown, Takes, Skips, Job, Process, Label, InQueue
<1>20. CASE Defers(g)
  BY <1>20, <1>0, <1>00, <1>000 DEF Defers, Moves, CanMove, Job, Process, Label, InQueue
<1>21. CASE HearsEnd(g)
  BY <1>21, <1>0, <1>00, <1>000 DEF HearsEnd, Job, Process, Label, InQueue
<1>22. CASE EndsUnknown(g)
  BY <1>22, <1>0, <1>00, <1>000
     DEF EndsUnknown, EndsAs, Moves, CanMove, ProcessFits, Job, Process, Label,
         InQueue
<1>23. CASE MarksEndOfUnknown(g)
  BY <1>23, <1>0, <1>00, <1>000
     DEF MarksEndOfUnknown, Marks, CanMark, EvidenceOfEnd, Evidence, Job, Process,
         Label, InQueue
<1>24. CASE ReconcileDone(g)
  BY <1>24, <1>0, <1>00, <1>000 DEF ReconcileDone, Job, Process, Label, InQueue
<1>25. CASE TickEnds(g)
  BY <1>25, <1>0, <1>00, <1>000 DEF TickEnds, Job, Process, Label, InQueue
<1>26. CASE StartGateway(g)
  BY <1>26, <1>00 DEF StartGateway, Process
<1>27. CASE KillGateway(g)
  BY <1>27, <1>0, <1>00 DEF KillGateway
<1> QED
  BY <1>1, <1>2, <1>3, <1>4, <1>5, <1>6, <1>7, <1>8, <1>9, <1>10, <1>11, <1>12,
     <1>13, <1>14, <1>15, <1>16, <1>17, <1>18, <1>19, <1>20, <1>21, <1>22, <1>23,
     <1>24, <1>25, <1>26, <1>27
     DEF Works

\* What a step keeps of the requests of the other processes.
LEMMA OtherRequestsFit ==
  ASSUME RefundsInv, NEW g \in Gateway, Only(g),
         \A j \in Order : Early(j)' => Early(j),
         \A j \in Order : sent[j] = 1 =>
            sent'[j] = 1 /\ (j \in (flight \cup made)' => j \in flight \cup made)
  PROVE  \A h \in Gateway \ {g} : RequestFits(h)'
<1>0. \A h \in Gateway : gateway[h].at \in Order /\ RequestFits(h)
  BY DEF RefundsInv, SendsInv, Process
<1> QED BY <1>0 DEF Only, RequestFits

\* A step that stays away from intents and requests shuts no job and opens none.
LEMMA ShutStaysShut ==
  ASSUME NEW g \in Gateway, Only(g), NEW j \in Order, Shut(j),
         gateway'[g].pc \in {"intent", "send"} => gateway'[g].at # j,
         stage'[j] = "failed"
  PROVE  Shut(j)'
BY DEF Only, Shut

\* The eleven, one by one.
LEMMA NearStepsFit ==
  ASSUME RefundsInv, NEW g \in Gateway, Only(g),
         \/ UndoesReservation(g) \/ DropsOrder(g) \/ TakesActive(g) \/ MarksIntent(g)
         \/ Sends(g) \/ SendFails(g) \/ HearsAnswer(g) \/ MarksAnswer(g)
         \/ SettlesPoints(g) \/ Discovers(g) \/ Binds(g)
  PROVE  (\A h \in Gateway : RequestFits(h)') /\ \A j \in Order : RefundFits(j)'
<1> DEFINE p == gateway[g]
<1> USE DEF rowVars, evidenceVars, providerVars
<1>0. /\ gateway \in [Gateway -> Process] /\ p \in Process /\ p.at \in Order
      /\ Job(g) = p.at /\ RequestFits(g) /\ (\A j \in Order : RefundFits(j))
      /\ evidence \in [Order -> Evidence] /\ stage \in [Order -> JobStatus]
      /\ points \in [Order -> {"none", "reserved", "charged", "released"}]
      /\ SendsFit /\ sent \in [Order -> Nat] /\ \A h \in Gateway : RequestFits(h)
  BY DEF RefundsInv, PointsInv, SendsInv, Process, Job
<1>1. CASE UndoesReservation(g)
  <2>1. gateway'[g].pc = "dropping"
    BY <1>0, <1>1 DEF UndoesReservation, StepsTo, Process
  <2>2. UNCHANGED <<stage, evidence, sent, flight, made>>
    BY <1>1 DEF UndoesReservation
  <2>3. \A h \in Gateway : RequestFits(h)'
    BY <2>1, <2>2, OtherRequestsFit DEF RequestFits, Early
  <2>4. \A j \in Order : Shut(j) => Shut(j)'
    BY <2>1, <2>2, ShutStaysShut DEF Shut
  <2>5. \A j \in Order : points'[j] = "released" /\ j \notin disowned' =>
                         points[j] = "released" /\ j \notin disowned
    BY <1>0, <1>1 DEF UndoesReservation
  <2> QED BY <1>0, <2>2, <2>3, <2>4, <2>5 DEF RefundFits, Early, Late
<1>2. CASE DropsOrder(g)
  <2>1. gateway'[g].pc = "queueDone"
    BY <1>0, <1>2 DEF DropsOrder, StepsTo, Process
  <2>2. UNCHANGED <<points, evidence, sent, flight, made>>
    BY <1>2 DEF DropsOrder
  <2>3. /\ \A j \in Order \ {p.at} : stage'[j] = stage[j] /\ (j \in disowned' <=> j \in disowned)
        /\ \/ stage'[p.at] = stage[p.at] /\ (p.at \in disowned' <=> p.at \in disowned)
           \/ /\ stage[p.at] \in {"queued", "submitting"} /\ stage'[p.at] = "failed"
              /\ p.at \in disowned \ disowned' => stage[p.at] = "queued"
    BY <1>0, <1>2 DEF DropsOrder, Moves
  <2>4. \A h \in Gateway : RequestFits(h)'
    BY <2>1, <2>2, <2>3, OtherRequestsFit DEF RequestFits, Early
  <2>5. \A j \in Order : Shut(j) => Shut(j)'
    BY <2>1, <2>3, ShutStaysShut DEF Shut
  <2>6. ASSUME NEW j \in Order, stage[j] = "queued", stage'[j] = "failed"
        PROVE  Shut(j)' /\ j \notin flight \cup made
    <3>1. ~Late(j) /\ sent[j] = 0
      BY <1>0, <2>6 DEF RefundFits, Early, SendsFit
    <3>2. \A h \in Gateway : gateway[h].pc \in {"intent", "send"} => gateway[h].at # j
      BY <1>0, <2>6, <3>1 DEF RequestFits, Early, SendsFit
    <3>3. j \notin flight \cup made
      <4>1. j \in flight \cup made => sent[j] = 1
        BY <1>0 DEF RefundFits
      <4> QED BY <3>1, <4>1
    <3>4. \A h \in Gateway : gateway'[h].pc \in {"intent", "send"} =>
            h # g /\ gateway'[h] = gateway[h]
      BY <2>1 DEF Only
    <3> QED BY <2>6, <3>2, <3>3, <3>4 DEF Shut
  <2>7. ASSUME NEW j \in Order, stage'[j] = stage[j], j \in disowned' <=> j \in disowned
        PROVE  RefundFits(j)'
    <3>1. RefundFits(j)
      BY <1>0
    <3> QED BY <3>1, <2>2, <2>5, <2>7 DEF RefundFits, Early, Late
  <2>8. ASSUME NEW j \in Order, stage[j] \in {"queued", "submitting"},
               stage'[j] = "failed",
               j \in disowned \ disowned' => stage[j] = "queued"
        PROVE  RefundFits(j)'
    <3>1. RefundFits(j) /\ ~Early(j)'
      BY <1>0, <2>8 DEF Early
    <3>2. CASE stage[j] = "queued"
      BY <2>2, <2>6, <2>8, <3>1, <3>2 DEF RefundFits
    <3>3. CASE stage[j] = "submitting"
      <4>1. j \notin disowned \ disowned' /\ ~Shut(j)
        BY <2>8, <3>3 DEF Shut
      <4> QED BY <2>2, <3>1, <4>1 DEF RefundFits
    <3> QED BY <2>8, <3>2, <3>3
  <2>9. ASSUME NEW j \in Order PROVE RefundFits(j)'
    <3>1. \/ stage'[j] = stage[j] /\ (j \in disowned' <=> j \in disowned)
          \/ /\ stage[j] \in {"queued", "submitting"} /\ stage'[j] = "failed"
             /\ j \in disowned \ disowned' => stage[j] = "queued"
      <4>1. CASE j = p.at
        BY <2>3, <4>1, Zenon
      <4>2. CASE j # p.at
        BY <2>3, <4>2, Zenon
      <4> QED BY <4>1, <4>2
    <3> QED BY <2>7, <2>8, <3>1
  <2> QED BY <2>4, <2>9
<1>3. CASE TakesActive(g)
  <2>1. UNCHANGED <<stage, points, evidence, sent, flight, made, disowned>>
    BY <1>3 DEF TakesActive
  <2>2. PICK item \in p.todo :
          \/ Skips(g, item)
          \/ stage[item[1]] = item[2] /\ Takes(g, item, FirstStep(item[2]))
    BY <1>3 DEF TakesActive
  <2>3. \/ gateway'[g].pc = "active"
        \/ gateway'[g].pc = FirstStep(stage[gateway'[g].at])
    <3>1. CASE Skips(g, item)
      BY <1>0, <1>3, <3>1 DEF TakesActive, Skips, Process
    <3>2. CASE stage[item[1]] = item[2] /\ Takes(g, item, FirstStep(item[2]))
      <4>1. gateway'[g].pc = FirstStep(item[2]) /\ gateway'[g].at = item[1]
        BY <1>0, <3>2 DEF Takes, Process
      <4> QED BY <3>2, <4>1
    <3> QED BY <2>2, <3>1, <3>2
  <2>4. \A h \in Gateway : RequestFits(h)'
    BY <2>1, <2>3, OtherRequestsFit DEF RequestFits, Early, FirstStep
  <2>5. \A j \in Order : Shut(j) => Shut(j)'
    BY <2>1, <2>3, ShutStaysShut DEF Shut, FirstStep
  <2> QED BY <1>0, <2>1, <2>4, <2>5 DEF RefundFits, Early, Late
<1>4. CASE MarksIntent(g)
  <2>1. UNCHANGED <<stage, points, sent, flight, made, disowned>> /\ p.pc = "intent"
    BY <1>4 DEF MarksIntent
  <2>2. /\ gateway'[g].pc \in {"send", "down"}
        /\ gateway'[g].pc = "send" => gateway'[g].at = p.at
        /\ \A j \in Order \ {p.at} : Late(j)' => Late(j)
    BY <1>0, <1>4, OffIsAProcess DEF MarksIntent, Dies, StepsTo, Marks, Late, Process
  <2>3. \A h \in Gateway : RequestFits(h)'
    BY <2>1, <2>2, OtherRequestsFit DEF RequestFits, Early
  <2>4. ~Early(p.at) /\ ~Shut(p.at)
    BY <1>0, <2>1 DEF RequestFits, Shut
  <2>5. \A j \in Order : Shut(j) => Shut(j)'
    BY <2>1, <2>2, <2>4, ShutStaysShut DEF Shut
  <2> QED BY <1>0, <2>1, <2>2, <2>3, <2>4, <2>5 DEF RefundFits, Early
<1>5. CASE Sends(g)
  <2>1. /\ UNCHANGED <<stage, points, evidence, made, disowned>> /\ p.pc = "send"
        /\ sent' = [sent EXCEPT ![p.at] = @ + 1] /\ flight' = flight \cup {p.at}
        /\ gateway'[g].pc = "answer" /\ gateway'[g].at = p.at
    BY <1>0, <1>5 DEF Sends, StepsTo, Process
  <2>2. sent[p.at] = 0 /\ Late(p.at) /\ ~Shut(p.at)
    BY <1>0, <2>1 DEF SendsFit, Shut
  <2>3. sent'[p.at] = 1 /\ \A j \in Order \ {p.at} : sent'[j] = sent[j]
    BY <1>0, <2>1, <2>2
  <2>4. \A h \in Gateway : RequestFits(h)'
    BY <2>1, <2>2, <2>3, OtherRequestsFit DEF RequestFits, Early
  <2>5. \A j \in Order : Shut(j) => Shut(j)'
    BY <2>1, <2>2, ShutStaysShut DEF Shut
  <2> QED BY <1>0, <2>1, <2>2, <2>3, <2>4, <2>5 DEF RefundFits, Early, Late
<1>6. CASE SendFails(g)
  <2>1. UNCHANGED <<stage, points, evidence, sent, flight, made, disowned>>
    BY <1>6 DEF SendFails
  <2>2. gateway'[g].pc = "markAnswer" /\ gateway'[g].heard = "ambiguous"
    BY <1>0, <1>6, Hearing DEF SendFails, Label, InSubmit, Reply
  <2>3. \A h \in Gateway : RequestFits(h)'
    BY <2>1, <2>2, OtherRequestsFit DEF RequestFits, Early
  <2>4. \A j \in Order : Shut(j) => Shut(j)'
    BY <2>1, <2>2, ShutStaysShut DEF Shut
  <2> QED BY <1>0, <2>1, <2>3, <2>4 DEF RefundFits, Early, Late
<1>7. CASE HearsAnswer(g)
  <2>1. UNCHANGED <<stage, points, evidence, sent, made, disowned>> /\ p.pc = "answer"
    BY <1>7 DEF HearsAnswer
  <2>2. PICK a \in {"accepted", "rejected", "ambiguous"} :
          /\ a = "rejected" => p.at \notin made
          /\ flight' = IF a = "rejected" THEN flight \ {p.at} ELSE flight
          /\ gateway' = [gateway EXCEPT ![g].pc = "markAnswer", ![g].heard = a]
    BY <1>0, <1>7 DEF HearsAnswer
  <2>3. /\ gateway'[g].pc = "markAnswer" /\ gateway'[g].heard = a
        /\ gateway'[g].at = p.at
    BY <1>0, <2>2, Hearing DEF Label, InSubmit, Reply
  <2>4. RequestFits(g)'
    BY <1>0, <2>1, <2>2, <2>3 DEF RequestFits
  <2>5. \A h \in Gateway \ {g} : RequestFits(h)'
    BY <2>1, <2>2, OtherRequestsFit DEF Early
  <2>6. \A j \in Order : Shut(j) => Shut(j)'
    BY <2>1, <2>3, ShutStaysShut DEF Shut
  <2> QED BY <1>0, <2>1, <2>2, <2>4, <2>5, <2>6 DEF RefundFits, Early, Late
<1>8. CASE MarksAnswer(g)
  <2>1. UNCHANGED <<stage, points, sent, flight, made, disowned>> /\ p.pc = "markAnswer"
    BY <1>8 DEF MarksAnswer
  <2>2. /\ \/ gateway'[g].pc = "down"
           \/ /\ gateway'[g].pc = "settle" /\ gateway'[g].at = p.at
              /\ gateway'[g].heard = p.heard
        /\ \A j \in Order : Late(j)' => Late(j)
    BY <1>0, <1>8, OffIsAProcess
       DEF MarksAnswer, Dies, StepsTo, Marks, CanMark, Late, Process
  <2>3. \A h \in Gateway : RequestFits(h)'
    BY <1>0, <2>1, <2>2, OtherRequestsFit DEF RequestFits, Early
  <2>4. \A j \in Order : Shut(j) => Shut(j)'
    BY <2>1, <2>2, ShutStaysShut DEF Shut
  <2> QED BY <1>0, <2>1, <2>2, <2>3, <2>4 DEF RefundFits, Early
<1>9. CASE SettlesPoints(g)
  <2>1. UNCHANGED <<stage, evidence, sent, flight, made, disowned>> /\ p.pc = "settle"
    BY <1>9 DEF SettlesPoints
  <2>2. /\ \A j \in Order \ {p.at} : points'[j] = points[j]
        /\ points'[p.at] = "released" => points[p.at] = "released" \/ p.heard = "rejected"
    BY <1>0, <1>9 DEF SettlesPoints, PointsFor
  <2>3. \/ gateway'[g].pc = "down"
        \/ /\ gateway'[g].pc = "moveOn" /\ gateway'[g].at = p.at
           /\ gateway'[g].heard = p.heard
    BY <1>0, <1>9, OffIsAProcess DEF SettlesPoints, Dies, StepsTo, Process
  <2>4. \A h \in Gateway : RequestFits(h)'
    BY <1>0, <2>1, <2>3, OtherRequestsFit DEF RequestFits, Early
  <2>5. \A j \in Order : Shut(j) => Shut(j)'
    BY <2>1, <2>3, ShutStaysShut DEF Shut
  <2>6. p.heard = "rejected" => sent[p.at] = 1 /\ p.at \notin flight \cup made
    BY <1>0, <2>1 DEF RequestFits
  <2> QED BY <1>0, <2>1, <2>2, <2>4, <2>5, <2>6 DEF RefundFits, Early, Late
<1>10. CASE Discovers(g)
  <2>1. UNCHANGED <<stage, points, evidence, sent, flight, made, disowned>>
        /\ p.pc = "discover"
    BY <1>10 DEF Discovers
  <2>2. /\ gateway'[g].pc \in {"bind", "markLost"} /\ gateway'[g].at = p.at
    <3>1. CASE gateway' = [gateway EXCEPT ![g].pc = "markLost"]
      BY <1>0, <3>1 DEF Process
    <3>2. ASSUME NEW t \in (made \cap {Job(g)}) \cup Elsewhere,
                 gateway' = [gateway EXCEPT ![g].pc = "bind", ![g].task = t]
          PROVE  gateway'[g].pc = "bind" /\ gateway'[g].at = p.at
      <4>1. gateway'[g] = [[p EXCEPT !.pc = "bind"] EXCEPT !.task = t]
        BY <1>0, <3>2
      <4> QED BY <1>0, <4>1 DEF Process
    <3> QED BY <1>10, <3>1, <3>2 DEF Discovers, StepsTo
  <2>3. \A h \in Gateway : RequestFits(h)'
    BY <1>0, <2>1, <2>2, OtherRequestsFit DEF RequestFits, Early
  <2>4. \A j \in Order : Shut(j) => Shut(j)'
    BY <2>1, <2>2, ShutStaysShut DEF Shut
  <2> QED BY <1>0, <2>1, <2>3, <2>4 DEF RefundFits, Early, Late
<1>11. CASE Binds(g)
  <2>1. UNCHANGED <<stage, points, sent, flight, made, disowned>> /\ p.pc = "bind"
    BY <1>11 DEF Binds
  <2>2. /\ gateway'[g].pc \in {"correlated", "down"}
        /\ \A j \in Order \ {p.at} : Late(j)' => Late(j)
    BY <1>0, <1>11, OffIsAProcess DEF Binds, Dies, StepsTo, Marks, Late, Process
  <2>3. \A h \in Gateway : RequestFits(h)'
    BY <2>1, <2>2, OtherRequestsFit DEF RequestFits, Early
  <2>4. \A j \in Order : Shut(j) => Shut(j)'
    BY <2>1, <2>2, ShutStaysShut DEF Shut
  <2>5. ~Early(p.at)
    BY <1>0, <2>1 DEF RequestFits
  <2> QED BY <1>0, <2>1, <2>2, <2>3, <2>4, <2>5 DEF RefundFits, Early
<1> QED BY <1>1, <1>2, <1>3, <1>4, <1>5, <1>6, <1>7, <1>8, <1>9, <1>10, <1>11

\* No points are settled at first.
LEMMA RefundsInvHoldsAtFirst == PipelineInit => RefundsInv
BY PointsInvHoldsAtFirst, SendsInvHoldsAtFirst, OffIsAProcess
   DEF PipelineInit, RefundsInv, RequestFits, RefundFits, Early, Late

\* Requests and tasks are those of jobs.
LEMMA RequestsAreOfJobs ==
  ASSUME RefundsInv, PipelineNext
  PROVE  flight' \subseteq Order /\ made' \subseteq Order
<1>0. flight \subseteq Order /\ made \subseteq Order /\ \A g \in Gateway : Job(g) \in Order
  BY DEF RefundsInv, SendsInv, Process, Job
<1>1. ASSUME NEW g \in Gateway, Works(g) \/ StartGateway(g) \/ KillGateway(g)
      PROVE  flight' \subseteq Order /\ made' \subseteq Order
  <2>1. ASSUME NEW h \in Gateway, Sends(h) \/ HearsAnswer(h)
        PROVE  flight' \subseteq Order /\ made' \subseteq Order
    BY <1>0, <2>1 DEF Sends, HearsAnswer
  <2>2. CASE Sends(g) \/ HearsAnswer(g)
    BY <2>1, <2>2
  <2>3. ASSUME \/ UndoesReservation(g) \/ DropsOrder(g) \/ TakesActive(g) \/ MarksIntent(g)
               \/ SendFails(g) \/ MarksAnswer(g) \/ SettlesPoints(g) \/ Discovers(g)
               \/ Binds(g)
        PROVE  flight' = flight /\ made' = made
    BY <2>3 DEF UndoesReservation, DropsOrder, TakesActive, MarksIntent, SendFails,
                MarksAnswer, SettlesPoints, Discovers, Binds, providerVars
  <2>4. CASE ~(\/ UndoesReservation(g) \/ DropsOrder(g) \/ TakesActive(g) \/ MarksIntent(g)
               \/ SendFails(g) \/ MarksAnswer(g) \/ SettlesPoints(g) \/ Discovers(g)
               \/ Binds(g) \/ Sends(g) \/ HearsAnswer(g))
    BY <1>0, <1>1, <2>4, MostStepsAreRemote DEF Remote
  <2> QED BY <1>0, <2>2, <2>3, <2>4
<1>2. ASSUME NEW j \in Order,
             \/ AdmitOrder(j) \/ MakesTask(j) \/ ClaimRunsOut(j)
             \/ LeaseRunsOut(j) \/ ComesDue(j)
      PROVE  flight' \subseteq Order /\ made' \subseteq Order
  BY <1>0, <1>2
     DEF AdmitOrder, MakesTask, ClaimRunsOut, LeaseRunsOut, ComesDue, providerVars
<1> QED BY <1>1, <1>2 DEF PipelineNext

\* What concerns a job itself, when no process moves.
LEMMA OutsideStepsFit ==
  ASSUME RefundsInv, NEW j \in Order,
         \/ AdmitOrder(j) \/ MakesTask(j) \/ ClaimRunsOut(j)
         \/ LeaseRunsOut(j) \/ ComesDue(j)
  PROVE  (\A h \in Gateway : RequestFits(h)') /\ \A i \in Order : RefundFits(i)'
<1> USE DEF rowVars, evidenceVars, providerVars
<1>0. /\ \A h \in Gateway : RequestFits(h) /\ gateway[h].at \in Order
      /\ \A i \in Order : RefundFits(i)
      /\ stage \in [Order -> JobStatus]
      /\ points \in [Order -> {"none", "reserved", "charged", "released"}]
  BY DEF RefundsInv, SendsInv, PointsInv, Process
<1>1. UNCHANGED <<gateway, evidence, sent, disowned>> /\ flight' \cup made' = flight \cup made
  BY DEF AdmitOrder, MakesTask, ClaimRunsOut, LeaseRunsOut, ComesDue
<1>2. \A i \in Order :
        /\ Early(i)' <=> Early(i)
        /\ stage[i] = "failed" => stage'[i] = "failed"
        /\ points'[i] = "released" => points[i] = "released"
  BY <1>0 DEF AdmitOrder, MakesTask, ClaimRunsOut, LeaseRunsOut, ComesDue, Early
<1>3. \A i \in Order : i \in flight' \cup made' <=> i \in flight \cup made
  BY <1>1
<1>4. \A h \in Gateway : RequestFits(h)'
  BY <1>0, <1>1, <1>2, <1>3 DEF RequestFits
<1>5. \A i \in Order : Shut(i) => Shut(i)'
  BY <1>1, <1>2 DEF Shut
<1> QED BY <1>0, <1>1, <1>2, <1>3, <1>4, <1>5 DEF RefundFits, Late

\* Every step keeps what refunds rest on.
LEMMA RefundsInvIsKept == RefundsInv /\ [PipelineNext]_pipelineVars => RefundsInv'
<1> SUFFICES ASSUME RefundsInv, [PipelineNext]_pipelineVars PROVE RefundsInv'
  OBVIOUS
<1>1. PointsInv' /\ SendsInv'
  BY PointsInvIsKept, SendsInvIsKept DEF RefundsInv
<1>2. ASSUME NEW g \in Gateway, Works(g) \/ StartGateway(g) \/ KillGateway(g)
      PROVE  (\A h \in Gateway : RequestFits(h)') /\ \A j \in Order : RefundFits(j)'
  <2>1. Only(g)
    BY <1>2, OnlyOneMoves DEF RefundsInv, PointsInv
  <2>2. CASE \/ UndoesReservation(g) \/ DropsOrder(g) \/ TakesActive(g) \/ MarksIntent(g)
             \/ Sends(g) \/ SendFails(g) \/ HearsAnswer(g) \/ MarksAnswer(g)
             \/ SettlesPoints(g) \/ Discovers(g) \/ Binds(g)
    BY <2>1, <2>2, NearStepsFit
  <2>3. CASE ~(\/ UndoesReservation(g) \/ DropsOrder(g) \/ TakesActive(g) \/ MarksIntent(g)
               \/ Sends(g) \/ SendFails(g) \/ HearsAnswer(g) \/ MarksAnswer(g)
               \/ SettlesPoints(g) \/ Discovers(g) \/ Binds(g))
    <3>1. Remote(g)
      BY <1>2, <2>3, MostStepsAreRemote
    <3> QED BY <2>1, <3>1, RemoteSteps
  <2> QED BY <2>2, <2>3
<1>3. CASE PipelineNext
  <2>1. (\A h \in Gateway : RequestFits(h)') /\ \A j \in Order : RefundFits(j)'
    BY <1>2, <1>3, OutsideStepsFit DEF PipelineNext
  <2> QED BY <1>1, <1>3, <2>1, RequestsAreOfJobs DEF RefundsInv
<1>4. CASE UNCHANGED pipelineVars
  <2> USE DEF pipelineVars, rowVars, evidenceVars, providerVars
  <2>1. flight' \subseteq Order /\ made' \subseteq Order
    BY <1>4 DEF RefundsInv
  <2>2. \A h \in Gateway : RequestFits(h)'
    BY <1>4 DEF RefundsInv, RequestFits, Early
  <2>3. \A j \in Order : RefundFits(j)'
    BY <1>4 DEF RefundsInv, RefundFits, Early, Late, Shut
  <2> QED BY <1>1, <2>1, <2>2, <2>3 DEF RefundsInv
<1> QED BY <1>3, <1>4

\* Points go back for good when the provider has no task and makes none, for any
\* number of gateways, jobs, kills and stalls.
THEOREM RefundsAreSafeAlways == PipelineSpec => []RefundsAreSafe
<1>1. RefundsInv => RefundsAreSafe
  BY DEF RefundsInv, RefundFits, RefundsAreSafe
<1> QED BY RefundsInvHoldsAtFirst, RefundsInvIsKept, <1>1, PTL DEF PipelineSpec
=============================================================================
