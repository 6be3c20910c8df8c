------------------------------ MODULE Accounts ------------------------------
(***************************************************************************)
(* Provider accounts of the SQLite build: their rows, their pair of        *)
(* credential files, the runtimes the registry publishes from both, and    *)
(* the administrators' requests that change them: create, check, enable,   *)
(* disable, import, and replacement of credentials with its rollback.      *)
(*                                                                         *)
(* A credential file is abstracted to the logins whose cookies it holds    *)
(* (none when the file is missing).  The requests of jobs appear as what   *)
(* their answers do to the cookie file.                                    *)
(***************************************************************************)
EXTENDS Naturals, Sequences, FiniteSets

CONSTANTS
  Account,          \* account ids
  Operator,         \* requests with credentials that may be open at once
  Login,            \* the web logins credentials come from
  Boot, Checker,    \* who else asks for a refresh: the start of the process,
                    \* and a request that checks, enables or disables an account
  MaxTail,          \* bound: operations on the registry that may be in line
  MaxWire,          \* bound: requests of jobs that may be under way
  Unborn, Removed,  \* an account without a row: not created yet, removed
  NoRuntime

VARIABLES
  row,        \* accounts: enabled, health_status
  file,       \* storage-state.json and session-profile.json of an account
  published,  \* AccountRuntimeRegistry.runtimes
  shelved,    \* retiredCoordination: is a capacity manager kept for later?
  managers,   \* how many capacity managers this process made for an account
  tail,       \* refreshTails: the operations on the registry in their order
  wire,       \* requests of jobs that are under way, by their session's login
  call        \* the administrators' requests

VARIABLES  \* history, read by the properties only
  contended,  \* two requests were at an account, one with new credentials
  outdated,   \* a superseded session has written cookies
  lost        \* a replacement ended without giving the account a runtime

accountsHistory == <<contended, outdated, lost>>
accountsVars ==
  <<row, file, published, shelved, managers, tail, wire, call, accountsHistory>>

-----------------------------------------------------------------------------

Health  == {"unknown", "ready", "needs_login", "unhealthy"}
Row     == [enabled : BOOLEAN, health : Health]
Cookies == SUBSET Login
Pair    == [state : Cookies, profile : Cookies]
Runtime == [row : Row, login : Cookies]

ASSUME AccountsAssumption ==
  /\ Account # {} /\ Unborn # Removed
  /\ Unborn \notin Row /\ Removed \notin Row /\ NoRuntime \notin Runtime
  /\ Boot \notin Operator /\ Checker \notin Operator

NoFiles     == [state |-> {}, profile |-> {}]
Exists(a)   == row[a] \notin {Unborn, Removed}
Complete(a) == file[a].state # {} /\ file[a].profile # {}
Listed(a)   == published[a] # NoRuntime
               /\ published[a].row = [enabled |-> TRUE, health |-> "ready"]

\* The steps of the pair write, in their order; "written" follows them.
Writing == {"backState", "backProfile", "putState", "putProfile"}
After   == [backState |-> "backProfile", backProfile |-> "putState",
            putState |-> "putProfile", putProfile |-> "written"]
FileOf  == [backState |-> "state", backProfile |-> "profile",
            putState |-> "state", putProfile |-> "profile"]

Phase == {"idle", "describing", "retiring", "reading", "written", "refreshing",
          "answered", "reloading", "reloaded", "removing"} \cup Writing

\* An administrator's request and the local variables of its handler.
Call == [pc : Phase, on : Account, kind : {"none", "import", "replace"},
         login : Cookies,              \* the credentials of the request
         before : Row,                 \* replace: the row it read at first
         old : Pair,                   \* replace: the files it read
         write : Pair, bak : Pair,     \* the pair write and its backups
         undo : BOOLEAN,               \* is the pair write a rollback?
         ready : BOOLEAN]              \* what the last refresh found

Fresh == [enabled |-> FALSE, health |-> "unknown"]
NoCall(a) == [pc |-> "idle", on |-> a, kind |-> "none", login |-> {},
              before |-> Fresh, old |-> NoFiles, write |-> NoFiles,
              bak |-> NoFiles, undo |-> FALSE, ready |-> FALSE]

Operation == [op : {"refresh", "retire"}, by : Operator \cup {Boot, Checker},
              step : {"start", "describe"}, login : Cookies]

AccountsTypeOK ==
  /\ row \in [Account -> Row \cup {Unborn, Removed}]
  /\ file \in [Account -> Pair]
  /\ published \in [Account -> Runtime \cup {NoRuntime}]
  /\ shelved \in [Account -> BOOLEAN]
  /\ managers \in [Account -> Nat]
  /\ tail \in [Account -> Seq(Operation)]
  /\ wire \in [Account -> SUBSET [login : Cookies, by : {"published", "older"}]]
  /\ call \in [Operator -> Call]
  /\ contended \in [Account -> BOOLEAN]
  /\ outdated \in [Account -> BOOLEAN] /\ lost \in [Account -> BOOLEAN]

\* An account of the time before accounts, or none yet.
AccountsInit ==
  /\ \E l \in Login, some \in SUBSET Account :
       /\ row = [a \in Account |->
                  IF a \in some THEN [enabled |-> TRUE, health |-> "ready"]
                  ELSE Unborn]
       /\ file = [a \in Account |->
                   IF a \in some THEN [state |-> {l}, profile |-> {l}]
                   ELSE NoFiles]
       /\ published = [a \in Account |->
                        IF a \in some THEN [row |-> row[a], login |-> {l}]
                        ELSE NoRuntime]
       /\ managers = [a \in Account |-> IF a \in some THEN 1 ELSE 0]
  /\ shelved = [a \in Account |-> FALSE]
  /\ tail = [a \in Account |-> <<>>]
  /\ wire = [a \in Account |-> {}]
  /\ call = [o \in Operator |-> NoCall(CHOOSE a \in Account : TRUE)]
  /\ contended = [a \in Account |-> FALSE]
  /\ outdated = contended /\ lost = contended

\* A handler goes on after a refresh before any I/O of others completes.
Calm == \A o \in Operator : call[o].pc \notin {"answered", "reloaded"}
Up   == \A a \in Account : \A i \in DOMAIN tail[a] : tail[a][i].by # Boot
Busy(a) == {o \in Operator : call[o].pc # "idle" /\ call[o].on = a}

Enqueue(a, op, o) ==
  tail' = [tail EXCEPT ![a] = Append(@, [op |-> op, by |-> o,
                                         step |-> "start", login |-> {}])]
Proceed(o, pc) == call' = [call EXCEPT ![o].pc = pc]
Answered(o) == call' = [call EXCEPT ![o] = NoCall(@.on)]

-----------------------------------------------------------------------------
(* The registry: one operation of an account at a time. *)

Next1(a) == tail[a][1]

\* The head of the chain has ended; its caller hears whether the runtime is
\* ready.
Ends(a, ready) ==
  LET o == Next1(a).by
      \* where the handler goes on
      next == CASE o \in Operator /\ call[o].pc = "refreshing" -> "answered"
                [] o \in Operator /\ call[o].pc = "reloading"  -> "reloaded"
                [] o \in Operator /\ call[o].pc = "retiring"   -> "reading"
                [] OTHER -> "idle"
  IN /\ tail' = [tail EXCEPT ![a] = Tail(@)]
     /\ call' = IF o \notin Operator THEN call
                ELSE [call EXCEPT ![o].pc = next, ![o].ready = ready]

Observe(a, health) == row' = [row EXCEPT ![a].health = health]

\* Mutant: a failed refresh tells the table only.
RecordsFailureInTable(a, health) ==
  /\ Observe(a, health) /\ Ends(a, FALSE)
  /\ UNCHANGED <<file, published, shelved, managers, wire, accountsHistory>>

\* A failed refresh notes it, on the runtime that is there as well.
RecordsFailure(a, health) ==
  /\ Observe(a, health)
  /\ published' = IF published[a] = NoRuntime THEN published
                  ELSE [published EXCEPT ![a].row = row'[a]]
  /\ Ends(a, FALSE)
  /\ UNCHANGED <<file, shelved, managers, wire, accountsHistory>>

RefreshOfNothing(a) ==
  /\ published' = [published EXCEPT ![a] = NoRuntime]
  /\ shelved' = [shelved EXCEPT ![a] = FALSE]
  /\ Ends(a, FALSE)
  /\ UNCHANGED <<row, file, managers, wire, accountsHistory>>

\* The session is made from both files.
RefreshLoads(a) ==
  /\ tail' = [tail EXCEPT ![a][1].step = "describe",
                          ![a][1].login = file[a].state]
  /\ UNCHANGED <<row, file, published, shelved, managers, wire, call,
                 accountsHistory>>

RefreshStarts(a) ==
  /\ Calm /\ tail[a] # <<>>
  /\ Next1(a).op = "refresh" /\ Next1(a).step = "start"
  /\ \/ ~Exists(a) /\ RefreshOfNothing(a)
     \/ Exists(a) /\ Complete(a) /\ RefreshLoads(a)
     \/ Exists(a) /\ ~Complete(a) /\ RecordsFailure(a, "needs_login")

\* The provider has answered for the session: the runtime is published with the
\* capacity manager of the one before.
Publishes(a) ==
  /\ Observe(a, "ready")
  /\ published' = [published EXCEPT ![a] = [row |-> row'[a],
                                            login |-> Next1(a).login]]
  /\ managers' = IF published[a] # NoRuntime \/ shelved[a] THEN managers
                 ELSE [managers EXCEPT ![a] = @ + 1]
  /\ shelved' = [shelved EXCEPT ![a] = FALSE]
  /\ wire' = [wire EXCEPT ![a] = {[w EXCEPT !.by = "older"] : w \in @}]
  /\ Ends(a, TRUE)
  /\ UNCHANGED <<file, accountsHistory>>

\* The row was removed meanwhile: the observation throws.
ObservesNothing(a) ==
  /\ Ends(a, FALSE)
  /\ UNCHANGED <<row, file, published, shelved, managers, wire, accountsHistory>>

RefreshDescribes(a) ==
  /\ Calm /\ tail[a] # <<>>
  /\ Next1(a).op = "refresh" /\ Next1(a).step = "describe"
  /\ \/ Exists(a) /\ Publishes(a)
     \/ Exists(a) /\ RecordsFailure(a, "unhealthy")
     \/ ~Exists(a) /\ ObservesNothing(a)

\* Mutants: the session goes on writing, and no manager is shelved.
RetiresWriting(a) ==
  /\ Calm /\ tail[a] # <<>> /\ Next1(a).op = "retire"
  /\ shelved' = [shelved EXCEPT ![a] = @ \/ published[a] # NoRuntime]
  /\ published' = [published EXCEPT ![a] = NoRuntime]
  /\ wire' = wire /\ Ends(a, FALSE)
  /\ UNCHANGED <<row, file, managers, accountsHistory>>

RetiresForGood(a) ==
  /\ Calm /\ tail[a] # <<>> /\ Next1(a).op = "retire"
  /\ published' = [published EXCEPT ![a] = NoRuntime]
  /\ wire' = [wire EXCEPT ![a] = {w \in @ : w.by # "published"}]
  /\ Ends(a, FALSE)
  /\ UNCHANGED <<row, file, shelved, managers, accountsHistory>>

\* The manager is shelved for the next runtime, the session writes no more
\* cookies, the runtime is gone.
Retires(a) ==
  /\ Calm /\ tail[a] # <<>> /\ Next1(a).op = "retire"
  /\ shelved' = [shelved EXCEPT ![a] = @ \/ published[a] # NoRuntime]
  /\ published' = [published EXCEPT ![a] = NoRuntime]
  /\ wire' = [wire EXCEPT ![a] = {w \in @ : w.by # "published"}]
  /\ Ends(a, FALSE)
  /\ UNCHANGED <<row, file, managers, accountsHistory>>

-----------------------------------------------------------------------------
(* Requests of jobs, as far as the cookie file goes. *)

RequestGoes(a) ==
  /\ Calm /\ published[a] # NoRuntime /\ Cardinality(wire[a]) < MaxWire
  /\ wire' = [wire EXCEPT ![a] = @ \cup {[login |-> published[a].login,
                                          by |-> "published"]}]
  /\ UNCHANGED <<row, file, published, shelved, managers, tail, call,
                 accountsHistory>>

\* An answer's cookies are merged into the file that is there now.
CookiesArrive(a) ==
  \E w \in wire[a] :
    /\ Calm
    /\ wire' = [wire EXCEPT ![a] = @ \ {w}]
    /\ IF file[a].state = {} THEN UNCHANGED <<file, outdated>>
       ELSE /\ file' = [file EXCEPT ![a].state = @ \cup w.login]
            /\ outdated' = [outdated EXCEPT ![a] = @ \/ w.by = "older"]
    /\ UNCHANGED <<row, published, shelved, managers, tail, call, contended,
                   lost>>

-----------------------------------------------------------------------------
(* Administrators. *)

CreateAccount(a) ==
  /\ Up /\ Calm /\ row[a] = Unborn
  /\ row' = [row EXCEPT ![a] = Fresh]
  /\ UNCHANGED <<file, published, shelved, managers, tail, wire, call,
                 accountsHistory>>

\* The handlers of check, enable and disable.
CheckAccount(a) ==
  /\ Up /\ Calm /\ Exists(a) /\ Len(tail[a]) < MaxTail
  /\ \/ row' = row
     \/ \E on \in BOOLEAN : row' = [row EXCEPT ![a].enabled = on]
  /\ Enqueue(a, "refresh", Checker)
  /\ contended' = [contended EXCEPT ![a] = @ \/ Busy(a) # {}]
  /\ UNCHANGED <<file, published, shelved, managers, wire, call, outdated, lost>>

\* The provider is asked about the imported credentials first.
AskImport(o) ==
  /\ Up /\ Calm /\ call[o].pc = "idle"
  /\ \E l \in Login : call' =
       [call EXCEPT ![o] = [NoCall(@.on) EXCEPT !.pc = "describing",
                                                !.kind = "import", !.login = {l}]]
  /\ UNCHANGED <<row, file, published, shelved, managers, tail, wire,
                 accountsHistory>>

AskReplace(o, a) ==
  /\ Up /\ Calm /\ call[o].pc = "idle" /\ Exists(a)
  /\ \E l \in Login : call' =
       [call EXCEPT ![o] = [NoCall(a) EXCEPT
          !.pc = "describing", !.kind = "replace", !.login = {l},
          !.before = row[a]]]
  /\ contended' = [contended EXCEPT ![a] = @ \/ tail[a] # <<>> \/ Busy(a) # {}]
  /\ UNCHANGED <<row, file, published, shelved, managers, tail, wire, outdated,
                 lost>>

CandidateRefused(o) ==
  /\ Calm /\ call[o].pc = "describing"
  /\ Answered(o)
  /\ UNCHANGED <<row, file, published, shelved, managers, tail, wire,
                 accountsHistory>>

BothFiles(login) == [state |-> login, profile |-> login]

ImportDescribed(o) ==
  /\ Calm /\ call[o].pc = "describing" /\ call[o].kind = "import"
  /\ \E a \in Account :
       /\ row[a] = Unborn
       /\ row' = [row EXCEPT ![a] = Fresh]
       /\ call' = [call EXCEPT ![o].pc = "backState", ![o].on = a,
                               ![o].write = BothFiles(call[o].login)]
  /\ UNCHANGED <<file, published, shelved, managers, tail, wire, accountsHistory>>

ReplaceDescribed(o) ==
  /\ Calm /\ call[o].pc = "describing" /\ call[o].kind = "replace"
  /\ Proceed(o, "retiring")
  /\ Enqueue(call[o].on, "retire", o)
  /\ UNCHANGED <<row, file, published, shelved, managers, wire, accountsHistory>>

-----------------------------------------------------------------------------
(* The pair write. *)

ReadsPrevious(o) ==
  /\ Calm /\ call[o].pc = "reading"
  /\ call' = [call EXCEPT ![o].pc = "backState", ![o].old = file[call[o].on],
                          ![o].write = BothFiles(call[o].login),
                          ![o].bak = NoFiles]
  /\ UNCHANGED <<row, file, published, shelved, managers, tail, wire,
                 accountsHistory>>

\* The files cannot be read: the request ends here, and the account has been
\* retired.
ReadFails(o) ==
  /\ Calm /\ call[o].pc = "reading"
  /\ Answered(o)
  /\ lost' = [lost EXCEPT ![call[o].on] = TRUE]
  /\ UNCHANGED <<row, file, published, shelved, managers, tail, wire, contended,
                 outdated>>

\* Both files are moved away before the new ones are moved in.
BackUp(o) ==
  LET a == call[o].on  f == FileOf[call[o].pc]
  IN /\ Calm /\ call[o].pc \in {"backState", "backProfile"}
     /\ file' = [file EXCEPT ![a][f] = {}]
     /\ call' = [call EXCEPT ![o].pc = After[@], ![o].bak[f] = file[a][f]]
     /\ UNCHANGED <<row, published, shelved, managers, tail, wire,
                    accountsHistory>>

\* A rollback has nothing to move in for a file that was not there; a file that
\* has come up since is removed.
MoveIn(o) ==
  LET a == call[o].on  f == FileOf[call[o].pc]
  IN /\ Calm /\ call[o].pc \in {"putState", "putProfile"}
     /\ file' = [file EXCEPT ![a][f] = call[o].write[f]]
     /\ call' = [call EXCEPT ![o].pc = After[@]]
     /\ UNCHANGED <<row, published, shelved, managers, tail, wire,
                    accountsHistory>>

\* What a failed pair write leaves: backups are moved back, files without one
\* are removed if they had been put there.
RolledBack(o) ==
  LET put == IF call[o].pc = "putProfile" THEN {"state"} ELSE {}
  IN [f \in {"state", "profile"} |->
        IF call[o].bak[f] # {} THEN call[o].bak[f]
        ELSE IF f \in put THEN {} ELSE file[call[o].on][f]]

\* The rollback of a replacement begins: the files it read are to come back.
Undo(o) ==
  call' = [call EXCEPT ![o].pc = "backState", ![o].undo = TRUE,
                       ![o].write = call[o].old, ![o].bak = NoFiles]

\* The table and the runtime are to show again what the row said at first.  If
\* the row is gone this throws, and the account is left without a runtime.
RestorePublished(o) ==
  LET a == call[o].on
  IN IF Exists(a)
     THEN /\ Observe(a, call[o].before.health)
          /\ call' = [call EXCEPT ![o].pc = "reloading", ![o].before = row'[a]]
          /\ Enqueue(a, "refresh", o)
          /\ lost' = lost
     ELSE /\ Answered(o)
          /\ lost' = [lost EXCEPT ![a] = TRUE]
          /\ UNCHANGED <<row, tail>>

\* The import's rollback begins with disabling the account.
Disown(o) ==
  /\ row' = [row EXCEPT ![call[o].on].enabled = FALSE]
  /\ Proceed(o, "removing")

GivesUp(o) ==
  /\ Answered(o)
  /\ lost' = [lost EXCEPT ![call[o].on] = TRUE]
  /\ UNCHANGED <<row, tail>>

PairFails(o) ==
  /\ Calm /\ call[o].pc \in Writing
  /\ file' = [file EXCEPT ![call[o].on] = RolledBack(o)]
  /\ \/ call[o].kind = "import" /\ Disown(o) /\ UNCHANGED <<tail, lost>>
     \/ call[o].kind = "replace" /\ ~call[o].undo /\ RestorePublished(o)
     \/ call[o].undo /\ GivesUp(o)
  /\ UNCHANGED <<published, shelved, managers, wire, contended, outdated>>

\* The new files are in place and a backup cannot be removed.
CleanupFails(o) ==
  /\ Calm /\ call[o].pc = "written" /\ call[o].bak # NoFiles
  /\ \/ call[o].kind = "import" /\ Disown(o) /\ UNCHANGED <<tail, lost>>
     \/ /\ call[o].kind = "replace" /\ ~call[o].undo
        /\ Undo(o) /\ UNCHANGED <<row, tail, lost>>
     \/ call[o].undo /\ GivesUp(o)
  /\ UNCHANGED <<file, published, shelved, managers, wire, contended, outdated>>

\* The pair is written: the row says ready, and the registry is to find out.
PairWritten(o) ==
  LET a == call[o].on
  IN /\ Calm /\ call[o].pc = "written"
     /\ \/ /\ ~call[o].undo /\ Exists(a)
           /\ row' = [row EXCEPT ![a].health = "ready",
                                 ![a].enabled = @ \/ call[o].kind = "import"]
           /\ Proceed(o, "refreshing") /\ Enqueue(a, "refresh", o)
           /\ lost' = lost
        \/ ~call[o].undo /\ ~Exists(a) /\ Undo(o) /\ UNCHANGED <<row, tail, lost>>
        \/ call[o].undo /\ RestorePublished(o)
     /\ UNCHANGED <<file, published, shelved, managers, wire, contended,
                    outdated>>

-----------------------------------------------------------------------------
(* After the refresh. *)

RefreshedReady(o) ==
  /\ call[o].pc = "answered" /\ call[o].ready
  /\ Answered(o)
  /\ lost' = [lost EXCEPT ![call[o].on] = FALSE]
  /\ UNCHANGED <<row, file, published, shelved, managers, tail, wire, contended,
                 outdated>>

RefreshedNotReady(o) ==
  /\ call[o].pc = "answered" /\ ~call[o].ready
  /\ \/ call[o].kind = "import" /\ Disown(o)
     \/ call[o].kind = "replace" /\ Undo(o) /\ row' = row
  /\ UNCHANGED <<file, published, shelved, managers, tail, wire, accountsHistory>>

\* The runtime found after a rollback gets the row as it was restored, unless
\* it should have been ready and is not.
Reloaded(o) ==
  LET a == call[o].on
  IN /\ call[o].pc = "reloaded"
     /\ Answered(o)
     /\ published' =
          IF published[a] = NoRuntime
             \/ (call[o].before.health = "ready" /\ ~call[o].ready)
          THEN published ELSE [published EXCEPT ![a].row = call[o].before]
     /\ UNCHANGED <<row, file, shelved, managers, tail, wire, accountsHistory>>

\* The session directory goes, then the row.
RemoveImported(o) ==
  LET a == call[o].on
  IN /\ Calm /\ call[o].pc = "removing"
     /\ file' = [file EXCEPT ![a] = NoFiles]
     /\ row' = [row EXCEPT ![a] = Removed]
     /\ Answered(o)
     /\ UNCHANGED <<published, shelved, managers, tail, wire, accountsHistory>>

RemoveFails(o) ==
  /\ Calm /\ call[o].pc = "removing"
  /\ Answered(o)
  /\ UNCHANGED <<row, file, published, shelved, managers, tail, wire,
                 accountsHistory>>

\* A kill and the next start, which makes a runtime for every row.
KillAndLoad ==
  /\ published' = [a \in Account |-> NoRuntime]
  /\ shelved' = [a \in Account |-> FALSE]
  /\ managers' = [a \in Account |-> 0]
  /\ tail' = [a \in Account |->
               IF Exists(a) THEN <<[op |-> "refresh", by |-> Boot,
                                    step |-> "start", login |-> {}]>>
               ELSE <<>>]
  /\ wire' = [a \in Account |-> {}]
  /\ call' = [o \in Operator |-> NoCall(call[o].on)]
  /\ lost' = [a \in Account |-> FALSE]
  /\ UNCHANGED <<row, file, contended, outdated>>

AccountsNext ==
  \/ KillAndLoad
  \/ \E a \in Account :
       \/ RefreshStarts(a) \/ RefreshDescribes(a) \/ Retires(a)
       \/ RequestGoes(a) \/ CookiesArrive(a) \/ CreateAccount(a)
       \/ CheckAccount(a) \/ \E o \in Operator : AskReplace(o, a)
  \/ \E o \in Operator :
       \/ AskImport(o) \/ CandidateRefused(o)
       \/ ImportDescribed(o) \/ ReplaceDescribed(o)
       \/ ReadsPrevious(o) \/ ReadFails(o) \/ BackUp(o) \/ MoveIn(o)
       \/ PairFails(o) \/ CleanupFails(o) \/ PairWritten(o)
       \/ RefreshedReady(o) \/ RefreshedNotReady(o) \/ Reloaded(o)
       \/ RemoveImported(o) \/ RemoveFails(o)

AccountsSpec == AccountsInit /\ [][AccountsNext]_accountsVars

-----------------------------------------------------------------------------

\* Nobody works on the account.
AtRest(a) == tail[a] = <<>> /\ Busy(a) = {} /\ Up

\* Whatever fails, and whenever the process is killed, the cookie file and the
\* profile of an account are of one login: a pair is never half replaced, and a
\* session that was replaced does not write its cookies into its successor's
\* file.  Two ways around it are open in the code: two replacements at once, and
\* a session that a check had superseded before the replacement.
CredentialsOfOneLogin ==
  \A a \in Account :
    LET kept == file[a].state \cup file[a].profile
    IN (\A k, l \in kept : k = l) \/ contended[a] \/ outdated[a]

\* When nobody works on an account, the scheduler is offered it only if its row
\* is enabled and ready; and a row that says so has a runtime, unless a
\* replacement ended early.
RuntimeFollowsRow ==
  \A a \in Account : AtRest(a) =>
    /\ Listed(a) => contended[a] \/ row[a] = [enabled |-> TRUE, health |-> "ready"]
    /\ row[a] = [enabled |-> TRUE, health |-> "ready"]
         => published[a] # NoRuntime \/ lost[a]

\* However often an account is checked, replaced and rolled back, its slots stay
\* with one capacity manager: a second one would let it be overbooked.
OneManagerPerAccount == \A a \in Account : managers[a] <= 1
=============================================================================
