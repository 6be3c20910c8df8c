------------------------------- MODULE Intake -------------------------------
(***************************************************************************)
(* The temporary files of media: the files of a multipart request, the     *)
(* links and data URIs a request names, and outputs that are fetched.  A   *)
(* file is written under two leases, of the process's budget and of the    *)
(* request's, and belongs in turn to the parser, the handler, the          *)
(* coordinator and the runner, each of which has to dispose of it.         *)
(*                                                                         *)
(* Sizes are in units of one chunk.                                        *)
(***************************************************************************)
EXTENDS Naturals, FiniteSets, Functions

CONSTANTS
  Client,       \* requests
  MaxInputs,    \* inputs of a request: 14 in the code
  MaxTemp,      \* config.maxTempBytes
  MaxRequest,   \* config.maxRequestMediaBytes
  MaxSize       \* config.maxImageBytes

VARIABLES
  used,       \* bytes leased from the process's budget
  media,      \* the inputs of a request and their files
  intake,     \* where a request is
  abandoned   \* history: requests whose files two known paths left behind

intakeVars == <<used, media, intake, abandoned>>

Input == 1 .. MaxInputs

ASSUME IntakeAssumption ==
  /\ MaxInputs \in Nat \ {0} /\ IsFiniteSet(Client)
  /\ MaxTemp \in Nat /\ MaxRequest \in Nat /\ MaxSize \in Nat

-----------------------------------------------------------------------------

\* lease: bytes of a file that are leased from both budgets; disk: bytes
\* written.
Media == [pc : {"none", "writing", "ready", "removing", "gone"},
          declared : 0 .. MaxSize, lease : 0 .. MaxSize, disk : 0 .. MaxSize]
NoMedia == [pc |-> "none", declared |-> 0, lease |-> 0, disk |-> 0]

\* The first `files` of the n inputs are multipart files; `at` is the input at
\* work; `next` is where a request goes when its files are removed.
Intake == [pc : {"idle", "parsing", "checking", "preparing", "admitting",
                 "starting", "running", "disposing"},
           n : 0 .. MaxInputs, files : 0 .. MaxInputs, at : 1 .. MaxInputs + 1,
           fetch : BOOLEAN, next : {"idle", "starting"}]
NoIntake == [pc |-> "idle", n |-> 0, files |-> 0, at |-> 1, fetch |-> FALSE,
             next |-> "idle"]

IntakeTypeOK ==
  /\ used \in 0 .. MaxTemp
  /\ media \in [Client -> [Input -> Media]]
  /\ intake \in [Client -> Intake]
  /\ abandoned \subseteq Client

IntakeInit ==
  /\ used = 0
  /\ media = [c \in Client |-> [i \in Input |-> NoMedia]]
  /\ intake = [c \in Client |-> NoIntake]
  /\ abandoned = {}

Turn(c) == intake[c].at
Now(c) == media[c][Turn(c)]
Leases(c) == [i \in Input |-> media[c][i].lease]
LeasedBy(c) == SumFunction(Leases(c))

\* A multipart request has one budget for its files; a link has one of its own.
Shared(c) == IF Turn(c) <= intake[c].files
             THEN SumFunctionOnSet(Leases(c), 1 .. intake[c].files)
             ELSE Now(c).lease

\* Both budgets have room for so much more.
Room(c, more) == more <= MaxTemp - used /\ more <= MaxRequest - Shared(c)

\* A budget that has no room throws, and what the other one gave is given back.
Lease(c, more) == Room(c, more) /\ used' = used + more

Set(c, file) == media' = [media EXCEPT ![c][Turn(c)] = file]

-----------------------------------------------------------------------------
(* A file. *)

InputsLeft(c) ==
  \/ intake[c].pc = "parsing" /\ Turn(c) <= intake[c].files
  \/ intake[c].pc = "preparing" /\ Turn(c) <= intake[c].n

\* The size an input has before it is read: the answer to a link names one or
\* none, a data URI has its own, a multipart file has none.
Declared(c) == IF intake[c].pc = "parsing" THEN {0} ELSE 0 .. MaxSize

OpenFile(c) ==
  /\ InputsLeft(c) /\ Now(c).pc = "none"
  /\ \E declared \in Declared(c) :
       /\ Lease(c, declared)
       /\ Set(c, [pc |-> "writing", declared |-> declared, lease |-> declared,
                  disk |-> 0])
  /\ UNCHANGED <<intake, abandoned>>

\* The leases grow before the chunk is written.
WriteChunk(c) ==
  LET grows == IF Now(c).disk >= Now(c).declared THEN 1 ELSE 0
  IN /\ InputsLeft(c) /\ Now(c).pc = "writing" /\ Now(c).disk < MaxSize
     /\ Lease(c, grows)
     /\ Set(c, [Now(c) EXCEPT !.disk = @ + 1, !.lease = @ + grows])
     /\ UNCHANGED <<intake, abandoned>>

\* Mutant: the budget gets the whole lease back, and the file keeps its own.
CloseFileTwice(c) ==
  /\ InputsLeft(c) /\ Now(c).pc = "writing"
  /\ used' = used - Now(c).lease
  /\ Set(c, [Now(c) EXCEPT !.pc = "ready", !.lease = Now(c).disk])
  /\ intake' = [intake EXCEPT ![c].at = @ + 1]
  /\ UNCHANGED abandoned

\* The leases shrink to what came.
CloseFile(c) ==
  /\ InputsLeft(c) /\ Now(c).pc = "writing"
  /\ used' = used - (Now(c).lease - Now(c).disk)
  /\ Set(c, [Now(c) EXCEPT !.pc = "ready", !.lease = Now(c).disk])
  /\ intake' = [intake EXCEPT ![c].at = @ + 1]
  /\ UNCHANGED abandoned

\* The file is removed, then both leases are released.
RemoveFile(c) ==
  \E i \in Input :
    /\ media[c][i].pc = "removing"
    /\ used' = used - media[c][i].lease
    /\ media' = [media EXCEPT ![c][i] = [NoMedia EXCEPT !.pc = "gone"]]
    /\ UNCHANGED <<intake, abandoned>>

\* Mutant: the file that is being written is forgotten.
DisposeReady(c, next) ==
  /\ media' = [media EXCEPT ![c] = [i \in Input |->
                 [media[c][i] EXCEPT !.pc = IF @ = "ready" THEN "removing" ELSE @]]]
  /\ intake' = [intake EXCEPT ![c].pc = "disposing", ![c].next = next]
  /\ UNCHANGED <<used, abandoned>>

\* Every file there is is disposed of, and then the request goes on.
Dispose(c, next) ==
  /\ media' = [media EXCEPT ![c] = [i \in Input |->
                 [media[c][i] EXCEPT !.pc = IF @ \in {"ready", "writing"}
                                     THEN "removing" ELSE @]]]
  /\ intake' = [intake EXCEPT ![c].pc = "disposing", ![c].next = next]
  /\ UNCHANGED <<used, abandoned>>

\* The stream breaks, is too large, or a budget is exhausted: the file at work
\* goes, and the others with it.
InputFails(c) == InputsLeft(c) /\ Dispose(c, "idle")

Disposed(c) ==
  /\ intake[c].pc = "disposing"
  /\ \A i \in Input : media[c][i].pc # "removing"
  /\ intake' = [intake EXCEPT ![c] = IF @.next = "idle" THEN NoIntake
                                     ELSE [@ EXCEPT !.pc = "starting", !.next = "idle"]]
  /\ media' = IF intake[c].next = "idle"
              THEN [media EXCEPT ![c] = [i \in Input |-> NoMedia]] ELSE media
  /\ UNCHANGED <<used, abandoned>>

-----------------------------------------------------------------------------
(* A request. *)

RequestArrives(c) ==
  /\ intake[c].pc = "idle" /\ c \notin abandoned
  /\ \E n \in 0 .. MaxInputs : \E files \in 0 .. n :
       intake' = [intake EXCEPT ![c] = [NoIntake EXCEPT
                    !.pc = "parsing", !.n = n, !.files = files]]
  /\ UNCHANGED <<used, media, abandoned>>

\* The archiver, or an answer in base64, fetches an output.
OutputFetched(c) ==
  /\ intake[c].pc = "idle" /\ c \notin abandoned
  /\ intake' = [intake EXCEPT ![c] = [NoIntake EXCEPT
                  !.pc = "preparing", !.n = 1, !.fetch = TRUE]]
  /\ UNCHANGED <<used, media, abandoned>>

Parsed(c) ==
  /\ intake[c].pc = "parsing" /\ ~InputsLeft(c)
  /\ intake' = [intake EXCEPT ![c].pc = "checking"]
  /\ UNCHANGED <<used, media, abandoned>>

\* The body, the model or its parameters are refused: the handler still owns
\* the files.
RequestRefused(c) == intake[c].pc = "checking" /\ Dispose(c, "idle")

\* The scope of the key and the plan are looked at when the files count as
\* handed over: nobody owns them.
ScopeRefused(c) ==
  /\ intake[c].pc = "checking"
  /\ intake' = [intake EXCEPT ![c] = NoIntake]
  /\ abandoned' = IF intake[c].files > 0 THEN abandoned \cup {c} ELSE abandoned
  /\ UNCHANGED <<used, media>>

HandedOver(c) ==
  /\ intake[c].pc = "checking"
  /\ intake' = [intake EXCEPT ![c].pc = "preparing"]
  /\ UNCHANGED <<used, media, abandoned>>

Prepared(c) ==
  /\ intake[c].pc = "preparing" /\ ~InputsLeft(c)
  /\ IF intake[c].fetch THEN Dispose(c, "idle")
     ELSE /\ intake' = [intake EXCEPT ![c].pc = "admitting"]
          /\ UNCHANGED <<used, media, abandoned>>

\* No job of this request's own: refused, or one under the same key.
NotAdmitted(c) == intake[c].pc = "admitting" /\ Dispose(c, "idle")

\* A new job keeps its files for the runner, or has its inputs in the object
\* store from now on; that and the snapshot may fail.
Admitted(c) ==
  /\ intake[c].pc = "admitting"
  /\ \/ Dispose(c, "starting")
     \/ /\ intake' = [intake EXCEPT ![c].pc = "starting"]
        /\ UNCHANGED <<used, media, abandoned>>

\* The snapshot fails, the lease is another's, or the registry stops.
NotStarted(c) == intake[c].pc = "starting" /\ Dispose(c, "idle")

Started(c) ==
  /\ intake[c].pc = "starting"
  /\ intake' = [intake EXCEPT ![c].pc = "running", ![c].at = 1]
  /\ UNCHANGED <<used, media, abandoned>>

\* The lease is lost before the runner's first line: its finally is not reached.
RunnerNeverBegins(c) ==
  /\ intake[c].pc = "running" /\ Turn(c) = 1
  /\ intake' = [intake EXCEPT ![c] = NoIntake]
  /\ IF \E i \in Input : media[c][i].pc = "ready"
     THEN abandoned' = abandoned \cup {c} /\ UNCHANGED media
     ELSE /\ media' = [media EXCEPT ![c] = [i \in Input |-> NoMedia]]
          /\ UNCHANGED abandoned
  /\ UNCHANGED used

\* Input by input: an upload disposes of its file, and so it does when it fails.
\* The first failure ends the runner, which disposes of the rest.
UploadEnds(c) ==
  /\ intake[c].pc = "running" /\ Turn(c) <= intake[c].n
  /\ \A i \in Input : media[c][i].pc # "removing"
  /\ \/ /\ intake' = [intake EXCEPT ![c].at = @ + 1]
        /\ IF Now(c).pc = "ready" THEN Set(c, [Now(c) EXCEPT !.pc = "removing"])
           ELSE media' = media
        /\ UNCHANGED <<used, abandoned>>
     \/ Dispose(c, "idle")

RunnerEnds(c) ==
  /\ intake[c].pc = "running" /\ Turn(c) > intake[c].n
  /\ Dispose(c, "idle")

\* A kill; the next start removes what it left in the directory.
KillAndSweep ==
  /\ used' = 0 /\ abandoned' = {}
  /\ media' = [c \in Client |-> [i \in Input |-> NoMedia]]
  /\ intake' = [c \in Client |-> NoIntake]

IntakeNext ==
  \/ KillAndSweep
  \/ \E c \in Client :
       \/ OpenFile(c) \/ WriteChunk(c) \/ CloseFile(c) \/ RemoveFile(c)
       \/ InputFails(c) \/ Disposed(c)
       \/ RequestArrives(c) \/ OutputFetched(c) \/ Parsed(c) \/ RequestRefused(c)
       \/ ScopeRefused(c) \/ HandedOver(c) \/ Prepared(c)
       \/ NotAdmitted(c) \/ Admitted(c) \/ NotStarted(c) \/ Started(c)
       \/ RunnerNeverBegins(c) \/ UploadEnds(c) \/ RunnerEnds(c)

IntakeSpec == IntakeInit /\ [][IntakeNext]_intakeVars

-----------------------------------------------------------------------------

\* What is on the disk is leased, what is leased is counted, and a request that
\* is over has given everything back: through every failure of parsing,
\* fetching, admission, storage and upload, two paths aside.
TempSpaceAccounted ==
  /\ used = SumFunction([c \in Client |-> LeasedBy(c)])
  /\ \A c \in Client :
       /\ \A i \in Input : media[c][i].disk <= media[c][i].lease
       /\ intake[c].pc = "idle" /\ c \notin abandoned => LeasedBy(c) = 0
=============================================================================
