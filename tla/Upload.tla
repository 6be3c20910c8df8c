------------------------------- MODULE Upload -------------------------------
(***************************************************************************)
(* One upload of an input to the provider with the general strategy: init, *)
(* the signed puts of one object or of the parts of one, and complete; or  *)
(* cancel, whatever failed.  The parts are put by up to three workers that *)
(* share the next index and the first failure.                             *)
(*                                                                         *)
(* A byte range stands for what is put under its signed address.           *)
(***************************************************************************)
EXTENDS Naturals, Sequences, FiniteSets

CONSTANTS
  Size,       \* bytes of the media
  Worker,     \* MAX_PART_CONCURRENCY of them
  MaxParts    \* bound: parts the provider may ask for

VARIABLES
  phase,      \* where uploadGeneral is
  parts,      \* the byte ranges the provider asked for
  putting,    \* the index of the part a worker puts; 0 for none
  nextPart,   \* nextPartIndex
  failure,    \* has firstFailure been set?
  known,      \* has uploadId been set?
  session,    \* the upload at the provider
  received    \* the byte ranges whose puts the provider has answered with 2xx

uploadVars ==
  <<phase, parts, putting, nextPart, failure, known, session, received>>

ASSUME UploadAssumption == Size \in Nat \ {0} /\ MaxParts \in Nat \ {0}

-----------------------------------------------------------------------------

Byte      == 0 .. Size - 1
ByteRange == [first : Byte, last : Byte]

UploadTypeOK ==
  /\ phase \in {"init", "putting", "completing", "failing", "cancelling", "done",
                "failed"}
  /\ parts \in Seq(ByteRange)
  /\ putting \in [Worker -> 0 .. MaxParts]
  /\ nextPart \in Nat
  /\ failure \in BOOLEAN /\ known \in BOOLEAN
  /\ session \in {"none", "open", "completed", "cancelled"}
  /\ received \subseteq ByteRange

UploadInit ==
  /\ phase = "init" /\ parts = <<>>
  /\ putting = [w \in Worker |-> 0] /\ nextPart = 1
  /\ failure = FALSE /\ known = FALSE
  /\ session = "none" /\ received = {}

\* Mutant: the parts may end before the media does.
NormalOpen(p) ==
  /\ p # <<>>
  /\ \A i \in DOMAIN p :
       /\ p[i].first = IF i = 1 THEN 0 ELSE p[i - 1].last + 1
       /\ p[i].last >= p[i].first /\ p[i].last < Size

\* normalizeInit: each part begins where the one before it ended, none goes
\* beyond the media, and the last one ends with it.
Normal(p) ==
  /\ p # <<>>
  /\ \A i \in DOMAIN p :
       /\ p[i].first = IF i = 1 THEN 0 ELSE p[i - 1].last + 1
       /\ p[i].last >= p[i].first /\ p[i].last < Size
  /\ p[Len(p)].last = Size - 1

-----------------------------------------------------------------------------

\* init is answered with one address for all, or one for each part.
Initialized ==
  /\ phase = "init"
  /\ \E n \in 1 .. MaxParts : \E p \in [1 .. n -> ByteRange] :
       Normal(p) /\ parts' = p
  /\ phase' = "putting" /\ session' = "open" /\ known' = TRUE
  /\ UNCHANGED <<putting, nextPart, failure, received>>

\* It fails, or the answer is not normal.  The provider may have opened an
\* upload all the same, and the answer, or the error, may have its id.
InitFails ==
  /\ phase = "init" /\ phase' = "failing"
  /\ session' \in {"none", "open"}
  /\ known' \in (IF session' = "open" THEN BOOLEAN ELSE {FALSE})
  /\ UNCHANGED <<parts, putting, nextPart, failure, received>>

\* A worker takes the next part, unless somebody's part has failed.
PutStarts(w) ==
  /\ phase = "putting" /\ putting[w] = 0
  /\ ~failure /\ nextPart <= Len(parts)
  /\ putting' = [putting EXCEPT ![w] = nextPart]
  /\ nextPart' = nextPart + 1
  /\ UNCHANGED <<phase, parts, failure, known, session, received>>

PutEnds(w) ==
  /\ putting[w] # 0
  /\ \/ received' = received \cup {parts[putting[w]]} /\ UNCHANGED failure
     \/ failure' = TRUE /\ UNCHANGED received
  /\ putting' = [putting EXCEPT ![w] = 0]
  /\ UNCHANGED <<phase, parts, nextPart, known, session>>

\* Every worker has returned.
PutsEnd ==
  /\ phase = "putting"
  /\ \A w \in Worker : putting[w] = 0
  /\ failure \/ nextPart > Len(parts)
  /\ phase' = IF failure THEN "failing" ELSE "completing"
  /\ UNCHANGED <<parts, putting, nextPart, failure, known, session, received>>

\* complete is carried out and answered, carried out without an answer that can
\* be used, or not carried out.
Completes ==
  /\ phase = "completing"
  /\ \/ session' = "completed" /\ phase' \in {"done", "failing"}
     \/ session' = session /\ phase' = "failing"
  /\ UNCHANGED <<parts, putting, nextPart, failure, known, received>>

\* An upload whose id is known is cancelled; whether that works does not matter.
Fails ==
  /\ phase = "failing"
  /\ phase' = IF known THEN "cancelling" ELSE "failed"
  /\ UNCHANGED <<parts, putting, nextPart, failure, known, session, received>>

Cancels ==
  /\ phase = "cancelling" /\ phase' = "failed"
  /\ session' \in {session} \cup (IF session = "open" THEN {"cancelled"} ELSE {})
  /\ UNCHANGED <<parts, putting, nextPart, failure, known, received>>

UploadNext ==
  \/ Initialized \/ InitFails \/ PutsEnd \/ Completes \/ Fails \/ Cancels
  \/ \E w \in Worker : PutStarts(w) \/ PutEnds(w)

UploadSpec == UploadInit /\ [][UploadNext]_uploadVars

-----------------------------------------------------------------------------

Received(b) == {r \in received : b \in r.first .. r.last}

\* Whatever ranges the provider asks for and in whatever order the puts end: a
\* completed upload has every byte of the media, each of them once; and nothing
\* is being put while the upload is completed or cancelled.
UploadIsWhole ==
  /\ session = "completed" => \A b \in Byte : Cardinality(Received(b)) = 1
  /\ phase \in {"completing", "cancelling", "done", "failed"} =>
       \A w \in Worker : putting[w] = 0
=============================================================================
