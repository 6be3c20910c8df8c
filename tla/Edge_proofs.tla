----------------------------- MODULE Edge_proofs -----------------------------
(***************************************************************************)
(* Requests at the edges of the server: who may have a job made, who is    *)
(* woken when it is settled, what the provider is sent of its inputs, and  *)
(* who counts and removes the temporary files of its media; for every set  *)
(* of users, keys, requests, handlers and workers, and for media of any    *)
(* size.                                                                   *)
(***************************************************************************)
EXTENDS Access, Serving, Upload, Intake, Sums

-----------------------------------------------------------------------------
(* Access. *)

\* A key that has been revoked stays so, and no request that is on its way came
\* in with such a key.
AccessInv ==
  /\ key \in [Key -> KeyRow]
  /\ caller \in [Caller -> CallerState]
  /\ \A k \in buried : key[k].made /\ key[k].revoked
  /\ \A c \in Caller : ~caller[c].late
  /\ JobsOfActiveOwners

LEMMA AccessInvHoldsAtFirst == AccessInit => AccessInv
<1> SUFFICES ASSUME AccessInit PROVE AccessInv
  OBVIOUS
<1>1. key \in [Key -> KeyRow]
  BY DEF AccessInit, NoKeyRow, KeyRow
<1>2. NoCaller \in CallerState /\ ~NoCaller.late
  BY AccessAssumption DEF AccessAssumption, NoCaller, CallerState
<1> QED BY <1>1, <1>2 DEF AccessInit, AccessInv, JobsOfActiveOwners

LEMMA AccessInvIsKept == AccessInv /\ [AccessNext]_accessVars => AccessInv'
<1> SUFFICES ASSUME AccessInv, [AccessNext]_accessVars PROVE AccessInv'
  OBVIOUS
<1> USE DEF AccessInv
<1>1. NoCaller \in CallerState /\ ~NoCaller.late
  BY AccessAssumption DEF AccessAssumption, NoCaller, CallerState
<1>2. CASE UNCHANGED accessVars
  BY <1>2 DEF accessVars, registryVars, JobsOfActiveOwners
\* What leaves keys, requests and jobs alone.
<1>3. ASSUME UNCHANGED <<key, caller, buried, admitted>> PROVE AccessInv'
  BY <1>3 DEF JobsOfActiveOwners
<1>4. ASSUME NEW s \in Console, NEW k \in Key, CreateKey(s, k) PROVE AccessInv'
  <2>1. PICK scoped \in BOOLEAN : key' = [key EXCEPT ![k] = NewKey(scoped)]
    BY <1>4 DEF CreateKey
  <2>2. NewKey(scoped) \in KeyRow
    BY DEF NewKey, NoKeyRow, KeyRow
  <2>3. k \notin buried /\ UNCHANGED <<caller, buried, admitted>>
    BY <1>4 DEF CreateKey
  <2> QED BY <2>1, <2>2, <2>3 DEF JobsOfActiveOwners
<1>5. ASSUME NEW s \in Console, NEW k \in Key, UpdateKey(s, k) PROVE AccessInv'
  <2>1. PICK on \in BOOLEAN : key' = [key EXCEPT ![k].enabled = on]
    BY <1>5 DEF UpdateKey
  <2>2. UNCHANGED <<caller, buried, admitted>>
    BY <1>5 DEF UpdateKey
  <2> QED BY <2>1, <2>2 DEF JobsOfActiveOwners, KeyRow
<1>6. ASSUME NEW s \in Console, NEW k \in Key, RevokeKey(s, k) PROVE AccessInv'
  <2>1. /\ key[k].made /\ key' = [key EXCEPT ![k].revoked = TRUE]
        /\ buried' = buried \cup {k} /\ UNCHANGED <<caller, admitted>>
    BY <1>6 DEF RevokeKey
  <2>2. key' \in [Key -> KeyRow]
    BY <2>1 DEF KeyRow
  <2>3. key'[k].made /\ key'[k].revoked
    BY <2>1 DEF KeyRow
  <2>4. \A o \in buried' : key'[o].made /\ key'[o].revoked
    BY <2>1, <2>3
  <2> QED BY <2>1, <2>2, <2>4 DEF JobsOfActiveOwners
<1>7. ASSUME NEW k \in Key, KeyExpires(k) PROVE AccessInv'
  <2>1. key' = [key EXCEPT ![k].expired = TRUE] /\ UNCHANGED <<caller, buried, admitted>>
    BY <1>7 DEF KeyExpires
  <2>2. key' \in [Key -> KeyRow]
    BY <2>1 DEF KeyRow
  <2>3. \A o \in buried' : key'[o].made /\ key'[o].revoked
    BY <2>1
  <2> QED BY <2>1, <2>2, <2>3 DEF JobsOfActiveOwners
<1>8. ASSUME NEW c \in Caller, NEW k \in Key, Authenticate(c, k) PROVE AccessInv'
  <2>1. k \notin buried /\ key[k].scoped \in BOOLEAN
    <3>1. k \notin buried
      BY <1>8 DEF Authenticate, Authentic
    <3> QED BY <3>1 DEF KeyRow
  <2> DEFINE new == [pc |-> "reading", key |-> k, scoped |-> key[k].scoped,
                     late |-> k \in buried]
  <2>2. caller' = [caller EXCEPT ![c] = new] /\ UNCHANGED <<key, buried, admitted>>
    BY <1>8 DEF Authenticate, registryVars
  <2>3. new \in CallerState /\ ~new.late
    BY <2>1 DEF CallerState
  <2> HIDE DEF new
  <2> QED BY <2>2, <2>3 DEF JobsOfActiveOwners
<1>9. ASSUME NEW c \in Caller, Leaves(c) PROVE AccessInv'
  BY <1>1, <1>9 DEF Leaves, registryVars, JobsOfActiveOwners
<1>10. ASSUME NEW c \in Caller, RequireScope(c) \/ AssertVideo(c) PROVE AccessInv'
  <2>1. PICK pc \in {"scoped", "reserving"} : caller' = [caller EXCEPT ![c].pc = pc]
    BY <1>10 DEF RequireScope, AssertVideo
  <2>2. UNCHANGED <<key, buried, admitted>>
    BY <1>10 DEF RequireScope, AssertVideo, registryVars
  <2> QED BY <2>1, <2>2 DEF CallerState, JobsOfActiveOwners
\* The owner is looked at in the transaction that makes the job.
<1>11. ASSUME NEW c \in Caller, Reserve(c) PROVE AccessInv'
  <2>1. admitted' = admitted \cup {[late |-> FALSE, active |-> TRUE]}
    BY <1>11 DEF Reserve, Binding, CallerState
  <2>2. JobsOfActiveOwners'
    BY <2>1 DEF JobsOfActiveOwners
  <2> QED BY <1>1, <1>11, <2>2 DEF Reserve, registryVars
<1> QED
  <2>1. ASSUME NEW s \in Console,
               \/ ConsoleLogin(s) \/ SessionEnds(s) \/ Visit(s) \/ Refused(s)
               \/ \E u \in User : CreateUser(s, u) \/ SetUserStatus(s, u)
               \/ \E p \in Project : CreateProject(s, p) \/ SetProjectStatus(s, p)
                                     \/ AssignPlan(s, p)
               \/ \E l \in Plan : CreatePlan(s, l)
        PROVE  AccessInv'
    BY <1>3, <2>1 DEF ConsoleLogin, SessionEnds, Visit, Refused, CreateUser,
       SetUserStatus, CreateProject, SetProjectStatus, AssignPlan, CreatePlan,
       registryVars
  <2> QED BY <1>2, <1>4, <1>5, <1>6, <1>7, <1>8, <1>9, <1>10, <1>11, <2>1
          DEF AccessNext

\* However keys are disabled and enabled, and owners suspended and made active
\* again, while requests are under way: no job is made by a request that came in
\* after its key was revoked, and none for an owner who is suspended just then.
THEOREM JobsAreOfActiveOwners == AccessSpec => []JobsOfActiveOwners
<1>1. AccessInv => JobsOfActiveOwners
  BY DEF AccessInv
<1> QED BY AccessInvHoldsAtFirst, AccessInvIsKept, <1>1, PTL DEF AccessSpec

-----------------------------------------------------------------------------
(* Waiting answers. *)

ServingInv ==
  /\ status \in {"queued", "working"} \cup Settled
  /\ serving \in [Handler -> ServingState]
  /\ NobodySleepsThrough

\* What becomes of one handler alone: it does not fall asleep.
LEMMA OneHandlerGoesOn ==
  ASSUME ServingInv, NEW h \in Handler, NEW state \in ServingState,
         state.pc # "asleep", serving' = [serving EXCEPT ![h] = state],
         listeners \ {h} \subseteq listeners', UNCHANGED <<status, announcing, silent>>
  PROVE  ServingInv'
<1>1. serving' \in [Handler -> ServingState]
  BY DEF ServingInv
<1>2. ASSUME NEW g \in Handler, serving'[g].pc = "asleep"
      PROVE  g # h /\ serving[g].pc = "asleep"
  BY <1>2 DEF ServingInv
<1>3. NobodySleepsThrough'
  BY <1>2 DEF ServingInv, NobodySleepsThrough, InStep
<1> QED BY <1>1, <1>3 DEF ServingInv

LEMMA ServingInvHoldsAtFirst == ServingInit => ServingInv
  BY DEF ServingInit, ServingInv, NobodySleepsThrough, InStep, NotServing,
     ServingState

\* Whoever sleeps listens, so notify leaves nobody asleep.
LEMMA NotifyWakesAll ==
  ASSUME ServingInv
  PROVE  /\ Woken \in [Handler -> ServingState]
         /\ \A h \in Handler : Woken[h].pc # "asleep"
<1>1. ASSUME NEW h \in Handler
      PROVE  [serving[h] EXCEPT !.pc = "reading"] \in ServingState
             /\ [serving[h] EXCEPT !.pc = "reading"].pc = "reading"
  BY DEF ServingInv, ServingState
<1>2. ASSUME NEW h \in Handler PROVE h \notin listeners => serving[h].pc # "asleep"
  BY DEF ServingInv, NobodySleepsThrough, InStep
<1> QED BY <1>1, <1>2 DEF Woken, ServingInv

LEMMA ServingInvIsKept == ServingInv /\ [ServingNext]_servingVars => ServingInv'
<1> SUFFICES ASSUME ServingInv, [ServingNext]_servingVars PROVE ServingInv'
  OBVIOUS
<1>1. CASE UNCHANGED servingVars
  BY <1>1 DEF servingVars, ServingInv, NobodySleepsThrough, InStep
<1>2. CASE Transition \/ PollNotifies
  <2>1. /\ serving' = Woken
        /\ status' \in {"queued", "working"} \cup Settled
    BY <1>2 DEF Transition, PollNotifies, ServingInv, Settled
  <2>2. NobodySleepsThrough'
    BY <2>1, NotifyWakesAll DEF NobodySleepsThrough, InStep
  <2> QED BY <2>1, <2>2, NotifyWakesAll DEF ServingInv
\* The row changes behind the waiters' backs, which is what the property tells.
<1>3. CASE PollWrites \/ CancelQueued \/ Reconciles
  <2>1. UNCHANGED <<listeners, serving>> /\ status' \in {"queued", "working"} \cup Settled
    BY <1>3 DEF PollWrites, CancelQueued, Reconciles, ServingInv, Settled
  <2>2. status' \in Settled => announcing' \/ silent'
    BY <1>3 DEF PollWrites, CancelQueued, Reconciles, Settled
  <2> QED BY <2>1, <2>2 DEF ServingInv, NobodySleepsThrough, InStep
<1>4. CASE KillServer
  <2>1. NotServing \in ServingState /\ NotServing.pc # "asleep"
    BY DEF NotServing, ServingState
  <2>2. serving' = [h \in Handler |-> NotServing] /\ status' = status
    BY <1>4 DEF KillServer
  <2> QED BY <2>1, <2>2 DEF ServingInv, NobodySleepsThrough, InStep
<1>5. ASSUME NEW h \in Handler, Serve(h) \/ ServeAtOnce(h) PROVE ServingInv'
  <2>1. \A how \in {"wait", "chat", "stream"} :
          /\ [NotServing EXCEPT !.how = how,
                !.pc = IF how = "stream" THEN "opening" ELSE "reading"] \in ServingState
          /\ [NotServing EXCEPT !.how = how,
                !.pc = IF how = "stream" THEN "opening" ELSE "reading"].pc # "asleep"
    BY DEF NotServing, ServingState
  <2>2. [NotServing EXCEPT !.pc = "over", !.answer = "pending"] \in ServingState
        /\ [NotServing EXCEPT !.pc = "over", !.answer = "pending"].pc # "asleep"
    BY DEF NotServing, ServingState
  <2>3. UNCHANGED <<status, announcing, listeners, silent>>
    BY <1>5 DEF Serve, ServeAtOnce
  <2>4. PICK state \in ServingState :
          state.pc # "asleep" /\ serving' = [serving EXCEPT ![h] = state]
    BY <1>5, <2>1, <2>2 DEF Serve, ServeAtOnce, Goes
  <2> QED BY <2>3, <2>4, OneHandlerGoesOn
<1>6. ASSUME NEW h \in Handler, FindsSettled(h) PROVE ServingInv'
  <2> DEFINE found == CASE status = "completed" -> "result"
                        [] status = "failed"    -> "failure"
                        [] OTHER -> IF serving[h].how = "wait" THEN "pending"
                                    ELSE "failure"
             pc == IF serving[h].how # "stream" THEN "over"
                   ELSE IF found = "result" THEN "content" ELSE "error"
             new == [serving[h] EXCEPT !.pc = pc, !.answer = found]
  <2>1. found \in {"result", "failure", "pending"}
    OBVIOUS
  <2>2. pc \in {"over", "content", "error"}
    BY <2>1
  <2>3. serving' = [serving EXCEPT ![h] = new]
        /\ UNCHANGED <<status, announcing, listeners, silent>>
    BY <1>6 DEF FindsSettled, Answer, Goes
  <2> HIDE DEF found, pc
  <2>4. new \in ServingState /\ new.pc # "asleep"
    BY <2>1, <2>2 DEF ServingInv, ServingState
  <2> HIDE DEF new
  <2> QED BY <2>3, <2>4, OneHandlerGoesOn
<1>7. ASSUME NEW h \in Handler, FindsInterval(h) \/ FinalWritten(h) \/ ClientCloses(h)
      PROVE  ServingInv'
  <2>1. PICK pc \in {"progress", "stop", "over", "done"} :
          serving' = [serving EXCEPT ![h] = [serving[h] EXCEPT !.pc = pc]]
    BY <1>7 DEF FindsInterval, FinalWritten, ClientCloses, GoesTo, Goes
  <2>2. [serving[h] EXCEPT !.pc = pc] \in ServingState
        /\ [serving[h] EXCEPT !.pc = pc].pc = pc
    BY <2>1 DEF ServingInv, ServingState
  <2>3. UNCHANGED <<status, announcing, silent>> /\ listeners \ {h} \subseteq listeners'
    BY <1>7 DEF FindsInterval, FinalWritten, ClientCloses
  <2> QED BY <2>1, <2>2, <2>3, OneHandlerGoesOn
\* The row is read and the handler listens in one step.
<1>8. ASSUME NEW h \in Handler, Listens(h) PROVE ServingInv'
  <2>1. /\ serving' = [serving EXCEPT ![h] = [serving[h] EXCEPT !.pc = "asleep"]]
        /\ listeners' = listeners \cup {h} /\ status \notin Settled
        /\ UNCHANGED <<status, announcing, silent>>
    BY <1>8 DEF Listens, GoesTo, Goes
  <2>2. [serving[h] EXCEPT !.pc = "asleep"] \in ServingState
    BY DEF ServingInv, ServingState
  <2>3. \A g \in Handler : g # h => serving'[g] = serving[g]
    BY <2>1 DEF ServingInv
  <2>4. NobodySleepsThrough'
    BY <2>1, <2>3 DEF ServingInv, NobodySleepsThrough, InStep
  <2> QED BY <2>1, <2>2, <2>4 DEF ServingInv
<1>9. ASSUME NEW h \in Handler, TimeIsUp(h) PROVE ServingInv'
  <2> DEFINE new == [serving[h] EXCEPT !.late = TRUE,
                      !.pc = IF @ = "asleep" THEN "reading" ELSE @,
                      !.rung = InStep(h, "asleep") /\ serving[h].how = "stream"]
  <2>1. serving' = [serving EXCEPT ![h] = new] /\ listeners' = listeners \ {h}
        /\ UNCHANGED <<status, announcing, silent>>
    BY <1>9 DEF TimeIsUp, Goes
  <2>2. (InStep(h, "asleep") /\ serving[h].how = "stream") \in BOOLEAN
    OBVIOUS
  <2>3. new \in ServingState /\ new.pc # "asleep"
    BY <2>2 DEF ServingInv, ServingState
  <2> HIDE DEF new
  <2> QED BY <2>1, <2>3, OneHandlerGoesOn
<1>10. ASSUME NEW h \in Handler, IntervalIsOver(h) PROVE ServingInv'
  <2> DEFINE new == [serving[h] EXCEPT !.pc = "reading", !.rung = TRUE]
  <2>1. serving' = [serving EXCEPT ![h] = new] /\ listeners' = listeners \ {h}
        /\ UNCHANGED <<status, announcing, silent>>
    BY <1>10 DEF IntervalIsOver, Goes
  <2>2. new \in ServingState /\ new.pc # "asleep"
    BY DEF ServingInv, ServingState
  <2> HIDE DEF new
  <2> QED BY <2>1, <2>2, OneHandlerGoesOn
<1>11. ASSUME NEW h \in Handler, Written(h) PROVE ServingInv'
  <2> DEFINE end == [serving[h] EXCEPT !.pc = "error", !.answer = "failure"]
             on  == [serving[h] EXCEPT !.pc = "reading", !.rung = FALSE]
  <2>1. serving' = [serving EXCEPT ![h] = IF serving[h].late THEN end ELSE on]
        /\ UNCHANGED <<status, announcing, listeners, silent>>
    BY <1>11 DEF Written, Goes
  <2>2. end \in ServingState /\ end.pc # "asleep" /\ on \in ServingState /\ on.pc # "asleep"
    BY DEF ServingInv, ServingState
  <2> HIDE DEF end, on
  <2> QED BY <2>1, <2>2, OneHandlerGoesOn
<1> QED BY <1>1, <1>2, <1>3, <1>4, <1>5, <1>6, <1>7, <1>8, <1>9, <1>10, <1>11
        DEF ServingNext

\* A handler that sleeps is among those notify will wake, and it does not sleep
\* on when the job is settled, unless one of the routes that call no notify has
\* settled it: for any number of handlers.
THEOREM SleepersAreWoken == ServingSpec => []NobodySleepsThrough
<1>1. ServingInv => NobodySleepsThrough
  BY DEF ServingInv
<1> QED BY ServingInvHoldsAtFirst, ServingInvIsKept, <1>1, PTL DEF ServingSpec

-----------------------------------------------------------------------------
(* Upload: the ranges of normalizeInit tile the media. *)

\* What normalizeInit has checked of each part.
LEMMA NormalParts ==
  ASSUME UploadAssumption, NEW p \in Seq(ByteRange), Normal(p)
  PROVE  /\ Len(p) \in Nat \ {0} /\ DOMAIN p = 1 .. Len(p)
         /\ p[1].first = 0 /\ p[Len(p)].last = Size - 1
         /\ \A i \in 1 .. Len(p) :
              /\ p[i].first \in Nat /\ p[i].last \in Nat
              /\ p[i].first <= p[i].last
              /\ i # 1 => i - 1 \in 1 .. Len(p) /\ p[i].first = p[i - 1].last + 1
<1>1. Len(p) \in Nat \ {0} /\ DOMAIN p = 1 .. Len(p)
  BY DEF Normal
<1>2. ASSUME NEW i \in 1 .. Len(p)
      PROVE  p[i].first \in Nat /\ p[i].last \in Nat
  <2>1. p[i] \in ByteRange
    BY <1>1
  <2>2. p[i].first \in Byte /\ p[i].last \in Byte
    BY <2>1 DEF ByteRange
  <2> QED BY <2>2 DEF Byte, UploadAssumption
<1>3. p[1].first = 0 /\ p[Len(p)].last = Size - 1
  BY <1>1 DEF Normal
<1>4. ASSUME NEW i \in 1 .. Len(p)
      PROVE  /\ p[i].first <= p[i].last
             /\ i # 1 => i - 1 \in 1 .. Len(p) /\ p[i].first = p[i - 1].last + 1
  <2>1. p[i].last >= p[i].first /\ p[i].first = IF i = 1 THEN 0 ELSE p[i - 1].last + 1
    BY <1>1 DEF Normal
  <2> QED BY <1>1, <1>2, <2>1
<1> QED BY <1>1, <1>2, <1>3, <1>4

LEMMA EveryByteHasAPart ==
  ASSUME UploadAssumption, NEW p \in Seq(ByteRange), Normal(p), NEW b \in Byte
  PROVE  \E i \in DOMAIN p : b \in p[i].first .. p[i].last
<1> DEFINE Reaching == {i \in 1 .. Len(p) : b <= p[i].last}
<1>1. b \in Nat /\ b <= Size - 1
  BY DEF Byte, UploadAssumption
<1>2. Len(p) \in Reaching /\ Reaching \subseteq Nat
  BY <1>1, NormalParts
<1>3. PICK i \in Reaching : \A j \in Reaching : i <= j
  BY <1>2, LeastNatural
<1>4. CASE i = 1
  BY <1>1, <1>4, NormalParts
<1>5. CASE i # 1
  <2>1. i - 1 \in 1 .. Len(p) /\ p[i].first = p[i - 1].last + 1
        /\ p[i - 1].last \in Nat
    BY <1>5, NormalParts
  <2>2. i - 1 \notin Reaching
    BY <1>3
  <2>3. p[i].first <= b
    BY <1>1, <2>1, <2>2
  <2> QED BY <1>1, <2>3, NormalParts
<1> QED BY <1>4, <1>5

LEMMA PartsAreApart ==
  ASSUME UploadAssumption, NEW p \in Seq(ByteRange), Normal(p),
         NEW i \in DOMAIN p, NEW j \in DOMAIN p, i < j
  PROVE  p[i].last < p[j].first
<1> DEFINE Touching == {k \in 1 .. Len(p) : i < k /\ p[k].first <= p[i].last}
<1> SUFFICES ASSUME ~(p[i].last < p[j].first) PROVE FALSE
  OBVIOUS
<1>0. j \in Touching
  <2>1. DOMAIN p = 1 .. Len(p)
    BY NormalParts
  <2>2. p[j].first \in Nat /\ p[i].last \in Nat
    BY <2>1, NormalParts
  <2> QED BY <2>1, <2>2
<1>1. Touching \subseteq Nat
  BY NormalParts
<1>2. PICK k \in Touching : \A m \in Touching : k <= m
  BY <1>0, <1>1, LeastNatural
<1>3. /\ i \in 1 .. Len(p) /\ k \in 1 .. Len(p) /\ i < k
      /\ k - 1 \in 1 .. Len(p) /\ p[k].first = p[k - 1].last + 1
      /\ p[k - 1].first <= p[k - 1].last
      /\ p[k - 1].first \in Nat /\ p[k - 1].last \in Nat /\ p[i].last \in Nat
      /\ p[k].first <= p[i].last
  BY NormalParts
<1>4. k - 1 \notin Touching
  <2>1. k \in Nat /\ ~(k <= k - 1)
    BY <1>3
  <2> QED BY <1>2, <2>1
<1> QED BY <1>3, <1>4

LEMMA OnePartForEachByte ==
  ASSUME UploadAssumption, NEW p \in Seq(ByteRange), Normal(p), NEW b \in Byte
  PROVE  \E i \in DOMAIN p : \A j \in DOMAIN p :
           b \in p[j].first .. p[j].last <=> j = i
<1>1. PICK i \in DOMAIN p : b \in p[i].first .. p[i].last
  BY EveryByteHasAPart
<1>2. ASSUME NEW j \in DOMAIN p, b \in p[j].first .. p[j].last PROVE j = i
  <2>1. /\ i \in Nat /\ j \in Nat /\ b \in Nat
        /\ p[i].first \in Nat /\ p[i].last \in Nat
        /\ p[j].first \in Nat /\ p[j].last \in Nat
    BY NormalParts DEF Byte, UploadAssumption
  <2>2. ~(i < j)
    BY <1>1, <1>2, <2>1, PartsAreApart
  <2>3. ~(j < i)
    BY <1>1, <1>2, <2>1, PartsAreApart
  <2> QED BY <2>1, <2>2, <2>3
<1> QED BY <1>1, <1>2

-----------------------------------------------------------------------------
(* Upload: every part is put. *)

Ranges == {parts[i] : i \in DOMAIN parts}

\* Of each part that was taken: it is being put, or was received, unless
\* somebody's part has failed.
TakenParts ==
  ~failure => \A i \in DOMAIN parts : i < nextPart =>
                parts[i] \in received \/ \E w \in Worker : putting[w] = i

UploadInv ==
  /\ UploadTypeOK
  /\ parts # <<>> => Normal(parts) /\ Len(parts) <= MaxParts
  /\ nextPart >= 1 /\ received \subseteq Ranges
  /\ \A w \in Worker :
       putting[w] # 0 => phase = "putting" /\ putting[w] \in DOMAIN parts
  /\ phase = "init" => parts = <<>> /\ nextPart = 1
  /\ phase = "putting" => parts # <<>>
  /\ TakenParts
  /\ phase = "completing" \/ session = "completed" =>
       parts # <<>> /\ \A i \in DOMAIN parts : parts[i] \in received

LEMMA UploadInvHoldsAtFirst ==
  ASSUME UploadAssumption, UploadInit PROVE UploadInv
<1>1. 0 \in 0 .. MaxParts
  BY DEF UploadAssumption
<1>2. UploadTypeOK
  <2>1. parts \in Seq(ByteRange)
    BY DEF UploadInit
  <2>2. putting \in [Worker -> 0 .. MaxParts]
    BY <1>1 DEF UploadInit
  <2> QED BY <2>1, <2>2 DEF UploadInit, UploadTypeOK
<1>3. TakenParts
  BY DEF UploadInit, TakenParts
<1> QED BY <1>2, <1>3 DEF UploadInit, UploadInv

\* A step that leaves the parts and their puts alone.
LEMMA PutsStandStill ==
  ASSUME UploadInv,
         UNCHANGED <<parts, putting, nextPart, failure, received>>
  PROVE  TakenParts' /\ Ranges' = Ranges
  BY DEF UploadInv, TakenParts, Ranges

LEMMA UploadInvIsKept ==
  ASSUME UploadAssumption PROVE UploadInv /\ [UploadNext]_uploadVars => UploadInv'
<1> SUFFICES ASSUME UploadInv, [UploadNext]_uploadVars PROVE UploadInv'
  OBVIOUS
<1>1. CASE UNCHANGED uploadVars
  BY <1>1 DEF uploadVars, UploadInv, UploadTypeOK, TakenParts, Ranges
<1>2. CASE Initialized
  <2>1. PICK n \in 1 .. MaxParts : \E p \in [1 .. n -> ByteRange] :
          Normal(p) /\ parts' = p
    BY <1>2 DEF Initialized
  <2>2. parts' \in Seq(ByteRange) /\ Normal(parts') /\ Len(parts') = n
    BY <2>1 DEF UploadAssumption
  <2>3. n <= MaxParts
    BY <2>1 DEF UploadAssumption
  <2>4. parts' # <<>>
    BY <2>2 DEF Normal
  <2>5. TakenParts'
    BY <1>2, <2>2 DEF Initialized, UploadInv, UploadTypeOK, TakenParts
  <2>6. received' = {} /\ session' # "completed" /\ putting' = putting
        /\ \A w \in Worker : putting[w] = 0
    BY <1>2 DEF Initialized, UploadInv, Ranges
  <2> QED BY <1>2, <2>2, <2>3, <2>4, <2>5, <2>6
          DEF Initialized, UploadInv, UploadTypeOK, TakenParts, Ranges
<1>3. CASE InitFails \/ PutsEnd \/ Completes \/ Fails \/ Cancels
  <2>1. UNCHANGED <<parts, putting, nextPart, failure, received>>
    BY <1>3 DEF InitFails, PutsEnd, Completes, Fails, Cancels
  <2>2. CASE PutsEnd
    BY <2>1, <2>2, PutsStandStill DEF PutsEnd, UploadInv, UploadTypeOK, TakenParts
  <2>3. CASE InitFails \/ Completes \/ Fails \/ Cancels
    BY <2>1, <2>3, PutsStandStill
       DEF InitFails, Completes, Fails, Cancels, UploadInv, UploadTypeOK
  <2> QED BY <1>3, <2>2, <2>3
<1>4. ASSUME NEW w \in Worker, PutStarts(w) PROVE UploadInv'
  <2>1. nextPart \in DOMAIN parts /\ nextPart \in 1 .. MaxParts
    BY <1>4 DEF PutStarts, UploadInv, UploadTypeOK, UploadAssumption
  <2>2. putting' \in [Worker -> 0 .. MaxParts] /\ putting'[w] = nextPart
        /\ \A v \in Worker : v # w => putting'[v] = putting[v]
    BY <1>4, <2>1 DEF PutStarts, UploadInv, UploadTypeOK
  <2>3. TakenParts'
    BY <1>4, <2>1, <2>2 DEF PutStarts, UploadInv, UploadTypeOK, TakenParts
  <2> QED BY <1>4, <2>1, <2>2, <2>3 DEF PutStarts, UploadInv, UploadTypeOK, Ranges
<1>5. ASSUME NEW w \in Worker, PutEnds(w) PROVE UploadInv'
  <2>1. putting[w] \in DOMAIN parts /\ phase = "putting"
        /\ parts[putting[w]] \in Ranges /\ parts[putting[w]] \in ByteRange
    BY <1>5 DEF PutEnds, UploadInv, UploadTypeOK, Ranges
  <2>2. putting' \in [Worker -> 0 .. MaxParts] /\ putting'[w] = 0
        /\ \A v \in Worker : v # w => putting'[v] = putting[v]
    BY <1>5 DEF PutEnds, UploadInv, UploadTypeOK
  <2>3. received \subseteq received' /\ received' \subseteq Ranges
        /\ received' \subseteq ByteRange
    BY <1>5, <2>1 DEF PutEnds, UploadInv, UploadTypeOK
  <2>4. TakenParts'
    BY <1>5, <2>1, <2>2, <2>3 DEF PutEnds, UploadInv, UploadTypeOK, TakenParts
  <2> QED BY <1>5, <2>1, <2>2, <2>3, <2>4
          DEF PutEnds, UploadInv, UploadTypeOK, Ranges
<1> QED BY <1>1, <1>2, <1>3, <1>4, <1>5 DEF UploadNext

LEMMA UploadIsWholeOfInv == ASSUME UploadAssumption, UploadInv PROVE UploadIsWhole
<1>1. ASSUME session = "completed", NEW b \in Byte
      PROVE  Cardinality(Received(b)) = 1
  <2>1. parts \in Seq(ByteRange) /\ Normal(parts)
        /\ \A i \in DOMAIN parts : parts[i] \in received
    BY <1>1 DEF UploadInv, UploadTypeOK
  <2>2. PICK i \in DOMAIN parts : \A j \in DOMAIN parts :
          b \in parts[j].first .. parts[j].last <=> j = i
    BY <2>1, OnePartForEachByte
  <2>3. Received(b) = {parts[i]}
    BY <2>1, <2>2 DEF Received, UploadInv, Ranges
  <2> QED BY <2>3, FS_Singleton
<1> QED BY <1>1 DEF UploadIsWhole, UploadInv

\* For any size, any ranges the provider asks for and any number of workers, a
\* completed upload has each byte of the media once, and nothing is being put
\* while it is completed or cancelled.
THEOREM UploadsAreWhole == UploadSpec => []UploadIsWhole
<1>1. UploadInit => UploadInv
  BY UploadAssumption, UploadInvHoldsAtFirst
<1>2. UploadInv /\ [UploadNext]_uploadVars => UploadInv'
  BY UploadAssumption, UploadInvIsKept
<1>3. UploadInv => UploadIsWhole
  BY UploadAssumption, UploadIsWholeOfInv
<1> QED BY <1>1, <1>2, <1>3, PTL DEF UploadSpec

-----------------------------------------------------------------------------
(* Intake. *)

\* The leases of a request, and those of all, in a table of files.
LeasesIn(files, c) == SumFunction([i \in Input |-> files[c][i].lease])
AllLeasesIn(files) == SumFunction([c \in Client |-> LeasesIn(files, c)])

Files == [Client -> [Input -> Media]]

LEMMA MediaTyped ==
  /\ NoMedia \in Media
  /\ \A f \in Media : /\ f.declared \in Nat /\ f.lease \in Nat /\ f.disk \in Nat
                      /\ f.declared <= MaxSize /\ f.lease <= MaxSize
                      /\ f.disk <= MaxSize
  BY IntakeAssumption DEF IntakeAssumption, NoMedia, Media

LEMMA InputIsFinite ==
  IsFiniteSet(Input)
  BY IntakeAssumption, FS_Interval DEF IntakeAssumption, Input

LEMMA LeasesTyped ==
  ASSUME NEW M \in Files
  PROVE  /\ \A c \in Client : LeasesIn(M, c) \in Nat
         /\ AllLeasesIn(M) \in Nat
<1>1. ASSUME NEW c \in Client PROVE LeasesIn(M, c) \in Nat
  <2> DEFINE f == [i \in Input |-> M[c][i].lease]
  <2>1. \A i \in Input : f[i] \in Nat
    BY MediaTyped DEF Files
  <2>2. LeasesIn(M, c) = Total(f, Input)
    BY DEF LeasesIn, SumFunction, Total
  <2> HIDE DEF f
  <2> QED BY <2>1, <2>2, InputIsFinite, SumType
<1>2. AllLeasesIn(M) \in Nat
  <2> DEFINE f == [c \in Client |-> LeasesIn(M, c)]
  <2>1. \A c \in Client : f[c] \in Nat
    BY <1>1
  <2>2. AllLeasesIn(M) = Total(f, Client)
    BY DEF AllLeasesIn, SumFunction, Total
  <2> HIDE DEF f
  <2> QED BY <2>1, <2>2, SumType, IntakeAssumption DEF IntakeAssumption
<1> QED BY <1>1, <1>2

\* Tables with the same leases.
LEMMA SameLeases ==
  ASSUME NEW M, NEW L, \A c \in Client : \A i \in Input : M[c][i].lease = L[c][i].lease
  PROVE  /\ \A c \in Client : LeasesIn(M, c) = LeasesIn(L, c)
         /\ AllLeasesIn(M) = AllLeasesIn(L)
<1>1. ASSUME NEW c \in Client PROVE LeasesIn(M, c) = LeasesIn(L, c)
  <2>1. [i \in Input |-> M[c][i].lease] = [i \in Input |-> L[c][i].lease]
    OBVIOUS
  <2> QED BY <2>1 DEF LeasesIn
<1>2. [c \in Client |-> LeasesIn(M, c)] = [c \in Client |-> LeasesIn(L, c)]
  BY <1>1
<1> QED BY <1>1, <1>2 DEF AllLeasesIn

\* The lease of one file changes.
LEMMA OneLease ==
  ASSUME NEW M \in Files, NEW c \in Client, NEW i \in Input, NEW file \in Media,
         NEW L, L = [M EXCEPT ![c][i] = file]
  PROVE  /\ L \in Files
         /\ AllLeasesIn(L) = AllLeasesIn(M) - M[c][i].lease + file.lease
         /\ AllLeasesIn(L) \in Nat /\ AllLeasesIn(M) \in Nat
<1>1. L \in Files
  BY DEF Files
<1>2. \A x \in Client : \A k \in Input :
        L[x][k] = IF x = c /\ k = i THEN file ELSE M[x][k]
  BY DEF Files
<1>3. M[c][i].lease \in Nat /\ file.lease \in Nat
  BY MediaTyped DEF Files
<1>4. /\ LeasesIn(L, c) = LeasesIn(M, c) - M[c][i].lease + file.lease
  <2> DEFINE f == [k \in Input |-> M[c][k].lease]
             e == [k \in Input |-> L[c][k].lease]
  <2>1. \A k \in Input : f[k] \in Nat /\ e[k] \in Nat
    BY <1>1, MediaTyped DEF Files
  <2>2. \A k \in Input \ {i} : f[k] = e[k]
    BY <1>2
  <2>3. f[i] = M[c][i].lease /\ e[i] = file.lease
    BY <1>2
  <2>4. LeasesIn(M, c) = Total(f, Input) /\ LeasesIn(L, c) = Total(e, Input)
    BY DEF LeasesIn, SumFunction, Total
  <2> HIDE DEF f, e
  <2> QED BY <2>1, <2>2, <2>3, <2>4, InputIsFinite, SumChanges
<1>5. \A x \in Client \ {c} : LeasesIn(L, x) = LeasesIn(M, x)
  <2> SUFFICES ASSUME NEW x \in Client \ {c} PROVE LeasesIn(L, x) = LeasesIn(M, x)
    OBVIOUS
  <2>1. [k \in Input |-> L[x][k].lease] = [k \in Input |-> M[x][k].lease]
    BY <1>2
  <2> QED BY <2>1 DEF LeasesIn
<1>6. AllLeasesIn(L) = AllLeasesIn(M) - LeasesIn(M, c) + LeasesIn(L, c)
  <2> DEFINE f == [x \in Client |-> LeasesIn(M, x)]
             e == [x \in Client |-> LeasesIn(L, x)]
  <2>1. \A x \in Client : f[x] \in Nat /\ e[x] \in Nat
    BY <1>1, LeasesTyped
  <2>2. \A x \in Client \ {c} : f[x] = e[x]
    BY <1>5
  <2>3. f[c] = LeasesIn(M, c) /\ e[c] = LeasesIn(L, c)
    OBVIOUS
  <2>4. AllLeasesIn(M) = Total(f, Client) /\ AllLeasesIn(L) = Total(e, Client)
    BY DEF AllLeasesIn, SumFunction, Total
  <2> HIDE DEF f, e
  <2> QED BY <2>1, <2>2, <2>3, <2>4, SumChanges, IntakeAssumption DEF IntakeAssumption
<1>7. /\ AllLeasesIn(L) \in Nat /\ AllLeasesIn(M) \in Nat /\ LeasesIn(M, c) \in Nat
      /\ LeasesIn(L, c) \in Nat
  BY <1>1, LeasesTyped
<1> QED BY <1>1, <1>3, <1>4, <1>6, <1>7

\* Nothing is leased exactly when no file has a lease.
LEMMA NoLeases ==
  ASSUME NEW M \in Files
  PROVE  /\ \A c \in Client : LeasesIn(M, c) = 0 <=> \A i \in Input : M[c][i].lease = 0
         /\ (\A c \in Client : \A i \in Input : M[c][i].lease = 0) => AllLeasesIn(M) = 0
<1>1. ASSUME NEW c \in Client
      PROVE  LeasesIn(M, c) = 0 <=> \A i \in Input : M[c][i].lease = 0
  <2> DEFINE f == [i \in Input |-> M[c][i].lease]
  <2>1. \A i \in Input : f[i] \in Nat /\ f[i] = M[c][i].lease
    BY MediaTyped DEF Files
  <2>2. LeasesIn(M, c) = Total(f, Input)
    BY DEF LeasesIn, SumFunction, Total
  <2> HIDE DEF f
  <2> QED BY <2>1, <2>2, InputIsFinite, SumIsNothing
<1>2. ASSUME \A c \in Client : \A i \in Input : M[c][i].lease = 0
      PROVE  AllLeasesIn(M) = 0
  <2> DEFINE f == [c \in Client |-> LeasesIn(M, c)]
  <2>1. \A c \in Client : f[c] = 0
    BY <1>1, <1>2
  <2>2. AllLeasesIn(M) = Total(f, Client)
    BY DEF AllLeasesIn, SumFunction, Total
  <2> HIDE DEF f
  <2> QED BY <2>1, <2>2, SumIsNothing, IntakeAssumption DEF IntakeAssumption
<1> QED BY <1>1, <1>2

\* What is written is leased, and a file that is being written has the leases
\* it was opened with or the ones it has grown to.
FileRight(f) ==
  /\ f.disk <= f.lease
  /\ f.pc \in {"none", "gone"} => f.lease = 0
  /\ f.pc = "writing" =>
       f.lease = IF f.disk <= f.declared THEN f.declared ELSE f.disk

\* A request takes in one input after the other: those before the one at work
\* are ready, those after it have no file.
TakesIn(q) == q.pc \in {"parsing", "checking", "preparing"}
InputLeft(q) == \/ q.pc = "parsing" /\ q.at <= q.files
                \/ q.pc = "preparing" /\ q.at <= q.n

\* Where the files of a request may be.
InputRight(q, i) ==
  IF q.pc = "idle" THEN {"none"}
  ELSE IF TakesIn(q) THEN IF i < q.at THEN {"ready"}
                          ELSE IF i = q.at /\ InputLeft(q) THEN {"none", "writing"}
                          ELSE {"none"}
  ELSE IF q.pc = "admitting" THEN {"none", "ready"}
  ELSE IF q.pc = "starting" \/ (q.pc = "running" /\ q.at = 1)
  THEN {"none", "ready", "gone"}
  ELSE IF q.pc = "running" THEN {"none", "ready", "removing", "gone"}
  ELSE {"none", "removing", "gone"}

CursorRight(q) ==
  /\ q.files <= q.n
  /\ q.pc = "parsing" => q.at <= q.files + 1
  /\ q.pc = "checking" => q.at = q.files + 1
  /\ q.pc = "preparing" => q.at <= q.n + 1

IntakeInv ==
  /\ IntakeTypeOK
  /\ used = AllLeasesIn(media)
  /\ \A c \in Client :
       /\ CursorRight(intake[c])
       /\ \A i \in Input : FileRight(media[c][i])
       /\ intake[c].pc # "idle" \/ c \notin abandoned =>
            \A i \in Input : media[c][i].pc \in InputRight(intake[c], i)

LEMMA IntakeInvHoldsAtFirst == IntakeInit => IntakeInv
<1> SUFFICES ASSUME IntakeInit PROVE IntakeInv
  OBVIOUS
<1>1. NoIntake \in Intake /\ CursorRight(NoIntake)
  BY IntakeAssumption DEF IntakeAssumption, NoIntake, Intake, CursorRight
<1>2. IntakeTypeOK
  BY <1>1, MediaTyped, IntakeAssumption
     DEF IntakeAssumption, IntakeInit, IntakeTypeOK
<1>3. used = AllLeasesIn(media)
  <2> PICK M \in Files : M = media
    BY <1>2 DEF IntakeTypeOK, Files
  <2>1. \A c \in Client : \A i \in Input : M[c][i].lease = 0
    BY DEF IntakeInit, NoMedia
  <2> QED BY <2>1, NoLeases DEF IntakeInit
<1>4. FileRight(NoMedia) /\ NoMedia.pc = "none" /\ NoIntake.pc = "idle"
  BY DEF FileRight, NoMedia, NoIntake
<1> QED BY <1>1, <1>2, <1>3, <1>4 DEF IntakeInv, IntakeInit, InputRight

\* A step that changes no lease.
LEMMA LeasesKept ==
  ASSUME IntakeInv, UNCHANGED used, media' \in Files,
         \A c \in Client : \A i \in Input : media'[c][i].lease = media[c][i].lease
  PROVE  used' = AllLeasesIn(media)'
<1> PICK M : M = media
  OBVIOUS
<1> PICK L : L = media'
  OBVIOUS
<1>1. AllLeasesIn(M) = AllLeasesIn(L)
  BY SameLeases
<1> QED BY <1>1 DEF IntakeInv

\* A step that changes the lease of one file.
LEMMA LeaseChanged ==
  ASSUME IntakeInv, NEW c \in Client, NEW i \in Input, NEW file \in Media,
         media' = [media EXCEPT ![c][i] = file],
         used' = used - media[c][i].lease + file.lease
  PROVE  media' \in Files /\ used' \in Nat /\ used' = AllLeasesIn(media)'
<1> PICK M \in Files : M = media
  BY DEF IntakeInv, IntakeTypeOK, Files
<1> PICK L : L = media'
  OBVIOUS
<1>1. /\ L \in Files
      /\ AllLeasesIn(L) = AllLeasesIn(M) - M[c][i].lease + file.lease
      /\ AllLeasesIn(L) \in Nat
  BY OneLease
<1> QED BY <1>1 DEF IntakeInv

\* A step of one request, whose files become f and whose record becomes q.
LEMMA StepOfOne ==
  ASSUME IntakeInv, NEW c \in Client, NEW f \in [Input -> Media], NEW q \in Intake,
         media' = [media EXCEPT ![c] = f], intake' = [intake EXCEPT ![c] = q],
         abandoned' = abandoned \/ abandoned' = abandoned \cup {c},
         used' \in 0 .. MaxTemp, used' = AllLeasesIn(media)',
         CursorRight(q), \A i \in Input : FileRight(f[i]),
         q.pc # "idle" \/ c \notin abandoned' =>
           \A i \in Input : f[i].pc \in InputRight(q, i)
  PROVE  IntakeInv'
<1>1. /\ media \in [Client -> [Input -> Media]] /\ intake \in [Client -> Intake]
      /\ abandoned \subseteq Client
  BY DEF IntakeInv, IntakeTypeOK
<1>2. IntakeTypeOK'
  BY <1>1 DEF IntakeTypeOK
<1>3. /\ media'[c] = f /\ intake'[c] = q
      /\ \A d \in Client \ {c} : media'[d] = media[d] /\ intake'[d] = intake[d]
  BY <1>1
<1>4. ASSUME NEW d \in Client
      PROVE  /\ CursorRight(intake'[d])
             /\ \A i \in Input : FileRight(media'[d][i])
             /\ intake'[d].pc # "idle" \/ d \notin abandoned' =>
                  \A i \in Input : media'[d][i].pc \in InputRight(intake'[d], i)
  <2>1. CASE d = c
    BY <1>3, <2>1
  <2>2. CASE d # c
    BY <1>3, <2>2 DEF IntakeInv
  <2> QED BY <2>1, <2>2
<1> QED BY <1>2, <1>4 DEF IntakeInv

\* A step of one request that leaves its files and its leases alone.
LEMMA StepOfRequest ==
  ASSUME IntakeInv, NEW c \in Client, NEW q \in Intake,
         intake' = [intake EXCEPT ![c] = q], UNCHANGED <<used, media>>,
         abandoned' = abandoned \/ abandoned' = abandoned \cup {c}, CursorRight(q),
         q.pc # "idle" \/ c \notin abandoned' =>
           \A i \in Input : media[c][i].pc \in InputRight(q, i)
  PROVE  IntakeInv'
<1>1. /\ media \in [Client -> [Input -> Media]] /\ used \in 0 .. MaxTemp
      /\ \A i \in Input : FileRight(media[c][i])
  BY DEF IntakeInv, IntakeTypeOK
<1> PICK f \in [Input -> Media] : f = media[c]
  BY <1>1
<1>2. media' = [media EXCEPT ![c] = f]
  BY <1>1
<1>3. used' = AllLeasesIn(media)'
  BY <1>1, LeasesKept DEF Files
<1> QED BY <1>1, <1>2, <1>3, StepOfOne

\* A step at one file of a request, after which its record is q.
LEMMA StepOfFile ==
  ASSUME IntakeInv, NEW c \in Client, NEW i \in Input, NEW file \in Media,
         NEW q \in Intake, media' = [media EXCEPT ![c][i] = file],
         intake' = [intake EXCEPT ![c] = q], UNCHANGED abandoned,
         used' = used - media[c][i].lease + file.lease, used' <= MaxTemp,
         CursorRight(q), FileRight(file), file.pc \in InputRight(q, i),
         q.pc # "idle" \/ c \notin abandoned =>
           \A j \in Input \ {i} : media[c][j].pc \in InputRight(q, j)
  PROVE  IntakeInv'
<1>1. /\ media \in [Client -> [Input -> Media]] /\ used \in 0 .. MaxTemp
      /\ \A j \in Input : FileRight(media[c][j])
  BY DEF IntakeInv, IntakeTypeOK
<1> PICK f \in [Input -> Media] : f = [media[c] EXCEPT ![i] = file]
  BY <1>1
<1>2. media' = [media EXCEPT ![c] = f]
  BY <1>1
<1>3. used' \in Nat /\ used' = AllLeasesIn(media)'
  BY LeaseChanged
<1>4. \A j \in Input : f[j] = IF j = i THEN file ELSE media[c][j]
  BY <1>1
<1>5. used' \in 0 .. MaxTemp
  BY <1>3, IntakeAssumption DEF IntakeAssumption
<1> HIDE DEF IntakeInv
<1> QED BY <1>1, <1>2, <1>3, <1>4, <1>5, StepOfOne

\* Every file of a request is disposed of.
LEMMA FilesAreDisposedOf ==
  ASSUME IntakeInv, NEW c \in Client, NEW next \in {"idle", "starting"},
         Dispose(c, next), intake[c].pc # "idle"
  PROVE  IntakeInv'
<1>1. /\ media \in [Client -> [Input -> Media]] /\ used \in 0 .. MaxTemp
      /\ intake \in [Client -> Intake]
      /\ \A i \in Input : FileRight(media[c][i]) /\ media[c][i] \in Media
      /\ CursorRight(intake[c])
      /\ \A i \in Input : media[c][i].pc \in InputRight(intake[c], i)
  BY DEF IntakeInv, IntakeTypeOK
<1> PICK q : q = [intake[c] EXCEPT !.pc = "disposing", !.next = next]
  OBVIOUS
<1> PICK f : f = [i \in Input |-> [media[c][i] EXCEPT
                    !.pc = IF @ \in {"ready", "writing"} THEN "removing" ELSE @]]
  OBVIOUS
<1>2. q \in Intake /\ CursorRight(q) /\ q.pc = "disposing"
  BY <1>1 DEF Intake, CursorRight
<1>3. intake' = [intake EXCEPT ![c] = q]
  BY <1>1 DEF Dispose
<1>4. media' = [media EXCEPT ![c] = f]
  BY <1>1 DEF Dispose
<1>5. \A i \in Input : /\ f[i] \in Media /\ f[i].lease = media[c][i].lease
                       /\ FileRight(f[i])
                       /\ f[i].pc \in {"none", "removing", "gone"}
  <2> SUFFICES ASSUME NEW i \in Input
               PROVE  /\ f[i] \in Media /\ f[i].lease = media[c][i].lease
                      /\ FileRight(f[i])
                      /\ f[i].pc \in {"none", "removing", "gone"}
    OBVIOUS
  <2> PICK m \in Media : m = media[c][i]
    BY <1>1
  <2>1. f[i] = [m EXCEPT !.pc = IF @ \in {"ready", "writing"} THEN "removing" ELSE @]
    OBVIOUS
  <2>2. FileRight(m)
    BY <1>1
  <2> QED BY <2>1, <2>2 DEF Media, FileRight
<1>6. f \in [Input -> Media]
  BY <1>5
<1>7. \A d \in Client : \A i \in Input : media'[d][i].lease = media[d][i].lease
  BY <1>1, <1>4, <1>5
<1>8. UNCHANGED <<used, abandoned>> /\ media' \in Files
  BY <1>1, <1>4, <1>6 DEF Dispose, Files
<1>9. used' = AllLeasesIn(media)'
  BY <1>7, <1>8, LeasesKept
<1>10. \A i \in Input : f[i].pc \in InputRight(q, i)
  BY <1>2, <1>5 DEF InputRight, TakesIn
<1> QED BY <1>1, <1>2, <1>3, <1>4, <1>5, <1>6, <1>8, <1>9, <1>10, StepOfOne

\* What the invariant says of one request.
LEMMA AtOneRequest ==
  ASSUME IntakeInv, NEW c \in Client
  PROVE  /\ media \in [Client -> [Input -> Media]] /\ used \in 0 .. MaxTemp
         /\ intake \in [Client -> Intake] /\ intake[c] \in Intake
         /\ intake[c].at \in 1 .. MaxInputs + 1
         /\ intake[c].n \in 0 .. MaxInputs /\ intake[c].files \in 0 .. MaxInputs
         /\ used \in Nat /\ MaxTemp \in Nat /\ MaxInputs \in Nat /\ MaxSize \in Nat
         /\ CursorRight(intake[c]) /\ abandoned \subseteq Client
         /\ \A i \in Input : media[c][i] \in Media /\ FileRight(media[c][i])
         /\ intake[c].pc # "idle" \/ c \notin abandoned =>
              \A i \in Input : media[c][i].pc \in InputRight(intake[c], i)
  BY IntakeAssumption DEF IntakeAssumption, IntakeInv, IntakeTypeOK, Intake

LEMMA OpenFileIsRight ==
  ASSUME IntakeInv, NEW c \in Client, OpenFile(c)
  PROVE  IntakeInv'
<1>0. PICK q \in Intake : q = intake[c]
  BY AtOneRequest
<1>1. PICK declared \in 0 .. MaxSize :
        /\ Lease(c, declared)
        /\ Set(c, [pc |-> "writing", declared |-> declared, lease |-> declared,
                   disk |-> 0])
  BY IntakeAssumption DEF IntakeAssumption, OpenFile, Declared
<1>f. PICK file : file = [pc |-> "writing", declared |-> declared,
                          lease |-> declared, disk |-> 0]
  OBVIOUS
<1>2. file \in Media /\ FileRight(file) /\ file.pc = "writing" /\ file.lease = declared
  BY <1>f, IntakeAssumption DEF IntakeAssumption, Media, FileRight
<1>3. q.at \in Input /\ InputLeft(q) /\ TakesIn(q) /\ q.pc # "idle"
  BY <1>0, AtOneRequest
     DEF OpenFile, InputsLeft, InputLeft, TakesIn, Turn, Input, CursorRight
<1>i. PICK i \in Input : i = q.at
  BY <1>3
<1>4. media[c][i].pc = "none" /\ media[c][i].lease = 0
  BY <1>0, <1>i, AtOneRequest DEF OpenFile, Now, Turn, FileRight
<1>5. media' = [media EXCEPT ![c][i] = file]
  BY <1>0, <1>1, <1>f, <1>i DEF Set, Turn
<1>6. /\ used' = used + declared /\ used' <= MaxTemp
      /\ UNCHANGED <<intake, abandoned>>
  BY <1>1, AtOneRequest DEF Lease, Room, OpenFile
<1>7. file.pc \in InputRight(q, i)
  BY <1>2, <1>3, <1>i, AtOneRequest DEF InputRight, TakesIn, InputLeft, Input
<1>8. used' = used - media[c][i].lease + file.lease
  BY <1>2, <1>4, <1>6, AtOneRequest
<1>9. intake' = [intake EXCEPT ![c] = q]
  BY <1>0, <1>6, AtOneRequest
<1>10. /\ CursorRight(q)
       /\ \A j \in Input \ {i} : media[c][j].pc \in InputRight(q, j)
  BY <1>0, <1>3, AtOneRequest
<1> QED BY <1>2, <1>5, <1>6, <1>7, <1>8, <1>9, <1>10, StepOfFile

\* The file that a request writes.
LEMMA FileAtWork ==
  ASSUME IntakeInv, NEW c \in Client, InputsLeft(c), Now(c).pc = "writing",
         NEW q \in Intake, q = intake[c]
  PROVE  /\ q.at \in Input /\ InputLeft(q) /\ TakesIn(q) /\ q.pc # "idle"
         /\ Now(c) = media[c][q.at] /\ Now(c) \in Media /\ FileRight(Now(c))
         /\ Turn(c) = q.at
<1>1. q.at \in Input /\ InputLeft(q) /\ TakesIn(q) /\ q.pc # "idle" /\ Turn(c) = q.at
  BY AtOneRequest DEF InputsLeft, InputLeft, TakesIn, Turn, Input, CursorRight
<1> QED BY <1>1, AtOneRequest DEF Now

\* One more chunk of a file, and what its lease grows by.
LEMMA OneChunkMore ==
  ASSUME NEW m \in Media, m.pc = "writing", FileRight(m), m.disk < MaxSize,
         NEW grows \in {0, 1}, grows = IF m.disk >= m.declared THEN 1 ELSE 0,
         NEW file, file = [pc |-> m.pc, declared |-> m.declared,
                           lease |-> m.lease + grows, disk |-> m.disk + 1]
  PROVE  /\ file \in Media /\ FileRight(file) /\ file.pc = "writing"
         /\ file.lease = m.lease + grows
<1>1. /\ m.disk \in Nat /\ m.lease \in Nat /\ m.declared \in Nat
      /\ m.declared <= MaxSize /\ MaxSize \in Nat
      /\ m.lease = IF m.disk <= m.declared THEN m.declared ELSE m.disk
  BY MediaTyped, IntakeAssumption DEF FileRight, IntakeAssumption
<1>3. /\ file.pc = "writing" /\ file.declared = m.declared
      /\ file.disk = m.disk + 1 /\ file.lease = m.lease + grows
  OBVIOUS
<1>4. file.lease = IF file.disk <= file.declared THEN file.declared ELSE file.disk
  <2>1. CASE m.disk < m.declared
    BY <1>1, <1>3, <2>1
  <2>2. CASE m.disk >= m.declared
    BY <1>1, <1>3, <2>2
  <2> QED BY <1>1, <2>1, <2>2
<1>5. file.lease \in 0 .. MaxSize /\ file.disk \in 0 .. MaxSize
      /\ file.disk <= file.lease
  BY <1>1, <1>3, <1>4
<1>6. file \in Media
  BY <1>1, <1>3, <1>5 DEF Media
<1> QED BY <1>3, <1>4, <1>5, <1>6 DEF FileRight

LEMMA WriteChunkIsRight ==
  ASSUME IntakeInv, NEW c \in Client, WriteChunk(c)
  PROVE  IntakeInv'
<1>0. PICK q \in Intake : q = intake[c]
  BY AtOneRequest
<1>1. /\ q.at \in Input /\ InputLeft(q) /\ TakesIn(q) /\ q.pc # "idle"
      /\ Now(c) = media[c][q.at] /\ Now(c) \in Media /\ FileRight(Now(c))
      /\ Turn(c) = q.at
  BY <1>0, FileAtWork DEF WriteChunk
<1>i. PICK i \in Input : i = q.at
  BY <1>1
<1>m. PICK m \in Media : m = Now(c)
  BY <1>1
<1>g. PICK grows \in {0, 1} : grows = IF m.disk >= m.declared THEN 1 ELSE 0
  OBVIOUS
<1>f. PICK file : file = [m EXCEPT !.disk = @ + 1, !.lease = @ + grows]
  OBVIOUS
<1>2. /\ m.disk < MaxSize /\ m.pc = "writing" /\ UNCHANGED <<intake, abandoned>>
  BY <1>m DEF WriteChunk
<1>3. Lease(c, grows)
  BY <1>g, <1>m DEF WriteChunk
<1>4. /\ file \in Media /\ FileRight(file) /\ file.pc = "writing"
      /\ file.lease = m.lease + grows
  <2>1. FileRight(m)
    BY <1>1, <1>m, Zenon
  <2>2. file = [pc |-> m.pc, declared |-> m.declared, lease |-> m.lease + grows,
                disk |-> m.disk + 1]
    BY <1>f DEF Media
  <2> QED BY <1>2, <1>g, <2>1, <2>2, OneChunkMore, Zenon
<1>5. media' = [media EXCEPT ![c][i] = file]
  <2>1. Set(c, [m EXCEPT !.disk = @ + 1, !.lease = @ + grows])
    BY <1>g, <1>m, Zenon DEF WriteChunk
  <2>2. Set(c, file)
    BY <1>f, <2>1, Zenon
  <2> QED BY <1>1, <1>i, <2>2 DEF Set
<1>6. used' = used + grows /\ used' <= MaxTemp
  BY <1>3, AtOneRequest DEF Lease, Room
<1>7. file.pc \in InputRight(q, i)
  BY <1>1, <1>4, <1>i, AtOneRequest DEF InputRight, TakesIn, InputLeft, Input
<1>8. used' = used - media[c][i].lease + file.lease
  BY <1>1, <1>4, <1>6, <1>i, <1>m, AtOneRequest, MediaTyped
<1>9. intake' = [intake EXCEPT ![c] = q]
  BY <1>0, <1>2, AtOneRequest
<1>10. /\ CursorRight(q)
       /\ \A j \in Input \ {i} : media[c][j].pc \in InputRight(q, j)
  BY <1>0, <1>1, AtOneRequest
<1> QED BY <1>2, <1>4, <1>5, <1>6, <1>7, <1>8, <1>9, <1>10, StepOfFile

\* A file that is complete leases what it has, and the cursor goes on.
LEMMA OneFileMore ==
  ASSUME NEW m \in Media, FileRight(m),
         NEW file, file = [pc |-> "ready", declared |-> m.declared,
                           lease |-> m.disk, disk |-> m.disk]
  PROVE  /\ file \in Media /\ FileRight(file) /\ file.pc = "ready"
         /\ file.lease = m.disk /\ m.disk <= m.lease
<1>1. m.disk \in 0 .. MaxSize /\ m.declared \in 0 .. MaxSize /\ m.disk \in Nat
  BY IntakeAssumption DEF IntakeAssumption, Media
<1>2. file \in Media
  BY <1>1 DEF Media
<1> QED BY <1>1, <1>2 DEF FileRight

LEMMA CloseFileIsRight ==
  ASSUME IntakeInv, NEW c \in Client, CloseFile(c)
  PROVE  IntakeInv'
<1>0. PICK p \in Intake : p = intake[c]
  BY AtOneRequest
<1>1. /\ p.at \in Input /\ InputLeft(p) /\ TakesIn(p) /\ p.pc # "idle"
      /\ Now(c) = media[c][p.at] /\ Now(c) \in Media /\ FileRight(Now(c))
      /\ Turn(c) = p.at
  BY <1>0, FileAtWork DEF CloseFile
<1>i. PICK i \in Input : i = p.at
  BY <1>1
<1>m. PICK m \in Media : m = Now(c)
  BY <1>1
<1>q. PICK q : q = [p EXCEPT !.at = @ + 1]
  OBVIOUS
<1>f. PICK file : file = [m EXCEPT !.pc = "ready", !.lease = m.disk]
  OBVIOUS
<1>2. m.pc = "writing" /\ used' = used - (m.lease - m.disk) /\ UNCHANGED abandoned
  BY <1>m DEF CloseFile
<1>3. media' = [media EXCEPT ![c][i] = file]
  <2>1. Set(c, file)
    BY <1>f, <1>m, Zenon DEF CloseFile
  <2> QED BY <1>1, <1>i, <2>1 DEF Set
<1>4. intake' = [intake EXCEPT ![c] = q]
  <2>1. intake' = [intake EXCEPT ![c].at = @ + 1]
    BY DEF CloseFile
  <2> QED BY <1>0, <1>q, <2>1, AtOneRequest
<1>5. /\ file \in Media /\ FileRight(file) /\ file.pc = "ready"
      /\ file.lease = m.disk /\ m.disk <= m.lease
  <2>1. FileRight(m)
    BY <1>1, <1>m, Zenon
  <2>2. file = [pc |-> "ready", declared |-> m.declared, lease |-> m.disk,
                disk |-> m.disk]
    BY <1>f DEF Media
  <2> QED BY <2>1, <2>2, OneFileMore, Zenon
<1>6. /\ q.pc = p.pc /\ q.at = p.at + 1 /\ q.n = p.n /\ q.files = p.files
      /\ q.files \in 0 .. MaxInputs /\ q.n \in 0 .. MaxInputs /\ p.at \in Nat
      /\ MaxInputs \in Nat
  BY <1>q, IntakeAssumption DEF IntakeAssumption, Intake
<1>7. q \in Intake
  <2>1. q.at \in 1 .. MaxInputs + 1
    BY <1>1, <1>6 DEF Input
  <2>2. q = [p EXCEPT !.at = q.at]
    BY <1>6, <1>q
  <2> QED BY <2>1, <2>2 DEF Intake
<1>8. CursorRight(q)
  <2>1. CursorRight(p)
    BY <1>0, AtOneRequest
  <2> QED BY <1>1, <1>6, <2>1 DEF CursorRight, InputLeft, TakesIn
<1>9. /\ used' = used - media[c][i].lease + file.lease /\ used' <= MaxTemp
  <2>1. used \in Nat /\ used <= MaxTemp /\ MaxTemp \in Nat /\ m = media[c][i]
    BY <1>1, <1>i, <1>m, AtOneRequest
  <2> QED BY <1>2, <1>5, <2>1, MediaTyped
<1>10. \A j \in Input : media[c][j].pc \in InputRight(p, j) /\ j \in Nat
  BY <1>0, <1>1, AtOneRequest DEF Input
<1>11. q.pc # "idle" /\ TakesIn(q)
  BY <1>1, <1>6 DEF TakesIn
<1>12. file.pc \in InputRight(q, i)
  BY <1>5, <1>6, <1>11, <1>i DEF InputRight
<1>13. ASSUME NEW j \in Input, j # i PROVE media[c][j].pc \in InputRight(q, j)
  <2>1. CASE j < i
    BY <1>1, <1>6, <1>10, <1>11, <1>i, <2>1 DEF InputRight
  <2>2. CASE j > i
    <3>1. media[c][j].pc = "none"
      BY <1>1, <1>6, <1>10, <1>i, <2>2 DEF InputRight
    <3> QED BY <1>6, <1>10, <1>11, <1>i, <2>2, <3>1 DEF InputRight
  <2> QED BY <1>6, <1>10, <1>13, <1>i, <2>1, <2>2
<1> QED BY <1>2, <1>3, <1>4, <1>5, <1>7, <1>8, <1>9, <1>12, <1>13, StepOfFile

LEMMA RemoveFileIsRight ==
  ASSUME IntakeInv, NEW c \in Client, RemoveFile(c)
  PROVE  IntakeInv'
<1>i. PICK i \in Input :
      /\ media[c][i].pc = "removing" /\ used' = used - media[c][i].lease
      /\ media' = [media EXCEPT ![c][i] = [NoMedia EXCEPT !.pc = "gone"]]
      /\ UNCHANGED <<intake, abandoned>>
  BY DEF RemoveFile
<1>0. PICK q \in Intake : q = intake[c]
  BY AtOneRequest
<1>f. PICK file : file = [NoMedia EXCEPT !.pc = "gone"]
  OBVIOUS
<1>1. file \in Media /\ FileRight(file) /\ file.pc = "gone" /\ file.lease = 0
  BY <1>f, IntakeAssumption DEF IntakeAssumption, Media, NoMedia, FileRight
<1>2. media' = [media EXCEPT ![c][i] = file] /\ UNCHANGED abandoned
  BY <1>f, <1>i
<1>3. intake' = [intake EXCEPT ![c] = q]
  BY <1>0, <1>i, AtOneRequest
<1>4. used' = used - media[c][i].lease + file.lease /\ used' <= MaxTemp
  BY <1>1, <1>i, AtOneRequest, MediaTyped
<1>5. CursorRight(q)
  BY <1>0, AtOneRequest
<1>6. CASE q.pc # "idle"
  <2>1. \A j \in Input : media[c][j].pc \in InputRight(q, j)
    BY <1>0, <1>6, AtOneRequest
  <2>2. file.pc \in InputRight(q, i)
    <3>1. "removing" \in InputRight(q, i)
      BY <1>i, <2>1
    <3> QED BY <1>1, <1>6, <3>1 DEF InputRight
  <2> QED BY <1>1, <1>2, <1>3, <1>4, <1>5, <2>1, <2>2, StepOfFile
<1>7. CASE q.pc = "idle"
  <2>1. c \in abandoned
    <3>1. "removing" \notin InputRight(q, i)
      BY <1>7 DEF InputRight
    <3> QED BY <1>0, <1>i, <3>1, AtOneRequest
  <2>f. PICK f \in [Input -> Media] : f = [media[c] EXCEPT ![i] = file]
    BY <1>1, AtOneRequest
  <2>2. media' = [media EXCEPT ![c] = f]
    BY <1>2, <2>f, AtOneRequest
  <2>3. used' \in Nat /\ used' = AllLeasesIn(media)'
    BY <1>1, <1>2, <1>4, LeaseChanged
  <2>4. used' \in 0 .. MaxTemp
    BY <1>4, <2>3, AtOneRequest
  <2>5. \A k \in Input : FileRight(f[k])
    BY <1>1, <2>f, AtOneRequest
  <2>6. abandoned' = abandoned /\ c \in abandoned'
    BY <1>2, <2>1
  <2> QED BY <1>3, <1>5, <1>7, <2>2, <2>3, <2>4, <2>5, <2>6, StepOfOne
<1> QED BY <1>6, <1>7

\* A request goes on, with its files and its cursor as they are.
LEMMA RequestGoesOn ==
  ASSUME IntakeInv, NEW c \in Client, NEW p \in Intake, p = intake[c],
         NEW pc \in {"checking", "preparing", "admitting", "starting"},
         NEW q, q = [p EXCEPT !.pc = pc],
         intake' = [intake EXCEPT ![c].pc = pc],
         UNCHANGED <<used, media, abandoned>>, p.pc # "idle", CursorRight(q),
         \A i \in Input : InputRight(p, i) \subseteq InputRight(q, i)
  PROVE  IntakeInv'
<1>1. q \in Intake
  BY DEF Intake
<1>2. intake' = [intake EXCEPT ![c] = q]
  BY AtOneRequest
<1>3. \A i \in Input : media[c][i].pc \in InputRight(q, i)
  BY AtOneRequest
<1> QED BY <1>1, <1>2, <1>3, StepOfRequest

\* The steps between the last input and the runner.
LEMMA RequestStepsAreRight ==
  ASSUME IntakeInv, NEW c \in Client,
         \/ Parsed(c) \/ HandedOver(c)
         \/ Prepared(c) /\ ~intake[c].fetch
         \/ Admitted(c) /\ ~Dispose(c, "starting")
  PROVE  IntakeInv'
<1>0. PICK p \in Intake : p = intake[c]
  BY AtOneRequest
<1>1. /\ p.at \in Nat /\ p.files \in Nat /\ p.n \in Nat /\ CursorRight(p)
      /\ Input \subseteq Nat /\ p.n <= MaxInputs /\ MaxInputs \in Nat
      /\ p.files <= MaxInputs
  BY <1>0, AtOneRequest DEF Input
<1>2. CASE Parsed(c)
  <2>q. PICK q : q = [p EXCEPT !.pc = "checking"]
    OBVIOUS
  <2>1. /\ p.pc = "parsing" /\ p.at > p.files
        /\ UNCHANGED <<used, media, abandoned>>
        /\ intake' = [intake EXCEPT ![c].pc = "checking"]
    BY <1>0, <1>1, <1>2 DEF Parsed, InputsLeft, Turn
  <2>2. q.pc = "checking" /\ q.at = p.at /\ q.files = p.files /\ q.n = p.n
    BY <2>q DEF Intake
  <2>3. CursorRight(q) /\ \A i \in Input : InputRight(p, i) \subseteq InputRight(q, i)
    BY <1>1, <2>1, <2>2 DEF CursorRight, InputRight, TakesIn, InputLeft
  <2> QED BY <1>0, <2>1, <2>3, <2>q, RequestGoesOn
<1>3. CASE HandedOver(c)
  <2>q. PICK q : q = [p EXCEPT !.pc = "preparing"]
    OBVIOUS
  <2>1. /\ p.pc = "checking" /\ UNCHANGED <<used, media, abandoned>>
        /\ intake' = [intake EXCEPT ![c].pc = "preparing"]
    BY <1>0, <1>3 DEF HandedOver
  <2>2. q.pc = "preparing" /\ q.at = p.at /\ q.files = p.files /\ q.n = p.n
    BY <2>q DEF Intake
  <2>3. CursorRight(q) /\ \A i \in Input : InputRight(p, i) \subseteq InputRight(q, i)
    BY <1>1, <2>1, <2>2 DEF CursorRight, InputRight, TakesIn, InputLeft
  <2> QED BY <1>0, <2>1, <2>3, <2>q, RequestGoesOn
<1>4. CASE Prepared(c) /\ ~intake[c].fetch
  <2>q. PICK q : q = [p EXCEPT !.pc = "admitting"]
    OBVIOUS
  <2>1. /\ p.pc = "preparing" /\ p.at > p.n /\ UNCHANGED <<used, media, abandoned>>
        /\ intake' = [intake EXCEPT ![c].pc = "admitting"]
    BY <1>0, <1>1, <1>4 DEF Prepared, InputsLeft, Turn
  <2>2. q.pc = "admitting" /\ q.at = p.at /\ q.files = p.files /\ q.n = p.n
    BY <2>q DEF Intake
  <2>3. CursorRight(q) /\ \A i \in Input : InputRight(p, i) \subseteq InputRight(q, i)
    BY <1>1, <2>1, <2>2 DEF CursorRight, InputRight, TakesIn, InputLeft
  <2> QED BY <1>0, <2>1, <2>3, <2>q, RequestGoesOn
<1>5. CASE Admitted(c) /\ ~Dispose(c, "starting")
  <2>q. PICK q : q = [p EXCEPT !.pc = "starting"]
    OBVIOUS
  <2>1. /\ p.pc = "admitting" /\ UNCHANGED <<used, media, abandoned>>
        /\ intake' = [intake EXCEPT ![c].pc = "starting"]
    BY <1>0, <1>5 DEF Admitted
  <2>2. q.pc = "starting" /\ q.at = p.at /\ q.files = p.files /\ q.n = p.n
    BY <2>q DEF Intake
  <2>3. CursorRight(q) /\ \A i \in Input : InputRight(p, i) \subseteq InputRight(q, i)
    BY <1>1, <2>1, <2>2 DEF CursorRight, InputRight, TakesIn, InputLeft
  <2> QED BY <1>0, <2>1, <2>3, <2>q, RequestGoesOn
<1> QED BY <1>2, <1>3, <1>4, <1>5

LEMMA StartedIsRight ==
  ASSUME IntakeInv, NEW c \in Client, Started(c)
  PROVE  IntakeInv'
<1>0. PICK p \in Intake : p = intake[c]
  BY AtOneRequest
<1>q. PICK q : q = [p EXCEPT !.pc = "running", !.at = 1]
  OBVIOUS
<1>1. p.pc = "starting" /\ UNCHANGED <<used, media, abandoned>>
  BY <1>0 DEF Started
<1>2. intake' = [intake EXCEPT ![c] = q]
  BY <1>0, <1>q, AtOneRequest DEF Started
<1>3. /\ q \in Intake /\ q.pc = "running" /\ q.at = 1
      /\ q.files = p.files /\ q.n = p.n
  <2>1. q = [pc |-> "running", n |-> p.n, files |-> p.files, at |-> 1,
             fetch |-> p.fetch, next |-> p.next]
    BY <1>q DEF Intake
  <2> QED BY <2>1, IntakeAssumption DEF IntakeAssumption, Intake
<1>4. CursorRight(q)
  BY <1>0, <1>3, AtOneRequest DEF CursorRight
<1>5. \A i \in Input : media[c][i].pc \in InputRight(q, i)
  <2>1. \A i \in Input : InputRight(p, i) \subseteq InputRight(q, i)
    BY <1>1, <1>3 DEF InputRight, TakesIn
  <2> QED BY <1>0, <1>1, <2>1, AtOneRequest
<1> QED BY <1>1, <1>2, <1>3, <1>4, <1>5, StepOfRequest

\* A request begins: it has no file, for what it had before is gone.
LEMMA RequestArrivesIsRight ==
  ASSUME IntakeInv, NEW c \in Client, RequestArrives(c) \/ OutputFetched(c)
  PROVE  IntakeInv'
<1>0. PICK p \in Intake : p = intake[c]
  BY AtOneRequest
<1>1. p.pc = "idle" /\ c \notin abandoned /\ UNCHANGED <<used, media, abandoned>>
  BY <1>0, Zenon DEF RequestArrives, OutputFetched
<1>2. \A i \in Input : media[c][i].pc = "none" /\ i \in Nat /\ i >= 1
  BY <1>0, <1>1, AtOneRequest DEF InputRight, Input
<1>3. PICK q \in Intake :
        /\ intake' = [intake EXCEPT ![c] = q] /\ q.at = 1 /\ CursorRight(q)
        /\ q.pc \in {"parsing", "preparing"}
  <2>1. CASE RequestArrives(c)
    <3>n. PICK n \in 0 .. MaxInputs : \E files \in 0 .. n :
            intake' = [intake EXCEPT ![c] = [NoIntake EXCEPT
                         !.pc = "parsing", !.n = n, !.files = files]]
      BY <2>1, Zenon DEF RequestArrives
    <3>1. PICK files \in 0 .. n :
            intake' = [intake EXCEPT ![c] = [NoIntake EXCEPT
                         !.pc = "parsing", !.n = n, !.files = files]]
      BY <3>n, Zenon
    <3>q. PICK q : q = [NoIntake EXCEPT !.pc = "parsing", !.n = n, !.files = files]
      OBVIOUS
    <3>2. q = [pc |-> "parsing", n |-> n, files |-> files, at |-> 1,
               fetch |-> FALSE, next |-> "idle"]
      BY <3>q DEF NoIntake
    <3>3. /\ n \in Nat /\ files \in 0 .. MaxInputs /\ files \in Nat /\ files <= n
          /\ 1 \in 1 .. MaxInputs + 1
      BY IntakeAssumption DEF IntakeAssumption
    <3>4. intake' = [intake EXCEPT ![c] = q]
      BY <3>1, <3>q
    <3>5. q \in Intake /\ q.at = 1 /\ CursorRight(q) /\ q.pc = "parsing"
      BY <3>2, <3>3 DEF Intake, CursorRight
    <3> QED BY <3>4, <3>5
  <2>2. CASE OutputFetched(c)
    <3>q. PICK q : q = [NoIntake EXCEPT !.pc = "preparing", !.n = 1, !.fetch = TRUE]
      OBVIOUS
    <3>2. q = [pc |-> "preparing", n |-> 1, files |-> 0, at |-> 1,
               fetch |-> TRUE, next |-> "idle"]
      BY <3>q DEF NoIntake
    <3>3. 1 \in 1 .. MaxInputs + 1 /\ 0 \in 0 .. MaxInputs /\ 1 \in 0 .. MaxInputs
      BY IntakeAssumption DEF IntakeAssumption
    <3>4. intake' = [intake EXCEPT ![c] = q]
      BY <2>2, <3>q DEF OutputFetched
    <3>5. q \in Intake /\ q.at = 1 /\ CursorRight(q) /\ q.pc = "preparing"
      BY <3>2, <3>3 DEF Intake, CursorRight
    <3> QED BY <3>4, <3>5
  <2> QED BY <2>1, <2>2
<1>4. \A i \in Input : "none" \in InputRight(q, i)
  BY <1>2, <1>3 DEF InputRight, TakesIn
<1> QED BY <1>1, <1>2, <1>3, <1>4, StepOfRequest

\* A request is over, and has no files or leaves them behind.
LEMMA RequestEndsIsRight ==
  ASSUME IntakeInv, NEW c \in Client, ScopeRefused(c)
  PROVE  IntakeInv'
<1>0. PICK p \in Intake : p = intake[c]
  BY AtOneRequest
<1>q. PICK q : q = NoIntake
  OBVIOUS
<1>1. q \in Intake /\ CursorRight(q) /\ q.pc = "idle"
  BY <1>q, IntakeAssumption DEF IntakeAssumption, NoIntake, Intake, CursorRight
<1>2. /\ p.pc = "checking" /\ UNCHANGED <<used, media>>
      /\ intake' = [intake EXCEPT ![c] = q]
      /\ abandoned' = IF p.files > 0 THEN abandoned \cup {c} ELSE abandoned
  BY <1>0, <1>q DEF ScopeRefused
<1>3. ASSUME c \notin abandoned', NEW i \in Input
      PROVE  media[c][i].pc \in InputRight(q, i)
  <2>1. p.at = 1 /\ i \in Nat /\ i >= 1
    BY <1>0, <1>2, <1>3, AtOneRequest DEF CursorRight, Input
  <2>2. InputRight(p, i) = {"none"}
    BY <1>2, <2>1 DEF InputRight, TakesIn, InputLeft
  <2>3. media[c][i].pc \in InputRight(p, i)
    BY <1>0, <1>2, AtOneRequest
  <2>4. InputRight(q, i) = {"none"}
    BY <1>1 DEF InputRight
  <2> QED BY <2>2, <2>3, <2>4
<1> QED BY <1>1, <1>2, <1>3, StepOfRequest

\* A request is over and leaves nothing: whatever files it had are gone.
LEMMA RequestLeavesNothing ==
  ASSUME IntakeInv, NEW c \in Client,
         \A i \in Input : media[c][i].pc \in {"none", "gone"},
         intake' = [intake EXCEPT ![c] = NoIntake],
         media' = [media EXCEPT ![c] = [i \in Input |-> NoMedia]],
         UNCHANGED <<used, abandoned>>
  PROVE  IntakeInv'
<1>q. PICK q : q = NoIntake
  OBVIOUS
<1>f. PICK f : f = [i \in Input |-> NoMedia]
  OBVIOUS
<1>1. q \in Intake /\ CursorRight(q) /\ q.pc = "idle"
  BY <1>q, IntakeAssumption DEF IntakeAssumption, NoIntake, Intake, CursorRight
<1>2. NoMedia \in Media /\ FileRight(NoMedia) /\ NoMedia.pc = "none" /\ NoMedia.lease = 0
  BY MediaTyped DEF NoMedia, FileRight
<1>3. f \in [Input -> Media] /\ \A i \in Input : f[i] = NoMedia
  BY <1>2, <1>f
<1>4. media' = [media EXCEPT ![c] = f] /\ intake' = [intake EXCEPT ![c] = q]
  BY <1>f, <1>q
<1>5. \A i \in Input : /\ FileRight(f[i])
                       /\ f[i].pc \in InputRight(q, i)
  BY <1>1, <1>2, <1>3 DEF InputRight
<1>6. \A i \in Input : media[c][i].lease = 0
  BY AtOneRequest DEF FileRight
<1>7. media' \in Files
  BY <1>3, <1>4, AtOneRequest DEF Files
<1>8. \A d \in Client : \A i \in Input : media'[d][i].lease = media[d][i].lease
  BY <1>2, <1>3, <1>4, <1>6, AtOneRequest
<1>9. used' = AllLeasesIn(media)' /\ used' \in 0 .. MaxTemp
  BY <1>7, <1>8, LeasesKept, AtOneRequest
<1> QED BY <1>1, <1>3, <1>4, <1>5, <1>9, StepOfOne

LEMMA RunnerNeverBeginsIsRight ==
  ASSUME IntakeInv, NEW c \in Client, RunnerNeverBegins(c)
  PROVE  IntakeInv'
<1>0. PICK p \in Intake : p = intake[c]
  BY AtOneRequest
<1>1. p.pc = "running" /\ p.at = 1
  BY <1>0 DEF RunnerNeverBegins, Turn
<1>2. \A i \in Input : media[c][i].pc \in {"none", "ready", "gone"}
  BY <1>0, <1>1, AtOneRequest DEF InputRight, TakesIn
<1>3. CASE \E i \in Input : media[c][i].pc = "ready"
  <2>q. PICK q : q = NoIntake
    OBVIOUS
  <2>1. q \in Intake /\ CursorRight(q) /\ q.pc = "idle"
    BY <2>q, IntakeAssumption DEF IntakeAssumption, NoIntake, Intake, CursorRight
  <2>2. /\ intake' = [intake EXCEPT ![c] = q] /\ UNCHANGED <<used, media>>
        /\ abandoned' = abandoned \cup {c}
    BY <1>3, <2>q DEF RunnerNeverBegins
  <2>3. c \in abandoned'
    BY <2>2
  <2> QED BY <2>1, <2>2, <2>3, StepOfRequest
<1>4. CASE ~ \E i \in Input : media[c][i].pc = "ready"
  <2>1. /\ intake' = [intake EXCEPT ![c] = NoIntake]
        /\ media' = [media EXCEPT ![c] = [i \in Input |-> NoMedia]]
        /\ UNCHANGED <<used, abandoned>>
    BY <1>4 DEF RunnerNeverBegins
  <2>2. \A i \in Input : media[c][i].pc \in {"none", "gone"}
    BY <1>2, <1>4
  <2> QED BY <2>1, <2>2, RequestLeavesNothing
<1> QED BY <1>3, <1>4

LEMMA DisposedIsRight ==
  ASSUME IntakeInv, NEW c \in Client, Disposed(c)
  PROVE  IntakeInv'
<1>0. PICK p \in Intake : p = intake[c]
  BY AtOneRequest
<1>1. p.pc = "disposing"
  BY <1>0 DEF Disposed
<1>2. \A i \in Input : media[c][i].pc \in {"none", "gone"}
  <2>1. \A i \in Input : media[c][i].pc \in {"none", "removing", "gone"}
    BY <1>0, <1>1, AtOneRequest DEF InputRight, TakesIn
  <2> QED BY <2>1 DEF Disposed
<1>3. CASE p.next = "idle"
  <2>1. intake' = [intake EXCEPT ![c] = NoIntake]
    BY <1>0, <1>3 DEF Disposed
  <2>2. /\ media' = [media EXCEPT ![c] = [i \in Input |-> NoMedia]]
        /\ UNCHANGED <<used, abandoned>>
    BY <1>0, <1>3 DEF Disposed
  <2> QED BY <1>2, <2>1, <2>2, RequestLeavesNothing
<1>4. CASE p.next # "idle"
  <2>q. PICK q : q = [p EXCEPT !.pc = "starting", !.next = "idle"]
    OBVIOUS
  <2>1. intake' = [intake EXCEPT ![c] = q]
    BY <1>0, <1>4, <2>q DEF Disposed
  <2>2. UNCHANGED <<used, media, abandoned>>
    BY <1>0, <1>4 DEF Disposed
  <2>3. q = [pc |-> "starting", n |-> p.n, files |-> p.files, at |-> p.at,
             fetch |-> p.fetch, next |-> "idle"]
    BY <2>q DEF Intake
  <2>4. q \in Intake
    BY <2>3 DEF Intake
  <2>5. /\ q.pc = "starting" /\ q.files = p.files /\ q.n = p.n
        /\ CursorRight(q)
    <3>1. CursorRight(p)
      BY <1>0, AtOneRequest
    <3> QED BY <2>3, <3>1 DEF CursorRight
  <2>6. \A i \in Input : media[c][i].pc \in InputRight(q, i)
    BY <1>2, <2>5 DEF InputRight, TakesIn
  <2> QED BY <2>1, <2>2, <2>4, <2>5, <2>6, StepOfRequest
<1> QED BY <1>3, <1>4

LEMMA UploadEndsIsRight ==
  ASSUME IntakeInv, NEW c \in Client, UploadEnds(c)
  PROVE  IntakeInv'
<1>0. PICK p \in Intake : p = intake[c]
  BY AtOneRequest
<1>1. p.pc = "running" /\ p.at \in Input /\ Turn(c) = p.at
  BY <1>0, AtOneRequest DEF UploadEnds, Turn, Input
<1>2. \A i \in Input : media[c][i].pc \in {"none", "ready", "gone"}
  <2>1. \A i \in Input : media[c][i].pc \in {"none", "ready", "removing", "gone"}
    BY <1>0, <1>1, AtOneRequest DEF InputRight, TakesIn
  <2> QED BY <2>1 DEF UploadEnds
<1>3. CASE Dispose(c, "idle")
  <2>1. intake[c].pc # "idle" /\ "idle" \in {"idle", "starting"}
    BY <1>0, <1>1
  <2> QED BY <1>3, <2>1, FilesAreDisposedOf
<1>4. CASE ~Dispose(c, "idle")
  <2>q. PICK q : q = [p EXCEPT !.at = @ + 1]
    OBVIOUS
  <2>1. /\ intake' = [intake EXCEPT ![c].at = @ + 1] /\ UNCHANGED <<used, abandoned>>
        /\ IF Now(c).pc = "ready" THEN Set(c, [Now(c) EXCEPT !.pc = "removing"])
           ELSE media' = media
    BY <1>4 DEF UploadEnds
  <2>2. intake' = [intake EXCEPT ![c] = q]
    BY <1>0, <2>1, <2>q, AtOneRequest
  <2>3. p.at \in Nat /\ p.at >= 1 /\ p.at <= MaxInputs
    BY <1>1, IntakeAssumption DEF IntakeAssumption, Input
  <2>4. /\ q.pc = "running" /\ q.at = p.at + 1 /\ q.files = p.files /\ q.n = p.n
        /\ q \in Intake
    <3>1. q = [pc |-> p.pc, n |-> p.n, files |-> p.files, at |-> p.at + 1,
               fetch |-> p.fetch, next |-> p.next]
      BY <2>q DEF Intake
    <3>2. p.at + 1 \in 1 .. MaxInputs + 1
      BY <2>3, IntakeAssumption DEF IntakeAssumption
    <3> QED BY <1>1, <3>1, <3>2 DEF Intake
  <2>5. CursorRight(q)
    <3>1. CursorRight(p)
      BY <1>0, AtOneRequest
    <3> QED BY <1>1, <2>4, <3>1 DEF CursorRight
  <2>6. \A i \in Input : InputRight(q, i) = {"none", "ready", "removing", "gone"}
    BY <2>3, <2>4 DEF InputRight, TakesIn
  <2>7. CASE Now(c).pc = "ready"
    <3>i. PICK i \in Input : i = p.at
      BY <1>1
    <3>m. PICK m \in Media : m = media[c][i]
      BY AtOneRequest
    <3>f. PICK file : file = [m EXCEPT !.pc = "removing"]
      OBVIOUS
    <3>1. Now(c) = m
      BY <1>1, <3>i, <3>m DEF Now
    <3>2. Set(c, file)
      BY <2>1, <2>7, <3>1, <3>f, Zenon
    <3>3. media' = [media EXCEPT ![c][i] = file]
      BY <1>1, <3>2, <3>i DEF Set
    <3>4. file = [pc |-> "removing", declared |-> m.declared, lease |-> m.lease,
                  disk |-> m.disk]
      BY <3>f DEF Media
    <3>5. FileRight(m)
      BY <3>m, AtOneRequest
    <3>6. /\ file \in Media /\ file.pc = "removing" /\ file.lease = m.lease
          /\ FileRight(file)
      BY <3>4, <3>5 DEF Media, FileRight
    <3>7. used' = used - media[c][i].lease + file.lease /\ used' <= MaxTemp
      <4>1. used \in Nat /\ used <= MaxTemp /\ m.lease \in Nat /\ MaxTemp \in Nat
        BY AtOneRequest, MediaTyped
      <4> QED BY <2>1, <3>6, <3>m, <4>1
    <3>8. UNCHANGED abandoned
      BY <2>1
    <3>9. file.pc \in InputRight(q, i)
      BY <2>6, <3>6
    <3>10. \A j \in Input \ {i} : media[c][j].pc \in InputRight(q, j)
      BY <1>2, <2>6
    <3> QED BY <2>2, <2>4, <2>5, <3>3, <3>6, <3>7, <3>8, <3>9, <3>10, StepOfFile
  <2>8. CASE Now(c).pc # "ready"
    BY <1>2, <2>1, <2>2, <2>4, <2>5, <2>6, <2>8, StepOfRequest
  <2> QED BY <2>7, <2>8
<1> QED BY <1>3, <1>4

LEMMA KillAndSweepIsRight ==
  ASSUME IntakeInv, KillAndSweep
  PROVE  IntakeInv'
<1>1. NoIntake \in Intake /\ CursorRight(NoIntake) /\ NoIntake.pc = "idle"
  BY IntakeAssumption DEF IntakeAssumption, NoIntake, Intake, CursorRight
<1>2. NoMedia \in Media /\ FileRight(NoMedia) /\ NoMedia.pc = "none" /\ NoMedia.lease = 0
  BY MediaTyped DEF NoMedia, FileRight
<1>L. PICK L \in Files : L = media'
  BY <1>2 DEF KillAndSweep, Files
<1>3. \A c \in Client : \A i \in Input : L[c][i].lease = 0
  BY <1>2, <1>L DEF KillAndSweep
<1>4. used' = AllLeasesIn(media)'
  <2>1. AllLeasesIn(L) = 0
    BY <1>3, NoLeases
  <2> QED BY <1>L, <2>1 DEF KillAndSweep
<1>5. IntakeTypeOK'
  BY <1>1, <1>2, IntakeAssumption DEF IntakeAssumption, KillAndSweep, IntakeTypeOK
<1>6. \A c \in Client : \A i \in Input :
        /\ media'[c][i] = NoMedia /\ intake'[c] = NoIntake
        /\ "none" \in InputRight(NoIntake, i)
  BY <1>1 DEF KillAndSweep, InputRight
<1>7. \A c \in Client : intake'[c] = NoIntake
  BY DEF KillAndSweep
<1> QED BY <1>1, <1>2, <1>4, <1>5, <1>6, <1>7 DEF IntakeInv

LEMMA IntakeInvIsKept == IntakeInv /\ [IntakeNext]_intakeVars => IntakeInv'
<1> SUFFICES ASSUME IntakeInv, [IntakeNext]_intakeVars PROVE IntakeInv'
  OBVIOUS
<1>1. CASE UNCHANGED intakeVars
  BY <1>1 DEF intakeVars, IntakeInv, IntakeTypeOK, AllLeasesIn, LeasesIn
<1>2. CASE KillAndSweep
  BY <1>2, KillAndSweepIsRight
<1>3. ASSUME NEW c \in Client,
             \/ OpenFile(c) \/ WriteChunk(c) \/ CloseFile(c) \/ RemoveFile(c)
             \/ InputFails(c) \/ Disposed(c)
             \/ RequestArrives(c) \/ OutputFetched(c) \/ Parsed(c) \/ RequestRefused(c)
             \/ ScopeRefused(c) \/ HandedOver(c) \/ Prepared(c)
             \/ NotAdmitted(c) \/ Admitted(c) \/ NotStarted(c) \/ Started(c)
             \/ RunnerNeverBegins(c) \/ UploadEnds(c) \/ RunnerEnds(c)
      PROVE  IntakeInv'
  <2>1. CASE \/ InputFails(c) \/ RequestRefused(c) \/ NotAdmitted(c) \/ NotStarted(c)
             \/ RunnerEnds(c)
    <3>1. Dispose(c, "idle") /\ intake[c].pc # "idle" /\ "idle" \in {"idle", "starting"}
      BY <2>1 DEF InputFails, InputsLeft, RequestRefused, NotAdmitted, NotStarted,
                  RunnerEnds
    <3> QED BY <3>1, FilesAreDisposedOf
  <2>2. CASE Prepared(c)
    <3>1. CASE intake[c].fetch
      <4>1. Dispose(c, "idle") /\ intake[c].pc # "idle" /\ "idle" \in {"idle", "starting"}
        BY <2>2, <3>1 DEF Prepared
      <4> QED BY <4>1, FilesAreDisposedOf
    <3>2. CASE ~intake[c].fetch
      BY <2>2, <3>2, RequestStepsAreRight
    <3> QED BY <3>1, <3>2
  <2>3. CASE Admitted(c)
    <3>1. CASE Dispose(c, "starting")
      <4>1. intake[c].pc # "idle" /\ "starting" \in {"idle", "starting"}
        BY <2>3 DEF Admitted
      <4> QED BY <3>1, <4>1, FilesAreDisposedOf
    <3>2. CASE ~Dispose(c, "starting")
      BY <2>3, <3>2, RequestStepsAreRight
    <3> QED BY <3>1, <3>2
  <2>4. CASE Parsed(c) \/ HandedOver(c)
    BY <2>4, RequestStepsAreRight
  <2>5. CASE \/ OpenFile(c) \/ WriteChunk(c) \/ CloseFile(c) \/ RemoveFile(c)
    BY <2>5, OpenFileIsRight, WriteChunkIsRight, CloseFileIsRight, RemoveFileIsRight
  <2>6. CASE \/ Disposed(c) \/ RequestArrives(c) \/ OutputFetched(c)
             \/ ScopeRefused(c) \/ Started(c) \/ RunnerNeverBegins(c) \/ UploadEnds(c)
    BY <2>6, DisposedIsRight, RequestArrivesIsRight, RequestEndsIsRight,
       StartedIsRight, RunnerNeverBeginsIsRight, UploadEndsIsRight
  <2> QED BY <1>3, <2>1, <2>2, <2>3, <2>4, <2>5, <2>6
<1> QED BY <1>1, <1>2, <1>3 DEF IntakeNext

LEMMA TempSpaceOfInv == IntakeInv => TempSpaceAccounted
<1> SUFFICES ASSUME IntakeInv PROVE TempSpaceAccounted
  OBVIOUS
<1>M. PICK M \in Files : M = media
  BY DEF IntakeInv, IntakeTypeOK, Files
<1>1. \A c \in Client : LeasedBy(c) = LeasesIn(M, c)
  BY <1>M DEF LeasedBy, Leases, LeasesIn
<1>2. used = SumFunction([c \in Client |-> LeasedBy(c)])
  <2>1. [c \in Client |-> LeasedBy(c)] = [c \in Client |-> LeasesIn(M, c)]
    BY <1>1
  <2>2. used = AllLeasesIn(M)
    BY <1>M DEF IntakeInv
  <2> QED BY <2>1, <2>2 DEF AllLeasesIn
<1>3. ASSUME NEW c \in Client, intake[c].pc = "idle", c \notin abandoned
      PROVE  LeasedBy(c) = 0
  <2>1. \A i \in Input : media[c][i].lease = 0
    BY <1>3, AtOneRequest DEF InputRight, FileRight
  <2> QED BY <1>1, <1>M, <2>1, NoLeases
<1>4. \A c \in Client : \A i \in Input : media[c][i].disk <= media[c][i].lease
  BY AtOneRequest DEF FileRight
<1> QED BY <1>2, <1>3, <1>4 DEF TempSpaceAccounted

\* Every variable of the temporary files has its type: what is leased stays
\* within the process's budget.
THEOREM IntakeTypes == IntakeSpec => []IntakeTypeOK
<1>1. IntakeInv => IntakeTypeOK
  BY DEF IntakeInv
<1> QED BY <1>1, IntakeInvHoldsAtFirst, IntakeInvIsKept, PTL DEF IntakeSpec

\* What is on the disk is leased and what is leased is counted, however many
\* requests there are and however they fail, and a request that is over has
\* given everything back: image-input.ts's streams, multipart.ts's and the
\* coordinator's disposals.
THEOREM TempSpaceIsAccounted == IntakeSpec => []TempSpaceAccounted
BY IntakeInvHoldsAtFirst, IntakeInvIsKept, TempSpaceOfInv, PTL DEF IntakeSpec
=============================================================================
