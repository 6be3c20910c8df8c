------------------------------- MODULE Serving -------------------------------
(***************************************************************************)
(* Answers that wait for a job: JobUpdateNotifier, the wait of a job's     *)
(* handle, and the handlers that use it: the image and video routes, chat  *)
(* completions, and chat's stream of events with its progress.  One job,   *)
(* for which several handlers may wait.                                    *)
(*                                                                         *)
(* What runs between two awaits is one action.                             *)
(***************************************************************************)
EXTENDS Naturals, FiniteSets

CONSTANTS Handler

VARIABLES
  status,      \* jobs.status
  announcing,  \* the status was written and notify has not been called yet
  listeners,   \* waiters: the handlers notify will wake
  serving,     \* the handlers
  silent       \* history: the job was settled and nobody was notified

servingVars == <<status, announcing, listeners, serving, silent>>

-----------------------------------------------------------------------------

Settled == {"completed", "failed", "unknown"}   \* WAIT_COMPLETE and TERMINAL

\* late: the handler's time is up; rung: the interval of its wait is.
ServingState ==
  [pc : {"out", "opening", "reading", "asleep", "progress", "content", "stop",
         "done", "error", "over"},
   how : {"wait", "chat", "stream"}, late : BOOLEAN, rung : BOOLEAN,
   answer : {"none", "result", "failure", "pending"}]

NotServing == [pc |-> "out", how |-> "wait", late |-> FALSE, rung |-> FALSE,
               answer |-> "none"]

ServingTypeOK ==
  /\ status \in {"queued", "working"} \cup Settled
  /\ announcing \in BOOLEAN
  /\ listeners \subseteq Handler
  /\ serving \in [Handler -> ServingState]
  /\ silent \in BOOLEAN

ServingInit ==
  /\ status = "queued" /\ announcing = FALSE /\ listeners = {}
  /\ serving = [h \in Handler |-> NotServing]
  /\ silent = FALSE

InStep(h, pc) == serving[h].pc = pc

\* notify: whoever listens is woken, once.
Woken == [h \in Handler |->
            IF h \in listeners THEN [serving[h] EXCEPT !.pc = "reading"]
            ELSE serving[h]]

-----------------------------------------------------------------------------
(* The job. *)

\* transition, failAndRelease and resolveUnknown: the row, then notify.
Transition ==
  /\ status \notin {"completed", "failed"} /\ ~announcing
  /\ status' \in {"working"} \cup Settled
  /\ listeners' = {} /\ serving' = Woken
  /\ silent' = FALSE /\ UNCHANGED announcing

\* The poller writes the row, and its caller notifies when it has returned.
PollWrites ==
  /\ status = "working" /\ ~announcing
  /\ status' \in {"completed", "failed"} /\ announcing' = TRUE
  /\ UNCHANGED <<listeners, serving, silent>>

PollNotifies ==
  /\ announcing /\ announcing' = FALSE
  /\ listeners' = {} /\ serving' = Woken
  /\ silent' = FALSE /\ UNCHANGED status

\* These write the row and call no notify: the video route that cancels (and a
\* request that cannot bind its assets to the job it has made), and the
\* reconciliation worker.
CancelQueued ==
  /\ status = "queued"
  /\ status' = "failed" /\ silent' = TRUE
  /\ UNCHANGED <<announcing, listeners, serving>>

Reconciles ==
  /\ status \in {"unknown", "working"} /\ ~announcing
  /\ status' \in {"working"} \cup Settled /\ silent' = (status' \in Settled)
  /\ UNCHANGED <<announcing, listeners, serving>>

-----------------------------------------------------------------------------
(* Handlers. *)

Goes(h, state) == serving' = [serving EXCEPT ![h] = state]
GoesTo(h, pc)  == Goes(h, [serving[h] EXCEPT !.pc = pc])

\* The job is there.  A stream begins with the assistant's role.
Serve(h) ==
  /\ InStep(h, "out")
  /\ \E how \in {"wait", "chat", "stream"} :
       Goes(h, [NotServing EXCEPT !.how = how,
                  !.pc = IF how = "stream" THEN "opening" ELSE "reading"])
  /\ UNCHANGED <<status, announcing, listeners, silent>>

\* response_mode async
ServeAtOnce(h) ==
  /\ InStep(h, "out")
  /\ Goes(h, [NotServing EXCEPT !.pc = "over", !.answer = "pending"])
  /\ UNCHANGED <<status, announcing, listeners, silent>>

\* The answer to a job that is settled, or that is waited for no more.
Answer(h) ==
  LET found == CASE status = "completed" -> "result"
                 [] status = "failed"    -> "failure"
                 [] OTHER -> IF serving[h].how = "wait" THEN "pending" ELSE "failure"
      pc == IF serving[h].how # "stream" THEN "over"
            ELSE IF found = "result" THEN "content" ELSE "error"
  IN Goes(h, [serving[h] EXCEPT !.pc = pc, !.answer = found])

\* wait reads the row and listens if it is not settled; nothing comes between.
FindsSettled(h) ==
  /\ InStep(h, "reading")
  /\ status \in Settled \/ (serving[h].late /\ serving[h].how # "stream")
  /\ Answer(h)
  /\ UNCHANGED <<status, announcing, listeners, silent>>

\* A stream tells how long it has taken, each time its interval is over.
FindsInterval(h) ==
  /\ InStep(h, "reading") /\ status \notin Settled /\ serving[h].rung
  /\ GoesTo(h, "progress")
  /\ UNCHANGED <<status, announcing, listeners, silent>>

\* Mutant: it listens although the row may have changed since it was read.
ListensLate(h) ==
  /\ InStep(h, "reading") /\ ~serving[h].late /\ ~serving[h].rung
  /\ GoesTo(h, "asleep") /\ listeners' = listeners \cup {h}
  /\ UNCHANGED <<status, announcing, silent>>

Listens(h) ==
  /\ InStep(h, "reading") /\ status \notin Settled
  /\ ~serving[h].late /\ ~serving[h].rung
  /\ GoesTo(h, "asleep") /\ listeners' = listeners \cup {h}
  /\ UNCHANGED <<status, announcing, silent>>

\* The timer of a wait wakes its handler: when all its time is up,
TimeIsUp(h) ==
  /\ serving[h].pc \notin {"out", "over", "reading"} /\ ~serving[h].late
  /\ Goes(h, [serving[h] EXCEPT !.late = TRUE,
               !.pc = IF @ = "asleep" THEN "reading" ELSE @,
               !.rung = InStep(h, "asleep") /\ serving[h].how = "stream"])
  /\ listeners' = listeners \ {h}
  /\ UNCHANGED <<status, announcing, silent>>

\* or, for a stream, every so often.
IntervalIsOver(h) ==
  /\ InStep(h, "asleep") /\ serving[h].how = "stream"
  /\ Goes(h, [serving[h] EXCEPT !.pc = "reading", !.rung = TRUE])
  /\ listeners' = listeners \ {h}
  /\ UNCHANGED <<status, announcing, silent>>

\* The role or the progress is written: the stream goes on waiting if there is
\* time left.
Written(h) ==
  /\ serving[h].pc \in {"opening", "progress"}
  /\ Goes(h, IF serving[h].late
             THEN [serving[h] EXCEPT !.pc = "error", !.answer = "failure"]
             ELSE [serving[h] EXCEPT !.pc = "reading", !.rung = FALSE])
  /\ UNCHANGED <<status, announcing, listeners, silent>>

FinalWritten(h) ==
  /\ serving[h].pc \in {"content", "stop", "error", "done"}
  /\ GoesTo(h, CASE InStep(h, "content") -> "stop" [] InStep(h, "done") -> "over"
                  [] OTHER -> "done")
  /\ UNCHANGED <<status, announcing, listeners, silent>>

\* The client of a stream goes away, which aborts its wait and its write.
ClientCloses(h) ==
  /\ serving[h].how = "stream" /\ serving[h].pc \notin {"out", "over"}
  /\ GoesTo(h, "over") /\ listeners' = listeners \ {h}
  /\ UNCHANGED <<status, announcing, silent>>

\* The row outlives the process, its handlers do not.
KillServer ==
  /\ announcing' = FALSE /\ listeners' = {}
  /\ serving' = [h \in Handler |-> NotServing]
  /\ UNCHANGED <<status, silent>>

ServingNext ==
  \/ Transition \/ PollWrites \/ PollNotifies
  \/ CancelQueued \/ Reconciles \/ KillServer
  \/ \E h \in Handler :
       \/ Serve(h) \/ ServeAtOnce(h) \/ FindsSettled(h) \/ FindsInterval(h)
       \/ Listens(h) \/ TimeIsUp(h) \/ IntervalIsOver(h)
       \/ Written(h) \/ FinalWritten(h) \/ ClientCloses(h)

ServingSpec == ServingInit /\ [][ServingNext]_servingVars

-----------------------------------------------------------------------------

\* A handler that sleeps is among those notify will wake, and it does not sleep
\* on when the job is settled: either notify is about to be called, or one of the
\* routes that call none has settled the job, and only the timer is left.
NobodySleepsThrough ==
  \A h \in Handler : InStep(h, "asleep") =>
    /\ h \in listeners
    /\ status \in Settled => announcing \/ silent
=============================================================================
