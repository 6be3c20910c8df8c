------------------------- MODULE SubmissionContract -------------------------
(***************************************************************************)
(* What the gateway promises about the points of a job and the paid        *)
(* request it stands for, whatever its processes go through: a request is  *)
(* made once at most and only on reserved points; points are given back    *)
(* only while no task exists and none can come into being; everything else *)
(* is an operator's ruling.                                                *)
(***************************************************************************)
CONSTANT Job

VARIABLES
  money,      \* the points of a job: "none", "reserved", "charged", "released"
  requested,  \* the jobs whose request was made
  flying,     \* the requests without an answer
  made        \* the requests the provider made a task for

vars == <<money, requested, flying, made>>

Init ==
  /\ money = [j \in Job |-> "none"]
  /\ requested = {} /\ flying = {} /\ made = {}

Reserve(j) ==
  /\ money[j] = "none"
  /\ money' = [money EXCEPT ![j] = "reserved"]
  /\ UNCHANGED <<requested, flying, made>>

Request(j) ==
  /\ money[j] = "reserved" /\ j \notin requested
  /\ requested' = requested \cup {j}
  /\ flying' = flying \cup {j}
  /\ UNCHANGED <<money, made>>

Make(j) ==
  /\ j \in flying
  /\ made' = made \cup {j}
  /\ flying' \in {flying, flying \ {j}}
  /\ UNCHANGED <<money, requested>>

Answered ==
  /\ flying' \in SUBSET flying
  /\ UNCHANGED <<money, requested, made>>

Charge(j) ==
  /\ money[j] = "reserved"
  /\ money' = [money EXCEPT ![j] = "charged"]
  /\ UNCHANGED <<requested, flying, made>>

GiveBack(j) ==
  /\ money[j] = "reserved" /\ j \notin made \cup flying
  /\ money' = [money EXCEPT ![j] = "released"]
  /\ UNCHANGED <<requested, flying, made>>

\* An operator's ruling needs points that were charged.
Rule(j) ==
  /\ money[j] = "charged"
  /\ money' = [money EXCEPT ![j] = "released"]
  /\ UNCHANGED <<requested, flying, made>>

Next ==
  \/ \E j \in Job : \/ Reserve(j) \/ Request(j) \/ Make(j)
                    \/ Charge(j) \/ GiveBack(j) \/ Rule(j)
  \/ Answered

Spec == Init /\ [][Next]_vars
=============================================================================
