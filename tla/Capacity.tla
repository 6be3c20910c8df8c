------------------------------ MODULE Capacity ------------------------------
(***************************************************************************)
(* A capacity manager as a value.  The gateway has one manager of its own  *)
(* and one for each account; each runs to completion between two awaits,   *)
(* so an operation is a function of the manager.                           *)
(*                                                                         *)
(* An admission and the lease it turns into bear the name of the request   *)
(* they are for: a request asks for one slot at a time, under a new job    *)
(* id at each attempt, so the observers of a foreign lease do not arise.   *)
(***************************************************************************)
EXTENDS Naturals, SequencesExt, FiniteSets

CONSTANT Room  \* maxQueuedRequests: how many may wait beyond the limit

ASSUME RoomAssumption == Room \in Nat

Manager(R) ==
  [limit  : Nat \ {0},   \* activeLimit
   queue  : Seq(R),      \* the admissions, in the order they were made
   asking : SUBSET R,    \* those of them that called acquire
   active : SUBSET R]    \* the leases

Empty(limit) ==
  [limit |-> limit, queue |-> <<>>, asking |-> {}, active |-> {}]

InQueue(m) == {m.queue[i] : i \in DOMAIN m.queue}

Full(m) == Cardinality(m.active) + Len(m.queue) >= m.limit + Room

\* Mutant: a slot that is free is taken for two.
GrantableTwice(m, i) ==
  /\ Cardinality(m.active) + i <= m.limit + 1
  /\ \A k \in 1..i : m.queue[k] \in m.asking

\* The slots are given in the order of admission: an admission that has not
\* asked yet holds up those behind it.
Grantable(m, i) ==
  /\ Cardinality(m.active) + i <= m.limit
  /\ \A k \in 1..i : m.queue[k] \in m.asking

Pump(m) ==
  LET n == Cardinality({i \in DOMAIN m.queue : Grantable(m, i)})
      granted == {m.queue[i] : i \in 1..n}
  IN  [m EXCEPT !.queue = SubSeq(@, n + 1, Len(@)),
                !.asking = @ \ granted,
                !.active = @ \cup granted]

Admit(m, r) == [m EXCEPT !.queue = Append(@, r)]

Acquire(m, r) == Pump([m EXCEPT !.asking = @ \cup {r}])

\* An admission is in the queue once.
Without(queue, r) ==
  LET at == {i \in DOMAIN queue : queue[i] = r}
  IN  IF at = {} THEN queue ELSE RemoveAt(queue, CHOOSE i \in at : TRUE)

\* Mutant: the queue is not pumped when an admission leaves it.
ReleaseAdmissionQuietly(m, r) ==
  [m EXCEPT !.queue = Without(@, r), !.asking = @ \ {r}]

ReleaseAdmission(m, r) ==
  Pump([m EXCEPT !.queue = Without(@, r), !.asking = @ \ {r}])

\* Mutant: the slot is given back and nobody is woken.
ReleaseLeaseQuietly(m, r) == [m EXCEPT !.active = @ \ {r}]

ReleaseLease(m, r) ==
  IF r \in m.active THEN Pump([m EXCEPT !.active = @ \ {r}]) ELSE m

\* A job that was running before the start gets its slot back, also above
\* the limit.
Restore(m, jobs) == Pump([m EXCEPT !.active = @ \cup jobs])

-----------------------------------------------------------------------------
(* What a manager promises. *)

\* While a slot is free, nobody who asked for one is first in the queue.
Moves(m) ==
  Cardinality(m.active) < m.limit /\ m.queue # <<>> => Head(m.queue) \notin m.asking

\* From m to n, nobody was let in above the limit.
Grants(m, n) ==
  n.active \subseteq m.active \/ Cardinality(n.active) <= n.limit
=============================================================================
