--------------------------- MODULE Admission_slots ---------------------------
(***************************************************************************)
(* The slots and the seats of the requests, for any set of requests,       *)
(* accounts and projects, any limits, any room and any number of restarts. *)
(* First what the operations of a capacity manager do: they wake whoever   *)
(* can be woken, they grant nothing above the limit, and they disturb      *)
(* nobody else.                                                            *)
(***************************************************************************)
EXTENDS Admission_points, SequenceTheorems

-----------------------------------------------------------------------------
(* A capacity manager. *)

\* A manager as the operations leave it: an admission is in the queue once and
\* has no slot yet, and only admissions ask.
Fit(R, m) ==
  /\ m \in Manager(R)
  /\ \A i, k \in DOMAIN m.queue : m.queue[i] = m.queue[k] => i = k
  /\ \A i \in DOMAIN m.queue : m.queue[i] \notin m.active
  /\ m.asking \subseteq InQueue(m)

\* Where a requester can be in a manager.
Idle(m, r) == r \notin InQueue(m) /\ r \notin m.active
Waiting(m, r) == r \in InQueue(m) /\ r \notin m.asking
Asks(m, r) == r \in m.asking \cup m.active
Holds(m, r) == r \in m.active

\* A step from m to n leaves r where it is, except that it may be granted what
\* it asked for.
Undisturbed(m, n, r) ==
  /\ Idle(m, r) => Idle(n, r)
  /\ Waiting(m, r) => Waiting(n, r)
  /\ Asks(m, r) => Asks(n, r)
  /\ Holds(m, r) => Holds(n, r)
  /\ r \notin InQueue(m) => r \notin InQueue(n)

-----------------------------------------------------------------------------
(* Pump. *)

\* The numbers up to n are n.
LEMMA UpTo ==
  ASSUME NEW n \in Nat
  PROVE  IsFiniteSet(1..n) /\ Cardinality(1..n) = n
<1>1. 1 \in Int /\ n \in Int
  OBVIOUS
<1>2. /\ IsFiniteSet(1..n)
      /\ Cardinality(1..n) = IF 1 > n THEN 0 ELSE n - 1 + 1
  BY ONLY <1>1, FS_Interval, Zenon
<1> QED BY <1>2

\* The parts of a fit manager.
LEMMA FitFacts ==
  ASSUME NEW R, IsFiniteSet(R), NEW m, Fit(R, m)
  PROVE  /\ m.limit \in Nat \ {0}
         /\ m.queue \in Seq(R) /\ Len(m.queue) \in Nat
         /\ DOMAIN m.queue = 1..Len(m.queue)
         /\ m.asking \subseteq R /\ m.active \subseteq R
         /\ IsFiniteSet(m.active) /\ Cardinality(m.active) \in Nat
         /\ m = [limit |-> m.limit, queue |-> m.queue, asking |-> m.asking,
                 active |-> m.active]
<1>1. /\ m.limit \in Nat \ {0} /\ m.queue \in Seq(R)
      /\ m.asking \subseteq R /\ m.active \subseteq R
      /\ m = [limit |-> m.limit, queue |-> m.queue, asking |-> m.asking,
              active |-> m.active]
  BY DEF Fit, Manager
<1>2. Len(m.queue) \in Nat /\ DOMAIN m.queue = 1..Len(m.queue)
  BY <1>1
<1>3. IsFiniteSet(m.active) /\ Cardinality(m.active) \in Nat
  BY <1>1, FS_Subset, FS_CardinalityType
<1> QED BY <1>1, <1>2, <1>3

\* A manager with some of its parts replaced.
LEMMA Updates ==
  ASSUME NEW R, NEW m \in Manager(R), NEW q, NEW a, NEW s
  PROVE  /\ [m EXCEPT !.queue = q] =
              [limit |-> m.limit, queue |-> q, asking |-> m.asking, active |-> m.active]
         /\ [m EXCEPT !.asking = a] =
              [limit |-> m.limit, queue |-> m.queue, asking |-> a, active |-> m.active]
         /\ [m EXCEPT !.active = s] =
              [limit |-> m.limit, queue |-> m.queue, asking |-> m.asking, active |-> s]
         /\ [m EXCEPT !.queue = q, !.asking = a] =
              [limit |-> m.limit, queue |-> q, asking |-> a, active |-> m.active]
<1>1. PICK l \in Nat \ {0}, u \in Seq(R), b \in SUBSET R, t \in SUBSET R :
        m = [limit |-> l, queue |-> u, asking |-> b, active |-> t]
  BY DEF Manager
<1>2. m.limit = l /\ m.queue = u /\ m.asking = b /\ m.active = t
  BY <1>1
<1>3. [m EXCEPT !.queue = q] =
        [limit |-> m.limit, queue |-> q, asking |-> m.asking, active |-> m.active]
  BY <1>1, <1>2
<1>4. [m EXCEPT !.asking = a] =
        [limit |-> m.limit, queue |-> m.queue, asking |-> a, active |-> m.active]
  BY <1>1, <1>2
<1>5. [m EXCEPT !.active = s] =
        [limit |-> m.limit, queue |-> m.queue, asking |-> m.asking, active |-> s]
  BY <1>1, <1>2
<1>6. [m EXCEPT !.queue = q, !.asking = a] =
        [limit |-> m.limit, queue |-> q, asking |-> a, active |-> m.active]
  <2>1. [m EXCEPT !.queue = q, !.asking = a] = [[m EXCEPT !.queue = q] EXCEPT !.asking = a]
    OBVIOUS
  <2>2. [[limit |-> m.limit, queue |-> q, asking |-> m.asking, active |-> m.active]
           EXCEPT !.asking = a] =
          [limit |-> m.limit, queue |-> q, asking |-> a, active |-> m.active]
    OBVIOUS
  <2> QED BY <2>1, <2>2, <1>3
<1> QED BY <1>3, <1>4, <1>5, <1>6

\* A manager with other leases.
LEMMA WithActive ==
  ASSUME NEW m, NEW s,
         m = [limit |-> m.limit, queue |-> m.queue, asking |-> m.asking,
              active |-> m.active]
  PROVE  [m EXCEPT !.active = s] =
           [limit |-> m.limit, queue |-> m.queue, asking |-> m.asking, active |-> s]
  OBVIOUS

\* The admissions that are granted are the first ones of the queue.
LEMMA GrantedPrefix ==
  ASSUME NEW R, IsFiniteSet(R), NEW m, Fit(R, m)
  PROVE  LET G == {i \in DOMAIN m.queue : Grantable(m, i)}
             n == Cardinality(G)
         IN  n \in 0..Len(m.queue) /\ G = 1..n
<1> DEFINE G == {i \in DOMAIN m.queue : Grantable(m, i)}
           n == Cardinality(G)
           L == Len(m.queue)
<1>1. L \in Nat /\ DOMAIN m.queue = 1..L /\ Cardinality(m.active) \in Nat
      /\ m.limit \in Nat
  BY FitFacts
<1>2. G \subseteq 1..L
  BY <1>1
<1>3. IsFiniteSet(1..L) /\ Cardinality(1..L) = L
  BY <1>1, UpTo
<1>4. IsFiniteSet(G) /\ n \in Nat /\ n <= L
  BY <1>2, <1>3, FS_Subset, FS_CardinalityType
<1>5. ASSUME NEW i \in G, NEW k \in 1..i
      PROVE  k \in G
  BY <1>1, <1>2 DEF Grantable
<1>6. ASSUME NEW i \in G PROVE i <= n
  <2>1. i \in Nat /\ 1..i \subseteq G
    BY <1>2, <1>5
  <2>2. Cardinality(1..i) = i
    BY <2>1, UpTo
  <2> QED BY <2>1, <2>2, <1>4, FS_Subset
<1>7. ASSUME NEW i \in 1..n PROVE i \in G
  <2>1. SUFFICES ASSUME i \notin G PROVE FALSE
    OBVIOUS
  <2>2. G \subseteq 1..(i - 1)
    BY <2>1, <1>2, <1>4, <1>5
  <2>3. IsFiniteSet(1..(i - 1)) /\ Cardinality(1..(i - 1)) = i - 1
    BY <1>4, UpTo
  <2>4. n <= i - 1
    BY <2>2, <2>3, FS_Subset
  <2> QED BY <2>4, <1>4
<1>8. G = 1..n
  BY <1>2, <1>4, <1>6, <1>7
<1> QED BY <1>1, <1>4, <1>8

\* Pump takes some n admissions off the front, all of which asked; it stops at
\* the limit or at one that did not ask.
LEMMA PumpTakes ==
  ASSUME NEW R, IsFiniteSet(R), NEW m, Fit(R, m)
  PROVE  \E n \in 0..Len(m.queue) :
           LET granted == {m.queue[i] : i \in 1..n}
           IN  /\ Pump(m) = [limit |-> m.limit,
                             queue |-> SubSeq(m.queue, n + 1, Len(m.queue)),
                             asking |-> m.asking \ granted,
                             active |-> m.active \cup granted]
               /\ granted \subseteq m.asking
               /\ IsFiniteSet(m.active \cup granted)
               /\ Cardinality(m.active \cup granted) = Cardinality(m.active) + n
               /\ n > 0 => Cardinality(m.active) + n <= m.limit
               /\ n < Len(m.queue) =>
                    \/ Cardinality(m.active) + n >= m.limit
                    \/ m.queue[n + 1] \notin m.asking
<1> DEFINE G == {i \in DOMAIN m.queue : Grantable(m, i)}
           n == Cardinality(G)
           L == Len(m.queue)
           granted == {m.queue[i] : i \in 1..n}
<1>1. n \in 0..L /\ G = 1..n
  BY GrantedPrefix
<1>2. /\ m.limit \in Nat /\ L \in Nat /\ DOMAIN m.queue = 1..L
      /\ Cardinality(m.active) \in Nat /\ IsFiniteSet(m.active)
      /\ m.queue \in Seq(R)
      /\ m = [limit |-> m.limit, queue |-> m.queue, asking |-> m.asking,
              active |-> m.active]
  BY FitFacts
<1>3. Pump(m) = [limit |-> m.limit, queue |-> SubSeq(m.queue, n + 1, L),
                 asking |-> m.asking \ granted, active |-> m.active \cup granted]
  <2>1. Pump(m) = [m EXCEPT !.queue = SubSeq(@, n + 1, Len(@)),
                            !.asking = @ \ granted,
                            !.active = @ \cup granted]
    BY DEF Pump
  <2> HIDE DEF n, granted
  <2> QED BY <2>1, <1>2
<1>4. \A i \in 1..n : Grantable(m, i)
  BY <1>1
<1>5. n > 0 => Cardinality(m.active) + n <= m.limit
  BY <1>1, <1>4 DEF Grantable
<1>6. granted \subseteq m.asking
  BY <1>1, <1>4 DEF Grantable
<1>7. n < L => \/ Cardinality(m.active) + n >= m.limit
               \/ m.queue[n + 1] \notin m.asking
  <2>0. n \in Nat /\ n + 1 \notin 1..n
    BY <1>1
  <2>1. SUFFICES ASSUME n < L, Cardinality(m.active) + n < m.limit,
                        m.queue[n + 1] \in m.asking
                 PROVE  n + 1 \in G
    <3> HIDE DEF n, G
    <3> QED BY <1>1, <1>2, <2>0
  <2>2. n + 1 \in DOMAIN m.queue /\ n \in Nat
    BY <2>1, <1>1, <1>2
  <2>3. \A k \in 1..(n + 1) : k \in 1..n \/ k = n + 1
    BY <2>2
  <2>4. \A k \in 1..(n + 1) : m.queue[k] \in m.asking
    BY <2>1, <2>3, <1>4, <1>6
  <2> QED BY <2>1, <2>2, <2>4, <1>2 DEF Grantable
<1>8. IsFiniteSet(granted) /\ Cardinality(granted) = n
  <2> DEFINE f == [i \in 1..n |-> m.queue[i]]
  <2>1. \A i \in 1..n : i \in DOMAIN m.queue
    BY <1>1
  <2>2. f \in Bijection(1..n, granted)
    BY <2>1 DEF Fit, Bijection, Injection, Surjection, IsInjective
  <2>3. ExistsBijection(1..n, granted)
    BY <2>2 DEF ExistsBijection
  <2>4. n \in Nat
    BY <1>1
  <2>5. IsFiniteSet(1..n) /\ Cardinality(1..n) = n
    BY <2>4, UpTo
  <2> HIDE DEF n, granted
  <2> QED BY <2>3, <2>5, FS_Bijection
<1>9. m.active \cap granted = {}
  BY <1>1, <1>2 DEF Fit
<1>10. /\ IsFiniteSet(m.active \cup granted)
       /\ Cardinality(m.active \cup granted) = Cardinality(m.active) + n
  <2>1. n \in Nat
    BY <1>1
  <2>2. Cardinality(m.active \cap granted) = 0
    BY <1>9, FS_EmptySet
  <2>3. \A S, T : IsFiniteSet(S) /\ IsFiniteSet(T) =>
           /\ IsFiniteSet(S \cup T)
           /\ Cardinality(S \cup T) =
                Cardinality(S) + Cardinality(T) - Cardinality(S \cap T)
    BY ONLY FS_Union
  <2> HIDE DEF n, granted
  <2>4. Cardinality(m.active \cup granted) =
          Cardinality(m.active) + Cardinality(granted) - 0
    BY <2>2, <2>3, <1>2, <1>8
  <2>5. IsFiniteSet(m.active \cup granted)
    BY <2>3, <1>2, <1>8
  <2> QED BY <2>1, <2>4, <2>5, <1>2, <1>8
<1> HIDE DEF n
<1> QED BY <1>1, <1>3, <1>5, <1>6, <1>7, <1>10

\* The next requester is woken, nobody is let in above the limit, and nobody is
\* disturbed.
LEMMA PumpFit ==
  ASSUME NEW R, IsFiniteSet(R), NEW m, Fit(R, m)
  PROVE  /\ Fit(R, Pump(m)) /\ Moves(Pump(m)) /\ Grants(m, Pump(m))
         /\ Pump(m).limit = m.limit
         /\ \A r : Undisturbed(m, Pump(m), r)
<1> DEFINE L == Len(m.queue)
<1>1. PICK n \in 0..L :
           LET granted == {m.queue[i] : i \in 1..n}
           IN  /\ Pump(m) = [limit |-> m.limit,
                             queue |-> SubSeq(m.queue, n + 1, L),
                             asking |-> m.asking \ granted,
                             active |-> m.active \cup granted]
               /\ granted \subseteq m.asking
               /\ IsFiniteSet(m.active \cup granted)
               /\ Cardinality(m.active \cup granted) = Cardinality(m.active) + n
               /\ n > 0 => Cardinality(m.active) + n <= m.limit
               /\ n < L =>
                    \/ Cardinality(m.active) + n >= m.limit
                    \/ m.queue[n + 1] \notin m.asking
  BY PumpTakes
<1> DEFINE granted == {m.queue[i] : i \in 1..n}
           p == Pump(m)
<1>2. /\ m.limit \in Nat \ {0} /\ L \in Nat /\ DOMAIN m.queue = 1..L
      /\ m.asking \subseteq R /\ m.active \subseteq R
      /\ Cardinality(m.active) \in Nat /\ m.queue \in Seq(R)
  BY FitFacts
<1>3. /\ p.limit = m.limit /\ p.queue = SubSeq(m.queue, n + 1, L)
      /\ p.asking = m.asking \ granted /\ p.active = m.active \cup granted
      /\ p = [limit |-> p.limit, queue |-> p.queue, asking |-> p.asking,
              active |-> p.active]
  <2>1. p = [limit |-> m.limit, queue |-> SubSeq(m.queue, n + 1, L),
             asking |-> m.asking \ granted, active |-> m.active \cup granted]
    BY <1>1
  <2> HIDE DEF p, granted
  <2> QED BY <2>1
<1>4. /\ p.queue \in Seq(R) /\ Len(p.queue) = L - n
      /\ DOMAIN p.queue = 1..(L - n)
      /\ \A i \in 1..(L - n) : n + i \in 1..L /\ p.queue[i] = m.queue[n + i]
  <2>1. \A i \in (n + 1)..L : m.queue[i] \in R
    BY <1>2
  <2>2. /\ SubSeq(m.queue, n + 1, L) \in Seq(R)
        /\ Len(SubSeq(m.queue, n + 1, L)) =
             IF n + 1 <= L THEN L - (n + 1) + 1 ELSE 0
        /\ \A i \in 1..(L - (n + 1) + 1) :
             SubSeq(m.queue, n + 1, L)[i] = m.queue[n + 1 + i - 1]
    <3>1. n + 1 \in Int /\ L \in Int
      BY <1>2
    <3> QED BY <3>1, <2>1, SubSeqProperties
  <2>3. L - (n + 1) + 1 = L - n /\ \A i \in 1..(L - n) : n + 1 + i - 1 = n + i
    BY <1>2
  <2> HIDE DEF p, L
  <2>4. p.queue \in Seq(R)
    BY <2>2, <1>3
  <2>5. Len(p.queue) = L - n
    BY <2>2, <2>3, <1>2, <1>3
  <2>6. DOMAIN p.queue = 1..(L - n)
    BY <2>4, <2>5
  <2>7. \A i \in 1..(L - n) : p.queue[i] = m.queue[n + i]
    BY <2>2, <2>3, <1>3
  <2>8. \A i \in 1..(L - n) : n + i \in 1..L
    BY <1>2
  <2> QED BY <2>4, <2>5, <2>6, <2>7, <2>8
<1>5. InQueue(p) = {m.queue[i] : i \in (n + 1)..L}
  <2> HIDE DEF p, L
  <2>1. \A i \in (n + 1)..L : i - n \in 1..(L - n) /\ n + (i - n) = i
    BY <1>2
  <2>2. \A i \in (n + 1)..L : m.queue[i] = p.queue[i - n]
    BY <2>1, <1>4
  <2>3. \A i \in 1..(L - n) : n + i \in (n + 1)..L
    BY <1>2
  <2>4. ASSUME NEW x \in InQueue(p)
        PROVE  x \in {m.queue[i] : i \in (n + 1)..L}
    <3>1. PICK i \in 1..(L - n) : x = p.queue[i]
      BY <1>4 DEF InQueue
    <3>2. x = m.queue[n + i] /\ n + i \in (n + 1)..L
      BY <3>1, <2>3, <1>4
    <3> QED BY <3>2
  <2>5. ASSUME NEW x \in {m.queue[i] : i \in (n + 1)..L}
        PROVE  x \in InQueue(p)
    <3>1. PICK i \in (n + 1)..L : x = m.queue[i]
      OBVIOUS
    <3>2. x = p.queue[i - n] /\ i - n \in DOMAIN p.queue
      BY <3>1, <2>1, <2>2, <1>4
    <3> QED BY <3>2 DEF InQueue
  <2> QED BY <2>4, <2>5
<1>6. InQueue(m) = InQueue(p) \cup granted /\ InQueue(p) \cap granted = {}
  <2>1. \A i \in 1..L : i \in 1..n \/ i \in (n + 1)..L
    BY <1>2
  <2>2. \A i \in 1..n : i \in 1..L
    BY <1>2
  <2>3. \A k \in (n + 1)..L : k \in 1..L
    BY <1>2
  <2>4. \A i \in 1..n, k \in (n + 1)..L : m.queue[i] # m.queue[k]
    <3>1. \A i \in 1..n, k \in (n + 1)..L : i # k
      BY <1>2
    <3> QED BY <3>1, <2>2, <2>3, <1>2 DEF Fit
  <2>5. InQueue(m) = {m.queue[i] : i \in 1..L}
    BY <1>2 DEF InQueue
  <2> HIDE DEF p, L
  <2> QED BY <2>1, <2>2, <2>3, <2>4, <2>5, <1>5
<1>7. Fit(R, p)
  <2>1. p \in Manager(R)
    BY <1>1, <1>2, <1>3, <1>4 DEF Manager
  <2>2. \A i, k \in DOMAIN p.queue : p.queue[i] = p.queue[k] => i = k
    <3>1. \A i, k \in 1..L : m.queue[i] = m.queue[k] => i = k
      BY <1>2 DEF Fit
    <3> HIDE DEF p, L
    <3>2. \A i, k \in 1..(L - n) : p.queue[i] = p.queue[k] => n + i = n + k
      BY <3>1, <1>4
    <3>3. \A i, k \in 1..(L - n) : n + i = n + k => i = k
      BY <1>2
    <3> QED BY <3>2, <3>3, <1>4
  <2>3. \A i \in DOMAIN p.queue : p.queue[i] \notin p.active
    <3>1. \A r \in InQueue(p) : r \notin m.active
      BY <1>6 DEF Fit, InQueue
    <3> QED BY <3>1, <1>3, <1>6 DEF InQueue
  <2>4. p.asking \subseteq InQueue(p)
    BY <1>3, <1>6 DEF Fit
  <2> QED BY <2>1, <2>2, <2>3, <2>4 DEF Fit
<1>8. Moves(p)
  <2>1. SUFFICES ASSUME Cardinality(p.active) < p.limit, p.queue # <<>>
                 PROVE  Head(p.queue) \notin p.asking
    BY DEF Moves
  <2>2. n < L /\ Head(p.queue) = m.queue[n + 1]
    BY <2>1, <1>2, <1>4
  <2>3. Cardinality(p.active) = Cardinality(m.active) + n
    BY <1>1, <1>3
  <2>4. ~(Cardinality(m.active) + n >= m.limit)
    BY <2>1, <2>3, <1>2, <1>3
  <2>5. m.queue[n + 1] \notin m.asking
    BY <1>1, <2>2, <2>4
  <2> QED BY <2>2, <2>5, <1>3
<1>9. Grants(m, p)
  <2>1. CASE n = 0
    BY <2>1, <1>3 DEF Grants
  <2>2. CASE n > 0
    BY <2>2, <1>1, <1>3 DEF Grants
  <2> QED BY <2>1, <2>2
<1>10. \A r : Undisturbed(m, p, r)
  BY <1>1, <1>3, <1>6 DEF Undisturbed, Idle, Waiting, Asks, Holds
<1> QED BY <1>3, <1>7, <1>8, <1>9, <1>10

-----------------------------------------------------------------------------
(* The operations. *)

\* What an operation promises: to those it is not for, nothing happens.
Safe(R, m, n) ==
  Fit(R, n) /\ Moves(n) /\ Grants(m, n) /\ n.limit = m.limit

\* An operation that changes a manager and pumps it keeps the promise.
LEMMA PumpAfter ==
  ASSUME NEW R, IsFiniteSet(R), NEW m, NEW k, Fit(R, k),
         k.active \subseteq m.active, k.limit = m.limit
  PROVE  /\ Safe(R, m, Pump(k))
         /\ \A r : Undisturbed(k, Pump(k), r)
<1>1. /\ Fit(R, Pump(k)) /\ Moves(Pump(k)) /\ Grants(k, Pump(k))
      /\ Pump(k).limit = k.limit
      /\ \A r : Undisturbed(k, Pump(k), r)
  BY PumpFit
<1>2. Grants(m, Pump(k))
  BY <1>1 DEF Grants
<1> QED BY <1>1, <1>2 DEF Safe

\* A manager that nobody uses is fit, and everybody is idle in it.
LEMMA EmptyFit ==
  ASSUME NEW R, NEW n \in Nat \ {0}
  PROVE  /\ Fit(R, Empty(n)) /\ Moves(Empty(n))
         /\ \A r : Idle(Empty(n), r)
  BY DEF Fit, Manager, Empty, InQueue, Moves, Idle

\* Who is admitted waits; the others are where they were, and the queue moves.
LEMMA AdmitSafe ==
  ASSUME NEW R, IsFiniteSet(R), NEW m, Fit(R, m), NEW r \in R, Idle(m, r)
  PROVE  /\ Fit(R, Admit(m, r)) /\ (Moves(m) => Moves(Admit(m, r)))
         /\ Grants(m, Admit(m, r)) /\ Admit(m, r).limit = m.limit
         /\ Waiting(Admit(m, r), r)
         /\ \A x : x # r => Undisturbed(m, Admit(m, r), x)
<1> DEFINE k == Admit(m, r)
           L == Len(m.queue)
<1>1. /\ m.queue \in Seq(R) /\ L \in Nat /\ DOMAIN m.queue = 1..L
      /\ m.asking \subseteq R /\ m.active \subseteq R /\ m.limit \in Nat \ {0}
      /\ m = [limit |-> m.limit, queue |-> m.queue, asking |-> m.asking,
              active |-> m.active]
  BY FitFacts
<1>2. k = [limit |-> m.limit, queue |-> Append(m.queue, r),
           asking |-> m.asking, active |-> m.active]
  BY Updates DEF Admit, Fit
<1>3. /\ k.limit = m.limit /\ k.queue = Append(m.queue, r)
      /\ k.asking = m.asking /\ k.active = m.active
  BY <1>2
<1>4. /\ k.queue \in Seq(R) /\ DOMAIN k.queue = 1..(L + 1)
      /\ \A i \in 1..L : k.queue[i] = m.queue[i]
      /\ k.queue[L + 1] = r
  BY <1>1, <1>3
<1> HIDE DEF k, L
<1>5. InQueue(k) = InQueue(m) \cup {r}
  <2>1. \A i \in 1..(L + 1) : i \in 1..L \/ i = L + 1
    BY <1>1
  <2>2. L + 1 \in 1..(L + 1) /\ \A i \in 1..L : i \in 1..(L + 1)
    BY <1>1
  <2> QED BY <2>1, <2>2, <1>1, <1>4 DEF InQueue
<1>6. Fit(R, k)
  <2>1. k \in Manager(R)
    BY <1>1, <1>2, <1>4 DEF Manager
  <2>2. \A i, j \in DOMAIN k.queue : k.queue[i] = k.queue[j] => i = j
    <3>1. \A i \in 1..L : m.queue[i] # r
      BY <1>1 DEF Idle, InQueue
    <3>2. \A i \in 1..(L + 1) : i \in 1..L \/ i = L + 1
      BY <1>1
    <3> QED BY <3>1, <3>2, <1>1, <1>4 DEF Fit
  <2>3. \A i \in DOMAIN k.queue : k.queue[i] \notin k.active
    <3>1. \A i \in 1..(L + 1) : i \in 1..L \/ i = L + 1
      BY <1>1
    <3> QED BY <3>1, <1>1, <1>3, <1>4 DEF Fit, Idle
  <2>4. k.asking \subseteq InQueue(k)
    BY <1>3, <1>5 DEF Fit
  <2> QED BY <2>1, <2>2, <2>3, <2>4 DEF Fit
<1>7. Moves(m) => Moves(k)
  <2>1. SUFFICES ASSUME Moves(m), Cardinality(k.active) < k.limit
                 PROVE  Head(k.queue) \notin k.asking
    BY DEF Moves
  <2>2. CASE m.queue = <<>>
    <3>1. Head(k.queue) = r /\ m.asking = {}
      BY <2>2, <1>1, <1>3, <1>4 DEF Fit, InQueue
    <3> QED BY <3>1, <1>3
  <2>3. CASE m.queue # <<>>
    BY <2>1, <2>3, <1>1, <1>3, <1>4 DEF Moves
  <2> QED BY <2>2, <2>3
<1>8. Grants(m, k)
  BY <1>3 DEF Grants
<1>9. Waiting(k, r)
  BY <1>3, <1>5 DEF Waiting, Fit, Idle
<1>10. \A x : x # r => Undisturbed(m, k, x)
  BY <1>3, <1>5 DEF Undisturbed, Idle, Waiting, Asks, Holds
<1> QED BY <1>3, <1>6, <1>7, <1>8, <1>9, <1>10 DEF k

\* Who was admitted and asks for a slot is in line for it or has it.
LEMMA AcquireSafe ==
  ASSUME NEW R, IsFiniteSet(R), NEW m, Fit(R, m), NEW r \in R, Waiting(m, r)
  PROVE  /\ Safe(R, m, Acquire(m, r)) /\ Asks(Acquire(m, r), r)
         /\ \A x : x # r => Undisturbed(m, Acquire(m, r), x)
<1> DEFINE k == [m EXCEPT !.asking = @ \cup {r}]
<1>1. k = [limit |-> m.limit, queue |-> m.queue, asking |-> m.asking \cup {r},
           active |-> m.active]
  BY Updates DEF Fit
<1>2. /\ k.limit = m.limit /\ k.queue = m.queue
      /\ k.asking = m.asking \cup {r} /\ k.active = m.active
  BY <1>1
<1>3. InQueue(k) = InQueue(m)
  BY <1>2 DEF InQueue
<1> HIDE DEF k
<1>4. Fit(R, k)
  BY <1>1, <1>2, <1>3 DEF Fit, Manager, Waiting
<1>5. Safe(R, m, Pump(k)) /\ \A x : Undisturbed(k, Pump(k), x)
  BY <1>2, <1>4, PumpAfter
<1>6. \A x : x # r => Undisturbed(m, k, x)
  BY <1>2, <1>3 DEF Undisturbed, Idle, Waiting, Asks, Holds
<1>7. Asks(k, r)
  BY <1>2 DEF Asks
<1> QED BY <1>5, <1>6, <1>7 DEF Acquire, Undisturbed, k

\* A queue without repetitions, and who is in it.
Distinct(q) == \A i, k \in DOMAIN q : q[i] = q[k] => i = k
Elements(q) == {q[i] : i \in DOMAIN q}

\* Whoever is taken out of the queue is in it no more.
LEMMA WithoutFacts ==
  ASSUME NEW R, NEW q \in Seq(R), NEW r, Distinct(q)
  PROVE  /\ Without(q, r) \in Seq(R) /\ Distinct(Without(q, r))
         /\ Elements(Without(q, r)) = Elements(q) \ {r}
<1> USE DEF Distinct, Elements
<1> DEFINE at == {i \in DOMAIN q : q[i] = r}
           L == Len(q)
           w == Without(q, r)
<1>1. L \in Nat /\ DOMAIN q = 1..L
  OBVIOUS
<1>2. CASE at = {}
  BY <1>2 DEF Without
<1>3. CASE at # {}
  <2> DEFINE j == CHOOSE i \in at : TRUE
  <2>1. j \in 1..L /\ q[j] = r
    BY <1>1, <1>3
  <2>2. w = SubSeq(q, 1, j - 1) \o SubSeq(q, j + 1, L)
    BY <1>3 DEF Without, RemoveAt
  <2> HIDE DEF j, w, at
  <2>3. /\ SubSeq(q, 1, j - 1) \in Seq(R)
        /\ Len(SubSeq(q, 1, j - 1)) = j - 1
        /\ \A i \in 1..(j - 1) : SubSeq(q, 1, j - 1)[i] = q[i]
    BY <1>1, <2>1
  <2>4. /\ SubSeq(q, j + 1, L) \in Seq(R)
        /\ Len(SubSeq(q, j + 1, L)) = L - j
        /\ \A i \in 1..(L - j) : SubSeq(q, j + 1, L)[i] = q[j + i]
    <3>1. j + 1 \in Int /\ L \in Int /\ \A i \in (j + 1)..L : q[i] \in R
      BY <1>1, <2>1
    <3>2. /\ SubSeq(q, j + 1, L) \in Seq(R)
          /\ Len(SubSeq(q, j + 1, L)) = IF j + 1 <= L THEN L - (j + 1) + 1 ELSE 0
          /\ \A i \in 1..(L - (j + 1) + 1) :
               SubSeq(q, j + 1, L)[i] = q[j + 1 + i - 1]
      BY <3>1, SubSeqProperties
    <3> HIDE DEF L
    <3> QED BY <3>2, <1>1, <2>1
  <2>5. /\ w \in Seq(R) /\ DOMAIN w = 1..(L - 1)
        /\ \A i \in 1..(L - 1) : w[i] = IF i < j THEN q[i] ELSE q[i + 1]
    <3> DEFINE a == SubSeq(q, 1, j - 1)
               b == SubSeq(q, j + 1, L)
    <3>1. /\ w \in Seq(R) /\ Len(w) = L - 1
          /\ \A i \in 1..(L - 1) :
               w[i] = IF i <= j - 1 THEN a[i] ELSE b[i - (j - 1)]
      <4>1. a \in Seq(R) /\ b \in Seq(R) /\ Len(a) = j - 1 /\ Len(b) = L - j
            /\ w = a \o b
        BY <2>2, <2>3, <2>4
      <4> HIDE DEF a, b, L
      <4>2. /\ w \in Seq(R) /\ Len(w) = (j - 1) + (L - j)
            /\ \A i \in 1..((j - 1) + (L - j)) :
                 w[i] = IF i <= j - 1 THEN a[i] ELSE b[i - (j - 1)]
        BY <4>1, ConcatProperties
      <4>3. (j - 1) + (L - j) = L - 1
        BY <1>1, <2>1
      <4> QED BY <4>2, <4>3
    <3>2. \A i \in 1..(L - 1) : i >= j =>
            i - (j - 1) \in 1..(L - j) /\ j + (i - (j - 1)) = i + 1
      BY <1>1, <2>1
    <3>3. \A i \in 1..(L - 1) : i < j => i <= j - 1 /\ i \in 1..(j - 1)
      BY <1>1, <2>1
    <3>4. \A i \in 1..(L - 1) : w[i] = IF i < j THEN q[i] ELSE q[i + 1]
      <4> SUFFICES ASSUME NEW i \in 1..(L - 1)
                   PROVE  w[i] = IF i < j THEN q[i] ELSE q[i + 1]
        OBVIOUS
      <4>1. CASE i < j
        BY <4>1, <2>3, <3>1, <3>3
      <4>2. CASE i >= j
        <5>1. ~(i <= j - 1) /\ ~(i < j)
          BY <4>2, <1>1, <2>1
        <5> QED BY <5>1, <4>2, <2>4, <3>1, <3>2
      <4> QED BY <4>1, <4>2, <1>1, <2>1
    <3>5. DOMAIN w = 1..(L - 1)
      BY <3>1
    <3> QED BY <3>1, <3>4, <3>5
  <2>6. \A i \in 1..(L - 1) : i \in 1..L /\ i + 1 \in 1..L
    BY <1>1
  <2>7. \A i \in 1..(L - 1) :
          \E x \in 1..L : w[i] = q[x] /\ x # j /\ x = IF i < j THEN i ELSE i + 1
    <3> SUFFICES ASSUME NEW i \in 1..(L - 1)
                 PROVE  \E x \in 1..L : w[i] = q[x] /\ x # j
                                       /\ x = IF i < j THEN i ELSE i + 1
      OBVIOUS
    <3>1. CASE i < j
      BY <3>1, <2>1, <2>5, <2>6
    <3>2. CASE ~(i < j)
      <4>1. i + 1 # j
        BY <3>2, <1>1, <2>1
      <4> QED BY <4>1, <3>2, <2>5, <2>6
    <3> QED BY <3>1, <3>2
  <2>8. \A i, k \in DOMAIN w : w[i] = w[k] => i = k
    <3> SUFFICES ASSUME NEW i \in 1..(L - 1), NEW k \in 1..(L - 1), w[i] = w[k]
                 PROVE  i = k
      BY <2>5
    <3>1. PICK x \in 1..L : w[i] = q[x] /\ x = IF i < j THEN i ELSE i + 1
      BY <2>7
    <3>2. PICK y \in 1..L : w[k] = q[y] /\ y = IF k < j THEN k ELSE k + 1
      BY <2>7
    <3>3. x = y
      BY <3>1, <3>2, <1>1
    <3> QED BY <3>1, <3>2, <3>3, <1>1, <2>1
  <2>10. ASSUME NEW i \in DOMAIN w
         PROVE  w[i] \in {q[k] : k \in DOMAIN q} \ {r}
    <3>1. PICK x \in 1..L : w[i] = q[x] /\ x # j
      BY <2>5, <2>7
    <3> QED BY <3>1, <1>1, <2>1
  <2>9. ASSUME NEW k \in DOMAIN q, q[k] # r
        PROVE  \E i \in DOMAIN w : w[i] = q[k]
    <3>1. CASE k < j
      <4>1. k \in 1..(L - 1)
        BY <3>1, <1>1, <2>1
      <4> QED BY <4>1, <3>1, <2>5
    <3>2. CASE k > j
      <4>1. k - 1 \in 1..(L - 1) /\ ~(k - 1 < j) /\ (k - 1) + 1 = k
        BY <3>2, <1>1, <2>1
      <4> QED BY <4>1, <2>5
    <3> QED BY <3>1, <3>2, <1>1, <2>1, <2>9
  <2>11. {w[i] : i \in DOMAIN w} = {q[i] : i \in DOMAIN q} \ {r}
    BY <2>9, <2>10
  <2> QED BY <2>5, <2>8, <2>11 DEF w
<1> QED BY <1>2, <1>3

\* Who gives up an admission is out of the manager, and the next one is woken.
LEMMA ReleaseAdmissionSafe ==
  ASSUME NEW R, IsFiniteSet(R), NEW m, Fit(R, m), NEW r \in R, Waiting(m, r)
  PROVE  /\ Safe(R, m, ReleaseAdmission(m, r)) /\ Idle(ReleaseAdmission(m, r), r)
         /\ \A x : x # r => Undisturbed(m, ReleaseAdmission(m, r), x)
<1> DEFINE k == [m EXCEPT !.queue = Without(@, r), !.asking = @ \ {r}]
<1>1. k = [limit |-> m.limit, queue |-> Without(m.queue, r),
           asking |-> m.asking \ {r}, active |-> m.active]
  BY Updates DEF Fit
<1>2. /\ k.limit = m.limit /\ k.queue = Without(m.queue, r)
      /\ k.asking = m.asking \ {r} /\ k.active = m.active
  BY <1>1
<1> HIDE DEF k
<1>3. m.queue \in Seq(R) /\ \A i, j \in DOMAIN m.queue : m.queue[i] = m.queue[j] => i = j
  BY FitFacts DEF Fit
<1>4. /\ k.queue \in Seq(R)
      /\ \A i, j \in DOMAIN k.queue : k.queue[i] = k.queue[j] => i = j
      /\ InQueue(k) = InQueue(m) \ {r}
  <2>1. m.queue \in Seq(R) /\ Distinct(m.queue)
    BY <1>3 DEF Distinct
  <2>2. /\ Without(m.queue, r) \in Seq(R) /\ Distinct(Without(m.queue, r))
        /\ Elements(Without(m.queue, r)) = Elements(m.queue) \ {r}
    BY <2>1, WithoutFacts
  <2> QED BY <2>2, <1>2 DEF InQueue, Distinct, Elements
<1>5. r \notin m.active
  BY DEF Waiting, InQueue, Fit
<1>6. Fit(R, k)
  <2>1. \A x \in InQueue(m) : x \notin m.active
    BY DEF Fit, InQueue
  <2>2. \A i \in DOMAIN k.queue : k.queue[i] \in InQueue(k)
    BY DEF InQueue
  <2>3. \A i \in DOMAIN k.queue : k.queue[i] \notin k.active
    BY <2>1, <2>2, <1>2, <1>4
  <2>4. k.asking \subseteq InQueue(k)
    BY <1>2, <1>4 DEF Fit
  <2>5. k \in Manager(R)
    BY <1>1, <1>2, <1>4 DEF Fit, Manager
  <2> QED BY <2>3, <2>4, <2>5, <1>4 DEF Fit
<1>7. Safe(R, m, Pump(k)) /\ \A x : Undisturbed(k, Pump(k), x)
  BY <1>2, <1>6, PumpAfter
<1>8. \A x : x # r => Undisturbed(m, k, x)
  BY <1>2, <1>4 DEF Undisturbed, Idle, Waiting, Asks, Holds
<1>9. Idle(k, r)
  BY <1>2, <1>4, <1>5 DEF Idle
<1> QED BY <1>7, <1>8, <1>9 DEF ReleaseAdmission, Undisturbed, k

\* Who gives up a lease is out of the manager, and the next one is woken;
\* who has none changes nothing.
LEMMA ReleaseLeaseSafe ==
  ASSUME NEW R, IsFiniteSet(R), NEW m, Fit(R, m), Moves(m), NEW r
  PROVE  /\ Safe(R, m, ReleaseLease(m, r))
         /\ r \notin InQueue(m) => Idle(ReleaseLease(m, r), r)
         /\ r \in InQueue(m) => ReleaseLease(m, r) = m
         /\ \A x : x # r => Undisturbed(m, ReleaseLease(m, r), x)
<1>0. r \in InQueue(m) => r \notin m.active
  BY DEF InQueue, Fit
<1>1. CASE r \notin m.active
  BY <1>1 DEF ReleaseLease, Safe, Idle, Undisturbed, Grants
<1>2. CASE r \in m.active
  <2> DEFINE k == [m EXCEPT !.active = @ \ {r}]
  <2>0. m = [limit |-> m.limit, queue |-> m.queue, asking |-> m.asking,
             active |-> m.active]
    BY FitFacts
  <2>1. k = [limit |-> m.limit, queue |-> m.queue, asking |-> m.asking,
             active |-> m.active \ {r}]
    BY <2>0, WithActive
  <2>2. /\ k.limit = m.limit /\ k.queue = m.queue
        /\ k.asking = m.asking /\ k.active = m.active \ {r}
    BY <2>1
  <2> HIDE DEF k
  <2>3. InQueue(k) = InQueue(m)
    BY <2>2 DEF InQueue
  <2>4. Fit(R, k)
    BY <2>1, <2>2, <2>3 DEF Fit, Manager
  <2>5. Safe(R, m, Pump(k)) /\ \A x : Undisturbed(k, Pump(k), x)
    BY <2>2, <2>4, PumpAfter
  <2>6. \A x : x # r => Undisturbed(m, k, x)
    BY <2>2, <2>3 DEF Undisturbed, Idle, Waiting, Asks, Holds
  <2>7. Idle(k, r)
    BY <1>0, <1>2, <2>2, <2>3 DEF Idle
  <2> QED BY <1>0, <1>2, <2>5, <2>6, <2>7 DEF ReleaseLease, Undisturbed, k
<1> QED BY <1>1, <1>2

\* Whoever has a slot after a restart is restored or was granted.
LEMMA RestoreSafe ==
  ASSUME NEW R, IsFiniteSet(R), NEW m, Fit(R, m), NEW jobs \in SUBSET R,
         jobs \cap InQueue(m) = {}
  PROVE  /\ Fit(R, Restore(m, jobs)) /\ Moves(Restore(m, jobs))
         /\ \A r \in jobs : Holds(Restore(m, jobs), r) /\ r \notin InQueue(Restore(m, jobs))
         /\ \A r : r \notin jobs => Undisturbed(m, Restore(m, jobs), r)
<1> DEFINE k == [m EXCEPT !.active = @ \cup jobs]
<1>1. k = [limit |-> m.limit, queue |-> m.queue, asking |-> m.asking,
           active |-> m.active \cup jobs]
  BY Updates DEF Fit
<1>2. /\ k.limit = m.limit /\ k.queue = m.queue
      /\ k.asking = m.asking /\ k.active = m.active \cup jobs
  BY <1>1
<1> HIDE DEF k
<1>3. InQueue(k) = InQueue(m)
  BY <1>2 DEF InQueue
<1>4. Fit(R, k)
  <2>1. \A x \in InQueue(k) : x \notin k.active
    BY <1>2, <1>3 DEF Fit, InQueue
  <2> QED BY <2>1, <1>1, <1>2, <1>3 DEF Fit, Manager, InQueue
<1>5. Fit(R, Pump(k)) /\ Moves(Pump(k)) /\ \A r : Undisturbed(k, Pump(k), r)
  BY <1>4, PumpFit
<1>6. \A r : r \notin jobs => Undisturbed(m, k, r)
  BY <1>2, <1>3 DEF Undisturbed, Idle, Waiting, Asks, Holds
<1>7. \A r \in jobs : Holds(k, r) /\ r \notin InQueue(k)
  BY <1>2, <1>3 DEF Holds
<1> QED BY <1>5, <1>6, <1>7 DEF Restore, Undisturbed, k

-----------------------------------------------------------------------------
(* The inductive invariant. *)

\* What a job is when a manager may know it.
Lives(r) ==
  /\ pc[r] \in {"persisting", "requeued", "requeuedSeat"}
       => status[r] \in {"queued", "failed"}
  /\ Exists(r) => account[r] \in Account
  /\ r \in running => pc[r] = "done" /\ Exists(r)
  /\ r \in expiring => pc[r] = "done" /\ status[r] = "unknown"

\* Where a request is in the gateway's manager.
InSlots(r) ==
  /\ pc[r] = "new" => Idle(slots, r)
  /\ pc[r] \in {"preparing", "evaluating"} => Waiting(slots, r)
  /\ pc[r] \in {"waitSeat", "persisting", "requeuedSeat", "done"}
       => r \notin InQueue(slots)
  /\ pc[r] = "done" /\ Holds(slots, r) => r \in running \cup expiring \cup leaked

\* And in those of the accounts.
InSeat(r, a) ==
  \/ Idle(seats[a], r)
  \/ pc[r] = "waitSeat" /\ a = candidate[r]
  \/ pc[r] = "requeuedSeat" /\ a = account[r]
  \/ pc[r] = "persisting" /\ a = account[r] /\ r \notin InQueue(seats[a])
  \/ /\ pc[r] = "done" /\ r \in running \cup leaked
     /\ a = account[r] /\ r \notin InQueue(seats[a])

Placed(r) == Lives(r) /\ InSlots(r) /\ \A a \in Account : InSeat(r, a)

Managed ==
  /\ Fit(Request, slots) /\ Moves(slots)
  /\ seats \in [Account -> Manager(Request)]
  /\ \A a \in Account : Fit(Request, seats[a]) /\ Moves(seats[a])

SlotsInv ==
  /\ PointsInv
  /\ Managed
  /\ \A r \in Request : Placed(r)

-----------------------------------------------------------------------------
(* Steps of the managers. *)

\* A manager goes from m to n for the sake of r.
Goes(m, n, r) ==
  /\ Fit(Request, n) /\ Moves(n) /\ Grants(m, n) /\ n.limit = m.limit
  /\ \A x \in Request : x # r => Undisturbed(m, n, x)

SeatsGo(r) ==
  /\ seats' \in [Account -> Manager(Request)]
  /\ \A a \in Account : Goes(seats[a], seats'[a], r)

ManagersGo(r) == Goes(slots, slots', r) /\ SeatsGo(r)

\* Most managers stay as they are.
LEMMA Stays ==
  ASSUME NEW m, Fit(Request, m), Moves(m), NEW r
  PROVE  Goes(m, m, r)
  BY DEF Goes, Grants, Undisturbed

\* The accounts stay as they are.
LEMMA SeatsStay ==
  ASSUME Managed, NEW r, UNCHANGED seats
  PROVE  SeatsGo(r)
  BY Stays DEF Managed, SeatsGo

\* One step after the other is a step.
LEMMA Chain ==
  ASSUME NEW m, NEW k, NEW n, NEW r, Goes(m, k, r), Goes(k, n, r)
  PROVE  Goes(m, n, r)
<1>1. \A x \in Request : x # r => Undisturbed(m, n, x)
  BY DEF Goes, Undisturbed
<1>2. Grants(m, n)
  <2>1. CASE Cardinality(n.active) <= n.limit
    BY <2>1 DEF Grants
  <2>2. CASE n.active \subseteq k.active /\ k.active \subseteq m.active
    BY <2>2 DEF Grants
  <2>3. CASE n.active \subseteq k.active /\ Cardinality(k.active) <= k.limit
    <3>1. /\ IsFiniteSet(k.active) /\ Cardinality(k.active) \in Nat
          /\ k.limit \in Nat \ {0} /\ n.limit = k.limit
          /\ Cardinality(n.active) \in Nat
      BY FitFacts, RequestAssumption DEF Goes
    <3>2. Cardinality(n.active) <= Cardinality(k.active)
      BY <2>3, <3>1, FS_Subset
    <3>3. Cardinality(n.active) <= n.limit
      BY <2>3, <3>1, <3>2
    <3> QED BY <3>3 DEF Grants
  <2> QED BY <2>1, <2>2, <2>3 DEF Goes, Grants
<1> QED BY <1>1, <1>2 DEF Goes

\* The operations are such steps.
LEMMA OperationsGo ==
  ASSUME NEW m, Fit(Request, m), Moves(m), NEW r \in Request
  PROVE  /\ Goes(m, ReleaseLease(m, r), r)
         /\ r \notin InQueue(m) => Idle(ReleaseLease(m, r), r)
         /\ Waiting(m, r) =>
              /\ Goes(m, Acquire(m, r), r) /\ Goes(m, ReleaseAdmission(m, r), r)
              /\ Idle(ReleaseAdmission(m, r), r)
         /\ Idle(m, r) => Goes(m, Admit(m, r), r) /\ Waiting(Admit(m, r), r)
<1>1. /\ Safe(Request, m, ReleaseLease(m, r))
      /\ r \notin InQueue(m) => Idle(ReleaseLease(m, r), r)
      /\ \A x : x # r => Undisturbed(m, ReleaseLease(m, r), x)
  BY ReleaseLeaseSafe, RequestAssumption
<1>2. Waiting(m, r) =>
        /\ Safe(Request, m, Acquire(m, r))
        /\ \A x : x # r => Undisturbed(m, Acquire(m, r), x)
  BY AcquireSafe, RequestAssumption
<1>3. Waiting(m, r) =>
        /\ Safe(Request, m, ReleaseAdmission(m, r)) /\ Idle(ReleaseAdmission(m, r), r)
        /\ \A x : x # r => Undisturbed(m, ReleaseAdmission(m, r), x)
  BY ReleaseAdmissionSafe, RequestAssumption
<1>4. Idle(m, r) =>
        /\ Fit(Request, Admit(m, r)) /\ Moves(Admit(m, r))
        /\ Grants(m, Admit(m, r)) /\ Admit(m, r).limit = m.limit
        /\ Waiting(Admit(m, r), r)
        /\ \A x : x # r => Undisturbed(m, Admit(m, r), x)
  BY AdmitSafe, RequestAssumption
<1> QED BY <1>1, <1>2, <1>3, <1>4 DEF Goes, Safe

\* A request that is admitted and asks at once.
LEMMA EnterGoes ==
  ASSUME NEW m, Fit(Request, m), Moves(m), NEW r \in Request, Idle(m, r)
  PROVE  Goes(m, Acquire(Admit(m, r), r), r)
<1> DEFINE k == Admit(m, r)
           n == Acquire(k, r)
<1>1. Goes(m, k, r) /\ Waiting(k, r)
  BY OperationsGo
<1> HIDE DEF k
<1>2. Goes(k, n, r)
  BY <1>1, OperationsGo DEF Goes
<1> HIDE DEF n
<1>3. Goes(m, n, r)
  BY <1>1, <1>2, Chain
<1> QED BY <1>3 DEF k, n

\* A seat is changed and the others stay.
LEMMA OneSeatGoes ==
  ASSUME Managed, NEW r, NEW a \in Account, NEW n, Goes(seats[a], n, r),
         seats' = [seats EXCEPT ![a] = n]
  PROVE  SeatsGo(r) /\ seats'[a] = n /\ \A b \in Account : b # a => seats'[b] = seats[b]
<1>1. n \in Manager(Request)
  BY DEF Goes, Fit
<1>2. /\ seats' \in [Account -> Manager(Request)] /\ seats'[a] = n
      /\ \A b \in Account : b # a => seats'[b] = seats[b]
  BY <1>1 DEF Managed
<1> QED BY <1>2, Stays DEF SeatsGo, Managed

\* A seat is given back.
LEMMA FreeSeatGoes ==
  ASSUME Managed, NEW r \in Request, NEW a \in Account, FreeSeat(r, a)
  PROVE  /\ SeatsGo(r)
         /\ r \notin InQueue(seats[a]) => Idle(seats'[a], r)
         /\ \A b \in Account : b # a => seats'[b] = seats[b]
<1> DEFINE n == ReleaseLease(seats[a], r)
<1>1. Goes(seats[a], n, r) /\ (r \notin InQueue(seats[a]) => Idle(n, r))
  BY OperationsGo DEF Managed
<1>2. seats' = [seats EXCEPT ![a] = n]
  BY DEF FreeSeat
<1> HIDE DEF n
<1> QED BY <1>1, <1>2, OneSeatGoes

\* A slot is given back.
LEMMA FreeSlotGoes ==
  ASSUME Managed, NEW r \in Request, slots' = ReleaseLease(slots, r)
  PROVE  /\ Goes(slots, slots', r)
         /\ r \notin InQueue(slots) => Idle(slots', r)
  BY OperationsGo DEF Managed

\* Whoever has a slot or a seat is not in the queue for it.
LEMMA ActiveNotQueued ==
  ASSUME NEW m, Fit(Request, m), NEW r, r \in m.active
  PROVE  r \notin InQueue(m)
  BY DEF Fit, InQueue

-----------------------------------------------------------------------------
(* Steps of the calls. *)

\* Nothing happens to a request but that a manager grants it what it asked for.
Quiet(x) ==
  /\ pc'[x] = pc[x] /\ candidate'[x] = candidate[x]
  /\ account'[x] = account[x] /\ status'[x] = status[x]
  /\ x \in running' <=> x \in running
  /\ x \in expiring' <=> x \in expiring
  /\ x \in leaked' <=> x \in leaked

\* A step for the sake of r.
StepFor(r) ==
  /\ ManagersGo(r)
  /\ \A x \in Request : x # r => Quiet(x)
  /\ Placed(r)'

\* Whoever is left alone stays where it is.
LEMMA OthersStay ==
  ASSUME SlotsInv, NEW r, ManagersGo(r), NEW x \in Request, x # r, Quiet(x)
  PROVE  Placed(x)'
<1>1. Placed(x) /\ Undisturbed(slots, slots', x)
      /\ \A a \in Account : Undisturbed(seats[a], seats'[a], x)
  BY DEF SlotsInv, ManagersGo, SeatsGo, Goes
<1>2. Lives(x)'
  BY <1>1 DEF Placed, Lives, Quiet, Exists
<1>3. InSlots(x)'
  BY <1>1 DEF Placed, InSlots, Quiet, Undisturbed, Idle, Holds
<1>4. ASSUME NEW a \in Account PROVE InSeat(x, a)'
  BY <1>1 DEF Placed, InSeat, Quiet, Undisturbed
<1> QED BY <1>2, <1>3, <1>4 DEF Placed

\* Such a step keeps the managers and everybody's place.
LEMMA StepForKeeps ==
  ASSUME SlotsInv, NEW r \in Request, StepFor(r)
  PROVE  Managed' /\ \A x \in Request : Placed(x)'
<1>1. Managed'
  BY DEF StepFor, ManagersGo, SeatsGo, Goes, Managed
<1> QED BY <1>1, OthersStay DEF StepFor

\* A call that is answered, and has no slot and no seat.
LEMMA AnswerLeaves ==
  ASSUME SlotsInv, NEW r \in Request, NEW what, Answer(r, what),
         Idle(slots', r), \A a \in Account : Idle(seats'[a], r),
         UNCHANGED <<status, account, running, expiring, leaked>>
  PROVE  Placed(r)' /\ \A x \in Request : x # r => Quiet(x)
<1>0. Placed(r) /\ CallTypeOK
  BY DEF SlotsInv, PointsInv, Typed
<1>1. pc'[r] = "done"
  BY <1>0 DEF Answer, Goto, CallTypeOK
<1>2. \A x \in Request : x # r => Quiet(x)
  BY <1>0 DEF Answer, Goto, CallTypeOK, Quiet
<1>3. Lives(r)'
  BY <1>0, <1>1 DEF Placed, Lives, Exists
<1>4. InSlots(r)'
  BY <1>1 DEF InSlots, Idle, Holds
<1>5. \A a \in Account : InSeat(r, a)'
  BY DEF InSeat
<1> QED BY <1>2, <1>3, <1>4, <1>5 DEF Placed

\* A call that turns to a candidate, asks for a slot and has no seat.
LEMMA TryWaits ==
  ASSUME SlotsInv, NEW r \in Request, NEW full,
         \E a \in First(others[r]) : Try(r, a, full),
         r \notin running \cup expiring,
         \A a \in Account : Idle(seats'[a], r),
         UNCHANGED <<status, account, running, expiring, leaked>>
  PROVE  Placed(r)' /\ \A x \in Request : x # r => Quiet(x)
<1>0. Placed(r) /\ CallTypeOK
  BY DEF SlotsInv, PointsInv, Typed
<1>1. pc'[r] = "waitSlot"
  BY <1>0 DEF Try, Goto, CallTypeOK
<1>2. \A x \in Request : x # r => Quiet(x)
  BY <1>0 DEF Try, Goto, CallTypeOK, Quiet
<1>3. Lives(r)'
  BY <1>0, <1>1 DEF Placed, Lives, Exists
<1>4. InSlots(r)'
  BY <1>1 DEF InSlots
<1>5. \A a \in Account : InSeat(r, a)'
  BY DEF InSeat
<1> QED BY <1>2, <1>3, <1>4, <1>5 DEF Placed

\* A call that drops a candidate and its slot has neither, or asks again.
LEMMA TryNextGoes ==
  ASSUME SlotsInv, NEW r \in Request, NEW full, TryNext(r, full),
         r \notin InQueue(slots), pc[r] # "done", SeatsGo(r),
         \A a \in Account : Idle(seats'[a], r),
         UNCHANGED <<status, account, running, expiring, leaked>>
  PROVE  StepFor(r)
<1> DEFINE freed == ReleaseLease(slots, r)
<1>1. Goes(slots, freed, r) /\ Idle(freed, r)
  BY OperationsGo DEF SlotsInv, Managed
<1>2. r \notin running \cup expiring
  BY DEF SlotsInv, Placed, Lives
<1>3. CASE slots' = freed /\ \E what \in {"queue_full", "no_account"} : Answer(r, what)
  <2>1. Idle(slots', r) /\ Goes(slots, slots', r)
    BY <1>1, <1>3
  <2>2. Placed(r)' /\ \A x \in Request : x # r => Quiet(x)
    BY <1>3, <2>1, AnswerLeaves
  <2> QED BY <2>1, <2>2 DEF StepFor, ManagersGo
<1>4. CASE /\ slots' = Acquire(Admit(freed, r), r)
           /\ \E a \in First(others[r]) : Try(r, a, full)
  <2> HIDE DEF freed
  <2>1. Goes(freed, slots', r)
    BY <1>1, <1>4, EnterGoes DEF Goes
  <2>2. Goes(slots, slots', r)
    BY <1>1, <2>1, Chain
  <2>3. Placed(r)' /\ \A x \in Request : x # r => Quiet(x)
    BY <1>2, <1>4, TryWaits
  <2> QED BY <2>2, <2>3 DEF StepFor, ManagersGo
<1> QED BY <1>3, <1>4 DEF TryNext

\* Before a request asks for a seat it has none.
LEMMA NoSeatYet ==
  ASSUME SlotsInv, NEW r \in Request,
         pc[r] \in {"new", "preparing", "evaluating", "waitSlot", "requeued"}
  PROVE  /\ \A a \in Account : Idle(seats[a], r)
         /\ r \notin running \cup expiring
  BY DEF SlotsInv, Placed, Lives, InSeat

\* The steps of a call before it has a slot.
LEMMA EarlyStepGoes ==
  ASSUME SlotsInv, NEW r \in Request,
         \/ Arrive(r) \/ PrepareFails(r) \/ LookUpKey(r)
         \/ \E a \in Account : LookAt(r, a)
         \/ Choose(r)
  PROVE  StepFor(r)
<1>0. /\ Placed(r) /\ CallTypeOK /\ Managed
      /\ UNCHANGED <<status, account, running, expiring, leaked, seats>>
  BY DEF SlotsInv, PointsInv, Typed, Settled, storeVars,
         Arrive, PrepareFails, LookUpKey, LookAt, Choose, managerVars
<1>1. pc[r] \in {"new", "preparing", "evaluating"}
  BY DEF Arrive, PrepareFails, LookUpKey, LookAt, Choose
<1>2. /\ \A a \in Account : Idle(seats[a], r) /\ Idle(seats'[a], r)
      /\ r \notin running \cup expiring
      /\ SeatsGo(r)
  BY <1>0, <1>1, NoSeatYet, SeatsStay
<1>3. ASSUME NEW what, Answer(r, what), Goes(slots, slots', r), Idle(slots', r)
      PROVE  StepFor(r)
  <2>1. Placed(r)' /\ \A x \in Request : x # r => Quiet(x)
    BY <1>0, <1>2, <1>3, AnswerLeaves
  <2> QED BY <1>2, <1>3, <2>1 DEF StepFor, ManagersGo
<1>4. ASSUME NEW label \in {"preparing", "evaluating"}, pc' = [pc EXCEPT ![r] = label],
             Goes(slots, slots', r), Waiting(slots', r), UNCHANGED candidate
      PROVE  StepFor(r)
  <2>1. pc'[r] = label /\ \A x \in Request : x # r => pc'[x] = pc[x]
    BY <1>0, <1>4 DEF CallTypeOK
  <2>2. \A x \in Request : x # r => Quiet(x)
    BY <1>0, <1>4, <2>1 DEF Quiet
  <2>3. Lives(r)'
    BY <1>0, <1>2, <2>1 DEF Placed, Lives, Exists
  <2>4. InSlots(r)'
    BY <1>4, <2>1 DEF InSlots
  <2>5. \A a \in Account : InSeat(r, a)'
    BY <1>2 DEF InSeat
  <2> QED BY <1>2, <1>4, <2>2, <2>3, <2>4, <2>5 DEF StepFor, ManagersGo, Placed
<1>5. UNCHANGED slots => Goes(slots, slots', r)
  BY <1>0, Stays DEF Managed
<1>6. ASSUME slots' = ReleaseAdmission(slots, r), pc[r] \in {"preparing", "evaluating"}
      PROVE  Goes(slots, slots', r) /\ Idle(slots', r)
  BY <1>0, <1>6, OperationsGo DEF Managed, Placed, InSlots
<1>7. CASE Arrive(r)
  <2>1. Idle(slots, r)
    BY <1>0, <1>7 DEF Placed, InSlots, Arrive
  <2>2. Goes(slots, Admit(slots, r), r) /\ Waiting(Admit(slots, r), r)
    BY <1>0, <2>1, OperationsGo DEF Managed
  <2>3. CASE Answer(r, "queue_full") /\ UNCHANGED slots
    BY <1>3, <1>5, <2>1, <2>3
  <2>4. CASE /\ Goto(r, "preparing") /\ slots' = Admit(slots, r)
             /\ UNCHANGED Memory
    BY <1>4, <2>2, <2>4 DEF Goto, Memory
  <2> QED BY <1>7, <2>3, <2>4 DEF Arrive
<1>8. CASE PrepareFails(r)
  BY <1>3, <1>6, <1>8 DEF PrepareFails
<1>9. CASE LookUpKey(r)
  <2>1. CASE /\ Goto(r, "evaluating") /\ UNCHANGED <<slots, Memory>>
    BY <1>0, <1>4, <1>5, <1>9, <2>1 DEF Goto, Memory, LookUpKey, Placed, InSlots
  <2>2. CASE /\ \E j \in SameKey(r) :
                   Answer(r, IF Matches(r, account[j], j) THEN j ELSE "conflict")
             /\ slots' = ReleaseAdmission(slots, r)
    BY <1>3, <1>6, <1>9, <2>2 DEF LookUpKey
  <2> QED BY <1>9, <2>1, <2>2 DEF LookUpKey
<1>10. ASSUME NEW a \in Account, LookAt(r, a) PROVE StepFor(r)
  <2>1. UNCHANGED <<slots, pc, candidate>> /\ pc[r] = "evaluating"
    BY <1>10 DEF LookAt, managerVars
  <2>2. pc' = [pc EXCEPT ![r] = "evaluating"]
    BY <2>1, <1>0 DEF CallTypeOK
  <2> QED BY <1>0, <1>4, <1>5, <2>1, <2>2 DEF Placed, InSlots
<1>11. CASE Choose(r)
  <2>1. CASE Answer(r, "no_account") /\ slots' = ReleaseAdmission(slots, r)
    BY <1>3, <1>6, <1>11, <2>1 DEF Choose
  <2>2. CASE /\ \E a \in First(others[r]) : Try(r, a, TRUE)
             /\ slots' = Acquire(slots, r)
    <3>1. Waiting(slots, r)
      BY <1>0, <1>11 DEF Choose, Placed, InSlots
    <3>2. Goes(slots, slots', r)
      BY <1>0, <2>2, <3>1, OperationsGo DEF Managed
    <3>3. Placed(r)' /\ \A x \in Request : x # r => Quiet(x)
      BY <1>0, <1>2, <2>2, TryWaits
    <3> QED BY <1>2, <3>2, <3>3 DEF StepFor, ManagersGo
  <2> QED BY <1>11, <2>1, <2>2 DEF Choose
<1> QED BY <1>7, <1>8, <1>9, <1>10, <1>11

\* A call with a seat gives it back and holds neither slot nor seat then, or
\* asks for the next slot.
LEMMA SeatedGivesBack ==
  ASSUME SlotsInv, NEW r \in Request, Seated(r), FreeSeat(r, candidate[r])
  PROVE  /\ SeatsGo(r) /\ \A a \in Account : Idle(seats'[a], r)
         /\ r \notin InQueue(slots)
<1>1. /\ pc[r] = "waitSeat" /\ r \in seats[candidate[r]].active
      /\ candidate[r] \in Account /\ Placed(r) /\ Managed
  BY DEF SlotsInv, PointsInv, Typed, HasCandidate, Seated
<1>2. r \notin InQueue(seats[candidate[r]])
  BY <1>1, ActiveNotQueued DEF Managed
<1>3. /\ SeatsGo(r) /\ Idle(seats'[candidate[r]], r)
      /\ \A b \in Account : b # candidate[r] => seats'[b] = seats[b]
  BY <1>1, <1>2, FreeSeatGoes
<1>4. \A b \in Account : b # candidate[r] => Idle(seats[b], r)
  BY <1>1 DEF Placed, Lives, InSeat
<1> QED BY <1>1, <1>3, <1>4 DEF Placed, InSlots

\* The steps of a call with a slot.
LEMMA SlotStepGoes ==
  ASSUME SlotsInv, NEW r \in Request,
         \/ TakeSeat(r) \/ ReserveFindsJob(r) \/ ReserveRefusedByPlan(r)
         \/ ReserveRefusedByAccount(r) \/ ReserveAtMidnight(r)
  PROVE  StepFor(r)
<1>0. /\ Placed(r) /\ CallTypeOK /\ HasCandidate /\ Managed
      /\ UNCHANGED <<status, account, running, expiring, leaked>>
  BY DEF SlotsInv, PointsInv, Typed, Settled, storeVars, TakeSeat, ReserveFindsJob,
         ReserveRefusedByPlan, ReserveRefusedByAccount, ReserveAtMidnight
<1>1. CASE TakeSeat(r)
  <2>1. pc[r] = "waitSlot" /\ r \in slots.active /\ candidate[r] \in Account
    BY <1>0, <1>1 DEF TakeSeat, HasCandidate
  <2>2. /\ \A a \in Account : Idle(seats[a], r)
        /\ r \notin running \cup expiring
    BY <2>1, NoSeatYet
  <2>3. CASE TryNext(r, allFull[r]) /\ UNCHANGED seats
    <3>1. SeatsGo(r) /\ \A a \in Account : Idle(seats'[a], r)
      BY <1>0, <2>2, <2>3, SeatsStay
    <3>2. r \notin InQueue(slots)
      BY <1>0, <2>1, ActiveNotQueued DEF Managed
    <3> QED BY <1>0, <2>1, <2>3, <3>1, <3>2, TryNextGoes
  <2>4. CASE AskForSeat(r, candidate[r])
    <3> DEFINE a == candidate[r]
               n == Acquire(Admit(seats[a], r), r)
    <3>1. Goes(seats[a], n, r)
      BY <1>0, <2>1, <2>2, EnterGoes DEF Managed
    <3>2. seats' = [seats EXCEPT ![a] = n] /\ UNCHANGED <<slots, candidate>>
          /\ pc' = [pc EXCEPT ![r] = "waitSeat"]
      BY <2>4 DEF AskForSeat, Memory, Goto
    <3> HIDE DEF n
    <3>3. SeatsGo(r) /\ \A b \in Account : b # a => seats'[b] = seats[b]
      BY <1>0, <2>1, <3>1, <3>2, OneSeatGoes
    <3>4. Goes(slots, slots', r) /\ r \notin InQueue(slots)
      BY <1>0, <2>1, <3>2, Stays, ActiveNotQueued DEF Managed
    <3>5. pc'[r] = "waitSeat" /\ \A x \in Request : x # r => pc'[x] = pc[x]
      BY <1>0, <3>2 DEF CallTypeOK
    <3>6. \A x \in Request : x # r => Quiet(x)
      BY <1>0, <3>2, <3>5 DEF Quiet
    <3>7. Lives(r)'
      BY <1>0, <2>2, <3>5 DEF Placed, Lives, Exists
    <3>8. InSlots(r)'
      BY <3>2, <3>4, <3>5 DEF InSlots
    <3>9. \A b \in Account : InSeat(r, b)'
      BY <2>2, <3>2, <3>3, <3>5 DEF InSeat
    <3> QED BY <3>3, <3>4, <3>6, <3>7, <3>8, <3>9 DEF StepFor, ManagersGo, Placed
  <2> QED BY <1>1, <2>3, <2>4 DEF TakeSeat
<1>2. ASSUME Seated(r), FreeSeat(r, candidate[r]), slots' = ReleaseLease(slots, r),
             NEW what, Answer(r, what)
      PROVE  StepFor(r)
  <2>1. /\ SeatsGo(r) /\ \A a \in Account : Idle(seats'[a], r)
        /\ r \notin InQueue(slots)
    BY <1>2, SeatedGivesBack
  <2>2. Goes(slots, slots', r) /\ Idle(slots', r)
    BY <1>0, <1>2, <2>1, FreeSlotGoes
  <2>3. Placed(r)' /\ \A x \in Request : x # r => Quiet(x)
    BY <1>0, <1>2, <2>1, <2>2, AnswerLeaves
  <2> QED BY <2>1, <2>2, <2>3 DEF StepFor, ManagersGo
<1>3. CASE ReserveFindsJob(r)
  BY <1>2, <1>3 DEF ReserveFindsJob
<1>4. CASE ReserveRefusedByPlan(r)
  BY <1>2, <1>4 DEF ReserveRefusedByPlan
<1>5. CASE ReserveAtMidnight(r)
  BY <1>2, <1>5 DEF ReserveAtMidnight
<1>6. CASE ReserveRefusedByAccount(r)
  <2>1. Seated(r) /\ FreeSeat(r, candidate[r]) /\ TryNext(r, FALSE)
    BY <1>6 DEF ReserveRefusedByAccount
  <2>2. /\ SeatsGo(r) /\ \A a \in Account : Idle(seats'[a], r)
        /\ r \notin InQueue(slots) /\ pc[r] # "done"
    BY <2>1, SeatedGivesBack DEF Seated
  <2> QED BY <2>1, <2>2, <1>0, TryNextGoes
<1> QED BY <1>1, <1>3, <1>4, <1>5, <1>6

\* A job gives back what it has.
LEMMA FreeBothGoes ==
  ASSUME SlotsInv, NEW r \in Request, pc[r] \in {"persisting", "done"}, Exists(r),
         FreeBoth(r)
  PROVE  /\ ManagersGo(r) /\ Idle(slots', r)
         /\ \A a \in Account : Idle(seats'[a], r)
<1>1. Managed /\ Placed(r) /\ account[r] \in Account
  BY DEF SlotsInv, Placed, Lives
<1>2. Goes(slots, slots', r) /\ Idle(slots', r)
  BY <1>1, FreeSlotGoes DEF FreeBoth, Placed, InSlots
<1>3. /\ r \notin InQueue(seats[account[r]])
      /\ \A a \in Account : a # account[r] => Idle(seats[a], r)
  BY <1>1 DEF Placed, InSeat, Idle
<1>4. /\ SeatsGo(r) /\ Idle(seats'[account[r]], r)
      /\ \A b \in Account : b # account[r] => seats'[b] = seats[b]
  BY <1>1, <1>3, FreeSeatGoes DEF FreeBoth
<1> QED BY <1>2, <1>3, <1>4 DEF ManagersGo

\* The steps of a call that has made a job, or found one after a restart.
LEMMA LateStepGoes ==
  ASSUME SlotsInv, NEW r \in Request,
         \/ ReserveCreates(r) \/ StartRunner(r) \/ PersistFails(r)
         \/ RequeuedTakesSeat(r) \/ RequeuedStarts(r)
  PROVE  StepFor(r)
<1>0. /\ Placed(r) /\ CallTypeOK /\ HasCandidate /\ StoreTypeOK /\ Managed
      /\ UNCHANGED expiring
  BY DEF SlotsInv, PointsInv, Typed, storeVars, ReserveCreates, Reserve, StartRunner,
         PersistFails, RequeuedTakesSeat, RequeuedStarts
<1>1. UNCHANGED slots => Goes(slots, slots', r)
  BY <1>0, Stays DEF Managed
<1>2. CASE ReserveCreates(r)
  <2>1. /\ pc[r] = "waitSeat" /\ r \in seats[candidate[r]].active
        /\ candidate[r] \in Account /\ r \notin running \cup expiring
    BY <1>0, <1>2 DEF ReserveCreates, Seated, HasCandidate, Placed, Lives
  <2>2. /\ UNCHANGED <<slots, seats, candidate, running, leaked>>
        /\ pc'[r] = "persisting" /\ account'[r] = candidate[r] /\ status'[r] = "queued"
        /\ \A x \in Request : x # r =>
             pc'[x] = pc[x] /\ account'[x] = account[x] /\ status'[x] = status[x]
    BY <1>0, <1>2 DEF ReserveCreates, Reserve, Goto, Memory, managerVars, CallTypeOK,
                      StoreTypeOK
  <2>3. ManagersGo(r)
    BY <1>0, <1>1, <2>2, SeatsStay DEF ManagersGo
  <2>4. \A x \in Request : x # r => Quiet(x)
    BY <1>0, <2>2 DEF Quiet
  <2>5. Lives(r)'
    BY <1>0, <2>1, <2>2 DEF Lives
  <2>6. InSlots(r)'
    BY <1>0, <2>1, <2>2 DEF Placed, InSlots
  <2>7. r \notin InQueue(seats[candidate[r]])
    BY <1>0, <2>1, ActiveNotQueued DEF Managed
  <2>8. \A a \in Account : InSeat(r, a)'
    BY <1>0, <2>1, <2>2, <2>7 DEF Placed, InSeat
  <2> QED BY <2>3, <2>4, <2>5, <2>6, <2>8 DEF StepFor, Placed
<1>3. CASE StartRunner(r)
  <2>1. /\ pc[r] = "persisting" /\ UNCHANGED <<slots, seats, status, account, leaked>>
        /\ pc'[r] = "done" /\ running' = running \cup {r}
        /\ \A x \in Request : x # r => pc'[x] = pc[x] /\ candidate'[x] = candidate[x]
    BY <1>0, <1>3 DEF StartRunner, Answer, Goto, managerVars, storeVars, CallTypeOK
  <2>2. ManagersGo(r)
    BY <1>0, <1>1, <2>1, SeatsStay DEF ManagersGo
  <2>3. \A x \in Request : x # r => Quiet(x)
    BY <1>0, <2>1 DEF Quiet
  <2>4. Lives(r)'
    BY <1>0, <2>1 DEF Placed, Lives, Exists
  <2>5. InSlots(r)'
    BY <1>0, <2>1 DEF Placed, InSlots
  <2>6. \A a \in Account : InSeat(r, a)'
    BY <1>0, <2>1 DEF Placed, InSeat
  <2> QED BY <2>2, <2>3, <2>4, <2>5, <2>6 DEF StepFor, Placed
<1>4. CASE PersistFails(r)
  <2>1. /\ pc[r] = "persisting" /\ UNCHANGED <<account, running>>
        /\ pc'[r] = "done" /\ status[r] \in {"queued", "failed"} /\ Exists(r)
        /\ \A x \in Request : x # r => pc'[x] = pc[x] /\ candidate'[x] = candidate[x]
    BY <1>0, <1>4 DEF PersistFails, FailAndRelease, Answer, Goto, storeVars, CallTypeOK,
                      Placed, Lives, Exists
  <2>2. CASE /\ FailAndRelease(r) /\ FreeSeat(r, account[r])
             /\ slots' = ReleaseLease(slots, r) /\ UNCHANGED leaked
    <3>1. /\ ManagersGo(r) /\ Idle(slots', r)
          /\ \A a \in Account : Idle(seats'[a], r)
      BY <2>1, <2>2, FreeBothGoes DEF FreeBoth
    <3>2. status'[r] = "failed" /\ \A x \in Request : x # r => status'[x] = status[x]
      BY <1>0, <2>2 DEF FailAndRelease, StoreTypeOK
    <3>3. \A x \in Request : x # r => Quiet(x)
      BY <1>0, <2>1, <2>2, <3>2 DEF Quiet
    <3>4. Lives(r)'
      BY <1>0, <2>1, <3>2 DEF Placed, Lives, Exists
    <3>5. InSlots(r)'
      BY <2>1, <3>1 DEF InSlots, Idle, Holds
    <3>6. \A a \in Account : InSeat(r, a)'
      BY <3>1 DEF InSeat
    <3> QED BY <3>1, <3>3, <3>4, <3>5, <3>6 DEF StepFor, Placed
  <2>3. CASE leaked' = leaked \cup {r} /\ UNCHANGED <<storeVars, managerVars>>
    <3>1. UNCHANGED <<slots, seats, status>>
      BY <2>3 DEF storeVars, managerVars
    <3>2. ManagersGo(r)
      BY <1>0, <1>1, <3>1, SeatsStay DEF ManagersGo
    <3>3. \A x \in Request : x # r => Quiet(x)
      BY <1>0, <2>1, <2>3, <3>1 DEF Quiet
    <3>4. Lives(r)'
      BY <1>0, <2>1, <3>1 DEF Placed, Lives, Exists
    <3>5. InSlots(r)'
      BY <1>0, <2>1, <2>3, <3>1 DEF Placed, InSlots
    <3>6. \A a \in Account : InSeat(r, a)'
      BY <1>0, <2>1, <2>3, <3>1 DEF Placed, InSeat
    <3> QED BY <3>2, <3>3, <3>4, <3>5, <3>6 DEF StepFor, Placed
  <2> QED BY <1>4, <2>2, <2>3 DEF PersistFails
<1>5. CASE RequeuedTakesSeat(r)
  <2>1. /\ pc[r] = "requeued" /\ r \in slots.active /\ Exists(r)
        /\ account[r] \in Account
        /\ UNCHANGED <<candidate, account, status, running>>
    BY <1>0, <1>5 DEF RequeuedTakesSeat, Memory, storeVars, Placed, Lives, Exists
  <2>2. /\ \A a \in Account : Idle(seats[a], r)
        /\ r \notin running \cup expiring
        /\ r \notin InQueue(slots)
    BY <1>0, <2>1, NoSeatYet, ActiveNotQueued DEF Managed
  <2>3. ASSUME NEW label \in {"done", "requeuedSeat"}, pc' = [pc EXCEPT ![r] = label],
               leaked' \in {leaked, leaked \cup {r}}
        PROVE  /\ \A x \in Request : x # r => Quiet(x)
               /\ Lives(r)' /\ pc'[r] = label
    <3>1. pc'[r] = label /\ \A x \in Request : x # r => pc'[x] = pc[x]
      BY <1>0, <2>3 DEF CallTypeOK
    <3>2. \A x \in Request : x # r => Quiet(x)
      BY <1>0, <2>1, <2>3, <3>1 DEF Quiet
    <3>3. Lives(r)'
      BY <1>0, <2>1, <2>2, <3>1 DEF Placed, Lives, Exists
    <3> QED BY <3>1, <3>2, <3>3
  <2>4. CASE /\ Goto(r, "done") /\ slots' = ReleaseLease(slots, r)
             /\ UNCHANGED <<seats, leaked>>
    <3>1. Goes(slots, slots', r) /\ Idle(slots', r)
      BY <1>0, <2>2, <2>4, FreeSlotGoes
    <3>2. SeatsGo(r)
      BY <1>0, <2>4, SeatsStay
    <3>3. InSlots(r)'
      BY <2>3, <2>4, <3>1 DEF Goto, InSlots, Idle, Holds
    <3>4. \A a \in Account : InSeat(r, a)'
      BY <2>2, <2>4 DEF InSeat
    <3> QED BY <2>3, <2>4, <3>1, <3>2, <3>3, <3>4 DEF Goto, StepFor, ManagersGo, Placed
  <2>5. CASE /\ Goto(r, "done") /\ leaked' = leaked \cup {r} /\ UNCHANGED managerVars
    <3>1. UNCHANGED <<slots, seats>>
      BY <2>5 DEF managerVars
    <3>2. ManagersGo(r)
      BY <1>0, <1>1, <3>1, SeatsStay DEF ManagersGo
    <3>3. InSlots(r)'
      BY <2>2, <2>3, <2>5, <3>1 DEF Goto, InSlots
    <3>4. \A a \in Account : InSeat(r, a)'
      BY <2>2, <3>1 DEF InSeat
    <3> QED BY <2>3, <2>5, <3>2, <3>3, <3>4 DEF Goto, StepFor, Placed
  <2>6. CASE /\ Goto(r, "requeuedSeat")
             /\ seats' = [seats EXCEPT ![account[r]] = Acquire(Admit(@, r), r)]
             /\ UNCHANGED <<slots, leaked>>
    <3> DEFINE a == account[r]
               n == Acquire(Admit(seats[a], r), r)
    <3>1. Goes(seats[a], n, r)
      BY <1>0, <2>1, <2>2, EnterGoes DEF Managed
    <3>2. seats' = [seats EXCEPT ![a] = n]
      BY <2>6
    <3> HIDE DEF n
    <3>3. SeatsGo(r) /\ \A b \in Account : b # a => seats'[b] = seats[b]
      BY <1>0, <2>1, <3>1, <3>2, OneSeatGoes
    <3>4. InSlots(r)'
      BY <2>2, <2>3, <2>6 DEF Goto, InSlots
    <3>5. \A b \in Account : InSeat(r, b)'
      BY <2>1, <2>2, <2>3, <2>6, <3>3 DEF Goto, InSeat
    <3> QED BY <1>1, <2>3, <2>6, <3>3, <3>4, <3>5 DEF Goto, StepFor, ManagersGo, Placed
  <2> QED BY <1>5, <2>4, <2>5, <2>6 DEF RequeuedTakesSeat
<1>6. CASE RequeuedStarts(r)
  <2>1. /\ pc[r] = "requeuedSeat" /\ r \in seats[account[r]].active
        /\ UNCHANGED <<slots, seats, status, account, candidate, leaked>>
        /\ pc'[r] = "done" /\ running' = running \cup {r}
        /\ \A x \in Request : x # r => pc'[x] = pc[x]
    BY <1>0, <1>6 DEF RequeuedStarts, Goto, Memory, managerVars, storeVars, CallTypeOK
  <2>2. ManagersGo(r)
    BY <1>0, <1>1, <2>1, SeatsStay DEF ManagersGo
  <2>3. \A x \in Request : x # r => Quiet(x)
    BY <1>0, <2>1 DEF Quiet
  <2>4. Lives(r)'
    BY <1>0, <2>1 DEF Placed, Lives, Exists
  <2>5. InSlots(r)'
    BY <1>0, <2>1 DEF Placed, InSlots
  <2>6. \A a \in Account : r \in seats[a].active => r \notin InQueue(seats[a])
    BY <1>0, ActiveNotQueued DEF Managed
  <2>7. \A a \in Account : InSeat(r, a)'
    BY <1>0, <2>1, <2>6 DEF Placed, InSeat
  <2> QED BY <2>2, <2>3, <2>4, <2>5, <2>7 DEF StepFor, Placed
<1> QED BY <1>2, <1>3, <1>4, <1>5, <1>6

-----------------------------------------------------------------------------
(* Steps of the jobs. *)

\* What becomes of a job while it keeps what it has.
LEMMA JobStepGoes ==
  ASSUME SlotsInv, NEW r \in Request,
         \/ Submit(r) \/ ChargeSubmitted(r) \/ Follow(r) \/ Lose(r)
         \/ Reconcile(r) \/ Cancel(r)
  PROVE  StepFor(r)
<1>1. /\ UNCHANGED <<slots, seats, pc, candidate, account, running, leaked>>
      /\ Placed(r) /\ StoreTypeOK /\ Managed
  BY DEF SlotsInv, PointsInv, Typed, Submit, ChargeSubmitted, Follow, Lose, Reconcile,
         Cancel, FailAndRelease, managerVars, requestVars
<1>2. ManagersGo(r)
  BY <1>1, Stays, SeatsStay DEF ManagersGo, Managed
<1>3. \A x \in Request : x # r =>
        status'[x] = status[x] /\ (x \in expiring' <=> x \in expiring)
  BY <1>1 DEF Submit, ChargeSubmitted, Follow, Lose, Reconcile, Cancel, FailAndRelease,
              StoreTypeOK
<1>4. \A x \in Request : x # r => Quiet(x)
  BY <1>1, <1>3 DEF Quiet
<1>5. \/ /\ r \in running
         /\ status'[r] \in {"submitting", "processing", "unknown"}
         /\ \/ expiring' = expiring /\ r \notin expiring
            \/ r \notin expiring'
            \/ status'[r] = "unknown"
         /\ expiring' \cup {r} = expiring \cup {r}
      \/ /\ r \notin running \cup expiring /\ status[r] = "unknown"
         /\ \/ status'[r] \in {"completed", "failed"} /\ r \notin expiring'
            \/ status'[r] = "unknown"
      \/ /\ status[r] = "queued" /\ status'[r] = "failed" /\ UNCHANGED expiring
  BY <1>1 DEF Submit, ChargeSubmitted, Follow, Lose, Reconcile, Cancel, FailAndRelease,
              StoreTypeOK, Placed, Lives
<1>6. /\ Lives(r)'
      /\ r \in running \/ (r \in expiring => r \in expiring')
  <2>1. CASE r \in running
    BY <1>1, <1>5, <2>1 DEF Placed, Lives, Exists
  <2>2. CASE r \notin running /\ status[r] = "unknown"
    <3>1. pc[r] \notin {"persisting", "requeued", "requeuedSeat"} /\ Exists(r)
      BY <1>1, <2>2 DEF Placed, Lives, Exists
    <3>2. pc[r] = "done"
      <4>1. Unborn(r)
        BY DEF SlotsInv, PointsInv
      <4> QED BY <1>1, <3>1, <4>1
              DEF Unborn, Early, SlotsInv, PointsInv, Typed, CallTypeOK, Label
    <3> QED BY <1>1, <1>5, <2>2, <3>1, <3>2 DEF Placed, Lives, Exists
  <2>3. CASE r \notin running /\ status[r] = "queued"
    BY <1>1, <1>5, <2>3 DEF Placed, Lives, Exists
  <2> QED BY <1>5, <2>1, <2>2, <2>3
<1>7. InSlots(r)'
  BY <1>1, <1>6 DEF Placed, InSlots
<1>8. \A a \in Account : InSeat(r, a)'
  BY <1>1 DEF Placed, InSeat
<1> QED BY <1>2, <1>4, <1>6, <1>7, <1>8 DEF StepFor, Placed

\* A job that ends or is left to the reconciler gives back what it has.
LEMMA GiveBackGoes ==
  ASSUME SlotsInv, NEW r \in Request,
         \/ FailBeforeTask(r) \/ HandOver(r) \/ Finish(r) \/ Stop(r) \/ HoldExpires(r)
  PROVE  StepFor(r)
<1>1. /\ UNCHANGED <<pc, candidate, account, leaked>> /\ running' = running \ {r}
      /\ FreeBoth(r) /\ r \in running \cup expiring
      /\ Placed(r) /\ StoreTypeOK
  BY
     DEF SlotsInv, PointsInv, Typed, FailBeforeTask, HandOver, Finish, Stop,
         HoldExpires,
         FailAndRelease, requestVars, storeVars
<1>2. pc[r] = "done" /\ Exists(r)
  BY <1>1 DEF Placed, Lives, Exists
<1>3. /\ ManagersGo(r) /\ Idle(slots', r)
      /\ \A a \in Account : Idle(seats'[a], r)
  BY <1>1, <1>2, FreeBothGoes
<1>4. \A x \in Request : x # r =>
        status'[x] = status[x] /\ (x \in expiring' <=> x \in expiring)
  BY <1>1 DEF FailBeforeTask, HandOver, Finish, Stop, HoldExpires, FailAndRelease,
              storeVars, StoreTypeOK
<1>5. \A x \in Request : x # r => Quiet(x)
  BY <1>1, <1>4 DEF Quiet
<1>6. r \in expiring' => status'[r] = "unknown"
  BY <1>1 DEF FailBeforeTask, HandOver, Finish, Stop, HoldExpires, FailAndRelease,
              storeVars, StoreTypeOK, Placed, Lives
<1>7. Lives(r)'
  BY <1>1, <1>2, <1>6 DEF Placed, Lives
<1>8. InSlots(r)'
  BY <1>1, <1>2, <1>3 DEF InSlots, Idle, Holds
<1>9. \A a \in Account : InSeat(r, a)'
  BY <1>3 DEF InSeat
<1> QED BY <1>3, <1>5, <1>7, <1>8, <1>9 DEF StepFor, Placed

\* A ruling takes the slot back, and the seat when it is to be had.
LEMMA ResolveGoes ==
  ASSUME SlotsInv, NEW r \in Request, Resolve(r)
  PROVE  StepFor(r)
<1>1. /\ UNCHANGED <<pc, candidate, account, running, leaked>>
      /\ expiring' = expiring \ {r} /\ slots' = ReleaseLease(slots, r)
      /\ status[r] = "unknown" /\ status' = [status EXCEPT ![r] = "failed"]
      /\ FreeSeat(r, account[r]) \/ UNCHANGED seats
      /\ Placed(r) /\ StoreTypeOK /\ Managed
  BY DEF SlotsInv, PointsInv, Typed, Resolve, ResolveUnknown, requestVars
<1>2. /\ pc[r] = "done" /\ account[r] \in Account
      /\ status'[r] = "failed" /\ \A x \in Request : x # r => status'[x] = status[x]
  <2>1. pc[r] \notin {"persisting", "requeued", "requeuedSeat"} /\ Exists(r)
    BY <1>1 DEF Placed, Lives, Exists
  <2>2. Unborn(r) /\ pc[r] \in Label
    BY DEF SlotsInv, PointsInv, Typed, CallTypeOK
  <2> QED BY <1>1, <2>1, <2>2 DEF Placed, Lives, Unborn, Early, Label, StoreTypeOK
<1>3. Goes(slots, slots', r) /\ Idle(slots', r)
  BY <1>1, <1>2, FreeSlotGoes DEF Placed, InSlots
<1>4. SeatsGo(r)
  BY <1>1, <1>2, FreeSeatGoes, SeatsStay
<1>5. \A x \in Request : x # r => Quiet(x)
  BY <1>1, <1>2 DEF Quiet
<1>6. Lives(r)'
  BY <1>1, <1>2 DEF Placed, Lives, Exists
<1>7. InSlots(r)'
  BY <1>1, <1>2, <1>3 DEF InSlots, Idle, Holds
<1>8. \A a \in Account : InSeat(r, a)'
  <2>1. CASE UNCHANGED seats
    BY <1>1, <1>2, <2>1 DEF Placed, InSeat
  <2>2. CASE FreeSeat(r, account[r])
    <3>1. r \notin InQueue(seats[account[r]])
      BY <1>1, <1>2 DEF Placed, InSeat, Idle
    <3>2. /\ Idle(seats'[account[r]], r)
          /\ \A b \in Account : b # account[r] => seats'[b] = seats[b]
      BY <1>1, <1>2, <2>2, <3>1, FreeSeatGoes
    <3> QED BY <1>1, <1>2, <3>2 DEF Placed, InSeat
  <2> QED BY <1>1, <2>1, <2>2
<1> QED BY <1>3, <1>4, <1>5, <1>6, <1>7, <1>8 DEF StepFor, ManagersGo, Placed

\* The managers know nothing of settings and of the clock.
LEMMA SettingGoes ==
  ASSUME SlotsInv,
         \/ \E a \in Account : Toggle(a) \/ SetLimit(a)
         \/ \E p \in Project : Assign(p)
         \/ Midnight \/ UNCHANGED vars
  PROVE  UNCHANGED managerVars /\ Managed' /\ \A x \in Request : Placed(x)'
<1>1. UNCHANGED <<slots, seats, pc, candidate, account, status, running, expiring, leaked>>
  BY DEF Toggle, SetLimit, Assign, Midnight, vars, storeVars, managerVars, requestVars
<1>2. Managed'
  BY <1>1 DEF SlotsInv, Managed
<1>3. ASSUME NEW x \in Request PROVE Placed(x)'
  <2>1. Placed(x)
    BY DEF SlotsInv
  <2>2. Lives(x)' /\ InSlots(x)'
    BY <1>1, <2>1 DEF Placed, Lives, InSlots, Exists
  <2>3. \A a \in Account : InSeat(x, a)'
    BY <1>1, <2>1 DEF Placed, InSeat
  <2> QED BY <2>2, <2>3 DEF Placed
<1> QED BY <1>1, <1>2, <1>3 DEF managerVars

-----------------------------------------------------------------------------
(* The start after a kill. *)

\* What is taken from an order of jobs is some of them, each once.
LEMMA TakeFacts ==
  ASSUME NEW jobs \in SUBSET Request, NEW q \in Orders(jobs), NEW n \in Nat
  PROVE  /\ Take(q, n) \in Seq(Request) /\ Distinct(Take(q, n))
         /\ Elements(Take(q, n)) \subseteq jobs
<1> DEFINE L == Cardinality(jobs)
           c == IF L < n THEN L ELSE n
<1>1. L \in Nat
  BY RequestAssumption, FS_Subset, FS_CardinalityType
<1>2. /\ q \in [1..L -> jobs] /\ \A i, k \in 1..L : i # k => q[i] # q[k]
      /\ q \in Seq(jobs) /\ Len(q) = L
  <2>1. q \in [1..L -> jobs] /\ \A i, k \in DOMAIN q : i # k => q[i] # q[k]
    BY DEF Orders
  <2> HIDE DEF L
  <2>2. q \in Seq(jobs) /\ Len(q) = L
    BY <1>1, <2>1
  <2> QED BY <2>1, <2>2
<1> HIDE DEF L
<1>3. c \in 0..L
  BY <1>1
<1>4. Take(q, n) = SubSeq(q, 1, c)
  BY <1>2 DEF Take
<1> HIDE DEF c
<1>5. /\ SubSeq(q, 1, c) \in Seq(jobs) /\ Len(SubSeq(q, 1, c)) = c
      /\ \A i \in 1..c : SubSeq(q, 1, c)[i] = q[i] /\ i \in 1..L
  BY <1>1, <1>2, <1>3
<1>6. DOMAIN SubSeq(q, 1, c) = 1..c
  BY <1>5
<1>7. SubSeq(q, 1, c) \in Seq(Request)
  BY <1>5
<1> QED BY <1>2, <1>4, <1>5, <1>6, <1>7 DEF Distinct, Elements

\* The queued jobs ask again, those that may have been submitted have their
\* slots and seats, and nobody else has any.
LEMMA RestartGoes ==
  ASSUME SlotsInv, Restart
  PROVE  Managed' /\ \A x \in Request : Placed(x)'
<1>1. PICK n \in SlotLimits, gone \in SUBSET {a \in Account : ~open[a]},
           order \in Orders({r \in Request : status[r] = "queued"}) :
             Recover(n, order, gone)
  BY DEF Restart
<1> DEFINE queued == {r \in Request : status[r] = "queued"}
           admitted == Take(order, n + Room)
           requeued == Elements(admitted)
           back == {r \in Request : \/ status[r] \in {"submitting", "processing"}
                                    \/ status[r] = "unknown" /\ r \in expiring}
           stray == {r \in back : account[r] \in gone}
           m == [limit |-> n, queue |-> admitted, asking |-> requeued, active |-> {}]
           on(a) == {r \in back \ stray : account[r] = a}
<1>2. n \in Nat \ {0} /\ n + Room \in Nat
  BY SlotAssumption, RoomAssumption
<1>3. /\ admitted \in Seq(Request) /\ Distinct(admitted)
      /\ requeued \subseteq queued
  BY <1>2, TakeFacts
<1>4. /\ slots' = Restore(Pump(m), back)
      /\ seats' = [a \in Account |-> Restore(Empty(n), on(a))]
      /\ running' = back \ stray
      /\ expiring' = expiring \cup stray
      /\ \A r \in Request :
           /\ status'[r] = IF r \in stray THEN "unknown"
                           ELSE IF r \in back /\ status[r] = "submitting"
                           THEN "processing" ELSE status[r]
           /\ pc'[r] = IF r \in requeued THEN "requeued"
                       ELSE IF pc[r] = "new" THEN "new" ELSE "done"
  BY <1>1 DEF Recover, Elements
<1>5. UNCHANGED account
  BY DEF Restart
<1>6. back \cap queued = {} /\ back \subseteq Request
  OBVIOUS
<1> HIDE DEF queued, admitted, requeued, back, stray
<1>7. Fit(Request, m) /\ InQueue(m) = requeued /\ m.active = {}
  <2>1. m \in Manager(Request)
    BY <1>2, <1>3 DEF Manager, requeued, Elements
  <2>2. m.queue = admitted /\ m.asking = requeued /\ m.active = {}
    OBVIOUS
  <2> HIDE DEF m
  <2>3. InQueue(m) = requeued
    BY <2>2 DEF InQueue, requeued, Elements
  <2> QED BY <1>3, <2>1, <2>2, <2>3 DEF Fit, Distinct
<1> HIDE DEF m
<1>8. Fit(Request, Pump(m)) /\ \A r : Undisturbed(m, Pump(m), r)
  BY <1>7, PumpFit, RequestAssumption
<1>9. back \cap InQueue(Pump(m)) = {}
  <2>1. \A r \in back : r \notin InQueue(m)
    BY <1>3, <1>6, <1>7
  <2> QED BY <1>8, <2>1 DEF Undisturbed
<1>10. /\ Fit(Request, slots') /\ Moves(slots')
       /\ \A r \in back : r \notin InQueue(slots')
       /\ \A r : r \notin back => Undisturbed(Pump(m), slots', r)
  BY <1>4, <1>6, <1>8, <1>9, RestoreSafe, RequestAssumption
<1>11. \A r : r \notin back \cup requeued => Idle(slots', r)
  BY <1>7, <1>8, <1>10 DEF Undisturbed, Idle
<1>12. ASSUME NEW a \in Account
       PROVE  /\ Fit(Request, seats'[a]) /\ Moves(seats'[a])
              /\ \A r \in on(a) : r \notin InQueue(seats'[a])
              /\ \A r : r \notin on(a) => Idle(seats'[a], r)
  <2>1. /\ Fit(Request, Empty(n)) /\ \A r : Idle(Empty(n), r)
        /\ seats'[a] = Restore(Empty(n), on(a))
    BY <1>2, <1>4, EmptyFit
  <2>2. on(a) \in SUBSET Request /\ on(a) \cap InQueue(Empty(n)) = {}
    BY <1>6, <2>1 DEF Idle
  <2> HIDE DEF on
  <2> QED BY <2>1, <2>2, RestoreSafe, RequestAssumption DEF Undisturbed
<1>13. Managed'
  <2>1. \A a \in Account : seats'[a] \in Manager(Request)
    BY <1>12 DEF Fit
  <2>2. seats' = [a \in Account |-> seats'[a]]
    BY <1>4
  <2> QED BY <1>10, <1>12, <2>1, <2>2 DEF Managed
<1>14. ASSUME NEW r \in Request PROVE Placed(r)'
  <2>1. Placed(r) /\ Unborn(r) /\ pc[r] \in Label
    BY DEF SlotsInv, PointsInv, Typed, CallTypeOK
  <2>2. r \in back => pc[r] = "done" /\ Exists(r)
    BY <2>1 DEF Placed, Lives, Exists, Unborn, Early, Label, back
  <2>3. Exists(r)' <=> Exists(r)
    BY <1>4, <2>2 DEF Exists, stray
  <2>4. r \in back => r \notin requeued
    BY <1>3, <1>6
  <2>5. Lives(r)'
    <3>1. pc'[r] = "requeued" => status'[r] = "queued"
      BY <1>3, <1>4, <2>4 DEF queued, stray
    <3>2. r \in expiring' => pc'[r] = "done" /\ status'[r] = "unknown"
      BY <1>4, <2>1, <2>2, <2>4 DEF Placed, Lives, back, stray
    <3>3. r \in running' => pc'[r] = "done" /\ Exists(r)'
      BY <1>4, <2>2, <2>3, <2>4
    <3> QED BY <1>4, <1>5, <2>1, <2>3, <3>1, <3>2, <3>3 DEF Placed, Lives
  <2>6. InSlots(r)'
    <3>1. CASE r \in back
      BY <1>4, <1>10, <2>2, <2>4, <3>1 DEF InSlots
    <3>2. CASE r \in requeued
      BY <1>4, <3>2 DEF InSlots
    <3>3. CASE r \notin back \cup requeued
      BY <1>4, <1>11, <3>3 DEF InSlots, Idle, Holds
    <3> QED BY <3>1, <3>2, <3>3
  <2>7. \A a \in Account : InSeat(r, a)'
    BY <1>4, <1>5, <1>12, <2>2, <2>4 DEF InSeat
  <2> QED BY <2>5, <2>6, <2>7 DEF Placed
<1> QED BY <1>13, <1>14

-----------------------------------------------------------------------------
(* The theorems. *)

\* Every step but a restart is for the sake of one request, or of none.
LEMMA StepGoes ==
  ASSUME SlotsInv, [Next]_vars
  PROVE  \/ \E r \in Request : StepFor(r)
         \/ UNCHANGED managerVars /\ Managed' /\ \A x \in Request : Placed(x)'
         \/ Restart
  BY EarlyStepGoes, SlotStepGoes, LateStepGoes, JobStepGoes, GiveBackGoes, ResolveGoes,
     SettingGoes DEF Next, Call, Runner

\* The managers start empty.
LEMMA SlotsInit ==
  ASSUME Init
  PROVE  SlotsInv
<1>1. PICK n \in SlotLimits : slots = Empty(n) /\ seats = [a \in Account |-> Empty(n)]
  BY DEF Init
<1>2. n \in Nat \ {0}
  BY SlotAssumption
<1>3. Fit(Request, Empty(n)) /\ Moves(Empty(n)) /\ \A r : Idle(Empty(n), r)
  BY <1>2, EmptyFit
<1>4. Managed
  BY <1>1, <1>3 DEF Managed, Fit
<1>5. ASSUME NEW r \in Request PROVE Placed(r)
  <2>1. pc[r] = "new" /\ ~Exists(r) /\ r \notin running \cup expiring
    BY DEF Init, Exists
  <2>2. Idle(slots, r) /\ \A a \in Account : Idle(seats[a], r)
    BY <1>1, <1>3
  <2> QED BY <2>1, <2>2 DEF Placed, Lives, InSlots, InSeat
<1> QED BY <1>4, <1>5, PointsInit DEF SlotsInv

\* Every step of the scheduler, of the recovery and of the jobs keeps the
\* inductive invariant.
THEOREM SlotsInvariant == Spec => []SlotsInv
<1>1. Init => SlotsInv
  BY SlotsInit
<1>2. SlotsInv /\ [Next]_vars => SlotsInv'
  <2>1. SUFFICES ASSUME SlotsInv, [Next]_vars PROVE SlotsInv'
    OBVIOUS
  <2>2. PointsInv'
    BY <2>1, PointsStep DEF SlotsInv
  <2>3. Managed' /\ \A x \in Request : Placed(x)'
    BY <2>1, StepGoes, StepForKeeps, RestartGoes
  <2> QED BY <2>2, <2>3 DEF SlotsInv
<1> QED BY <1>1, <1>2, PTL DEF Spec

\* Every variable of the scheduler, the managers and the tables has its type.
THEOREM TypeCorrect == Spec => []TypeOK
<1>1. SlotsInv => TypeOK
  BY DEF SlotsInv, PointsInv, Typed, Managed, Fit, CallTypeOK, TypeOK
<1> QED BY <1>1, SlotsInvariant, PTL

\* No wake-up is lost, at the gateway or at an account: whoever is first in a
\* queue and has asked gets a free slot at once (jobs/capacity.ts:296-316).
THEOREM QueuesMove == Spec => []QueueMoves
<1>1. SlotsInv => QueueMoves
  BY DEF SlotsInv, Managed, QueueMoves
<1> QED BY <1>1, SlotsInvariant, PTL

\* No path of the scheduler or of the recovery leaves a slot or a seat behind but
\* the two recorded ones (accounts/scheduler.ts:149-327).
THEOREM EverySlotIsOwned == Spec => []SlotsAreOwned
<1>1. SlotsInv => SlotsAreOwned
  <2>1. SUFFICES ASSUME SlotsInv, NEW r \in Request
                 PROVE  /\ r \in slots.active =>
                             \/ pc[r] \in {"waitSlot", "waitSeat", "persisting",
                                           "requeued", "requeuedSeat"}
                             \/ r \in running \cup expiring \cup leaked
                        /\ \A a \in Account : r \in seats[a].active =>
                             \/ pc[r] = "waitSeat" /\ a = candidate[r]
                             \/ pc[r] \in {"persisting", "requeuedSeat"} /\ a = account[r]
                             \/ r \in running \cup leaked /\ a = account[r]
    BY DEF SlotsAreOwned
  <2>2. Placed(r) /\ pc[r] \in Label /\ Fit(Request, slots)
    BY <2>1 DEF SlotsInv, PointsInv, Typed, CallTypeOK, Managed
  <2>3. r \in slots.active => ~Idle(slots, r) /\ ~Waiting(slots, r)
    BY <2>2, ActiveNotQueued DEF Idle, Waiting
  <2> QED BY <2>2, <2>3 DEF Placed, InSlots, InSeat, Holds, Idle, Label
<1> QED BY <1>1, SlotsInvariant, PTL

\* No grant goes above the limit, whatever a restart has restored
\* (jobs/capacity.ts:296-316).
THEOREM GrantsFit == Spec => GrantsFitLimit
<1>1. SlotsInv /\ [Next]_vars =>
        [\/ Restart
         \/ Grants(slots, slots') /\ \A a \in Account : Grants(seats[a], seats'[a])]_vars
  <2>1. SUFFICES ASSUME SlotsInv, [Next]_vars, ~Restart
                 PROVE  Grants(slots, slots')
                        /\ \A a \in Account : Grants(seats[a], seats'[a])
    OBVIOUS
  <2>2. CASE \E r \in Request : StepFor(r)
    BY <2>2 DEF StepFor, ManagersGo, SeatsGo, Goes
  <2>3. CASE UNCHANGED managerVars
    BY <2>3 DEF managerVars, Grants
  <2> QED BY <2>1, <2>2, <2>3, StepGoes
<1> QED BY <1>1, SlotsInvariant, PTL DEF Spec, GrantsFitLimit
=============================================================================
