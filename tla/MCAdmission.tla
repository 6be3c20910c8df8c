----------------------------- MODULE MCAdmission ----------------------------
(* Admission with three requests, two accounts and one project.            *)
EXTENDS Admission, TLC

CONSTANTS k1

\* Calls without a key; and calls under one key, one of them for another
\* payload that has no quote.
Keyless == {[key |-> NoKey, payload |-> "this", quote |-> 2]}
KeylessOrKeyed ==
  Keyless \cup {[key |-> k1, payload |-> "this", quote |-> 2],
              [key |-> k1, payload |-> "that", quote |-> NoQuote]}

OneProject == [r \in Request |-> "project"]
OneModel == [a \in Account |-> "model"]
OnePriority == [a \in Account |-> 1]

Unlimited   == [day |-> 0, month |-> 0]
ThreeADay   == [day |-> 3, month |-> 0]
ThreeAMonth == [day |-> 0, month |-> 3]
NoPlanLimit == [day |-> 0, month |-> 0, running |-> 0, queued |-> 0]
ThreeForAll == [day |-> 3, month |-> 0, running |-> 0, queued |-> 1]

DayOrMonth == {ThreeADay, ThreeAMonth}
NoLimits == {Unlimited}
FreePlan == {NoPlanLimit}
TightPlans == {NoPlanLimit, ThreeForAll}

Interchangeable == Permutations(Request) \cup Permutations(Account)
=============================================================================
