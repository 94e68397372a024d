-------------------------- MODULE RetryReadProofs --------------------------
(***************************************************************************)
(* The bounds of RetryRead for every timeout, budget, first wait and       *)
(* number of requests.                                                     *)
(***************************************************************************)
EXTENDS RetryRead, TLAPS

\* One more request adds one timeout, and the requests answered so far cost at
\* most what all of them cost.
LEMMA RequestCost ==
  ASSUME NEW s \in Nat, NEW r \in Nat, NEW t \in Nat, s < r
  PROVE  /\ s * t \in Nat /\ r * t \in Nat
         /\ (s + 1) * t = s * t + t
         /\ (s + 1) * t <= r * t
<1>1. s * t \in Nat /\ r * t \in Nat /\ (s + 1) * t = s * t + t
  OBVIOUS
<1>2. PICK k \in Nat : r = (s + 1) + k
  <2>1. r - (s + 1) \in Nat /\ r = (s + 1) + (r - (s + 1))
    OBVIOUS
  <2> QED
    BY <2>1
<1>3. r * t = (s + 1) * t + k * t /\ k * t \in Nat /\ (s + 1) * t \in Nat
  BY <1>2
<1> QED
  BY <1>1, <1>3

\* The settings and the size of a call.
LEMMA CallType ==
  ASSUME call \in [kind : Kinds, requests : Requests, timeout : Timeouts,
                   budget : Budgets]
  PROVE  /\ call.requests \in Nat \ {0} /\ call.timeout \in Nat \ {0}
         /\ call.budget \in Nat /\ call.kind \in Kinds
         /\ Slack <= call.timeout
         /\ call.requests * call.timeout \in Nat
         /\ call.timeout <= call.requests * call.timeout
<1>1. /\ call.requests \in Nat \ {0} /\ call.timeout \in Nat \ {0}
      /\ call.budget \in Nat /\ call.kind \in Kinds /\ Slack <= call.timeout
  BY RetryAssumption
<1>2. 0 < call.requests
  BY <1>1
<1> QED
  BY <1>1, <1>2, RequestCost

-----------------------------------------------------------------------------
\* The inductive invariant holds initially.
LEMMA InitIInv == Init => IInv
<1> SUFFICES ASSUME Init PROVE IInv
  OBVIOUS
<1> USE RetryAssumption DEF Init
<1>1. /\ call.requests \in Nat \ {0} /\ call.timeout \in Nat \ {0}
      /\ call.budget \in Nat /\ call.requests * call.timeout \in Nat
      /\ 0 * call.timeout = 0
  BY CallType
<1> QED
  BY <1>1 DEF IInv, TypeOK, ClockInv, EffectInv, WithinBudget,
              WriteTakesEffectOnce, GivesUpOnlyWhenSpent, Kinds

\* A request is answered: it took at most one timeout.
LEMMA AnsweredIInv ==
  ASSUME IInv, NEW d \in 0..call.timeout, Answered(d)
  PROVE  IInv'
<1> USE DEF IInv, Answered
<1>1. /\ call.requests \in Nat \ {0} /\ call.timeout \in Nat \ {0}
      /\ call.budget \in Nat /\ call.kind \in Kinds
      /\ sent \in Nat /\ now \in Nat /\ began \in Nat /\ d \in Nat
  BY CallType DEF TypeOK
<1>2. /\ sent < call.requests
      /\ now + d <= began + sent * call.timeout + call.timeout
  BY <1>1, RequestCost DEF ClockInv
<1>3. now + d <= began + (sent + 1) * call.timeout
  BY <1>1, <1>2, RequestCost
<1>4. now + d <= call.requests * call.timeout + call.budget
  BY <1>1, <1>2, <1>3, RequestCost DEF ClockInv
<1>5. TypeOK'
  BY <1>1, <1>2 DEF TypeOK, LastRequest, WriteTakesEffectOnce
<1>6. ClockInv'
  <2>1. /\ now' = now + d /\ sent' = sent + 1 /\ call' = call /\ began' = began
        /\ wait' = wait /\ pc = "calling"
    OBVIOUS
  <2>2. began' = 0 \/ began' < call'.budget
    BY <2>1 DEF ClockInv
  <2>3. began' >= wait' - Base
    BY <2>1 DEF ClockInv
  <2>4. pc' = "calling" => sent' < call'.requests
    <3>1. pc' = "calling" => sent + 1 # call.requests
      BY DEF LastRequest
    <3>2. sent + 1 # call.requests => sent + 1 < call.requests
      <4> DEFINE r == call.requests
      <4>1. sent \in Nat /\ r \in Nat /\ sent < r
        BY <1>1, <1>2
      <4> HIDE DEF r
      <4>2. sent + 1 # r => sent + 1 < r
        BY <4>1
      <4> QED
        BY <4>2 DEF r
    <3> QED
      BY <2>1, <3>1, <3>2
  <2>5. now' <= began' + sent' * call'.timeout
    BY <1>3, <2>1
  <2>6. pc' # "sleeping"
    OBVIOUS
  <2> QED
    BY <2>2, <2>3, <2>4, <2>5, <2>6 DEF ClockInv
<1>7. EffectInv' /\ WriteTakesEffectOnce'
  BY DEF EffectInv, WriteTakesEffectOnce, LastRequest, Kinds
<1>8. WithinBudget'
  BY <1>4 DEF WithinBudget
<1>9. GivesUpOnlyWhenSpent'
  BY DEF GivesUpOnlyWhenSpent, Retryable
<1> QED
  BY <1>5, <1>6, <1>7, <1>8, <1>9

\* A request fails: the call sleeps only while an attempt still fits.
LEMMA FailedIInv ==
  ASSUME IInv, NEW d \in 0..call.timeout, NEW e \in Exceptions, Failed(d, e)
  PROVE  IInv'
<1> USE DEF IInv, Failed
<1>1. /\ call.requests \in Nat \ {0} /\ call.timeout \in Nat \ {0}
      /\ call.budget \in Nat /\ call.kind \in Kinds
      /\ sent \in Nat /\ now \in Nat /\ began \in Nat /\ d \in Nat
  BY CallType DEF TypeOK
<1>2. /\ sent < call.requests
      /\ now + d <= began + sent * call.timeout + call.timeout
  BY <1>1, RequestCost DEF ClockInv
<1>3. now + d <= call.requests * call.timeout + call.budget
  BY <1>1, <1>2, RequestCost DEF ClockInv
<1>4. RoomLeft(now + d) <=> now + d < call.budget
  BY <1>1 DEF RoomLeft, LastStart, Deadline
<1>5. effects = 0 /\ effects' \in {0, 1}
      /\ (effects' = 1 => call.kind = "write" /\ LastRequest)
  BY DEF EffectInv, PossibleEffects
<1>6. Code(e) \in Codes
  BY DEF Code, Codes, Exceptions
<1>7. TypeOK'
  BY <1>1, <1>5, <1>6 DEF TypeOK
<1>8. pc' = "sleeping" => call.kind = "read" /\ now' < call.budget
  BY <1>4 DEF RetriedKinds
<1>9. ClockInv'
  BY <1>8 DEF ClockInv
<1>10. EffectInv' /\ WriteTakesEffectOnce'
  BY <1>5, <1>8 DEF EffectInv, WriteTakesEffectOnce
<1>11. WithinBudget'
  BY <1>3 DEF WithinBudget
<1>12. GivesUpOnlyWhenSpent'
  BY <1>1, <1>4 DEF GivesUpOnlyWhenSpent, RetriedKinds
<1> QED
  BY <1>7, <1>9, <1>10, <1>11, <1>12

\* The sleep ends: the next attempt begins before the budget is spent.
LEMMA WakeIInv ==
  ASSUME IInv, NEW s \in 0..Slack, Wake(s)
  PROVE  IInv'
<1> USE DEF IInv, Wake
<1>1. /\ call.requests \in Nat \ {0} /\ call.timeout \in Nat \ {0}
      /\ call.budget \in Nat /\ call.kind \in Kinds /\ s <= call.timeout
      /\ call.timeout <= call.requests * call.timeout
      /\ call.requests * call.timeout \in Nat
      /\ now \in Nat /\ began \in 0..now /\ s \in Nat /\ wait \in Nat \ {0}
      /\ Base \in Nat /\ 0 * call.timeout = 0 /\ sent \in 0..call.requests
  BY CallType, RetryAssumption DEF TypeOK
<1>2. LastStart = call.budget /\ now < call.budget /\ call.kind = "read"
  BY <1>1 DEF LastStart, Deadline, ClockInv
<1>3. /\ Nap \in Nat /\ now + Nap <= call.budget
      /\ Nap = wait \/ now + Nap = call.budget
  <2>1. call.budget - now \in Nat
    BY <1>1, <1>2
  <2>2. CASE wait < call.budget - now
    BY <1>1, <1>2, <2>1, <2>2 DEF Nap
  <2>3. CASE ~(wait < call.budget - now)
    <3>1. Nap = call.budget - now
      BY <1>2, <2>3 DEF Nap
    <3> QED
      BY <1>1, <2>1, <3>1
  <2> QED
    BY <2>2, <2>3
<1>4. now' \in Nat /\ now' >= now /\ now' <= call.budget + call.timeout
  BY <1>1, <1>3
<1>5. StillRoom(now') <=> now' < call.budget
  BY <1>2 DEF StillRoom, RoomLeft
<1>6. StillRoom(now') => Nap = wait
  BY <1>1, <1>3, <1>5
<1>7. TypeOK'
  BY <1>1, <1>4 DEF TypeOK, NextWait
<1>8. ClockInv'
  <2>1. CASE StillRoom(now')
    <3>1. now' >= now + wait /\ wait' = 2 * wait /\ began >= wait - Base
      BY <1>1, <1>3, <1>6, <2>1 DEF NextWait, ClockInv
    <3>2. began' >= wait' - Base
      BY <1>1, <2>1, <3>1
    <3> QED
      BY <1>1, <1>4, <1>5, <2>1, <3>2 DEF ClockInv
  <2>2. CASE ~StillRoom(now')
    BY <2>2 DEF ClockInv
  <2> QED
    BY <2>1, <2>2
<1>9. EffectInv' /\ WriteTakesEffectOnce'
  BY <1>2 DEF EffectInv, WriteTakesEffectOnce
<1>10. WithinBudget'
  BY <1>1, <1>4 DEF WithinBudget
<1>11. GivesUpOnlyWhenSpent'
  BY <1>1, <1>4, <1>5 DEF GivesUpOnlyWhenSpent
<1> QED
  BY <1>7, <1>8, <1>9, <1>10, <1>11

\* Every reachable state satisfies the inductive invariant.
LEMMA NextIInv == IInv /\ [Next]_vars => IInv'
<1> SUFFICES ASSUME IInv, [Next]_vars PROVE IInv'
  OBVIOUS
<1>1. CASE Next
  BY <1>1, AnsweredIInv, FailedIInv, WakeIInv DEF Next
<1>2. CASE UNCHANGED vars
  BY <1>2 DEF vars, IInv, TypeOK, ClockInv, EffectInv, WithinBudget,
              WriteTakesEffectOnce, GivesUpOnlyWhenSpent
<1> QED
  BY <1>1, <1>2

-----------------------------------------------------------------------------
\* The inductive invariant is an invariant of the retried call.
THEOREM RetryInvariant == Spec => []IInv
<1>1. Init => IInv
  BY InitIInv
<1>2. IInv /\ [Next]_vars => IInv'
  BY NextIInv
<1> QED
  BY <1>1, <1>2, PTL DEF Spec

\* The variables keep their types and every error has an API code.
THEOREM RetryTypeOK == Spec => []TypeOK
BY RetryInvariant, PTL DEF IInv

\* No call outlasts a timeout per request plus the retry budget.
THEOREM RetryWithinBudget == Spec => []WithinBudget
BY RetryInvariant, PTL DEF IInv

\* No mutation takes effect twice.
THEOREM RetryWriteTakesEffectOnce == Spec => []WriteTakesEffectOnce
BY RetryInvariant, PTL DEF IInv

\* Every attempt comes after its whole back-off and within the budget.
THEOREM RetryBackoff == Spec => []BackoffBeforeRetry
<1>1. IInv => BackoffBeforeRetry
  BY DEF IInv, ClockInv, BackoffBeforeRetry
<1> QED
  BY <1>1, RetryInvariant, PTL

\* A read gives up on a transient error only when the budget is spent.
THEOREM RetryGivesUp == Spec => []GivesUpOnlyWhenSpent
BY RetryInvariant, PTL DEF IInv
=============================================================================
