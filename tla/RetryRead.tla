----------------------------- MODULE RetryRead -----------------------------
(***************************************************************************)
(* One call of ExchangeClient (exchange_client/facade.py) under a clock:   *)
(* _retry_read's deadline, doubling back-off and two checks, the mutating  *)
(* methods that bypass it, and _map_exception, which decides what may be   *)
(* retried.                                                                *)
(*                                                                         *)
(* A call sends one EWS request or several, in order; each is answered or  *)
(* fails within EXCHANGE_TIMEOUT.  A mutation takes effect with its last   *)
(* request, and may have taken effect although the answer is an error.     *)
(* Between two statements of the loop no time passes; time.sleep may       *)
(* overrun by at most Slack.                                               *)
(***************************************************************************)
EXTENDS Integers

CONSTANTS Timeouts,    \* values of EXCHANGE_TIMEOUT
          Budgets,     \* values of EXCHANGE_MAX_RETRY_WAIT_SECONDS
          Requests,    \* how many requests a call makes
          Base,        \* _RETRY_BASE_SECONDS
          Slack        \* how late time.sleep may return

ASSUME RetryAssumption ==
  /\ Timeouts \subseteq Nat \ {0}
  /\ Budgets \subseteq Nat
  /\ Requests \subseteq Nat \ {0}
  /\ Base \in Nat \ {0}
  /\ Slack \in Nat
  /\ \A t \in Timeouts : Slack <= t

\* "read": a method that goes through _retry_read; "write": one that does not
\* because it changes the mailbox.
Kinds == {"read", "write"}

\* The classes of exception _map_exception tells apart.
Exceptions == {"Unauthorized", "AccessDenied", "RateLimit",
               "IrresolvableConflict", "TimeoutExpired", "ServerBusy",
               "ItemNotFound", "SaveProperty", "ResponseMessage",
               "LocalTimeout", "Transport", "Other"}

Codes == {"auth_failed", "permission_denied", "exchange_unavailable",
          "conflict", "timeout", "not_found", "exchange_error",
          "internal_error"}

VARIABLES
  call,      \* the call: its kind, its number of requests and the settings
  pc,        \* "calling", "sleeping" between two attempts, or "done"
  now,       \* the time since the call began
  sent,      \* the requests of this attempt that were answered
  began,     \* when this attempt began
  wait,      \* _retry_read's local of that name
  effects,   \* how many times a mutation took effect on the server
  failure    \* the exception of the last request, or "none"

vars == <<call, pc, now, sent, began, wait, effects, failure>>

-----------------------------------------------------------------------------
CodeUnmapped(e) == IF e = "Other" THEN e ELSE "exchange_error"
Code(e) ==
  CASE e = "Unauthorized"                            -> "auth_failed"
    [] e = "AccessDenied"                            -> "permission_denied"
    [] e \in {"RateLimit", "ServerBusy", "Transport"} -> "exchange_unavailable"
    [] e = "IrresolvableConflict"                    -> "conflict"
    [] e \in {"TimeoutExpired", "LocalTimeout"}      -> "timeout"
    [] e = "ItemNotFound"                            -> "not_found"
    [] e \in {"SaveProperty", "ResponseMessage"}     -> "exchange_error"
    [] e = "Other"                                   -> "internal_error"

Retryable == {"RateLimit", "TimeoutExpired", "ServerBusy"}

RetriedKindsAll == Kinds
RetriedKinds == {"read"}

\* time.monotonic() + exchange_timeout + retry_budget, with the clock at zero.
DeadlineBudgetOnly == call.budget
Deadline == call.timeout + call.budget

\* When an attempt would no longer fit before the deadline.
LastStartUnreserved == Deadline
LastStart == Deadline - call.timeout

\* The checks before and after the sleep, at time t.
RoomLeft(t) == t < LastStart

StillRoomUnchecked(t) == TRUE
StillRoom(t) == RoomLeft(t)

Nap == IF wait < LastStart - now THEN wait ELSE LastStart - now

NextWaitHalved == wait \div 2
NextWait == 2 * wait

-----------------------------------------------------------------------------
Init ==
  /\ call \in [kind : Kinds, requests : Requests, timeout : Timeouts,
               budget : Budgets]
  /\ pc = "calling"
  /\ now = 0
  /\ sent = 0
  /\ began = 0
  /\ wait = Base
  /\ effects = 0
  /\ failure = "none"

LastRequest == sent + 1 = call.requests

\* The effects a request may leave on the server when its answer is an error.
PossibleEffects ==
  {effects} \cup (IF call.kind = "write" /\ LastRequest THEN {effects + 1} ELSE {})

\* A request is answered after d; after the last one the call returns.
Answered(d) ==
  /\ pc = "calling"
  /\ now' = now + d
  /\ sent' = sent + 1
  /\ pc' = IF LastRequest THEN "done" ELSE "calling"
  /\ failure' = "none"
  /\ effects' = IF call.kind = "write" /\ LastRequest THEN effects + 1 ELSE effects
  /\ UNCHANGED <<call, began, wait>>

\* A request fails after d with exception e.  The call raises, unless it is a
\* read, e is retryable, retries are enabled and one more attempt fits.
Failed(d, e) ==
  /\ pc = "calling"
  /\ now' = now + d
  /\ failure' = e
  /\ effects' \in PossibleEffects
  /\ pc' = IF /\ call.kind \in RetriedKinds
              /\ e \in Retryable
              /\ call.budget # 0
              /\ RoomLeft(now')
           THEN "sleeping" ELSE "done"
  /\ UNCHANGED <<call, sent, began, wait>>

\* time.sleep returns, s late; the next attempt begins if it still fits.
Wake(s) ==
  /\ pc = "sleeping"
  /\ now' = now + Nap + s
  /\ IF StillRoom(now')
     THEN /\ pc' = "calling"
          /\ wait' = NextWait
          /\ sent' = 0
          /\ began' = now'
     ELSE /\ pc' = "done"
          /\ UNCHANGED <<wait, sent, began>>
  /\ UNCHANGED <<call, effects, failure>>

Next ==
  \/ \E d \in 0..call.timeout :
       Answered(d) \/ \E e \in Exceptions : Failed(d, e)
  \/ \E s \in 0..Slack : Wake(s)

Spec == Init /\ [][Next]_vars

\* A request ends within its socket timeout and a sleep returns.
FairSpec == Spec /\ WF_vars(Next)

-----------------------------------------------------------------------------
TypeOK ==
  /\ call \in [kind : Kinds, requests : Requests, timeout : Timeouts,
               budget : Budgets]
  /\ pc \in {"calling", "sleeping", "done"}
  /\ now \in Nat
  /\ sent \in 0..call.requests
  /\ began \in 0..now
  /\ wait \in Nat \ {0}
  /\ effects \in Nat
  /\ failure \in Exceptions \cup {"none"}
  /\ failure # "none" => Code(failure) \in Codes

\* The call's length is bounded by one timeout per request of its last attempt
\* plus the retry budget, whatever failed before: "a retry starts only when one
\* full request timeout remains".
WithinBudget ==
  now <= call.requests * call.timeout + call.budget

\* No mutation takes effect twice, although one whose answer was lost may have
\* taken effect: "retrying a send/create/delete after an ambiguous failure
\* risks repeating a side effect".
WriteTakesEffectOnce == effects <= 1

\* Every attempt but the first comes after the full doubling wait since the
\* start, Base + 2 * Base + ..., never after a nap cut short by the deadline;
\* and none begins once the budget is spent.
BackoffBeforeRetry ==
  pc = "calling" => /\ began >= wait - Base
                    /\ began # 0 => began < call.budget

\* A read gives up on a transient error only when no other attempt fits: the
\* retry budget is spent (or it is 0, and retries are disabled).
GivesUpOnlyWhenSpent ==
  pc = "done" /\ call.kind = "read" /\ failure \in Retryable
    => now >= call.budget

\* The call returns or raises.
CallReturns == <>(pc = "done")

-----------------------------------------------------------------------------
(***************************************************************************)
(* The inductive invariant: how far the clock can be in each phase.        *)
(***************************************************************************)
ClockInv ==
  /\ began = 0 \/ began < call.budget
  /\ began >= wait - Base
  /\ pc = "calling" => /\ sent < call.requests
                       /\ now <= began + sent * call.timeout
  /\ pc = "sleeping" => /\ now < call.budget
                        /\ call.kind = "read"

EffectInv ==
  /\ call.kind = "read" => effects = 0
  /\ pc # "done" => effects = 0

IInv == /\ TypeOK /\ ClockInv /\ EffectInv
        /\ WithinBudget /\ WriteTakesEffectOnce /\ GivesUpOnlyWhenSpent
=============================================================================
