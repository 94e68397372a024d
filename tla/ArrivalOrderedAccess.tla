------------------------ MODULE ArrivalOrderedAccess ------------------------
(***************************************************************************)
(* What the tool gateway promises, without saying how: calls enter one at  *)
(* a time, at most MaxQueueSize of them are in, at most MaxWorkers bodies  *)
(* touch the mailbox, and a call begins only when every conflicting call   *)
(* that entered before it has left.  Two calls conflict unless both leave  *)
(* the mailbox unchanged.  (mcp_tools.py, ToolGateway docstring.)          *)
(***************************************************************************)
EXTENDS Naturals, FiniteSets

CONSTANTS Reads,         \* calls of tools with read_only or mailbox_read_only
          Writes,        \* calls of tools that change the mailbox
          MaxWorkers,    \* MCP_MAX_CONCURRENCY
          MaxQueueSize   \* MCP_MAX_QUEUE_SIZE

Calls == Reads \cup Writes

VARIABLES inflight,      \* calls that entered and have not left
          ahead,         \* ahead[c]: conflicting calls still in that entered before c
          active         \* calls whose body is running

accessVars == <<inflight, ahead, active>>

Conflict(c, d) == c \in Writes \/ d \in Writes

AccessTypeOK ==
  /\ inflight \in SUBSET Calls
  /\ ahead \in [Calls -> SUBSET Calls]
  /\ active \in SUBSET Calls

AccessInit ==
  /\ inflight = {}
  /\ ahead = [c \in Calls |-> {}]
  /\ active = {}

Enter(c) ==
  /\ c \notin inflight
  /\ Cardinality(inflight) < MaxQueueSize
  /\ inflight' = inflight \cup {c}
  /\ ahead' = [ahead EXCEPT ![c] = {d \in inflight : Conflict(c, d)}]
  /\ UNCHANGED active

Begin(c) ==
  /\ c \in inflight \ active
  /\ ahead[c] = {}
  /\ Cardinality(active) < MaxWorkers
  /\ active' = active \cup {c}
  /\ UNCHANGED <<inflight, ahead>>

End(c) ==
  /\ c \in active
  /\ active' = active \ {c}
  /\ UNCHANGED <<inflight, ahead>>

\* A call leaves with its result, or cancelled before or after its turn, but
\* never while its body still runs.
Leave(c) ==
  /\ c \in inflight \ active
  /\ inflight' = inflight \ {c}
  /\ ahead' = [d \in Calls |-> IF d = c THEN {} ELSE ahead[d] \ {c}]
  /\ UNCHANGED active

AccessNext == \E c \in Calls : Enter(c) \/ Begin(c) \/ End(c) \/ Leave(c)

AccessSpec == AccessInit /\ [][AccessNext]_accessVars
=============================================================================
