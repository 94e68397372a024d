---------------------------- MODULE MCRetryRead ----------------------------
(* Model-checking instance of RetryRead.  A call may send up to two requests *)
(* and the settings range over every relation of the timeout, the budget and *)
(* the first waits: none, less than one wait, several waits.                 *)
EXTENDS RetryRead

\* "A call is instead bounded by EXCHANGE_TIMEOUT plus EXCHANGE_MAX_RETRY_
\* WAIT_SECONDS" (mcp_tools.py): true of a call that sends one request.
DocumentedBound == call.kind = "read" => now <= call.timeout + call.budget
=============================================================================
