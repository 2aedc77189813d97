------------------------------ MODULE Requests ------------------------------
(***************************************************************************)
(* How long a request to the provider lasts: any time up to the timeout it *)
(* was given and Overrun, since the HTTP library applies a timeout to each *)
(* read or write and not to the whole request.                             *)
(***************************************************************************)
EXTENDS Integers

CONSTANTS
  RequestTimeout,  \* request_timeout_seconds
  Overrun          \* bound: ticks a request outlasts its timeout

ASSUME RequestsAssumption == RequestTimeout \in Nat \ {0} /\ Overrun \in Nat

Lengths(timeout) == 0..(timeout + Overrun)

Least(m, n) == IF m <= n THEN m ELSE n
=============================================================================
