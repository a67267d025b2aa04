---------------------------- MODULE MCRetryLoop ----------------------------
(***************************************************************************)
(* Values of RetryLoop's constants for TLC: every kind of environment the  *)
(* parser tells apart, boundaries included.  4095 stands for INT_MAX, which *)
(* as KSERVE_MAX_RETRIES has a run of its own: one more try is no int.      *)
(***************************************************************************)
EXTENDS RetryLoop

MCEnvs ==
  [max_retries : {NoNumber, -1, 0, 1, 3}, base_ms : {NoNumber, 0, 1, 7},
   max_ms : {NoNumber, -5, 10}, jitter : {NoNumber, 0, 3, Unit, Unit + 1}]

\* Where the count of tries is in doubt: none, and the largest number there is.
CountEnvs ==
  [max_retries : {0, 1, IntMax}, base_ms : {NoNumber}, max_ms : {NoNumber},
   jitter : {NoNumber}]

\* HTTP statuses and gRPC codes side by side.
MCResults == {200, 400, 503, 3, 14}
MCRetryable == {r \in MCResults : isRetryableHttpStatus(r) \/ isRetryableGrpcStatus(r)}
============================================================================
