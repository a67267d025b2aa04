---------------------------- MODULE MCHttpClient ---------------------------
(***************************************************************************)
(* Values of HttpClient's constants for TLC.                               *)
(***************************************************************************)
EXTENDS HttpClient

\* KSERVE_MAX_RETRIES = n; the other variables are unset.
EnvWith(n) ==
  [max_retries |-> n, base_ms |-> NoNumber, max_ms |-> NoNumber, jitter |-> NoNumber]
MCEnvs == {EnvWith(0), EnvWith(1)}
OneTry == {EnvWith(0)}

AllTransports == {"plain", "tls", "tls_unbuilt"}
Plain == {"plain"}
Tls == {"tls"}

Reply(status, framing, body) ==
  [version |-> "1.1", status |-> status, framing |-> framing, body |-> body,
   close |-> FALSE, doc |-> "good"]

\* Both framings, a close-delimited body, an announced close, an empty body, a
\* transient and a permanent status.
Ordinary ==
  {Reply(200, "length", <<"data", "data">>), Reply(200, "chunked", <<"data", "data">>),
   Reply(200, "close", <<"data">>),
   [Reply(200, "length", <<"data">>) EXCEPT !.close = TRUE],
   Reply(404, "length", <<>>), Reply(503, "chunked", <<>>)}

\* Metadata documents that are not what modelMetadata expects.
Metadata ==
  {[Reply(200, "length", <<"data">>) EXCEPT !.doc = d] : d \in {"bad_head", "bad_output"}}
Conforming == Ordinary \cup Metadata

\* An old server, which says how long the body is and then closes.
Http10 == {[Reply(200, "length", <<"data">>) EXCEPT !.version = "1.0"]}

\* Chunked bodies, one with a look-alike of the last chunk in its first chunk.
Mimic == {Reply(200, "chunked", <<d, "data">>) : d \in {"data", "mimic"}}
============================================================================
