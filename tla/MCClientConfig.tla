--------------------------- MODULE MCClientConfig --------------------------
(***************************************************************************)
(* Values of ClientConfig's constants for TLC.                             *)
(***************************************************************************)
EXTENDS ClientConfig, TLC

\* Ports with and without a number at the head, and one that is no int.
MCLeadingNumber ==
  "1" :> 1 @@ "443" :> 443 @@ "443x" :> 443 @@ "9999999999" :> (IntMax + 1)

\* Every scheme, and two that are none; a plain name and an IPv6 address;
\* paths with and without slashes at the end.
Schemes == {"", "http", "https", "grpc", "grpcs", "HTTPS", "ftp"}
Ports == {"", "443", "443x", "port", "9999999999"}
Url(scheme, host, port, path, slashes) ==
  [scheme |-> scheme, host |-> host, port |-> port, path |-> path, slashes |-> slashes]
MCUrls ==
  {Url(s, <<"host">>, "", <<>>, 1) : s \in Schemes}
    \cup {Url(s, <<"[", ":", ":", "1", "]">>, "", <<>>, 0) : s \in {"", "grpcs"}}
    \cup {Url(s, <<"host">>, p, <<"a", "b">>, n) :
            s \in {"", "https"}, p \in Ports, n \in {0, 2}}

MCVersions == {"", "7"}
MCWords == Kinds \cup {"", "given"}

File(text) == [text |-> text, trail |-> TRUE]
MCContents ==
  [kind \in Kinds |-> {Missing, Empty, File(""), File(kind), [File(kind) EXCEPT !.trail = FALSE]}]

MCEnvs ==
  [token : {Empty, File("given")}, files : {Kinds, {"token", "cert"}, {"cert", "key"}}]

\* All in place, or none written yet.
MCFirstFiles ==
  {[kind \in Kinds |-> File(kind)], [kind \in Kinds |-> Empty]}
============================================================================
