---------------------------- MODULE ClientConfig ---------------------------
(***************************************************************************)
(* What a client makes of its endpoint URL, its environment and the files  *)
(* that the environment names: parseEndpoint, the path builders and the    *)
(* secret readers of src/KserveProtocol.cpp, the constructors of both      *)
(* clients, and the requests and connections that come of them.  Files are *)
(* rewritten by others at any moment, between the reads of one constructor *)
(* too.  A URL and a path are sequences of words and separators.           *)
(***************************************************************************)
EXTENDS Integers, Sequences, SequencesExt

CONSTANTS
  Urls,           \* the endpoints, as the user means them
  LeadingNumber,  \* the number at the head of a word, for the words with one
  IntMax,         \* the largest int
  Versions,       \* the model versions a client may be bound to, NoText for none
  Envs,           \* the environments: a bearer token, and the files named
  Contents,       \* what each file may hold
  FirstFiles,     \* what the files may hold at first
  Words,          \* the texts of tokens and files
  Missing,        \* no such file
  MaxWrites       \* bound on the rewritings of files

Kinds == {"token", "ca", "cert", "key"}

\* A text without the white space at its end, and whether it has any.
Text == [text : Words, trail : BOOLEAN]
NoText == ""
Empty == [text |-> NoText, trail |-> FALSE]

ASSUME ConfigAssumption ==
  /\ MaxWrites \in Nat /\ IntMax \in Nat /\ IntMax >= 8080
  /\ \A w \in DOMAIN LeadingNumber : LeadingNumber[w] \in Nat
  /\ NoText \in Words /\ Missing \notin Text
  /\ \A kind \in Kinds : Contents[kind] \subseteq Text \cup {Missing}
  /\ FirstFiles \subseteq [Kinds -> Text \cup {Missing}]
  /\ \A f \in FirstFiles : \A kind \in Kinds : f[kind] \in Contents[kind]
  /\ \A e \in Envs : e.token \in Text /\ e.files \subseteq Kinds

\* A URL is written so that it can be read as it is meant: no word of it is
\* empty or a separator, but for the colons of an IPv6 address, and the first of
\* those is not followed by a number, which the parser would take for the port.
KnownSchemes == {"https", "grpcs", "http", "grpc"}
Separators == {":", "/"}
UrlType == [scheme : STRING, host : Seq(STRING), port : STRING, path : Seq(STRING), slashes : Nat]

ASSUME UrlsAssumption ==
  /\ NoText \notin KnownSchemes \cup Separators
  /\ \A u \in Urls :
       /\ u \in UrlType
       /\ u.scheme \notin Separators /\ u.port \notin Separators
       /\ {"/", NoText} \cap Range(u.host) = {} /\ {"/", NoText} \cap Range(u.path) = {}
       /\ \A n \in 1 .. Len(u.host) :
            u.host[n] = ":" /\ (\A k \in 1 .. n - 1 : u.host[k] # ":") =>
              n < Len(u.host) /\ u.host[n + 1] \notin DOMAIN LeadingNumber

VARIABLES
  protocol,       \* which client: "http" or "grpc"
  url,            \* endpoint_
  model_version_, \* the version the client is bound to
  env,            \* the environment
  files,          \* the files, by what the environment uses them for
  writes,         \* how often they were rewritten
  held,           \* history: what each file has held so far
  pc,             \* where the constructor or the call is
  auth_token_,    \* the bearer token, read once
  ep,             \* the parsed endpoint
  options,        \* the gRPC channel's certificates
  connected,      \* whether conn_ holds a connection, or the channel exists
  request,        \* the request of this call
  sent            \* the request the latest call sent, none or one

given == <<protocol, url, model_version_, env>>
disk == <<files, writes, held>>
made == <<auth_token_, options>>
vars == <<given, disk, made, pc, ep, connected, request, sent>>

----------------------------------------------------------------------------
(* The endpoint.                                                            *)

\* The URL as it is written: scheme, host, port and path, each with its
\* separators.
Slashed(words) == FlattenSeq([n \in 1 .. Len(words) |-> <<"/", words[n]>>])
Written(u) ==
  (IF u.scheme = NoText THEN <<>> ELSE <<u.scheme, ":", "/", "/">>)
    \o u.host \o (IF u.port = NoText THEN <<>> ELSE <<":", u.port>>)
    \o Slashed(u.path) \o [n \in 1 .. u.slashes |-> "/"]

FirstAt(mark, s) == SelectInSeq(s, LAMBDA x : x = mark)
Before(s, n) == IF n = 0 THEN s ELSE SubSeq(s, 1, n - 1)
From(s, n) == SubSeq(s, n, Len(s))

HasScheme(s) ==
  /\ Len(s) >= 4
  /\ SubSeq(s, 2, 4) = <<":", "/", "/">>
  /\ s[1] \in KnownSchemes
stripScheme(s) == IF HasScheme(s) THEN From(s, 5) ELSE s
Tls(s) == HasScheme(s) /\ s[1] \in {"https", "grpcs"}

\* The authority, and the port's text in it; the text is empty, but there, in
\* an authority that ends in a colon.
Authority(s) == Before(stripScheme(s), FirstAt("/", stripScheme(s)))
HasPort(s) == FirstAt(":", Authority(s)) # 0
PortText(s) == From(Authority(s), FirstAt(":", Authority(s)) + 1)

EndpointThrows_mutant(s) ==
  /\ HasPort(s)
  /\ PortText(s) = <<>> \/ PortText(s)[1] \notin DOMAIN LeadingNumber

\* std::stoi throws without a number at the head, or on one that is no int.
EndpointThrows(s) ==
  /\ HasPort(s)
  /\ \/ PortText(s) = <<>>
     \/ PortText(s)[1] \notin DOMAIN LeadingNumber
     \/ LeadingNumber[PortText(s)[1]] > IntMax

PathPrefix_mutant(s) ==
  LET value == stripScheme(s)  slash == FirstAt("/", value) IN
  IF slash = 0 THEN <<>> ELSE From(value, slash)

\* Every slash at the end is dropped.
PathPrefix(s) ==
  LET value == stripScheme(s)  slash == FirstAt("/", value) IN
  IF slash = 0 THEN <<>>
  ELSE SubSeq(value, slash, SelectLastInSeq(value, LAMBDA x : x # "/"))

parseEndpoint(s, default_port) ==
  [host |-> Before(Authority(s), FirstAt(":", Authority(s))),
   port |-> IF HasPort(s) THEN LeadingNumber[PortText(s)[1]] ELSE default_port,
   path_prefix |-> PathPrefix(s),
   tls |-> Tls(s)]

NoEndpoint == [host |-> <<>>, port |-> 0, path_prefix |-> <<>>, tls |-> FALSE]

----------------------------------------------------------------------------
(* The requests.                                                            *)

Ops == {"serverLive", "serverReady", "modelReady", "modelMetadata", "infer",
        "repositoryIndex", "loadModel", "unloadModel"}

\* The path builders; m is a model's name, v a version or no text.
models(m, v) ==
  <<"/", "v2", "/", "models", "/", m>>
    \o (IF v = NoText THEN <<>> ELSE <<"/", "versions", "/", v>>)
repository(m) == <<"/", "v2", "/", "repository", "/", "models", "/", m>>

PathOf(o, m, v) ==
  CASE o = "serverLive" -> <<"/", "v2", "/", "health", "/", "live">>
    [] o = "serverReady" -> <<"/", "v2", "/", "health", "/", "ready">>
    [] o = "modelReady" -> models(m, v) \o <<"/", "ready">>
    [] o = "modelMetadata" -> models(m, NoText)
    [] o = "infer" -> models(m, v) \o <<"/", "infer">>
    [] o = "repositoryIndex" -> <<"/", "v2", "/", "repository", "/", "index">>
    [] o = "loadModel" -> repository(m) \o <<"/", "load">>
    [] o = "unloadModel" -> repository(m) \o <<"/", "unload">>

Method(o) ==
  IF o \in {"infer", "repositoryIndex", "loadModel", "unloadModel"}
  THEN "POST" ELSE "GET"

\* An HTTP request carries the path; a gRPC call names its method and leaves
\* the prefix out.  An empty token is not sent.
buildRequest(o, e) ==
  [op |-> o, method |-> IF protocol = "http" THEN Method(o) ELSE "rpc",
   path |-> IF protocol = "http"
            THEN e.path_prefix \o PathOf(o, "model", model_version_) ELSE <<>>,
   host |-> e.host, port |-> e.port, tls |-> e.tls, token |-> auth_token_]

----------------------------------------------------------------------------
(* Secrets and certificates.                                                *)

trimTrailingWhitespace(c) == [text |-> c.text, trail |-> FALSE]

\* The file of this kind is read: the environment names it.
Named(kind) == kind \in env.files
ReadThrows(kind) == Named(kind) /\ files[kind] = Missing
readFileFromEnvPath(kind) == IF Named(kind) THEN files[kind] ELSE Empty

\* The file is not touched when the environment holds the token.
TokenThrows == env.token = Empty /\ ReadThrows("token")
readSecretFromEnvOrFile ==
  IF env.token # Empty THEN env.token
  ELSE trimTrailingWhitespace(readFileFromEnvPath("token"))

\* Decided by what was read, not by what is named.
requireClientCertPair(o) == (o.cert = Empty) = (o.key = Empty)

----------------------------------------------------------------------------
(* The constructors.                                                        *)

NoOptions == [cert |-> Empty, key |-> Empty, ca |-> Empty]

Init ==
  /\ protocol \in {"http", "grpc"}
  /\ url \in Urls
  /\ model_version_ \in Versions
  /\ env \in Envs
  /\ files \in FirstFiles
  /\ writes = 0
  /\ held = [kind \in Kinds |-> {files[kind]} \ {Missing}]
  /\ pc = "token"
  /\ auth_token_ = Empty
  /\ ep = NoEndpoint
  /\ options = NoOptions
  /\ connected = FALSE
  /\ request = {}
  /\ sent = {}

ReadToken_mutant ==
  /\ pc = "token"
  /\ auth_token_' = IF TokenThrows THEN Empty ELSE readSecretFromEnvOrFile
  /\ pc' = IF protocol = "http" THEN "idle" ELSE "endpoint"
  /\ UNCHANGED <<given, disk, options, ep, connected, request, sent>>

ReadToken ==
  /\ pc = "token"
  /\ IF TokenThrows THEN pc' = "unmade" /\ UNCHANGED auth_token_
     ELSE /\ auth_token_' = readSecretFromEnvOrFile
          /\ pc' = IF protocol = "http" THEN "idle" ELSE "endpoint"
  /\ UNCHANGED <<given, disk, options, ep, connected, request, sent>>

\* GrpcClient parses the endpoint once, and reads the three files of a secure
\* channel one after the other.
GrpcEndpoint ==
  /\ pc = "endpoint"
  /\ IF EndpointThrows(Written(url)) THEN pc' = "unmade" /\ UNCHANGED <<ep, connected>>
     ELSE /\ ep' = parseEndpoint(Written(url), 8001)
          /\ IF ep'.tls THEN pc' = "ca" /\ UNCHANGED connected
             ELSE pc' = "idle" /\ connected' = TRUE
  /\ UNCHANGED <<given, disk, made, request, sent>>

After(kind) == CASE kind = "ca" -> "cert" [] kind = "cert" -> "key" [] kind = "key" -> "pair"

ReadFile_mutant(kind) ==
  /\ pc = kind
  /\ options' = [options EXCEPT ![kind] =
                   IF ReadThrows(kind) THEN Empty ELSE readFileFromEnvPath(kind)]
  /\ pc' = After(kind)
  /\ UNCHANGED <<given, disk, auth_token_, ep, connected, request, sent>>

ReadFile(kind) ==
  /\ pc = kind
  /\ IF ReadThrows(kind) THEN pc' = "unmade" /\ UNCHANGED options
     ELSE /\ options' = [options EXCEPT ![kind] = readFileFromEnvPath(kind)]
          /\ pc' = After(kind)
  /\ UNCHANGED <<given, disk, auth_token_, ep, connected, request, sent>>

CheckPair ==
  /\ pc = "pair"
  /\ pc' = IF requireClientCertPair(options) THEN "idle" ELSE "unmade"
  /\ connected' = requireClientCertPair(options)
  /\ UNCHANGED <<given, disk, made, ep, request, sent>>

----------------------------------------------------------------------------
(* Calls.                                                                   *)

\* HttpClient parses the endpoint in every call, outside the retry loop.
Call(o) ==
  /\ pc = "idle"
  /\ IF protocol = "http" /\ EndpointThrows(Written(url))
     THEN UNCHANGED <<pc, ep, request>>
     ELSE /\ ep' = IF protocol = "http" THEN parseEndpoint(Written(url), 8080) ELSE ep
          /\ request' = {buildRequest(o, ep')}
          /\ pc' = "call"
  /\ sent' = {}
  /\ UNCHANGED <<given, disk, made, connected>>

\* A TLS connection loads the file of KSERVE_CA_CERT anew; it is verified
\* against the system's roots when none is named.  No client certificate.
Connect ==
  /\ pc = "call"
  /\ ~connected
  /\ ep.tls /\ Named("ca") => files["ca"] # Missing /\ files["ca"].text # NoText
  /\ connected' = TRUE
  /\ UNCHANGED <<given, disk, made, pc, ep, request, sent>>

\* The request goes out on the connection or channel there is.
Send ==
  /\ pc = "call"
  /\ connected
  /\ sent' = request
  /\ pc' = "idle"
  /\ request' = {}
  /\ UNCHANGED <<given, disk, made, ep, connected>>

\* No attempt connects, or none is answered.
GiveUp ==
  /\ pc = "call"
  /\ pc' = "idle"
  /\ request' = {}
  /\ UNCHANGED <<given, disk, made, ep, connected, sent>>

\* HttpConnection::drop, after an error or at the server's wish.
Drop ==
  /\ protocol = "http"
  /\ connected
  /\ connected' = FALSE
  /\ UNCHANGED <<given, disk, made, pc, ep, request, sent>>

\* Somebody rewrites, truncates or removes a file.
Write(kind, c) ==
  /\ writes < MaxWrites
  /\ c \in Contents[kind]
  /\ c # files[kind]
  /\ writes' = writes + 1
  /\ files' = [files EXCEPT ![kind] = c]
  /\ held' = [held EXCEPT ![kind] = @ \cup ({c} \ {Missing})]
  /\ UNCHANGED <<given, made, pc, ep, connected, request, sent>>

Next ==
  \/ ReadToken \/ GrpcEndpoint
  \/ \E kind \in {"ca", "cert", "key"} : ReadFile(kind)
  \/ CheckPair
  \/ \E o \in Ops : Call(o)
  \/ Connect \/ Send \/ GiveUp \/ Drop
  \/ \E kind \in Kinds : \E c \in Contents[kind] : Write(kind, c)

Spec == Init /\ [][Next]_vars

----------------------------------------------------------------------------
(* Properties.                                                              *)

TypeOK ==
  /\ files \in [Kinds -> Text \cup {Missing}]
  /\ \A kind \in Kinds : files[kind] \in Contents[kind]
  /\ held \in [Kinds -> SUBSET Text]
  /\ writes \in 0 .. MaxWrites
  /\ pc \in {"token", "endpoint", "ca", "cert", "key", "pair", "idle", "call", "unmade"}
  /\ auth_token_ \in Text
  /\ options \in [{"ca", "cert", "key"} -> Text]
  /\ connected \in BOOLEAN
  /\ ep.port \in 0 .. IntMax
  /\ \A r \in request \cup sent : r.op \in Ops /\ r.port \in 0 .. IntMax

\* What a URL means, read off its parts: an unknown scheme, a host with colons
\* of its own and a port that is no int mean nothing.
Meaningless(u) ==
  \/ u.scheme \notin KnownSchemes \cup {NoText}
  \/ ":" \in Range(u.host)
  \/ u.port # NoText /\ (u.port \notin DOMAIN LeadingNumber \/ LeadingNumber[u.port] > IntMax)

\* The V2 resource of an operation, by its segments.
Resource(o) ==
  LET bound == IF model_version_ = NoText THEN <<>> ELSE <<"versions", model_version_>>
      model == <<"models", "model">>
  IN <<"v2">> \o
     (CASE o = "serverLive" -> <<"health", "live">>
        [] o = "serverReady" -> <<"health", "ready">>
        [] o = "modelReady" -> model \o bound \o <<"ready">>
        [] o = "modelMetadata" -> model
        [] o = "infer" -> model \o bound \o <<"infer">>
        [] o = "repositoryIndex" -> <<"repository", "index">>
        [] o = "loadModel" -> <<"repository">> \o model \o <<"load">>
        [] o = "unloadModel" -> <<"repository">> \o model \o <<"unload">>)

\* Every request goes where its URL means: to its host and port, in the clear
\* only if the scheme is absent or says so, and over HTTP for the operation's
\* resource under the URL's path, without an empty segment where the two meet.
\* Under a URL that means nothing no request is ever sent.
SentWhereMeant ==
  \A r \in sent :
    /\ ~Meaningless(url)
    /\ r.host = url.host
    /\ r.port = IF url.port # NoText THEN LeadingNumber[url.port]
                ELSE IF protocol = "http" THEN 8080 ELSE 8001
    /\ r.tls = (url.scheme \in {"https", "grpcs"})
    /\ protocol = "http" => r.path = Slashed(url.path \o Resource(r.op))

\* A token the environment holds, or allows for: without the white space at
\* its end, a text that the named file has held.
Rightful(token) ==
  IF env.token # Empty THEN token = env.token
  ELSE IF Named("token") THEN \E c \in held["token"] : token = [text |-> c.text, trail |-> FALSE]
  ELSE token = Empty

\* readSecretFromEnvOrFile: the token sent is the environment's, to the letter,
\* or one that the named file has held by then, without the newline it may end
\* in; a file that is gone when it is read does not mean no token.
TokenFromItsSource == \A r \in sent : Rightful(r.token)

\* What the channel has of a file: of one that is named a content it has held.
AsFiled(kind) == options[kind] \in IF Named(kind) THEN held[kind] ELSE {Empty}

\* makeChannelCredentials: however the files change while it reads them, a
\* secure channel has of each file that is named a content the file has held,
\* and none of the others, so that it never trusts the system's roots, or goes
\* without its certificate, because a file was gone; and it has both a
\* certificate and a key or neither.
ChannelAsFiled ==
  protocol = "grpc" /\ connected /\ ep.tls =>
    /\ \A kind \in {"ca", "cert", "key"} : AsFiled(kind)
    /\ (options.cert = Empty) = (options.key = Empty)
============================================================================
