------------------------- MODULE ClientConfig_proofs -----------------------
(***************************************************************************)
(* The properties of ClientConfig for any URLs, environments, files and    *)
(* number of rewritings.  Files and tokens come first; where the requests  *)
(* go needs what parseEndpoint makes of a URL that is put together from    *)
(* its parts, and how the paths of the operations are made.                *)
(***************************************************************************)
EXTENDS ClientConfig, Lemmas

\* The environment is one of those assumed, and stays so.
GivenOK == protocol \in {"http", "grpc"} /\ env \in Envs

\* The history has what the files hold now.
HeldOK == \A kind \in Kinds : files[kind] # Missing => files[kind] \in held[kind]

\* While the constructor runs there is no channel; once a gRPC client is made
\* there is one.
Channel ==
  /\ pc \notin {"idle", "call"} => connected = FALSE
  /\ pc \in {"token", "endpoint"} => options = NoOptions
  /\ protocol = "grpc" /\ pc \in {"idle", "call"} => connected = TRUE

\* What was read of a file is what it has held, from the read on.
Filed ==
  /\ pc \in {"cert", "key", "pair"} => AsFiled("ca")
  /\ pc \in {"key", "pair"} => AsFiled("cert")
  /\ pc = "pair" => AsFiled("key")

\* From the constructor on, the token is one of the right source, and every
\* request carries that token.
Carried ==
  /\ pc \notin {"idle", "call"} => request = {} /\ sent = {}
  /\ pc \notin {"token", "unmade"} => Rightful(auth_token_)
  /\ \A r \in request \cup sent : r.token = auth_token_

IInv == TypeOK /\ GivenOK /\ HeldOK /\ Channel /\ Filed /\ ChannelAsFiled /\ Carried

\* An empty text is a text, and no missing file.
LEMMA EmptyText == Empty \in Text /\ Empty.trail = FALSE
<1>1. NoText \in Words BY ConfigAssumption
<1> QED BY <1>1 DEF Empty, Text

\* What the file readers return, when they do not throw, is a text, and one the
\* file has held if it is named.
LEMMA ReadsText ==
  ASSUME TypeOK, GivenOK, HeldOK, NEW kind \in Kinds, ~ReadThrows(kind)
  PROVE  /\ readFileFromEnvPath(kind) \in Text
         /\ readFileFromEnvPath(kind) \in IF Named(kind) THEN held[kind] ELSE {Empty}
<1>1. files[kind] \in Contents[kind] /\ (files[kind] # Missing => files[kind] \in held[kind])
  BY DEF TypeOK, HeldOK
<1>2. Contents[kind] \subseteq Text \cup {Missing} BY ConfigAssumption
<1>3. CASE Named(kind)
  BY <1>1, <1>2, <1>3 DEF ReadThrows, readFileFromEnvPath
<1>4. CASE ~Named(kind)
  BY <1>4, EmptyText DEF readFileFromEnvPath
<1> QED BY <1>3, <1>4

\* readSecretFromEnvOrFile, when it does not throw, returns a token of the right
\* source.
LEMMA TokenRightful ==
  ASSUME TypeOK, GivenOK, HeldOK, ~TokenThrows
  PROVE  readSecretFromEnvOrFile \in Text /\ Rightful(readSecretFromEnvOrFile)
<1> DEFINE file == readFileFromEnvPath("token")
<1>1. CASE env.token # Empty
  <2>1. env.token \in Text BY ConfigAssumption DEF GivenOK
  <2> QED BY <1>1, <2>1 DEF readSecretFromEnvOrFile, Rightful
<1>2. CASE env.token = Empty
  <2>1. "token" \in Kinds /\ ~ReadThrows("token")
    BY <1>2 DEF TokenThrows, Kinds
  <2>2. file \in Text /\ file \in IF Named("token") THEN held["token"] ELSE {Empty}
    BY <2>1, ReadsText
  <2>3. trimTrailingWhitespace(file) = [text |-> file.text, trail |-> FALSE]
    BY <2>2 DEF trimTrailingWhitespace, Text
  <2>4. ~Named("token") => trimTrailingWhitespace(file) = Empty
    BY <2>3 DEF readFileFromEnvPath, Empty
  <2>5. trimTrailingWhitespace(file) \in Text
    <3>1. file.text \in Words BY <2>2 DEF Text
    <3>2. ASSUME NEW t \in Words PROVE [text |-> t, trail |-> FALSE] \in Text
      BY <3>2 DEF Text
    <3> QED BY <2>3, <3>1, <3>2
  <2> QED
    BY <1>2, <2>2, <2>3, <2>4, <2>5 DEF readSecretFromEnvOrFile, Rightful
<1> QED BY <1>1, <1>2

\* The port of an endpoint that parses is an int, and tls is a Boolean.
LEMMA EndpointType ==
  ASSUME NEW s, NEW default_port \in 0 .. IntMax, ~EndpointThrows(s)
  PROVE  /\ parseEndpoint(s, default_port).port \in 0 .. IntMax
         /\ parseEndpoint(s, default_port).tls \in BOOLEAN
<1>1. Tls(s) \in BOOLEAN BY DEF Tls, HasScheme
<1>2. IntMax \in Nat /\ \A w \in DOMAIN LeadingNumber : LeadingNumber[w] \in Nat
  BY ConfigAssumption
<1>3. HasPort(s) => LeadingNumber[PortText(s)[1]] \in 0 .. IntMax
  BY <1>2 DEF EndpointThrows
<1> QED BY <1>1, <1>3 DEF parseEndpoint

\* The constructor starts in the invariant.
LEMMA InitIInv == Init => IInv
<1> SUFFICES ASSUME Init PROVE IInv OBVIOUS
<1>1. TypeOK
  <2>1. /\ files \in [Kinds -> Text \cup {Missing}]
        /\ \A kind \in Kinds : files[kind] \in Contents[kind]
    BY ConfigAssumption DEF Init
  <2>2. writes \in 0 .. MaxWrites /\ ep.port \in 0 .. IntMax
    BY ConfigAssumption DEF Init, NoEndpoint
  <2>3. options \in [{"ca", "cert", "key"} -> Text]
    BY EmptyText DEF Init, NoOptions
  <2>4. held \in [Kinds -> SUBSET Text]
    BY <2>1, ConfigAssumption DEF Init
  <2> QED BY <2>1, <2>2, <2>3, <2>4, EmptyText DEF Init, TypeOK
<1>2. HeldOK
  BY DEF Init, HeldOK
<1> QED
  BY <1>1, <1>2, EmptyText DEF IInv, Init, GivenOK, Channel, Filed, ChannelAsFiled, Carried

\* A step that does not touch the channel's files keeps what was read of them.
LEMMA FiledKept ==
  ASSUME UNCHANGED <<env, options>>,
         \A kind \in Kinds : held[kind] \subseteq held'[kind]
  PROVE  \A kind \in {"ca", "cert", "key"} : AsFiled(kind) => AsFiled(kind)'
<1>1. \A kind \in {"ca", "cert", "key"} : held[kind] \subseteq held'[kind]
  BY DEF Kinds
<1> QED
  BY <1>1 DEF AsFiled, Named

\* Nor does the token lose its source.
LEMMA RightfulKept ==
  ASSUME UNCHANGED <<env, auth_token_>>,
         \A kind \in Kinds : held[kind] \subseteq held'[kind],
         Rightful(auth_token_)
  PROVE  Rightful(auth_token_)'
<1>1. held["token"] \subseteq held'["token"]
  BY DEF Kinds
<1> QED
  BY <1>1 DEF Rightful, Named

\* Every step keeps the invariant, one case per action.
LEMMA NextIInv == IInv /\ [Next]_vars => IInv'
<1> SUFFICES ASSUME IInv, [Next]_vars PROVE IInv' OBVIOUS
<1> USE DEF IInv
<1>0. ASSUME UNCHANGED disk
      PROVE  HeldOK' /\ \A kind \in Kinds : held[kind] \subseteq held'[kind]
  BY <1>0 DEF disk, HeldOK
<1>1. CASE ReadToken
  <2>1. /\ pc = "token" /\ UNCHANGED <<given, disk, options, ep, connected, request, sent>>
        /\ \/ pc' = "unmade" /\ UNCHANGED auth_token_
           \/ pc' \in {"idle", "endpoint"} /\ auth_token_' = readSecretFromEnvOrFile /\ ~TokenThrows
        /\ protocol = "grpc" => pc' # "idle"
    BY <1>1 DEF ReadToken
  <2>2. GivenOK' BY <2>1 DEF given, GivenOK
  <2>3. TypeOK' BY <2>1, TokenRightful DEF TypeOK, disk
  <2>4. Channel' BY <2>1 DEF Channel, GivenOK, given
  <2>5. Filed' BY <2>1 DEF Filed
  <2>6. ChannelAsFiled' BY <2>1 DEF ChannelAsFiled, Channel
  <2>7. Rightful(readSecretFromEnvOrFile) /\ auth_token_' = readSecretFromEnvOrFile
          => Rightful(auth_token_)'
    BY <2>1 DEF Rightful, Named, given, disk
  <2>8. Carried' BY <2>1, <2>7, TokenRightful DEF Carried
  <2> QED BY <1>0, <2>1, <2>2, <2>3, <2>4, <2>5, <2>6, <2>8
<1>2. CASE GrpcEndpoint
  <2>1. /\ pc = "endpoint" /\ UNCHANGED <<given, disk, made, request, sent>>
        /\ \/ pc' = "unmade" /\ UNCHANGED <<ep, connected>>
           \/ ep'.port \in 0 .. IntMax /\ ep'.tls = TRUE /\ pc' = "ca" /\ connected' = FALSE
           \/ ep'.port \in 0 .. IntMax /\ ep'.tls = FALSE /\ pc' = "idle" /\ connected' = TRUE
    <3>1. CASE EndpointThrows(Written(url))
      BY <1>2, <3>1 DEF GrpcEndpoint
    <3>2. CASE ~EndpointThrows(Written(url))
      <4>1. ep'.port \in 0 .. IntMax /\ ep'.tls \in BOOLEAN
        BY <1>2, <3>2, EndpointType, ConfigAssumption DEF GrpcEndpoint
      <4> QED BY <1>2, <3>2, <4>1 DEF GrpcEndpoint, Channel
    <3> QED BY <3>1, <3>2
  <2>2. GivenOK' BY <2>1 DEF given, GivenOK
  <2>3. TypeOK' BY <2>1 DEF TypeOK, disk, made
  <2>4. Channel' BY <2>1 DEF Channel, given, made
  <2>5. Filed' BY <2>1 DEF Filed
  <2>6. ChannelAsFiled' BY <2>1 DEF ChannelAsFiled, Channel
  <2>7. Rightful(auth_token_)'
    BY <1>0, <2>1, RightfulKept DEF Carried, given, made
  <2>8. Carried' BY <2>1, <2>7 DEF Carried, made
  <2> QED BY <1>0, <2>1, <2>2, <2>3, <2>4, <2>5, <2>6, <2>8
<1>3. ASSUME NEW kind \in {"ca", "cert", "key"}, ReadFile(kind) PROVE IInv'
  <2>0. kind \in Kinds BY DEF Kinds
  <2>1. /\ pc = kind /\ UNCHANGED <<given, disk, auth_token_, ep, connected, request, sent>>
        /\ \/ pc' = "unmade" /\ UNCHANGED options
           \/ /\ ~ReadThrows(kind)
              /\ options' = [options EXCEPT ![kind] = readFileFromEnvPath(kind)]
              /\ pc' = After(kind)
    BY <1>3 DEF ReadFile
  <2>2. GivenOK' BY <2>1 DEF given, GivenOK
  <2>3. TypeOK' BY <2>0, <2>1, ReadsText DEF TypeOK, disk, After
  <2>4. Channel' BY <2>1 DEF Channel, given, After
  <2>5. Filed'
    <3>1. CASE pc' = "unmade"
      BY <3>1 DEF Filed
    <3>2. CASE /\ ~ReadThrows(kind) /\ pc' = After(kind)
               /\ options' = [options EXCEPT ![kind] = readFileFromEnvPath(kind)]
      <4>1. options \in [{"ca", "cert", "key"} -> Text] BY DEF TypeOK
      <4>2. readFileFromEnvPath(kind) \in IF Named(kind) THEN held[kind] ELSE {Empty}
        BY <2>0, <3>2, ReadsText
      <4>3. AsFiled(kind)'
        BY <2>1, <3>2, <4>1, <4>2 DEF AsFiled, Named, given, disk
      <4>4. \A k \in {"ca", "cert", "key"} \ {kind} : AsFiled(k) => AsFiled(k)'
        BY <2>1, <3>2, <4>1 DEF AsFiled, Named, given, disk
      <4> QED
        BY <2>1, <3>2, <4>3, <4>4 DEF Filed, After
    <3> QED BY <2>1, <3>1, <3>2
  <2>6. ChannelAsFiled' BY <2>1 DEF ChannelAsFiled, Channel
  <2>7. Rightful(auth_token_)'
    BY <1>0, <2>1, RightfulKept DEF Carried, given
  <2>8. Carried' BY <2>1, <2>7 DEF Carried, After
  <2> QED BY <1>0, <2>1, <2>2, <2>3, <2>4, <2>5, <2>6, <2>8
<1>4. CASE CheckPair
  <2>1. /\ pc = "pair" /\ UNCHANGED <<given, disk, made, ep, request, sent>>
        /\ \/ /\ pc' = "idle" /\ connected' = TRUE
              /\ (options.cert = Empty) = (options.key = Empty)
           \/ pc' = "unmade" /\ connected' = FALSE
    BY <1>4 DEF CheckPair, requireClientCertPair
  <2>2. GivenOK' BY <2>1 DEF given, GivenOK
  <2>3. TypeOK' BY <2>1 DEF TypeOK, disk, made
  <2>4. Channel' BY <2>1 DEF Channel
  <2>5. Filed' BY <2>1 DEF Filed
  <2>6. \A kind \in {"ca", "cert", "key"} : AsFiled(kind)'
    BY <1>0, <2>1, FiledKept DEF Filed, given, made
  <2>7. ChannelAsFiled' BY <2>1, <2>6 DEF ChannelAsFiled, made
  <2>8. Rightful(auth_token_)'
    BY <1>0, <2>1, RightfulKept DEF Carried, given, made
  <2>9. Carried' BY <2>1, <2>8 DEF Carried, made
  <2> QED BY <1>0, <2>1, <2>2, <2>3, <2>4, <2>5, <2>7, <2>9
<1>5. ASSUME NEW o \in Ops, Call(o) PROVE IInv'
  <2>1. /\ pc = "idle" /\ pc' \in {"idle", "call"}
        /\ UNCHANGED <<given, disk, made, connected>>
        /\ protocol = "grpc" => UNCHANGED ep
    BY <1>5 DEF Call
  <2>2. GivenOK' BY <2>1 DEF given, GivenOK
  <2>3. TypeOK'
    BY <1>5, EndpointType, ConfigAssumption DEF Call, TypeOK, disk, made, given, buildRequest
  <2>4. Channel' BY <2>1 DEF Channel, given
  <2>5. Filed' BY <2>1 DEF Filed
  <2>6. \A kind \in {"ca", "cert", "key"} : AsFiled(kind) => AsFiled(kind)'
    BY <1>0, <2>1, FiledKept DEF given, made
  <2>7. ChannelAsFiled' BY <2>1, <2>6 DEF ChannelAsFiled, made, given
  <2>8. Rightful(auth_token_)'
    BY <1>0, <2>1, RightfulKept DEF Carried, given, made
  <2>9. Carried' BY <1>5, <2>8 DEF Call, Carried, made, buildRequest
  <2> QED BY <1>0, <2>1, <2>2, <2>3, <2>4, <2>5, <2>7, <2>9
<1>6. CASE Connect \/ Send \/ GiveUp \/ Drop
  <2>1. /\ UNCHANGED <<given, disk, made, ep>>
        /\ request' \cup sent' \subseteq request \cup sent
        /\ \/ pc = "call" /\ pc' = "call" /\ connected' = TRUE
           \/ pc = "call" /\ pc' = "idle" /\ UNCHANGED connected
           \/ protocol = "http" /\ UNCHANGED pc /\ connected' = FALSE /\ UNCHANGED <<request, sent>>
    BY <1>6 DEF Connect, Send, GiveUp, Drop
  <2>2. GivenOK' BY <2>1 DEF given, GivenOK
  <2>3. TypeOK' BY <2>1 DEF TypeOK, disk, made
  <2>4. Channel' BY <2>1 DEF Channel, given, made
  <2>5. \A kind \in {"ca", "cert", "key"} : AsFiled(kind) => AsFiled(kind)'
    BY <1>0, <2>1, FiledKept DEF given, made
  <2>6. Filed' BY <2>1, <2>5 DEF Filed
  <2>7. ChannelAsFiled'
    BY <2>1, <2>5 DEF ChannelAsFiled, Channel, made, given
  <2>8. pc' \notin {"token", "unmade"} => Rightful(auth_token_)'
    BY <1>0, <2>1, RightfulKept DEF Carried, given, made
  <2>9. Carried' BY <2>1, <2>8 DEF Carried, made
  <2> QED BY <1>0, <2>1, <2>2, <2>3, <2>4, <2>6, <2>7, <2>9
<1>7. ASSUME NEW kind \in Kinds, NEW c \in Contents[kind], Write(kind, c) PROVE IInv'
  <2>1. /\ UNCHANGED <<given, made, pc, ep, connected, request, sent>>
        /\ writes < MaxWrites /\ writes' = writes + 1
        /\ files' = [files EXCEPT ![kind] = c]
        /\ held' = [held EXCEPT ![kind] = held[kind] \cup ({c} \ {Missing})]
    BY <1>7 DEF Write
  <2>2. GivenOK' BY <2>1 DEF given, GivenOK
  <2>3. held \in [Kinds -> SUBSET Text] /\ Contents[kind] \subseteq Text \cup {Missing}
    BY ConfigAssumption DEF TypeOK
  <2>4. /\ held' \in [Kinds -> SUBSET Text]
        /\ \A k \in Kinds : held[k] \subseteq held'[k]
        /\ c # Missing => c \in held'[kind]
    BY <2>1, <2>3
  <2>5. TypeOK'
    BY <1>7, <2>1, <2>4, ConfigAssumption DEF TypeOK, made, Write
  <2>6. HeldOK'
    BY <2>1, <2>4, ConfigAssumption DEF HeldOK, TypeOK
  <2>7. Channel' BY <2>1 DEF Channel, given, made
  <2>8. \A k \in {"ca", "cert", "key"} : AsFiled(k) => AsFiled(k)'
    BY <2>1, <2>4, FiledKept DEF given, made
  <2>9. Filed' BY <2>1, <2>8 DEF Filed
  <2>10. ChannelAsFiled' BY <2>1, <2>8 DEF ChannelAsFiled, made, given
  <2>11. pc' \notin {"token", "unmade"} => Rightful(auth_token_)'
    BY <2>1, <2>4, RightfulKept DEF Carried, given, made
  <2>12. Carried' BY <2>1, <2>11 DEF Carried, made
  <2> QED BY <2>2, <2>5, <2>6, <2>7, <2>9, <2>10, <2>12
<1>8. CASE UNCHANGED vars
  BY <1>8 DEF vars, given, disk, made, TypeOK, GivenOK, HeldOK, Channel, Filed,
              ChannelAsFiled, AsFiled, Carried, Rightful, Named
<1> QED BY <1>1, <1>2, <1>3, <1>4, <1>5, <1>6, <1>7, <1>8 DEF Next

\* The inductive invariant holds throughout.
LEMMA Inductive == Spec => []IInv
BY InitIInv, NextIInv, PTL DEF Spec

\* The state keeps its types: a file that cannot be read, or a port that is no
\* int, never gets past its exception.
THEOREM TypeCorrect == Spec => []TypeOK
BY Inductive, PTL DEF IInv

\* makeChannelCredentials: whatever happens to the files between its reads, a
\* secure channel has of each named file what the file has held, nothing of the
\* others, and both a certificate and a key or neither.
THEOREM ChannelOfFiles == Spec => []ChannelAsFiled
BY Inductive, PTL DEF IInv

\* readSecretFromEnvOrFile: every request carries a token of the right source.
THEOREM RightfulToken == Spec => []TokenFromItsSource
<1>1. IInv => TokenFromItsSource
  BY DEF IInv, Carried, TokenFromItsSource
<1> QED BY <1>1, Inductive, PTL

----------------------------------------------------------------------------
(* Places in a sequence, and words with a slash before each.                *)

\* The first place of a mark.
LEMMA FirstPlace ==
  ASSUME NEW s, NEW mark, Len(s) \in Nat
  PROVE  /\ (\A k \in 1 .. Len(s) : s[k] # mark) => FirstAt(mark, s) = 0
         /\ \A n \in 1 .. Len(s) : s[n] = mark /\ (\A k \in 1 .. n - 1 : s[k] # mark) => FirstAt(mark, s) = n
<1> DEFINE I == {i \in 1 .. Len(s) : s[i] = mark}
<1>1. FirstAt(mark, s) = IF I # {} THEN Min(I) ELSE 0
  BY Zenon DEF FirstAt, SelectInSeq
<1>2. ASSUME \A k \in 1 .. Len(s) : s[k] # mark
      PROVE  FirstAt(mark, s) = 0
  BY <1>1, <1>2
<1>3. ASSUME NEW n \in 1 .. Len(s), s[n] = mark, \A k \in 1 .. n - 1 : s[k] # mark
      PROVE  FirstAt(mark, s) = n
  <2>1. n \in I /\ \A y \in I : n <= y
    BY <1>3
  <2>2. \A x \in I : (\A y \in I : x <= y) => x = n
    BY <2>1
  <2> HIDE DEF I
  <2>3. Min(I) = n
    BY <2>1, <2>2, Zenon DEF Min
  <2> QED
    BY <1>1, <2>1, <2>3
<1> QED
  BY <1>2, <1>3

\* The last place that is no slash.
LEMMA LastPlace ==
  ASSUME NEW s, Len(s) \in Nat, NEW n \in 0 .. Len(s),
         n > 0 => s[n] # "/", \A k \in n + 1 .. Len(s) : s[k] = "/"
  PROVE  SelectLastInSeq(s, LAMBDA x : x # "/") = n
<1> DEFINE I == {i \in 1 .. Len(s) : s[i] # "/"}
<1>1. SelectLastInSeq(s, LAMBDA x : x # "/") = IF I # {} THEN Max(I) ELSE 0
  BY Zenon DEF SelectLastInSeq
<1>2. CASE n = 0
  <2>1. I = {}
    BY <1>2
  <2> QED
    BY <1>1, <1>2, <2>1
<1>3. CASE n > 0
  <2>1. n \in I /\ \A y \in I : n >= y
    BY <1>3
  <2>2. \A x \in I : (\A y \in I : x >= y) => x = n
    BY <2>1
  <2> HIDE DEF I
  <2>3. Max(I) = n
    BY <2>1, <2>2, Zenon DEF Max
  <2> QED
    BY <1>1, <2>1, <2>3
<1> QED
  BY <1>2, <1>3

\* Words with a slash before each.
LEMMA SlashedPlaces ==
  ASSUME NEW S, NEW words \in Seq(S)
  PROVE  /\ Slashed(words) \in Seq(S \cup {"/"})
         /\ Len(Slashed(words)) = 2 * Len(words)
         /\ \A k \in 1 .. Len(words) : Slashed(words)[2 * k - 1] = "/" /\ Slashed(words)[2 * k] = words[k]
<1> DEFINE W == S \cup {"/"}
           L == Len(words)
           pairs == [n \in 1 .. L |-> <<"/", words[n]>>]
<1>1. L \in Nat /\ \A n \in 1 .. L : words[n] \in W
  OBVIOUS
<1>2. \A n \in 1 .. L : <<"/", words[n]>> \in Seq(W)
  BY <1>1
<1>3. pairs \in Seq(Seq(W)) /\ Len(pairs) = L /\ \A n \in 1 .. L : pairs[n] = <<"/", words[n]>>
  <2> HIDE DEF W
  <2> QED
    BY <1>1, <1>2
<1>4. Slashed(words) = FlattenSeq(pairs)
  BY DEF Slashed
<1> HIDE DEF pairs, W, L
<1>5. PICK flat : Flattens(flat, W, pairs)
  BY <1>3, FlattenSteps
<1> DEFINE T == {n \in Nat : n <= L =>
                   /\ flat[n] \in Seq(W) /\ Len(flat[n]) = 2 * n
                   /\ \A k \in 1 .. n : flat[n][2 * k - 1] = "/" /\ flat[n][2 * k] = words[k]}
<1>6. 0 \in T
  BY <1>5 DEF Flattens
<1>7. ASSUME NEW n \in Nat, n \in T
      PROVE  n + 1 \in T
  <2> SUFFICES ASSUME n + 1 <= L
               PROVE  /\ flat[n + 1] \in Seq(W) /\ Len(flat[n + 1]) = 2 * (n + 1)
                      /\ \A k \in 1 .. n + 1 : /\ flat[n + 1][2 * k - 1] = "/"
                                               /\ flat[n + 1][2 * k] = words[k]
    OBVIOUS
  <2> DEFINE a == flat[n]
             b == pairs[n + 1]
  <2>1. /\ a \in Seq(W) /\ Len(a) = 2 * n
        /\ \A k \in 1 .. n : a[2 * k - 1] = "/" /\ a[2 * k] = words[k]
    BY <1>1, <1>7
  <2> HIDE DEF T
  <2>2. flat[n + 1] = a \o b
    <3>1. n \in Nat /\ n < Len(pairs)
      BY <1>1, <1>3
    <3> QED
      BY <1>5, <3>1 DEF Flattens
  <2>3. n + 1 \in 1 .. L
    BY <1>1
  <2>4. b = <<"/", words[n + 1]>> /\ b \in Seq(W)
    BY <1>2, <1>3, <2>3
  <2>5. Len(b) = 2 /\ b[1] = "/" /\ b[2] = words[n + 1]
    BY <2>4
  <2> HIDE DEF a, b
  <2>6. /\ a \o b \in Seq(W) /\ Len(a \o b) = Len(a) + Len(b)
        /\ \A i \in 1 .. Len(a) + Len(b) : (a \o b)[i] = IF i <= Len(a) THEN a[i] ELSE b[i - Len(a)]
    BY <2>1, <2>4, ConcatProperties
  <2>7. ASSUME NEW k \in 1 .. n + 1
        PROVE  (a \o b)[2 * k - 1] = "/" /\ (a \o b)[2 * k] = words[k]
    <3>1. CASE k <= n
      <4>1. k \in 1 .. n /\ 2 * k - 1 \in 1 .. Len(a) + Len(b) /\ 2 * k \in 1 .. Len(a) + Len(b)
            /\ 2 * k - 1 <= Len(a) /\ 2 * k <= Len(a)
        BY <2>1, <2>5, <3>1
      <4> QED
        BY <2>1, <2>6, <4>1
    <3>2. CASE k = n + 1
      <4>1. 2 * k - 1 \in 1 .. Len(a) + Len(b) /\ 2 * k \in 1 .. Len(a) + Len(b)
            /\ ~(2 * k - 1 <= Len(a)) /\ ~(2 * k <= Len(a))
            /\ (2 * k - 1) - Len(a) = 1 /\ 2 * k - Len(a) = 2
        BY <2>1, <2>5, <3>2
      <4> QED
        BY <2>5, <2>6, <3>2, <4>1
    <3>3. k <= n \/ k = n + 1
      OBVIOUS
    <3> QED
      BY <3>1, <3>2, <3>3, Zenon
  <2>8. Len(a \o b) = 2 * (n + 1)
    BY <2>1, <2>5, <2>6
  <2> QED
    BY <2>2, <2>6, <2>7, <2>8, Zenon
<1>8. Nat \subseteq T
  BY <1>6, <1>7, SetInduction
<1>9. L \in T
  BY <1>1, <1>8
<1>10. FlattenSeq(pairs) = flat[L]
  BY <1>3, <1>5 DEF Flattens
<1> QED
  BY <1>1, <1>4, <1>9, <1>10 DEF W, L

\* Every place of a slashed sequence is one of a pair.
LEMMA Halves ==
  ASSUME NEW L \in Nat, NEW i \in 1 .. 2 * L
  PROVE  \E k \in 1 .. L : i = 2 * k - 1 \/ i = 2 * k
<1> DEFINE q == ((i - 1) \div 2) + 1
           r == ((i - 1) % 2) + 1
<1>1. q \in 1 .. L /\ r \in 1 .. 2 /\ (q - 1) * 2 + r = i
  <2>1. 2 \in {1, 2, 4, 8} /\ i \in 1 .. L * 2
    OBVIOUS
  <2> QED
    BY <2>1, Division
<1> HIDE DEF q, r
<1>2. i = 2 * q - 1 \/ i = 2 * q
  BY <1>1
<1> QED
  BY <1>1, <1>2

\* Only one sequence has these words with a slash before each.
LEMMA SlashedUnique ==
  ASSUME NEW S, NEW words \in Seq(S), NEW t \in Seq(S \cup {"/"}), Len(t) = 2 * Len(words),
         \A k \in 1 .. Len(words) : t[2 * k - 1] = "/" /\ t[2 * k] = words[k]
  PROVE  t = Slashed(words)
<1> DEFINE a == Slashed(words)
<1>1. /\ a \in Seq(S \cup {"/"}) /\ Len(a) = 2 * Len(words)
      /\ \A k \in 1 .. Len(words) : a[2 * k - 1] = "/" /\ a[2 * k] = words[k]
  BY SlashedPlaces
<1> HIDE DEF a
<1>2. Len(words) \in Nat
  OBVIOUS
<1>3. ASSUME NEW i \in 1 .. Len(t)
      PROVE  t[i] = a[i]
  <2>1. PICK k \in 1 .. Len(words) : i = 2 * k - 1 \/ i = 2 * k
    BY <1>2, Halves
  <2> QED
    BY <1>1, <2>1
<1>4. t = a
  BY <1>1, <1>3, SeqEqual
<1> QED
  BY <1>4 DEF a

\* Slashing goes word by word.
LEMMA SlashedConcat ==
  ASSUME NEW S, NEW s \in Seq(S), NEW t \in Seq(S)
  PROVE  Slashed(s \o t) = Slashed(s) \o Slashed(t)
<1> DEFINE W == S \cup {"/"}
           a == Slashed(s)
           b == Slashed(t)
           st == s \o t
<1>1. /\ a \in Seq(W) /\ Len(a) = 2 * Len(s)
      /\ \A k \in 1 .. Len(s) : a[2 * k - 1] = "/" /\ a[2 * k] = s[k]
  BY SlashedPlaces
<1>2. /\ b \in Seq(W) /\ Len(b) = 2 * Len(t)
      /\ \A k \in 1 .. Len(t) : b[2 * k - 1] = "/" /\ b[2 * k] = t[k]
  BY SlashedPlaces
<1>3. /\ st \in Seq(S) /\ Len(st) = Len(s) + Len(t)
      /\ \A i \in 1 .. Len(s) + Len(t) : st[i] = IF i <= Len(s) THEN s[i] ELSE t[i - Len(s)]
  BY ConcatProperties
<1> HIDE DEF a, b, W, st
<1>4. /\ a \o b \in Seq(W) /\ Len(a \o b) = Len(a) + Len(b)
      /\ \A i \in 1 .. Len(a) + Len(b) : (a \o b)[i] = IF i <= Len(a) THEN a[i] ELSE b[i - Len(a)]
  BY <1>1, <1>2, ConcatProperties
<1>5. Len(s) \in Nat /\ Len(t) \in Nat
  OBVIOUS
<1>6. ASSUME NEW k \in 1 .. Len(st)
      PROVE  (a \o b)[2 * k - 1] = "/" /\ (a \o b)[2 * k] = st[k]
  <2>1. CASE k <= Len(s)
    <3>1. k \in 1 .. Len(s) /\ 2 * k - 1 \in 1 .. Len(a) + Len(b) /\ 2 * k \in 1 .. Len(a) + Len(b)
          /\ 2 * k - 1 <= Len(a) /\ 2 * k <= Len(a)
      BY <1>1, <1>2, <1>3, <1>5, <2>1
    <3> QED
      BY <1>1, <1>3, <1>4, <2>1, <3>1
  <2>2. CASE k > Len(s)
    <3> DEFINE m == k - Len(s)
    <3>1. /\ m \in 1 .. Len(t) /\ 2 * k - 1 \in 1 .. Len(a) + Len(b)
          /\ 2 * k \in 1 .. Len(a) + Len(b)
          /\ ~(2 * k - 1 <= Len(a)) /\ ~(2 * k <= Len(a))
          /\ (2 * k - 1) - Len(a) = 2 * m - 1 /\ 2 * k - Len(a) = 2 * m
      BY <1>1, <1>2, <1>3, <1>5, <2>2
    <3>2. st[k] = t[m]
      BY <1>3, <2>2
    <3> HIDE DEF m
    <3> QED
      BY <1>2, <1>4, <3>1, <3>2
  <2>3. k <= Len(s) \/ k > Len(s)
    BY <1>3, <1>5
  <2> QED
    BY <2>1, <2>2, <2>3, Zenon
<1>7. Len(a \o b) = 2 * Len(st)
  BY <1>1, <1>2, <1>3, <1>4, <1>5
<1>8. a \o b = Slashed(st)
  BY <1>3, <1>4, <1>6, <1>7, SlashedUnique DEF W
<1> QED
  BY <1>8 DEF a, b, st

----------------------------------------------------------------------------
(* Reading a URL.                                                           *)

\* An address without a slash, and what follows it.
LEMMA Addressed ==
  ASSUME NEW S, NEW a \in Seq(S), NEW z \in Seq(S), \A k \in 1 .. Len(a) : a[k] # "/",
         z # <<>> => z[1] = "/"
  PROVE  /\ FirstAt("/", a \o z) = IF z = <<>> THEN 0 ELSE Len(a) + 1
         /\ Before(a \o z, FirstAt("/", a \o z)) = a
<1> DEFINE v == a \o z
<1>1. /\ v \in Seq(S) /\ Len(v) = Len(a) + Len(z)
      /\ \A i \in 1 .. Len(a) + Len(z) : v[i] = IF i <= Len(a) THEN a[i] ELSE z[i - Len(a)]
  BY ConcatProperties
<1>2. Len(a) \in Nat /\ Len(z) \in Nat /\ Len(v) \in Nat
  BY <1>1
<1>3. CASE z = <<>>
  <2>1. v = a
    BY <1>3, ConcatEmptySeq
  <2>2. FirstAt("/", a) = 0
    BY <1>2, FirstPlace
  <2> QED
    BY <1>3, <2>1, <2>2 DEF Before
<1>4. CASE z # <<>>
  <2>1. Len(z) >= 1
    BY <1>2, <1>4, EmptySeq
  <2> HIDE DEF v
  <2>2. Len(a) + 1 \in 1 .. Len(v) /\ (Len(a) + 1) - 1 = Len(a) /\ (Len(a) + 1) - Len(a) = 1
    BY <1>1, <1>2, <2>1
  <2>3. v[Len(a) + 1] = "/"
    BY <1>1, <1>2, <1>4, <2>1, <2>2
  <2>4. \A k \in 1 .. Len(a) : v[k] = a[k]
    BY <1>1, <1>2
  <2>5. FirstAt("/", v) = Len(a) + 1
    BY <1>2, <2>2, <2>3, <2>4, FirstPlace
  <2>6. Len(a) + 1 # 0
    BY <1>2
  <2>7. Before(v, Len(a) + 1) = SubSeq(v, 1, Len(a))
    BY <2>2, <2>6 DEF Before
  <2>8. SubSeq(v, 1, Len(a)) = a
    <3> DEFINE n == Len(a)
               p == SubSeq(v, 1, n)
    <3>1. \A i \in 1 .. n : v[i] \in S
      BY <1>1, <1>2
    <3>2. /\ p \in Seq(S) /\ Len(p) = IF 1 <= n THEN n - 1 + 1 ELSE 0
          /\ \A i \in 1 .. n - 1 + 1 : p[i] = v[1 + i - 1]
      BY <1>2, <3>1, SubSeqProperties
    <3>3. n - 1 + 1 = n /\ (IF 1 <= n THEN n - 1 + 1 ELSE 0) = n
          /\ \A i \in 1 .. n : 1 + i - 1 = i
      BY <1>2
    <3> HIDE DEF p
    <3>4. p = a
      BY <2>4, <3>2, <3>3, SeqEqual
    <3> QED
      BY <3>4 DEF p
  <2> QED
    BY <1>4, <2>5, <2>7, <2>8 DEF v
<1> QED
  BY <1>3, <1>4

\* v is made of a, x and d.
Made(v, a, x, d) ==
  /\ Len(v) = Len(a) + Len(x) + Len(d)
  /\ \A i \in 1 .. Len(a) : v[i] = a[i]
  /\ \A i \in 1 .. Len(x) : v[Len(a) + i] = x[i]
  /\ \A i \in 1 .. Len(d) : v[Len(a) + Len(x) + i] = d[i]
  /\ SubSeq(v, Len(a) + 1, Len(a) + Len(x)) = x

\* A sequence in the middle of others.
LEMMA Middle ==
  ASSUME NEW S, NEW a \in Seq(S), NEW x \in Seq(S), NEW d \in Seq(S)
  PROVE  a \o (x \o d) \in Seq(S) /\ Made(a \o (x \o d), a, x, d)
<1> DEFINE xd == x \o d
           v == a \o xd
<1>1. Len(a) \in Nat /\ Len(x) \in Nat /\ Len(d) \in Nat
  OBVIOUS
<1>2. /\ xd \in Seq(S) /\ Len(xd) = Len(x) + Len(d)
      /\ \A i \in 1 .. Len(x) + Len(d) : xd[i] = IF i <= Len(x) THEN x[i] ELSE d[i - Len(x)]
  BY ConcatProperties
<1> HIDE DEF xd
<1>3. /\ v \in Seq(S) /\ Len(v) = Len(a) + Len(xd)
      /\ \A i \in 1 .. Len(a) + Len(xd) : v[i] = IF i <= Len(a) THEN a[i] ELSE xd[i - Len(a)]
  <2>1. xd \in Seq(S)
    BY <1>2
  <2> QED
    BY <2>1, ConcatProperties
<1> HIDE DEF v
<1>4. \A i \in 1 .. Len(a) : v[i] = a[i]
  BY <1>1, <1>2, <1>3
<1>5. ASSUME NEW i \in 1 .. Len(x)
      PROVE  v[Len(a) + i] = x[i]
  <2>1. /\ Len(a) + i \in 1 .. Len(a) + Len(xd) /\ ~(Len(a) + i <= Len(a))
        /\ (Len(a) + i) - Len(a) = i /\ i \in 1 .. Len(x) + Len(d) /\ i <= Len(x)
    BY <1>1, <1>2
  <2> QED
    BY <1>2, <1>3, <2>1
<1>6. ASSUME NEW i \in 1 .. Len(d)
      PROVE  v[Len(a) + Len(x) + i] = d[i]
  <2> DEFINE j == Len(a) + Len(x) + i
             k == Len(x) + i
  <2>1. /\ j \in 1 .. Len(a) + Len(xd) /\ ~(j <= Len(a))
        /\ j - Len(a) = k /\ k \in 1 .. Len(x) + Len(d) /\ ~(k <= Len(x)) /\ k - Len(x) = i
    BY <1>1, <1>2
  <2> HIDE DEF j, k
  <2>2. v[j] = d[i]
    BY <1>2, <1>3, <2>1
  <2> QED
    BY <2>2 DEF j
<1>7. SubSeq(v, Len(a) + 1, Len(a) + Len(x)) = x
  <2> DEFINE m == Len(a) + 1
             n == Len(a) + Len(x)
             p == SubSeq(v, m, n)
  <2>1. m \in Int /\ n \in Int /\ n - m + 1 = Len(x) /\ (IF m <= n THEN n - m + 1 ELSE 0) = Len(x)
        /\ \A i \in 1 .. Len(x) : m + i - 1 = Len(a) + i
    BY <1>1
  <2>2. \A i \in m .. n : v[i] \in S
    BY <1>1, <1>2, <1>3
  <2> HIDE DEF m, n
  <2>3. /\ p \in Seq(S) /\ Len(p) = IF m <= n THEN n - m + 1 ELSE 0
        /\ \A i \in 1 .. n - m + 1 : p[i] = v[m + i - 1]
    BY <2>1, <2>2, SubSeqProperties
  <2> HIDE DEF p
  <2>4. p \in Seq(S) /\ Len(p) = Len(x) /\ \A i \in 1 .. Len(p) : p[i] = x[i]
    BY <1>5, <2>1, <2>3
  <2>5. p = x
    BY <2>4, SeqEqual
  <2> QED
    BY <2>5 DEF p, m, n
<1>8. Len(v) = Len(a) + Len(x) + Len(d)
  BY <1>1, <1>2, <1>3
<1> QED
  BY <1>3, <1>4, <1>5, <1>6, <1>7, <1>8, Zenon DEF Made, v, xd

\* The slashes at the end are dropped, and nothing else.
LEMMA WithoutSlashes ==
  ASSUME NEW S, "/" \in S, NEW a \in Seq(S), NEW words \in Seq(S), NEW d \in Seq(S),
         \A k \in 1 .. Len(a) : a[k] # "/", \A k \in 1 .. Len(words) : words[k] # "/",
         \A k \in 1 .. Len(d) : d[k] = "/"
  PROVE  LET v == a \o (Slashed(words) \o d)
         IN SubSeq(v, Len(a) + 1, SelectLastInSeq(v, LAMBDA x : x # "/")) = Slashed(words)
<1> DEFINE x == Slashed(words)
           v == a \o (x \o d)
           n == Len(a) + Len(x)
<1>1. /\ x \in Seq(S) /\ Len(x) = 2 * Len(words)
      /\ \A k \in 1 .. Len(words) : x[2 * k] = words[k]
  <2>1. S \cup {"/"} = S
    OBVIOUS
  <2> QED
    BY <2>1, SlashedPlaces
<1> HIDE DEF x
<1>2. Len(a) \in Nat /\ Len(words) \in Nat /\ Len(d) \in Nat /\ Len(x) \in Nat
  BY <1>1
<1>3. /\ Len(v) = Len(a) + Len(x) + Len(d)
      /\ \A i \in 1 .. Len(a) : v[i] = a[i]
      /\ \A i \in 1 .. Len(x) : v[Len(a) + i] = x[i]
      /\ \A i \in 1 .. Len(d) : v[Len(a) + Len(x) + i] = d[i]
      /\ SubSeq(v, Len(a) + 1, n) = x
  <2>1. x \in Seq(S)
    BY <1>1
  <2>2. Made(v, a, x, d)
    BY <2>1, Middle
  <2> HIDE DEF v
  <2> QED
    BY <2>2 DEF Made
<1> HIDE DEF v
<1>4. Len(v) \in Nat /\ n \in 0 .. Len(v)
  BY <1>2, <1>3
<1>5. n > 0 => v[n] # "/"
  <2>1. CASE Len(words) = 0
    BY <1>1, <1>2, <1>3, <2>1
  <2>2. CASE Len(words) > 0
    <3>1. Len(words) \in 1 .. Len(words) /\ 2 * Len(words) = Len(x) /\ Len(x) \in 1 .. Len(x)
      BY <1>1, <1>2, <2>2
    <3>2. v[n] = x[Len(x)]
      BY <1>3, <3>1
    <3>3. x[Len(x)] = words[Len(words)]
      BY <1>1, <3>1
    <3> QED
      BY <3>1, <3>2, <3>3
  <2> QED
    BY <1>2, <2>1, <2>2
<1>6. ASSUME NEW k \in n + 1 .. Len(v)
      PROVE  v[k] = "/"
  <2> DEFINE i == k - n
  <2>1. i \in 1 .. Len(d) /\ k = Len(a) + Len(x) + i
    BY <1>2, <1>3
  <2> HIDE DEF i
  <2> QED
    BY <1>3, <2>1
<1> HIDE DEF n
<1>7. SelectLastInSeq(v, LAMBDA y : y # "/") = n
  BY <1>4, <1>5, <1>6, LastPlace
<1> QED
  BY <1>3, <1>7 DEF v, x

\* The words and separators of URLs, and their parts as they are written.
Piece == STRING \cup Separators
PortPart(u) == IF u.port = NoText THEN <<>> ELSE <<":", u.port>>
Address(u) == u.host \o PortPart(u)
Dashes(u) == [n \in 1 .. u.slashes |-> "/"]
Rest(u) == Slashed(u.path) \o Dashes(u)
Value(u) == Address(u) \o Rest(u)

\* The parts are sequences of pieces, and slashes are only where a path is.
LEMMA UrlParts ==
  ASSUME NEW u \in Urls
  PROVE  /\ u.host \in Seq(Piece) /\ PortPart(u) \in Seq(Piece) /\ Address(u) \in Seq(Piece)
         /\ u.path \in Seq(Piece) /\ Slashed(u.path) \in Seq(Piece) /\ Dashes(u) \in Seq(Piece)
         /\ Rest(u) \in Seq(Piece) /\ Value(u) \in Seq(Piece)
         /\ \A k \in 1 .. Len(u.host) : u.host[k] # "/"
         /\ \A k \in 1 .. Len(Address(u)) : Address(u)[k] # "/"
         /\ \A k \in 1 .. Len(u.path) : u.path[k] # "/"
         /\ \A k \in 1 .. Len(Dashes(u)) : Dashes(u)[k] = "/"
         /\ Rest(u) # <<>> => Rest(u)[1] = "/"
<1> DEFINE x == Slashed(u.path)
           d == Dashes(u)
           a == Address(u)
<1>1. /\ u \in UrlType /\ u.port \notin Separators
      /\ {"/", NoText} \cap Range(u.host) = {} /\ {"/", NoText} \cap Range(u.path) = {}
  BY UrlsAssumption
<1>2. u.port \in STRING /\ u.host \in Seq(STRING) /\ u.path \in Seq(STRING) /\ u.slashes \in Nat
  BY <1>1 DEF UrlType
<1>3. ASSUME NEW s \in Seq(STRING), {"/", NoText} \cap Range(s) = {}
      PROVE  s \in Seq(Piece) /\ Len(s) \in Nat /\ \A k \in 1 .. Len(s) : s[k] # "/"
  <2>1. Len(s) \in Nat /\ s \in [1 .. Len(s) -> STRING] /\ DOMAIN s = 1 .. Len(s)
    BY LenProperties
  <2>2. s \in [1 .. Len(s) -> Piece]
    BY <2>1 DEF Piece
  <2>3. \A k \in 1 .. Len(s) : s[k] \in Range(s)
    BY <2>1 DEF Range
  <2> QED
    BY <1>3, <2>1, <2>2, <2>3, SeqDef
<1>4. /\ u.host \in Seq(Piece) /\ Len(u.host) \in Nat
      /\ \A k \in 1 .. Len(u.host) : u.host[k] # "/"
  BY <1>1, <1>2, <1>3
<1>5. /\ u.path \in Seq(Piece) /\ Len(u.path) \in Nat
      /\ \A k \in 1 .. Len(u.path) : u.path[k] # "/"
  BY <1>1, <1>2, <1>3
<1>6. "/" \in Piece /\ ":" \in Piece /\ u.port \in Piece
  BY <1>2 DEF Piece, Separators
<1>7. PortPart(u) \in Seq(Piece) /\ Len(PortPart(u)) \in Nat
      /\ \A k \in 1 .. Len(PortPart(u)) : PortPart(u)[k] # "/"
  <2>1. CASE u.port = NoText
    BY <2>1 DEF PortPart
  <2>2. CASE u.port # NoText
    <3> DEFINE p == <<":", u.port>>
    <3>1. PortPart(u) = p
      BY <2>2 DEF PortPart
    <3>2. p \in Seq(Piece) /\ Len(p) = 2 /\ p[1] = ":" /\ p[2] = u.port
      BY <1>6
    <3>3. u.port # "/"
      BY <1>1 DEF Separators
    <3> HIDE DEF p
    <3> QED
      BY <3>1, <3>2, <3>3
  <2> QED
    BY <2>1, <2>2
<1>8. a \in Seq(Piece) /\ \A k \in 1 .. Len(a) : a[k] # "/"
  <2>1. /\ a \in Seq(Piece) /\ Len(a) = Len(u.host) + Len(PortPart(u))
        /\ \A k \in 1 .. Len(u.host) + Len(PortPart(u)) :
             a[k] = IF k <= Len(u.host) THEN u.host[k] ELSE PortPart(u)[k - Len(u.host)]
    BY <1>4, <1>7, ConcatProperties DEF Address
  <2> HIDE DEF a
  <2>2. ASSUME NEW k \in 1 .. Len(a)
        PROVE  a[k] # "/"
    <3>1. CASE k <= Len(u.host)
      <4>1. k \in 1 .. Len(u.host) /\ k \in 1 .. Len(u.host) + Len(PortPart(u))
        BY <1>4, <1>7, <2>1, <3>1
      <4> QED
        BY <1>4, <2>1, <3>1, <4>1
    <3>2. CASE ~(k <= Len(u.host))
      <4>1. k - Len(u.host) \in 1 .. Len(PortPart(u)) /\ k \in 1 .. Len(u.host) + Len(PortPart(u))
        BY <1>4, <1>7, <2>1, <3>2
      <4> QED
        BY <1>7, <2>1, <3>2, <4>1
    <3> QED
      BY <3>1, <3>2
  <2> QED
    BY <2>1, <2>2
<1>9. /\ x \in Seq(Piece) /\ Len(x) = 2 * Len(u.path)
      /\ Len(u.path) >= 1 => x[1] = "/"
  <2>1. Piece \cup {"/"} = Piece
    BY <1>6
  <2>2. /\ x \in Seq(Piece) /\ Len(x) = 2 * Len(u.path)
        /\ \A k \in 1 .. Len(u.path) : x[2 * k - 1] = "/"
    BY <1>5, <2>1, SlashedPlaces
  <2> HIDE DEF x
  <2>3. Len(u.path) >= 1 => 1 \in 1 .. Len(u.path) /\ 2 * 1 - 1 = 1
    BY <1>5
  <2> QED
    BY <2>2, <2>3
<1>10. d \in Seq(Piece) /\ Len(d) \in Nat /\ \A k \in 1 .. Len(d) : d[k] = "/"
  <2> DEFINE n == u.slashes
  <2>1. n \in Nat /\ d = [k \in 1 .. n |-> "/"]
    BY <1>2 DEF Dashes
  <2> HIDE DEF n
  <2>2. d \in [1 .. n -> Piece] /\ \A k \in 1 .. n : d[k] = "/"
    <3> HIDE DEF d
    <3> QED
      BY <1>6, <2>1
  <2>3. d \in Seq(Piece) /\ Len(d) = n
    <3> HIDE DEF d
    <3> QED
      BY <2>1, <2>2, SeqDef, LenProperties
  <2> HIDE DEF d
  <2> QED
    BY <2>1, <2>2, <2>3
<1>11. Rest(u) = x \o d
  BY DEF Rest
<1> HIDE DEF x, d, a
<1>12. /\ x \o d \in Seq(Piece) /\ Len(x \o d) = Len(x) + Len(d)
       /\ \A k \in 1 .. Len(x) + Len(d) : (x \o d)[k] = IF k <= Len(x) THEN x[k] ELSE d[k - Len(x)]
  BY <1>9, <1>10, ConcatProperties
<1>13. ASSUME x \o d # <<>> PROVE (x \o d)[1] = "/"
  <2>1. Len(x \o d) # 0
    BY <1>12, <1>13, EmptySeq
  <2>2. CASE Len(u.path) >= 1
    <3>1. 1 \in 1 .. Len(x) + Len(d) /\ 1 <= Len(x)
      BY <1>5, <1>9, <1>10, <2>2
    <3> QED
      BY <1>9, <1>12, <2>2, <3>1
  <2>3. CASE ~(Len(u.path) >= 1)
    <3>1. Len(x) = 0 /\ 1 \in 1 .. Len(x) + Len(d) /\ ~(1 <= Len(x)) /\ 1 - Len(x) = 1
          /\ 1 \in 1 .. Len(d)
      BY <1>5, <1>9, <1>10, <1>12, <2>1, <2>3
    <3> QED
      BY <1>10, <1>12, <3>1
  <2> QED
    BY <2>2, <2>3
<1>14. a \o (x \o d) \in Seq(Piece)
  BY <1>8, <1>12, ConcatProperties
<1>15. Value(u) = a \o (x \o d)
  BY <1>11 DEF Value, a
<1> QED
  BY <1>4, <1>5, <1>7, <1>8, <1>9, <1>10, <1>11, <1>12, <1>13, <1>14, <1>15 DEF x, d, a

\* The scheme comes before the value.
LEMMA WrittenAs ==
  ASSUME NEW u \in Urls
  PROVE  /\ u.scheme = NoText => Written(u) = Value(u)
         /\ u.scheme # NoText => /\ <<u.scheme, ":", "/", "/">> \in Seq(Piece)
                                 /\ Written(u) = <<u.scheme, ":", "/", "/">> \o Value(u)
<1> DEFINE c == IF u.scheme = NoText THEN <<>> ELSE <<u.scheme, ":", "/", "/">>
           h == u.host
           p == PortPart(u)
           x == Slashed(u.path)
           d == Dashes(u)
<1>1. u.scheme \in Piece /\ "/" \in Piece /\ ":" \in Piece
  BY UrlsAssumption DEF UrlType, Piece, Separators
<1>2. <<u.scheme, ":", "/", "/">> \in Seq(Piece) /\ <<>> \in Seq(Piece)
  BY <1>1
<1>3. c \in Seq(Piece) /\ h \in Seq(Piece) /\ p \in Seq(Piece) /\ x \in Seq(Piece) /\ d \in Seq(Piece)
  BY <1>2, UrlParts
<1>4. Written(u) = (((c \o h) \o p) \o x) \o d
  BY Zenon DEF Written, PortPart, Dashes
<1>5. Value(u) = (h \o p) \o (x \o d)
  BY DEF Value, Address, Rest
<1>6. (c = <<>> <=> u.scheme = NoText) /\ (u.scheme # NoText => c = <<u.scheme, ":", "/", "/">>)
  BY <1>2
<1> HIDE DEF c, h, p, x, d
<1> DEFINE hp == h \o p
           hpx == hp \o x
<1>7. hp \in Seq(Piece)
  BY <1>3, ConcatProperties
<1>8. (c \o h) \o p = c \o hp
  BY <1>3, ConcatAssociative, SMTT(60)
<1> HIDE DEF hp
<1>9. hpx \in Seq(Piece)
  BY <1>3, <1>7, ConcatProperties
<1>10. (c \o hp) \o x = c \o hpx
  <2>1. c \in Seq(Piece) /\ x \in Seq(Piece)
    BY <1>3
  <2> QED
    BY <1>7, <2>1, ConcatAssociative, SMTT(60)
<1>11. hpx \o d = hp \o (x \o d)
  <2>1. x \in Seq(Piece) /\ d \in Seq(Piece)
    BY <1>3
  <2> QED
    BY <1>7, <2>1, ConcatAssociative, SMTT(60)
<1> HIDE DEF hpx
<1>12. (c \o hpx) \o d = c \o (hpx \o d)
  BY <1>3, <1>9, ConcatAssociative, SMTT(60)
<1>13. Written(u) = c \o Value(u)
  BY <1>4, <1>5, <1>8, <1>10, <1>11, <1>12 DEF hp
<1>14. u.scheme = NoText => Written(u) = Value(u)
  <2>1. Value(u) \in Seq(Piece)
    BY UrlParts
  <2> QED
    BY <1>6, <1>13, <2>1, ConcatEmptySeq
<1> QED
  BY <1>2, <1>6, <1>13, <1>14

\* A known scheme is stripped.
LEMMA KnownScheme ==
  ASSUME NEW u \in Urls, u.scheme \in KnownSchemes
  PROVE  LET s == Written(u) IN HasScheme(s) /\ s[1] = u.scheme /\ stripScheme(s) = Value(u)
<1> DEFINE c == <<u.scheme, ":", "/", "/">>
           v == Value(u)
           s == c \o v
<1>1. u.scheme # NoText
  BY UrlsAssumption
<1>2. c \in Seq(Piece) /\ Written(u) = s
  BY <1>1, WrittenAs
<1>3. v \in Seq(Piece) /\ Len(v) \in Nat
  <2>1. v \in Seq(Piece)
    BY UrlParts
  <2> HIDE DEF v
  <2> QED
    BY <2>1
<1>4. Len(c) = 4 /\ c[1] = u.scheme /\ c[2] = ":" /\ c[3] = "/" /\ c[4] = "/"
  OBVIOUS
<1> HIDE DEF c, v
<1>5. s \in Seq(Piece) /\ Made(s, c, v, <<>>)
  <2>1. <<>> \in Seq(Piece) /\ v \o <<>> = v
    BY <1>3, ConcatEmptySeq
  <2>2. c \o (v \o <<>>) \in Seq(Piece) /\ Made(c \o (v \o <<>>), c, v, <<>>)
    BY <1>2, <1>3, <2>1, Middle
  <2> QED
    BY <2>1, <2>2
<1> HIDE DEF s
<1>6. Len(s) = 4 + Len(v) /\ s[1] = u.scheme /\ s[2] = ":" /\ s[3] = "/" /\ s[4] = "/"
  <2>1. Len(<<>>) = 0 /\ 1 \in 1 .. 4 /\ 2 \in 1 .. 4 /\ 3 \in 1 .. 4 /\ 4 \in 1 .. 4
    OBVIOUS
  <2>2. \A i \in 1 .. 4 : s[i] = c[i]
    BY <1>4, <1>5 DEF Made
  <2>3. Len(s) = 4 + Len(v) + 0
    BY <1>4, <1>5, <2>1 DEF Made
  <2>4. s[1] = c[1] /\ s[2] = c[2] /\ s[3] = c[3] /\ s[4] = c[4]
    BY <2>1, <2>2
  <2> QED
    BY <1>3, <1>4, <2>3, <2>4
<1>7. SubSeq(s, 5, Len(s)) = v
  <2>1. SubSeq(s, Len(c) + 1, Len(c) + Len(v)) = v
    BY <1>5 DEF Made
  <2>2. Len(c) + 1 = 5 /\ Len(c) + Len(v) = Len(s)
    BY <1>4, <1>6
  <2> QED
    BY <2>1, <2>2
<1>8. SubSeq(s, 2, 4) = <<":", "/", "/">>
  <2> DEFINE p == SubSeq(s, 2, 4)
             q == <<":", "/", "/">>
  <2>1. \A i \in 2 .. 4 : s[i] \in Piece
    BY <1>3, <1>5, <1>6
  <2>2. /\ p \in Seq(Piece) /\ Len(p) = IF 2 <= 4 THEN 4 - 2 + 1 ELSE 0
        /\ \A i \in 1 .. 4 - 2 + 1 : p[i] = s[2 + i - 1]
    BY <2>1, SubSeqProperties
  <2>3. q \in Seq(Piece) /\ Len(q) = 3 /\ q[1] = ":" /\ q[2] = "/" /\ q[3] = "/"
    BY DEF Piece, Separators
  <2> HIDE DEF p, q
  <2>4. Len(p) = 3 /\ p[1] = s[2] /\ p[2] = s[3] /\ p[3] = s[4]
    BY <2>2
  <2>5. \A i \in 1 .. Len(p) : p[i] = q[i]
    BY <1>6, <2>3, <2>4
  <2>6. p = q
    BY <2>2, <2>3, <2>4, <2>5, SeqEqual
  <2> QED
    BY <2>6 DEF p, q
<1>9. HasScheme(s)
  BY <1>3, <1>6, <1>8 DEF HasScheme
<1> QED
  BY <1>2, <1>6, <1>7, <1>9 DEF stripScheme, From, v

\* Without a scheme there is nothing to strip.
LEMMA BareScheme ==
  ASSUME NEW u \in Urls, u.scheme = NoText
  PROVE  Written(u) = Value(u) /\ ~HasScheme(Written(u)) /\ stripScheme(Written(u)) = Value(u)
<1> DEFINE v == Value(u)
           a == Address(u)
           z == Rest(u)
           h == u.host
<1>1. Written(u) = v
  BY WrittenAs
<1>2. /\ v = a \o z /\ v \in Seq(Piece) /\ a \in Seq(Piece) /\ z \in Seq(Piece) /\ h \in Seq(Piece)
      /\ \A k \in 1 .. Len(a) : a[k] # "/"
      /\ z # <<>> => z[1] = "/"
  BY UrlParts DEF Value
<1>3. Len(v) \in Nat /\ Len(a) \in Nat /\ Len(z) \in Nat /\ Len(h) \in Nat
  <2> HIDE DEF v, a, z, h
  <2> QED
    BY <1>2
<1>4. /\ Len(v) = Len(a) + Len(z)
      /\ \A i \in 1 .. Len(a) + Len(z) : v[i] = IF i <= Len(a) THEN a[i] ELSE z[i - Len(a)]
  <2> HIDE DEF v, a, z
  <2> QED
    BY <1>2, ConcatProperties
<1>5. (u.port = NoText => a = h) /\ (u.port # NoText => a = h \o <<":", u.port>>)
  <2>1. h \o <<>> = h
    BY <1>2, ConcatEmptySeq
  <2> QED
    BY <2>1 DEF Address, PortPart
<1>6. \A n \in 1 .. Len(h) : h[n] = ":" /\ (\A k \in 1 .. n - 1 : h[k] # ":") => n < Len(h)
  BY UrlsAssumption
<1>7. ":" \notin KnownSchemes /\ "/" \notin KnownSchemes
  BY DEF KnownSchemes
<1> HIDE DEF v, a, z, h
<1>8. ASSUME HasScheme(v) PROVE FALSE
  <2>1. Len(v) >= 4 /\ v[1] \in KnownSchemes /\ SubSeq(v, 2, 4) = <<":", "/", "/">>
    BY <1>8 DEF HasScheme
  <2>2. v[2] = ":" /\ v[3] = "/"
    <3> DEFINE p == SubSeq(v, 2, 4)
    <3>1. \A i \in 2 .. 4 : v[i] \in Piece
      BY <1>2, <1>3, <2>1, SMTT(30)
    <3>2. \A i \in 1 .. 4 - 2 + 1 : p[i] = v[2 + i - 1]
      BY <3>1, SubSeqProperties
    <3>3. p = <<":", "/", "/">>
      BY <2>1
    <3> HIDE DEF p
    <3>4. p[1] = v[2] /\ p[2] = v[3]
      BY <3>2
    <3>5. p[1] = ":" /\ p[2] = "/"
      BY <3>3
    <3> QED
      BY <3>4, <3>5
  <2>3. Len(a) = 2
    <3>1. ASSUME Len(a) >= 3 PROVE FALSE
      <4>1. 3 \in 1 .. Len(a) /\ 3 \in 1 .. Len(a) + Len(z) /\ 3 <= Len(a)
        BY <1>3, <3>1
      <4>2. v[3] = a[3] /\ a[3] # "/"
        BY <1>2, <1>4, <4>1
      <4> QED
        BY <2>2, <4>2
    <3>2. ASSUME Len(a) < 2 PROVE FALSE
      <4> DEFINE n == Len(a) + 1
      <4>1. /\ n \in 1 .. Len(a) + Len(z) /\ ~(n <= Len(a)) /\ n - Len(a) = 1
            /\ Len(z) # 0 /\ (n = 1 \/ n = 2)
        BY <1>3, <1>4, <2>1, <3>2
      <4> HIDE DEF n
      <4>2. z # <<>>
        BY <4>1
      <4>3. v[n] = "/"
        BY <1>2, <1>4, <4>1, <4>2
      <4> QED
        BY <1>7, <2>1, <2>2, <4>1, <4>3
    <3>3. Len(a) >= 3 \/ Len(a) < 2 \/ Len(a) = 2
      <4>1. \A k \in Nat : k >= 3 \/ k < 2 \/ k = 2
        OBVIOUS
      <4> QED
        BY <1>3, <4>1, Zenon
    <3> QED
      BY <3>1, <3>2, <3>3, Zenon
  <2>4. a[1] \in KnownSchemes /\ a[2] = ":"
    <3>1. /\ 1 \in 1 .. Len(a) + Len(z) /\ 1 <= Len(a)
          /\ 2 \in 1 .. Len(a) + Len(z) /\ 2 <= Len(a)
      BY <1>3, <2>3
    <3>2. v[1] = a[1] /\ v[2] = a[2]
      BY <1>4, <3>1
    <3> QED
      BY <2>1, <2>2, <3>2
  <2>5. CASE u.port = NoText
    <3>1. h = a
      BY <1>5, <2>5
    <3>2. Len(h) = 2 /\ h[1] # ":" /\ h[2] = ":"
      BY <1>7, <2>3, <2>4, <3>1
    <3>3. 2 \in 1 .. Len(h) /\ \A k \in 1 .. 2 - 1 : h[k] # ":"
      BY <3>2
    <3>4. 2 < Len(h)
      BY <1>6, <3>2, <3>3
    <3> QED
      BY <3>2, <3>4
  <2>6. CASE u.port # NoText
    <3> DEFINE p == <<":", u.port>>
    <3>1. p \in Seq(Piece) /\ Len(p) = 2 /\ p[1] = ":"
      BY <2>6, UrlParts DEF PortPart
    <3>2. a = h \o p
      BY <1>5, <2>6
    <3> HIDE DEF p
    <3>3. /\ Len(h \o p) = Len(h) + Len(p)
          /\ \A i \in 1 .. Len(h) + Len(p) : (h \o p)[i] = IF i <= Len(h) THEN h[i] ELSE p[i - Len(h)]
      BY <1>2, <3>1, ConcatProperties
    <3>4. Len(h) = 0
      BY <1>3, <2>3, <3>1, <3>2, <3>3
    <3>5. 1 \in 1 .. Len(h) + Len(p) /\ ~(1 <= Len(h)) /\ 1 - Len(h) = 1
      BY <3>1, <3>4
    <3>6. a[1] = ":"
      BY <3>1, <3>2, <3>3, <3>5
    <3> QED
      BY <1>7, <2>4, <3>6
  <2> QED
    BY <2>5, <2>6
<1> QED
  BY <1>1, <1>8 DEF stripScheme, v

\* Under a scheme that is not known no endpoint is found.
LEMMA ForeignScheme ==
  ASSUME NEW u \in Urls, u.scheme \notin KnownSchemes, u.scheme # NoText
  PROVE  EndpointThrows(Written(u))
<1> DEFINE c == <<u.scheme, ":", "/", "/">>
           a == <<u.scheme, ":">>
           b == <<"/", "/">>
           v == Value(u)
           z == b \o v
           s == Written(u)
<1>1. s = c \o v
  BY WrittenAs
<1>2. u.scheme \in Piece /\ ":" \in Piece /\ "/" \in Piece /\ u.scheme # ":" /\ u.scheme # "/"
  BY UrlsAssumption DEF UrlType, Piece, Separators
<1>3. a \in Seq(Piece) /\ b \in Seq(Piece) /\ c \in Seq(Piece)
  BY <1>2
<1>4. Len(a) = 2 /\ a[1] = u.scheme /\ a[2] = ":" /\ Len(b) = 2 /\ b[1] = "/"
  OBVIOUS
<1>5. c = a \o b
  <2>1. /\ Len(a \o b) = Len(a) + Len(b) /\ a \o b \in Seq(Piece)
        /\ \A i \in 1 .. Len(a) + Len(b) : (a \o b)[i] = IF i <= Len(a) THEN a[i] ELSE b[i - Len(a)]
    BY <1>3, ConcatProperties
  <2>2. Len(c) = 4 /\ c[1] = u.scheme /\ c[2] = ":" /\ c[3] = "/" /\ c[4] = "/" /\ b[2] = "/"
    OBVIOUS
  <2> HIDE DEF a, b, c
  <2> DEFINE ab == a \o b
  <2> HIDE DEF ab
  <2>3. Len(ab) = 4 /\ ab[1] = a[1] /\ ab[2] = a[2] /\ ab[3] = b[1] /\ ab[4] = b[2]
    BY <1>4, <2>1 DEF ab
  <2>4. \A i \in 1 .. Len(c) : c[i] = ab[i]
    BY <1>4, <2>2, <2>3
  <2>5. c = ab
    BY <1>3, <2>1, <2>2, <2>3, <2>4, SeqEqual DEF ab
  <2> QED
    BY <2>5 DEF ab
<1>6. v \in Seq(Piece) /\ Len(v) \in Nat
  <2>1. v \in Seq(Piece)
    BY UrlParts
  <2> HIDE DEF v
  <2> QED
    BY <2>1
<1> HIDE DEF a, b, c, v
<1>7. s = a \o z
  <2>1. (a \o b) \o v = a \o (b \o v)
    BY <1>3, <1>6, ConcatAssociative, SMTT(60)
  <2> QED
    BY <1>1, <1>5, <2>1
<1>8. z \in Seq(Piece) /\ z # <<>> /\ z[1] = "/" /\ Len(z) \in Nat
  <2>1. /\ z \in Seq(Piece) /\ Len(z) = Len(b) + Len(v)
        /\ \A i \in 1 .. Len(b) + Len(v) : z[i] = IF i <= Len(b) THEN b[i] ELSE v[i - Len(b)]
    BY <1>3, <1>6, ConcatProperties
  <2> HIDE DEF z
  <2>2. 1 \in 1 .. Len(b) + Len(v) /\ 1 <= Len(b) /\ Len(z) >= 2
    BY <1>4, <1>6, <2>1
  <2>3. z[1] = "/" /\ Len(z) \in Nat
    BY <1>4, <2>1, <2>2
  <2>4. z # <<>>
    BY <2>2
  <2> QED
    BY <2>1, <2>3, <2>4
<1> HIDE DEF z, s
<1>9. s[1] = u.scheme
  <2>1. \A i \in 1 .. Len(a) + Len(z) : (a \o z)[i] = IF i <= Len(a) THEN a[i] ELSE z[i - Len(a)]
    BY <1>3, <1>8, ConcatProperties
  <2>2. 1 \in 1 .. Len(a) + Len(z) /\ 1 <= Len(a)
    BY <1>4, <1>8
  <2> QED
    BY <1>4, <1>7, <2>1, <2>2
<1>10. stripScheme(s) = s
  BY <1>9 DEF stripScheme, HasScheme
<1>11. Authority(s) = a
  <2>1. \A k \in 1 .. Len(a) : a[k] # "/"
    BY <1>2, <1>4
  <2>2. Before(a \o z, FirstAt("/", a \o z)) = a
    BY <1>3, <1>8, <2>1, Addressed
  <2> QED
    BY <1>7, <1>10, <2>2 DEF Authority
<1>12. FirstAt(":", a) = 2
  <2>1. Len(a) \in Nat /\ 2 \in 1 .. Len(a) /\ a[2] = ":" /\ \A k \in 1 .. 2 - 1 : a[k] # ":"
    BY <1>2, <1>4
  <2> QED
    BY <2>1, FirstPlace
<1>13. PortText(s) = <<>>
  <2>1. SubSeq(a, 2 + 1, Len(a)) = <<>>
    BY <1>4, SubSeqEmpty
  <2> QED
    BY <1>11, <1>12, <2>1 DEF PortText, From
<1>14. HasPort(s)
  BY <1>11, <1>12 DEF HasPort
<1> QED
  BY <1>13, <1>14 DEF EndpointThrows, s

\* The authority and the path prefix, once the scheme is gone.
LEMMA ReadValue ==
  ASSUME NEW u \in Urls, NEW s, stripScheme(s) = Value(u)
  PROVE  Authority(s) = Address(u) /\ PathPrefix(s) = Slashed(u.path)
<1> DEFINE a == Address(u)
           x == Slashed(u.path)
           d == Dashes(u)
           z == Rest(u)
           v == a \o z
<1>1. /\ a \in Seq(Piece) /\ z \in Seq(Piece) /\ u.path \in Seq(Piece) /\ d \in Seq(Piece)
      /\ x \in Seq(Piece)
  BY UrlParts
<1>2. /\ \A k \in 1 .. Len(a) : a[k] # "/"
      /\ \A k \in 1 .. Len(u.path) : u.path[k] # "/"
      /\ \A k \in 1 .. Len(d) : d[k] = "/"
      /\ z # <<>> => z[1] = "/"
  BY UrlParts
<1>3. z = x \o d /\ stripScheme(s) = v
  BY DEF Rest, Value
<1>4. "/" \in Piece
  BY DEF Piece, Separators
<1> HIDE DEF a, z, d
<1>5. FirstAt("/", v) = (IF z = <<>> THEN 0 ELSE Len(a) + 1) /\ Before(v, FirstAt("/", v)) = a
  BY <1>1, <1>2, Addressed
<1>6. Authority(s) = a
  BY <1>3, <1>5 DEF Authority
<1>7. SubSeq(v, Len(a) + 1, SelectLastInSeq(v, LAMBDA y : y # "/")) = x
  BY <1>1, <1>2, <1>3, <1>4, WithoutSlashes
<1>8. z = <<>> => x = <<>>
  <2> HIDE DEF x
  <2>1. Len(x) \in Nat /\ Len(d) \in Nat /\ Len(x \o d) = Len(x) + Len(d)
    BY <1>1, ConcatProperties
  <2>2. z = <<>> => Len(x) = 0
    BY <1>3, <2>1
  <2> QED
    BY <1>1, <2>2, EmptySeq
<1>9. Len(a) \in Nat
  BY <1>1
<1> HIDE DEF v, x
<1>10. PathPrefix(s) = IF FirstAt("/", v) = 0 THEN <<>>
                       ELSE SubSeq(v, FirstAt("/", v), SelectLastInSeq(v, LAMBDA y : y # "/"))
  BY <1>3, Zenon DEF PathPrefix
<1>11. PathPrefix(s) = x
  <2>1. CASE z = <<>>
    BY <1>5, <1>8, <1>10, <2>1
  <2>2. CASE z # <<>>
    <3>1. FirstAt("/", v) = Len(a) + 1 /\ Len(a) + 1 # 0
      BY <1>5, <1>9, <2>2
    <3> QED
      BY <1>7, <1>10, <3>1
  <2> QED
    BY <2>1, <2>2
<1> QED
  BY <1>6, <1>11 DEF a, x

\* The host and the port's text; a colon in the host ends in an exception.
LEMMA ReadAddress ==
  ASSUME NEW u \in Urls, NEW s, Authority(s) = Address(u), ~EndpointThrows(s)
  PROVE  /\ ":" \notin Range(u.host)
         /\ Before(Authority(s), FirstAt(":", Authority(s))) = u.host
         /\ u.port = NoText => ~HasPort(s)
         /\ u.port # NoText => HasPort(s) /\ PortText(s)[1] = u.port /\ PortText(s) # <<>>
<1> DEFINE h == u.host
           p == PortPart(u)
           a == Address(u)
<1>1. h \in Seq(Piece) /\ p \in Seq(Piece) /\ a \in Seq(Piece) /\ a = h \o p
  BY UrlParts DEF Address
<1>2. /\ u.port = NoText => p = <<>>
      /\ u.port # NoText => Len(p) = 2 /\ p[1] = ":" /\ p[2] = u.port
  BY DEF PortPart
<1>3. \A n \in 1 .. Len(h) : h[n] = ":" /\ (\A k \in 1 .. n - 1 : h[k] # ":") =>
        n < Len(h) /\ h[n + 1] \notin DOMAIN LeadingNumber
  BY UrlsAssumption
<1> HIDE DEF h, p, a
<1>4. Len(h) \in Nat /\ Len(p) \in Nat /\ Len(a) \in Nat
  BY <1>1
<1>5. /\ Len(a) = Len(h) + Len(p)
      /\ \A i \in 1 .. Len(h) + Len(p) : a[i] = IF i <= Len(h) THEN h[i] ELSE p[i - Len(h)]
  BY <1>1, ConcatProperties
<1>6. \A i \in 1 .. Len(h) : a[i] = h[i]
  BY <1>4, <1>5
<1>7. ASSUME NEW n \in 1 .. Len(h), h[n] = ":", \A k \in 1 .. n - 1 : h[k] # ":"
      PROVE  FALSE
  <2>1. n < Len(h) /\ h[n + 1] \notin DOMAIN LeadingNumber
    BY <1>3, <1>7
  <2>2. n \in 1 .. Len(a) /\ n + 1 \in 1 .. Len(h) /\ \A k \in 1 .. n - 1 : k \in 1 .. Len(h)
    BY <1>4, <1>5, <2>1
  <2>3. a[n] = ":" /\ a[n + 1] = h[n + 1] /\ \A k \in 1 .. n - 1 : a[k] # ":"
    BY <1>6, <1>7, <2>2
  <2>4. FirstAt(":", a) = n
    BY <1>4, <2>2, <2>3, FirstPlace
  <2>5. n # 0 /\ n + 1 \in Int
    OBVIOUS
  <2>6. HasPort(s) /\ PortText(s) = SubSeq(a, n + 1, Len(a))
    BY <2>4, <2>5 DEF HasPort, PortText, From, a
  <2> DEFINE q == SubSeq(a, n + 1, Len(a))
  <2>7. \A i \in n + 1 .. Len(a) : a[i] \in Piece
    BY <1>1, <1>4
  <2>8. /\ Len(q) = IF n + 1 <= Len(a) THEN Len(a) - (n + 1) + 1 ELSE 0
        /\ \A i \in 1 .. Len(a) - (n + 1) + 1 : q[i] = a[n + 1 + i - 1]
    BY <1>4, <2>7, SubSeqProperties
  <2>9. 1 \in 1 .. Len(a) - (n + 1) + 1 /\ n + 1 + 1 - 1 = n + 1
    BY <1>4, <1>5, <2>1
  <2> HIDE DEF q
  <2>10. q[1] = a[n + 1]
    BY <2>8, <2>9
  <2>11. PortText(s)[1] \notin DOMAIN LeadingNumber
    BY <2>1, <2>3, <2>6, <2>10 DEF q
  <2> QED
    BY <2>6, <2>11 DEF EndpointThrows
<1>8. \A n \in 1 .. Len(h) : h[n] # ":"
  <2> DEFINE T == {n \in Nat : \A k \in 1 .. n : k <= Len(h) => h[k] # ":"}
  <2>1. 0 \in T
    OBVIOUS
  <2>2. ASSUME NEW n \in Nat, n \in T
        PROVE  n + 1 \in T
    <3>1. \A k \in 1 .. n : k <= Len(h) => h[k] # ":"
      BY <2>2
    <3>2. n + 1 <= Len(h) => h[n + 1] # ":"
      <4> SUFFICES ASSUME n + 1 <= Len(h), h[n + 1] = ":" PROVE FALSE
        OBVIOUS
      <4>1. n + 1 \in 1 .. Len(h) /\ \A k \in 1 .. (n + 1) - 1 : h[k] # ":"
        BY <1>4, <3>1
      <4> QED
        BY <1>7, <4>1
    <3>3. \A k \in 1 .. n + 1 : k \in 1 .. n \/ k = n + 1
      OBVIOUS
    <3> QED
      BY <3>1, <3>2, <3>3
  <2>3. Nat \subseteq T
    BY <2>1, <2>2, SetInduction
  <2>4. Len(h) \in T
    BY <1>4, <2>3
  <2> QED
    BY <1>4, <2>4
<1>9. ":" \notin Range(h)
  BY <1>1, <1>8, LenProperties DEF Range
<1>10. CASE u.port = NoText
  <2>1. a = h
    BY <1>1, <1>2, <1>10, ConcatEmptySeq
  <2>2. FirstAt(":", a) = 0
    BY <1>4, <1>8, <2>1, FirstPlace
  <2> QED
    BY <1>9, <1>10, <2>1, <2>2 DEF HasPort, Before, h, a
<1>11. CASE u.port # NoText
  <2> DEFINE n == Len(h) + 1
  <2>1. Len(p) = 2 /\ p[1] = ":" /\ p[2] = u.port
    BY <1>2, <1>11
  <2>2. /\ n \in 1 .. Len(a) /\ ~(n <= Len(h)) /\ n - Len(h) = 1 /\ n - 1 = Len(h) /\ n # 0
        /\ n \in 1 .. Len(h) + Len(p) /\ n + 1 = Len(a) /\ n + 1 \in 1 .. Len(h) + Len(p)
        /\ ~(n + 1 <= Len(h)) /\ (n + 1) - Len(h) = 2 /\ n + 1 \in Int
    BY <1>4, <1>5, <2>1
  <2>3. a[n] = ":" /\ a[n + 1] = u.port
    <3> HIDE DEF n
    <3> QED
      BY <1>5, <2>1, <2>2
  <2>4. FirstAt(":", a) = n
    <3>1. \A k \in 1 .. n - 1 : a[k] # ":"
      BY <1>6, <1>8, <2>2
    <3> HIDE DEF n
    <3> QED
      BY <1>4, <2>2, <2>3, <3>1, FirstPlace
  <2>5. Before(a, n) = h
    <3>1. Before(a, n) = SubSeq(a, 1, Len(h))
      BY <2>2 DEF Before
    <3> DEFINE m == Len(h)
               q == SubSeq(a, 1, m)
    <3>2. m \in Int /\ \A i \in 1 .. m : a[i] \in Piece
      BY <1>1, <1>4, <1>5
    <3>3. /\ q \in Seq(Piece) /\ Len(q) = IF 1 <= m THEN m - 1 + 1 ELSE 0
          /\ \A i \in 1 .. m - 1 + 1 : q[i] = a[1 + i - 1]
      BY <3>2, SubSeqProperties
    <3>4. m - 1 + 1 = m /\ (IF 1 <= m THEN m - 1 + 1 ELSE 0) = m /\ \A i \in 1 .. m : 1 + i - 1 = i
      BY <1>4
    <3> HIDE DEF q
    <3>5. Len(q) = Len(h) /\ \A i \in 1 .. Len(q) : q[i] = h[i]
      BY <1>6, <3>3, <3>4
    <3>6. q = h
      BY <1>1, <3>3, <3>5, SeqEqual
    <3> QED
      BY <3>1, <3>6 DEF q
  <2> HIDE DEF n
  <2>6. HasPort(s) /\ PortText(s) = SubSeq(a, n + 1, n + 1)
    BY <2>2, <2>4 DEF HasPort, PortText, From, a
  <2> DEFINE q == SubSeq(a, n + 1, n + 1)
  <2>7. q[1] = u.port /\ Len(q) = 1
    <3> DEFINE m == n + 1
    <3>1. m \in Int /\ a[m] = u.port
      BY <2>2, <2>3
    <3>2. a[m] \in Piece
      BY <1>1, <1>4, <2>2
    <3> HIDE DEF m
    <3>3. \A i \in m .. m : a[i] \in Piece
      BY <3>1, <3>2
    <3>4. /\ Len(SubSeq(a, m, m)) = IF m <= m THEN m - m + 1 ELSE 0
          /\ \A i \in 1 .. m - m + 1 : SubSeq(a, m, m)[i] = a[m + i - 1]
      BY <3>1, <3>3, SubSeqProperties
    <3>5. m - m + 1 = 1 /\ m + 1 - 1 = m /\ (IF m <= m THEN m - m + 1 ELSE 0) = 1 /\ 1 \in 1 .. 1
      BY <3>1
    <3>6. Len(SubSeq(a, m, m)) = 1 /\ SubSeq(a, m, m)[1] = a[m]
      BY <3>4, <3>5
    <3> QED
      BY <3>1, <3>6 DEF m
  <2> HIDE DEF q
  <2>8. q # <<>>
    BY <2>7
  <2> QED
    BY <1>9, <1>11, <2>4, <2>5, <2>6, <2>7, <2>8 DEF q, h, a
<1> QED
  BY <1>10, <1>11

\* parseEndpoint finds what the URL means, or throws.
LEMMA EndpointMeant ==
  ASSUME NEW u \in Urls, NEW default_port, ~EndpointThrows(Written(u))
  PROVE  LET e == parseEndpoint(Written(u), default_port) IN
         /\ ~Meaningless(u)
         /\ e.host = u.host
         /\ e.port = IF u.port # NoText THEN LeadingNumber[u.port] ELSE default_port
         /\ e.tls = (u.scheme \in {"https", "grpcs"})
         /\ e.path_prefix = Slashed(u.path)
<1> DEFINE s == Written(u)
           e == parseEndpoint(s, default_port)
<1>1. u.scheme \in KnownSchemes \/ u.scheme = NoText
  BY ForeignScheme
<1>2. stripScheme(s) = Value(u)
  BY <1>1, KnownScheme, BareScheme
<1>3. Tls(s) = (u.scheme \in {"https", "grpcs"})
  <2>1. CASE u.scheme \in KnownSchemes
    BY <2>1, KnownScheme DEF Tls
  <2>2. CASE u.scheme = NoText
    <3>1. u.scheme \notin {"https", "grpcs"}
      BY <2>2, UrlsAssumption DEF KnownSchemes
    <3> QED
      BY <2>2, <3>1, BareScheme DEF Tls
  <2> QED
    BY <1>1, <2>1, <2>2
<1> HIDE DEF s
<1>4. Authority(s) = Address(u) /\ PathPrefix(s) = Slashed(u.path)
  BY <1>2, ReadValue
<1>5. ~EndpointThrows(s)
  BY DEF s
<1>6. /\ ":" \notin Range(u.host)
      /\ Before(Authority(s), FirstAt(":", Authority(s))) = u.host
      /\ u.port = NoText => ~HasPort(s)
      /\ u.port # NoText => HasPort(s) /\ PortText(s)[1] = u.port /\ PortText(s) # <<>>
  BY <1>4, <1>5, ReadAddress
<1>7. u.port # NoText => u.port \in DOMAIN LeadingNumber /\ ~(LeadingNumber[u.port] > IntMax)
  BY <1>5, <1>6 DEF EndpointThrows
<1>8. ~Meaningless(u)
  BY <1>1, <1>6, <1>7 DEF Meaningless
<1>9. /\ e.host = Before(Authority(s), FirstAt(":", Authority(s)))
      /\ e.port = IF HasPort(s) THEN LeadingNumber[PortText(s)[1]] ELSE default_port
      /\ e.path_prefix = PathPrefix(s)
      /\ e.tls = Tls(s)
  BY DEF parseEndpoint
<1> HIDE DEF e
<1>10. e.port = IF u.port # NoText THEN LeadingNumber[u.port] ELSE default_port
  BY <1>6, <1>9
<1> QED
  BY <1>3, <1>4, <1>6, <1>8, <1>9, <1>10, Zenon DEF e, s

----------------------------------------------------------------------------
(* The paths of the operations.                                             *)

\* One, two and three words with a slash before each.
LEMMA SlashedWords ==
  ASSUME NEW S, NEW a \in S, NEW b \in S
  PROVE  /\ Slashed(<<>>) = <<>>
         /\ Slashed(<<a>>) = <<"/", a>>
         /\ Slashed(<<a, b>>) = <<"/", a, "/", b>>
<1> DEFINE W == S \cup {"/"}
<1>1. "/" \in W /\ a \in W /\ b \in W
  OBVIOUS
<1>2. Slashed(<<>>) = <<>>
  BY DEF Slashed, FlattenSeq
<1>3. Slashed(<<a>>) = <<"/", a>>
  <2> DEFINE w == <<a>>
             t == <<"/", a>>
  <2>1. w \in Seq(S) /\ Len(w) = 1 /\ w[1] = a
    OBVIOUS
  <2>2. t \in Seq(W) /\ Len(t) = 2 /\ t[1] = "/" /\ t[2] = a
    BY <1>1
  <2> HIDE DEF w, t
  <2>3. \A k \in 1 .. Len(w) : t[2 * k - 1] = "/" /\ t[2 * k] = w[k]
    <3>1. \A k \in 1 .. Len(w) : k = 1 /\ 2 * k - 1 = 1 /\ 2 * k = 2
      BY <2>1
    <3> QED
      BY <2>1, <2>2, <3>1
  <2>4. Len(t) = 2 * Len(w)
    BY <2>1, <2>2
  <2>5. t = Slashed(w)
    BY <2>1, <2>2, <2>3, <2>4, SlashedUnique
  <2> QED
    BY <2>5 DEF w, t
<1>4. Slashed(<<a, b>>) = <<"/", a, "/", b>>
  <2> DEFINE w == <<a, b>>
             t == <<"/", a, "/", b>>
  <2>1. w \in Seq(S) /\ Len(w) = 2 /\ w[1] = a /\ w[2] = b
    OBVIOUS
  <2>2. t \in Seq(W) /\ Len(t) = 4 /\ t[1] = "/" /\ t[2] = a /\ t[3] = "/" /\ t[4] = b
    BY <1>1
  <2> HIDE DEF w, t
  <2>3. \A k \in 1 .. Len(w) : t[2 * k - 1] = "/" /\ t[2 * k] = w[k]
    <3>1. \A k \in 1 .. Len(w) : \/ k = 1 /\ 2 * k - 1 = 1 /\ 2 * k = 2
                                 \/ k = 2 /\ 2 * k - 1 = 3 /\ 2 * k = 4
      BY <2>1
    <3> QED
      BY <2>1, <2>2, <3>1
  <2>4. Len(t) = 2 * Len(w)
    BY <2>1, <2>2
  <2>5. t = Slashed(w)
    BY <2>1, <2>2, <2>3, <2>4, SlashedUnique
  <2> QED
    BY <2>5 DEF w, t
<1> QED
  BY <1>2, <1>3, <1>4

\* A pair and two pairs are three.
LEMMA PairAndTwo ==
  ASSUME NEW a, NEW b, NEW c, NEW d, NEW e, NEW f
  PROVE  <<a, b>> \o <<c, d, e, f>> = <<a, b, c, d, e, f>>
<1> DEFINE S == {a, b, c, d, e, f}
           s == <<a, b>>
           t == <<c, d, e, f>>
           q == <<a, b, c, d, e, f>>
           p == s \o t
<1>1. s \in Seq(S) /\ Len(s) = 2 /\ s[1] = a /\ s[2] = b
  OBVIOUS
<1>2. t \in Seq(S) /\ Len(t) = 4
      /\ t[1] = c /\ t[2] = d /\ t[3] = e /\ t[4] = f
  OBVIOUS
<1>3. q \in Seq(S) /\ Len(q) = 6
      /\ q[1] = a /\ q[2] = b /\ q[3] = c /\ q[4] = d /\ q[5] = e /\ q[6] = f
  OBVIOUS
<1> HIDE DEF S, s, t, q
<1>4. /\ p \in Seq(S) /\ Len(p) = Len(s) + Len(t)
      /\ \A i \in 1 .. Len(s) + Len(t) : p[i] = IF i <= Len(s) THEN s[i] ELSE t[i - Len(s)]
  BY <1>1, <1>2, ConcatProperties
<1> HIDE DEF p
<1>5. Len(p) = 6 /\ \A i \in 1 .. 6 : p[i] = IF i <= 2 THEN s[i] ELSE t[i - 2]
  BY <1>1, <1>2, <1>4
<1>6. p[1] = a /\ p[2] = b /\ p[3] = c /\ p[4] = d /\ p[5] = e /\ p[6] = f
  BY <1>1, <1>2, <1>5
<1>7. \A i \in 1 .. Len(p) : p[i] = q[i]
  BY <1>3, <1>5, <1>6
<1>8. p = q
  BY <1>3, <1>4, <1>5, <1>7, SeqEqual
<1> QED
  BY <1>8 DEF p, q, s, t

\* A pair and three pairs are four.
LEMMA PairAndThree ==
  ASSUME NEW a, NEW b, NEW c, NEW d, NEW e, NEW f, NEW g, NEW h
  PROVE  <<a, b>> \o <<c, d, e, f, g, h>> = <<a, b, c, d, e, f, g, h>>
<1> DEFINE S == {a, b, c, d, e, f, g, h}
           s == <<a, b>>
           t == <<c, d, e, f, g, h>>
           q == <<a, b, c, d, e, f, g, h>>
           p == s \o t
<1>1. s \in Seq(S) /\ Len(s) = 2 /\ s[1] = a /\ s[2] = b
  OBVIOUS
<1>2. t \in Seq(S) /\ Len(t) = 6
      /\ t[1] = c /\ t[2] = d /\ t[3] = e /\ t[4] = f /\ t[5] = g /\ t[6] = h
  OBVIOUS
<1>3. q \in Seq(S) /\ Len(q) = 8
      /\ q[1] = a /\ q[2] = b /\ q[3] = c /\ q[4] = d /\ q[5] = e /\ q[6] = f /\ q[7] = g /\ q[8] = h
  OBVIOUS
<1> HIDE DEF S, s, t, q
<1>4. /\ p \in Seq(S) /\ Len(p) = Len(s) + Len(t)
      /\ \A i \in 1 .. Len(s) + Len(t) : p[i] = IF i <= Len(s) THEN s[i] ELSE t[i - Len(s)]
  BY <1>1, <1>2, ConcatProperties
<1> HIDE DEF p
<1>5. Len(p) = 8 /\ \A i \in 1 .. 8 : p[i] = IF i <= 2 THEN s[i] ELSE t[i - 2]
  BY <1>1, <1>2, <1>4
<1>6. p[1] = a /\ p[2] = b /\ p[3] = c /\ p[4] = d /\ p[5] = e /\ p[6] = f /\ p[7] = g /\ p[8] = h
  BY <1>1, <1>2, <1>5
<1>7. \A i \in 1 .. Len(p) : p[i] = q[i]
  BY <1>3, <1>5, <1>6
<1>8. p = q
  BY <1>3, <1>4, <1>5, <1>7, SeqEqual
<1> QED
  BY <1>8 DEF p, q, s, t

\* The paths are the resources, with a slash before each segment.
LEMMA PathsMatch ==
  ASSUME NEW o \in Ops
  PROVE  /\ Slashed(Resource(o)) = PathOf(o, "model", model_version_)
         /\ \E S : Resource(o) \in Seq(S)
<1> DEFINE v == model_version_
           W == {v, "v2", "health", "live", "ready", "models", "model", "versions", "infer",
                 "repository", "index", "load", "unload"}
           P == W \cup {"/"}
           bound == IF v = NoText THEN <<>> ELSE <<"versions", v>>
           model == <<"models", "model">>
           V == <<"/", "v2">>
           M == <<"/", "models", "/", "model">>
           B == IF v = NoText THEN <<>> ELSE <<"/", "versions", "/", v>>
           VM == <<"/", "v2", "/", "models", "/", "model">>
<1>1. /\ v \in W /\ "v2" \in W /\ "health" \in W /\ "live" \in W /\ "ready" \in W
      /\ "models" \in W /\ "model" \in W /\ "versions" \in W /\ "infer" \in W
      /\ "repository" \in W /\ "index" \in W /\ "load" \in W /\ "unload" \in W
  OBVIOUS
<1>2. "/" \in P /\ \A a \in W : a \in P
  OBVIOUS
<1> HIDE DEF W, P
<1>3. ASSUME NEW a \in W
      PROVE  <<a>> \in Seq(W) /\ Slashed(<<a>>) = <<"/", a>> /\ <<"/", a>> \in Seq(P)
  <2>1. <<a>> \in Seq(W)
    OBVIOUS
  <2>2. Slashed(<<a>>) = <<"/", a>>
    BY SlashedWords
  <2>3. <<"/", a>> \in Seq(P)
    BY <1>2
  <2> QED
    BY <2>1, <2>2, <2>3
<1>4. ASSUME NEW a \in W, NEW b \in W
      PROVE  <<a, b>> \in Seq(W) /\ Slashed(<<a, b>>) = <<"/", a, "/", b>>
             /\ <<"/", a, "/", b>> \in Seq(P)
  <2>1. <<a, b>> \in Seq(W)
    OBVIOUS
  <2>2. Slashed(<<a, b>>) = <<"/", a, "/", b>>
    BY SlashedWords
  <2>3. <<"/", a, "/", b>> \in Seq(P)
    <3>1. a \in P /\ b \in P /\ "/" \in P
      BY <1>2
    <3> QED
      BY <3>1
  <2> QED
    BY <2>1, <2>2, <2>3
<1>5. /\ <<"v2">> \in Seq(W) /\ Slashed(<<"v2">>) = V /\ V \in Seq(P)
      /\ model \in Seq(W) /\ Slashed(model) = M /\ M \in Seq(P)
  BY <1>1, <1>3, <1>4
<1>6. bound \in Seq(W) /\ Slashed(bound) = B /\ B \in Seq(P)
  <2>1. CASE v = NoText
    <3>1. bound = <<>> /\ B = <<>>
      BY <2>1
    <3>2. Slashed(<<>>) = <<>>
      BY <1>1, SlashedWords
    <3> QED
      BY <3>1, <3>2
  <2>2. CASE v # NoText
    <3>1. bound = <<"versions", v>> /\ B = <<"/", "versions", "/", v>>
      BY <2>2
    <3> HIDE DEF bound, B, v
    <3>2. /\ <<"versions", v>> \in Seq(W) /\ Slashed(<<"versions", v>>) = <<"/", "versions", "/", v>>
          /\ <<"/", "versions", "/", v>> \in Seq(P)
      BY <1>1, <1>4
    <3> QED
      BY <3>1, <3>2, Zenon
  <2> QED
    BY <2>1, <2>2
<1>7. V \o M = VM
  BY PairAndTwo
\* A resource of two more segments.
<1>8. ASSUME NEW a \in W, NEW b \in W
      PROVE  /\ Slashed(<<"v2">> \o <<a, b>>) = <<"/", "v2", "/", a, "/", b>>
             /\ <<"v2">> \o <<a, b>> \in Seq(W)
  <2>1. <<"v2">> \in Seq(W) /\ <<a, b>> \in Seq(W)
    BY <1>1
  <2>2. Slashed(<<"v2">> \o <<a, b>>) = Slashed(<<"v2">>) \o Slashed(<<a, b>>)
    BY <2>1, SlashedConcat
  <2>3. Slashed(<<"v2">> \o <<a, b>>) = V \o <<"/", a, "/", b>>
    BY <1>5, <1>4, <2>2, Zenon
  <2>4. V \o <<"/", a, "/", b>> = <<"/", "v2", "/", a, "/", b>>
    BY PairAndTwo
  <2>5. <<"v2">> \o <<a, b>> \in Seq(W)
    BY <1>5, <1>4, ConcatProperties
  <2> QED
    BY <2>3, <2>4, <2>5
<1> HIDE DEF bound, model, V, M, B, VM
\* A resource of the model, bound to a version.
<1>9. ASSUME NEW a \in W
      PROVE  /\ Slashed(<<"v2">> \o (model \o bound \o <<a>>)) = (VM \o B) \o <<"/", a>>
             /\ <<"v2">> \o (model \o bound \o <<a>>) \in Seq(W)
  <2> DEFINE mb == model \o bound
             mba == mb \o <<a>>
             A == <<"/", a>>
  <2>1. <<a>> \in Seq(W) /\ Slashed(<<a>>) = A /\ A \in Seq(P)
    BY <1>3
  <2>2. mb \in Seq(W)
    BY <1>5, <1>6, ConcatProperties
  <2>3. Slashed(mb) = M \o B
    BY <1>5, <1>6, SlashedConcat
  <2> HIDE DEF mb, A
  <2>4. mba \in Seq(W)
    BY <2>1, <2>2, ConcatProperties
  <2>5. Slashed(mba) = (M \o B) \o A
    BY <2>1, <2>2, <2>3, SlashedConcat
  <2> HIDE DEF mba
  <2>6. <<"v2">> \o mba \in Seq(W)
    BY <1>5, <2>4, ConcatProperties
  <2>7. Slashed(<<"v2">> \o mba) = V \o ((M \o B) \o A)
    BY <1>5, <2>4, <2>5, SlashedConcat
  <2>8. M \o B \in Seq(P)
    BY <1>5, <1>6, ConcatProperties
  <2>9. V \o ((M \o B) \o A) = (V \o (M \o B)) \o A
    <3> DEFINE MB == M \o B
    <3>1. V \in Seq(P) /\ MB \in Seq(P) /\ A \in Seq(P)
      BY <1>5, <2>1, <2>8
    <3> HIDE DEF MB
    <3>2. V \o (MB \o A) = (V \o MB) \o A
      BY <3>1, ConcatAssociative, SMTT(60)
    <3> QED
      BY <3>2 DEF MB
  <2>10. V \o (M \o B) = (V \o M) \o B
    <3>1. V \in Seq(P) /\ M \in Seq(P) /\ B \in Seq(P)
      BY <1>5, <1>6
    <3> QED
      BY <3>1, ConcatAssociative, SMTT(60)
  <2> QED
    BY <1>7, <2>6, <2>7, <2>9, <2>10 DEF mba, mb, A
\* A resource of the repository.
<1>10. ASSUME NEW a \in W
      PROVE  /\ Slashed(<<"v2">> \o (<<"repository">> \o model \o <<a>>)) =
                  <<"/", "v2", "/", "repository", "/", "models", "/", "model">> \o <<"/", a>>
             /\ <<"v2">> \o (<<"repository">> \o model \o <<a>>) \in Seq(W)
  <2> DEFINE R == <<"/", "repository">>
             rm == <<"repository">> \o model
             rma == rm \o <<a>>
             A == <<"/", a>>
             RM == <<"/", "repository", "/", "models", "/", "model">>
             VRM == <<"/", "v2", "/", "repository", "/", "models", "/", "model">>
  <2>1. <<a>> \in Seq(W) /\ Slashed(<<a>>) = A /\ A \in Seq(P)
    BY <1>3
  <2>2. <<"repository">> \in Seq(W) /\ Slashed(<<"repository">>) = R /\ R \in Seq(P)
    BY <1>1, <1>3
  <2>3. R \o M = RM
    BY PairAndTwo DEF M
  <2>4. V \o RM = VRM
    BY PairAndThree DEF V
  <2>5. rm \in Seq(W)
    BY <1>5, <2>2, ConcatProperties
  <2>6. Slashed(rm) = R \o M
    BY <1>5, <2>2, SlashedConcat
  <2>7. R \o M \in Seq(P)
    BY <1>5, <2>2, ConcatProperties
  <2> HIDE DEF rm, A, R, RM, VRM
  <2>8. rma \in Seq(W)
    BY <2>1, <2>5, ConcatProperties
  <2>9. Slashed(rma) = RM \o A
    BY <2>1, <2>3, <2>5, <2>6, SlashedConcat
  <2> HIDE DEF rma
  <2>10. <<"v2">> \o rma \in Seq(W)
    BY <1>5, <2>8, ConcatProperties
  <2>11. Slashed(<<"v2">> \o rma) = V \o (RM \o A)
    BY <1>5, <2>8, <2>9, SlashedConcat
  <2>12. V \o (RM \o A) = (V \o RM) \o A
    <3>1. V \in Seq(P) /\ RM \in Seq(P) /\ A \in Seq(P)
      BY <1>5, <2>1, <2>3, <2>7
    <3> QED
      BY <3>1, ConcatAssociative, SMTT(60)
  <2> QED
    BY <2>4, <2>10, <2>11, <2>12 DEF rma, rm, A, VRM
\* The metadata of the model.
<1>11. Slashed(<<"v2">> \o model) = VM /\ <<"v2">> \o model \in Seq(W)
  <2>1. Slashed(<<"v2">> \o model) = V \o M
    BY <1>5, SlashedConcat
  <2>2. <<"v2">> \o model \in Seq(W)
    BY <1>5, ConcatProperties
  <2> QED
    BY <1>7, <2>1, <2>2
<1>12. models("model", v) = VM \o B /\ models("model", NoText) = VM
  <2>1. models("model", v) = VM \o B
    BY Zenon DEF models, VM, B
  <2>2. VM \in Seq(P)
    BY <1>5, <1>7, ConcatProperties
  <2>3. models("model", NoText) = VM \o <<>>
    BY DEF models, VM
  <2> QED
    BY <2>1, <2>2, <2>3, ConcatEmptySeq
<1> USE DEF Resource, PathOf
<1>13. CASE o = "serverLive"
  <2>1. Resource(o) = <<"v2">> \o <<"health", "live">>
    BY <1>13, Zenon
  <2>2. PathOf(o, "model", v) = <<"/", "v2", "/", "health", "/", "live">>
    BY <1>13, Zenon
  <2> HIDE DEF Resource, PathOf
  <2> QED
    BY <1>1, <1>8, <2>1, <2>2
<1>14. CASE o = "serverReady"
  <2>1. Resource(o) = <<"v2">> \o <<"health", "ready">>
    BY <1>14, Zenon
  <2>2. PathOf(o, "model", v) = <<"/", "v2", "/", "health", "/", "ready">>
    BY <1>14, Zenon
  <2> HIDE DEF Resource, PathOf
  <2> QED
    BY <1>1, <1>8, <2>1, <2>2
<1>15. CASE o = "repositoryIndex"
  <2>1. Resource(o) = <<"v2">> \o <<"repository", "index">>
    BY <1>15, Zenon
  <2>2. PathOf(o, "model", v) = <<"/", "v2", "/", "repository", "/", "index">>
    BY <1>15, Zenon
  <2> HIDE DEF Resource, PathOf
  <2> QED
    BY <1>1, <1>8, <2>1, <2>2
<1>16. CASE o = "modelReady"
  <2>1. Resource(o) = <<"v2">> \o (model \o bound \o <<"ready">>)
    BY <1>16, Zenon DEF model, bound
  <2>2. PathOf(o, "model", v) = models("model", v) \o <<"/", "ready">>
    BY <1>16, Zenon
  <2> HIDE DEF Resource, PathOf
  <2> QED
    BY <1>1, <1>9, <1>12, <2>1, <2>2
<1>17. CASE o = "infer"
  <2>1. Resource(o) = <<"v2">> \o (model \o bound \o <<"infer">>)
    BY <1>17, Zenon DEF model, bound
  <2>2. PathOf(o, "model", v) = models("model", v) \o <<"/", "infer">>
    BY <1>17, Zenon
  <2> HIDE DEF Resource, PathOf
  <2> QED
    BY <1>1, <1>9, <1>12, <2>1, <2>2
<1>18. CASE o = "modelMetadata"
  <2>1. Resource(o) = <<"v2">> \o model
    BY <1>18, Zenon DEF model
  <2>2. PathOf(o, "model", v) = models("model", NoText)
    BY <1>18, Zenon
  <2> HIDE DEF Resource, PathOf
  <2> QED
    BY <1>11, <1>12, <2>1, <2>2
<1>19. CASE o = "loadModel"
  <2>1. Resource(o) = <<"v2">> \o (<<"repository">> \o model \o <<"load">>)
    BY <1>19, Zenon DEF model
  <2>2. PathOf(o, "model", v) =
          <<"/", "v2", "/", "repository", "/", "models", "/", "model">> \o <<"/", "load">>
    BY <1>19, Zenon DEF repository
  <2> HIDE DEF Resource, PathOf
  <2> QED
    BY <1>1, <1>10, <2>1, <2>2
<1>20. CASE o = "unloadModel"
  <2>1. Resource(o) = <<"v2">> \o (<<"repository">> \o model \o <<"unload">>)
    BY <1>20, Zenon DEF model
  <2>2. PathOf(o, "model", v) =
          <<"/", "v2", "/", "repository", "/", "models", "/", "model">> \o <<"/", "unload">>
    BY <1>20, Zenon DEF repository
  <2> HIDE DEF Resource, PathOf
  <2> QED
    BY <1>1, <1>10, <2>1, <2>2
<1> HIDE DEF Resource, PathOf
<1> QED
  BY <1>13, <1>14, <1>15, <1>16, <1>17, <1>18, <1>19, <1>20, Zenon DEF Ops

----------------------------------------------------------------------------
(* Where requests go.                                                       *)

\* The endpoint is what the URL means, with the default port of the client.
Meant(e) ==
  /\ ~Meaningless(url)
  /\ e.host = url.host
  /\ e.port = IF url.port # NoText THEN LeadingNumber[url.port]
              ELSE IF protocol = "http" THEN 8080 ELSE 8001
  /\ e.tls = (url.scheme \in {"https", "grpcs"})
  /\ e.path_prefix = Slashed(url.path)

\* The request goes where the URL means.
Fits(r) ==
  /\ ~Meaningless(url)
  /\ r.host = url.host
  /\ r.port = IF url.port # NoText THEN LeadingNumber[url.port]
              ELSE IF protocol = "http" THEN 8080 ELSE 8001
  /\ r.tls = (url.scheme \in {"https", "grpcs"})
  /\ protocol = "http" => r.path = Slashed(url.path \o Resource(r.op))

\* A gRPC client that is past its endpoint has the one its URL means, and every
\* request formed or sent goes where the URL means.
Located ==
  /\ url \in Urls /\ protocol \in {"http", "grpc"}
  /\ protocol = "grpc" /\ pc \notin {"token", "endpoint", "unmade"} => Meant(ep)
  /\ \A r \in request \cup sent : Fits(r)

\* What parseEndpoint returns is what the URL means.
LEMMA ParsedIsMeant ==
  ASSUME url \in Urls, protocol \in {"http", "grpc"}, NEW default_port,
         default_port = IF protocol = "http" THEN 8080 ELSE 8001,
         ~EndpointThrows(Written(url))
  PROVE  Meant(parseEndpoint(Written(url), default_port))
<1> DEFINE e == parseEndpoint(Written(url), default_port)
<1>1. /\ ~Meaningless(url)
      /\ e.host = url.host
      /\ e.port = IF url.port # NoText THEN LeadingNumber[url.port] ELSE default_port
      /\ e.tls = (url.scheme \in {"https", "grpcs"})
      /\ e.path_prefix = Slashed(url.path)
  BY EndpointMeant
<1> HIDE DEF e
<1>2. Meant(e)
  BY <1>1 DEF Meant
<1> QED
  BY <1>2 DEF e

\* A request formed from an endpoint that is meant goes where the URL means.
LEMMA RequestFits ==
  ASSUME url \in Urls, NEW o \in Ops, NEW e, Meant(e)
  PROVE  Fits(buildRequest(o, e))
<1> DEFINE r == buildRequest(o, e)
<1>1. /\ r.op = o /\ r.host = e.host /\ r.port = e.port /\ r.tls = e.tls
      /\ protocol = "http" => r.path = e.path_prefix \o PathOf(o, "model", model_version_)
  BY DEF buildRequest
<1>2. Slashed(url.path \o Resource(o)) = Slashed(url.path) \o PathOf(o, "model", model_version_)
  <2>1. Slashed(Resource(o)) = PathOf(o, "model", model_version_)
    BY PathsMatch
  <2>2. PICK W : Resource(o) \in Seq(W)
    BY PathsMatch
  <2> DEFINE S == Piece \cup W
             p == url.path
             q == Resource(o)
  <2>3. p \in Seq(Piece)
    BY UrlParts
  <2> HIDE DEF p, q
  <2>4. p \in Seq(S)
    BY <2>3
  <2>5. q \in Seq(S)
    BY <2>2 DEF q
  <2> HIDE DEF S
  <2>6. Slashed(p \o q) = Slashed(p) \o Slashed(q)
    BY <2>4, <2>5, SlashedConcat
  <2> QED
    BY <2>1, <2>6 DEF p, q
<1> HIDE DEF r
<1>3. Fits(r)
  BY <1>1, <1>2 DEF Fits, Meant
<1> QED
  BY <1>3 DEF r

\* It holds at first: no client is past its endpoint.
LEMMA InitLocated == Init => Located
BY DEF Init, Located

\* Every step keeps it, one case per action.
LEMMA NextLocated == Located /\ [Next]_vars => Located'
<1> SUFFICES ASSUME Located, [Next]_vars PROVE Located' OBVIOUS
<1>1. /\ url \in Urls /\ protocol \in {"http", "grpc"}
      /\ protocol = "grpc" /\ pc \notin {"token", "endpoint", "unmade"} => Meant(ep)
      /\ \A r \in request \cup sent : Fits(r)
  BY DEF Located
\* What the user gave the client does not change, nor what it means.
<1>2. UNCHANGED given
  BY DEF Next, vars, ReadToken, GrpcEndpoint, ReadFile, CheckPair, Call, Connect, Send,
         GiveUp, Drop, Write
<1>3. url' \in Urls /\ protocol' \in {"http", "grpc"} /\ protocol' = protocol
  BY <1>1, <1>2 DEF given
<1>4. ASSUME NEW r PROVE Fits(r)' <=> Fits(r)
  BY <1>2 DEF given, Fits, Meaningless, Resource
<1>5. ASSUME Meant(ep), ep' = ep PROVE Meant(ep)'
  BY <1>2, <1>5 DEF given, Meant, Meaningless
<1>6. ASSUME \A r \in request' \cup sent' : Fits(r),
             protocol' = "grpc" /\ pc' \notin {"token", "endpoint", "unmade"} => Meant(ep)'
      PROVE  Located'
  BY <1>3, <1>4, <1>6 DEF Located
<1> HIDE DEF Located
<1>7. CASE ReadToken
  <2>1. pc' \in {"unmade", "idle", "endpoint"} /\ (pc' = "idle" => protocol = "http")
        /\ UNCHANGED <<request, sent>>
    BY <1>7 DEF ReadToken
  <2> QED
    BY <1>1, <1>3, <1>6, <2>1
<1>8. CASE GrpcEndpoint
  <2>1. UNCHANGED <<request, sent>> /\ pc = "endpoint"
    BY <1>8 DEF GrpcEndpoint
  <2>2. CASE EndpointThrows(Written(url))
    <3>1. pc' = "unmade"
      BY <1>8, <2>2 DEF GrpcEndpoint
    <3> QED
      BY <1>1, <1>6, <2>1, <3>1
  <2>3. CASE ~EndpointThrows(Written(url))
    <3>1. ep' = parseEndpoint(Written(url), 8001)
      BY <1>8, <2>3 DEF GrpcEndpoint
    <3>2. ASSUME protocol = "grpc" PROVE Meant(ep)'
      <4>1. Meant(parseEndpoint(Written(url), 8001))
        BY <1>1, <2>3, <3>2, ParsedIsMeant
      <4> QED
        BY <1>2, <3>1, <4>1 DEF given, Meant, Meaningless
    <3> QED
      BY <1>1, <1>3, <1>6, <2>1, <3>2
  <2> QED
    BY <2>2, <2>3
<1>9. ASSUME NEW kind \in {"ca", "cert", "key"}, ReadFile(kind) PROVE Located'
  <2>1. UNCHANGED <<request, sent, ep>> /\ pc \in {"ca", "cert", "key"}
    BY <1>9 DEF ReadFile
  <2> QED
    BY <1>1, <1>3, <1>5, <1>6, <2>1
<1>10. CASE CheckPair
  <2>1. UNCHANGED <<request, sent, ep>> /\ pc = "pair"
    BY <1>10 DEF CheckPair
  <2> QED
    BY <1>1, <1>3, <1>5, <1>6, <2>1
<1>11. ASSUME NEW o \in Ops, Call(o) PROVE Located'
  <2>1. pc = "idle" /\ sent' = {}
    BY <1>11 DEF Call
  <2>2. CASE protocol = "http" /\ EndpointThrows(Written(url))
    <3>1. UNCHANGED <<pc, ep, request>>
      BY <1>11, <2>2 DEF Call
    <3> QED
      BY <1>1, <1>3, <1>5, <1>6, <2>1, <3>1
  <2>3. CASE ~(protocol = "http" /\ EndpointThrows(Written(url)))
    <3>1. /\ ep' = IF protocol = "http" THEN parseEndpoint(Written(url), 8080) ELSE ep
          /\ request' = {buildRequest(o, ep')}
      BY <1>11, <2>3 DEF Call
    <3>2. Meant(ep')
      <4>1. CASE protocol = "http"
        <5>1. Meant(parseEndpoint(Written(url), 8080))
          BY <1>1, <2>3, <4>1, ParsedIsMeant
        <5> QED
          BY <3>1, <4>1, <5>1
      <4>2. CASE protocol = "grpc"
        BY <1>1, <2>1, <3>1, <4>2
      <4> QED
        BY <1>1, <4>1, <4>2
    <3>3. Fits(buildRequest(o, ep'))
      BY <1>1, <3>2, RequestFits
    <3>4. \A r \in request' \cup sent' : Fits(r)
      BY <2>1, <3>1, <3>3
    <3>5. ASSUME protocol' = "grpc" PROVE Meant(ep)'
      BY <1>1, <1>3, <1>5, <2>1, <3>1, <3>5
    <3> QED
      BY <1>6, <3>4, <3>5
  <2> QED
    BY <2>2, <2>3
<1>12. CASE Connect \/ Send \/ GiveUp
  <2>1. /\ UNCHANGED ep /\ pc = "call"
        /\ request' \cup sent' \subseteq request \cup sent
    BY <1>12 DEF Connect, Send, GiveUp
  <2> QED
    BY <1>1, <1>3, <1>5, <1>6, <2>1
<1>13. CASE Drop \/ (\E kind \in Kinds : \E c \in Contents[kind] : Write(kind, c)) \/ UNCHANGED vars
  <2>1. UNCHANGED <<pc, ep, request, sent>>
    BY <1>13 DEF Drop, Write, vars
  <2> QED
    BY <1>1, <1>3, <1>5, <1>6, <2>1
<1> QED
  BY <1>7, <1>8, <1>9, <1>10, <1>11, <1>12, <1>13 DEF Next

\* parseEndpoint and the path builders: every request, of either client, goes
\* where its URL means, and none is sent under a URL that means nothing.
THEOREM SentAsMeant == Spec => []SentWhereMeant
<1>1. Located => SentWhereMeant
  BY DEF Located, SentWhereMeant, Fits
<1> QED BY <1>1, InitLocated, NextLocated, PTL DEF Spec
============================================================================
