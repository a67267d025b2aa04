---------------------------- MODULE HttpFraming ----------------------------
(***************************************************************************)
(* HTTP/1.1 response framing as the client sees it: messageComplete and    *)
(* wantsClose of src/KserveHttpClient.cpp and parseHttpResponse of         *)
(* src/KserveProtocol.cpp.                                                 *)
(*                                                                         *)
(* A byte stream is a sequence of tokens.  A token is the shortest piece   *)
(* whose partial arrival these functions treat like its absence:           *)
(*   "start"  the status line and the header lines                         *)
(*   "blank"  the CRLF CRLF that ends the headers                          *)
(*   "data"   a piece of the body                                          *)
(*   "mimic"  a piece of the body that ends in the bytes CRLF 0 CRLF CRLF  *)
(*   "size", "crlf"  the frame of a chunk                                  *)
(*   "last"   the zero-length chunk 0 CRLF CRLF                            *)
(* Each token carries the reply it was cut from, as provenance and so that *)
(* a "start" token can be read.                                            *)
(***************************************************************************)
EXTENDS Integers, Sequences

CONSTANT
  Shapes    \* the responses a server may give

\* A response: its version and status, how the body is framed, whether the
\* headers say Connection: close, the pieces of the body, and what JSON the whole
\* body holds.
ShapeType ==
  [version : {"1.0", "1.1"}, status : Nat, framing : {"length", "chunked", "close"},
   close : BOOLEAN, body : Seq({"data", "mimic"}),
   doc : {"good", "bad_head", "bad_output"}]

ASSUME ShapesAssumption == \A shape \in Shapes : shape \in ShapeType

----------------------------------------------------------------------------
(* The server's side: the stream a conforming server sends.                 *)

\* A body piece is one chunk: size, data, crlf; "last" closes the body.
WireLen(shape) ==
  IF shape.framing = "chunked" THEN 3 + 3 * Len(shape.body)
  ELSE 2 + Len(shape.body)

KindAt(shape, m) ==
  CASE m = 1 -> "start"
    [] m = 2 -> "blank"
    [] m > 2 /\ shape.framing # "chunked" -> shape.body[m - 2]
    [] m > 2 /\ shape.framing = "chunked" /\ m = WireLen(shape) -> "last"
    [] OTHER -> CASE m % 3 = 0 -> "size"
                  [] m % 3 = 1 -> shape.body[(m - 1) \div 3]
                  [] m % 3 = 2 -> "crlf"

Kinds == {"start", "blank", "size", "data", "mimic", "crlf", "last"}

Wire(reply) ==
  [m \in 1 .. WireLen(reply.shape) |-> [k |-> KindAt(reply.shape, m), reply |-> reply]]

\* The connection ends with this response: the headers say so, the framing
\* implies it, or it is the default of HTTP/1.0.
EndsConnection(shape) ==
  shape.close \/ shape.framing = "close" \/ shape.version = "1.0"

----------------------------------------------------------------------------
(* The client's side.                                                       *)

\* raw.find("\r\n\r\n"): the first token that holds a CRLF CRLF.
HeaderEnds(raw) == {m \in 1 .. Len(raw) : raw[m].k \in {"blank", "mimic", "last"}}
HasHeaders(raw) == HeaderEnds(raw) # {}
header_end(raw) == CHOOSE m \in HeaderEnds(raw) : \A n \in HeaderEnds(raw) : m <= n

\* The "start" tokens, if any, among the bytes taken for the headers.
Headers(raw) == {m \in 1 .. (header_end(raw) - 1) : raw[m].k = "start"}
Framed(raw, framing) ==
  \E m \in Headers(raw) : raw[m].reply.shape.framing = framing

messageComplete_mutant(raw) ==
  /\ HasHeaders(raw)
  /\ \E m \in Headers(raw) :
       LET shape == raw[m].reply.shape IN
       \/ /\ shape.framing = "chunked"
          /\ \E n \in (header_end(raw) + 1) .. Len(raw) : raw[n].k \in {"last", "crlf"}
       \/ /\ shape.framing = "length"
          /\ Len(raw) - header_end(raw) >= Len(shape.body)

\* Chunked: the bytes of the zero-length chunk occur anywhere after the
\* headers.  Content-Length: that many bytes follow the headers.  Otherwise
\* only EOF completes the message.
messageComplete(raw) ==
  /\ HasHeaders(raw)
  /\ \E m \in Headers(raw) :
       LET shape == raw[m].reply.shape IN
       \/ /\ shape.framing = "chunked"
          /\ \E n \in (header_end(raw) + 1) .. Len(raw) : raw[n].k \in {"last", "mimic"}
       \/ /\ shape.framing = "length"
          /\ Len(raw) - header_end(raw) >= Len(shape.body)

\* "connection: close" in the headers, or in all of raw when they do not end;
\* the version is not looked at.
wantsClose(raw) ==
  \E m \in IF HasHeaders(raw) THEN Headers(raw) ELSE 1 .. Len(raw) :
    raw[m].k = "start" /\ raw[m].reply.shape.close

\* The status is the word after the first blank of raw: that of a "start" token,
\* unless a piece of a body comes before it.
StatusAt(raw) ==
  {m \in 1 .. Len(raw) :
     /\ raw[m].k = "start"
     /\ \A n \in 1 .. (m - 1) : raw[n].k \notin {"start", "data", "mimic"}}
Status(raw) == raw[CHOOSE m \in StatusAt(raw) : TRUE].reply.shape.status

\* parseHttpResponse throws: no status line or a status stoi rejects, no end of
\* the headers, or a chunk shorter than its size says.
ParseThrows(raw) ==
  \/ StatusAt(raw) = {}
  \/ ~HasHeaders(raw)
  \/ HasHeaders(raw) /\ Framed(raw, "chunked") /\ raw[Len(raw)].k = "size"

\* The decoded body: what follows the headers, without the frame of the chunks
\* when the headers say chunked.
Body(raw) ==
  LET rest == SubSeq(raw, header_end(raw) + 1, Len(raw))
      IsData(token) == token.k \in {"data", "mimic"}
  IN IF Framed(raw, "chunked") THEN SelectSeq(rest, IsData) ELSE rest

\* Json::parse accepts the body: it is the whole, non-empty document.  A
\* proper prefix of a JSON object or array is not JSON.
JsonParses(raw) ==
  /\ raw[1].k = "start"
  /\ Body(raw) # <<>>
  /\ Len(Body(raw)) = Len(raw[1].reply.shape.body)

\* raw stops before the end its framing announces.
Truncated(raw) ==
  /\ raw[1].k = "start"
  /\ raw[1].reply.shape.framing # "close"
  /\ Len(raw) < WireLen(raw[1].reply.shape)
============================================================================
