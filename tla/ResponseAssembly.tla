-------------------------- MODULE ResponseAssembly --------------------------
(***************************************************************************)
(* How one transfer becomes a response: libcurl gives the header lines of  *)
(* every response it meets (100 Continue, redirects, proxies, the final    *)
(* one, trailers) and the body of the final one, one call at a time, and   *)
(* the transfer ends or fails after any of them.  A read collects them in  *)
(* its CurlRequest and CheckMulti makes the response; a write collects     *)
(* them in request_info of the client with a copy of the same code, and    *)
(* TransformResponseCurl makes the response.                               *)
(***************************************************************************)
EXTENDS Naturals, Sequences

CONSTANTS
  Names,      \* names of header fields
  StatusKey,  \* "__RESPONSE_STATUS__", which a server may send as well
  Texts,      \* what a value may be once its first space is dropped
  Empty,      \* the empty text
  MaxLines, MaxChunks,
  None        \* "not there"

Keys == Names \cup {StatusKey}

\* A header line: does it begin with HTTP/ (a status line does, and any field may), the
\* name before its first colon (None for no colon), does a space follow the colon, and
\* the text after that.
Line == {l \in [http : BOOLEAN, name : Keys \cup {None}, space : BOOLEAN, text : Texts \cup {Empty}] :
           l.http => l.name # StatusKey}

\* HTTPHeaders: a value for each name, or None.
NoHeaders == [n \in Keys |-> None]
HTTPHeaders == [Keys -> Texts \cup {Empty, None} \cup Line]
HTTPResponse == [ok : BOOLEAN, error : Line \cup {None}, headers : HTTPHeaders, body : Seq(Nat)]

ASSUME ConstantsAssumption ==
  /\ MaxLines \in Nat /\ MaxChunks \in Nat
  /\ StatusKey \notin Names /\ None \notin Keys
  /\ None \notin Texts \cup {Empty} \cup Line \cup HTTPResponse

VARIABLES
  kind,      \* "get", "head", "post" or "write" (Put, Delete)
  phase,     \* libcurl: "start", in "headers", "between" two blocks, in the "body" or
             \* the "trailers"; then the transfer is "over", and the call has "returned"
  blocks,    \* header_collection
  body,      \* info->body, in chunks numbered as they come
  thrown,    \* an exception has left the header callback
  response,  \* the HTTPResponse
  handed,    \* what content_handler has been given
  buffer_out,  \* of a Post
  lines,     \* history: the header lines received
  chunks     \* history: the number of chunks received

vars == <<kind, phase, blocks, body, thrown, response, handed, buffer_out, lines, chunks>>

Kinds == {"get", "head", "post", "write"}

TypeOK ==
  /\ kind \in Kinds
  /\ phase \in {"start", "headers", "between", "body", "trailers", "over", "returned"}
  /\ blocks \in Seq(HTTPHeaders)
  /\ body \in Seq(Nat)
  /\ thrown \in BOOLEAN
  /\ response \in HTTPResponse \cup {None}
  /\ handed \in Seq(Nat) \cup {None} /\ buffer_out \in Seq(Nat) \cup {None}
  /\ lines \in Seq(Line)
  /\ chunks \in 0 .. MaxChunks

Init ==
  /\ kind \in Kinds
  /\ phase = "start" /\ thrown = FALSE
  /\ blocks = <<>> /\ body = <<>>
  /\ response = None /\ handed = None /\ buffer_out = None
  /\ lines = <<>> /\ chunks = 0
-----------------------------------------------------------------------------
(***************************************************************************)
(* The callbacks.                                                          *)
(***************************************************************************)
\* HTTPHeaders::Insert keeps the value that is there.
Insert(headers, name, value) ==
  IF headers[name] = None THEN [headers EXCEPT ![name] = value] ELSE headers

\* Seeded bug: the fields of all responses are collected together.
OneBlock(l) ==
  IF l.http /\ blocks = <<>> THEN <<Insert(NoHeaders, StatusKey, l)>> ELSE blocks

\* A line that begins with HTTP/ opens a block, be it a status line or a field.
Opened(l) == IF l.http THEN Append(blocks, Insert(NoHeaders, StatusKey, l)) ELSE blocks

\* part2.at(0) throws: the line ends with its colon.
EndsWithColon(l) == l.name # None /\ ~l.space /\ l.text = Empty

\* WriteHeader, of a read: each line with a colon is a field of the last block, one that
\* opens it too; its value is part2 without its first space.
WriteHeader(l) ==
  /\ ~thrown /\ Len(lines) < MaxLines
  /\ lines' = Append(lines, l)
  /\ thrown' = EndsWithColon(l)
  /\ blocks' = IF l.name = None \/ EndsWithColon(l) THEN Opened(l)
               ELSE [Opened(l) EXCEPT ![Len(Opened(l))] = Insert(@, l.name, l.text)]

\* The same, line for line, of a write.
RequestHeaderCallback(l) == WriteHeader(l)

\* CURLOPT_HEADERFUNCTION.
HeaderFunction(l) == IF kind \in {"get", "head"} THEN WriteHeader(l) ELSE RequestHeaderCallback(l)

\* libcurl starts with a status line, and the end of a block that is not the last one
\* is followed by another.
StatusLine(l) ==
  /\ phase \in {"start", "between"} /\ l.http
  /\ HeaderFunction(l)
  /\ phase' = "headers"
  /\ UNCHANGED <<kind, body, response, handed, buffer_out, chunks>>

\* A field of a block, or a trailer after the body.
FieldLine(l) ==
  /\ phase \in {"headers", "body", "trailers"} /\ l.name # None
  /\ HeaderFunction(l)
  /\ phase' = IF phase = "headers" THEN "headers" ELSE "trailers"
  /\ UNCHANGED <<kind, body, response, handed, buffer_out, chunks>>

\* The empty line at the end of a block, of which WriteHeader makes nothing.
BlankLine ==
  /\ phase = "headers" /\ ~thrown
  /\ phase' = "between"
  /\ UNCHANGED <<kind, blocks, body, thrown, response, handed, buffer_out, lines, chunks>>

\* WriteBody, RequestWriteCallback.  libcurl keeps bodies of other blocks to itself.
WriteBody ==
  /\ phase \in {"between", "body"} /\ ~thrown /\ kind # "head" /\ chunks < MaxChunks
  /\ chunks' = chunks + 1
  /\ body' = Append(body, chunks')
  /\ phase' = "body"
  /\ UNCHANGED <<kind, blocks, thrown, response, handed, buffer_out, lines>>
-----------------------------------------------------------------------------
(***************************************************************************)
(* The end of the transfer.                                                *)
(***************************************************************************)
\* Seeded bug: the first response met is taken.
FirstBlock == IF blocks = <<>> THEN NoHeaders ELSE blocks[1]

LastBlock == IF blocks = <<>> THEN NoHeaders ELSE blocks[Len(blocks)]

\* request_error quotes the status line; None stands for curl_easy_strerror.
Failure == [ok |-> FALSE, error |-> LastBlock[StatusKey], headers |-> NoHeaders, body |-> <<>>]

Success(headers) == [ok |-> TRUE, error |-> None, headers |-> headers, body |-> body]

\* Seeded bug: what was received is handed over whatever the result is.
CheckMultiOf(ok) ==
  LET made == Success([LastBlock EXCEPT ![StatusKey] = None])
  IN  IF ok THEN made ELSE [made EXCEPT !.ok = FALSE, !.error = LastBlock[StatusKey]]

\* CheckMulti, for a read: the status line is not a header.
CheckMulti(ok) == IF ok THEN Success([LastBlock EXCEPT ![StatusKey] = None]) ELSE Failure

\* TransformResponseCurl, for a write: it is left among the headers.
TransformResponseCurl(ok) == IF ok THEN Success(LastBlock) ELSE Failure

\* Post takes what was received, before anybody looks at the result.
PostBuffer == IF kind = "post" THEN body ELSE buffer_out

Finish(ok) ==
  /\ phase \notin {"over", "returned"} /\ ~thrown
  /\ ok => phase \in {"between", "body", "trailers"}
  /\ response' = IF kind \in {"get", "head"} THEN CheckMulti(ok) ELSE TransformResponseCurl(ok)
  /\ buffer_out' = PostBuffer
  /\ phase' = "over"
  /\ UNCHANGED <<kind, blocks, body, thrown, handed, lines, chunks>>

\* The end of Get: content_handler, if there is one, is given the body unless a
\* response_handler refuses the response.  Head and the writes just return.
Return ==
  /\ phase = "over"
  /\ phase' = "returned"
  /\ handed' \in IF kind = "get" THEN {None, response.body} ELSE {None}
  /\ UNCHANGED <<kind, blocks, body, thrown, response, buffer_out, lines, chunks>>
-----------------------------------------------------------------------------
Next ==
  \/ \E l \in Line : StatusLine(l) \/ FieldLine(l)
  \/ BlankLine \/ WriteBody
  \/ \E ok \in BOOLEAN : Finish(ok)
  \/ Return

Spec == Init /\ [][Next]_vars
-----------------------------------------------------------------------------
(***************************************************************************)
(* Properties.                                                             *)
(***************************************************************************)
\* Line i is in the last response received, the one that no other status line follows.
\* (A field that begins with HTTP/ counts as one: the callbacks take it for a status line.)
Last(i) == \A j \in DOMAIN lines : j > i => ~lines[j].http

\* Line i is a field n of that response.
Field(i, n) == lines[i].name = n /\ Last(i)

\* A response shows the fields of the last response met, its trailers too, and none of
\* the redirects or interim responses before; of a repeated field it shows the first.
HeadersOfLastResponse ==
  response # None /\ response.ok => \A n \in Names :
    /\ response.headers[n] = None <=> \A i \in DOMAIN lines : ~Field(i, n)
    /\ \A i \in DOMAIN lines :
         Field(i, n) /\ (\A j \in DOMAIN lines : j < i => ~Field(j, n))
         => response.headers[n] = lines[i].text

\* The error of a failed transfer is the last status line received, be it "200 OK", or
\* libcurl's message when there is none; a server that sends a field of that name
\* cannot change it, nor add it to what a read returns.
StatusIsOwn ==
  response # None =>
    /\ ~response.ok /\ lines = <<>> => response.error = None
    /\ \A i \in DOMAIN lines : lines[i].http /\ Last(i) =>
         IF response.ok
         THEN response.headers[StatusKey] = IF kind \in {"get", "head"} THEN None ELSE lines[i]
         ELSE response.error = lines[i]

\* All of a body is in the response, and handed to content_handler, or nothing of it.  The
\* buffer_out of a Post holds all that was received of it: when it succeeds this is the
\* body of the response; when it fails, a part, although the response shows nothing.
BodyIsWhole ==
  /\ response # None =>
       response.body = IF response.ok THEN [i \in 1 .. chunks |-> i] ELSE <<>>
  /\ handed # None => handed = response.body
  /\ IF kind = "post" /\ response # None
     THEN buffer_out = [i \in 1 .. chunks |-> i]
     ELSE buffer_out = None
=============================================================================
