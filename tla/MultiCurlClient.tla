--------------------------- MODULE MultiCurlClient ---------------------------
(***************************************************************************)
(* One MultiCurlClient (src/src/multi_curl_client.cpp): a sequence of Get, *)
(* Head, Put, Post and Delete calls on one easy handle.  libcurl keeps     *)
(* every option until a call sets it again, so that what a call sends and  *)
(* where its response goes depend on the calls before it.                  *)
(*                                                                         *)
(* Calls are numbered.  What a call creates - its CurlRequest, its header  *)
(* list, the caller's buffer - is named by the number of the call and is   *)
(* gone when the call has returned.  Data is named by the call it is for.  *)
(* One thread uses a client at a time; MultiCurlManager models what other  *)
(* threads do meanwhile.                                                   *)
(***************************************************************************)
EXTENDS Naturals, Sequences

CONSTANTS
  Verbs,     \* the operations its owner uses
  MaxCalls,  \* bound on the number of calls
  None       \* nullptr, "not set", "no call"

Reads == {"GET", "HEAD"}              \* a CurlRequest sent through the manager
Writes == {"PUT", "POST", "DELETE"}   \* curl_easy_perform into request_info
Call == 1 .. MaxCalls

ASSUME ConstantsAssumption ==
  /\ Verbs \subseteq Reads \cup Writes
  /\ MaxCalls \in Nat
  /\ None \notin Call /\ None \notin Reads \cup Writes
  /\ None \notin [verb : Verbs, headers : BOOLEAN]

VARIABLES
  opt,       \* options of the easy handle that calls change (see Options)
  info,      \* request_info: headers and body, as the calls whose data they hold
  request,   \* the same for the RequestInfo of the current CurlRequest
  pc,        \* "idle", "send" (options set) or "done" (transfer over)
  num,       \* number of the latest call
  call,      \* its verb and whether it has headers of its own
  previous,  \* history: the call before it, or None
  wire,      \* the request libcurl sent for it, or None
  result,    \* CURLcode of the transfer: "ok" or "failed"
  response,  \* what the latest call returned, or None
  used,      \* history: the verbs called so far
  success,   \* history: number of the last call before it that succeeded, 0 for none
  undefined  \* freed memory was used: anything may happen from here on

vars == <<opt, info, request, pc, num, call, previous, wire, result, response, used, success, undefined>>

ACall == [verb : Verbs, headers : BOOLEAN]

\* Header blocks and body bytes, each as the sequence of calls they came from.
RequestInfo == [headers : Seq(Call), body : Seq(Call)]
EmptyInfo == [headers |-> <<>>, body |-> <<>>]

Options == [
  method : {"GET", "HEAD", "POST"},     \* the kind of request libcurl has in mind
  nobody : BOOLEAN,                     \* CURLOPT_NOBODY
  custom : {"PUT", "DELETE", None},     \* CURLOPT_CUSTOMREQUEST
  fields : Call \cup {None},            \* CURLOPT_POSTFIELDS: buffer of that call
  list : Call \cup {None},              \* CURLOPT_HTTPHEADER: list of that call
  sink : Call \cup {None}]              \* HEADERDATA and WRITEDATA: CurlRequest of
                                        \* that call, None for request_info

TypeOK ==
  /\ opt \in Options
  /\ info \in RequestInfo /\ request \in RequestInfo
  /\ pc \in {"idle", "send", "done"}
  /\ num \in 0 .. MaxCalls
  /\ call \in ACall \cup {None} /\ previous \in ACall \cup {None}
  /\ wire \in [method : Reads \cup Writes, body : Call \cup {None}, list : Call \cup {None}] \cup {None}
  /\ result \in {"ok", "failed"}
  /\ response \in [call : Call, verb : Verbs, ok : BOOLEAN, body : Seq(Call),
                   headers : Call \cup {None}, error : Call \cup {None}, out : Seq(Call)] \cup {None}
  /\ used \subseteq Verbs /\ success \in 0 .. MaxCalls /\ undefined \in BOOLEAN

\* Initialize: a new easy handle, its callbacks directed at request_info.
Init ==
  /\ opt = [method |-> "GET", nobody |-> FALSE, custom |-> None, fields |-> None,
            list |-> None, sink |-> None]
  /\ info = EmptyInfo /\ request = EmptyInfo
  /\ pc = "idle" /\ num = 0 /\ call = None /\ previous = None /\ wire = None /\ result = "ok"
  /\ response = None
  /\ used = {} /\ success = 0 /\ undefined = FALSE
-----------------------------------------------------------------------------
(***************************************************************************)
(* curl_easy_setopt, as far as one option changes another.                 *)
(***************************************************************************)
\* CURLOPT_NOBODY.
SetNobody(o, on) ==
  [o EXCEPT !.nobody = on,
            !.method = IF on THEN "HEAD" ELSE IF @ = "HEAD" THEN "GET" ELSE @]

\* CURLOPT_POST, 1.
SetPost(o) == [o EXCEPT !.method = "POST", !.nobody = FALSE]

\* CURLOPT_POSTFIELDS: the buffer is not copied.
SetFields(o) == [o EXCEPT !.method = "POST", !.fields = num']

\* CURLOPT_CUSTOMREQUEST.
SetCustom(o, verb) == [o EXCEPT !.custom = verb]

\* Seeded bug: an empty list leaves the option alone, as in SetHeaders.
SetListIfAny(o, nonempty) == [o EXCEPT !.list = IF nonempty THEN num' ELSE @]

\* CURLOPT_HTTPHEADER with the list of the call, nullptr for an empty one.
SetList(o, nonempty) == [o EXCEPT !.list = IF nonempty THEN num' ELSE None]
-----------------------------------------------------------------------------
(***************************************************************************)
(* The calls, up to the transfer.                                          *)
(***************************************************************************)
\* What the five operations have in common.
Begin(verb, headers) ==
  /\ pc = "idle" /\ ~undefined /\ num < MaxCalls /\ verb \in Verbs
  /\ num' = num + 1
  /\ call' = [verb |-> verb, headers |-> headers]
  /\ previous' = call
  /\ used' = used \cup {verb}
  /\ success' = IF result = "ok" THEN num ELSE success
  /\ pc' = "send"
  /\ UNCHANGED <<info, result, response, undefined>>

\* Seeded bug: the callbacks stay where they were.
NewRequestUnused(o) == o

\* CurlRequest::CurlRequest: both callbacks write to the new request.
NewRequest(o) == [o EXCEPT !.sink = num']

\* CurlRequest::SetHeaders: an empty list leaves the option alone.
SetHeaders(o, headers) == IF headers THEN SetList(o, TRUE) ELSE o

\* Seeded bug: the NOBODY of an earlier HEAD stays.
SetGetAttrsForgotten(o) == o

\* CurlRequest::SetGetAttrs.
SetGetAttrs(o) == SetNobody(o, FALSE)

\* CurlRequest::SetHeadAttrs; CURLOPT_HTTPGET, 0 does nothing.
SetHeadAttrs(o) == SetNobody(o, TRUE)

Get(headers) ==
  /\ Begin("GET", headers)
  /\ opt' = SetGetAttrs(SetHeaders(NewRequest(opt), headers))
  /\ request' = EmptyInfo /\ wire' = None

HeadRequest(headers) ==
  /\ Begin("HEAD", headers)
  /\ opt' = SetHeadAttrs(SetHeaders(NewRequest(opt), headers))
  /\ request' = EmptyInfo /\ wire' = None

\* Put and Post add a Content-Type, so that their list is never empty.
Put(headers) ==
  /\ Begin("PUT", headers)
  /\ opt' = SetList(SetFields(SetCustom(opt, "PUT")), TRUE)
  /\ wire' = None /\ UNCHANGED request

\* Neither the body nor the kind of request is set.
Delete(headers) ==
  /\ Begin("DELETE", headers)
  /\ opt' = SetList(SetCustom(opt, "DELETE"), headers)
  /\ wire' = None /\ UNCHANGED request

\* Seeded bug: the kind of request is left to CURLOPT_POSTFIELDS.
PostFieldsOnly(headers) ==
  /\ Begin("POST", headers)
  /\ opt' = SetList(SetFields(opt), TRUE)
  /\ wire' = None /\ UNCHANGED request

Post(headers) ==
  /\ Begin("POST", headers)
  /\ opt' = SetList(SetFields(SetPost(opt)), TRUE)
  /\ wire' = None /\ UNCHANGED request
-----------------------------------------------------------------------------
(***************************************************************************)
(* The transfer.                                                           *)
(***************************************************************************)
\* The request libcurl makes of the options.
Wire(o) == [
  method |-> IF o.custom # None THEN o.custom ELSE IF o.nobody THEN "HEAD" ELSE o.method,
  body |-> IF o.method = "POST" THEN o.fields ELSE None,
  list |-> o.list]

\* libcurl follows a pointer into what an earlier call owned: the header list, the
\* buffer it sends, and the CurlRequest once a header comes back.
Dangling(o, headers) ==
  {o.list, Wire(o).body, IF headers THEN o.sink ELSE None} \ {num, None} # {}

\* WriteHeader and WriteBody, or RequestHeaderCallback and RequestWriteCallback.
Receive(i, headers, body) ==
  [headers |-> IF headers THEN Append(i.headers, num) ELSE i.headers,
   body |-> IF body THEN Append(i.body, num) ELSE i.body]

\* The transfer succeeds, or fails after no, some or all of the response has come.
\* A body is received unless NOBODY is set.
Transfer ==
  /\ pc = "send"
  /\ wire' = Wire(opt)
  /\ \E ok, headers, body \in BOOLEAN :
       /\ undefined' = Dangling(opt, headers)
       /\ ok => headers /\ body = ~opt.nobody
       /\ body => headers /\ ~opt.nobody
       /\ result' = IF ok THEN "ok" ELSE "failed"
       /\ request' = IF opt.sink = num THEN Receive(request, headers, body) ELSE request
       /\ info' = IF opt.sink = None THEN Receive(info, headers, body) ELSE info
  /\ pc' = "done"
  /\ UNCHANGED <<opt, num, call, previous, response, used, success>>
-----------------------------------------------------------------------------
(***************************************************************************)
(* The response.                                                           *)
(***************************************************************************)
LastBlock(i) == IF i.headers = <<>> THEN None ELSE i.headers[Len(i.headers)]

\* A failed call reports the status line of the last header block, or the message
\* of the CURLcode if there is none.  "out" is the buffer_out of a Post.
Respond(i) == [
  call |-> num, verb |-> call.verb, ok |-> result = "ok",
  body |-> IF result = "ok" THEN i.body ELSE <<>>,
  headers |-> IF result = "ok" THEN LastBlock(i) ELSE None,
  error |-> IF result = "ok" THEN None ELSE LastBlock(i),
  out |-> IF call.verb = "POST" THEN i.body ELSE <<>>]

\* Get and Head: CheckMulti builds the response from the CurlRequest.
ReturnRead ==
  /\ pc = "done" /\ ~undefined /\ call.verb \in Reads
  /\ response' = Respond(request)
  /\ pc' = "idle"
  /\ UNCHANGED <<opt, info, request, num, call, previous, wire, result, used, success, undefined>>

\* Seeded bug: request_info is never reset.
ResponseWithoutReset ==
  /\ pc = "done" /\ ~undefined /\ call.verb \in Writes
  /\ response' = Respond(info)
  /\ pc' = "idle"
  /\ UNCHANGED <<opt, info, request, num, call, previous, wire, result, used, success, undefined>>

\* Put, Post (which takes the body first) and Delete: TransformResponseCurl, which
\* resets request_info only when the transfer succeeded.
TransformResponseCurl ==
  /\ pc = "done" /\ ~undefined /\ call.verb \in Writes
  /\ response' = Respond(info)
  /\ info' = IF result = "ok" THEN EmptyInfo ELSE info
  /\ pc' = "idle"
  /\ UNCHANGED <<opt, request, num, call, previous, wire, result, used, success, undefined>>
-----------------------------------------------------------------------------
Next ==
  \/ \E headers \in BOOLEAN :
       Get(headers) \/ HeadRequest(headers) \/ Put(headers) \/ Delete(headers) \/ Post(headers)
  \/ Transfer
  \/ ReturnRead
  \/ TransformResponseCurl

Spec == Init /\ [][Next]_vars
-----------------------------------------------------------------------------
(***************************************************************************)
(* Properties.                                                             *)
(***************************************************************************)
Sent == pc = "done"

\* A client used only for reads, or only for one kind of write, sends exactly what
\* its caller asked for: the method, and the body of this call and no other.  The
\* options left by earlier calls do not show.
WireMatchesCall ==
  Sent /\ (used \subseteq Reads \/ used = {call.verb}) =>
    /\ wire.method = call.verb
    /\ wire.body = IF call.verb \in {"PUT", "POST"} THEN num ELSE None

\* The method of another call is sent in two cases and no other: a Get, a Head or a Post
\* of a client that has made a Put or a Delete before is sent as one of these, and a Get
\* of one that has made a Post may be sent as a POST.
LeftoverMethods == Sent =>
  LET named == used \cap {"PUT", "DELETE"}
  IN  IF named # {} /\ call.verb \notin named THEN wire.method \in named
      ELSE wire.method \in {call.verb} \cup (IF call.verb = "GET" THEN used \cap {"POST"} ELSE {})

\* Memory of another call is read or written in three cases and no other.  Without
\* headers of its own a read uses the list of the call before it.
HasList(c) == c # None /\ (c.headers \/ c.verb \in {"PUT", "POST"})
StaleList == call.verb \in Reads /\ ~call.headers /\ HasList(previous)

\* A Get or a Delete after a Put or a Post sends the buffer of that call.
HasBody(c) == c # None /\ c.verb \in {"PUT", "POST"}
StaleBody == call.verb \in {"GET", "DELETE"} /\ HasBody(previous)

\* The response of a write goes to the CurlRequest of a read, if there was ever one.
StaleSink == call.verb \in Writes /\ used \cap Reads # {}

\* libcurl follows a pointer into a call that has returned exactly in these cases (in the
\* last one, unless the transfer fails before a header has come).
MemoryIsOwn == Sent =>
  /\ undefined => StaleList \/ StaleBody \/ StaleSink
  /\ StaleList \/ StaleBody \/ (StaleSink /\ result = "ok") => undefined

\* The response of a read holds data of its own transfer only, and all of it, after
\* any sequence of calls.
ReadResponseIsOwn ==
  response # None /\ response.verb \in Reads =>
    /\ response.headers \in {response.call, None} /\ response.error \in {response.call, None}
    /\ response.ok => response.headers = response.call
    /\ response.body = IF response.ok /\ response.verb = "GET" THEN <<response.call>> ELSE <<>>

\* A client that has only made writes: a write that succeeds returns its own headers and
\* a body that ends with its own; what comes before that, and the error that a failed
\* write reports, is its own or left by writes that failed since the last success,
\* never older.  The same holds of the buffer_out of a Post.
WriteResponseIsOwn ==
  response # None /\ pc = "idle" /\ used \subseteq Writes =>
    /\ response.ok => /\ response.headers = num
                      /\ response.body # <<>> /\ response.body[Len(response.body)] = num
    /\ \A i \in DOMAIN response.body : response.body[i] \in success + 1 .. num
    /\ \A i \in DOMAIN response.out : response.out[i] \in success + 1 .. num
    /\ response.error # None => response.error \in success + 1 .. num

\* A request is sent with the headers of its own call.
HeadersAreOwn == Sent => wire.list \in {num, None}
=============================================================================
