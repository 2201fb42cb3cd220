------------------------ MODULE MultiCurlClientProofs ------------------------
(***************************************************************************)
(* What a call sends and gets back, after any number of calls.             *)
(***************************************************************************)
EXTENDS MultiCurlClient, SequenceTheorems, TLAPS

\* What the options may hold, given the verbs called so far.
OptInv ==
  /\ opt.custom # None => opt.custom \in used
  /\ opt.custom = None => used \cap {"PUT", "DELETE"} = {}
  /\ opt.method = "POST" => used \cap {"PUT", "POST"} # {}
  /\ opt.nobody => "HEAD" \in used
  /\ opt.sink # None => used \cap Reads # {}

\* What the call under way has set.
CallInv == pc # "idle" =>
  /\ call \in ACall /\ num \in Call
  /\ call.verb \in used
  /\ call.verb = "GET" => ~opt.nobody /\ opt.method # "HEAD"
  /\ call.verb = "HEAD" => opt.nobody /\ opt.method = "HEAD"
  /\ call.verb \in {"PUT", "DELETE"} => opt.custom = call.verb
  /\ call.verb \in {"PUT", "POST"} => opt.method = "POST" /\ opt.fields = num
  /\ opt.fields = num => call.verb \in {"PUT", "POST"}
  /\ call.verb = "POST" => ~opt.nobody
  /\ call.verb \in Reads => opt.sink = num
  /\ opt.list = num <=> HasList(call)
  /\ call.verb \in Writes => opt.sink # num
  /\ success < num

\* Pointers never run ahead of the calls.
PointerInv ==
  /\ success <= num
  /\ opt.list # None => opt.list <= num
  /\ opt.sink # None => opt.sink <= num
  /\ opt.fields # None => opt.fields <= num
  /\ opt.method = "POST" => opt.fields # None
  /\ opt.sink = None <=> used \cap Reads = {}

\* Between two calls the header list and the body on the handle are those of the last
\* call, or none: an older one would have been used by it.
IdleInv ==
  /\ pc = "idle" =>
       /\ num > 0 <=> call # None
       /\ opt.list # None <=> HasList(call)
       /\ opt.method = "POST" <=> HasBody(call)
       /\ ~undefined
  /\ pc # "idle" =>
       /\ opt.list \notin {num, None} <=> StaleList
       /\ opt.method = "POST" /\ opt.fields # num <=> StaleBody
       /\ opt.sink \notin {num, None} <=> StaleSink
  /\ pc = "send" => ~undefined

\* What was sent is what the options say.
SentInv == pc = "done" => wire = Wire(opt)

\* The data of one call: all of it after a success, otherwise none or part of it.
OwnData(i) ==
  /\ i.headers \in {<<>>, <<num>>} /\ i.body \in {<<>>, <<num>>}
  /\ result = "ok" => i = [headers |-> <<num>>, body |-> IF opt.nobody THEN <<>> ELSE <<num>>]

\* The CurlRequest of a read is empty when the transfer begins and holds its data when
\* it is over.
RequestInv == pc # "idle" /\ call.verb \in Reads =>
  IF pc = "send" THEN request = EmptyInfo ELSE OwnData(request)

\* Calls that came after the last success.
Recent(seq) == \A i \in DOMAIN seq : seq[i] \in success + 1 .. num

EndsWithOwn(seq) == seq # <<>> /\ seq[Len(seq)] = num

\* What request_info of a client that makes writes holds is recent; it is empty after a
\* success, and has all of a transfer that has just succeeded.
InfoInv == used \subseteq Writes =>
  /\ Recent(info.headers) /\ Recent(info.body)
  /\ pc = "idle" /\ result = "ok" => info = EmptyInfo
  /\ pc = "done" /\ result = "ok" => EndsWithOwn(info.headers) /\ EndsWithOwn(info.body)

IInv ==
  /\ TypeOK
  /\ OptInv /\ CallInv /\ PointerInv /\ IdleInv /\ SentInv /\ RequestInv /\ InfoInv
  /\ MemoryIsOwn /\ ReadResponseIsOwn /\ WriteResponseIsOwn
-----------------------------------------------------------------------------
\* What Begin establishes, whatever the verb.
LEMMA BeginFacts ==
  ASSUME TypeOK, NEW verb, NEW headers \in BOOLEAN, Begin(verb, headers)
  PROVE  /\ verb \in Verbs
         /\ num' \in Call /\ num' \in 0 .. MaxCalls /\ num' = num + 1
         /\ call' = [verb |-> verb, headers |-> headers]
         /\ call' \in ACall
         /\ used' = used \cup {verb} /\ used' \subseteq Verbs
         /\ previous' = call /\ success' \in {num, success}
         /\ pc' = "send" /\ ~undefined'
BY ConstantsAssumption DEF TypeOK, Begin, Call, ACall

\* Receiving adds the current call to what is there.
LEMMA ReceiveType ==
  ASSUME num \in Call, NEW i \in RequestInfo, NEW headers, NEW body
  PROVE  Receive(i, headers, body) \in RequestInfo
<1>1. Append(i.headers, num) \in Seq(Call) /\ Append(i.body, num) \in Seq(Call)
  BY AppendProperties DEF RequestInfo
<1>2. QED BY <1>1 DEF Receive, RequestInfo

\* The last header block is the one of some call.
LEMMA LastBlockType ==
  ASSUME NEW i \in RequestInfo
  PROVE  LastBlock(i) \in Call \cup {None}
<1>1. CASE i.headers = <<>>
  BY <1>1 DEF LastBlock
<1>2. CASE i.headers # <<>>
  <2>1. i.headers \in Seq(Call) /\ Len(i.headers) \in Nat /\ Len(i.headers) # 0
    BY <1>2, EmptySeq, LenProperties DEF RequestInfo
  <2>2. i.headers[Len(i.headers)] \in Call
    BY <2>1, ElementOfSeq
  <2>3. QED BY <1>2, <2>2 DEF LastBlock
<1>3. QED BY <1>1, <1>2

\* The empty RequestInfo.
LEMMA EmptyInfoType == EmptyInfo \in RequestInfo
BY EmptySeq DEF EmptyInfo, RequestInfo

\* The options stay in their sets, whatever a call sets.
LEMMA OptionsStep ==
  ASSUME opt \in Options, num' \in Call, NEW headers \in BOOLEAN
  PROVE  /\ SetGetAttrs(SetHeaders(NewRequest(opt), headers)) \in Options
         /\ SetHeadAttrs(SetHeaders(NewRequest(opt), headers)) \in Options
         /\ SetList(SetFields(SetCustom(opt, "PUT")), TRUE) \in Options
         /\ SetList(SetCustom(opt, "DELETE"), headers) \in Options
         /\ SetList(SetFields(SetPost(opt)), TRUE) \in Options
<1>1. ASSUME NEW o \in Options, NEW nonempty \in BOOLEAN, NEW verb \in {"PUT", "DELETE"}
      PROVE  /\ SetNobody(o, nonempty) \in Options
             /\ SetPost(o) \in Options
             /\ SetFields(o) \in Options
             /\ SetCustom(o, verb) \in Options
             /\ SetList(o, nonempty) \in Options
             /\ NewRequest(o) \in Options
  BY DEF Options, SetNobody, SetPost, SetFields, SetCustom, SetList, NewRequest
<1>2. ASSUME NEW o \in Options PROVE SetHeaders(o, headers) \in Options
  BY <1>1, <1>2 DEF SetHeaders
<1>3. QED BY <1>1, <1>2 DEF SetGetAttrs, SetHeadAttrs

\* The request made of the options.
LEMMA WireType ==
  ASSUME NEW o \in Options
  PROVE  Wire(o) \in [method : Reads \cup Writes, body : Call \cup {None}, list : Call \cup {None}]
BY DEF Wire, Options, Reads, Writes

\* A response is built of the data of calls.
LEMMA RespondType ==
  ASSUME num \in Call, call \in ACall, NEW i \in RequestInfo
  PROVE  Respond(i) \in [call : Call, verb : Verbs, ok : BOOLEAN, body : Seq(Call),
                         headers : Call \cup {None}, error : Call \cup {None}, out : Seq(Call)]
<1>1. i.body \in Seq(Call) /\ <<>> \in Seq(Call)
  BY EmptySeq DEF RequestInfo
<1>2. QED BY <1>1, LastBlockType DEF Respond, ACall

\* The steps keep the types.
LEMMA TypeStep == TypeOK /\ CallInv /\ [Next]_vars => TypeOK'
<1> SUFFICES ASSUME TypeOK, CallInv, [Next]_vars PROVE TypeOK'
  OBVIOUS
<1>1. ASSUME NEW headers \in BOOLEAN,
             Get(headers) \/ HeadRequest(headers) \/ Put(headers) \/ Delete(headers) \/ Post(headers)
      PROVE  TypeOK'
  <2>1. PICK verb : Begin(verb, headers)
    BY <1>1 DEF Get, HeadRequest, Put, Delete, Post
  <2>2. opt' \in Options
    BY <1>1, <2>1, BeginFacts, OptionsStep DEF TypeOK, Get, HeadRequest, Put, Delete, Post
  <2>3. request' \in RequestInfo /\ wire' = None
    BY <1>1, EmptyInfoType DEF TypeOK, Get, HeadRequest, Put, Delete, Post
  <2>4. success' \in 0 .. MaxCalls
    BY <2>1, BeginFacts DEF TypeOK
  <2>5. QED BY <2>1, <2>2, <2>3, <2>4, BeginFacts DEF TypeOK, Begin
<1>2. CASE Transfer
  <2>1. num \in Call
    BY <1>2 DEF Transfer, CallInv
  <2>2. request' \in RequestInfo /\ info' \in RequestInfo
    BY <1>2, <2>1, ReceiveType DEF Transfer, TypeOK
  <2>3. undefined' \in BOOLEAN /\ result' \in {"ok", "failed"}
    BY <1>2 DEF Transfer, Dangling, TypeOK
  <2>4. wire' \in [method : Reads \cup Writes, body : Call \cup {None}, list : Call \cup {None}]
    BY <1>2, WireType DEF Transfer, TypeOK
  <2>5. QED BY <1>2, <2>2, <2>3, <2>4 DEF Transfer, TypeOK
<1>3. CASE ReturnRead \/ TransformResponseCurl
  <2>1. num \in Call /\ call \in ACall
    BY <1>3 DEF ReturnRead, TransformResponseCurl, CallInv
  <2>2. response' \in [call : Call, verb : Verbs, ok : BOOLEAN, body : Seq(Call),
                       headers : Call \cup {None}, error : Call \cup {None}, out : Seq(Call)]
    BY <1>3, <2>1, RespondType DEF ReturnRead, TransformResponseCurl, TypeOK
  <2>3. info' \in RequestInfo
    BY <1>3, EmptyInfoType DEF ReturnRead, TransformResponseCurl, TypeOK
  <2>4. QED BY <1>3, <2>2, <2>3 DEF ReturnRead, TransformResponseCurl, TypeOK
<1>4. CASE UNCHANGED vars
  BY <1>4 DEF vars, TypeOK
<1>5. QED BY <1>1, <1>2, <1>3, <1>4 DEF Next
-----------------------------------------------------------------------------
(***************************************************************************)
(* The options each call leaves on the handle.                             *)
(***************************************************************************)
LEMMA CallOptions ==
  ASSUME opt \in Options, NEW headers \in BOOLEAN
  PROVE  /\ Get(headers) => opt' =
              [method |-> IF opt.method = "HEAD" THEN "GET" ELSE opt.method,
               nobody |-> FALSE, custom |-> opt.custom, fields |-> opt.fields,
               list |-> IF headers THEN num' ELSE opt.list, sink |-> num']
         /\ HeadRequest(headers) => opt' =
              [method |-> "HEAD", nobody |-> TRUE, custom |-> opt.custom,
               fields |-> opt.fields, list |-> IF headers THEN num' ELSE opt.list,
               sink |-> num']
         /\ Put(headers) => opt' =
              [method |-> "POST", nobody |-> opt.nobody, custom |-> "PUT",
               fields |-> num', list |-> num', sink |-> opt.sink]
         /\ Delete(headers) => opt' =
              [method |-> opt.method, nobody |-> opt.nobody, custom |-> "DELETE",
               fields |-> opt.fields, list |-> IF headers THEN num' ELSE None,
               sink |-> opt.sink]
         /\ Post(headers) => opt' =
              [method |-> "POST", nobody |-> FALSE, custom |-> opt.custom,
               fields |-> num', list |-> num', sink |-> opt.sink]
<1>1. opt = [method |-> opt.method, nobody |-> opt.nobody, custom |-> opt.custom,
             fields |-> opt.fields, list |-> opt.list, sink |-> opt.sink]
  BY DEF Options
<1>2. Get(headers) => opt' = SetGetAttrs(SetHeaders(NewRequest(opt), headers))
  BY DEF Get
<1>3. HeadRequest(headers) => opt' = SetHeadAttrs(SetHeaders(NewRequest(opt), headers))
  BY DEF HeadRequest
<1>4. Put(headers) => opt' = SetList(SetFields(SetCustom(opt, "PUT")), TRUE)
  BY DEF Put
<1>5. Delete(headers) => opt' = SetList(SetCustom(opt, "DELETE"), headers)
  BY DEF Delete
<1>6. Post(headers) => opt' = SetList(SetFields(SetPost(opt)), TRUE)
  BY DEF Post
<1>7. QED
  BY <1>1, <1>2, <1>3, <1>4, <1>5, <1>6
     DEF SetGetAttrs, SetHeadAttrs, SetHeaders, NewRequest, SetNobody, SetPost,
         SetFields, SetCustom, SetList

OptionInvs == OptInv /\ CallInv /\ PointerInv /\ IdleInv /\ SentInv

\* The steps keep what the options have to do with the calls made.
LEMMA OptionStep == TypeOK /\ OptionInvs /\ MemoryIsOwn /\ [Next]_vars => OptionInvs'
<1> SUFFICES ASSUME TypeOK, OptionInvs, MemoryIsOwn, [Next]_vars PROVE OptionInvs'
  OBVIOUS
<1> USE DEF OptionInvs
<1>0. opt \in Options
  BY DEF TypeOK
<1>1. ASSUME NEW headers \in BOOLEAN,
             Get(headers) \/ HeadRequest(headers) \/ Put(headers) \/ Delete(headers) \/ Post(headers)
      PROVE  OptionInvs'
  <2>1. /\ num' \in Call /\ num' = num + 1 /\ num \in Nat /\ None \notin Call
        /\ call' \in ACall /\ call'.headers = headers /\ call' # None
        /\ previous' = call /\ success' < num' /\ success' <= num'
        /\ used' = used \cup {call'.verb} /\ pc' = "send" /\ ~undefined' /\ pc = "idle"
    <3>1. PICK verb : Begin(verb, headers)
      BY <1>1 DEF Get, HeadRequest, Put, Delete, Post
    <3>2. num \in Nat /\ success \in Nat /\ pc = "idle"
      BY <3>1, ConstantsAssumption DEF TypeOK, Begin
    <3>3. success' < num' /\ success' <= num'
      BY <3>1, <3>2, BeginFacts DEF PointerInv
    <3>4. call' # None
      BY <3>1, BeginFacts, ConstantsAssumption DEF ACall
    <3>5. QED BY <3>1, <3>2, <3>3, <3>4, BeginFacts, ConstantsAssumption
  <2>2. /\ opt.list # None => opt.list \in Nat /\ opt.list <= num'
        /\ opt.sink # None => opt.sink \in Nat /\ opt.sink <= num'
        /\ opt.fields # None => opt.fields \in Nat /\ opt.fields <= num'
        /\ opt.list # num' /\ opt.sink # num' /\ opt.fields # num' /\ num' # None
    BY <1>0, <2>1 DEF PointerInv, Options, Call
  <2>3. /\ opt.list # None <=> HasList(call)
        /\ opt.method = "POST" <=> HasBody(call)
        /\ opt.method = "POST" => opt.fields # None
        /\ opt.sink = None <=> used \cap Reads = {}
    BY <2>1 DEF PointerInv, IdleInv
  <2>4. ASSUME NEW verb \in {"GET", "HEAD"}, call'.verb = verb,
               opt'.custom = opt.custom, opt'.fields = opt.fields, opt'.sink = num',
               opt'.list = IF headers THEN num' ELSE opt.list,
               opt'.nobody <=> verb = "HEAD", opt' \in Options,
               opt'.method = IF verb = "HEAD" THEN "HEAD" ELSE IF opt.method = "HEAD" THEN "GET" ELSE opt.method
        PROVE  OptionInvs'
    <3>1. OptInv'
      BY <1>0, <2>1, <2>4 DEF OptInv, Options, Reads
    <3>2. CallInv'
      BY <1>0, <2>1, <2>2, <2>4 DEF CallInv, HasList, Reads, Writes
    <3>3. PointerInv'
      BY <1>0, <2>1, <2>2, <2>3, <2>4 DEF PointerInv, Reads
    <3>4. IdleInv'
      BY <1>0, <2>1, <2>2, <2>3, <2>4 DEF IdleInv, StaleList, StaleBody, StaleSink, Reads, Writes
    <3>5. QED BY <2>1, <3>1, <3>2, <3>3, <3>4 DEF SentInv
  <2>5. ASSUME NEW verb \in {"PUT", "POST"}, call'.verb = verb,
               opt'.custom = (IF verb = "PUT" THEN "PUT" ELSE opt.custom), opt'.fields = num',
               opt'.sink = opt.sink, opt'.list = num', opt'.method = "POST", opt' \in Options,
               opt'.nobody <=> verb = "PUT" /\ opt.nobody
        PROVE  OptionInvs'
    <3>1. OptInv'
      BY <1>0, <2>1, <2>5, ConstantsAssumption DEF OptInv, Options, Reads, Writes
    <3>2. CallInv'
      BY <1>0, <2>1, <2>2, <2>5 DEF CallInv, HasList, Reads, Writes
    <3>3. PointerInv'
      BY <1>0, <2>1, <2>2, <2>3, <2>5 DEF PointerInv, Reads
    <3>4. IdleInv'
      BY <1>0, <2>1, <2>2, <2>3, <2>5 DEF IdleInv, StaleList, StaleBody, StaleSink, Reads, Writes
    <3>5. QED BY <2>1, <3>1, <3>2, <3>3, <3>4 DEF SentInv
  <2>6. CASE Get(headers) \/ HeadRequest(headers)
    <3>1. ASSUME Get(headers) PROVE call'.verb = "GET"
      BY <3>1 DEF Get, Begin
    <3>2. ASSUME HeadRequest(headers) PROVE call'.verb = "HEAD"
      BY <3>2 DEF HeadRequest, Begin
    <3>3. opt' \in Options
      BY <1>0, <2>1, <2>6, OptionsStep DEF Get, HeadRequest
    <3>4. CASE Get(headers)
      BY <1>0, <2>4, <3>1, <3>3, <3>4, CallOptions
    <3>5. CASE HeadRequest(headers)
      BY <1>0, <2>4, <3>2, <3>3, <3>5, CallOptions
    <3>6. QED BY <2>6, <3>4, <3>5
  <2>7. CASE Put(headers) \/ Post(headers)
    <3>1. ASSUME Put(headers) PROVE call'.verb = "PUT"
      BY <3>1 DEF Put, Begin
    <3>2. ASSUME Post(headers) PROVE call'.verb = "POST"
      BY <3>2 DEF Post, Begin
    <3>3. opt' \in Options
      BY <1>0, <2>1, <2>7, OptionsStep DEF Put, Post
    <3>4. opt.nobody \in BOOLEAN
      BY <1>0 DEF Options
    <3>5. CASE Put(headers)
      BY <1>0, <2>5, <3>1, <3>3, <3>4, <3>5, CallOptions
    <3>6. CASE Post(headers)
      BY <1>0, <2>5, <3>2, <3>3, <3>6, CallOptions
    <3>7. QED BY <2>7, <3>5, <3>6
  <2>8. CASE Delete(headers)
    <3>1. call'.verb = "DELETE"
      BY <2>8 DEF Delete, Begin
    <3>2. /\ opt'.custom = "DELETE" /\ opt'.fields = opt.fields /\ opt'.sink = opt.sink
          /\ opt'.list = (IF headers THEN num' ELSE None) /\ opt'.method = opt.method
          /\ opt'.nobody = opt.nobody
      BY <1>0, <2>8, CallOptions
    <3>3. OptInv'
      BY <1>0, <2>1, <3>1, <3>2, ConstantsAssumption DEF OptInv, Options, Reads, Writes
    <3>4. CallInv'
      BY <1>0, <2>1, <2>2, <3>1, <3>2 DEF CallInv, HasList, Reads, Writes
    <3>5. PointerInv'
      BY <1>0, <2>1, <2>2, <2>3, <3>1, <3>2 DEF PointerInv, Reads
    <3>6. IdleInv'
      BY <1>0, <2>1, <2>2, <2>3, <3>1, <3>2 DEF IdleInv, StaleList, StaleBody, StaleSink, Reads, Writes
    <3>7. QED BY <2>1, <3>3, <3>4, <3>5, <3>6 DEF SentInv
  <2>9. QED BY <1>1, <2>6, <2>7, <2>8
<1>2. CASE Transfer
  <2>1. /\ pc = "send" /\ pc' = "done" /\ wire' = Wire(opt)
        /\ UNCHANGED <<opt, num, call, previous, used, success>>
    BY <1>2 DEF Transfer
  <2>2. QED BY <2>1 DEF OptInv, CallInv, PointerInv, IdleInv, SentInv, HasList, StaleList,
               StaleBody, StaleSink, HasBody
<1>3. CASE ReturnRead \/ TransformResponseCurl
  <2>1. /\ pc = "done" /\ ~undefined /\ pc' = "idle"
        /\ UNCHANGED <<opt, num, call, previous, used, success, undefined>>
    BY <1>3 DEF ReturnRead, TransformResponseCurl
  <2>2. ~StaleList /\ ~StaleBody
    BY <2>1 DEF MemoryIsOwn, Sent
  <2>3. num \in Call /\ num # None /\ num > 0 /\ call \in ACall /\ call # None
    BY <2>1, ConstantsAssumption DEF CallInv, Call, ACall
  <2>4. opt.list # None <=> HasList(call)
    BY <2>1, <2>2, <2>3 DEF CallInv, IdleInv
  <2>5. opt.method = "POST" <=> HasBody(call)
    BY <2>1, <2>2, <2>3 DEF CallInv, IdleInv, HasBody, StaleBody
  <2>6. IdleInv'
    BY <2>1, <2>3, <2>4, <2>5 DEF IdleInv, HasList, HasBody
  <2>7. QED BY <2>1, <2>6 DEF OptInv, CallInv, PointerInv, SentInv
<1>4. CASE UNCHANGED vars
  BY <1>4 DEF vars, OptInv, CallInv, PointerInv, IdleInv, SentInv, Wire, HasList, StaleList,
              StaleBody, StaleSink, HasBody
<1>5. QED BY <1>1, <1>2, <1>3, <1>4 DEF Next
-----------------------------------------------------------------------------
(***************************************************************************)
(* The data.                                                               *)
(***************************************************************************)
\* What is received into an empty RequestInfo.
LEMMA ReceiveIntoEmpty ==
  ASSUME num \in Call, NEW headers \in BOOLEAN, NEW body \in BOOLEAN
  PROVE  Receive(EmptyInfo, headers, body) =
           [headers |-> IF headers THEN <<num>> ELSE <<>>, body |-> IF body THEN <<num>> ELSE <<>>]
<1>1. Append(<<>>, num) = <<num>>
  OBVIOUS
<1>2. QED BY <1>1 DEF Receive, EmptyInfo

\* The last of no header blocks, and of one.
LEMMA LastBlockOfOne ==
  ASSUME NEW i
  PROVE  /\ i.headers = <<>> => LastBlock(i) = None
         /\ i.headers = <<num>> => LastBlock(i) = num
BY DEF LastBlock

\* The call under way is recent.
LEMMA AppendRecent ==
  ASSUME num \in Call, success \in Nat, success < num, NEW seq \in Seq(Call), Recent(seq)
  PROVE  Recent(Append(seq, num)) /\ EndsWithOwn(Append(seq, num))
<1> DEFINE longer == Append(seq, num)
<1>1. /\ longer # <<>> /\ Len(longer) = Len(seq) + 1 /\ longer[Len(seq) + 1] = num
      /\ DOMAIN longer = 1 .. Len(seq) + 1 /\ DOMAIN seq = 1 .. Len(seq) /\ Len(seq) \in Nat
      /\ \A i \in 1 .. Len(seq) : longer[i] = seq[i]
  BY AppendProperties
<1>2. num \in success + 1 .. num
  BY DEF Call
<1> HIDE DEF longer
<1>3. Recent(longer)
  BY <1>1, <1>2 DEF Recent
<1>4. EndsWithOwn(longer)
  BY <1>1 DEF EndsWithOwn
<1>5. QED BY <1>3, <1>4 DEF longer

\* So is the last of recent header blocks.
LEMMA LastBlockRecent ==
  ASSUME NEW i \in RequestInfo, Recent(i.headers)
  PROVE  LastBlock(i) # None => LastBlock(i) \in success + 1 .. num
<1>1. CASE i.headers = <<>>
  BY <1>1 DEF LastBlock
<1>2. CASE i.headers # <<>>
  <2>1. i.headers \in Seq(Call)
    BY DEF RequestInfo
  <2>2. Len(i.headers) \in DOMAIN i.headers
    BY <1>2, <2>1, EmptySeq, LenProperties
  <2>3. QED BY <1>2, <2>2 DEF LastBlock, Recent
<1>3. QED BY <1>1, <1>2

DataInvs == RequestInv /\ InfoInv

\* The steps keep what is known of the data received.
LEMMA DataStep == TypeOK /\ OptionInvs /\ DataInvs /\ [Next]_vars => DataInvs'
<1> SUFFICES ASSUME TypeOK, OptionInvs, DataInvs, [Next]_vars PROVE DataInvs'
  OBVIOUS
<1> USE DEF DataInvs
<1>1. ASSUME NEW headers \in BOOLEAN,
             Get(headers) \/ HeadRequest(headers) \/ Put(headers) \/ Delete(headers) \/ Post(headers)
      PROVE  DataInvs'
  <2>1. PICK verb : Begin(verb, headers)
    BY <1>1 DEF Get, HeadRequest, Put, Delete, Post
  <2>2. call'.verb \in Reads => request' = EmptyInfo
    <3>1. CASE Get(headers) \/ HeadRequest(headers)
      BY <3>1 DEF Get, HeadRequest
    <3>2. CASE Put(headers) \/ Delete(headers) \/ Post(headers)
      <4>1. ASSUME Put(headers) PROVE call'.verb = "PUT"
        BY <4>1 DEF Put, Begin
      <4>2. ASSUME Delete(headers) PROVE call'.verb = "DELETE"
        BY <4>2 DEF Delete, Begin
      <4>3. ASSUME Post(headers) PROVE call'.verb = "POST"
        BY <4>3 DEF Post, Begin
      <4>4. QED BY <3>2, <4>1, <4>2, <4>3 DEF Reads
    <3>3. QED BY <1>1, <3>1, <3>2
  <2>3. InfoInv'
    <3>1. SUFFICES ASSUME used \subseteq Writes PROVE Recent(info.headers)' /\ Recent(info.body)'
      BY <2>1 DEF InfoInv, Begin
    <3>2. /\ pc = "idle" /\ info' = info /\ num' = num + 1 /\ num \in Nat /\ success \in Nat
          /\ success' = IF result = "ok" THEN num ELSE success
      BY <2>1, ConstantsAssumption DEF Begin, TypeOK
    <3>3. CASE result = "ok"
      BY <3>1, <3>2, <3>3 DEF InfoInv, EmptyInfo, Recent
    <3>4. CASE result # "ok"
      <4>1. success' = success /\ Recent(info.headers) /\ Recent(info.body)
        BY <3>1, <3>2, <3>4 DEF InfoInv
      <4>2. success + 1 .. num \subseteq success + 1 .. num'
        BY <3>2
      <4>3. QED BY <3>2, <4>1, <4>2 DEF Recent
    <3>5. QED BY <3>3, <3>4
  <2>4. QED BY <2>1, <2>2, <2>3 DEF RequestInv, Begin
<1>2. CASE Transfer
  <2>1. PICK ok \in BOOLEAN, headers \in BOOLEAN, body \in BOOLEAN :
          /\ ok => headers /\ body = ~opt.nobody
          /\ result' = IF ok THEN "ok" ELSE "failed"
          /\ request' = IF opt.sink = num THEN Receive(request, headers, body) ELSE request
          /\ info' = IF opt.sink = None THEN Receive(info, headers, body) ELSE info
    BY <1>2 DEF Transfer
  <2>2. /\ num \in Call /\ pc = "send" /\ pc' = "done"
        /\ UNCHANGED <<opt, num, call, used>>
    BY <1>2 DEF Transfer, OptionInvs, CallInv
  <2>3. RequestInv'
    <3>1. SUFFICES ASSUME call.verb \in Reads PROVE OwnData(request)'
      BY <2>2 DEF RequestInv
    <3>2. opt.sink = num /\ request = EmptyInfo
      BY <2>2, <3>1 DEF OptionInvs, CallInv, RequestInv
    <3>3. QED BY <2>1, <2>2, <3>2, ReceiveIntoEmpty DEF OwnData
  <2>4. InfoInv'
    <3>1. SUFFICES ASSUME used \subseteq Writes
                   PROVE  /\ Recent(info.headers)' /\ Recent(info.body)'
                          /\ result' = "ok" => EndsWithOwn(info.headers)' /\ EndsWithOwn(info.body)'
      BY <2>2 DEF InfoInv
    <3>2. opt.sink = None /\ ~opt.nobody
      BY <3>1 DEF OptionInvs, OptInv, Reads, Writes
    <3>3. /\ info'.headers = (IF headers THEN Append(info.headers, num) ELSE info.headers)
          /\ info'.body = IF body THEN Append(info.body, num) ELSE info.body
      BY <2>1, <3>2 DEF Receive
    <3>4. /\ success < num /\ success \in Nat /\ success' = success
          /\ info.headers \in Seq(Call) /\ info.body \in Seq(Call)
          /\ Recent(info.headers) /\ Recent(info.body)
      BY <1>2, <2>2, <3>1, ConstantsAssumption DEF Transfer, OptionInvs, CallInv, InfoInv, TypeOK, RequestInfo
    <3>5. /\ Recent(info'.headers) /\ Recent(info'.body)
          /\ headers => EndsWithOwn(info'.headers)
          /\ body => EndsWithOwn(info'.body)
      BY <2>2, <3>3, <3>4, AppendRecent
    <3>6. result' = "ok" => headers /\ body
      BY <2>1, <3>2
    <3>7. QED BY <2>2, <3>4, <3>5, <3>6 DEF Recent, EndsWithOwn
  <2>5. QED BY <2>3, <2>4
<1>3. CASE ReturnRead
  <2>1. ~(used \subseteq Writes)
    BY <1>3 DEF ReturnRead, OptionInvs, CallInv, Reads, Writes
  <2>2. QED BY <1>3, <2>1 DEF ReturnRead, RequestInv, InfoInv
<1>4. CASE TransformResponseCurl
  BY <1>4 DEF TransformResponseCurl, RequestInv, InfoInv, EmptyInfo, Recent
<1>5. CASE UNCHANGED vars
  BY <1>5 DEF vars, RequestInv, InfoInv, OwnData, Recent, EndsWithOwn
<1>6. QED BY <1>1, <1>2, <1>3, <1>4, <1>5 DEF Next

ResponseInvs == ReadResponseIsOwn /\ WriteResponseIsOwn

\* A response is built of the data of its own call.
LEMMA ResponseStep ==
  TypeOK /\ OptionInvs /\ DataInvs /\ ResponseInvs /\ [Next]_vars => ResponseInvs'
<1> SUFFICES ASSUME TypeOK, OptionInvs, DataInvs, ResponseInvs, [Next]_vars PROVE ResponseInvs'
  OBVIOUS
<1> USE DEF ResponseInvs
<1>1. ASSUME NEW headers \in BOOLEAN,
             Get(headers) \/ HeadRequest(headers) \/ Put(headers) \/ Delete(headers) \/ Post(headers)
      PROVE  ResponseInvs'
  <2>1. PICK verb : Begin(verb, headers)
    BY <1>1 DEF Get, HeadRequest, Put, Delete, Post
  <2>2. QED BY <2>1 DEF Begin, ReadResponseIsOwn, WriteResponseIsOwn
<1>2. CASE Transfer
  BY <1>2 DEF Transfer, ReadResponseIsOwn, WriteResponseIsOwn, TypeOK
<1>3. CASE ReturnRead
  <2>1. /\ call.verb \in Reads /\ call.verb \in used
        /\ call.verb = "GET" => ~opt.nobody
        /\ call.verb = "HEAD" => opt.nobody
        /\ OwnData(request)
    BY <1>3 DEF ReturnRead, OptionInvs, CallInv, DataInvs, RequestInv
  <2>2. response' = Respond(request) /\ UNCHANGED <<num, used, success>>
    BY <1>3 DEF ReturnRead
  <2>3. LastBlock(request) \in {num, None}
    BY <2>1, LastBlockOfOne DEF OwnData
  <2>4. result = "ok" => LastBlock(request) = num
    BY <2>1, LastBlockOfOne DEF OwnData
  <2>5. ReadResponseIsOwn'
    <3>1. /\ response'.call = num /\ response'.verb = call.verb
          /\ response'.ok = (result = "ok")
          /\ response'.body = IF result = "ok" THEN request.body ELSE <<>>
          /\ response'.headers = IF result = "ok" THEN LastBlock(request) ELSE None
          /\ response'.error = IF result = "ok" THEN None ELSE LastBlock(request)
      BY <2>2 DEF Respond
    <3>2. result = "ok" => request.body = IF call.verb = "GET" THEN <<num>> ELSE <<>>
      BY <2>1 DEF OwnData, Reads
    <3>3. response'.body = IF response'.ok /\ response'.verb = "GET" THEN <<response'.call>> ELSE <<>>
      BY <3>1, <3>2
    <3>4. QED BY <2>3, <2>4, <3>1, <3>3 DEF ReadResponseIsOwn
  <2>6. QED BY <2>1, <2>2, <2>5 DEF WriteResponseIsOwn, Reads, Writes
<1>4. CASE TransformResponseCurl
  <2>1. /\ call.verb \in Writes /\ pc = "done"
        /\ response' = Respond(info) /\ UNCHANGED <<num, used, success>>
    BY <1>4 DEF TransformResponseCurl
  <2>2. ReadResponseIsOwn'
    BY <2>1 DEF ReadResponseIsOwn, Respond, Reads, Writes
  <2>3. /\ response'.ok = (result = "ok")
        /\ response'.body = (IF result = "ok" THEN info.body ELSE <<>>)
        /\ response'.headers = (IF result = "ok" THEN LastBlock(info) ELSE None)
        /\ response'.error = (IF result = "ok" THEN None ELSE LastBlock(info))
        /\ response'.out = IF call.verb = "POST" THEN info.body ELSE <<>>
    BY <2>1 DEF Respond
  <2>4. WriteResponseIsOwn'
    <3>1. SUFFICES ASSUME used \subseteq Writes
                   PROVE  /\ response'.ok => /\ response'.headers = num
                                             /\ EndsWithOwn(response'.body)
                          /\ Recent(response'.body) /\ Recent(response'.out)
                          /\ response'.error # None => response'.error \in success + 1 .. num
      BY <2>1 DEF WriteResponseIsOwn, Recent, EndsWithOwn
    <3>2. Recent(<<>>) /\ Recent(info.headers) /\ Recent(info.body)
      BY <3>1 DEF DataInvs, InfoInv, Recent
    <3>3. result = "ok" => LastBlock(info) = num /\ EndsWithOwn(info.body)
      BY <2>1, <3>1 DEF DataInvs, InfoInv, EndsWithOwn, LastBlock
    <3>4. LastBlock(info) # None => LastBlock(info) \in success + 1 .. num
      BY <3>2, LastBlockRecent DEF TypeOK
    <3>5. QED BY <2>3, <3>2, <3>3, <3>4
  <2>5. QED BY <2>2, <2>4
<1>5. CASE UNCHANGED vars
  BY <1>5 DEF vars, ReadResponseIsOwn, WriteResponseIsOwn
<1>6. QED BY <1>1, <1>2, <1>3, <1>4, <1>5 DEF Next
-----------------------------------------------------------------------------
(***************************************************************************)
(* The theorems.                                                           *)
(***************************************************************************)
\* Only a transfer can make libcurl follow a pointer into an earlier call.
LEMMA MemoryStep == TypeOK /\ OptionInvs /\ MemoryIsOwn /\ [Next]_vars => MemoryIsOwn'
<1> SUFFICES ASSUME TypeOK, OptionInvs, MemoryIsOwn, [Next]_vars PROVE MemoryIsOwn'
  OBVIOUS
<1>1. ASSUME NEW headers \in BOOLEAN,
             Get(headers) \/ HeadRequest(headers) \/ Put(headers) \/ Delete(headers) \/ Post(headers)
      PROVE  MemoryIsOwn'
  BY <1>1 DEF Get, HeadRequest, Put, Delete, Post, Begin, MemoryIsOwn, Sent
<1>2. CASE Transfer
  <2>1. PICK ok \in BOOLEAN, headers \in BOOLEAN :
          /\ undefined' = Dangling(opt, headers)
          /\ result' = (IF ok THEN "ok" ELSE "failed") /\ (ok => headers)
    BY <1>2 DEF Transfer
  <2>2. pc = "send" /\ UNCHANGED <<opt, num, call, previous, used>>
    BY <1>2 DEF Transfer
  <2>3. /\ opt.list \notin {num, None} <=> StaleList
        /\ Wire(opt).body \notin {num, None} <=> StaleBody
        /\ opt.sink \notin {num, None} <=> StaleSink
    BY <2>2 DEF OptionInvs, IdleInv, PointerInv, Wire
  <2>4. Dangling(opt, headers) <=> StaleList \/ StaleBody \/ (headers /\ StaleSink)
    BY <2>3 DEF Dangling
  <2>5. /\ StaleList' <=> StaleList
        /\ StaleBody' <=> StaleBody
        /\ StaleSink' <=> StaleSink
    BY <2>2 DEF StaleList, StaleBody, StaleSink, HasList, HasBody
  <2>6. QED BY <2>1, <2>4, <2>5 DEF MemoryIsOwn
<1>3. CASE ReturnRead \/ TransformResponseCurl
  BY <1>3 DEF ReturnRead, TransformResponseCurl, MemoryIsOwn, Sent
<1>4. CASE UNCHANGED vars
  BY <1>4 DEF vars, MemoryIsOwn, Sent, StaleList, StaleBody, StaleSink, HasList, HasBody
<1>5. QED BY <1>1, <1>2, <1>3, <1>4 DEF Next

\* The inductive invariant.
THEOREM Invariance == Spec => []IInv
<1>1. Init => IInv
  <2>1. ASSUME Init PROVE TypeOK
    <3>1. opt \in Options
      BY <2>1 DEF Init, Options
    <3>2. num \in 0 .. MaxCalls
      BY <2>1, ConstantsAssumption DEF Init
    <3>3. QED BY <2>1, <3>1, <3>2, EmptyInfoType DEF Init, TypeOK
  <2>2. ASSUME Init PROVE OptionInvs
    BY <2>2 DEF Init, OptionInvs, OptInv, CallInv, PointerInv, IdleInv, SentInv, HasList, HasBody
  <2>3. ASSUME Init PROVE DataInvs /\ ResponseInvs /\ MemoryIsOwn
    BY <2>3 DEF Init, DataInvs, RequestInv, InfoInv, EmptyInfo, Recent, ResponseInvs, ReadResponseIsOwn,
                WriteResponseIsOwn, MemoryIsOwn, Sent
  <2>4. QED BY <2>1, <2>2, <2>3 DEF IInv, OptionInvs, DataInvs, ResponseInvs
<1>2. IInv /\ [Next]_vars => IInv'
  BY TypeStep, OptionStep, DataStep, ResponseStep, MemoryStep
     DEF IInv, OptionInvs, DataInvs, ResponseInvs
<1>3. QED BY <1>1, <1>2, PTL DEF Spec

\* The types.
THEOREM TypeCorrect == Spec => []TypeOK
BY Invariance, PTL DEF IInv

\* The response of a read is its own, after any calls.
THEOREM ReadsAreAnswered == Spec => []ReadResponseIsOwn
BY Invariance, PTL DEF IInv

\* What the response of a write holds is recent, and ends with its own data.
THEOREM WritesAreAnswered == Spec => []WriteResponseIsOwn
BY Invariance, PTL DEF IInv

\* libcurl follows a pointer into an earlier call exactly in the three cases MemoryIsOwn
\* names.
THEOREM MemoryStaysOwn == Spec => []MemoryIsOwn
BY Invariance, PTL DEF IInv

\* A client used for reads only, or for one kind of write, sends what it is asked to.
THEOREM WireIsRight == Spec => []WireMatchesCall
<1>1. IInv => WireMatchesCall
  <2> SUFFICES ASSUME IInv, Sent, used \subseteq Reads \/ used = {call.verb}
               PROVE  /\ wire.method = call.verb
                      /\ wire.body = IF call.verb \in {"PUT", "POST"} THEN num ELSE None
    BY DEF WireMatchesCall
  <2>1. /\ wire = Wire(opt) /\ opt \in Options
        /\ call.verb \in {"GET", "HEAD", "PUT", "POST", "DELETE"}
        /\ call.verb \in used
    BY ConstantsAssumption DEF IInv, TypeOK, SentInv, CallInv, Sent, Reads, Writes
  <2>2. opt.custom = IF call.verb \in {"PUT", "DELETE"} THEN call.verb ELSE None
    BY <2>1 DEF IInv, OptInv, CallInv, Sent, Options, Reads
  <2>3. opt.method = "POST" <=> call.verb \in {"PUT", "POST"}
    BY <2>1 DEF IInv, OptInv, CallInv, Sent, Options, Reads
  <2>4. /\ call.verb = "GET" => ~opt.nobody /\ opt.method = "GET"
        /\ call.verb = "HEAD" => opt.nobody
        /\ call.verb = "POST" => ~opt.nobody
        /\ call.verb \in {"PUT", "POST"} => opt.fields = num
    BY <2>1, <2>3 DEF IInv, CallInv, Sent, Options
  <2>5. None \notin {"PUT", "DELETE"}
    BY ConstantsAssumption DEF Writes
  <2>6. QED BY <2>1, <2>2, <2>3, <2>4, <2>5 DEF Wire
<1>2. QED BY <1>1, Invariance, PTL

\* The method of another call is sent in the two cases LeftoverMethods names only.
THEOREM LeftoverMethodsAreKnown == Spec => []LeftoverMethods
<1>1. IInv => LeftoverMethods
  <2> SUFFICES ASSUME IInv, Sent PROVE LeftoverMethods
    BY DEF LeftoverMethods
  <2>1. /\ wire = Wire(opt) /\ opt \in Options /\ call.verb \in used
        /\ call.verb \in {"GET", "HEAD", "PUT", "POST", "DELETE"}
    BY ConstantsAssumption DEF IInv, TypeOK, SentInv, CallInv, Sent, Reads, Writes, ACall
  <2>2. CASE used \cap {"PUT", "DELETE"} # {}
    <3>1. opt.custom # None /\ wire.method = opt.custom /\ opt.custom \in used \cap {"PUT", "DELETE"}
      BY <2>1, <2>2 DEF IInv, OptInv, Wire, Options
    <3>2. call.verb \in {"PUT", "DELETE"} => opt.custom = call.verb
      BY DEF IInv, CallInv, Sent
    <3>3. QED BY <3>1, <3>2 DEF LeftoverMethods
  <2>3. CASE used \cap {"PUT", "DELETE"} = {}
    <3>1. opt.custom = None /\ call.verb \in {"GET", "HEAD", "POST"}
      BY <2>1, <2>3 DEF IInv, OptInv, Options
    <3>2. wire.method = IF opt.nobody THEN "HEAD" ELSE opt.method
      BY <2>1, <3>1 DEF Wire
    <3>3. CASE call.verb = "GET"
      BY <2>1, <2>3, <3>2, <3>3 DEF IInv, CallInv, OptInv, Sent, Options, LeftoverMethods
    <3>4. CASE call.verb \in {"HEAD", "POST"}
      BY <2>1, <2>3, <3>2, <3>4 DEF IInv, CallInv, Sent, LeftoverMethods
    <3>5. QED BY <3>1, <3>3, <3>4
  <2>4. QED BY <2>2, <2>3
<1>2. QED BY <1>1, Invariance, PTL
=============================================================================
