----------------------- MODULE ResponseAssemblyProofs -----------------------
(***************************************************************************)
(* Responses are assembled right, for any names and values and any number  *)
(* of lines and chunks.                                                    *)
(***************************************************************************)
EXTENDS ResponseAssembly, SequenceTheorems, TLAPS

\* The last block has a status line, and what the lines of the last response make.
CollectInv ==
  /\ lines # <<>> => lines[1].http
  /\ lines = <<>> <=> blocks = <<>>
  /\ ~thrown =>
       /\ blocks # <<>> => LastBlock[StatusKey] \in Line
       /\ \A i \in DOMAIN lines : lines[i].http /\ Last(i) => LastBlock[StatusKey] = lines[i]
       /\ \A n \in Names :
            /\ LastBlock[n] = None <=> \A i \in DOMAIN lines : ~Field(i, n)
            /\ \A i \in DOMAIN lines :
                 Field(i, n) /\ (\A j \in DOMAIN lines : j < i => ~Field(j, n))
                 => LastBlock[n] = lines[i].text

\* After the start there is a block; the transfer of a thrown exception never ends.
PhaseInv ==
  /\ phase \in {"headers", "between", "body", "trailers"} => blocks # <<>>
  /\ phase \in {"over", "returned"} => ~thrown
  /\ phase \notin {"over", "returned"} => response = None /\ buffer_out = None
  /\ phase # "returned" => handed = None
  /\ phase = "over" => response # None

BodyInv == body = [i \in 1 .. chunks |-> i]

IInv ==
  /\ TypeOK /\ CollectInv /\ PhaseInv /\ BodyInv
  /\ HeadersOfLastResponse /\ StatusIsOwn /\ BodyIsWhole
-----------------------------------------------------------------------------
LEMMA InsertFacts ==
  ASSUME NEW headers \in HTTPHeaders, NEW k \in Keys, NEW v \in Texts \cup {Empty} \cup Line
  PROVE  /\ Insert(headers, k, v) \in HTTPHeaders
         /\ \A n \in Keys \ {k} : Insert(headers, k, v)[n] = headers[n]
         /\ Insert(headers, k, v)[k] = IF headers[k] = None THEN v ELSE headers[k]
BY DEF Insert, HTTPHeaders

LEMMA LastBlockType ==
  ASSUME TypeOK
  PROVE  NoHeaders \in HTTPHeaders /\ LastBlock \in HTTPHeaders
<1>1. NoHeaders \in HTTPHeaders
  BY DEF NoHeaders, HTTPHeaders
<1>2. blocks # <<>> => Len(blocks) \in 1 .. Len(blocks)
  BY EmptySeq, LenProperties DEF TypeOK
<1>3. blocks # <<>> => blocks[Len(blocks)] \in HTTPHeaders
  BY <1>2, ElementOfSeq DEF TypeOK
<1>4. QED BY <1>1, <1>3 DEF LastBlock

\* What a line that does not end with its colon adds to: an empty block of its own, or
\* the last block.
Base(l) == IF l.http THEN Insert(NoHeaders, StatusKey, l) ELSE LastBlock

LEMMA BaseFacts ==
  ASSUME TypeOK, NEW l \in Line
  PROVE  /\ Base(l) \in HTTPHeaders
         /\ l.http => Base(l)[StatusKey] = l /\ \A n \in Names : Base(l)[n] = None
         /\ ~l.http => Base(l) = LastBlock
<1>1. StatusKey \in Keys /\ \A n \in Names : n \in Keys \ {StatusKey}
  BY ConstantsAssumption DEF Keys
<1>2. QED BY <1>1, LastBlockType, InsertFacts DEF Base, NoHeaders

\* The callback leaves one block more or as many, and changes no block but the last.
LEMMA WriteHeaderFacts ==
  ASSUME TypeOK, NEW l \in Line, WriteHeader(l), l.http \/ blocks # <<>>
  PROVE  /\ blocks' \in Seq(HTTPHeaders) /\ blocks' # <<>>
         /\ ~thrown' => LastBlock' = IF l.name = None THEN Base(l) ELSE Insert(Base(l), l.name, l.text)
<1> DEFINE opened == Opened(l)
           k == Len(opened)
<1>1. Base(l) \in HTTPHeaders
  BY BaseFacts
<1>2. /\ opened \in Seq(HTTPHeaders) /\ opened # <<>> /\ opened[k] = Base(l)
  <2>1. CASE l.http
    <3>1. opened = Append(blocks, Base(l)) /\ blocks \in Seq(HTTPHeaders)
      BY <2>1 DEF Opened, Base, TypeOK
    <3>2. QED BY <1>1, <3>1, AppendProperties
  <2>2. CASE ~l.http
    BY <2>2 DEF Opened, Base, LastBlock, TypeOK
  <2>3. QED BY <2>1, <2>2
<1>3. k \in 1 .. Len(opened)
  BY <1>2, EmptySeq, LenProperties
<1>4. CASE l.name = None \/ EndsWithColon(l)
  <2>1. blocks' = opened
    BY <1>4 DEF WriteHeader
  <2>2. thrown' <=> EndsWithColon(l)
    BY DEF WriteHeader
  <2>3. LastBlock' = opened[k]
    BY <1>2, <2>1 DEF LastBlock
  <2>4. QED BY <1>2, <1>4, <2>1, <2>2, <2>3
<1>5. CASE ~(l.name = None \/ EndsWithColon(l))
  <2>1. l.name \in Keys /\ l.text \in Texts \cup {Empty}
    BY <1>5 DEF Line
  <2>2. Insert(opened[k], l.name, l.text) \in HTTPHeaders
    BY <1>1, <1>2, <2>1, InsertFacts
  <2>3. blocks' = [opened EXCEPT ![k] = Insert(opened[k], l.name, l.text)]
    BY <1>5 DEF WriteHeader
  <2> HIDE DEF opened, k
  <2>4. /\ blocks' \in Seq(HTTPHeaders) /\ Len(blocks') = Len(opened)
        /\ blocks'[k] = Insert(opened[k], l.name, l.text)
    BY <1>2, <1>3, <2>2, <2>3, ExceptSeq
  <2>5. blocks' # <<>>
    BY <1>3, <2>4
  <2>6. LastBlock' = blocks'[k]
    BY <2>4, <2>5 DEF LastBlock, k
  <2>7. QED BY <1>2, <1>5, <2>4, <2>5, <2>6
<1>6. QED BY <1>4, <1>5

\* How a new line changes which lines are of the last response.
LEMMA LineFacts ==
  ASSUME TypeOK, NEW l \in Line, WriteHeader(l)
  PROVE  /\ lines' \in Seq(Line) /\ lines' # <<>>
         /\ DOMAIN lines' = DOMAIN lines \cup {Len(lines) + 1} /\ Len(lines) + 1 \notin DOMAIN lines
         /\ \A i \in DOMAIN lines : i < Len(lines) + 1 /\ ~(Len(lines) + 1 < i)
         /\ lines'[Len(lines) + 1] = l /\ \A i \in DOMAIN lines : lines'[i] = lines[i]
         /\ lines = <<>> => lines'[1] = l
         /\ lines # <<>> => 1 \in DOMAIN lines
         /\ \A i \in DOMAIN lines' : i = Len(lines) + 1 => Last(i)'
         /\ \A i \in DOMAIN lines : Last(i)' <=> Last(i) /\ ~l.http
<1>1. lines \in Seq(Line) /\ lines' = Append(lines, l) /\ Len(lines) \in Nat /\ DOMAIN lines = 1 .. Len(lines)
  BY DEF TypeOK, WriteHeader
<1>2. /\ lines' \in Seq(Line) /\ lines' # <<>> /\ Len(lines') = Len(lines) + 1
      /\ DOMAIN lines' = 1 .. Len(lines) + 1
      /\ lines'[Len(lines) + 1] = l /\ \A i \in DOMAIN lines : lines'[i] = lines[i]
  BY <1>1
<1>3. /\ DOMAIN lines' = DOMAIN lines \cup {Len(lines) + 1} /\ Len(lines) + 1 \notin DOMAIN lines
      /\ \A i \in DOMAIN lines : i < Len(lines) + 1 /\ ~(Len(lines) + 1 < i)
  BY <1>1, <1>2
<1>4. (lines = <<>> => lines'[1] = l) /\ (lines # <<>> => 1 \in DOMAIN lines)
  BY <1>1, <1>2
<1>5. \A i \in DOMAIN lines' : i = Len(lines) + 1 => Last(i)'
  BY <1>1, <1>3 DEF Last
<1>6. \A i \in DOMAIN lines : Last(i)' <=> Last(i) /\ ~l.http
  BY <1>1, <1>2, <1>3 DEF Last
<1>7. QED BY <1>2, <1>3, <1>4, <1>5, <1>6

\* A line keeps what the last block says of the last response.
LEMMA CollectStep ==
  ASSUME TypeOK, CollectInv, NEW l \in Line, WriteHeader(l),
         l.http \/ blocks # <<>>
  PROVE  CollectInv' /\ blocks' # <<>>
<1> PICK new \in DOMAIN lines' : new = Len(lines) + 1
  BY LineFacts
<1>1. ~thrown
  BY DEF WriteHeader
<1>2. blocks' # <<>> /\ lines' # <<>> /\ lines'[1].http
  BY WriteHeaderFacts, LineFacts DEF CollectInv
<1>3. ASSUME ~thrown'
      PROVE  /\ LastBlock'[StatusKey] \in Line
             /\ \A i \in DOMAIN lines' : lines'[i].http /\ Last(i)' => LastBlock'[StatusKey] = lines'[i]
             /\ \A n \in Names :
                  /\ LastBlock'[n] = None <=> \A i \in DOMAIN lines' : ~Field(i, n)'
                  /\ \A i \in DOMAIN lines' :
                       Field(i, n)' /\ (\A j \in DOMAIN lines' : j < i => ~Field(j, n)')
                       => LastBlock'[n] = lines'[i].text
  <2>1. /\ LastBlock' = IF l.name = None THEN Base(l) ELSE Insert(Base(l), l.name, l.text)
        /\ Base(l) \in HTTPHeaders
    BY <1>3, WriteHeaderFacts, BaseFacts
  <2>2. \A n \in Keys : LastBlock'[n] = IF n = l.name /\ Base(l)[n] = None THEN l.text ELSE Base(l)[n]
    <3>1. l.name \in Keys \cup {None} /\ l.text \in Texts \cup {Empty} \cup Line /\ None \notin Keys
      BY ConstantsAssumption DEF Line
    <3>2. QED BY <2>1, <3>1, InsertFacts
  <2>3. l.text # None /\ StatusKey \in Keys /\ StatusKey \notin Names /\ Names \subseteq Keys
    BY ConstantsAssumption DEF Line, Keys
  <2>4. \A i \in DOMAIN lines, n \in Names : Field(i, n)' <=> Field(i, n) /\ ~l.http
    BY LineFacts DEF Field
  <2>5. \A n \in Names : Field(new, n)' <=> l.name = n
    BY LineFacts DEF Field
  <2>6. Base(l)[StatusKey] \in Line
    BY <1>1, BaseFacts DEF CollectInv
  <2>7. LastBlock'[StatusKey] = Base(l)[StatusKey]
    <3>1. None \notin Line
      BY ConstantsAssumption
    <3>2. QED BY <2>2, <2>3, <2>6, <3>1
  <2>8. \A i \in DOMAIN lines' : lines'[i].http /\ Last(i)' => LastBlock'[StatusKey] = lines'[i]
    <3>1. CASE l.http
      BY <2>7, <3>1, BaseFacts, LineFacts
    <3>2. CASE ~l.http
      BY <1>1, <2>7, <3>2, BaseFacts, LineFacts DEF CollectInv
    <3>3. QED BY <3>1, <3>2
  <2>9. ASSUME NEW n \in Names
        PROVE  /\ LastBlock'[n] = None <=> \A i \in DOMAIN lines' : ~Field(i, n)'
               /\ \A i \in DOMAIN lines' :
                    Field(i, n)' /\ (\A j \in DOMAIN lines' : j < i => ~Field(j, n)')
                    => LastBlock'[n] = lines'[i].text
    <3>1. LastBlock'[n] = IF n = l.name /\ Base(l)[n] = None THEN l.text ELSE Base(l)[n]
      BY <2>2, <2>3
    <3>2. CASE l.http
      <4>1. Base(l)[n] = None
        BY <3>2, BaseFacts
      <4>2. \A i \in DOMAIN lines' : Field(i, n)' <=> i = new /\ l.name = n
        BY <2>4, <2>5, <3>2, LineFacts
      <4>3. lines'[new].text = l.text
        BY LineFacts
      <4>4. QED BY <2>3, <3>1, <4>1, <4>2, <4>3, LineFacts
    <3>3. CASE ~l.http
      <4>1. /\ Base(l)[n] = None <=> \A i \in DOMAIN lines : ~Field(i, n)
            /\ \A i \in DOMAIN lines :
                 Field(i, n) /\ (\A j \in DOMAIN lines : j < i => ~Field(j, n))
                 => Base(l)[n] = lines[i].text
        BY <1>1, <3>3, BaseFacts DEF CollectInv
      <4>2. \A i \in DOMAIN lines : Field(i, n)' <=> Field(i, n)
        BY <2>4, <3>3
      <4>3. LastBlock'[n] = None <=> \A i \in DOMAIN lines' : ~Field(i, n)'
        BY <2>3, <2>5, <3>1, <4>1, <4>2, LineFacts
      <4>4. ASSUME NEW i \in DOMAIN lines', Field(i, n)',
                   \A j \in DOMAIN lines' : j < i => ~Field(j, n)'
            PROVE  LastBlock'[n] = lines'[i].text
        <5>1. CASE i = new
          <6>1. \A j \in DOMAIN lines : ~Field(j, n)
            BY <4>2, <4>4, <5>1, LineFacts
          <6>2. QED BY <2>5, <3>1, <4>1, <4>4, <5>1, <6>1, LineFacts
        <5>2. CASE i \in DOMAIN lines
          <6>1. Field(i, n) /\ \A j \in DOMAIN lines : j < i => ~Field(j, n)
            BY <4>2, <4>4, <5>2, LineFacts
          <6>2. Base(l)[n] = lines[i].text /\ Base(l)[n] # None /\ lines'[i] = lines[i]
            BY <4>1, <5>2, <6>1, LineFacts
          <6>3. QED BY <3>1, <6>2
        <5>3. QED BY <4>4, <5>1, <5>2, LineFacts
      <4>5. QED BY <4>3, <4>4
    <3>4. QED BY <3>2, <3>3
  <2>10. QED BY <2>6, <2>7, <2>8, <2>9
<1>4. QED BY <1>2, <1>3 DEF CollectInv
-----------------------------------------------------------------------------
\* A header line of any kind keeps the invariant.
LEMMA HeaderStep ==
  ASSUME IInv, NEW l \in Line, WriteHeader(l),
         l.http \/ blocks # <<>>,
         phase \notin {"over", "returned"}, phase' \in {"headers", "trailers"},
         UNCHANGED <<kind, body, response, handed, buffer_out, chunks>>
  PROVE  IInv'
<1>1. CollectInv' /\ blocks' # <<>>
  BY CollectStep DEF IInv
<1>2. TypeOK'
  BY WriteHeaderFacts, LineFacts DEF IInv, TypeOK, WriteHeader, EndsWithColon
<1>3. PhaseInv' /\ BodyInv'
  BY <1>1 DEF IInv, PhaseInv, BodyInv
<1>4. HeadersOfLastResponse' /\ StatusIsOwn' /\ BodyIsWhole'
  BY DEF IInv, PhaseInv, HeadersOfLastResponse, StatusIsOwn, BodyIsWhole
<1>5. QED BY <1>1, <1>2, <1>3, <1>4 DEF IInv

\* The reference definitions are about lines alone.
LEMMA LinesAlone ==
  ASSUME UNCHANGED lines
  PROVE  \A i, n : (Last(i)' <=> Last(i)) /\ (Field(i, n)' <=> Field(i, n))
BY DEF Last, Field

LEMMA BlocksAlone == UNCHANGED blocks => LastBlock' = LastBlock
BY DEF LastBlock

\* What is said of headers and status lines depends on a few variables.
LEMMA LinesOnly ==
  ASSUME IInv, UNCHANGED <<kind, blocks, thrown, response, lines>>
  PROVE  CollectInv' /\ HeadersOfLastResponse' /\ StatusIsOwn'
<1>1. CollectInv'
  BY LinesAlone, BlocksAlone DEF IInv, CollectInv
<1>2. HeadersOfLastResponse'
  BY LinesAlone DEF IInv, HeadersOfLastResponse
<1>3. StatusIsOwn'
  BY LinesAlone DEF IInv, StatusIsOwn
<1>4. QED BY <1>1, <1>2, <1>3

\* The response made when the transfer ends.
LEMMA FinishStep == ASSUME IInv, NEW ok \in BOOLEAN, Finish(ok) PROVE IInv'
<1>1. /\ phase \notin {"over", "returned"} /\ ~thrown /\ phase' = "over" /\ (ok => blocks # <<>>)
      /\ UNCHANGED <<kind, blocks, body, thrown, handed, lines, chunks>>
  BY DEF Finish, IInv, PhaseInv
<1>2. /\ LastBlock \in HTTPHeaders /\ NoHeaders \in HTTPHeaders /\ StatusKey \in Keys
      /\ \A n \in Names : n \in Keys /\ n # StatusKey
  BY LastBlockType, ConstantsAssumption DEF IInv, Keys
<1>3. LastBlock[StatusKey] \in Line \cup {None}
  BY <1>1, <1>2 DEF IInv, CollectInv, LastBlock, NoHeaders
<1>4. /\ response'.ok = ok /\ response' \in HTTPResponse /\ response' # None
      /\ ok => /\ response'.body = body
               /\ \A n \in Names : response'.headers[n] = LastBlock[n]
               /\ response'.headers[StatusKey] = IF kind \in {"get", "head"} THEN None ELSE LastBlock[StatusKey]
      /\ ~ok => response'.body = <<>> /\ response'.error = LastBlock[StatusKey]
  <2>1. [LastBlock EXCEPT ![StatusKey] = None] \in HTTPHeaders /\ body \in Seq(Nat)
    BY <1>2 DEF HTTPHeaders, IInv, TypeOK
  <2>2. /\ Failure \in HTTPResponse
        /\ Success(LastBlock) \in HTTPResponse
        /\ Success([LastBlock EXCEPT ![StatusKey] = None]) \in HTTPResponse
    BY <1>2, <1>3, <2>1 DEF Failure, Success, HTTPResponse
  <2>3. response' = IF ok
                    THEN Success(IF kind \in {"get", "head"} THEN [LastBlock EXCEPT ![StatusKey] = None] ELSE LastBlock)
                    ELSE Failure
    BY DEF Finish, TransformResponseCurl, CheckMulti
  <2>4. response' \in HTTPResponse
    BY <2>2, <2>3
  <2>5. None \notin HTTPResponse
    BY ConstantsAssumption
  <2>6. QED BY <1>2, <2>3, <2>4, <2>5 DEF Failure, Success, HTTPHeaders
<1>5. TypeOK' /\ buffer_out' = IF kind = "post" THEN body ELSE None
  BY <1>1, <1>4 DEF Finish, PostBuffer, IInv, TypeOK, PhaseInv
<1>6. CollectInv' /\ BodyInv'
  BY <1>1, LinesAlone, BlocksAlone DEF IInv, CollectInv, BodyInv
<1>7. PhaseInv'
  BY <1>1, <1>4 DEF IInv, PhaseInv
<1>8. HeadersOfLastResponse'
  BY <1>1, <1>4, LinesAlone DEF IInv, CollectInv, HeadersOfLastResponse
<1>9. StatusIsOwn'
  <2>1. lines = <<>> => LastBlock[StatusKey] = None
    BY <1>2 DEF IInv, CollectInv, LastBlock, NoHeaders
  <2>2. \A i \in DOMAIN lines : lines[i].http /\ Last(i) => LastBlock[StatusKey] = lines[i]
    BY <1>1 DEF IInv, CollectInv
  <2>3. QED BY <1>1, <1>4, <2>1, <2>2, LinesAlone DEF StatusIsOwn
<1>10. BodyIsWhole'
  BY <1>1, <1>4, <1>5 DEF IInv, PhaseInv, BodyInv, BodyIsWhole
<1>11. QED BY <1>5, <1>6, <1>7, <1>8, <1>9, <1>10 DEF IInv

LEMMA Inductive == IInv /\ [Next]_vars => IInv'
<1> SUFFICES ASSUME IInv, [Next]_vars PROVE IInv'
  OBVIOUS
<1>1. ASSUME NEW l \in Line, StatusLine(l) PROVE IInv'
  BY <1>1, HeaderStep DEF StatusLine, HeaderFunction, RequestHeaderCallback
<1>2. ASSUME NEW l \in Line, FieldLine(l) PROVE IInv'
  <2>1. blocks # <<>>
    BY <1>2 DEF FieldLine, IInv, PhaseInv
  <2>2. QED BY <1>2, <2>1, HeaderStep DEF FieldLine, HeaderFunction, RequestHeaderCallback
<1>3. CASE BlankLine
  <2>1. TypeOK' /\ PhaseInv' /\ BodyInv'
    BY <1>3 DEF IInv, BlankLine, TypeOK, PhaseInv, BodyInv
  <2>2. CollectInv' /\ HeadersOfLastResponse' /\ StatusIsOwn' /\ BodyIsWhole'
    BY <1>3, LinesOnly DEF IInv, BlankLine, BodyIsWhole
  <2>3. QED BY <2>1, <2>2 DEF IInv
<1>4. CASE WriteBody
  <2>1. chunks \in Nat /\ chunks' = chunks + 1 /\ chunks' \in 0 .. MaxChunks
    BY <1>4, ConstantsAssumption DEF WriteBody, IInv, TypeOK
  <2>2. body' = [i \in 1 .. chunks' |-> i] /\ body' \in Seq(Nat)
    BY <1>4, <2>1 DEF WriteBody, IInv, BodyInv, TypeOK
  <2>3. TypeOK' /\ PhaseInv' /\ BodyInv'
    BY <1>4, <2>1, <2>2 DEF IInv, WriteBody, TypeOK, PhaseInv, BodyInv
  <2>4. CollectInv' /\ HeadersOfLastResponse' /\ StatusIsOwn'
    <3>1. UNCHANGED <<kind, blocks, thrown, response, lines>>
      BY <1>4 DEF WriteBody
    <3>2. QED BY <3>1, LinesOnly
  <2>5. BodyIsWhole'
    BY <1>4 DEF IInv, WriteBody, PhaseInv, BodyIsWhole
  <2>6. QED BY <2>3, <2>4, <2>5 DEF IInv
<1>5. ASSUME NEW ok \in BOOLEAN, Finish(ok) PROVE IInv'
  BY <1>5, FinishStep
<1>6. CASE Return
  <2>1. response # None /\ response.body \in Seq(Nat)
    BY <1>6 DEF Return, IInv, PhaseInv, TypeOK, HTTPResponse
  <2>2. TypeOK' /\ PhaseInv' /\ BodyInv' /\ BodyIsWhole'
    BY <1>6, <2>1 DEF IInv, Return, TypeOK, PhaseInv, BodyInv, BodyIsWhole
  <2>3. CollectInv' /\ HeadersOfLastResponse' /\ StatusIsOwn'
    BY <1>6, LinesOnly DEF Return
  <2>4. QED BY <2>2, <2>3 DEF IInv
<1>7. CASE UNCHANGED vars
  <2>1. TypeOK' /\ PhaseInv' /\ BodyInv' /\ BodyIsWhole'
    BY <1>7 DEF IInv, vars, TypeOK, PhaseInv, BodyInv, BodyIsWhole
  <2>2. CollectInv' /\ HeadersOfLastResponse' /\ StatusIsOwn'
    <3>1. UNCHANGED <<kind, blocks, thrown, response, lines>>
      BY <1>7 DEF vars
    <3>2. QED BY <3>1, LinesOnly
  <2>3. QED BY <2>1, <2>2 DEF IInv
<1>8. QED BY <1>1, <1>2, <1>3, <1>4, <1>5, <1>6, <1>7 DEF Next

LEMMA Initially == Init => IInv
<1> SUFFICES ASSUME Init PROVE IInv
  OBVIOUS
<1>1. TypeOK
  <2>1. blocks \in Seq(HTTPHeaders) /\ body \in Seq(Nat) /\ lines \in Seq(Line) /\ chunks \in 0 .. MaxChunks
    BY ConstantsAssumption DEF Init
  <2>2. QED BY <2>1 DEF Init, TypeOK
<1>2. BodyInv /\ CollectInv /\ PhaseInv
  BY DEF Init, BodyInv, CollectInv, PhaseInv, LastBlock, NoHeaders, Field, Keys
<1>3. QED BY <1>1, <1>2 DEF Init, IInv, HeadersOfLastResponse, StatusIsOwn, BodyIsWhole

LEMMA Invariance == Spec => []IInv
BY Initially, Inductive, PTL DEF Spec

\* The type invariant: the error of a response is a status line, whatever a server sends.
THEOREM TypeCorrect == Spec => []TypeOK
<1>1. IInv => TypeOK
  BY DEF IInv
<1>2. QED BY <1>1, Invariance, PTL

\* A response shows the first value of each field of the last response met.
THEOREM HeadersAreOfLastResponse == Spec => []HeadersOfLastResponse
<1>1. IInv => HeadersOfLastResponse
  BY DEF IInv
<1>2. QED BY <1>1, Invariance, PTL

\* The status line is quoted by errors, and a field of the same name changes nothing.
THEOREM StatusStays == Spec => []StatusIsOwn
<1>1. IInv => StatusIsOwn
  BY DEF IInv
<1>2. QED BY <1>1, Invariance, PTL

\* A response has its body whole or not at all, and buffer_out what was received of it.
THEOREM BodiesAreWhole == Spec => []BodyIsWhole
<1>1. IInv => BodyIsWhole
  BY DEF IInv
<1>2. QED BY <1>1, Invariance, PTL
=============================================================================
