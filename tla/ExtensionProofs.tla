-------------------------- MODULE ExtensionProofs --------------------------
(***************************************************************************)
(* What the loads and the setting keep, for any number of connections and  *)
(* of calls; what the table function counts and emits, for any tables and  *)
(* any size of a chunk; and that a database keeps both.                    *)
(***************************************************************************)
EXTENDS Extension, FiniteSetTheorems, SequenceTheorems, TLAPS

(***************************************************************************)
(* The HTTP util.                                                          *)
(***************************************************************************)
\* The steps of LOAD curl_httpfs.
Loading == {"check", "nested", "begin", "finish", "install", "register"}

\* One LOAD curl_httpfs at a time; who loads httpfs holds it.
LoadInv ==
  /\ \A c, d \in Conns : pc[c] \in Loading /\ pc[d] \in Loading => c = d
  /\ \A c \in Conns : pc[c] \in Loading => curl_httpfs = "loading"
  /\ \A c \in Conns : pc[c] \in {"finish", "lload", "lfinish"} => httpfs = "loading" /\ loader = c
  /\ httpfs = "loading" => \E c \in Conns : loader = c /\ pc[c] \in {"finish", "lload", "lfinish"}

\* A connection on its way to the nested load has not loaded httpfs itself.
RaceInv ==
  /\ \A c \in Conns : pc[c] \in {"nested", "begin"} => seen # "loaded" /\ loader # c
  /\ BreaksOnlyOnRace

\* Unless it was being loaded at the check, httpfs is loaded before the util is installed.
OverrideInv ==
  /\ seen # "loading" /\ (curl_httpfs = "loaded" \/ \E c \in Conns : pc[c] \in {"install", "register"})
     => httpfs = "loaded"
  /\ \A c \in Conns :
       pc[c] = "register" /\ seen # "loading" /\ (\A d \in Conns : impl[d] = None)
       => util \in {"MultiCurl", "WasmHTTPUtils"}
  /\ OverrideHolds

\* A SET that goes on to write has a util to write, and not in Wasm.
SetInv ==
  \A c \in Conns :
    /\ pc[c] \in {"sread", "swrite"} => impl[c] \in Impls
    /\ pc[c] = "swrite" => NameOf(impl[c]) # "none" /\ util # "WasmHTTPUtils"
    /\ pc[c] \in {"sread", "swrite"} /\ util = NameOf(impl[c]) => hit[c]

UtilInv == UtilTypeOK /\ LoadInv /\ RaceInv /\ OverrideInv /\ SetInv
-----------------------------------------------------------------------------
LEMMA NameOfSupported ==
  ASSUME NEW value, NameOf(value) # "none"
  PROVE  NameOf(value) \in Utils \ {"WasmHTTPUtils"}
BY DEF NameOf, Utils

\* A step of a call, whatever it does to the util.
LEMMA UtilTypeStep == UtilInv /\ [UtilNext]_utilVars => UtilTypeOK'
<1> SUFFICES ASSUME UtilInv, [UtilNext]_utilVars PROVE UtilTypeOK'
  OBVIOUS
<1> USE DEF UtilInv, UtilTypeOK, Steps, LoadState, loadVars
<1>1. CASE UNCHANGED utilVars
  BY <1>1 DEF utilVars
<1> SUFFICES ASSUME NEW c \in Conns,
             \/ LoadInternal(c) \/ LoadHttpfs(c) \/ \E value \in Impls : Set(c, value)
             \/ IsHttpfsExtensionLoaded(c) \/ HttpfsLoads(c, "nested", "begin") \/ BeginLoad(c)
             \/ Finish(c, "finish", "install") \/ Install(c) \/ LoadExtensionInternal(c)
             \/ LoadHttpfsBegin(c) \/ HttpfsLoads(c, "lload", "lfinish") \/ Finish(c, "lfinish", "idle")
             \/ SetRead(c) \/ SetWrite(c)
             PROVE UtilTypeOK'
  BY <1>1 DEF UtilNext
<1>2. CASE LoadInternal(c)
  BY <1>2, ConnsAssumption DEF LoadInternal, Begin
<1>3. CASE LoadHttpfs(c)
  BY <1>3, ConnsAssumption DEF LoadHttpfs, Begin
<1>4. CASE \E value \in Impls : Set(c, value)
  BY <1>4, ConnsAssumption DEF Set, Begin
<1>5. CASE IsHttpfsExtensionLoaded(c)
  BY <1>5 DEF IsHttpfsExtensionLoaded, CheckOf, Go
<1>6. CASE HttpfsLoads(c, "nested", "begin") \/ HttpfsLoads(c, "lload", "lfinish")
  BY <1>6 DEF HttpfsLoads, Go, SetUnlessWasm, SetHTTPUtil, Utils
<1>7. CASE BeginLoad(c) \/ LoadHttpfsBegin(c)
  BY <1>7, ConnsAssumption DEF BeginLoad, LoadHttpfsBegin, Hold, Go
<1>8. CASE Finish(c, "finish", "install") \/ Finish(c, "lfinish", "idle")
  BY <1>8 DEF Finish, Go, LoadInv
<1>9. CASE Install(c)
  BY <1>9 DEF Install, Go, SetUnlessWasm, SetHTTPUtil, Utils
<1>10. CASE LoadExtensionInternal(c)
  BY <1>10 DEF LoadExtensionInternal, Go
<1>11. CASE SetRead(c)
  BY <1>11 DEF SetRead, Go
<1>12. CASE SetWrite(c)
  BY <1>12, NameOfSupported DEF SetWrite, Go, SetHTTPUtil, SetInv
<1>13. QED BY <1>2, <1>3, <1>4, <1>5, <1>6, <1>7, <1>8, <1>9, <1>10, <1>11, <1>12

LEMMA LoadStep == UtilInv /\ [UtilNext]_utilVars => LoadInv' /\ RaceInv'
<1> SUFFICES ASSUME UtilInv, [UtilNext]_utilVars PROVE LoadInv' /\ RaceInv'
  OBVIOUS
<1> USE DEF UtilInv, UtilTypeOK, LoadInv, RaceInv, BreaksOnlyOnRace, Loading, loadVars
<1>1. CASE UNCHANGED utilVars
  BY <1>1 DEF utilVars
<1> SUFFICES ASSUME NEW c \in Conns,
             \/ LoadInternal(c) \/ LoadHttpfs(c) \/ \E value \in Impls : Set(c, value)
             \/ IsHttpfsExtensionLoaded(c) \/ HttpfsLoads(c, "nested", "begin") \/ BeginLoad(c)
             \/ Finish(c, "finish", "install") \/ Install(c) \/ LoadExtensionInternal(c)
             \/ LoadHttpfsBegin(c) \/ HttpfsLoads(c, "lload", "lfinish") \/ Finish(c, "lfinish", "idle")
             \/ SetRead(c) \/ SetWrite(c)
             PROVE LoadInv' /\ RaceInv'
  BY <1>1 DEF UtilNext
<1>2. CASE LoadInternal(c)
  BY <1>2 DEF LoadInternal, Begin
<1>3. CASE LoadHttpfs(c) \/ \E value \in Impls : Set(c, value)
  BY <1>3 DEF LoadHttpfs, Set, Begin
<1>4. CASE IsHttpfsExtensionLoaded(c)
  BY <1>4, ConnsAssumption DEF IsHttpfsExtensionLoaded, CheckOf, Go, LoadState
<1>5. CASE HttpfsLoads(c, "nested", "begin") \/ HttpfsLoads(c, "lload", "lfinish")
  BY <1>5 DEF HttpfsLoads, Go
<1>6. CASE BeginLoad(c)
  BY <1>6, ConnsAssumption DEF BeginLoad, Hold, Go
<1>7. CASE LoadHttpfsBegin(c)
  BY <1>7 DEF LoadHttpfsBegin, Hold, Go
<1>8. CASE Finish(c, "finish", "install") \/ Finish(c, "lfinish", "idle")
  BY <1>8 DEF Finish, Go
<1>9. CASE Install(c)
  BY <1>9 DEF Install, Go
<1>10. CASE LoadExtensionInternal(c)
  BY <1>10 DEF LoadExtensionInternal, Go
<1>11. CASE SetRead(c) \/ SetWrite(c)
  BY <1>11 DEF SetRead, SetWrite, Go
<1>12. QED BY <1>2, <1>3, <1>4, <1>5, <1>6, <1>7, <1>8, <1>9, <1>10, <1>11

LEMMA OverrideStep == UtilInv /\ [UtilNext]_utilVars => OverrideInv'
<1> SUFFICES ASSUME UtilInv, [UtilNext]_utilVars PROVE OverrideInv'
  OBVIOUS
<1> USE DEF UtilInv, UtilTypeOK, LoadInv, OverrideInv, OverrideHolds, Loading, LoadState, loadVars
<1>1. CASE UNCHANGED utilVars
  BY <1>1 DEF utilVars
<1> SUFFICES ASSUME NEW c \in Conns,
             \/ LoadInternal(c) \/ LoadHttpfs(c) \/ \E value \in Impls : Set(c, value)
             \/ IsHttpfsExtensionLoaded(c) \/ HttpfsLoads(c, "nested", "begin") \/ BeginLoad(c)
             \/ Finish(c, "finish", "install") \/ Install(c) \/ LoadExtensionInternal(c)
             \/ LoadHttpfsBegin(c) \/ HttpfsLoads(c, "lload", "lfinish") \/ Finish(c, "lfinish", "idle")
             \/ SetRead(c) \/ SetWrite(c)
             PROVE OverrideInv'
  BY <1>1 DEF UtilNext
<1>2. CASE LoadInternal(c)
  BY <1>2 DEF LoadInternal, Begin
<1>3. CASE LoadHttpfs(c)
  BY <1>3 DEF LoadHttpfs, Begin
<1>4. CASE \E value \in Impls : Set(c, value)
  BY <1>4, ConnsAssumption DEF Set, Begin
<1>5. CASE IsHttpfsExtensionLoaded(c)
  BY <1>5 DEF IsHttpfsExtensionLoaded, CheckOf, Go
<1>6. CASE HttpfsLoads(c, "nested", "begin") \/ HttpfsLoads(c, "lload", "lfinish")
  BY <1>6 DEF HttpfsLoads, Go
<1>7. CASE BeginLoad(c)
  BY <1>7 DEF BeginLoad, Hold, Go
<1>8. CASE LoadHttpfsBegin(c)
  BY <1>8 DEF LoadHttpfsBegin, Hold, Go
<1>9. CASE Finish(c, "finish", "install") \/ Finish(c, "lfinish", "idle")
  BY <1>9 DEF Finish, Go
<1>10. CASE Install(c)
  BY <1>10 DEF Install, Go, SetUnlessWasm, SetHTTPUtil
<1>11. CASE LoadExtensionInternal(c)
  BY <1>11 DEF LoadExtensionInternal, Go
<1>12. CASE SetRead(c)
  BY <1>12 DEF SetRead, Go
<1>13. CASE SetWrite(c)
  <2>1. impl[c] # None /\ UNCHANGED impl
    BY <1>13, ConnsAssumption DEF SetWrite, Go, SetInv
  <2>2. QED BY <1>13, <2>1 DEF SetWrite, Go
<1>14. QED BY <1>2, <1>3, <1>4, <1>5, <1>6, <1>7, <1>8, <1>9, <1>10, <1>11, <1>12, <1>13

\* Who installs a util notes it for every SET that asks for it.
LEMMA SetHTTPUtilKeeps ==
  ASSUME UtilTypeOK, SetInv, NEW name \in Utils \ {"WasmHTTPUtils"}, SetHTTPUtil(name),
         UNCHANGED impl, \A c \in Conns : pc'[c] \in {"sread", "swrite"} => pc'[c] = pc[c]
  PROVE  SetInv'
BY DEF UtilTypeOK, SetInv, SetHTTPUtil

LEMMA SetStep == UtilInv /\ [UtilNext]_utilVars => SetInv'
<1> SUFFICES ASSUME UtilInv, [UtilNext]_utilVars PROVE SetInv'
  OBVIOUS
<1> USE DEF UtilInv, loadVars
<1>1. CASE UNCHANGED utilVars
  BY <1>1 DEF utilVars, SetInv
<1> SUFFICES ASSUME NEW c \in Conns,
             \/ LoadInternal(c) \/ LoadHttpfs(c) \/ \E value \in Impls : Set(c, value)
             \/ IsHttpfsExtensionLoaded(c) \/ HttpfsLoads(c, "nested", "begin") \/ BeginLoad(c)
             \/ Finish(c, "finish", "install") \/ Install(c) \/ LoadExtensionInternal(c)
             \/ LoadHttpfsBegin(c) \/ HttpfsLoads(c, "lload", "lfinish") \/ Finish(c, "lfinish", "idle")
             \/ SetRead(c) \/ SetWrite(c)
             PROVE SetInv'
  BY <1>1 DEF UtilNext
<1>2. CASE LoadInternal(c) \/ LoadHttpfs(c)
  BY <1>2 DEF LoadInternal, LoadHttpfs, Begin, UtilTypeOK, SetInv
<1>3. CASE \E value \in Impls : Set(c, value)
  BY <1>3 DEF Set, Begin, UtilTypeOK, SetInv
<1>4. CASE \/ IsHttpfsExtensionLoaded(c) \/ BeginLoad(c) \/ LoadHttpfsBegin(c)
           \/ Finish(c, "finish", "install") \/ Finish(c, "lfinish", "idle")
           \/ LoadExtensionInternal(c)
  BY <1>4 DEF IsHttpfsExtensionLoaded, CheckOf, BeginLoad, LoadHttpfsBegin, Hold, Finish,
              LoadExtensionInternal, Go, UtilTypeOK, SetInv
<1>5. CASE HttpfsLoads(c, "nested", "begin") \/ HttpfsLoads(c, "lload", "lfinish") \/ Install(c)
  <2>1. /\ UNCHANGED impl
        /\ \A d \in Conns : pc'[d] \in {"sread", "swrite"} => pc'[d] = pc[d]
        /\ SetUnlessWasm("HTTPFS") \/ SetUnlessWasm("MultiCurl")
    BY <1>5 DEF HttpfsLoads, Install, Go, UtilTypeOK
  <2>2. CASE UNCHANGED <<util, hit>>
    BY <2>1, <2>2 DEF SetInv
  <2>3. CASE SetHTTPUtil("HTTPFS") \/ SetHTTPUtil("MultiCurl")
    BY <2>1, <2>3, SetHTTPUtilKeeps DEF Utils
  <2>4. QED BY <2>1, <2>2, <2>3 DEF SetUnlessWasm
<1>6. CASE SetRead(c)
  BY <1>6 DEF SetRead, Go, Keeps, UtilTypeOK, SetInv
<1>7. CASE SetWrite(c)
  <2>1. /\ UNCHANGED impl /\ SetHTTPUtil(NameOf(impl[c]))
        /\ \A d \in Conns : pc'[d] \in {"sread", "swrite"} => pc'[d] = pc[d]
    BY <1>7 DEF SetWrite, Go, UtilTypeOK
  <2>2. NameOf(impl[c]) \in Utils \ {"WasmHTTPUtils"}
    BY <1>7, NameOfSupported DEF SetWrite, Go, SetInv
  <2>3. QED BY <2>1, <2>2, SetHTTPUtilKeeps
<1>8. QED BY <1>2, <1>3, <1>4, <1>5, <1>6, <1>7

LEMMA UtilInitially == UtilInit => UtilInv
<1> SUFFICES ASSUME UtilInit PROVE UtilInv
  OBVIOUS
<1> USE DEF UtilInit
<1>1. UtilTypeOK
  <2>1. calls \in [Conns -> 0 .. MaxCalls]
    BY ConnsAssumption
  <2>2. hit \in [Conns -> BOOLEAN] /\ broken \in BOOLEAN
    OBVIOUS
  <2>3. QED BY <2>1, <2>2 DEF UtilTypeOK, Utils, LoadState
<1>2. LoadInv
  BY DEF LoadInv, Loading
<1>3. RaceInv
  BY DEF RaceInv, BreaksOnlyOnRace
<1>4. OverrideInv
  BY DEF OverrideInv, OverrideHolds
<1>5. SetInv
  BY DEF SetInv
<1>6. QED BY <1>1, <1>2, <1>3, <1>4, <1>5 DEF UtilInv

\* All of it holds at all times.
THEOREM UtilInvariance == UtilSpec => []UtilInv
<1>1. UtilInv /\ [UtilNext]_utilVars => UtilInv'
  BY UtilTypeStep, LoadStep, OverrideStep, SetStep DEF UtilInv
<1>2. QED BY <1>1, UtilInitially, PTL DEF UtilSpec
-----------------------------------------------------------------------------
\* The variables keep their types; httpfs has a loader as soon as a load of it begins.
THEOREM UtilTypeCorrect == UtilSpec => []UtilTypeOK
<1>1. UtilInv => UtilTypeOK
  BY DEF UtilInv
<1>2. QED BY <1>1, UtilInvariance, PTL

\* LOAD curl_httpfs replaces the util of httpfs, however the loads interleave, unless
\* httpfs was being loaded when it looked.
THEOREM LoadOverrides == UtilSpec => []OverrideHolds
<1>1. UtilInv => OverrideHolds
  BY DEF UtilInv, OverrideInv
<1>2. QED BY <1>1, UtilInvariance, PTL

\* LOAD curl_httpfs follows a null pointer only when another connection's LOAD httpfs
\* has come between its look and its own load.
THEOREM OnlyRaceBreaks == UtilSpec => []BreaksOnlyOnRace
<1>1. UtilInv => BreaksOnlyOnRace
  BY DEF UtilInv, RaceInv
<1>2. QED BY <1>1, UtilInvariance, PTL

\* No load and no SET replaces the util of DuckDB-Wasm.
THEOREM WasmUtilStays == UtilSpec => WasmStays
<1>1. UtilInv /\ [UtilNext]_utilVars => (util = "WasmHTTPUtils" => UNCHANGED util)
  BY DEF UtilInv, UtilNext, utilVars, LoadInternal, LoadHttpfs, Set, Begin, IsHttpfsExtensionLoaded, CheckOf,
     HttpfsLoads, BeginLoad, Hold, Finish, Install, LoadExtensionInternal, LoadHttpfsBegin, SetRead, SetWrite, Go,
     SetUnlessWasm, SetInv
<1>2. UtilInv /\ [UtilNext]_utilVars => [util = "WasmHTTPUtils" => UNCHANGED util]_utilVars
  BY <1>1
<1>3. QED BY <1>2, UtilInvariance, PTL DEF UtilSpec, WasmStays

\* A SET of a supported value leaves the util it asks for installed at some moment of it.
THEOREM SetsTakeEffect == UtilSpec => SetTakesEffect
<1> DEFINE Ends(c) == pc[c] \in {"sread", "swrite"} /\ pc'[c] = "idle" /\ NameOf(impl[c]) # "none"
<1>1. ASSUME UtilInv, UtilNext, NEW c \in Conns, Ends(c) PROVE hit[c]' \/ util = "WasmHTTPUtils"
  <2>1. PICK d \in Conns :
             \/ LoadInternal(d) \/ LoadHttpfs(d) \/ \E value \in Impls : Set(d, value)
             \/ IsHttpfsExtensionLoaded(d) \/ HttpfsLoads(d, "nested", "begin") \/ BeginLoad(d)
             \/ Finish(d, "finish", "install") \/ Install(d) \/ LoadExtensionInternal(d)
             \/ LoadHttpfsBegin(d) \/ HttpfsLoads(d, "lload", "lfinish") \/ Finish(d, "lfinish", "idle")
             \/ SetRead(d) \/ SetWrite(d)
    BY <1>1 DEF UtilNext
  <2>2. (SetRead(d) \/ SetWrite(d)) /\ c = d
    BY <1>1, <2>1 DEF UtilInv, UtilTypeOK, LoadInternal, LoadHttpfs, Set, Begin, IsHttpfsExtensionLoaded, CheckOf,
       HttpfsLoads, BeginLoad, Hold, Finish, Install, LoadExtensionInternal, LoadHttpfsBegin, SetRead, SetWrite, Go,
       loadVars
  <2>3. CASE SetWrite(c)
    BY <2>3 DEF SetWrite, Go, SetHTTPUtil
  <2>4. CASE SetRead(c)
    <3>1. Keeps(impl[c]) /\ pc[c] = "sread" /\ UNCHANGED hit
      BY <2>4, <1>1 DEF SetRead, Go, UtilInv, UtilTypeOK
    <3>2. util = NameOf(impl[c]) \/ util = "WasmHTTPUtils"
      BY <3>1, <1>1 DEF Keeps, UtilInv, UtilTypeOK, Utils
    <3>3. QED BY <3>1, <3>2, <1>1 DEF UtilInv, SetInv
  <2>5. QED BY <2>2, <2>3, <2>4
<1>2. UtilInv /\ [UtilNext]_utilVars
      => [\A c \in Conns : Ends(c) => hit[c]' \/ util = "WasmHTTPUtils"]_utilVars
  BY <1>1
<1>3. QED BY <1>2, UtilInvariance, PTL DEF UtilSpec, SetTakesEffect
-----------------------------------------------------------------------------
(***************************************************************************)
(* The table function.                                                     *)
(***************************************************************************)
\* What is left of the file at hand is the end of what was read of it.
ReadInv ==
  /\ got[1] \in Seq(Ips) /\ got[2] \in Seq(Ips6)
  /\ file = 1 => got[2] = <<>>
  /\ scan = "read" => got[file] = <<>>
  /\ scan # "parse" => content = <<>>
  /\ Len(content) <= Len(got[file])
  /\ \A k \in 1 .. Len(content) : content[k] = Hex(got[file][Len(got[file]) - Len(content) + k])

\* The list is sorted and has every address of the map.
EmitInv ==
  /\ scan \notin {"emit", "done"} => status = <<>>
  /\ \A i, j \in 1 .. Len(status) : i < j => status[i].ip < status[j].ip
  /\ scan \in {"emit", "done"} =>
       \A ip \in Texts : counts[ip] > 0 =>
         \E i \in 1 .. Len(status) : status[i] = [ip |-> ip, count |-> counts[ip]]
  /\ scan = "done" => offset = Len(status)
  /\ emitted = SubSeq(status, 1, offset)

\* Every connection is counted once: to its IPv4 peer, or to 0.0.0.0 if it is IPv6.
CountInv ==
  \A ip \in Ips :
    counts[Ntop[ip]] = Cardinality({i \in Counted(1) : got[1][i] = ip})
                         + (IF ip = Zero THEN Cardinality(Counted(2)) ELSE 0)

TcpInv == TcpTypeOK /\ ReadInv /\ CountInv /\ EmitInv
-----------------------------------------------------------------------------
(***************************************************************************)
(* What HexToIP makes of what the kernel prints.                           *)
(***************************************************************************)
\* An address is printed with two digits per byte.
LEMMA HexType ==
  ASSUME NEW n \in {4, 16}, NEW address \in [1 .. n -> 0 .. 255]
  PROVE  Hex(address) \in Seq(0 .. 15) /\ Len(Hex(address)) = 2 * n
<1>1. Len(address) = n
  OBVIOUS
<1>2. ASSUME NEW d \in 1 .. 2 * n
      PROVE  (LET k == (d - 1) \div 2
                  byte == address[4 * (k \div 4) + 4 - (k % 4)]
              IN  IF d % 2 = 1 THEN byte \div 16 ELSE byte % 16) \in 0 .. 15
  <2> DEFINE k == (d - 1) \div 2
             byte == address[4 * (k \div 4) + 4 - (k % 4)]
  <2>1. k \in 0 .. n - 1
    OBVIOUS
  <2>2. 4 * (k \div 4) + 4 - (k % 4) \in 1 .. n
    <3>1. \A j \in 0 .. n - 1 : 4 * (j \div 4) + 4 - (j % 4) \in 1 .. n
      OBVIOUS
    <3>2. QED BY <2>1, <3>1
  <2>3. byte \in 0 .. 255
    BY <2>2
  <2> HIDE DEF byte
  <2>4. byte \div 16 \in 0 .. 15 /\ byte % 16 \in 0 .. 15
    BY <2>3
  <2>5. QED BY <2>4 DEF byte
<1>3. Hex(address) \in [1 .. 2 * n -> 0 .. 15]
  BY <1>1, <1>2 DEF Hex
<1>4. \A m \in Nat : \A f \in [1 .. m -> 0 .. 15] : f \in Seq(0 .. 15) /\ Len(f) = m
  OBVIOUS
<1>5. QED BY <1>3, <1>4

\* Parsing and reversing undoes the kernel's printing of an IPv4 address.
LEMMA HexToIPOfIPv4 ==
  ASSUME NEW ip \in Ips
  PROVE  HexToIP(Hex(ip)) = Ntop[ip]
<1>0. ip \in [1 .. 4 -> 0 .. 255] /\ Len(ip) = 4
  BY TcpAssumption
<1>1. Len(Hex(ip)) = 8
  BY <1>0, HexType
<1>2. /\ Hex(ip)[1] = ip[4] \div 16 /\ Hex(ip)[2] = ip[4] % 16
      /\ Hex(ip)[3] = ip[3] \div 16 /\ Hex(ip)[4] = ip[3] % 16
      /\ Hex(ip)[5] = ip[2] \div 16 /\ Hex(ip)[6] = ip[2] % 16
      /\ Hex(ip)[7] = ip[1] \div 16 /\ Hex(ip)[8] = ip[1] % 16
  BY <1>0 DEF Hex
<1>3. \A b \in 0 .. 255 : 16 * (b \div 16) + (b % 16) = b
  OBVIOUS
<1> DEFINE byte(k) == 16 * Hex(ip)[2 * k - 1] + Hex(ip)[2 * k]
           order == <<4, 3, 2, 1>>
           read == [k \in 1 .. 4 |-> byte(order[k])]
<1>4. byte(1) = ip[4] /\ byte(2) = ip[3] /\ byte(3) = ip[2] /\ byte(4) = ip[1]
  BY <1>0, <1>2, <1>3
<1>5. read[1] = byte(4) /\ read[2] = byte(3) /\ read[3] = byte(2) /\ read[4] = byte(1)
  OBVIOUS
<1> HIDE DEF byte
<1>6. \A k \in 1 .. 4 : read[k] = ip[k]
  <2>1. \A k \in 1 .. 4 : k = 1 \/ k = 2 \/ k = 3 \/ k = 4
    OBVIOUS
  <2> HIDE DEF read
  <2>2. QED BY <1>4, <1>5, <2>1
<1>7. read = ip
  BY <1>0, <1>6
<1>8. HexToIP(Hex(ip)) = Ntop[read]
  BY <1>1 DEF HexToIP, TextOf, byte
<1>9. QED BY <1>7, <1>8

\* It takes no IPv6 address for an IPv4 address.
LEMMA HexToIPOfIPv6 ==
  ASSUME NEW ip \in Ips6
  PROVE  HexToIP(Hex(ip)) = Ntop[Zero]
<1>1. Len(Hex(ip)) = 32
  BY HexType, TcpAssumption
<1>2. QED BY <1>1 DEF HexToIP, TextOf
-----------------------------------------------------------------------------
LEMMA RowsAreSeqs ==
  ASSUME NEW f \in 1 .. 2
  PROVE  Rows(f) \subseteq Seq(IF f = 1 THEN Ips ELSE Ips6)
BY TcpAssumption DEF Rows

\* The next row is the one after those that have been counted.
LEMMA HeadIsNext ==
  ASSUME TcpTypeOK, ReadInv, content # <<>>
  PROVE  /\ Tail(content) \in Seq(Seq(0 .. 15))
         /\ Len(Tail(content)) = Len(content) - 1
         /\ Len(content) \in 1 .. Len(got[file]) /\ Len(got[file]) \in Nat
         /\ Head(content) = Hex(got[file][Len(got[file]) - Len(content) + 1])
         /\ \A k \in 1 .. Len(content) - 1 : Tail(content)[k] = content[k + 1]
<1>1. /\ content \in Seq(Seq(0 .. 15)) /\ got[file] \in Seq(Ips \cup Ips6)
  BY DEF TcpTypeOK
<1>2. Len(content) \in Nat \ {0} /\ Len(got[file]) \in Nat
  BY <1>1, EmptySeq, LenProperties
<1>3. Head(content) = content[1]
  BY <1>1
<1>4. QED BY <1>1, <1>2, <1>3, HeadTailProperties DEF ReadInv

\* Reading a file, counting a row.
LEMMA ReadStep ==
  ASSUME TcpTypeOK, ReadInv, CountInv, ReadFile
  PROVE  TcpTypeOK' /\ ReadInv' /\ CountInv'
<1> USE DEF ReadFile
<1>1. PICK peers \in Rows(file) : /\ content' = [i \in 1 .. Len(peers) |-> Hex(peers[i])]
                                  /\ got' = [got EXCEPT ![file] = peers]
  OBVIOUS
<1>2. peers \in Seq(IF file = 1 THEN Ips ELSE Ips6) /\ peers \in Seq(Ips \cup Ips6) /\ Len(peers) \in Nat
  BY RowsAreSeqs, LenProperties DEF TcpTypeOK
<1>3. content' \in Seq(Seq(0 .. 15)) /\ Len(content') = Len(peers)
  <2>1. \A i \in 1 .. Len(peers) : Hex(peers[i]) \in Seq(0 .. 15)
    BY <1>2, HexType, ElementOfSeq, TcpAssumption
  <2>2. \A n \in Nat : \A f \in [1 .. n -> Seq(0 .. 15)] : f \in Seq(Seq(0 .. 15)) /\ Len(f) = n
    OBVIOUS
  <2>3. content' \in [1 .. Len(peers) -> Seq(0 .. 15)]
    BY <1>1, <2>1
  <2>4. QED BY <1>2, <2>2, <2>3
<1>4. got'[file] = peers /\ (\A f \in (1 .. 2) \ {file} : got'[f] = got[f]) /\ got' \in [1 .. 2 -> Seq(Ips \cup Ips6)]
  BY <1>1, <1>2 DEF TcpTypeOK
<1>5. TcpTypeOK'
  BY <1>3, <1>4 DEF TcpTypeOK
<1>6. ReadInv'
  <2>1. \A k \in 1 .. Len(peers) : Len(peers) - Len(peers) + k = k
    BY <1>2
  <2>2. ASSUME NEW k \in 1 .. Len(content') PROVE content'[k] = Hex(got'[file][Len(got'[file]) - Len(content') + k])
    BY <1>1, <1>2, <1>3, <1>4, <2>1
  <2>3. got'[1] \in Seq(Ips) /\ got'[2] \in Seq(Ips6) /\ (file = 1 => got'[2] = <<>>)
    BY <1>2, <1>4 DEF ReadInv, TcpTypeOK
  <2>4. QED BY <1>2, <1>3, <1>4, <2>2, <2>3 DEF ReadInv
<1>7. Counted(file) = {} /\ Counted(file)' = {}
  BY <1>2, <1>3, <1>4, EmptySeq DEF Counted, ReadInv
<1>8. \A f \in (1 .. 2) \ {file} : Counted(f)' = Counted(f)
  BY <1>4 DEF Counted
<1>9. ASSUME NEW ip \in Ips PROVE {i \in Counted(1)' : got'[1][i] = ip} = {i \in Counted(1) : got[1][i] = ip}
  <2>1. CASE file = 1
    <3>1. Counted(1) = {} /\ Counted(1)' = {}
      BY <1>7, <2>1
    <3>2. QED BY <3>1
  <2>2. CASE file = 2
    <3>1. Counted(1)' = Counted(1) /\ got'[1] = got[1]
      BY <1>4, <1>8, <2>2
    <3>2. QED BY <3>1
  <2>3. QED BY <2>1, <2>2 DEF TcpTypeOK
<1>10. Counted(2)' = Counted(2)
  <2>1. CASE file = 1
    BY <1>8, <2>1
  <2>2. CASE file = 2
    BY <1>7, <2>2
  <2>3. QED BY <2>1, <2>2 DEF TcpTypeOK
<1>11. QED BY <1>5, <1>6, <1>9, <1>10 DEF CountInv

LEMMA CountStep ==
  ASSUME TcpTypeOK, ReadInv, CountInv, CountRow
  PROVE  TcpTypeOK' /\ ReadInv' /\ CountInv'
<1> DEFINE next == Len(got[file]) - Len(content) + 1
           remote == got[file][next]
<1>1. /\ content # <<>> /\ content' = Tail(content) /\ scan = "parse"
      /\ UNCHANGED <<scan, file, status, offset, emitted, got>>
      /\ counts' = [counts EXCEPT ![HexToIP(Head(content))] = @ + 1]
  BY DEF CountRow
<1>2. /\ Tail(content) \in Seq(Seq(0 .. 15))
      /\ Len(Tail(content)) = Len(content) - 1
      /\ Len(content) \in 1 .. Len(got[file]) /\ Len(got[file]) \in Nat
      /\ Head(content) = Hex(remote)
      /\ \A k \in 1 .. Len(content) - 1 : Tail(content)[k] = content[k + 1]
  BY <1>1, HeadIsNext
<1>3. \E ip \in Ips : /\ HexToIP(Head(content)) = Ntop[ip]
                      /\ ip = IF file = 1 THEN remote ELSE Zero
  <2>1. got[1] \in Seq(Ips) /\ got[2] \in Seq(Ips6) /\ file \in {1, 2}
    BY DEF ReadInv, TcpTypeOK
  <2>2. next \in 1 .. Len(got[file])
    BY <1>2
  <2>3. CASE file = 1
    BY <1>2, <2>1, <2>2, <2>3, ElementOfSeq, HexToIPOfIPv4
  <2>4. CASE file = 2
    BY <1>2, <2>1, <2>2, <2>4, ElementOfSeq, HexToIPOfIPv6, TcpAssumption
  <2>5. QED BY <2>1, <2>3, <2>4
<1>4. TcpTypeOK'
  <2>1. counts' \in [Texts -> Nat]
    <3>1. HexToIP(Head(content)) \in Texts
      BY <1>3 DEF Texts
    <3>2. \A t \in Texts : counts[t] + 1 \in Nat
      BY DEF TcpTypeOK
    <3>3. QED BY <1>1, <3>1, <3>2 DEF TcpTypeOK
  <2>2. QED BY <1>1, <1>2, <2>1 DEF TcpTypeOK
<1>5. ReadInv'
  <2>1. Len(content') = Len(content) - 1 /\ scan = "parse"
    BY <1>1, <1>2
  <2>2. ASSUME NEW k \in 1 .. Len(content')
        PROVE  content'[k] = Hex(got[file][Len(got[file]) - Len(content') + k])
    <3>1. k \in 1 .. Len(content) - 1 /\ k + 1 \in 1 .. Len(content)
      BY <1>2, <2>1
    <3>2. content'[k] = content[k + 1]
      BY <1>1, <1>2, <3>1
    <3>3. content[k + 1] = Hex(got[file][Len(got[file]) - Len(content) + (k + 1)])
      BY <3>1 DEF ReadInv
    <3>4. \A g, c \in Int : g - c + (k + 1) = g - (c - 1) + k
      BY <3>1
    <3>5. Len(got[file]) \in Int /\ Len(content) \in Int
      BY <1>2
    <3>6. Len(got[file]) - Len(content) + (k + 1) = Len(got[file]) - Len(content') + k
      BY <2>1, <3>4, <3>5
    <3>7. QED BY <3>2, <3>3, <3>6
  <2>3. QED BY <1>1, <1>2, <2>1, <2>2 DEF ReadInv
<1>6. /\ Counted(file) = 1 .. next - 1 /\ Counted(file)' = 1 .. next
      /\ \A f \in (1 .. 2) \ {file} : Counted(f)' = Counted(f)
      /\ next \in Nat \ {0}
  <2>1. Len(content') = Len(content) - 1 /\ Len(content) \in Int /\ Len(got[file]) \in Int
    BY <1>1, <1>2
  <2>2. Counted(file) = 1 .. next - 1
    BY <2>1 DEF Counted
  <2>3. Counted(file)' = 1 .. next
    BY <1>1, <2>1 DEF Counted
  <2>4. \A f \in (1 .. 2) \ {file} : Counted(f)' = Counted(f)
    BY <1>1 DEF Counted
  <2>5. next \in Nat \ {0}
    <3>1. \A g \in Nat : \A c \in 1 .. g : g - c + 1 \in Nat \ {0}
      OBVIOUS
    <3>2. QED BY <1>2, <3>1
  <2>6. QED BY <2>2, <2>3, <2>4, <2>5
<1>7. Counted(file)' = Counted(file) \cup {next} /\ next \notin Counted(file)
  BY <1>6
<1>8. next \in 1 .. Len(got[file])
  BY <1>2
<1>9. IsFiniteSet(Counted(file))
  BY <1>6, FS_Interval
<1> HIDE DEF next, remote
<1>10. ASSUME NEW ip \in Ips
       PROVE  counts'[Ntop[ip]] = Cardinality({i \in Counted(1)' : got[1][i] = ip})
                              + (IF ip = Zero THEN Cardinality(Counted(2)') ELSE 0)
  <2> DEFINE old == {i \in Counted(1) : got[1][i] = ip}
             new == {i \in Counted(1)' : got[1][i] = ip}
  <2> SUFFICES counts'[Ntop[ip]] = Cardinality(new) + (IF ip = Zero THEN Cardinality(Counted(2)') ELSE 0)
    OBVIOUS
  <2>1. counts[Ntop[ip]] = Cardinality(old) + (IF ip = Zero THEN Cardinality(Counted(2)) ELSE 0)
    BY DEF CountInv
  <2>2. counts'[Ntop[ip]] = IF ip = (IF file = 1 THEN remote ELSE Zero)
                            THEN counts[Ntop[ip]] + 1 ELSE counts[Ntop[ip]]
    <3>1. Ntop[ip] \in Texts
      BY DEF Texts
    <3>2. Ntop[ip] = HexToIP(Head(content)) <=> ip = (IF file = 1 THEN remote ELSE Zero)
      BY <1>3, TcpAssumption
    <3>3. counts' = [counts EXCEPT ![HexToIP(Head(content))] = @ + 1] /\ counts \in [Texts -> Nat]
      BY <1>1 DEF TcpTypeOK
    <3>4. QED BY <3>1, <3>2, <3>3
  <2>3. CASE file = 1
    <3>2. Counted(2)' = Counted(2)
      BY <1>6, <2>3
    <3>3. new = IF ip = remote THEN old \cup {next} ELSE old
      <4>1. got[1][next] = remote /\ Counted(1)' = Counted(1) \cup {next} /\ next \notin Counted(1)
        BY <1>1, <1>7, <2>3 DEF remote
      <4>2. QED BY <4>1
    <3>4. IsFiniteSet(old) /\ next \notin old
      BY <1>7, <1>9, <2>3, FS_Subset
    <3>5. Cardinality(old) \in Nat /\ Cardinality(old \cup {next}) = Cardinality(old) + 1
      BY <3>4, FS_AddElement, FS_CardinalityType
    <3>6. Cardinality(Counted(2)) \in Nat
      BY <2>3, EmptySeq, FS_EmptySet, FS_CardinalityType DEF ReadInv, Counted
    <3> HIDE DEF old, new
    <3>7. QED BY <2>1, <2>2, <2>3, <3>2, <3>3, <3>5, <3>6
  <2>4. CASE file = 2
    <3>2. Counted(1)' = Counted(1)
      BY <1>6, <2>4
    <3>3. Cardinality(Counted(2)') = Cardinality(Counted(2)) + 1 /\ Cardinality(Counted(2)) \in Nat
      BY <1>1, <1>7, <1>9, <2>4, FS_AddElement, FS_CardinalityType
    <3>4. Cardinality(old) \in Nat
      <4>1. Len(got[1]) \in Nat /\ Counted(1) = 1 .. Len(got[1])
        BY <2>4, LenProperties DEF ReadInv, Counted
      <4>2. IsFiniteSet(Counted(1)) /\ old \in SUBSET Counted(1)
        BY <4>1, FS_Interval
      <4>3. QED BY <4>2, FS_Subset, FS_CardinalityType
    <3>5. new = old
      BY <3>2
    <3> HIDE DEF old, new
    <3>6. QED BY <2>1, <2>2, <2>4, <3>3, <3>4, <3>5
  <2>5. QED BY <2>3, <2>4 DEF TcpTypeOK
<1>11. QED BY <1>1, <1>4, <1>5, <1>10 DEF CountInv

\* The rest of the steps keep the counts.
LEMMA OtherStep ==
  ASSUME TcpTypeOK, ReadInv, CountInv, OpenFails \/ NextFile \/ Sort \/ Emit \/ EmitNothing
  PROVE  ReadInv' /\ CountInv'
<1>1. got \in [1 .. 2 -> Seq(Ips \cup Ips6)] /\ content \in Seq(Seq(0 .. 15)) /\ file \in 1 .. 2
  BY DEF TcpTypeOK
<1>2. CASE OpenFails \/ Sort \/ Emit \/ EmitNothing
  <2>1. UNCHANGED <<file, content, counts, got>> /\ (scan' = "read" => scan = "read")
        /\ scan # "parse"
    BY <1>2 DEF OpenFails, Sort, Emit, EmitAndMoveTo, EmitNothing
  <2>2. ReadInv'
    BY <2>1 DEF ReadInv
  <2>3. QED BY <2>1, <2>2 DEF CountInv, Counted
<1>3. CASE NextFile
  <2>1. /\ content = <<>> /\ content' = <<>> /\ UNCHANGED <<counts, got>> /\ file' = 2
        /\ scan' = IF file = 1 THEN "read" ELSE "sort"
    BY <1>3 DEF NextFile
  <2>2. Len(<<>>) = 0
    BY EmptySeq
  <2>3. ReadInv'
    BY <1>1, <2>1, <2>2, LenProperties DEF ReadInv
  <2>4. \A f \in 1 .. 2 : Counted(f) = 1 .. Len(got[f]) /\ Counted(f)' = 1 .. Len(got[f])
    BY <1>1, <2>1, <2>2, LenProperties DEF Counted
  <2>5. QED BY <2>1, <2>3, <2>4 DEF CountInv
<1>4. QED BY <1>2, <1>3
-----------------------------------------------------------------------------
\* Sorting by address leaves no address out: as many entries as addresses, none twice.
LEMMA SortedIsComplete ==
  ASSUME NEW found, IsFiniteSet(found), found \subseteq Nat,
         NEW list \in [1 .. Cardinality(found) -> {[ip |-> ip, count |-> counts[ip]] : ip \in found}],
         \A i, j \in DOMAIN list : i < j => list[i].ip < list[j].ip,
         NEW ip \in found
  PROVE  \E i \in 1 .. Cardinality(found) : list[i] = [ip |-> ip, count |-> counts[ip]]
<1> DEFINE n == Cardinality(found)
           f == [i \in 1 .. n |-> list[i].ip]
<1>1. n \in Nat
  BY FS_CardinalityType
<1>2. \A i \in 1 .. n : list[i].ip \in found /\ list[i] = [ip |-> list[i].ip, count |-> counts[list[i].ip]]
  OBVIOUS
<1>3. f \in [1 .. n -> found]
  BY <1>2
<1>4. ASSUME NEW i \in 1 .. n, NEW j \in 1 .. n, f[i] = f[j] PROVE i = j
  <2>1. list[i].ip = list[j].ip /\ list[i].ip \in Nat
    BY <1>2, <1>4
  <2>2. ~(i < j) /\ ~(j < i)
    BY <2>1
  <2>3. QED BY <1>1, <2>2
<1>5. f \in Injection(1 .. n, found)
  BY <1>3, <1>4 DEF Injection, IsInjective
<1>6. Cardinality(1 .. n) = n
  BY <1>1, FS_Interval
<1>7. f \in Surjection(1 .. n, found)
  BY <1>5, <1>6, FS_Injection
<1>8. PICK i \in 1 .. n : f[i] = ip
  BY <1>7 DEF Surjection
<1>9. QED BY <1>2, <1>8

\* Finitely many addresses have finitely many texts.
LEMMA TextsFinite == IsFiniteSet(Texts) /\ Texts \subseteq Nat
<1>1. Ntop \in Surjection(Ips, Texts)
  BY TcpAssumption DEF Texts, Surjection
<1>2. IsFiniteSet(Texts)
  BY <1>1, FS_Surjection, TcpAssumption
<1>3. QED BY <1>2, TcpAssumption DEF Texts

LEMMA SortStep ==
  ASSUME TcpTypeOK, EmitInv, Sort
  PROVE  TcpTypeOK' /\ EmitInv'
<1> DEFINE found == {ip \in Texts : counts[ip] > 0}
<1>1. /\ scan = "sort" /\ scan' = "emit" /\ UNCHANGED <<file, content, counts, offset, emitted, got>>
      /\ status' \in [1 .. Cardinality(found) -> {[ip |-> ip, count |-> counts[ip]] : ip \in found}]
      /\ \A i, j \in DOMAIN status' : i < j => status'[i].ip < status'[j].ip
  BY DEF Sort
<1>2. IsFiniteSet(found) /\ found \subseteq Nat
  BY TextsFinite, FS_Subset
<1>3. Cardinality(found) \in Nat
  BY <1>2, FS_CardinalityType
<1>4. {[ip |-> ip, count |-> counts[ip]] : ip \in found} \subseteq Entry
  BY DEF TcpTypeOK, Entry
<1>5. status' \in Seq(Entry) /\ Len(status') = Cardinality(found) /\ DOMAIN status' = 1 .. Cardinality(found)
  <2>1. \A n \in Nat : \A list \in [1 .. n -> Entry] :
          list \in Seq(Entry) /\ Len(list) = n /\ DOMAIN list = 1 .. n
    OBVIOUS
  <2>2. status' \in [1 .. Cardinality(found) -> Entry]
    BY <1>1, <1>4
  <2>3. QED BY <1>3, <2>1, <2>2
<1>6. status = <<>> /\ offset = 0 /\ emitted = <<>>
  <2>1. status = <<>> /\ offset = 0
    BY <1>1, EmptySeq DEF EmitInv, TcpTypeOK
  <2>2. QED BY <2>1, SubSeqEmpty DEF EmitInv
<1>7. TcpTypeOK'
  BY <1>1, <1>3, <1>5, <1>6 DEF TcpTypeOK
<1>8. \A ip \in found : \E i \in 1 .. Cardinality(found) : status'[i] = [ip |-> ip, count |-> counts[ip]]
  BY <1>1, <1>2, SortedIsComplete
<1>9. emitted' = SubSeq(status', 1, 0)
  BY <1>1, <1>6, SubSeqEmpty
<1>10. QED BY <1>1, <1>5, <1>6, <1>7, <1>8, <1>9 DEF EmitInv

LEMMA EmitStep ==
  ASSUME TcpTypeOK, EmitInv, Emit
  PROVE  TcpTypeOK' /\ EmitInv'
<1>1. /\ scan = "emit" /\ offset < Len(status)
      /\ emitted' = emitted \o SubSeq(status, offset + 1, Last) /\ offset' = Last
      /\ UNCHANGED <<scan, file, content, counts, status, got>>
  BY DEF Emit, EmitAndMoveTo
<1>2. Len(status) \in Nat /\ offset \in 0 .. Len(status) /\ status \in Seq(Entry) /\ emitted \in Seq(Entry)
  BY LenProperties DEF TcpTypeOK
<1>3. Last \in offset .. Len(status)
  BY <1>1, <1>2, TcpAssumption DEF Last
<1>4. emitted' = SubSeq(status, 1, Last)
  <2>1. 1 \in 1 .. Len(status) + 1 /\ offset \in 1 - 1 .. Len(status)
    BY <1>2
  <2>2. SubSeq(status, 1, offset) \o SubSeq(status, offset + 1, Last) = SubSeq(status, 1, Last)
    BY <1>2, <1>3, <2>1, ConcatAdjacentSubSeq
  <2>3. QED BY <1>1, <2>2 DEF EmitInv
<1>5. emitted' \in Seq(Entry)
  <2>1. Last \in Int /\ \A i \in 1 .. Last : status[i] \in Entry
    BY <1>2, <1>3, ElementOfSeq
  <2>2. QED BY <1>4, <2>1, SubSeqProperties
<1>6. offset' \in 0 .. Len(status')
  BY <1>1, <1>2, <1>3
<1>7. TcpTypeOK'
  BY <1>1, <1>5, <1>6 DEF TcpTypeOK
<1>8. QED BY <1>1, <1>4, <1>7 DEF EmitInv

LEMMA TcpInitially == TcpInit => TcpInv
<1> SUFFICES ASSUME TcpInit PROVE TcpInv
  OBVIOUS
<1> USE DEF TcpInit
<1>1. TcpTypeOK
  BY EmptySeq DEF TcpTypeOK
<1>2. ReadInv
  BY EmptySeq DEF ReadInv
<1>3. CountInv
  BY EmptySeq, FS_EmptySet DEF CountInv, Counted, Texts
<1>4. EmitInv
  BY EmptySeq, SubSeqEmpty DEF EmitInv
<1>5. QED BY <1>1, <1>2, <1>3, <1>4 DEF TcpInv

LEMMA TcpStep == TcpInv /\ [TcpNext]_tcpVars => TcpInv'
<1> SUFFICES ASSUME TcpInv, [TcpNext]_tcpVars PROVE TcpInv'
  OBVIOUS
<1> USE DEF TcpInv
<1>1. CASE UNCHANGED tcpVars
  BY <1>1 DEF tcpVars, TcpTypeOK, ReadInv, CountInv, Counted, EmitInv
<1>2. CASE ReadFile \/ CountRow
  <2>1. scan \notin {"emit", "done"} /\ scan' \notin {"emit", "done"} /\ UNCHANGED <<status, offset, emitted>>
    BY <1>2 DEF ReadFile, CountRow
  <2>2. EmitInv'
    BY <2>1 DEF EmitInv
  <2>3. QED BY <1>2, <2>2, ReadStep, CountStep
<1>3. CASE OpenFails \/ NextFile \/ EmitNothing
  <2>1. TcpTypeOK'
    BY <1>3 DEF OpenFails, NextFile, EmitNothing, TcpTypeOK
  <2>2. EmitInv'
    <3>1. offset >= Len(status) => offset = Len(status)
      BY LenProperties DEF TcpTypeOK
    <3>2. QED BY <1>3, <3>1 DEF OpenFails, NextFile, EmitNothing, EmitInv
  <2>3. QED BY <1>3, <2>1, <2>2, OtherStep
<1>4. CASE Sort \/ Emit
  BY <1>4, OtherStep, SortStep, EmitStep
<1>5. QED BY <1>1, <1>2, <1>3, <1>4 DEF TcpNext

LEMMA TcpInvariance == TcpSpec => []TcpInv
BY TcpInitially, TcpStep, PTL DEF TcpSpec
-----------------------------------------------------------------------------
\* The variables keep their types; in particular the offset stays within the list.
THEOREM TcpTypeCorrect == TcpSpec => []TcpTypeOK
<1>1. TcpInv => TcpTypeOK
  BY DEF TcpInv
<1>2. QED BY <1>1, TcpInvariance, PTL

\* Parsing and reversing the bytes undoes the kernel's print: the count of an IPv4 peer is
\* the number of its connections, whatever IPv6 peers there are.
THEOREM CountsAreRight == TcpSpec => []PeersCounted
<1>1. ASSUME TcpTypeOK, CountInv PROVE PeersCounted
  <2>1. SUFFICES ASSUME NEW ip \in Ips \ {Zero}
                 PROVE  counts[Ntop[ip]] = Cardinality({i \in Counted(1) : got[1][i] = ip})
    BY DEF PeersCounted
  <2>2. counts[Ntop[ip]] = Cardinality({i \in Counted(1) : got[1][i] = ip}) + 0
    BY <1>1, <2>1 DEF CountInv
  <2>3. IsFiniteSet({i \in Counted(1) : got[1][i] = ip})
    <3>1. Len(got[1]) \in Nat /\ Len(content) \in Nat
      BY <1>1, LenProperties DEF TcpTypeOK
    <3> DEFINE n == Len(got[1]) - (IF 1 = file THEN Len(content) ELSE 0)
    <3>2. n \in Int
      BY <3>1
    <3>3. Counted(1) = 1 .. n
      BY DEF Counted
    <3> HIDE DEF n
    <3>4. IsFiniteSet(1 .. n)
      BY <3>2, FS_Interval
    <3>5. QED BY <3>3, <3>4, FS_Subset
  <2>4. QED BY <2>2, <2>3, FS_CardinalityType
<1>2. TcpInv => PeersCounted
  BY <1>1 DEF TcpInv
<1>3. QED BY <1>2, TcpInvariance, PTL

\* Whatever the size of a chunk, the scan emits every address once, in order, and stops.
THEOREM EmissionIsRight == TcpSpec => []EmittedOnce
<1>1. ASSUME TcpTypeOK, EmitInv PROVE EmittedOnce
  <2>1. Len(status) \in Nat /\ offset \in 0 .. Len(status) /\ \A i \in 1 .. offset : status[i] \in Entry
    BY <1>1, LenProperties, ElementOfSeq DEF TcpTypeOK
  <2>2. /\ emitted \in Seq(Entry) /\ Len(emitted) = offset
        /\ \A i \in 1 .. offset : emitted[i] = status[i]
    BY <1>1, <2>1, SubSeqProperties DEF EmitInv
  <2>3. DOMAIN emitted = 1 .. offset
    BY <2>2, LenProperties
  <2>4. scan = "failed" => emitted = <<>>
    <3>1. scan = "failed" => offset = 0
      BY <1>1, EmptySeq DEF TcpTypeOK, EmitInv
    <3>2. QED BY <1>1, <3>1, SubSeqEmpty DEF EmitInv
  <2>5. \A i \in 1 .. offset : i \in 1 .. Len(status)
    BY <2>1
  <2>6. \A i, j \in DOMAIN emitted : i < j => emitted[i].ip < emitted[j].ip
    BY <1>1, <2>2, <2>3, <2>5 DEF EmitInv
  <2>7. ASSUME scan = "done", NEW ip \in Texts, counts[ip] > 0
        PROVE  \E i \in DOMAIN emitted : emitted[i] = [ip |-> ip, count |-> counts[ip]]
    <3>1. PICK i \in 1 .. Len(status) : status[i] = [ip |-> ip, count |-> counts[ip]]
      BY <1>1, <2>7 DEF EmitInv
    <3>2. offset = Len(status)
      BY <1>1, <2>7 DEF EmitInv
    <3>3. QED BY <2>2, <2>3, <3>1, <3>2
  <2>8. emitted = SubSeq(status, 1, offset)
    BY <1>1 DEF EmitInv
  <2>9. QED BY <2>4, <2>6, <2>7, <2>8 DEF EmittedOnce
<1>2. TcpInv => EmittedOnce
  BY <1>1 DEF TcpInv
<1>3. QED BY <1>2, TcpInvariance, PTL
-----------------------------------------------------------------------------
(***************************************************************************)
(* The composition: a step of the switch is none of the table function,    *)
(* and the other way round.                                                *)
(***************************************************************************)
\* Seen by its loads and settings, a database behaves as HttpUtilSwitch says, whatever
\* its table function does.
LEMMA SwitchesAsSpecified == Spec => UtilSpec
<1>1. Init => UtilInit
  BY DEF Init
<1>2. [Next]_<<utilVars, tcpVars>> => [UtilNext]_utilVars
  BY DEF Next, Switch, Query
<1>3. QED BY <1>1, <1>2, PTL DEF Spec, UtilSpec

\* Seen by its table function, it behaves as TcpConnections says, whatever is loaded or set.
LEMMA ScansAsSpecified == Spec => TcpSpec
<1>1. Init => TcpInit
  BY DEF Init
<1>2. [Next]_<<utilVars, tcpVars>> => [TcpNext]_tcpVars
  BY DEF Next, Switch, Query
<1>3. QED BY <1>1, <1>2, PTL DEF Spec, TcpSpec

\* A database keeps the properties of both parts, however their steps interleave.
THEOREM ExtensionIsCorrect ==
  Spec => /\ [](OverrideHolds /\ BreaksOnlyOnRace /\ PeersCounted /\ EmittedOnce)
          /\ WasmStays /\ SetTakesEffect
BY SwitchesAsSpecified, ScansAsSpecified, LoadOverrides, OnlyRaceBreaks, WasmUtilStays,
   SetsTakeEffect, CountsAreRight, EmissionIsRight, PTL
=============================================================================
