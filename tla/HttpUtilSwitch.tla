--------------------------- MODULE HttpUtilSwitch ---------------------------
(***************************************************************************)
(* Which HTTPUtil a database uses: LOAD curl_httpfs                        *)
(* (src/src/curl_httpfs_extension.cpp) loads httpfs unless it is there,    *)
(* installs MultiCurlUtil and registers a setting, whose callback          *)
(* (src/src/extension_loader_helper.cpp) installs another util.  Several   *)
(* connections LOAD and SET at the same time.  DuckDB's extension manager  *)
(* and httpfs itself are external: BeginLoad lets one connection at a time *)
(* load an extension and returns nothing when it is loaded.                *)
(***************************************************************************)
EXTENDS Naturals

CONSTANTS
  Conns,     \* connections, each with a thread
  MaxCalls,  \* bound on the LOADs and SETs of one connection
  None       \* "no connection"

Utils == {"MultiCurl", "HTTPFS-Curl", "HTTPFS", "WasmHTTPUtils", "builtin"}
Impls == {"default", "multi_curl", "curl", "httplib", "wasm"}   \* values of the setting
LoadState == {"absent", "loading", "loaded"}

ASSUME ConnsAssumption == None \notin Conns \cup Impls /\ MaxCalls \in Nat

VARIABLES
  pc,           \* of a connection: "idle", or the next step of its call
  calls,        \* number of its calls
  impl,         \* value of its latest SET, or None
  util,         \* name of the installed HTTPUtil
  httpfs,       \* state of extension httpfs
  curl_httpfs,  \* state of this extension
  broken,       \* LOAD curl_httpfs has followed the null pointer of BeginLoad
  loader,       \* history: the connection that loads or has loaded httpfs
  seen,         \* history: the state of httpfs when LOAD curl_httpfs looked
  hit           \* history: since its latest SET, util has been the one asked for

loadVars == <<httpfs, curl_httpfs, loader, seen>>
utilVars == <<pc, calls, impl, util, loadVars, broken, hit>>

Steps == {"check", "nested", "begin", "finish", "install", "register",
          "lbegin", "lload", "lfinish", "sread", "swrite"}

UtilTypeOK ==
  /\ pc \in [Conns -> {"idle"} \cup Steps]
  /\ calls \in [Conns -> 0 .. MaxCalls]
  /\ impl \in [Conns -> Impls \cup {None}] /\ hit \in [Conns -> BOOLEAN]
  /\ util \in Utils
  /\ httpfs \in LoadState /\ curl_httpfs \in LoadState /\ seen \in LoadState
  /\ broken \in BOOLEAN
  /\ loader \in Conns \cup {None}
  /\ httpfs = "absent" <=> loader = None

\* A database that has not loaded anything, of a native build or of DuckDB-Wasm.
UtilInit ==
  /\ pc = [c \in Conns |-> "idle"] /\ calls = [c \in Conns |-> 0]
  /\ impl = [c \in Conns |-> None] /\ hit = [c \in Conns |-> FALSE]
  /\ util \in {"builtin", "WasmHTTPUtils"}
  /\ httpfs = "absent" /\ curl_httpfs = "absent" /\ seen = "absent"
  /\ loader = None /\ broken = FALSE

\* The util a supported value of the setting asks for.
NameOf(value) ==
  CASE value \in {"multi_curl", "default"} -> "MultiCurl"
    [] value = "curl" -> "HTTPFS-Curl"
    [] value = "httplib" -> "HTTPFS"
    [] OTHER -> "none"

\* SetHTTPUtil(name), which is also what a SET under way may have waited for.
SetHTTPUtil(name) ==
  /\ util' = name
  /\ hit' = [c \in Conns |-> hit[c] \/ name = NameOf(impl[c])]

\* Seeded bug: the util is set without a look at what there is.
SetAlways(name) == SetHTTPUtil(name)

\* ... unless the util is the one of Wasm.
SetUnlessWasm(name) ==
  IF util = "WasmHTTPUtils" THEN UNCHANGED <<util, hit>> ELSE SetHTTPUtil(name)

\* Connection c makes a call, or goes from one step of it to another.
Begin(c, step) ==
  /\ ~broken /\ pc[c] = "idle" /\ calls[c] < MaxCalls
  /\ pc' = [pc EXCEPT ![c] = step]
  /\ calls' = [calls EXCEPT ![c] = @ + 1]

Go(c, from, to) ==
  /\ ~broken /\ pc[c] = from
  /\ pc' = [pc EXCEPT ![c] = to]
  /\ UNCHANGED <<calls, impl, broken>>
-----------------------------------------------------------------------------
(***************************************************************************)
(* LOAD curl_httpfs: LoadInternal.                                         *)
(***************************************************************************)
LoadInternal(c) ==
  /\ curl_httpfs = "absent" /\ curl_httpfs' = "loading"
  /\ Begin(c, "check")
  /\ UNCHANGED <<impl, util, httpfs, loader, seen, broken, hit>>

\* The check finds httpfs or not: the manager may list an extension being loaded.
CheckOf(c, state) ==
  /\ seen' = httpfs
  /\ \E listed \in BOOLEAN :
       /\ state = "loaded" => listed
       /\ state = "absent" => ~listed
       /\ Go(c, "check", IF listed THEN "install" ELSE "nested")
  /\ UNCHANGED <<util, hit, httpfs, curl_httpfs, loader>>

\* Seeded bug: a list made before the call is consulted.
CheckOldList(c) == CheckOf(c, "absent")

\* IsHttpfsExtensionLoaded.
IsHttpfsExtensionLoaded(c) == CheckOf(c, httpfs)

\* HttpfsExtension::Load installs a util of its own.
HttpfsLoads(c, from, to) ==
  /\ Go(c, from, to)
  /\ SetUnlessWasm("HTTPFS")
  /\ UNCHANGED loadVars

\* Connection c holds the load of httpfs, one at a time.
Hold(c, from, to) ==
  /\ httpfs = "absent" /\ httpfs' = "loading"
  /\ loader' = c
  /\ Go(c, from, to)
  /\ UNCHANGED <<util, hit, curl_httpfs, seen>>

Finish(c, from, to) ==
  /\ Go(c, from, to)
  /\ httpfs' = "loaded"
  /\ UNCHANGED <<util, hit, curl_httpfs, loader, seen>>

\* BeginLoad waits for another load to end, and what it then returns is dereferenced.
BeginLoad(c) ==
  \/ Hold(c, "begin", "finish")
  \/ /\ ~broken /\ pc[c] = "begin" /\ httpfs = "loaded"
     /\ broken' = TRUE
     /\ UNCHANGED <<pc, calls, impl, util, hit, loadVars>>

\* Seeded bug: only a util of httpfs, by the name the callback has for it, is replaced.
InstallOverHttpfs(c) ==
  /\ Go(c, "install", "register")
  /\ IF util = "HTTPFSUtil" THEN SetHTTPUtil("MultiCurl") ELSE UNCHANGED <<util, hit>>
  /\ UNCHANGED loadVars

Install(c) ==
  /\ Go(c, "install", "register")
  /\ SetUnlessWasm("MultiCurl")
  /\ UNCHANGED loadVars

\* The setting and the functions are there from now on.
LoadExtensionInternal(c) ==
  /\ Go(c, "register", "idle")
  /\ curl_httpfs' = "loaded"
  /\ UNCHANGED <<util, hit, httpfs, loader, seen>>
-----------------------------------------------------------------------------
(***************************************************************************)
(* LOAD httpfs by a user.                                                  *)
(***************************************************************************)
LoadHttpfs(c) ==
  /\ Begin(c, "lbegin")
  /\ UNCHANGED <<impl, util, loadVars, broken, hit>>

LoadHttpfsBegin(c) ==
  \/ Hold(c, "lbegin", "lload")
  \/ httpfs = "loaded" /\ Go(c, "lbegin", "idle") /\ UNCHANGED <<util, hit, loadVars>>
-----------------------------------------------------------------------------
(***************************************************************************)
(* SET curl_httpfs_client_implementation: the callback.                    *)
(***************************************************************************)
Set(c, value) ==
  /\ curl_httpfs = "loaded"
  /\ Begin(c, "sread")
  /\ impl' = [impl EXCEPT ![c] = value]
  /\ hit' = [hit EXCEPT ![c] = util = NameOf(value)]
  /\ UNCHANGED <<util, loadVars, broken>>

\* Seeded bug: the names compared with are those of the utils, but swapped.
KeepsSwapped(value) ==
  \/ util = "WasmHTTPUtils" \/ NameOf(value) = "none"
  \/ NameOf(value) = "MultiCurl" /\ util = "MultiCurl"
  \/ value = "curl" /\ util = "HTTPFS"
  \/ value = "httplib" /\ util = "HTTPFS-Curl"

\* By the name it reads the callback has nothing to install, or throws.  HTTPFSUtil-Curl
\* and HTTPFSUtil are the names it compares with; no util has one of them.
Keeps(value) ==
  \/ util = "WasmHTTPUtils" \/ NameOf(value) = "none"
  \/ NameOf(value) = "MultiCurl" /\ util = "MultiCurl"
  \/ value = "curl" /\ util = "HTTPFSUtil-Curl"
  \/ value = "httplib" /\ util = "HTTPFSUtil"

SetRead(c) ==
  /\ Go(c, "sread", IF Keeps(impl[c]) THEN "idle" ELSE "swrite")
  /\ UNCHANGED <<util, hit, loadVars>>

SetWrite(c) ==
  /\ Go(c, "swrite", "idle")
  /\ SetHTTPUtil(NameOf(impl[c]))
  /\ UNCHANGED loadVars
-----------------------------------------------------------------------------
UtilNext == \E c \in Conns :
  \/ LoadInternal(c) \/ LoadHttpfs(c) \/ \E value \in Impls : Set(c, value)
  \/ IsHttpfsExtensionLoaded(c) \/ HttpfsLoads(c, "nested", "begin") \/ BeginLoad(c)
  \/ Finish(c, "finish", "install") \/ Install(c) \/ LoadExtensionInternal(c)
  \/ LoadHttpfsBegin(c) \/ HttpfsLoads(c, "lload", "lfinish") \/ Finish(c, "lfinish", "idle")
  \/ SetRead(c) \/ SetWrite(c)

UtilSpec == UtilInit /\ [][UtilNext]_utilVars
-----------------------------------------------------------------------------
(***************************************************************************)
(* Properties.                                                             *)
(***************************************************************************)
\* In Wasm the util of the browser is never replaced: every place that installs one
\* looks at the name first, and the callback may rely on what it read a step before.
WasmStays == [][util = "WasmHTTPUtils" => UNCHANGED util]_utilVars

\* A SET of a supported value has its way: at some moment of it the util was the one
\* it asks for, whatever the other connections did between its read and its write.
\* (The names it compares with for curl and httplib being nobody's, it just writes.)
SetTakesEffect ==
  [][\A c \in Conns :
       pc[c] \in {"sread", "swrite"} /\ pc'[c] = "idle" /\ NameOf(impl[c]) # "none"
       => hit[c]' \/ util = "WasmHTTPUtils"]_utilVars

\* LOAD curl_httpfs overrides the util, of httpfs too: as long as nobody has made a SET
\* it is MultiCurl, unless the check found httpfs while it was being loaded (it may
\* then install its own util later).
OverrideHolds ==
  curl_httpfs = "loaded" /\ (\A c \in Conns : impl[c] = None) /\ seen # "loading"
  => util \in {"MultiCurl", "WasmHTTPUtils"}

\* The null pointer is met only if another connection loads httpfs itself and had not
\* ended when LOAD curl_httpfs looked.
BreaksOnlyOnRace ==
  broken => seen # "loaded" /\ \E c \in Conns : pc[c] = "begin" /\ loader \in Conns \ {c}
=============================================================================
