----------------------------- MODULE Extension -----------------------------
(***************************************************************************)
(* The extension in a database: the HTTP util it installs and lets users   *)
(* choose (HttpUtilSwitch), and a call of its table function, which exists *)
(* once the extension is loaded (TcpConnections).                          *)
(***************************************************************************)
EXTENDS HttpUtilSwitch, TcpConnections

Init == UtilInit /\ TcpInit

\* The connections load and set.
Switch == UtilNext /\ UNCHANGED tcpVars

\* The function's registration is the last step of LoadExtensionInternal.
Query == curl_httpfs = "loaded" /\ ~broken /\ TcpNext /\ UNCHANGED utilVars

Next == Switch \/ Query

Spec == Init /\ [][Next]_<<utilVars, tcpVars>>
=============================================================================
