---------------------------- MODULE MCExtension ----------------------------
(***************************************************************************)
(* Addresses for model-checking Extension: two IPv4 peers, one the other   *)
(* read back to front, and an IPv6 address, that of an IPv4 peer as a      *)
(* dual-stack socket has it.                                               *)
(***************************************************************************)
EXTENDS Extension, TLC

Ten == <<10, 0, 0, 9>>
Nine == <<9, 0, 0, 10>>

MCIps == {Zero, Ten, Nine}
MCIps6 == {<<0, 0, 0, 0, 0, 0, 0, 0, 0, 0, 255, 255>> \o Ten}

\* In the order of strings, "0.0.0.0" is before "10.0.0.9", and this before "9.0.0.10".
MCNtop == Zero :> 1 @@ Ten :> 2 @@ Nine :> 3
=============================================================================
