--------------------------- MODULE TcpConnections ---------------------------
(***************************************************************************)
(* The table function curl_httpfs_get_tcp_connection (Linux build): its    *)
(* init counts the rows of /proc/net/tcp and /proc/net/tcp6 by remote      *)
(* address (src/src/tcp_connection_fetcher.cpp) and sorts the counts, and  *)
(* each call of the function emits the next of them, until an empty chunk  *)
(* (src/src/tcp_connection_query_function.cpp).  An address is its bytes   *)
(* in network order; the kernel's rows are well-formed.  inet_ntop gives   *)
(* each IPv4 address a text of its own; all that the code does with a text *)
(* is to compare it, so a text is its place in the order of strings.       *)
(***************************************************************************)
EXTENDS Naturals, Sequences, FiniteSets

CONSTANTS
  Ips,         \* IPv4 addresses of peers, and 0.0.0.0, the peer of a listener
  Ips6,        \* IPv6 addresses of peers
  Ntop,        \* inet_ntop(AF_INET, ...)
  MaxRows,     \* bound on the rows of a file
  VectorSize   \* STANDARD_VECTOR_SIZE

Zero == [k \in 1 .. 4 |-> 0]

ASSUME TcpAssumption ==
  /\ Ips \subseteq [1 .. 4 -> 0 .. 255] /\ Zero \in Ips /\ IsFiniteSet(Ips)
  /\ Ips6 \subseteq [1 .. 16 -> 0 .. 255]
  /\ Ntop \in [Ips -> Nat] /\ \A ip, other \in Ips : Ntop[ip] = Ntop[other] => ip = other
  /\ MaxRows \in Nat /\ VectorSize \in Nat \ {0}

Texts == {Ntop[ip] : ip \in Ips}

VARIABLES
  scan,     \* "read", "parse" (a file's content), "sort", "emit", "done" or "failed"
  file,     \* the file at hand, 1 or 2
  content,  \* rows of it read and not yet counted, as remote addresses in hex digits
  counts,   \* per_remote_ip, 0 for a text that is not in it
  status,   \* tcp_connection_status
  offset,   \* its offset
  emitted,  \* history: the rows of the chunks returned
  got       \* history: the peers of the rows read of each file

tcpVars == <<scan, file, content, counts, status, offset, emitted, got>>

Entry == [ip : Texts, count : Nat]

\* The remote addresses of /proc/net/tcp or /proc/net/tcp6, or of what could be read of it.
Rows(f) == UNION {[1 .. n -> IF f = 1 THEN Ips ELSE Ips6] : n \in 0 .. MaxRows}

\* The kernel prints an address as 32-bit words in hex, with their least significant byte,
\* the first one in memory, at the end.
Hex(address) ==
  [d \in 1 .. 2 * Len(address) |->
     LET k == (d - 1) \div 2
         byte == address[4 * (k \div 4) + 4 - (k % 4)]
     IN  IF d % 2 = 1 THEN byte \div 16 ELSE byte % 16]

TcpTypeOK ==
  /\ scan \in {"read", "parse", "sort", "emit", "done", "failed"}
  /\ file \in 1 .. 2
  /\ content \in Seq(Seq(0 .. 15))
  /\ counts \in [Texts -> Nat]
  /\ status \in Seq(Entry) /\ emitted \in Seq(Entry)
  /\ offset \in 0 .. Len(status)
  /\ got \in [1 .. 2 -> Seq(Ips \cup Ips6)]

TcpInit ==
  /\ scan = "read" /\ file = 1 /\ content = <<>>
  /\ counts = [ip \in Texts |-> 0]
  /\ status = <<>> /\ offset = 0 /\ emitted = <<>>
  /\ got = [f \in 1 .. 2 |-> <<>>]
-----------------------------------------------------------------------------
(***************************************************************************)
(* GetTcpConnectionNum.                                                    *)
(***************************************************************************)
\* open or close fails, as it does where there is no IPv6: ParseProcTCP throws.
OpenFails ==
  /\ scan = "read" /\ scan' = "failed"
  /\ UNCHANGED <<file, content, counts, status, offset, emitted, got>>

\* Read until the end of the file, or until an error: that is the same to ParseProcTCP.
ReadFile ==
  /\ scan = "read" /\ scan' = "parse"
  /\ \E peers \in Rows(file) :
       /\ content' = [i \in 1 .. Len(peers) |-> Hex(peers[i])]
       /\ got' = [got EXCEPT ![file] = peers]
  /\ UNCHANGED <<file, counts, status, offset, emitted>>

\* The text of the four bytes that eight digits make, in the given order; any other
\* number of digits, such as the 32 of an IPv6 address, makes 0.0.0.0.
TextOf(hex, order) ==
  LET byte(k) == 16 * hex[2 * k - 1] + hex[2 * k]
  IN  Ntop[IF Len(hex) # 8 THEN Zero ELSE [k \in 1 .. 4 |-> byte(order[k])]]

\* Seeded bug: the bytes are left in the order they are printed in.
HexToIPAsPrinted(hex) == TextOf(hex, <<1, 2, 3, 4>>)

\* HexToIP: parse the bytes, reverse them, inet_ntop.
HexToIP(hex) == TextOf(hex, <<4, 3, 2, 1>>)

\* Count one more row.
CountRow ==
  /\ scan = "parse" /\ content # <<>>
  /\ counts' = [counts EXCEPT ![HexToIP(Head(content))] = @ + 1]
  /\ content' = Tail(content)
  /\ UNCHANGED <<scan, file, status, offset, emitted, got>>

\* The content has been counted: the other file, with the same map, or the list.
NextFile ==
  /\ scan = "parse" /\ content = <<>>
  /\ scan' = IF file = 1 THEN "read" ELSE "sort"
  /\ file' = 2
  /\ UNCHANGED <<content, counts, status, offset, emitted, got>>
-----------------------------------------------------------------------------
(***************************************************************************)
(* The table function.                                                     *)
(***************************************************************************)
\* GetTcpConnectionNumFuncInit: list the map and sort by address.
Sort ==
  LET found == {ip \in Texts : counts[ip] > 0}
  IN  /\ scan = "sort" /\ scan' = "emit"
      /\ status' \in [1 .. Cardinality(found) -> {[ip |-> ip, count |-> counts[ip]] : ip \in found}]
      /\ \A i, j \in DOMAIN status' : i < j => status'[i].ip < status'[j].ip
      /\ UNCHANGED <<file, content, counts, offset, emitted, got>>

\* The last row of the next chunk, of at most STANDARD_VECTOR_SIZE rows.
Last == IF offset + VectorSize < Len(status) THEN offset + VectorSize ELSE Len(status)

EmitAndMoveTo(next) ==
  /\ scan = "emit"
  /\ emitted' = emitted \o SubSeq(status, offset + 1, Last)
  /\ offset' = next
  /\ UNCHANGED <<scan, file, content, counts, status, got>>

\* Seeded bug: the entry that did not fit any more is passed over.
EmitSkipping == offset < Len(status) /\ EmitAndMoveTo(IF Last < Len(status) THEN Last + 1 ELSE Last)

\* GetTcpConnectionNumTableFunc: one chunk.
Emit == offset < Len(status) /\ EmitAndMoveTo(Last)

\* All entries have been emitted: an empty chunk ends the scan.
EmitNothing ==
  /\ scan = "emit" /\ offset >= Len(status)
  /\ scan' = "done"
  /\ UNCHANGED <<file, content, counts, status, offset, emitted, got>>
-----------------------------------------------------------------------------
TcpNext == OpenFails \/ ReadFile \/ CountRow \/ NextFile \/ Sort \/ Emit \/ EmitNothing

TcpSpec == TcpInit /\ [][TcpNext]_tcpVars
-----------------------------------------------------------------------------
(***************************************************************************)
(* Properties.                                                             *)
(***************************************************************************)
\* The rows of file f that have been counted.
Counted(f) == 1 .. (Len(got[f]) - (IF f = file THEN Len(content) ELSE 0))

\* Every IPv4 peer is counted under its own text, each of its connections once, although
\* the kernel prints it back to front, and no IPv6 peer is counted to it.  (The group of
\* 0.0.0.0 is no peer's: the code counts the listeners there, and every IPv6 peer.)
PeersCounted ==
  \A ip \in Ips \ {Zero} :
    counts[Ntop[ip]] = Cardinality({i \in Counted(1) : got[1][i] = ip})

\* What has been emitted is the first offset entries, in order; at the end each address
\* has been emitted once with its count, in as many chunks as it takes, and nothing at
\* all when a file could not be opened.
EmittedOnce ==
  /\ emitted = SubSeq(status, 1, offset)
  /\ \A i, j \in DOMAIN emitted : i < j => emitted[i].ip < emitted[j].ip
  /\ scan = "done" =>
       \A ip \in Texts : counts[ip] > 0 =>
         \E i \in DOMAIN emitted : emitted[i] = [ip |-> ip, count |-> counts[ip]]
  /\ scan = "failed" => emitted = <<>>
=============================================================================
