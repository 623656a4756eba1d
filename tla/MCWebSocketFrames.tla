-------------------------- MODULE MCWebSocketFrames --------------------------
(***************************************************************************)
(* Bytes of four bits: lengths below 6 fit into the header, 6 is the first *)
(* that needs two bytes more, 256 the first that needs eight.  send()      *)
(* takes all or a half.  What the handshake hashes has 0 to 72 bytes: the  *)
(* end of a block, and the lengths before it at which the padding needs a  *)
(* block more.                                                             *)
(***************************************************************************)
EXTENDS Handshake, DigestConstants, Bitwise

MCByteXor(a, b) == a ^^ b

MCSendTakes(n, all) == n \in {all, (all + 1) \div 2}

Mask == <<9, 4, 15, 2>>

MCFrames == {
    [op |-> Ping, payload |-> <<1, 2, 3, 4, 5>>, mask |-> Mask],
    [op |-> Ping, payload |-> <<>>, mask |-> <<>>],
    [op |-> Text, payload |-> <<3, 3, 3, 3, 3, 3>>, mask |-> Mask],
    [op |-> Close, payload |-> <<7, 1>>, mask |-> Mask]}

\* The handshake of test_telemetry_server.cpp:54-55: the key with kWsMagicGuid
\* (telemetry_server.cpp:146), and what is answered to it, letter by letter.
TestedHandshake == [key |-> <<
    100, 71, 104, 108, 73, 72, 78, 104, 98, 88, 66, 115, 90, 83, 66,
    117, 98, 50, 53, 106, 90, 81, 61, 61, 50, 53, 56, 69, 65, 70,
    65, 53, 45, 69, 57, 49, 52, 45, 52, 55, 68, 65, 45, 57, 53,
    67, 65, 45, 67, 53, 65, 66, 48, 68, 67, 56, 53, 66, 49, 49>>, answer |-> <<
    44, 55, 41, 15, 11, 12, 1, 34, 19, 49, 26, 16, 61, 36, 24,
    6, 51, 51, 33, 25, 17, 27, 10, 62, 49, 14, 40, 64>>]

\* Addition by carries is addition.
Samples == {0, 1, 255, 256, 21845, 32768, 65534, 65535}
ASSUME Sums == \A x, y, u, v \in Samples :
    W(x, u) ++ W(y, v) =
        W((x + y + ((u + v) \div 65536)) % 65536, (u + v) % 65536)

\* sha1 with base64_encode (telemetry_server.cpp:46, 116) answers a handshake
\* as the test of it expects, and the constants of both hashes
\* (telemetry_server.cpp:46, config_archive.cpp:36) are the roots they should
\* be: a wrong one would show in no test of the archive, which compares ids
\* with ids.
ASSUME HandshakeAsTested ==
    Constants /\ AcceptKey(TestedHandshake.key) = TestedHandshake.answer

=============================================================================
