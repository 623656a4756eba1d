------------------------------ MODULE Handshake ------------------------------
(***************************************************************************)
(* What is hashed in the course of a handshake: the bytes of the key that  *)
(* have been read.                                                         *)
(***************************************************************************)
EXTENDS WebSocketFrames, DigestStandards

\* Some bytes; the handshake does not look at them.
Message == [i \in 1 .. key |-> (37 * i + 11) % 256]

\* sha1 (telemetry_server.cpp:46, "RFC 3174") and sha256_hex
\* (config_archive.cpp:75, "FIPS 180-4") compute what their standards say, for
\* messages that end anywhere in a block, base64_encode (telemetry_server.cpp:116)
\* can be undone, and the answer to a handshake is the digest.  A wrong padding
\* would show for a few lengths in 64 only.
DigestsAsSpecified == at = "handshaking" => AsSpecified(Message)

=============================================================================
