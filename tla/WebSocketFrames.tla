--------------------------- MODULE WebSocketFrames ---------------------------
(***************************************************************************)
(* One WebSocket connection, byte by byte: the key of its handshake; then, *)
(* in client_loop, the frames the server encodes and sends, and how        *)
(* poll_client_frame takes the browser's from the stream they arrive in.   *)
(* recv() returns what has arrived of what was asked for, and waits if     *)
(* that is nothing.  The browser is external; it stays, and it reads       *)
(* (TelemetryServer has those that do not).  Half is 128 in the code: a    *)
(* byte is below 2 * Half, its highest bit is worth Half, and the two      *)
(* highest lengths of seven bits announce two and eight bytes of length.   *)
(***************************************************************************)
EXTENDS Naturals, SequencesExt

CONSTANTS
    Half,
    Text, Close, Ping, Pong,    \* the opcodes
    ByteXor(_, _),  \* the exclusive or of two bytes
    SendTakes(_, _),    \* may send() take so many of so many bytes?
    Segmented,      \* may a header arrive in pieces?
    Junk,           \* what the bytes of a header that did not arrive may hold
    TextLengths,    \* the sizes of the messages to the browser
    ClientFrames,   \* the frames of the browser: op, payload, mask (four bytes or none)
    LongestKey,     \* bound: bytes of the key of a handshake
    MaxSaid,        \* bound: frames the browser sends
    MaxTexts        \* bound: messages to the browser

Base == 2 * Half
Byte == 0 .. Base - 1

\* n >> k bytes.
Shifted(n, k) ==
    LET shift[j \in 0 .. k] == IF j = 0 THEN n ELSE shift[j - 1] \div Base
    IN  shift[k]

\* What a length of eight bytes can say.
Lengths == {n \in Nat : Shifted(n, 8) = 0}

ASSUME WebSocketAssumption ==
    /\ Half \in Nat /\ Half > 2
    /\ {Text, Close, Ping, Pong} \subseteq 0 .. Half - 1
    /\ Text # Pong /\ Close # Pong /\ Close # Ping
    /\ Junk \subseteq Byte /\ Junk # {}
    /\ Segmented \in BOOLEAN
    /\ TextLengths \subseteq Lengths

ASSUME XorAssumption ==
    \A a, b \in Byte : ByteXor(a, b) \in Byte /\ ByteXor(ByteXor(a, b), b) = a

\* Browsers keep to RFC 6455: what a control frame carries is short.
ASSUME BrowserAssumption ==
    \A f \in ClientFrames :
        /\ f \in [op : 0 .. Half - 1, payload : Seq(Byte), mask : Seq(Byte)]
        /\ Len(f.mask) \in {0, 4}
        /\ Len(f.payload) \in Lengths
        /\ f.op = Ping => Len(f.payload) < Half - 2

VARIABLES
    key,        \* how many bytes of the handshake's key have been read
    said,       \* the frames the browser has sent
    transit,    \* the pieces of them that are under way
    arrived,    \* the bytes that have arrived and were not received
    at,         \* where the handshake and then client_loop() is
    frame,      \* what poll_client_frame knows of the frame: op, length, masked, mask, payload
    out,        \* the bytes send_all() has still to send
    meant,      \* the frames the server has begun to send
    stream,     \* every byte it has sent
    texts       \* how many messages it has begun

browser == <<said, transit>>
endpoint == <<at, frame, out, meant, stream, texts>>
connectionVars == <<key, browser, arrived, endpoint>>

NoFrame == [op |-> 0, length |-> 0, masked |-> FALSE, mask |-> <<0, 0, 0, 0>>, payload |-> <<>>]

ConnectionInit ==
    /\ key = 0
    /\ said = <<>>
    /\ transit = <<>>
    /\ arrived = <<>>
    /\ at = "handshaking"
    /\ frame = NoFrame
    /\ out = <<>>
    /\ meant = <<>>
    /\ stream = <<>>
    /\ texts = 0

-----------------------------------------------------------------------------
(* The handshake.  What the key is answered is a matter of Digests.        *)

ReadKeyByte ==
    /\ at = "handshaking"
    /\ key < LongestKey
    /\ key' = key + 1
    /\ UNCHANGED <<browser, arrived, endpoint>>

Upgrade ==
    /\ at = "handshaking"
    /\ key > 0
    /\ key' = 0
    /\ at' = "polling"
    /\ UNCHANGED <<browser, arrived, frame, out, meant, stream, texts>>

-----------------------------------------------------------------------------
(* Frames as bytes.                                                        *)

\* n as k bytes, the highest first; and back.
BigEndian(n, k) == [i \in 1 .. k |-> Shifted(n, k - i) % Base]
Number(bytes) ==
    LET number[i \in 0 .. Len(bytes)] == IF i = 0 THEN 0 ELSE number[i - 1] * Base + bytes[i]
    IN  number[Len(bytes)]

LengthTooShort(n) ==
    CASE n <= Half - 2      -> <<n>>
      [] n > Half - 2 /\ n < Base * Base -> <<Half - 2>> \o BigEndian(n, 2)
      [] n >= Base * Base   -> <<Half - 1>> \o BigEndian(n, 8)

Length(n) ==
    CASE n < Half - 2       -> <<n>>
      [] n >= Half - 2 /\ n < Base * Base -> <<Half - 2>> \o BigEndian(n, 2)
      [] n >= Base * Base   -> <<Half - 1>> \o BigEndian(n, 8)

TextFrame(payload) == <<Half + Text>> \o Length(Len(payload)) \o payload

ControlFrame(op, payload) == <<Half + op, Len(payload) % Half>> \o payload

Masked(payload, mask) == [i \in DOMAIN payload |-> ByteXor(payload[i], mask[1 + ((i - 1) % 4)])]

\* What the browser sends: its header, mask included, and its masked payload.
ClientHeader(f) ==
    LET length == Length(Len(f.payload))
    IN  <<Half + f.op, Head(length) + (IF f.mask = <<>> THEN 0 ELSE Half)>> \o Tail(length) \o f.mask
ClientPayload(f) == IF f.mask = <<>> THEN f.payload ELSE Masked(f.payload, f.mask)

Singly(bytes) == [i \in DOMAIN bytes |-> <<bytes[i]>>]
Pieces(f) ==
    (IF Segmented THEN Singly(ClientHeader(f)) ELSE <<ClientHeader(f)>>) \o Singly(ClientPayload(f))

-----------------------------------------------------------------------------
(* The browser and the network.                                            *)

\* A browser speaks when it has been answered; after its close frame it sends
\* nothing.
Speak(f) ==
    /\ at # "handshaking"
    /\ Len(said) < MaxSaid
    /\ \A i \in DOMAIN said : said[i].op # Close
    /\ said' = Append(said, f)
    /\ transit' = transit \o Pieces(f)
    /\ UNCHANGED <<key, arrived, endpoint>>

Arrive ==
    /\ transit # <<>>
    /\ arrived' = arrived \o Head(transit)
    /\ transit' = Tail(transit)
    /\ UNCHANGED <<key, said, endpoint>>

-----------------------------------------------------------------------------
(* poll_client_frame.                                                      *)

\* recv(): k bytes are asked for; the ones that have not arrived keep what the
\* buffer holds.
Least(a, b) == IF a < b THEN a ELSE b
Taken(k, held) == [i \in 1 .. k |-> IF i <= Len(arrived) THEN arrived[i] ELSE held]
Left(k) == SubSeq(arrived, Least(k, Len(arrived)) + 1, Len(arrived))

FindNothing ==
    /\ at = "polling"
    /\ arrived = <<>>
    /\ at' = "texting"
    /\ UNCHANGED <<key, browser, arrived, frame, out, meant, stream, texts>>

AfterLength(masked) == IF masked THEN "mask" ELSE "payload"

ReadHeader ==
    /\ at = "polling"
    /\ arrived # <<>>
    /\ \E held \in Junk :
          LET header == Taken(2, held)
              masked == header[2] >= Half
              length == header[2] % Half
          IN  /\ frame' = [NoFrame EXCEPT !.op = header[1] % Half, !.length = length, !.masked = masked]
              /\ at' = IF length >= Half - 2 THEN "length" ELSE AfterLength(masked)
    /\ arrived' = Left(2)
    /\ UNCHANGED <<key, browser, out, meant, stream, texts>>

ReadLength ==
    LET k == IF frame.length = Half - 2 THEN 2 ELSE 8
    IN  /\ at = "length"
        /\ arrived # <<>>
        /\ \E held \in Junk : frame' = [frame EXCEPT !.length = Number(Taken(k, held))]
        /\ arrived' = Left(k)
        /\ at' = AfterLength(frame.masked)
        /\ UNCHANGED <<key, browser, out, meant, stream, texts>>

ReadMask ==
    /\ at = "mask"
    /\ arrived # <<>>
    /\ frame' = [frame EXCEPT !.mask = Taken(4, 0)]
    /\ arrived' = Left(4)
    /\ at' = "payload"
    /\ UNCHANGED <<key, browser, out, meant, stream, texts>>

Missing == frame.length - Len(frame.payload)

Receive(k) ==
    /\ at = "payload"
    /\ Missing > 0
    /\ arrived # <<>>
    /\ frame' = [frame EXCEPT !.payload = @ \o Taken(k, 0)]
    /\ arrived' = Left(k)
    /\ UNCHANGED <<key, browser, at, out, meant, stream, texts>>

\* Takes what one recv() returns for the whole payload.
ReadPayloadOnce == Receive(Missing)

ReadPayload == Receive(Least(Missing, Len(arrived)))

\* The server begins to send the bytes of a frame, and goes on at `next'.
Begin(op, payload, bytes, next) ==
    /\ out' = bytes
    /\ meant' = Append(meant, [op |-> op, payload |-> payload])
    /\ at' = next
    /\ frame' = NoFrame
    /\ UNCHANGED <<key, browser, arrived, stream>>

Answer(op, payload, next) == Begin(op, payload, ControlFrame(op, payload), next) /\ UNCHANGED texts

Unmasked == IF frame.masked THEN Masked(frame.payload, frame.mask) ELSE frame.payload

Complete == at = "payload" /\ Missing = 0

HandleClose == Complete /\ frame.op = Close /\ Answer(Close, <<>>, "closing")
HandlePing  == Complete /\ frame.op = Ping /\ Answer(Pong, Unmasked, "answering")
Ignore ==
    /\ Complete
    /\ frame.op \notin {Close, Ping}
    /\ at' = "texting"
    /\ frame' = NoFrame
    /\ UNCHANGED <<key, browser, arrived, out, meant, stream, texts>>

-----------------------------------------------------------------------------
(* The rest of client_loop.                                                *)

SendText ==
    /\ at = "texting"
    /\ texts < MaxTexts
    /\ texts' = texts + 1
    /\ \E n \in TextLengths :
          LET payload == [i \in 1 .. n |-> i % Base]
          IN  Begin(Text, payload, TextFrame(payload), "sending")

\* The bound on messages is reached.
OmitText ==
    /\ at = "texting"
    /\ texts = MaxTexts
    /\ at' = "polling"
    /\ UNCHANGED <<key, browser, arrived, frame, out, meant, stream, texts>>

After == [sending |-> "polling", answering |-> "texting", closing |-> "closed"]

\* send_all(): send() takes everything or a part.
SendBytes ==
    /\ at \in DOMAIN After
    /\ \E n \in 1 .. Len(out) :
          /\ SendTakes(n, Len(out))
          /\ stream' = stream \o SubSeq(out, 1, n)
          /\ out' = SubSeq(out, n + 1, Len(out))
          /\ at' = IF n = Len(out) THEN After[at] ELSE at
    /\ UNCHANGED <<key, browser, arrived, frame, meant, texts>>

-----------------------------------------------------------------------------

ConnectionNext ==
    \/ ReadKeyByte \/ Upgrade
    \/ \E f \in ClientFrames : Speak(f)
    \/ Arrive
    \/ FindNothing \/ ReadHeader \/ ReadLength \/ ReadMask \/ ReadPayload
    \/ HandleClose \/ HandlePing \/ Ignore
    \/ SendText \/ OmitText \/ SendBytes

ConnectionSpec == ConnectionInit /\ [][ConnectionNext]_connectionVars

-----------------------------------------------------------------------------
(* What browser and server see of each other.                              *)

\* What the header at the beginning of some bytes says (RFC 6455, 5.2).
HeaderSize(bytes) ==
    LET short == bytes[2] % Half
    IN  CASE short < Half - 2 -> 2 [] short = Half - 2 -> 4 [] short = Half - 1 -> 10
PayloadSize(bytes) ==
    IF HeaderSize(bytes) = 2 THEN bytes[2] % Half ELSE Number(SubSeq(bytes, 3, HeaderSize(bytes)))
FrameSize(bytes) == HeaderSize(bytes) + PayloadSize(bytes)

BeginsWithFrame(bytes) ==
    Len(bytes) >= 2 /\ Len(bytes) >= HeaderSize(bytes) /\ Len(bytes) >= FrameSize(bytes)
FirstFrame(bytes) ==
    [op |-> bytes[1] - Half, payload |-> SubSeq(bytes, HeaderSize(bytes) + 1, FrameSize(bytes))]

\* The complete frames that the bytes are; the server's are final and not
\* masked.
LastBytes(bytes, n) == SubSeq(bytes, Len(bytes) - n + 1, Len(bytes))
Decoded(bytes) ==
    LET decoded[n \in 0 .. Len(bytes)] ==
            LET ahead == LastBytes(bytes, n)
            IN  IF BeginsWithFrame(ahead)
                THEN <<FirstFrame(ahead)>> \o decoded[n - FrameSize(ahead)]
                ELSE <<>>
    IN  decoded[Len(bytes)]

\* What the browser reads of the stream is what the server meant to send
\* (send_text_frame, send_control_frame, telemetry_server.cpp:194-221), frame
\* for frame, at every length at which the encoding changes, however send()
\* cuts the frames up; between two frames nothing is owed.
BrowserReadsWhatIsMeant ==
    LET read == Decoded(stream)
    IN  /\ IsPrefix(read, meant)
        /\ at \notin DOMAIN After => read = meant

\* What the frames of one kind carry.
Payloads(frames, op) ==
    LET found[i \in 0 .. Len(frames)] ==
            IF i = 0 THEN <<>>
            ELSE IF frames[i].op = op THEN Append(found[i - 1], frames[i].payload)
            ELSE found[i - 1]
    IN  found[Len(frames)]

\* poll_client_frame (telemetry_server.cpp:225-227, "answer Ping/Close per
\* RFC 6455"): every ping is answered by a pong with the same payload, in
\* order and once, whatever stands between the pings; when all that was sent
\* has been taken, every ping has its answer; and only a close closes.
PingsAnswered ==
    LET pings == Payloads(said, Ping)
        pongs == Payloads(meant, Pong)
    IN  /\ IsPrefix(pongs, pings)
        /\ at = "polling" /\ arrived = <<>> /\ transit = <<>> => pongs = pings
        /\ at = "closed" => said # <<>> /\ Last(said).op = Close

=============================================================================
