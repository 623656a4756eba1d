------------------------------ MODULE InputPath ------------------------------
(***************************************************************************)
(* The way of an input: POST /api/input (and main's demo) write the bytes  *)
(* of MockDriver::mock_inputs_, the scan thread copies them into %I once   *)
(* per cycle, the telemetry server sends %I to the browsers, which show    *)
(* the last frame they got.  mock_inputs_ has no lock: a write reads the   *)
(* byte and stores it back, and the copy goes byte by byte meanwhile.      *)
(* Requests that are no JSON of the right shape are answered 400 and       *)
(* change nothing; they are left out.                                      *)
(***************************************************************************)
EXTENDS Naturals, Sequences

CONSTANTS
    Handlers,      \* threads that write inputs: the web server's, and main's
    Browsers,      \* connected to the telemetry server
    N,             \* bytes of mock_inputs_ and of %I (512)
    Width,         \* bits of a byte (8)
    Wrap,          \* values of a uint8_t (256)
    Room,          \* bound: frames under way to a browser
    MaxRequests,   \* bound: writes
    MaxLosses      \* bound: lost connections

ASSUME InputAssumption ==
    /\ {N, Width, Wrap, Room} \subseteq Nat \ {0}
    /\ Width <= Wrap
    /\ {MaxRequests, MaxLosses} \subseteq Nat

Bytes == 0 .. N - 1
BitsOfByte == 0 .. Width - 1
Image == [Bytes -> SUBSET BitsOfByte]

VARIABLES
    inputs,        \* mock_inputs_: per byte, the bits that are set
    image,         \* %I
    next,          \* the byte read_inputs copies next; N when it does not
    writer,        \* per handler, what it is writing and where it is
    link,          \* per browser, the frames under way
    shown,         \* per browser, lastFrame.I
    requests,      \* how many writes were asked for
    losses,        \* how many connections were lost
    asked,         \* what the writes that were carried out asked for (history)
    raced,         \* the bytes two handlers wrote at a time (history)
    seen           \* what mock_inputs_ was since the last copy began, until
                   \* it ended (history)

pathHistory == <<asked, raced, seen>>
ui      == <<link, shown, losses>>
pathVars    == <<inputs, image, next, writer, ui, requests, pathHistory>>

Zero == [b \in Bytes |-> {}]
Idle == [at |-> "idle"]
Parsed == [at : {"parsed"}, byte : 0 .. N, bit : 0 .. Wrap - 1, value : BOOLEAN]
Loaded == [at : {"loaded"}, byte : Bytes, bit : BitsOfByte, value : BOOLEAN, old : SUBSET BitsOfByte]

PathInit ==
    /\ inputs = Zero
    /\ image = Zero
    /\ next = N
    /\ writer = [h \in Handlers |-> Idle]
    /\ link = [b \in Browsers |-> <<>>]
    /\ shown = [b \in Browsers |-> Zero]
    /\ requests = 0
    /\ losses = 0
    /\ asked = Zero
    /\ raced = {}
    /\ seen = {Zero}

-----------------------------------------------------------------------------
(* POST /api/input and MockDriver::set_mock_input_bit.                     *)

\* The request is parsed; its bit number is narrowed to a uint8_t.
Receive(h) ==
    /\ writer[h] = Idle
    /\ requests < MaxRequests
    /\ requests' = requests + 1
    /\ \E byte \in 0 .. N, bit \in 0 .. Wrap, value \in BOOLEAN :
          writer' = [writer EXCEPT ![h] =
                        [at |-> "parsed", byte |-> byte, bit |-> bit % Wrap, value |-> value]]
    /\ UNCHANGED <<inputs, image, next, ui, pathHistory>>

InputInRange(w) == w.byte \in Bytes /\ w.bit \in BitsOfByte

\* A write out of range is dropped, and answered like the others.
Ignore(h) ==
    /\ writer[h].at = "parsed"
    /\ ~InputInRange(writer[h])
    /\ writer' = [writer EXCEPT ![h] = Idle]
    /\ UNCHANGED <<inputs, image, next, ui, requests, pathHistory>>

\* mock_inputs_[byte] is read ...
Load(h) ==
    LET w == writer[h] IN
    /\ w.at = "parsed"
    /\ InputInRange(w)
    /\ writer' = [writer EXCEPT ![h] =
                     [at |-> "loaded", byte |-> w.byte, bit |-> w.bit, value |-> w.value,
                      old |-> inputs[w.byte]]]
    /\ raced' = IF \E o \in Handlers : writer[o].at = "loaded" /\ writer[o].byte = w.byte
                THEN raced \cup {w.byte} ELSE raced
    /\ UNCHANGED <<inputs, image, next, ui, requests, asked, seen>>

With(bits, w) == IF w.value THEN bits \cup {w.bit} ELSE bits \ {w.bit}

\* ... and stored back with the bit changed; the request is answered.
StoreOf(h, byte, bits) ==
    /\ inputs' = [inputs EXCEPT ![byte] = bits]
    /\ asked' = [asked EXCEPT ![byte] = With(@, writer[h])]
    /\ seen' = IF next < N THEN seen \cup {inputs'} ELSE seen
    /\ writer' = [writer EXCEPT ![h] = Idle]
    /\ UNCHANGED <<image, next, ui, requests, raced>>

StoreMaskOnly(h) ==
    /\ writer[h].at = "loaded"
    /\ StoreOf(h, writer[h].byte, With({}, writer[h]))

Store(h) ==
    /\ writer[h].at = "loaded"
    /\ StoreOf(h, writer[h].byte, With(writer[h].old, writer[h]))

-----------------------------------------------------------------------------
(* MockDriver::read_inputs in the scan thread.                             *)

BeginCopy ==
    /\ next = N
    /\ next' = 0
    /\ seen' = {inputs}
    /\ UNCHANGED <<inputs, image, writer, ui, requests, asked, raced>>

CopyBut(last) ==
    /\ next < N
    /\ image' = IF next = last THEN image ELSE [image EXCEPT ![next] = inputs[next]]
    /\ next' = next + 1
    /\ UNCHANGED <<inputs, writer, ui, requests, pathHistory>>

CopyOneByteShort == CopyBut(N - 1)
CopyByte == CopyBut(N)

-----------------------------------------------------------------------------
(* TelemetryServer::client_loop and the page.                              *)

\* The snapshot of %I waits for a copy under way; send() waits for room.
SendFrame(b) ==
    /\ next = N
    /\ Len(link[b]) < Room
    /\ link' = [link EXCEPT ![b] = Append(@, image)]
    /\ UNCHANGED <<inputs, image, next, writer, shown, losses, requests, pathHistory>>

Show(b) ==
    /\ link[b] # <<>>
    /\ shown' = [shown EXCEPT ![b] = Head(link[b])]
    /\ link' = [link EXCEPT ![b] = Tail(@)]
    /\ UNCHANGED <<inputs, image, next, writer, losses, requests, pathHistory>>

\* The connection breaks, and the page makes another.
Lose(b) ==
    /\ losses < MaxLosses
    /\ losses' = losses + 1
    /\ link' = [link EXCEPT ![b] = <<>>]
    /\ UNCHANGED <<inputs, image, next, writer, shown, requests, pathHistory>>

-----------------------------------------------------------------------------

Writes(h) == Receive(h) \/ Ignore(h) \/ Load(h) \/ Store(h)
Copies == BeginCopy \/ CopyByte

PathNext ==
    \/ \E h \in Handlers : Writes(h)
    \/ Copies
    \/ \E b \in Browsers : SendFrame(b) \/ Show(b) \/ Lose(b)

PathSpec == PathInit /\ [][PathNext]_pathVars

\* The engine is running and the threads are scheduled; pages read their
\* socket.  A write is made or not.  The lock that keeps a frame from being
\* taken is held for an instant of each cycle: the thread gets it in the end.
FairPathSpec ==
    /\ PathSpec
    /\ WF_pathVars(Copies)
    /\ \A h \in Handlers : WF_pathVars(writer[h] # Idle /\ Writes(h))
    /\ \A b \in Browsers : SF_pathVars(SendFrame(b)) /\ WF_pathVars(Show(b))

-----------------------------------------------------------------------------
(* Properties.                                                             *)

\* Types; the index and the bit number a handler stores at are in range
\* (MockDriver::set_mock_input_bit).
PathTypeOK ==
    /\ inputs \in Image
    /\ image \in Image
    /\ next \in 0 .. N
    /\ writer \in [Handlers -> {Idle} \cup Parsed \cup Loaded]
    /\ asked \in Image
    /\ raced \subseteq Bytes
    /\ link \in [Browsers -> Seq(Image)]
    /\ \A b \in Browsers : Len(link[b]) <= Room
    /\ shown \in [Browsers -> Image]
    /\ requests \in 0 .. MaxRequests
    /\ losses \in 0 .. MaxLosses

\* Writes that do not overlap another write of the same byte are all carried
\* out, whatever is written to other bytes or copied meanwhile
\* (MockDriver::set_mock_input_bit).
WritesHold == \A b \in Bytes \ raced : inputs[b] = asked[b]

\* Once a copy is done, every byte of %I is one the driver had while it was
\* copied: none is left over from an earlier cycle.  No more than that: two
\* bytes may be of different moments, and together what the inputs never
\* were (MockDriver::read_inputs).
BytesFresh == next = N => \A b \in Bytes : image[b] \in {s[b] : s \in seen}

\* What a browser shows is, in the end, what the driver presents: the frames
\* are "the single source of truth" (app.js:75-76) once inputs settle,
\* through lost connections and whatever the page showed before.
ShownInTheEnd == \A b \in Browsers : <>[](shown[b] = inputs)

\* test_mock_driver.cpp:15-35: a bit that was set is set, one that was reset
\* is reset.  Refuted: two requests at a time for different bits of one byte
\* are both answered {"ok":true}, and one of them is undone by the other.
AnsweredWritesHold == inputs = asked

=============================================================================
