# OpenASLC in TLA+

A verification project for OpenASLC, the software logic controller in `src/`: TLA+ modules
translated from its C++ sources, TLC configurations that check them on small instances, and
theorems about them that TLAPS proves for every value of the constants.

Line numbers below refer to the files under `src/src/` unless a path is given.

## 1. The system

`main` builds one process out of the objects below. Its threads are `main`'s own, the scan thread, the
logger's flush thread, the HTTP library's listener and handlers, the telemetry server's accepting
thread and one thread per connected browser.

| component | state it keeps | operations | threads |
|---|---|---|---|
| `AslcEngine` | `is_running_`, the worker's stop token, the deadline of the next cycle | `start`, `stop`, `run`: read inputs, call back, write outputs, sleep | the scan thread; whoever starts and stops |
| `MemoryMap` | the bytes of `%I`, `%Q`, `%M` behind a reader-writer lock | bit, byte and block access, snapshots | scan thread, telemetry clients |
| `MockDriver` | `mock_inputs_` (no lock), `previous_outputs_` | `set_mock_input_bit`, `read_inputs`, `write_outputs` | HTTP handlers and `main` write, the scan thread reads |
| `LogicProgram`, `LogicRuntime` | rules and the timers inside their condition trees; `current_` behind a reader-writer lock | `from_json`, `execute`; `execute_cycle`, `reload` | scan thread executes, HTTP handlers and `main` reload |
| `RingBufferLogger` | a ring of slots, `head_`, `count_`, `dropped_`; the log file and its backups | `log`, `start`, `stop`, `flush_pending`, rotation | any thread logs; the flush thread, and whoever stops, write |
| `ConfigArchive` | three SQLite tables, one mutex | `commit_config`, `record_deployment`, `get_commit_history`, `get_snapshot` | HTTP handlers |
| `WebServer` | the HTTP server and its thread | `POST /api/deploy`, `GET /api/history`, `POST /api/input`, static files | the library's handler threads |
| `TelemetryServer` | the listening socket, the client threads | accept, handshake, a frame per period to each client, `stop` | an accepting thread, a thread per client |
| `www/app.js` | the last frame it received | shows it, posts inputs and deploys, reconnects | the browser |

How they interact. A cycle of the scan thread copies `mock_inputs_` into `%I`, has the runtime
execute its current program on the memory map, and hands `%Q` to the driver. A deploy is handled on
a thread of the HTTP library: it parses the document, swaps the program in, commits it to the
archive, records the deployment and answers. An input is posted to another handler thread and
written to `mock_inputs_` while the scan thread may be copying it. The telemetry threads take
snapshots of the memory map and send them. Everybody logs.

What is hard about it:

* **Sharing without a lock.** `mock_inputs_` is written and copied with none; a program object is
  shared by `current_` and the scan thread, and its timers are ticked without the lock that guards
  the pointer; `listen_socket_` is overwritten while another thread reads it.
* **Order across locks.** Each of the archive's calls is serialized, but the handler takes the
  mutex anew for each, after a swap under another lock: two deploys interleave.
* **Crashes and partial failure.** Each INSERT is a transaction of its own; the log file's writes
  and renames are not checked; `sqlite3_step` can fail where the code expects a row or none.
* **Time.** The deadline of a cycle advances by a period whatever the cycle took, and timers count
  cycles; wall-clock milliseconds go into primary keys.
* **Stopping.** Each of the four `stop()`s lowers a flag and joins threads that may be in a scan, a
  wait, a write or a blocking socket call.
* **A program's meaning over scans.** Timers inside condition trees must tick in every scan,
  wherever they stand, and rules see what earlier rules of the same scan wrote.

What makes each component correct: scans are atomic and their inputs frozen;
timers are on-delay timers and rungs run in order; no accepted document can make the scan thread
throw; the logger loses only what it counts and writes the rest once and in order; the history is
one chain whose commits have snapshots; what a deploy is answered is true; a written input is
there and comes to be seen; every access to the memory map is one step, and a frame shows outputs of
one moment; every socket is closed by the thread that owns it and `stop()` returns; the two ends of a
WebSocket understand each other; no object is used after `main` has destroyed it.

`PROJECT.json` lists the components with what is modelled of each, and under `hazards` the places
in the code where these properties could break, each with the properties that would notice.

## 2. The modules

| module | models | state and actions in terms of the code |
|---|---|---|
| `LogicInterpreter` | `logic_interpreter.cpp`, the accessors of `memory_map.cpp` | Operators only. `Accepted` is `from_json`; `Values` and `Ticked` are `evaluate` of every node of a condition (`NodeValue` of one, from those of its inputs); `Executed` is `LogicProgram::execute`. The memory map is the set of its bits that are 1; a condition is the list of its nodes in post-order. |
| `ScanEngine` | `aslc_engine.cpp`, `mock_driver.cpp`, `LogicRuntime` | One step of the scan thread is what it does between two points where another thread can interfere: the loop condition, a byte of the input copy, the fetch of the program, each rule, the outputs. `aliased` says that `current_` and the local pointer are one object, so that ticking one ticks the other. |
| `AtomicScan` | what engine and runtime promise together | Inputs, one whole program in a single step, outputs; deploys in between. |
| `ScanEngineRefinement` | that `ScanEngine` implements `AtomicScan` | A scan takes effect when it fetches its program: until the last rule has run, the abstract memory and program are what the remaining rules will leave. |
| `MemoryMap` | `memory_map.cpp` | The eight operations: the check of the range, the lock, byte after byte, the release. A bit is changed by a load and a store of its byte. |
| `AtomicMemory` | what `memory_map.hpp` promises | A call takes effect in one step between call and return, or throws and changes nothing. |
| `ProgramScan` | programs over a history of scans | One action, a whole scan with any inputs, of any accepted document of `Sources`; `bits` is the memory map, and the history of node values is there for the properties. |
| `ScanTiming` | the deadline and `sleep_until` of `AslcEngine::run`, one timer | Time moves by itself, a scan takes any time, a wake-up may be late. The period is `CyclePeriod`, a number of instants. |
| `InputPath` | `POST /api/input`, `set_mock_input_bit`, `read_inputs`, the frames and the page | A write is a load and a store; the copy goes byte by byte; a page shows the last frame it got. |
| `RingBufferLogger` | `ring_buffer_logger.cpp` | One action per critical section and per file operation; two threads can be in `flush_pending`. Entries are their numbers. |
| `DropOldestLog` | what `log` promises | A queue that drops its oldest entry. |
| `ConfigArchive` | `config_archive.cpp` | The three tables; `commit_config` as HEAD, INSERT, INSERT; failing statements; crashes. The wall clock may show anything when it is read: nothing makes it move forwards only. |
| `DeployPipeline` | the deploy and history handlers, the runtime's pointer, `main`'s reload | Instantiates `ConfigArchive`: its actions are the handler's, with the handler's own position, request and answer. |
| `TelemetryServer` | `telemetry_server.cpp` | The steps of `stop`, of `accept_loop`, of `client_loop`; sockets and kernel buffers; peers that do what they like. |
| `TelemetryFrames` | `MemoryMap` with its users: `run`'s latching of the inputs, `LogicProgram::execute`'s writes, `client_loop`'s snapshots | The threads' calls go through the actions of `MemoryMap`. The values are stamps: the inputs of scan i are the bit i, the n-th rule execution sets the bit n of its output, so that a frame tells when it was. |
| `WebSocketFrames` | the key of the handshake, `send_text_frame`, `send_control_frame`, `send_all`, `poll_client_frame` | One connection as two streams of bytes. A step of the server is one `recv()` or one `send()`. |
| `Digests` | `sha1`, `base64_encode`, `sha256_hex` | Operators only; a loop is `Repeated`. A word is the set of its 1 bits: `&` and `\|` are `\cap` and `\cup`, a rotation moves every position. |
| `DigestStandards` | RFC 3174, RFC 4648, FIPS 180-4 | The same functions as the standards define them, in another form than the code's; `Value` is the number a word stands for. |
| `DigestConstants` | the constants of both hashes | The same as roots of primes, whose first bits they are. For TLC only. |
| `Handshake` | what `accept_loop` hashes | `WebSocketFrames` with the bytes of the key that have been read. |
| `Application` | `main.cpp`, with `start` and `stop` of the four servants | `main` up to its shutdown is one action per statement that matters; the shutdown is a list of what is left to do (lower a flag, join, destroy), which depends on the way out. |
| `LogicDocuments`, `MCScanEngine`, `MCProgramScan`, `MCMemoryMap`, `MCTelemetryFrames`, `MCWebSocketFrames` | -- | Builders for documents, and the values of the runs that need definitions. The other runs need none: their `.cfg` files instantiate the component itself. |
| `...Proofs` | -- | Inductive invariants and theorems, one module per component; `TelemetryServerProofs` has those of `WebSocketFrames` too, which models the same source file, `ScanEngineProofs` those of the driver in `InputPath`, and `DigestProofs` those of `Digests` and `Handshake`. |

`ScanEngine` and `ProgramScan` use the same operators of `LogicInterpreter`, so a mistake in one of
them shows in both; `DeployPipeline` uses the actions of `ConfigArchive` unchanged.
That a call of the memory map is a single step of `ScanEngine`, `InputPath` and `ProgramScan` is what
`MemoryMap` and its theorem justify. `Application` reduces each servant to its flag, its thread and
what the thread uses; the modules of their own have the rest. `ScanEngine`'s `SetInput` stores any
value in a byte: the outcomes of the races that `InputPath` has in detail.

Some of the definitions come in two forms, `Join` and `JoinWithoutWaiting` for instance. The second
is a plausible mistake in the code the first translates, placed just before it; no specification
uses it. `PROJECT.json` (`mutants`) says which property notices it when it is put in place of the
first.

## 3. The runs

Every property names the code behaviour it is about where it is defined.

| run | what it asks | instance and why it is enough |
|---|---|---|
| `scan_engine` | `ImplementsAtomicScan` (each scan is one program on one set of latched inputs, timers and outputs included), `InputsFrozen`, `ReferencesInRange`, `OneScanThread`, and under fairness `StopReturns` and `DeployedProgramRuns` | One byte of inputs and one of outputs, two bits each. Three good documents (a timer and a rule chained to it; the same output driven the other way, with a self-holding rung; no rules) and seven bad ones, one for each way `from_json` refuses. Two rules are enough for a swap in the middle of a scan, and a preset of two cycles for a timer that is half-way when it happens. |
| `program_scan` | `OnDelay`, `RungOrder` | Five scans with any inputs: long enough for every timer to be started, reset before it expires, and started again until it does. Timers under AND after a sibling that may be false, in series, with presets of 0, a multiple of the period and between two; rungs that chain both ways and share an output. |
| `scan_timing` | `NoMoreCyclesThanTime`, `TimerWaits` | A period of 2, a preset of 5 (between two multiples) and ten instants: room for a scan that overruns by several periods, the burst that follows, and a restart. |
| `input_path` | `WritesHold`, `BytesFresh`, and under fairness `ShownInTheEnd` | Two handlers, two bytes of two bits, three writes: two that overlap and one after them. A bit number one past the range of its type is narrowed; a byte and a bit past the end are dropped. One page and one lost connection. |
| `ring_buffer` | `Accounting`, `OrderPreserved`, `RotationKeepsNewest`, `StopFlushes`, `ImplementsDropOldestLog`, and under fairness `EntryFlushed` and `StopReturns` | Three slots, files of two entries, two backups, seven entries: the ring wraps twice and overflows, and the oldest backup is discarded. Any write may be cut short and any rename fail; `faulted` remembers it, for the properties that hold of a working disk only. |
| `config_archive` | `LinearHistory`, `ReturnedCommitStored`, `ListedLinked`, `NoneListedEarly` | Two clients, three commits, three readings of the clock, so that ids clash and time goes backwards. Any INSERT or HEAD query may fail, a listing may end early, and the process may die between any two statements. |
| `deploy_pipeline` | `AnswersAccurate`, `DeploymentsBacked`, `UsesArchiveAsSpecified`, and under fairness `RequestAnswered` | Two handler threads, three requests, an accepted document, a refused one and one whose refusal cannot be quoted because it is no UTF-8, three authors of whom one cannot be dumped as JSON. `main` reloads once at any moment. INSERTs and HEAD may fail, and the process may die. The clock stands still, which makes equal requests clash. |
| `telemetry` | `OneOwner`, `StopReleasesAll`, and under fairness `StopReturns` and `PeerAnswered` | Two peers, one being served while the other waits or speaks; room for one unread frame, so that every `send` may have to wait. |
| `telemetry_frames` | `ImplementsAtomicMemory`, `FrameOfOneMoment` | Three scans of a program that drives one output, another, and the first again; a byte of inputs and two of outputs; two clients that begin a frame at any moment, so that two readers share the lock. It has the three calls those threads make (`write_bytes`, `write_bit`, `get_area_snapshot`), none of them out of range. |
| `websocket_frames` | `DigestsAsSpecified`, `BrowserReadsWhatIsMeant`, `PingsAnswered` | What is hashed has 0 to 72 bytes and ends everywhere in one block and at the beginning of a second; that other lengths make no difference is a theorem. At the start (`ASSUME HandshakeAsTested`) every constant is held against the root it is a fraction of, and the handshake of `test_telemetry_server.cpp` is answered as the test expects. Then bytes of four bits (`Half` = 8 for the code's 128), so that the three encodings of a length meet within reach: texts of 0, 5, 6, 255 and 256 bytes stand on both sides of each boundary. Pings with and without payload and mask, texts and a close, three of them in any order; payloads arrive byte by byte, headers whole; `send()` takes all or half (`SendTakes`). Every other length, every other cut, and bytes of any size, are the theorems' matter. |
| `application` | `NothingOutlived`, `LogComplete`, and under fairness `ShutdownEnds` | Two handlers, four requests, every failure of the start, and Enter at any moment after it. |

One more run, `deployment_order`, ends in a violation: section 6.

Six configurations stand beside these for whoever wants to see more (`tlc -config X.cfg M`).
`MemoryMap.cfg` (`MCMemoryMap`, passes) has two threads in any of the eight operations of `MemoryMap`, in
range and past it, under `ImplementsAtomicMemory`, which is a theorem. `OrphanCommit.cfg`
(`ConfigArchive`), `LostInput.cfg` (`InputPath`), `SilentPeer.cfg` (`TelemetryServer`),
`SegmentedHeader.cfg` (`MCWebSocketFrames`) and `CommitAfterSwap.cfg` (`DeployPipeline`) end in the
violations of section 6 of the same names.

**Deadlock** is checked except where the system may stop: `program_scan` (histories end after five
scans), `scan_timing` (time stops at the horizon), the runs of `DeployPipeline` (all requests are
handled), `telemetry_frames` (all scans done and frames sent), `websocket_frames` (the connection is
closed) and `application` (the process has ended).

**Bounds.** `MaxScans`, `MaxFrames`, `LongestKey`, `MaxSaid`, `MaxTexts`, `Horizon`, `MaxRequests`, `MaxLosses`,
`MaxLogged`, `MaxTime`, `MaxCommits` and `MaxDeployed` cap counters that the code lets grow; each is
a guard of the action it caps. `MaxOffset`, `MaxBit`, `Blocks`, `TextLengths` and `ClientFrames` are
what is asked for; offsets are far below the width of `size_t`, and no caller's sum of an offset and
a length wraps around.
`Room` (frames under way or unread) stands for a buffer of the kernel. `Ticked` stops counting once a
timer has expired, which nothing can observe. No bound but `Room` is one of the code's, and no theorem
depends on the value of any of them.

**Fairness.** Assumed of what the operating system or a library runs: the scan thread, the flush
thread, the accepting thread, the client threads, a handler that has a request, a thread inside a
`stop()`. Weak fairness is what a scheduler gives; a thread that waits for a mutex needs no more
where the calls that compete with it are finite in number. The one strong fairness is of a telemetry
thread that waits for the memory map's lock, which is free most of every cycle (`InputPath`). Nothing
makes anybody call `start`, `stop`, a reload or a handler, log, or connect; peers are assumed to send
their request and read only where the constants `Greeters` and `Readers` say so. In `Application`
nothing is assumed of the start: nobody need press Enter, and when the port is taken it is the
library's affair whether `wait_until_ready` returns. The wait of
`flush_loop` ends after 200 ms at the latest, which justifies letting it end at any time.

**What the implementation relations say.** `ScanEngine` implements `AtomicScan` under the mapping of
`ScanEngineRefinement`; `RingBufferLogger` implements `DropOldestLog` with the queue being the
pending slots; `DeployPipeline` implements `ConfigArchive` with its own variables of the same names.
`MemoryMap` implements `AtomicMemory`: a call takes effect when it gets the lock. From then on the
abstract memory has all of a write, and what a read has yet to copy is already known, since nobody can
write.

## 4. The proofs

All theorems are of the specifications the runs check, for all values of the constants that satisfy
the named assumptions (`SizesAssumption`, `DocumentsAssumption`, `SourcesAssumption`,
`TimingAssumption`, `InputAssumption`, `LoggerAssumption`, `ArchiveAssumption`, `NoCommitAssumption`,
`PipelineAssumption`, `NullCommitAssumption`, `TelemetryAssumption`, `MemoryAssumption`,
`FramesAssumption`, `WebSocketAssumption`, `XorAssumption`, `BrowserAssumption`): sizes are natural numbers or
positive ones, the documents are documents, the null values are none of the others, and the bounds of
`MemoryMap` admit the calls that `TelemetryFrames` makes. Of a connection it is assumed that a byte
has more than four values, that the opcodes fit beside its highest bit and differ, that lengths are
what eight bytes can say, that exclusive or, done twice, does nothing, and that browsers keep control
frames short, as RFC 6455 tells them to. Each theorem follows from an inductive
invariant, which TLC checked on the run's instance before it was proved; the temporal step is
the same everywhere. Those of `WebSocketFrames` (`SentInv`, `HeardInv`) quantify over all sequences of
bytes, which TLC cannot enumerate: of them it has checked what they are for, the two properties.

Two kinds of argument recur. A recursive function (`AfterRules`, `Values`, the concatenation of the
log's files, `Decoded`, `Repeated`) is only known to satisfy its equation once it is shown that some function does, which is
shown by induction over the numbers it is defined on. And where a property speaks of everything
that happened (all scans of a history, all entries in the files), the induction is over that. Both use
`WFMin` and `NatLessThanWellFounded` on a concrete set (`SetInduction`): the least number outside
the set has its predecessor inside.

* **`ScanEngineProofs`**, of `ScanEngine`: `TypeOK`, `ReferencesInRange`, `OneScanThread`,
  `InputsFrozen`. The invariant adds `ThreadInv`: inside `stop()` the flag is down and the thread
  exists. The heart of it is `ParsedProgram` (what `SignalAccepted` lets through refers into the map)
  and `RuleStep` (a rule changes neither its program's shape nor `%I`).
  `ImplementsAtomicScan` (theorem `ScansAreAtomic`): the abstract memory and program are what
  `AfterRules` makes of the rules still to run. Running the first of them in the concrete state takes
  it out of that fold (`RunFirst`, from the fold's equation `AfterRulesDef`), so that the abstract state
  stays as it is; `RunInv` says that the next rule is one of the program's or just past them, and that, as long as
  nothing has replaced the program, ticking the local one ticks the one in force.
* The same module, of `ScanTiming`: `TimingTypeOK`, `NoMoreCyclesThanTime`, `TimerWaits`. `TimingInv`
  counts: the deadline is the start plus a period per cycle (`DeadlineCounts`), at most one period
  ahead (`DeadlineNear`), and at least a period past the due time of every cycle for each cycle since
  (`DueApart`), restarts included.
* The same module, of `ProgramScan`: `OnDelay` and `RungOrder`, for programs of any number of rules
  and conditions of any depth. `TimersCount` ties a timer's counter to the history: it is the
  number of scans in a row that the timer's input has been true, up to the number that matters. That every timer ticks in every scan, whatever stands beside it, is in the
  equation of `Values`. `RungOrder` is on the last scan of the history, and follows from what
  `AfterRules` does to a bit: the last rule that drives it decides it.
* The same module, of `InputPath`: `PathTypeOK`, `WritesHold`, `BytesFresh`. A handler that has read a byte
  nobody else is writing knows what the byte still holds, and is alone (`OneWriterPerByte`); the bytes
  copied so far are among those the driver has had since the copy began (`CopyInv`).
* **`RingBufferLoggerProofs`**: `TypeOK`, `Accounting`, `OneWriter`, `StopFlushes`,
  `ImplementsDropOldestLog`. `RingInv` says what each slot between the oldest and `head_` holds, in
  the arithmetic of the wrap (lemmas `Wrap`, `SlotAt`, `LogRing`); `ThreadInv` and `DrainedInv` say
  which thread can hold entries and that they are older than the ring's. The refinement follows from
  `RingInv`: the pending slots are consecutive numbers, and `log` adds the next.
  `OrderPreserved` (`OrderIsKept`) adds `OrderInv`: every file is increasing, an older backup is below
  a newer one, the backups below the file, the file below what was drained, and all of it at most
  the last entry taken from the ring. With a failing disk too: a rename that fails
  loses entries and never puts a file out of place.
  `RotationKeepsNewest` (`NewestAreKept`) adds `KeptInv`, of a disk that works: the backups are full
  and without gaps, what is retained is the end of what was written, and something was discarded only
  when at least `MaxBackups * MaxFileEntries` entries are kept.
* **`ConfigArchiveProofs`**: `TypeOK`, `LinearHistory`, `ReturnedCommitStored`, `ListedLinked`,
  `NoneListedEarly`. `DraftInv` says why the mutex is enough: between HEAD and its INSERT the parent
  a client read is still HEAD. Where HEAD queries can fail, `LinearHistory` lets the row have no
  parent; without `"head"` among the `Faults` it says that the history is one chain.
* **`DeployPipelineProofs`**: `TypeOK`, `DeploymentsBacked`, `AnswersAccurate`, and
  `UsesArchiveAsSpecified` by showing for each action that the archive takes one of its own steps or
  none. `InsertedInv`: a commit row belongs to the one thread that inserted it, which has not recorded
  it yet. `AnswerInv` adds for `AnswersAccurate` what a handler carries from call to call: its draft
  has the payload of its request, an answer of 200 has its rows, and only accepted payloads get as far
  as the archive. `PipelineKeepsHistory` takes the theorems of `ConfigArchive` over: the four
  properties of the archive hold of the tables that the handlers fill.
* **`TelemetryServerProofs`**: `TypeOK`, `OneOwner`, `StopReleasesAll`. The invariant ties the
  kernel's socket and the accepting thread to how far `stop()` has come (`ListenerOpen`,
  `AccepterExists`) and says that a connection has one thread at a time (`OneThread`).
* The same module, of `WebSocketFrames`: `BrowserReadsWhatIsMeant` and `PingsAnswered`, for bytes of any
  size, frames of every length a header can state, any number of them, and whatever part of a frame each
  `send()` takes. `SentInv`: what has been
  sent is the encodings of the frames that were meant, one after the other, and perhaps a part of one
  more. An encoding decodes to what was meant whatever follows it, and a part of one decodes to nothing;
  that is the arithmetic of the three forms of a length (`BigEndian` undone by `Number`).
  `HeardInv` speaks of one tape of all the bytes the browser has said: where each frame starts on it,
  where each piece under way ends, how far the server has received and how many frames it has taken.
  What `poll_client_frame` knows is then the beginning of the frame it is in, and the pongs are the
  pings it has taken. The pong of a ping has the same length, and `ControlFrame` has a single byte
  for it: this is why the first theorem needs the second's invariant (`ShortPing`).
  Both hold of headers that arrive whole (`~ Segmented`), where the payloads come byte by byte; for
  headers in pieces `PingsAnswered` is false, as `SegmentedHeader` shows (section 6).
  `ConnectionIsTyped` needs no such condition.
* **`DigestProofs`**: `AsSpecified` of every sequence of bytes (`DigestsMatchStandards`), from which
  `DigestsAsSpecified` follows whatever is hashed (`HandshakesAreAnswered`); and that `++`, on which code
  and standards are both built, is the addition modulo 2^32 of the numbers the words stand for
  (`AdditionWraps`: what the higher bits of two words and the carry into them add up to is twice what the
  bits above them do). A loop is followed in a function of the number of steps taken (`Loop`), once for
  the code and once for the standard; then the two functions are compared step by step.
  - The rounds: sums are taken in another order than the standards write them, and addition is
    associative because at each bit the two carries of one order are as many as those of the other
    (`AddAssociates`); `&`, `|` and `^` give choice, majority and parity (`ChooseIs`, `MajorityIs`,
    `ParityIs`). RFC 3174's second method keeps 16 words and rewrites one in each round: at every
    round they are the last 16 of the code's 80 (`Keeps`).
  - The padding: the code pads by bytes until the remainder is 56, the standards by bits. `PaddedIs` says
    what each byte is, `PaddedBits` that its bits are those of the standard, and `BlocksAre` that the words
    of each block are the same.
  - Base64: `LettersAre` says which bits of which triple each letter is, and `Base64Is` that putting four
    letters together and cutting them into bytes returns the message, for all three remainders.
  - The bytes of the digest are its words (`ByteOfIs`, `BytesOfIs`), so that decoding the answer to a
    handshake gives the digest.
* **`MemoryMapProofs`**: `ImplementsAtomicMemory`, for any number of threads, each in any of the eight
  operations, and areas of any size (`MemoryIsAtomic`, of `MemoryMap`'s own specification), and for
  the scan thread and the telemetry threads together (`FramesReadAtomically`), whose calls are among
  those (`UsersStep`; that a rule's bit is within the bounds is `ExecutionInBounds`).
  The invariant says who has the lock (nobody reads while a thread has it to itself, and a thread is
  between its bytes only if it has it), and what a call under way has done so far: the bytes it read
  are those of the memory, the byte a `write_bit` has loaded is still there.
  `FrameOfOneMoment` (theorem `FramesAreOfOneMoment`) adds `FramesInv`: the output area is that of the
  last execution that stored its byte (`LastStored`), the inputs it holds were latched no later, and what
  a client copies stays as it is while the client is between its bytes. A client's first snapshot then
  bounds its second from below.
* **`ApplicationProofs`**: `NothingOutlived`, `LogComplete`, for any number of handlers. `AppInv`
  reads what is left of the shutdown's list: the thread of a servant has what it needs (`Alive`)
  because its join comes before the destruction of anything it uses (`JoinedInTime`), and in which
  parts of `main` a list exists at all (`Stages`); a handler is busy only while the web server's thread
  runs (`Busy`); on the way out the ring is empty, or the join of the logger, with its last drain, is still on the
  list, after that of the handlers that may log (`Logged`).

`TypeOK` and `OneWriter` (no two threads in the log file at a time) are no properties of the runs:
they were checked on the way, and are proved.

## 5. Only model-checked

* Liveness under fairness, which the prover cannot do: `StopReturns`, `DeployedProgramRuns`,
  `ShownInTheEnd`, `EntryFlushed`, `RequestAnswered`, `PeerAnswered`, `ShutdownEnds`.
* `HandshakeAsTested`, which TLC evaluates before the run `websocket_frames` and no proof uses: that
  the constants of the hashes are the roots they should be, and that the handshake of the test has the
  answer the test expects, are computations with given numbers and no statement about every value of
  anything. The theorems about digests take the constants from the code on both sides, which is why
  this one is needed beside them.

## 6. Where the code and its documentation part

Six configurations refute a statement of the repository. The first is a run, and `PROJECT.json` quotes
the statement under `findings`; the others are in the files named at the end of section 3.

* `deployment_order`: two deploys swap in one order and are recorded in the other, and the last row
  of `deployments` names a program that does not run (`web_server.cpp:66-81`, against
  `config_archive.hpp:53`).
* `OrphanCommit`: a crash between the two INSERTs of `commit_config` leaves a commit without a
  snapshot (`config_archive.cpp:193-234`, against `config_archive.hpp:47-48`).
* `LostInput`: two requests for different bits of one byte are both answered `{"ok":true}` and one
  is undone by the other (`mock_driver.cpp:40-44`, against `test_mock_driver.cpp:15-35`).
* `SilentPeer`: a peer that connects and sends nothing keeps the accepting thread in `recv()` and
  `stop()` in its join (`telemetry_server.cpp:156`, against `:385-387`).
* `SegmentedHeader`: `recv()` is asked for the two header bytes of a frame and may return one; the
  other is read uninitialised, and a ping goes unanswered (`telemetry_server.cpp:239`, against
  `:225-226`). The lengths and the mask are read likewise.
* `CommitAfterSwap`: the handler swaps before it commits, so that a program may run that is in no
  commit yet, or never will be (`web_server.cpp:66-80`, against `Concepts/to-do.md:86`). The comment at
  `:70-72` says that this is meant; comment and document disagree.

Others follow from reading the code, and the models contain them; no run is spent on them:

* An error of the HEAD query is taken for an empty table and gives a second root
  (`config_archive.cpp:182`, against `config_archive.hpp:36-38`). It is the fault `"head"`.
* Two equal deploys within a millisecond have one id, and the second is answered 500 though the
  comment at `config_archive.cpp:188-190` says they never collide.
* A program that was replaced before the next scan is in the history though it never ran, against the
  comment at `web_server.cpp:70-72`.
* A rejected body that is no UTF-8 is quoted in the text of its rejection, which cannot be dumped as
  JSON: the answer is 500 instead of 400, and nothing is logged (`web_server.cpp:103-107`).
* After an overrun the engine runs cycles back to back, each counted by the timers as a full period
  (`aslc_engine.cpp:79`); `Concepts/to-do.md:24` speaks of a fixed period. `TimerWaits` says how much
  it can amount to.
* A bit number of 256 becomes bit 0 (`web_server.cpp:151`).
* `%I` may hold a combination of bytes the inputs never had at one time (`mock_driver.cpp:16`);
  `BytesFresh` is what is left of "snapshot".
* A client that stays connected and does not read keeps `send()`, and with it `stop()`, waiting
  (`telemetry_server.cpp:185`): the peers in `Readers` are those that do read.
* `listen_socket_` is written by `stop()` while `accept_loop` may read it (`:389`).

## 7. Not modelled, and why

* The syntax of JSON, its encoding of frames and answers, hexadecimal and the letters of base64;
  static files; the header lines of the upgrade request, which are abstracted to whether they hold a
  key. `ConfigArchive` takes SHA-256 as injective.
* What the HTTP library does between `listen` and `stop`: its thread pool is the handlers of
  `DeployPipeline` and `InputPath`, and its `stop` the one of `Application`.
* Failures of the prepare of a SELECT in `get_commit_history` (it throws, and nothing changes) and in
  `commit_config` (it throws with the mutex, as the failing INSERT in the model does).
* `toggle_mock_input_bit` and `get_current`: no caller outside the tests.
* `setup_realtime_priority`: it changes scheduling only, and its failure is a warning.
* Build, CI and setup scripts; drawing in the page.

## 8. What comes next

1. The page's requests: keeping what a request named besides what it was narrowed to, so that a bit
   number of 256 shows.
2. The upgrade request line by line, with the headers `accept_loop` reads.
