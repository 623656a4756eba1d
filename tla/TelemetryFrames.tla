--------------------------- MODULE TelemetryFrames ---------------------------
(***************************************************************************)
(* The memory map between its users: the scan thread, which latches the    *)
(* inputs with one call and writes the coil of every rule with another,    *)
(* and the client_loop of each browser, whose frames hold a snapshot of %I *)
(* and then one of %Q.  All of them go through MemoryMap, byte by byte.    *)
(* The values are stamps: the inputs of scan i are the bit i, and the n-th *)
(* rule execution sets the bit n of the byte it drives, so that an image   *)
(* tells when it was.  (What the rules read changes nothing.)              *)
(***************************************************************************)
EXTENDS MemoryMap

CONSTANTS
    Scanner,     \* the scan thread
    Clients,     \* the threads of the connected browsers
    I, Q,        \* MemoryArea::Input, MemoryArea::Output
    Rules,       \* how many rules the program has
    Coil,        \* per rule, the byte of %Q it drives
    MaxScans,    \* bound: scans
    MaxFrames    \* bound: frames to a client

ASSUME FramesAssumption ==
    /\ Threads = Clients \cup {Scanner} /\ Scanner \notin Clients
    /\ {I, Q} \subseteq Areas /\ I # Q
    /\ {Rules, MaxScans, MaxFrames} \subseteq Nat \ {0}
    /\ Coil \in [1 .. Rules -> 0 .. Size[Q] - 1]
    /\ MaxScans * Rules < Width
    /\ {Size[I], Size[Q]} \subseteq Offsets     \* the bounds of MemoryMap admit
    /\ MaxScans * Rules \in BitIndexes          \* every call that is made here
    /\ {<<{i}>> : i \in 1 .. MaxScans} \subseteq Blocks

VARIABLES
    scan,        \* the number of the scan
    rule,        \* the rule the scan thread executes next; 0 between scans
    asked,       \* per client, how many snapshots of its frame it has asked for
    image,       \* per client, those of them it has got
    sequence,    \* per client, the number of the next frame
    sent         \* per client, the last frame that was sent

mapVars == <<memory, readers, owner, call>>
scanner == <<scan, rule>>
clients == <<asked, image, sequence, sent>>
allVars == <<mapVars, scanner, clients>>

\* The areas a frame shows, in the order in which client_loop() takes them.
OutputsFirst == <<Q, I>>
Snapshots == <<I, Q>>

Blank(a) == [i \in 1 .. Size[a] |-> {}]
Frame(images) == [a \in {I, Q} |-> images[CHOOSE n \in 1 .. 2 : Snapshots[n] = a]]

FramesInit ==
    /\ Init
    /\ scan = 0
    /\ rule = 0
    /\ asked = [c \in Clients |-> 0]
    /\ image = [c \in Clients |-> <<>>]
    /\ sequence = [c \in Clients |-> 0]
    /\ sent = [c \in Clients |-> [a \in {I, Q} |-> Blank(a)]]

-----------------------------------------------------------------------------
(* The scan thread.                                                        *)

ReadInputs ==
    /\ rule = 0
    /\ scan < MaxScans
    /\ Call(Scanner, WriteOf(I, 0, <<{scan + 1}>>))
    /\ scan' = scan + 1
    /\ rule' = 1
    /\ UNCHANGED clients

Execution == (scan - 1) * Rules + rule

ExecuteRule ==
    /\ rule > 0
    /\ Call(Scanner, [op |-> "write_bit", area |-> Q, from |-> Coil[rule],
                      bit |-> Execution, value |-> TRUE])
    /\ rule' = IF rule = Rules THEN 0 ELSE rule + 1
    /\ UNCHANGED <<scan, clients>>

-----------------------------------------------------------------------------
(* client_loop().                                                          *)

Ask(c, n) ==
    /\ Call(c, ReadOf(Snapshots[n], 0, Size[Snapshots[n]]))
    /\ asked' = [asked EXCEPT ![c] = n]
    /\ UNCHANGED <<scanner, sent>>

BeginFrame(c) ==
    /\ asked[c] = 0
    /\ sequence[c] < MaxFrames
    /\ sequence' = [sequence EXCEPT ![c] = @ + 1]
    /\ Ask(c, 1)
    /\ UNCHANGED image

TakeSecond(c) ==
    /\ asked[c] = 1
    /\ Ask(c, 2)
    /\ image' = [image EXCEPT ![c] = <<call[c].result.bytes>>]
    /\ UNCHANGED sequence

Send(c) ==
    /\ asked[c] = 2
    /\ call[c].at = "returned"
    /\ sent' = [sent EXCEPT ![c] = Frame(Append(image[c], call[c].result.bytes))]
    /\ image' = [image EXCEPT ![c] = <<>>]
    /\ asked' = [asked EXCEPT ![c] = 0]
    /\ UNCHANGED <<mapVars, scanner, sequence>>

-----------------------------------------------------------------------------

\* No caller is out of range, so none of their calls throws.
Work(t) == LockShared(t) \/ LockUnique(t) \/ LoadByte(t) \/ StoreByte(t) \/ Return(t)

FramesNext ==
    \/ ReadInputs \/ ExecuteRule
    \/ \E c \in Clients : BeginFrame(c) \/ TakeSecond(c) \/ Send(c)
    \/ \E t \in Threads : Work(t) /\ UNCHANGED <<scanner, clients>>

FramesSpec == FramesInit /\ [][FramesNext]_allVars

-----------------------------------------------------------------------------
(* What a browser may rely on.                                             *)

Executions == 0 .. MaxScans * Rules

\* %Q when execution k is the last that has happened.
OutputsAfter(k) ==
    [i \in 1 .. Size[Q] |-> {n \in 1 .. k : Coil[1 + ((n - 1) % Rules)] = i - 1}]

\* The executions that precede the latching of the inputs of a frame.
Before(inputs) == IF inputs[1] = {} THEN 0 ELSE ((CHOOSE i \in inputs[1] : TRUE) - 1) * Rules

\* The outputs of a frame that client_loop() sends (telemetry_server.cpp:456)
\* are those of one moment of the program's execution, never a mixture of two
\* while write_bit() runs, and that moment is not before the one at which the
\* frame's inputs were latched: a frame shows no effect without its cause.
\* (It may show outputs of a later scan than its inputs.)
FrameOfOneMoment ==
    \A c \in Clients :
        \E k \in Executions : k >= Before(sent[c][I]) /\ sent[c][Q] = OutputsAfter(k)

=============================================================================
