------------------------ MODULE TelemetryServerProofs ------------------------
(***************************************************************************)
(* Threads and sockets of the telemetry server, for any number of peers,   *)
(* whatever they do; then one connection of it, byte by byte, for frames   *)
(* of every length.                                                        *)
(***************************************************************************)
EXTENDS TelemetryServer, DigestProofs

Lively(t) == t \in {"looping", "polling", "sending"}

\* The kernel listens from start() until stop() closes the socket, and only
\* then does a connection wait.
ListenerOpen ==
    /\ listening <=> (running \/ control = "lowered")
    /\ \A p \in Peers : sock[p] = "backlog" => listening

\* The accepting thread exists from start() until stop() has joined it.
AccepterExists ==
    /\ running => control = "idle"
    /\ accepter = "none" <=> (control = "clearing" \/ (control = "idle" /\ ~running))

\* A connection has one thread at a time, and one that was not made has no
\* socket.
OneThread ==
    \A p \in Peers :
        /\ Lively(thread[p]) => serving # p
        /\ peer[p] = "away" => sock[p] = "none"

NobodyLeft == control = "idle" /\ ~running => \A p \in Peers : ~Lively(thread[p])

\* OneOwner, a peer at a time.
Owned == \A p \in Peers : (sock[p] = "open") <=> (Lively(thread[p]) \/ serving = p)

TelemetryInv ==
    /\ TypeOK
    /\ Owned
    /\ ListenerOpen
    /\ AccepterExists
    /\ OneThread
    /\ NobodyLeft

-----------------------------------------------------------------------------

LEMMA InitTelemetry == Init => TelemetryInv
<1> SUFFICES ASSUME Init PROVE TelemetryInv
  OBVIOUS
<1> USE TelemetryAssumption DEF Init
<1>1. TypeOK
  <2>1. {running, listening, stored, selected} \subseteq BOOLEAN
    OBVIOUS
  <2>2. accepter = "none" /\ serving = None
    OBVIOUS
  <2>3. /\ thread \in [Peers -> {"none"}] /\ sock \in [Peers -> {"none"}]
        /\ peer \in [Peers -> {"away"}] /\ request \in [Peers -> {"none"}]
        /\ inbox \in [Peers -> {"none"}] /\ unread \in [Peers -> 0 .. Room]
    OBVIOUS
  <2> QED  BY <2>1, <2>2, <2>3 DEF TypeOK
<1>2. Owned /\ OneThread /\ NobodyLeft
  BY DEF Owned, OneThread, NobodyLeft, Lively
<1>3. ListenerOpen /\ AccepterExists
  <2>1. ~running /\ ~listening
    OBVIOUS
  <2> QED  BY <2>1 DEF ListenerOpen, AccepterExists
<1> QED  BY <1>1, <1>2, <1>3 DEF TelemetryInv

\* A frame fits where there is room, and one that was read leaves room.
LEMMA RoomLeft ==
    ASSUME NEW u \in [Peers -> 0 .. Room], NEW p \in Peers
    PROVE  /\ u[p] < Room => [u EXCEPT ![p] = @ + 1] \in [Peers -> 0 .. Room]
           /\ u[p] > 0 => [u EXCEPT ![p] = @ - 1] \in [Peers -> 0 .. Room]
<1>1. u[p] \in 0 .. Room
  OBVIOUS
<1>2. u[p] < Room => u[p] + 1 \in 0 .. Room
  BY <1>1, TelemetryAssumption
<1>3. u[p] > 0 => u[p] - 1 \in 0 .. Room
  BY <1>1, TelemetryAssumption
<1> QED  BY <1>2, <1>3

\* start() and stop() preserve the invariant.
LEMMA ControlStep ==
    ASSUME TelemetryInv, Start \/ Stopping
    PROVE  TelemetryInv'
<1> USE TelemetryAssumption DEF TelemetryInv, TypeOK, Owned, ListenerOpen, AccepterExists,
        OneThread, NobodyLeft, Lively, wire
<1>1. CASE Start
  BY <1>1 DEF Start
<1>2. CASE BeginStop
  BY <1>2 DEF BeginStop
<1>3. CASE CloseListener
  BY <1>3 DEF CloseListener
<1>4. CASE ForgetListener
  BY <1>4 DEF ForgetListener
<1>5. CASE JoinAccepter
  BY <1>5 DEF JoinAccepter
<1>6. CASE JoinClients
  BY <1>6 DEF JoinClients, Live
<1> QED  BY <1>1, <1>2, <1>3, <1>4, <1>5, <1>6 DEF Stopping

\* So does the accepting thread.
LEMMA AcceptStep ==
    ASSUME TelemetryInv, Accepting
    PROVE  TelemetryInv'
<1> USE TelemetryAssumption DEF TelemetryInv, TypeOK, Owned, ListenerOpen, AccepterExists,
        OneThread, NobodyLeft, Lively, wire
<1>1. CASE CheckRunning
  BY <1>1 DEF CheckRunning
<1>2. CASE ReadListener
  BY <1>2 DEF ReadListener
<1>3. CASE SelectNothing
  BY <1>3 DEF SelectNothing
<1>4. CASE SelectReady
  BY <1>4 DEF SelectReady
<1>5. CASE Accept
  <2> USE <1>5 DEF Accept
  <2>1. CASE Pending = {}
    BY <2>1
  <2>2. CASE Pending # {}
    <3>1. PICK p \in Pending :
             \/ /\ running
                /\ accepter' = "greeting"
                /\ serving' = p
                /\ sock' = [sock EXCEPT ![p] = "open"]
             \/ /\ ~running
                /\ accepter' = "ended"
                /\ sock' = [sock EXCEPT ![p] = "closed"]
                /\ UNCHANGED serving
      BY <2>2
    <3>2. p \in Peers /\ sock[p] = "backlog" /\ serving = None
      BY <3>1 DEF Pending
    <3>3. ~Lively(thread[p]) /\ peer[p] # "away"
      BY <3>2
    <3>4. TypeOK'
      BY <3>1, <3>2
    <3>5. Owned' /\ OneThread'
      <4>1. CASE running
        <5>1. /\ sock' = [sock EXCEPT ![p] = "open"] /\ serving' = p
              /\ UNCHANGED <<thread, peer>>
          BY <3>1, <4>1
        <5>2. Owned'
          BY <3>2, <3>3, <5>1
        <5>3. OneThread'
          BY <3>2, <3>3, <5>1
        <5> QED  BY <5>2, <5>3
      <4>2. CASE ~running
        <5>1. sock' = [sock EXCEPT ![p] = "closed"] /\ UNCHANGED <<serving, thread, peer>>
          BY <3>1, <4>2
        <5> QED  BY <3>2, <3>3, <5>1
      <4> QED  BY <4>1, <4>2
    <3>6. ListenerOpen' /\ AccepterExists' /\ NobodyLeft'
      BY <3>1, <3>2
    <3> QED  BY <3>4, <3>5, <3>6
  <2> QED  BY <2>1, <2>2
<1>6. CASE ReadKey
  BY <1>6 DEF ReadKey
<1>7. CASE ReadNoKey
  BY <1>7 DEF ReadNoKey, NoKey, TurnAway
<1>8. CASE Welcome
  BY <1>8 DEF Welcome
<1>9. CASE AnswerFails
  BY <1>9 DEF AnswerFails, TurnAway
<1> QED  BY <1>1, <1>2, <1>3, <1>4, <1>5, <1>6, <1>7, <1>8, <1>9 DEF Accepting

\* And a client's thread.
LEMMA ServeStep ==
    ASSUME TelemetryInv, NEW q \in Peers, Serving(q)
    PROVE  TelemetryInv'
<1> USE TelemetryAssumption DEF TelemetryInv, TypeOK, Owned, ListenerOpen, AccepterExists,
        OneThread, NobodyLeft, Lively, rest, MoveOn, End
<1>1. CASE LoopOrEnd(q)
  <2>1. CASE running
    BY <1>1, <2>1 DEF LoopOrEnd
  <2>2. CASE ~running
    <3>1. /\ thread' = [thread EXCEPT ![q] = "ended"]
          /\ sock' = [sock EXCEPT ![q] = "closed"]
          /\ UNCHANGED <<rest, inbox, unread>>
      BY <1>1, <2>2 DEF LoopOrEnd
    <3>2. serving # q /\ sock[q] = "open" /\ peer[q] # "away"
      BY <1>1 DEF LoopOrEnd
    <3>3. TypeOK'
      BY <3>1
    <3>4. Owned'
      BY <3>1, <3>2
    <3>5. OneThread' /\ NobodyLeft'
      <4>1. OneThread'
        BY <3>1, <3>2
      <4>2. NobodyLeft'
        BY <3>1
      <4> QED  BY <4>1, <4>2
    <3>6. ListenerOpen' /\ AccepterExists'
      BY <3>1
    <3> QED  BY <3>3, <3>4, <3>5, <3>6
  <2> QED  BY <2>1, <2>2
<1>2. CASE PollNothing(q)
  BY <1>2 DEF PollNothing
<1>3. CASE PollData(q)
  BY <1>3 DEF PollData
<1>4. CASE PollAnswered(q)
  <2> USE <1>4 DEF PollAnswered
  <2>1. unread' \in [Peers -> 0 .. Room]
    BY RoomLeft
  <2>2. inbox' \in [Peers -> {"none", "data", "half", "ping", "close"}]
    OBVIOUS
  <2>3. CASE MoveOn(q, "sending") /\ UNCHANGED sock
    BY <2>1, <2>2, <2>3
  <2>4. CASE End(q)
    BY <2>1, <2>2, <2>4
  <2> QED  BY <2>3, <2>4
<1>5. CASE PollClosed(q)
  BY <1>5 DEF PollClosed
<1>6. CASE Send(q)
  <2>1. unread' \in [Peers -> 0 .. Room]
    BY <1>6, RoomLeft DEF Send
  <2> QED  BY <1>6, <2>1 DEF Send
<1>7. CASE SendFails(q)
  BY <1>7 DEF SendFails
<1> QED  BY <1>1, <1>2, <1>3, <1>4, <1>5, <1>6, <1>7 DEF Serving

\* And whatever a peer does.
LEMMA PeerStep ==
    ASSUME TelemetryInv, NEW q \in Peers,
           \/ Connect(q) \/ Ask(q) \/ Say(q) \/ FinishFrame(q) \/ ReadFrame(q) \/ Leave(q)
    PROVE  TelemetryInv'
<1> USE TelemetryAssumption DEF TelemetryInv, TypeOK, Owned, ListenerOpen, AccepterExists,
        OneThread, NobodyLeft, Lively, server
<1>1. CASE Connect(q)
  BY <1>1 DEF Connect
<1>2. CASE Ask(q)
  <2>1. PICK r \in {"key", "no_key"} : request' = [request EXCEPT ![q] = r]
    BY <1>2 DEF Ask
  <2> QED  BY <1>2, <2>1 DEF Ask
<1>3. CASE Say(q)
  <2>1. PICK f \in {"data", "half", "ping", "close"} : inbox' = [inbox EXCEPT ![q] = f]
    BY <1>3 DEF Say
  <2> QED  BY <1>3, <2>1 DEF Say
<1>4. CASE FinishFrame(q)
  BY <1>4 DEF FinishFrame
<1>5. CASE ReadFrame(q)
  <2>1. unread' \in [Peers -> 0 .. Room]
    BY <1>5, RoomLeft DEF ReadFrame
  <2> QED  BY <1>5, <2>1 DEF ReadFrame
<1>6. CASE Leave(q)
  BY <1>6 DEF Leave
<1> QED  BY <1>1, <1>2, <1>3, <1>4, <1>5, <1>6

THEOREM TelemetryInvariant == Spec => []TelemetryInv
<1>1. TelemetryInv /\ [Next]_vars => TelemetryInv'
  <2> SUFFICES ASSUME TelemetryInv, [Next]_vars PROVE TelemetryInv'
    OBVIOUS
  <2>1. CASE UNCHANGED vars
    BY <2>1 DEF vars, server, wire, TelemetryInv, TypeOK, Owned, ListenerOpen,
         AccepterExists, OneThread, NobodyLeft, Lively
  <2> QED
    BY <2>1, ControlStep, AcceptStep, ServeStep, PeerStep DEF Next
<1> QED  BY InitTelemetry, <1>1, PTL DEF Spec

-----------------------------------------------------------------------------

\* Types and the accepting thread's bookkeeping (TelemetryServer::accept_loop).
THEOREM TypeCorrect == Spec => []TypeOK
<1>1. TelemetryInv => TypeOK
  BY DEF TelemetryInv
<1> QED  BY <1>1, TelemetryInvariant, PTL

\* Every open connection is some thread's to close, and no thread uses a
\* closed one (accept_loop, client_loop).
THEOREM SocketsHaveOneOwner == Spec => []OneOwner
<1>1. TelemetryInv => OneOwner
  BY DEF TelemetryInv, OneOwner, Owned, Live, Lively
<1> QED  BY <1>1, TelemetryInvariant, PTL

\* stop() leaves no thread and no connection (TelemetryServer::stop).
THEOREM NothingOutlivesStop == Spec => []StopReleasesAll
<1>1. TelemetryInv => StopReleasesAll
  <2> SUFFICES ASSUME TelemetryInv, control = "idle", ~running
               PROVE  accepter = "none" /\ Live = {}
                      /\ \A p \in Peers : sock[p] \in {"none", "closed"}
    BY DEF StopReleasesAll
  <2> USE DEF TelemetryInv
  <2>1. accepter = "none"
    BY DEF AccepterExists
  <2>2. Live = {}
    BY DEF NobodyLeft, Live, Lively
  <2>3. serving = None
    BY <2>1 DEF TypeOK
  <2>4. \A p \in Peers : sock[p] \notin {"open", "backlog"}
    BY <2>3, TelemetryAssumption DEF Owned, NobodyLeft, ListenerOpen
  <2> QED  BY <2>1, <2>2, <2>4 DEF TypeOK
<1> QED  BY <1>1, TelemetryInvariant, PTL

-----------------------------------------------------------------------------
(* One connection, byte by byte.                                           *)

LEMMA BaseType == Half \in Nat /\ Half > 2 /\ Base \in Nat /\ Base > 5 /\ Base = 2 * Half /\ Byte = 0 .. Base - 1
  BY WebSocketAssumption DEF Base, Byte

LEMMA DivMod ==
    ASSUME NEW n \in Nat
    PROVE  /\ n \div Base \in Nat
           /\ n % Base \in Byte
           /\ n = (n \div Base) * Base + (n % Base)
<1>1. ASSUME NEW b \in Nat, b > 0
      PROVE  n \div b \in Nat /\ n % b \in 0 .. b - 1 /\ n = b * (n \div b) + (n % b)
  <2>1. n % b \in 0 .. b - 1
    BY <1>1
  <2>2. n \div b \in Nat
    BY <1>1
  <2>3. n - b * (n \div b) = n % b
    BY <1>1
  <2>4. ASSUME NEW x \in Nat, NEW y \in Nat, n - x = y PROVE n = x + y
    BY <2>4
  <2>5. b * (n \div b) \in Nat
    BY <1>1, <2>2
  <2> QED
    BY <2>1, <2>2, <2>3, <2>4, <2>5
<1>2. ASSUME NEW b \in Nat, NEW q \in Nat PROVE b * q = q * b
  BY <1>2
<1>3. Base \in Nat /\ Base > 0 /\ Byte = 0 .. Base - 1
  BY BaseType
<1>4. /\ n \div Base \in Nat /\ n % Base \in 0 .. Base - 1
      /\ n = Base * (n \div Base) + (n % Base)
  BY <1>1, <1>3
<1>5. Base * (n \div Base) = (n \div Base) * Base
  BY <1>2, <1>3, <1>4
<1> QED
  BY <1>3, <1>4, <1>5

LEMMA ShiftedDef ==
    ASSUME NEW n \in Nat, NEW k \in Nat
    PROVE  \E f \in [0 .. k -> Nat] :
              /\ f[0] = n
              /\ \A i \in 1 .. k : f[i] = f[i - 1] \div Base
              /\ \A i \in 0 .. k : Shifted(n, i) = f[i]
<1> DEFINE g == [q \in (1 .. k) \X Nat |-> q[2] \div Base]
<1>1. g \in [(1 .. k) \X Nat -> Nat]
  BY DivMod
<1>2. PICK f \in [0 .. k -> Nat] : Computes(f, k, n, 1 .. k, Before1(k), g)
  <2> HIDE DEF g
  <2> QED
    BY <1>1, Predecessors, Recursion
<1>3. /\ f[0] = n
      /\ \A i \in 1 .. k : f[i] = f[i - 1] \div Base
  <2>1. 0 \in 0 .. k /\ 0 \notin 1 .. k
    OBVIOUS
  <2>2. f[0] = n
    BY <1>2, <2>1 DEF Computes
  <2>3. ASSUME NEW i \in 1 .. k PROVE f[i] = f[i - 1] \div Base
    <3>1. i \in 0 .. k /\ i - 1 \in 0 .. k /\ Before1(k)[i] = i - 1
      BY Predecessors
    <3>2. f[i] = g[<<i, f[i - 1]>>]
      BY <1>2, <3>1 DEF Computes
    <3>3. f[i - 1] \in Nat
      BY <3>1
    <3> QED
      BY <3>2, <3>3
  <2> QED
    BY <2>2, <2>3
<1>4. ASSUME NEW m \in 0 .. k PROVE Shifted(n, m) = f[m]
  <2> DEFINE Shift(s, j) == IF j = 0 THEN n ELSE s[j - 1] \div Base
             Solves(s) == s = [j \in 0 .. m |-> Shift(s, j)]
             h == CHOOSE s : Solves(s)
  <2>1. \E s : Solves(s)
    <3> DEFINE s == [j \in 0 .. m |-> f[j]]
    <3>1. ASSUME NEW j \in 0 .. m PROVE s[j] = Shift(s, j)
      <4>1. CASE j = 0
        BY <1>3, <4>1
      <4>2. CASE j # 0
        <5>1. j \in 1 .. k /\ j - 1 \in 0 .. m
          BY <4>2
        <5> QED
          BY <1>3, <4>2, <5>1
      <4> QED
        BY <4>1, <4>2
    <3>2. s = [j \in 0 .. m |-> s[j]]
      OBVIOUS
    <3> HIDE DEF s
    <3>3. Solves(s)
      BY <3>1, <3>2
    <3> QED
      BY <3>3
  <2>2. Solves(h)
    <3> HIDE DEF Solves
    <3> QED
      BY <2>1
  <2>3. Shifted(n, m) = h[m]
    BY DEF Shifted
  <2> HIDE DEF h
  <2>4. \A j \in 0 .. m : h[j] = Shift(h, j)
    BY <2>2
  <2>5. ASSUME NEW j \in 1 .. m, h[j - 1] = f[j - 1] PROVE h[j] = f[j]
    <3>1. j \in 0 .. m /\ j # 0 /\ j \in 1 .. k
      OBVIOUS
    <3>2. h[j] = h[j - 1] \div Base
      BY <2>4, <3>1
    <3> QED
      BY <1>3, <2>5, <3>1, <3>2
  <2>6. h[0] = f[0] /\ m \in Nat
    BY <1>3, <2>4
  <2>7. \A j \in 0 .. m : h[j] = f[j]
    <3> DEFINE T == {j \in 0 .. m : h[j] = f[j]}
    <3>1. 0 \in T /\ \A j \in 1 .. m : j - 1 \in T => j \in T
      BY <2>5, <2>6
    <3> HIDE DEF T
    <3>2. 0 .. m \subseteq T
      BY <2>6, <3>1, UpTo
    <3> QED
      BY <3>2 DEF T
  <2> QED
    BY <2>3, <2>7
<1> QED
  BY <1>3, <1>4

LEMMA NumberDef ==
    ASSUME NEW bytes \in Seq(Byte)
    PROVE  \E f \in [0 .. Len(bytes) -> Nat] :
              /\ f[0] = 0
              /\ \A i \in 1 .. Len(bytes) : f[i] = f[i - 1] * Base + bytes[i]
              /\ Number(bytes) = f[Len(bytes)]
<1> DEFINE k == Len(bytes)
           g == [q \in (1 .. k) \X Nat |-> q[2] * Base + bytes[q[1]]]
           Digit(s, i) == IF i = 0 THEN 0 ELSE s[i - 1] * Base + bytes[i]
           Solves(s) == s = [i \in 0 .. k |-> Digit(s, i)]
           h == CHOOSE s : Solves(s)
<1>1. k \in Nat /\ \A i \in 1 .. k : bytes[i] \in Nat
  BY BaseType
<1>2. g \in [(1 .. k) \X Nat -> Nat]
  <2>1. ASSUME NEW q \in (1 .. k) \X Nat PROVE q[2] * Base + bytes[q[1]] \in Nat
    <3>1. q[2] * Base \in Nat
      BY BaseType
    <3> QED
      BY <1>1, <3>1
  <2> QED
    BY <2>1
<1>3. PICK f \in [0 .. k -> Nat] : Computes(f, k, 0, 1 .. k, Before1(k), g)
  <2> HIDE DEF g, k
  <2> QED
    BY <1>1, <1>2, Predecessors, Recursion
<1>4. f[0] = 0 /\ \A i \in 1 .. k : f[i] = f[i - 1] * Base + bytes[i]
  <2> HIDE DEF k
  <2>1. 0 \in 0 .. k /\ 0 \notin 1 .. k
    BY <1>1
  <2>2. f[0] = 0
    BY <1>3, <2>1 DEF Computes
  <2>3. ASSUME NEW i \in 1 .. k PROVE f[i] = f[i - 1] * Base + bytes[i]
    <3>1. i \in 0 .. k /\ i - 1 \in 0 .. k /\ Before1(k)[i] = i - 1
      BY <1>1, Predecessors
    <3>2. f[i] = g[<<i, f[i - 1]>>]
      BY <1>3, <3>1 DEF Computes
    <3>3. f[i - 1] \in Nat
      BY <3>1
    <3> QED
      BY <3>2, <3>3
  <2> QED
    BY <2>2, <2>3
<1> HIDE DEF k
<1>5. Solves(f)
  <2>1. \A i \in 0 .. k : f[i] = Digit(f, i)
    BY <1>1, <1>4
  <2>2. f = [i \in 0 .. k |-> f[i]]
    OBVIOUS
  <2> HIDE DEF Digit
  <2> QED
    BY <2>1, <2>2
<1>6. Solves(h)
  <2> HIDE DEF Solves
  <2> QED
    BY <1>5
<1>7. Number(bytes) = h[k]
  BY DEF Number, k
<1> HIDE DEF h
<1>8. \A i \in 0 .. k : h[i] = f[i]
  <2>1. \A i \in 0 .. k : h[i] = Digit(h, i)
    BY <1>6
  <2>2. ASSUME NEW i \in 1 .. k, h[i - 1] = f[i - 1] PROVE h[i] = f[i]
    <3>1. i \in 0 .. k /\ i # 0
      BY <1>1
    <3>2. h[i] = h[i - 1] * Base + bytes[i]
      BY <2>1, <3>1
    <3> QED
      BY <1>4, <2>2, <3>2
  <2>3. h[0] = f[0]
    BY <1>1, <1>4, <2>1
  <2> DEFINE T == {i \in 0 .. k : h[i] = f[i]}
  <2>4. 0 \in T /\ \A i \in 1 .. k : i - 1 \in T => i \in T
    BY <1>1, <2>2, <2>3
  <2> HIDE DEF T
  <2>5. 0 .. k \subseteq T
    BY <1>1, <2>4, UpTo
  <2> QED
    BY <2>5 DEF T
<1>9. k \in 0 .. k
  BY <1>1
<1> QED
  BY <1>4, <1>7, <1>8, <1>9 DEF k

-----------------------------------------------------------------------------
(* The length of a frame.                                                  *)

LEMMA NumberOfBigEndian ==
    ASSUME NEW n \in Nat, NEW k \in Nat, Shifted(n, k) = 0
    PROVE  /\ BigEndian(n, k) \in Seq(Byte)
           /\ Len(BigEndian(n, k)) = k
           /\ Number(BigEndian(n, k)) = n
<1> DEFINE b == BigEndian(n, k)
<1>1. PICK s \in [0 .. k -> Nat] :
         /\ s[0] = n
         /\ \A i \in 1 .. k : s[i] = s[i - 1] \div Base
         /\ \A i \in 0 .. k : Shifted(n, i) = s[i]
  BY ShiftedDef
<1>2. \A i \in 1 .. k : k - i \in 0 .. k /\ Shifted(n, k - i) % Base \in Byte
  BY <1>1, DivMod
<1>3. b \in Seq(Byte) /\ Len(b) = k /\ \A i \in 1 .. k : b[i] = s[k - i] % Base
  BY <1>1, <1>2 DEF BigEndian
<1> HIDE DEF b
<1>4. PICK f \in [0 .. k -> Nat] :
         /\ f[0] = 0
         /\ \A i \in 1 .. k : f[i] = f[i - 1] * Base + b[i]
         /\ Number(b) = f[k]
  BY <1>3, NumberDef
<1> DEFINE h == [i \in 0 .. k |-> s[k - i]]
<1>5. f[0] = h[0]
  BY <1>1, <1>4
<1>6. ASSUME NEW i \in 1 .. k, f[i - 1] = h[i - 1] PROVE f[i] = h[i]
  <2>1. i - 1 \in 0 .. k /\ i \in 0 .. k /\ k - (i - 1) = (k - i) + 1 /\ (k - i) + 1 \in 1 .. k
    OBVIOUS
  <2>2. h[i - 1] = s[(k - i) + 1] /\ h[i] = s[k - i] /\ s[k - i] \in Nat
    BY <2>1
  <2> HIDE DEF h
  <2>3. s[(k - i) + 1] = s[k - i] \div Base
    <3>1. ((k - i) + 1) - 1 = k - i
      OBVIOUS
    <3> QED
      BY <1>1, <2>1, <3>1
  <2>4. f[i] = (s[k - i] \div Base) * Base + (s[k - i] % Base)
    BY <1>3, <1>4, <1>6, <2>2, <2>3
  <2> QED
    BY <2>2, <2>4, DivMod
<1>7. \A i \in 0 .. k : f[i] = h[i]
  <2> DEFINE T == {i \in 0 .. k : f[i] = h[i]}
  <2>1. 0 \in T /\ \A i \in 1 .. k : i - 1 \in T => i \in T
    <3> HIDE DEF h
    <3> QED
      BY <1>5, <1>6
  <2> HIDE DEF T
  <2>2. 0 .. k \subseteq T
    BY <2>1, UpTo
  <2> QED
    BY <2>2 DEF T
<1>8. k \in 0 .. k /\ k - k = 0
  OBVIOUS
<1>9. f[k] = n
  BY <1>1, <1>7, <1>8
<1> QED
  BY <1>3, <1>4, <1>9 DEF b

(* What fits into two bytes.                                               *)
LEMMA TwoBytes ==
    ASSUME NEW n \in Nat, n < Base * Base
    PROVE  Shifted(n, 2) = 0
<1>1. PICK s \in [0 .. 2 -> Nat] :
         /\ s[0] = n
         /\ \A i \in 1 .. 2 : s[i] = s[i - 1] \div Base
         /\ \A i \in 0 .. 2 : Shifted(n, i) = s[i]
  <2>1. 2 \in Nat
    OBVIOUS
  <2> QED
    BY <2>1, ShiftedDef
<1>2. ASSUME NEW q \in Nat, NEW r \in Nat, n = q * Base + r PROVE q < Base
  <2> SUFFICES ASSUME q >= Base PROVE FALSE
    BY BaseType
  <2>1. q * Base >= Base * Base
    BY BaseType
  <2>2. q * Base \in Nat /\ Base * Base \in Nat
    BY BaseType
  <2> QED
    BY <1>2, <2>1, <2>2
<1>3. ASSUME NEW m \in Nat, NEW q \in Nat, NEW r \in Nat, m < Base, m = q * Base + r PROVE q = 0
  <2> SUFFICES ASSUME q >= 1 PROVE FALSE
    OBVIOUS
  <2>1. q * Base >= Base /\ q * Base \in Nat
    BY BaseType
  <2> QED
    BY <1>3, <2>1, BaseType
<1>4. s[1] = n \div Base /\ s[2] = s[1] \div Base /\ s[1] \in Nat
  BY <1>1
<1>5. n % Base \in Nat /\ s[1] % Base \in Nat
  BY DivMod, <1>4, BaseType
<1>6. s[1] < Base
  BY <1>2, <1>4, <1>5, DivMod
<1>7. s[2] = 0
  <2>1. s[2] \in Nat /\ s[1] = s[2] * Base + (s[1] % Base)
    BY <1>4, DivMod
  <2> QED
    BY <1>3, <1>4, <1>5, <1>6, <2>1
<1> QED
  BY <1>1, <1>7

(* A length is one byte, announced as itself or as the number of the bytes *)
(* that follow it.                                                         *)
Announced(n, x, ext) ==
    \/ x = n /\ n < Half - 2 /\ ext = <<>>
    \/ x = Half - 2 /\ Len(ext) = 2 /\ Number(ext) = n
    \/ x = Half - 1 /\ Len(ext) = 8 /\ Number(ext) = n

LEMMA LengthForm ==
    ASSUME NEW n \in Lengths
    PROVE  \E x \in 0 .. Half - 1, ext \in Seq(Byte) : Length(n) = <<x>> \o ext /\ Announced(n, x, ext)
<1>1. n \in Nat /\ Shifted(n, 8) = 0 /\ Base * Base \in Nat
  BY BaseType DEF Lengths
<1>2. Half - 2 \in 0 .. Half - 1 /\ Half - 1 \in 0 .. Half - 1
  BY BaseType
<1>3. CASE n < Half - 2
  <2>1. Length(n) = <<n>>
    BY <1>1, <1>3, BaseType DEF Length
  <2>2. <<n>> = <<n>> \o <<>> /\ <<>> \in Seq(Byte) /\ n \in 0 .. Half - 1
    BY <1>1, <1>3, BaseType
  <2>3. Announced(n, n, <<>>)
    BY <1>3 DEF Announced
  <2> QED
    BY <2>1, <2>2, <2>3
<1>4. CASE n >= Half - 2 /\ n < Base * Base
  <2>1. Length(n) = <<Half - 2>> \o BigEndian(n, 2)
    BY <1>1, <1>4, BaseType DEF Length
  <2>2. /\ BigEndian(n, 2) \in Seq(Byte) /\ Len(BigEndian(n, 2)) = 2 /\ Number(BigEndian(n, 2)) = n
    BY <1>1, <1>4, TwoBytes, NumberOfBigEndian
  <2>3. Announced(n, Half - 2, BigEndian(n, 2))
    BY <2>2 DEF Announced
  <2> QED
    BY <1>2, <2>1, <2>2, <2>3
<1>5. CASE n >= Base * Base
  <2>1. Length(n) = <<Half - 1>> \o BigEndian(n, 8)
    <3>1. Base * Base >= Half
      <4>1. Base * Base >= Base
        BY BaseType
      <4> QED
        BY <1>1, <4>1, BaseType
    <3>2. ~ (n < Half - 2) /\ ~ (n < Base * Base)
      BY <1>1, <1>5, <3>1, BaseType
    <3> QED
      BY <1>5, <3>2 DEF Length
  <2>2. /\ BigEndian(n, 8) \in Seq(Byte) /\ Len(BigEndian(n, 8)) = 8 /\ Number(BigEndian(n, 8)) = n
    BY <1>1, NumberOfBigEndian
  <2>3. Announced(n, Half - 1, BigEndian(n, 8))
    BY <2>2 DEF Announced
  <2> QED
    BY <1>2, <2>1, <2>2, <2>3
<1>6. n < Half - 2 \/ (n >= Half - 2 /\ n < Base * Base) \/ n >= Base * Base
  BY <1>1, BaseType
<1> QED
  BY <1>3, <1>4, <1>5, <1>6

-----------------------------------------------------------------------------
(* What the frames of one kind carry.                                      *)

Collects(f, frames, op) ==
    /\ f[0] = <<>>
    /\ \A i \in 1 .. Len(frames) :
          f[i] = IF frames[i].op = op THEN Append(f[i - 1], frames[i].payload) ELSE f[i - 1]
    /\ \A m \in 0 .. Len(frames) : Payloads(SubSeq(frames, 1, m), op) = f[m]

LEMMA PayloadsDef ==
    ASSUME NEW F, NEW frames \in Seq(F), NEW op, NEW P, \A x \in F : x.payload \in P
    PROVE  \E f \in [0 .. Len(frames) -> Seq(P)] : Collects(f, frames, op)
<1> DEFINE k == Len(frames)
           g == [q \in (1 .. k) \X Seq(P) |->
                    IF frames[q[1]].op = op THEN Append(q[2], frames[q[1]].payload) ELSE q[2]]
<1>1. k \in Nat /\ \A i \in 1 .. k : frames[i].payload \in P
  OBVIOUS
<1>2. g \in [(1 .. k) \X Seq(P) -> Seq(P)]
  <2> HIDE DEF k
  <2>1. ASSUME NEW i \in 1 .. k, NEW s \in Seq(P)
        PROVE  (IF frames[i].op = op THEN Append(s, frames[i].payload) ELSE s) \in Seq(P)
    BY <1>1
  <2> QED
    BY <2>1
<1>3. PICK f \in [0 .. k -> Seq(P)] : Computes(f, k, <<>>, 1 .. k, Before1(k), g)
  <2> HIDE DEF g, k
  <2>1. <<>> \in Seq(P)
    OBVIOUS
  <2> QED
    BY <1>1, <1>2, <2>1, Predecessors, Recursion
<1> HIDE DEF k
<1>4. f[0] = <<>>
  <2>1. 0 \in 0 .. k /\ 0 \notin 1 .. k
    BY <1>1
  <2> HIDE DEF g
  <2> QED
    BY <1>3, <2>1 DEF Computes
<1>5. ASSUME NEW i \in 1 .. k
      PROVE  f[i] = IF frames[i].op = op THEN Append(f[i - 1], frames[i].payload) ELSE f[i - 1]
  <2>1. i \in 0 .. k /\ i - 1 \in 0 .. k /\ Before1(k)[i] = i - 1
    BY <1>1, Predecessors
  <2>2. f[i] = g[<<i, f[i - 1]>>]
    <3> HIDE DEF g
    <3> QED
      BY <1>3, <2>1 DEF Computes
  <2>3. f[i - 1] \in Seq(P)
    BY <2>1
  <2> QED
    BY <2>2, <2>3
<1>6. ASSUME NEW m \in 0 .. k PROVE Payloads(SubSeq(frames, 1, m), op) = f[m]
  <2> DEFINE part == SubSeq(frames, 1, m)
             Found(s, i) == IF i = 0 THEN <<>>
                            ELSE IF part[i].op = op THEN Append(s[i - 1], part[i].payload)
                            ELSE s[i - 1]
             Solves(s) == s = [i \in 0 .. Len(part) |-> Found(s, i)]
             h == CHOOSE s : Solves(s)
             r == [i \in 0 .. m |-> f[i]]
  <2>1. m \in Nat /\ Len(part) = m /\ \A i \in 1 .. m : part[i] = frames[i] /\ i \in 1 .. k
    BY <1>1 DEF k
  <2> HIDE DEF part
  <2>2. \A i \in 0 .. m : r[i] = Found(r, i)
    <3>1. ASSUME NEW i \in 1 .. m PROVE r[i] = Found(r, i)
      <4>1. i \in 0 .. m /\ i - 1 \in 0 .. m /\ i # 0
        BY <2>1
      <4>2. r[i] = f[i] /\ r[i - 1] = f[i - 1]
        BY <4>1
      <4> HIDE DEF r
      <4> QED
        BY <1>5, <2>1, <4>1, <4>2
    <3>2. r[0] = Found(r, 0)
      BY <1>4, <2>1
    <3> HIDE DEF r, Found
    <3> QED
      BY <2>1, <3>1, <3>2
  <2>3. r = [i \in 0 .. m |-> r[i]]
    OBVIOUS
  <2>4. Solves(r)
    <3> HIDE DEF r, Found
    <3> QED
      BY <2>1, <2>2, <2>3
  <2>5. Solves(h)
    <3> HIDE DEF Solves
    <3> QED
      BY <2>4
  <2>6. Payloads(SubSeq(frames, 1, m), op) = h[m]
    BY <2>1 DEF Payloads, part
  <2> HIDE DEF h, r
  <2>7. \A i \in 0 .. m : h[i] = Found(h, i)
    <3> HIDE DEF Found
    <3> QED
      BY <2>1, <2>5
  <2> DEFINE T == {i \in 0 .. m : h[i] = f[i]}
  <2>8. 0 \in T
    BY <1>4, <2>1, <2>7
  <2>9. ASSUME NEW i \in 1 .. m, i - 1 \in T PROVE i \in T
    <3>1. i \in 0 .. m /\ i # 0 /\ h[i - 1] = f[i - 1]
      BY <2>1, <2>9
    <3>2. h[i] = IF part[i].op = op THEN Append(h[i - 1], part[i].payload) ELSE h[i - 1]
      BY <2>7, <3>1
    <3> QED
      BY <1>5, <2>1, <3>1, <3>2
  <2> HIDE DEF T
  <2>10. 0 .. m \subseteq T
    BY <2>1, <2>8, <2>9, UpTo
  <2> QED
    BY <2>1, <2>6, <2>10 DEF T
<1> QED
  BY <1>4, <1>5, <1>6 DEF k, Collects

LEMMA PayloadsAppend ==
    ASSUME NEW F, NEW frames \in Seq(F), NEW x \in F, NEW op
    PROVE  Payloads(Append(frames, x), op) =
              IF x.op = op THEN Append(Payloads(frames, op), x.payload) ELSE Payloads(frames, op)
<1> DEFINE more == Append(frames, x)
           n == Len(frames)
<1>1. /\ more \in Seq(F) /\ n \in Nat /\ Len(more) = n + 1 /\ more[n + 1] = x
      /\ SubSeq(more, 1, n) = frames /\ SubSeq(more, 1, n + 1) = more
  <2>1. /\ more \in Seq(F) /\ n \in Nat /\ Len(more) = n + 1 /\ more[n + 1] = x
    OBVIOUS
  <2>2. SubSeq(more, 1, n) = frames
    OBVIOUS
  <2>3. SubSeq(more, 1, n + 1) = more
    <3> HIDE DEF more
    <3> QED
      BY <2>1
  <2> QED
    BY <2>1, <2>2, <2>3
<1> HIDE DEF more, n
<1> DEFINE P == {y.payload : y \in F}
<1>2. PICK f \in [0 .. Len(more) -> Seq(P)] : Collects(f, more, op)
  <2>1. \A y \in F : y.payload \in P
    OBVIOUS
  <2> HIDE DEF P
  <2> QED
    BY <1>1, <2>1, PayloadsDef
<1>3. n \in 0 .. n + 1 /\ n + 1 \in 1 .. n + 1 /\ n + 1 \in 0 .. n + 1 /\ (n + 1) - 1 = n
  BY <1>1
<1>4. Payloads(frames, op) = f[n] /\ f[n] \in Seq(P) /\ Payloads(more, op) = f[n + 1]
  BY <1>1, <1>2, <1>3 DEF Collects
<1>5. f[n + 1] = IF x.op = op THEN Append(f[n], x.payload) ELSE f[n]
  BY <1>1, <1>2, <1>3 DEF Collects
<1> QED
  BY <1>4, <1>5 DEF more

LEMMA PrefixMeans ==
    ASSUME NEW P, NEW s \in Seq(P), NEW t \in Seq(P)
    PROVE  IsPrefix(s, t) <=> Len(s) <= Len(t) /\ \A i \in 1 .. Len(s) : s[i] = t[i]
<1>1. ASSUME Len(s) <= Len(t)
      PROVE  SubSeq(s, 1, Len(s)) = SubSeq(t, 1, Len(s)) <=> \A i \in 1 .. Len(s) : s[i] = t[i]
  <2> DEFINE n == Len(s)
             u == SubSeq(s, 1, n)
             v == SubSeq(t, 1, n)
  <2>1. /\ n \in Nat /\ u \in Seq(P) /\ v \in Seq(P) /\ Len(u) = n /\ Len(v) = n
        /\ \A i \in 1 .. n : u[i] = s[i] /\ v[i] = t[i]
    BY <1>1
  <2> HIDE DEF n, u, v
  <2>2. u = v <=> \A i \in 1 .. n : u[i] = v[i]
    BY <2>1
  <2> QED
    BY <2>1, <2>2 DEF n, u, v
<1> QED
  BY <1>1 DEF IsPrefix

LEMMA PrefixAppend ==
    ASSUME NEW P, NEW s \in Seq(P), NEW t \in Seq(P), NEW x \in P, IsPrefix(s, t)
    PROVE  IsPrefix(s, Append(t, x))
<1>1. Len(s) \in Nat /\ Len(t) \in Nat /\ Len(s) <= Len(t) /\ \A i \in 1 .. Len(s) : s[i] = t[i]
  BY PrefixMeans
<1>2. /\ Append(t, x) \in Seq(P) /\ Len(Append(t, x)) = Len(t) + 1
      /\ \A i \in 1 .. Len(t) : Append(t, x)[i] = t[i]
  OBVIOUS
<1>3. Len(s) <= Len(Append(t, x)) /\ \A i \in 1 .. Len(s) : s[i] = Append(t, x)[i]
  <2> DEFINE u == Append(t, x)
             m == Len(s)
             n == Len(t)
  <2>1. /\ m \in Nat /\ n \in Nat /\ m <= n /\ \A i \in 1 .. m : s[i] = t[i]
        /\ Len(u) = n + 1 /\ \A i \in 1 .. n : u[i] = t[i]
    BY <1>1, <1>2
  <2> HIDE DEF u, m, n
  <2>2. m <= Len(u) /\ \A i \in 1 .. m : s[i] = u[i]
    BY <2>1
  <2> QED
    BY <2>2 DEF u, m, n
<1> QED
  BY <1>2, <1>3, PrefixMeans

\* What the first of them carry is the beginning of what all of them carry.
LEMMA PayloadsPrefix ==
    ASSUME NEW F, NEW frames \in Seq(F), NEW op, NEW k \in 0 .. Len(frames)
    PROVE  IsPrefix(Payloads(SubSeq(frames, 1, k), op), Payloads(frames, op))
<1> DEFINE n == Len(frames)
<1>1. n \in Nat /\ k \in Nat /\ k <= n /\ SubSeq(frames, 1, n) = frames
  OBVIOUS
<1> DEFINE P == {y.payload : y \in F}
<1>2. PICK f \in [0 .. n -> Seq(P)] : Collects(f, frames, op)
  <2>1. \A y \in F : y.payload \in P
    OBVIOUS
  <2> HIDE DEF P
  <2> QED
    BY <2>1, PayloadsDef
<1>3. \A i \in 1 .. n : frames[i].payload \in P
  OBVIOUS
<1> HIDE DEF P
<1>4. /\ Payloads(SubSeq(frames, 1, k), op) = f[k]
      /\ Payloads(frames, op) = f[n]
  <2>1. n \in 0 .. n /\ k \in 0 .. n
    BY <1>1
  <2> QED
    BY <1>1, <1>2, <2>1 DEF Collects
<1>5. \A i \in 1 .. n : f[i] = IF frames[i].op = op THEN Append(f[i - 1], frames[i].payload) ELSE f[i - 1]
  BY <1>2 DEF Collects
<1> HIDE DEF n
<1> DEFINE T == {i \in 0 .. n : i >= k => IsPrefix(f[k], f[i])}
<1>6. \A i \in 0 .. n : f[i] \in Seq(P)
  BY <1>1
<1>7. IsPrefix(f[k], f[k])
  <2>1. f[k] \in Seq(P) /\ Len(f[k]) \in Nat
    BY <1>1, <1>6
  <2> QED
    BY <2>1, PrefixMeans
<1>8. 0 \in T
  <2>1. 0 >= k => k = 0
    BY <1>1
  <2> QED
    BY <1>1, <1>7, <2>1
<1>9. ASSUME NEW i \in 1 .. n, i - 1 \in T PROVE i \in T
  <2>1. i \in 0 .. n /\ i - 1 \in 0 .. n /\ (i >= k => i = k \/ i - 1 >= k)
    BY <1>1
  <2>2. CASE i = k
    BY <1>7, <2>1, <2>2
  <2>3. CASE i - 1 >= k
    <3>1. IsPrefix(f[k], f[i - 1])
      BY <1>9, <2>3
    <3>2. IsPrefix(f[k], Append(f[i - 1], frames[i].payload))
      BY <1>1, <1>3, <1>6, <2>1, <3>1, PrefixAppend
    <3>3. IsPrefix(f[k], f[i])
      BY <1>5, <3>1, <3>2
    <3> QED
      BY <2>1, <3>3
  <2>4. CASE ~ (i >= k)
    BY <2>1, <2>4
  <2> QED
    BY <2>1, <2>2, <2>3, <2>4
<1> HIDE DEF T
<1>10. 0 .. n \subseteq T
  BY <1>1, <1>8, <1>9, UpTo
<1>11. n \in T /\ n >= k
  BY <1>1, <1>10
<1> QED
  BY <1>4, <1>11 DEF T

-----------------------------------------------------------------------------
(* The frames that bytes are.                                              *)

LEMMA HeaderSizes ==
    ASSUME NEW bytes \in Seq(Byte), Len(bytes) >= 2
    PROVE  /\ bytes[2] % Half \in 0 .. Half - 1
           /\ bytes[2] % Half < Half - 2 => HeaderSize(bytes) = 2
           /\ bytes[2] % Half = Half - 2 => HeaderSize(bytes) = 4
           /\ bytes[2] % Half = Half - 1 => HeaderSize(bytes) = 10
<1>1. bytes[2] \in Nat
  <2>1. 2 \in 1 .. Len(bytes)
    OBVIOUS
  <2> QED
    BY <2>1, BaseType
<1>2. bytes[2] % Half \in 0 .. Half - 1
  BY <1>1, BaseType
<1>3. bytes[2] % Half < Half - 2 \/ bytes[2] % Half = Half - 2 \/ bytes[2] % Half = Half - 1
  BY <1>2, BaseType, SMTT(30)
<1> DEFINE short == bytes[2] % Half
<1>4. HeaderSize(bytes) = CASE short < Half - 2 -> 2 [] short = Half - 2 -> 4 [] short = Half - 1 -> 10
  BY DEF HeaderSize
<1> HIDE DEF short
<1>5. /\ short \in 0 .. Half - 1
      /\ short < Half - 2 \/ short = Half - 2 \/ short = Half - 1
      /\ Half - 2 # Half - 1 /\ ~ (Half - 1 < Half - 2) /\ ~ (Half - 2 < Half - 2)
  BY <1>2, <1>3, BaseType DEF short
<1>6. /\ short < Half - 2 => HeaderSize(bytes) = 2
      /\ short = Half - 2 => HeaderSize(bytes) = 4
      /\ short = Half - 1 => HeaderSize(bytes) = 10
  BY <1>4, <1>5
<1> QED
  BY <1>5, <1>6 DEF short

LEMMA FrameSizes ==
    ASSUME NEW bytes \in Seq(Byte), Len(bytes) >= 2, Len(bytes) >= HeaderSize(bytes)
    PROVE  /\ HeaderSize(bytes) \in {2, 4, 10}
           /\ PayloadSize(bytes) \in Nat
           /\ FrameSize(bytes) \in Nat
           /\ FrameSize(bytes) >= HeaderSize(bytes)
<1>1. HeaderSize(bytes) \in {2, 4, 10} /\ bytes[2] % Half \in Nat
  <2>1. /\ bytes[2] % Half \in Nat
        /\ bytes[2] % Half < Half - 2 \/ bytes[2] % Half = Half - 2 \/ bytes[2] % Half = Half - 1
    BY HeaderSizes, BaseType
  <2> QED
    BY <2>1, HeaderSizes
<1>2. PayloadSize(bytes) \in Nat
  <2>1. CASE HeaderSize(bytes) = 2
    BY <1>1, <2>1 DEF PayloadSize
  <2>2. CASE HeaderSize(bytes) # 2
    <3> DEFINE ext == SubSeq(bytes, 3, HeaderSize(bytes))
    <3>1. ext \in Seq(Byte)
      <4>1. HeaderSize(bytes) \in Nat /\ HeaderSize(bytes) <= Len(bytes) /\ 3 \in 1 .. HeaderSize(bytes)
        BY <1>1, <2>2
      <4>2. HeaderSize(bytes) \in 1 .. Len(bytes) /\ 3 \in 1 .. Len(bytes)
        BY <4>1
      <4> QED
        BY <4>1, <4>2, SubSeqProperties
    <3> HIDE DEF ext
    <3>2. Len(ext) \in Nat /\ Len(ext) \in 0 .. Len(ext)
      BY <3>1
    <3>3. Number(ext) \in Nat
      BY <3>1, <3>2, NumberDef, SMTT(30)
    <3> QED
      BY <2>2, <3>3 DEF PayloadSize, ext
  <2> QED
    BY <2>1, <2>2
<1> QED
  BY <1>1, <1>2 DEF FrameSize

LEMMA Lasts ==
    ASSUME NEW S, NEW s \in Seq(S), NEW n \in 0 .. Len(s)
    PROVE  /\ LastBytes(s, n) \in Seq(S)
           /\ Len(LastBytes(s, n)) = n
           /\ \A i \in 1 .. n : LastBytes(s, n)[i] = s[Len(s) - n + i]
<1> DEFINE k == Len(s)
           m == k - n + 1
<1>1. k \in Nat /\ n \in Nat /\ n <= k /\ m \in Int /\ m >= 1 /\ k - m + 1 = n
  OBVIOUS
<1>2. \A i \in m .. k : s[i] \in S
  BY <1>1
<1> HIDE DEF m, k
<1>3. /\ SubSeq(s, m, k) \in Seq(S)
      /\ Len(SubSeq(s, m, k)) = IF m <= k THEN k - m + 1 ELSE 0
      /\ \A i \in 1 .. k - m + 1 : SubSeq(s, m, k)[i] = s[m + i - 1]
  BY <1>1, <1>2, SubSeqProperties
<1>4. (IF m <= k THEN k - m + 1 ELSE 0) = n
  BY <1>1
<1>5. \A i \in 1 .. n : m + i - 1 = k - n + i
  BY <1>1 DEF m
<1>6. LastBytes(s, n) = SubSeq(s, m, k)
  BY DEF LastBytes, m, k
<1>7. \A i \in 1 .. n : SubSeq(s, m, k)[i] = s[k - n + i]
  BY <1>1, <1>3, <1>5
<1> QED
  BY <1>1, <1>3, <1>4, <1>6, <1>7 DEF k

LEMMA LastsOfLasts ==
    ASSUME NEW S, NEW s \in Seq(S), NEW n \in 0 .. Len(s), NEW m \in 0 .. n
    PROVE  LastBytes(LastBytes(s, n), m) = LastBytes(s, m)
<1> DEFINE t == LastBytes(s, n)
           u == LastBytes(t, m)
           v == LastBytes(s, m)
           k == Len(s)
<1>1. k \in Nat /\ n \in Nat /\ m \in Nat /\ n <= k /\ m <= n /\ m \in 0 .. k
  OBVIOUS
<1>2. t \in Seq(S) /\ Len(t) = n /\ \A i \in 1 .. n : t[i] = s[k - n + i]
  BY Lasts
<1>3. v \in Seq(S) /\ Len(v) = m /\ \A i \in 1 .. m : v[i] = s[k - m + i]
  BY <1>1, Lasts
<1> HIDE DEF t, v, k
<1>4. m \in 0 .. Len(t)
  BY <1>2
<1>5. u \in Seq(S) /\ Len(u) = m /\ \A i \in 1 .. m : u[i] = t[n - m + i]
  <2>1. t \in Seq(S) /\ Len(t) = n
    BY <1>2
  <2>2. /\ u \in Seq(S) /\ Len(u) = m
        /\ \A i \in 1 .. m : u[i] = t[Len(t) - m + i]
    BY <1>4, <2>1, Lasts
  <2> HIDE DEF u
  <2> QED
    BY <2>1, <2>2, Zenon
<1> HIDE DEF u
<1>6. ASSUME NEW i \in 1 .. m PROVE u[i] = v[i]
  <2>1. n - m + i \in 1 .. n /\ k - n + (n - m + i) = k - m + i
    BY <1>1
  <2> QED
    BY <1>2, <1>3, <1>5, <2>1
<1>7. u = v
  BY <1>3, <1>5, <1>6, SeqEqual
<1> QED
  BY <1>7 DEF u, v, t

\* What frames say, as they are read.
Sent == [op : Int, payload : Seq(Byte)]

LEMMA FirstFrames ==
    ASSUME NEW bytes \in Seq(Byte), BeginsWithFrame(bytes)
    PROVE  FirstFrame(bytes) \in Sent /\ FrameSize(bytes) \in 2 .. Len(bytes)
<1>1. /\ Len(bytes) >= 2 /\ Len(bytes) >= HeaderSize(bytes) /\ Len(bytes) >= FrameSize(bytes)
      /\ Len(bytes) \in Nat
  BY DEF BeginsWithFrame
<1>2. /\ HeaderSize(bytes) \in {2, 4, 10} /\ FrameSize(bytes) \in Nat
      /\ FrameSize(bytes) >= HeaderSize(bytes)
  BY <1>1, FrameSizes
<1>3. bytes[1] - Half \in Int
  <2>1. 1 \in 1 .. Len(bytes)
    BY <1>1
  <2> QED
    BY <2>1, BaseType
<1>4. SubSeq(bytes, HeaderSize(bytes) + 1, FrameSize(bytes)) \in Seq(Byte)
  <2> DEFINE m == HeaderSize(bytes) + 1
             n == FrameSize(bytes)
  <2>1. m \in Int /\ n \in Int /\ \A i \in m .. n : i \in 1 .. Len(bytes)
    BY <1>1, <1>2
  <2> HIDE DEF m, n
  <2>2. \A i \in m .. n : bytes[i] \in Byte
    BY <2>1
  <2>3. SubSeq(bytes, m, n) \in Seq(Byte)
    BY <2>1, <2>2, SubSeqProperties
  <2> QED
    BY <2>3 DEF m, n
<1> QED
  BY <1>1, <1>2, <1>3, <1>4 DEF FirstFrame, Sent

\* d is what is read of each end of the bytes.
Decodes(d, bytes) ==
    \A n \in 0 .. Len(bytes) :
        LET ahead == LastBytes(bytes, n)
        IN  d[n] = IF BeginsWithFrame(ahead) THEN <<FirstFrame(ahead)>> \o d[n - FrameSize(ahead)] ELSE <<>>

LEMMA DecodingExists ==
    ASSUME NEW bytes \in Seq(Byte)
    PROVE  \E d \in [0 .. Len(bytes) -> Seq(Sent)] : Decodes(d, bytes)
<1> DEFINE k == Len(bytes)
           R == {n \in 1 .. k : BeginsWithFrame(LastBytes(bytes, n))}
           p == [n \in R |-> n - FrameSize(LastBytes(bytes, n))]
           g == [q \in R \X Seq(Sent) |-> <<FirstFrame(LastBytes(bytes, q[1]))>> \o q[2]]
<1>1. k \in Nat
  OBVIOUS
<1>2. ASSUME NEW n \in 0 .. k
      PROVE  /\ LastBytes(bytes, n) \in Seq(Byte)
             /\ Len(LastBytes(bytes, n)) = n
  BY Lasts
<1>3. ASSUME NEW n \in R
      PROVE  /\ FirstFrame(LastBytes(bytes, n)) \in Sent
             /\ FrameSize(LastBytes(bytes, n)) \in 2 .. n
  <2>1. n \in 0 .. k /\ BeginsWithFrame(LastBytes(bytes, n))
    OBVIOUS
  <2> QED
    BY <1>2, <2>1, FirstFrames
<1>4. p \in [R -> Nat] /\ \A n \in R : p[n] < n /\ p[n] \in 0 .. k
  <2> HIDE DEF g
  <2>1. ASSUME NEW n \in R
        PROVE  /\ n - FrameSize(LastBytes(bytes, n)) \in Nat
               /\ n - FrameSize(LastBytes(bytes, n)) < n
               /\ n - FrameSize(LastBytes(bytes, n)) \in 0 .. k
    <3>1. FrameSize(LastBytes(bytes, n)) \in 2 .. n /\ n \in 1 .. k
      BY <1>3
    <3> QED
      BY <1>1, <3>1
  <2> HIDE DEF R
  <2> QED
    BY <2>1
<1>5. g \in [R \X Seq(Sent) -> Seq(Sent)]
  <2> HIDE DEF R, p
  <2>1. ASSUME NEW n \in R, NEW s \in Seq(Sent)
        PROVE  <<FirstFrame(LastBytes(bytes, n))>> \o s \in Seq(Sent)
    <3>1. FirstFrame(LastBytes(bytes, n)) \in Sent
      BY <1>3
    <3>2. <<FirstFrame(LastBytes(bytes, n))>> \in Seq(Sent)
      BY <3>1
    <3> QED
      BY <3>2, ConcatProperties
  <2> QED
    BY <2>1
<1>6. R \in SUBSET (1 .. k)
  OBVIOUS
<1>7. PICK d \in [0 .. k -> Seq(Sent)] : Computes(d, k, <<>>, R, p, g)
  <2> HIDE DEF g, p, R, k
  <2>1. <<>> \in Seq(Sent)
    OBVIOUS
  <2> QED
    BY <1>1, <1>4, <1>5, <1>6, <2>1, Recursion
<1>8. ASSUME NEW n \in 0 .. k
      PROVE  d[n] = IF BeginsWithFrame(LastBytes(bytes, n))
                    THEN <<FirstFrame(LastBytes(bytes, n))>> \o d[n - FrameSize(LastBytes(bytes, n))]
                    ELSE <<>>
  <2>1. n \in R <=> BeginsWithFrame(LastBytes(bytes, n))
    <3>1. BeginsWithFrame(LastBytes(bytes, n)) => n \in 1 .. k
      BY <1>1, <1>2 DEF BeginsWithFrame
    <3> QED
      BY <3>1
  <2>2. d[n] = IF n \in R THEN g[<<n, d[p[n]]>>] ELSE <<>>
    BY <1>7 DEF Computes
  <2>3. CASE n \in R
    <3>1. p[n] = n - FrameSize(LastBytes(bytes, n))
      <4> HIDE DEF R
      <4> QED
        BY <2>3
    <3>2. d[p[n]] \in Seq(Sent)
      <4> HIDE DEF p, g, R
      <4> QED
        BY <1>4, <2>3
    <3>3. g[<<n, d[p[n]]>>] = <<FirstFrame(LastBytes(bytes, n))>> \o d[p[n]]
      <4> HIDE DEF p, R
      <4> QED
        BY <2>3, <3>2
    <3> HIDE DEF p, g, R
    <3> QED
      BY <2>1, <2>2, <2>3, <3>1, <3>3
  <2>4. CASE n \notin R
    <3> HIDE DEF p, g, R
    <3> QED
      BY <2>1, <2>2, <2>4
  <2> QED
    BY <2>3, <2>4
<1> QED
  BY <1>7, <1>8 DEF Decodes

\* It is what Decoded() says of them.
LEMMA DecodedIs ==
    ASSUME NEW bytes \in Seq(Byte), NEW d, Decodes(d, bytes), d = [n \in 0 .. Len(bytes) |-> d[n]]
    PROVE  Decoded(bytes) = d[Len(bytes)]
<1> DEFINE k == Len(bytes)
           Decode(s, n) ==
               LET ahead == LastBytes(bytes, n)
               IN  IF BeginsWithFrame(ahead) THEN <<FirstFrame(ahead)>> \o s[n - FrameSize(ahead)] ELSE <<>>
           Solves(s) == s = [n \in 0 .. k |-> Decode(s, n)]
           h == CHOOSE s : Solves(s)
<1>1. k \in Nat
  OBVIOUS
<1>2. Solves(d)
  <2>1. \A n \in 0 .. k : d[n] = Decode(d, n)
    BY DEF Decodes
  <2> HIDE DEF Decode, k
  <2>2. d = [n \in 0 .. k |-> d[n]]
    BY DEF k
  <2> QED
    BY <2>1, <2>2
<1>3. Solves(h)
  <2> HIDE DEF Solves
  <2> QED
    BY <1>2
<1>4. Decoded(bytes) = h[k]
  BY DEF Decoded
<1> HIDE DEF h
<1>5. \A n \in 0 .. k : h[n] = Decode(h, n)
  <2> HIDE DEF Decode
  <2> QED
    BY <1>3
<1> DEFINE R == {n \in 1 .. k : BeginsWithFrame(LastBytes(bytes, n))}
           p == [n \in R |-> n - FrameSize(LastBytes(bytes, n))]
<1>6. ASSUME NEW n \in 0 .. k
      PROVE  /\ LastBytes(bytes, n) \in Seq(Byte)
             /\ Len(LastBytes(bytes, n)) = n
  BY Lasts
<1>7. ASSUME NEW n \in R
      PROVE  FrameSize(LastBytes(bytes, n)) \in 2 .. n
  <2>1. n \in 0 .. k /\ BeginsWithFrame(LastBytes(bytes, n))
    OBVIOUS
  <2> QED
    BY <1>6, <2>1, FirstFrames
<1>8. p \in [R -> Nat] /\ \A n \in R : p[n] < n
  <2>1. ASSUME NEW n \in R
        PROVE  /\ n - FrameSize(LastBytes(bytes, n)) \in Nat
               /\ n - FrameSize(LastBytes(bytes, n)) < n
    <3>1. FrameSize(LastBytes(bytes, n)) \in 2 .. n /\ n \in 1 .. k
      BY <1>7
    <3> QED
      BY <1>1, <3>1
  <2> HIDE DEF R
  <2> QED
    BY <2>1
<1>9. \A n \in 0 .. k : n \notin R => h[n] = d[n]
  <2>1. ASSUME NEW n \in 0 .. k, n \notin R PROVE ~ BeginsWithFrame(LastBytes(bytes, n))
    <3>1. BeginsWithFrame(LastBytes(bytes, n)) => n \in 1 .. k
      BY <1>1, <1>6 DEF BeginsWithFrame
    <3> QED
      BY <2>1, <3>1
  <2>2. ASSUME NEW n \in 0 .. k, n \notin R PROVE h[n] = <<>> /\ d[n] = <<>>
    <3>1. ~ BeginsWithFrame(LastBytes(bytes, n))
      BY <2>1, <2>2
    <3>2. h[n] = Decode(h, n)
      BY <1>5
    <3> QED
      BY <3>1, <3>2 DEF Decodes
  <2> HIDE DEF R
  <2> QED
    BY <2>2
<1>10. \A n \in R : h[p[n]] = d[p[n]] => h[n] = d[n]
  <2> SUFFICES ASSUME NEW n \in R, h[p[n]] = d[p[n]] PROVE h[n] = d[n]
    OBVIOUS
  <2>1. p[n] = n - FrameSize(LastBytes(bytes, n))
    <3> HIDE DEF R
    <3> QED
      OBVIOUS
  <2>2. BeginsWithFrame(LastBytes(bytes, n)) /\ n \in 0 .. k
    BY <1>1
  <2> HIDE DEF p, R
  <2>3. h[n] = Decode(h, n)
    BY <1>5, <2>2
  <2> QED
    BY <2>1, <2>2, <2>3 DEF Decodes
<1>11. R \in SUBSET (1 .. k)
  OBVIOUS
<1>12. \A n \in 0 .. k : h[n] = d[n]
  <2> HIDE DEF p, R, k, Decode, Solves
  <2> DEFINE T == {n \in 0 .. k : \A i \in 0 .. n : h[i] = d[i]}
  <2>1. ASSUME NEW n \in 0 .. k, \A i \in 0 .. k : i < n => h[i] = d[i] PROVE h[n] = d[n]
    <3>1. CASE n \in R
      <4>1. p[n] \in Nat /\ p[n] < n
        BY <1>8, <3>1
      <4>2. p[n] \in 0 .. k
        BY <1>1, <4>1
      <4> QED
        BY <1>10, <2>1, <3>1, <4>1, <4>2
    <3> QED
      BY <1>9, <3>1
  <2>2. 0 \in T
    <3>1. 0 \in 0 .. k /\ \A i \in 0 .. k : ~ (i < 0)
      BY <1>1
    <3>2. h[0] = d[0]
      BY <2>1, <3>1
    <3>3. \A i \in 0 .. 0 : i = 0
      OBVIOUS
    <3> QED
      BY <3>1, <3>2, <3>3
  <2>3. ASSUME NEW n \in 1 .. k, n - 1 \in T PROVE n \in T
    <3>1. n \in 0 .. k /\ \A i \in 0 .. n - 1 : h[i] = d[i]
      <4>1. n \in 0 .. k
        BY <1>1
      <4> DEFINE m == n - 1
      <4>2. m \in T
        BY <2>3
      <4> HIDE DEF m
      <4>3. \A i \in 0 .. m : h[i] = d[i]
        BY <4>2
      <4> QED
        BY <4>1, <4>3 DEF m
    <3>2. \A i \in 0 .. k : i < n => h[i] = d[i]
      BY <1>1, <3>1
    <3>3. h[n] = d[n]
      BY <2>1, <3>1, <3>2
    <3>4. \A i \in 0 .. n : i = n \/ i \in 0 .. n - 1
      BY <1>1
    <3>5. \A i \in 0 .. n : h[i] = d[i]
      BY <3>1, <3>3, <3>4
    <3> QED
      BY <3>1, <3>5
  <2> HIDE DEF T
  <2>4. 0 .. k \subseteq T
    BY <1>1, <2>2, <2>3, UpTo
  <2>5. k \in T
    BY <1>1, <2>4
  <2> QED
    BY <2>5 DEF T
<1> QED
  BY <1>1, <1>4, <1>12

\* What is read from bytes: a first frame, if they begin with one, and what
\* is read after it.
LEMMA DecodedStep ==
    ASSUME NEW bytes \in Seq(Byte)
    PROVE  /\ Decoded(bytes) \in Seq(Sent)
           /\ ~ BeginsWithFrame(bytes) => Decoded(bytes) = <<>>
           /\ BeginsWithFrame(bytes) =>
                 Decoded(bytes) =
                     <<FirstFrame(bytes)>> \o Decoded(LastBytes(bytes, Len(bytes) - FrameSize(bytes)))
<1> DEFINE k == Len(bytes)
<1>1. k \in Nat
  OBVIOUS
<1>2. PICK d \in [0 .. k -> Seq(Sent)] : Decodes(d, bytes)
  BY DecodingExists
<1>3. d = [n \in 0 .. k |-> d[n]]
  OBVIOUS
<1>4. Decoded(bytes) = d[k] /\ d[k] \in Seq(Sent)
  BY <1>1, <1>2, <1>3, DecodedIs
<1>5. LastBytes(bytes, k) = bytes
  <2>1. k - k + 1 = 1
    BY <1>1
  <2> QED
    BY <2>1, SubSeqFull DEF LastBytes
<1>6. d[k] = IF BeginsWithFrame(bytes) THEN <<FirstFrame(bytes)>> \o d[k - FrameSize(bytes)] ELSE <<>>
  <2>1. k \in 0 .. Len(bytes)
    BY <1>1
  <2> QED
    BY <1>2, <1>5, <2>1 DEF Decodes
<1>7. ASSUME BeginsWithFrame(bytes)
      PROVE  Decoded(LastBytes(bytes, k - FrameSize(bytes))) = d[k - FrameSize(bytes)]
  <2> DEFINE m == k - FrameSize(bytes)
             further == LastBytes(bytes, m)
             e == [n \in 0 .. m |-> d[n]]
  <2>1. m \in 0 .. k
    <3>1. FrameSize(bytes) \in 2 .. k
      BY <1>7, FirstFrames
    <3> QED
      BY <1>1, <3>1
  <2> HIDE DEF m
  <2>2. further \in Seq(Byte) /\ Len(further) = m
    BY <2>1, Lasts
  <2>3. ASSUME NEW n \in 0 .. m PROVE LastBytes(further, n) = LastBytes(bytes, n)
    BY <2>1, LastsOfLasts
  <2>4. Decodes(e, further)
    <3>1. ASSUME NEW n \in 0 .. m
          PROVE  e[n] = IF BeginsWithFrame(LastBytes(further, n))
                        THEN <<FirstFrame(LastBytes(further, n))>> \o e[n - FrameSize(LastBytes(further, n))]
                        ELSE <<>>
      <4> DEFINE ahead == LastBytes(bytes, n)
      <4>1. ahead \in Seq(Byte) /\ Len(ahead) = n /\ n \in 0 .. Len(bytes) /\ n \in 0 .. k
        BY <2>1, Lasts
      <4>2. LastBytes(further, n) = ahead
        BY <2>3
      <4>3. d[n] = IF BeginsWithFrame(ahead) THEN <<FirstFrame(ahead)>> \o d[n - FrameSize(ahead)] ELSE <<>>
        BY <1>2, <4>1 DEF Decodes
      <4> HIDE DEF ahead, further
      <4>4. ASSUME BeginsWithFrame(ahead) PROVE n - FrameSize(ahead) \in 0 .. m
        <5>1. FrameSize(ahead) \in 2 .. n
          BY <4>1, <4>4, FirstFrames
        <5> QED
          BY <2>1, <5>1
      <4>5. e[n] = d[n]
        OBVIOUS
      <4>6. BeginsWithFrame(ahead) => e[n - FrameSize(ahead)] = d[n - FrameSize(ahead)]
        BY <4>4
      <4> HIDE DEF e
      <4> QED
        BY <4>2, <4>3, <4>5, <4>6
    <3> HIDE DEF e, further
    <3> QED
      BY <2>2, <3>1 DEF Decodes
  <2>5. e = [n \in 0 .. m |-> e[n]] /\ e[m] = d[m]
    BY <2>1
  <2> HIDE DEF e, further
  <2>6. Decoded(further) = e[m]
    BY <2>2, <2>4, <2>5, DecodedIs
  <2> QED
    BY <2>5, <2>6 DEF m, further
<1> QED
  BY <1>4, <1>6, <1>7

LEMMA HeaderReads ==
    ASSUME NEW bytes \in Seq(Byte), NEW n \in Nat, NEW x \in 0 .. Half - 1, NEW ext \in Seq(Byte),
           Announced(n, x, ext), Len(bytes) >= 2, bytes[2] = x
    PROVE  /\ HeaderSize(bytes) = 2 + Len(ext)
           /\ Len(bytes) >= 2 + Len(ext) /\ (\A i \in 1 .. Len(ext) : bytes[2 + i] = ext[i]) =>
                 PayloadSize(bytes) = n /\ FrameSize(bytes) = 2 + Len(ext) + n
<1>1. bytes[2] % Half = x
  <2>1. ASSUME NEW y \in Nat, NEW b \in Nat, b > 0, y < b PROVE y % b = y
    BY <2>1
  <2>2. x \in Nat /\ Half \in Nat /\ Half > 0 /\ x < Half
    BY BaseType
  <2> QED
    BY <2>1, <2>2
<1>2. /\ bytes[2] % Half < Half - 2 => HeaderSize(bytes) = 2
      /\ bytes[2] % Half = Half - 2 => HeaderSize(bytes) = 4
      /\ bytes[2] % Half = Half - 1 => HeaderSize(bytes) = 10
  BY HeaderSizes
<1>3. HeaderSize(bytes) = 2 + Len(ext)
  <2>1. CASE x = n /\ n < Half - 2 /\ ext = <<>>
    BY <1>1, <1>2, <2>1
  <2>2. CASE x = Half - 2 /\ Len(ext) = 2
    BY <1>1, <1>2, <2>2
  <2>3. CASE x = Half - 1 /\ Len(ext) = 8
    BY <1>1, <1>2, <2>3
  <2> QED
    BY <2>1, <2>2, <2>3 DEF Announced
<1>4. ASSUME Len(bytes) >= 2 + Len(ext), \A i \in 1 .. Len(ext) : bytes[2 + i] = ext[i]
      PROVE  PayloadSize(bytes) = n
  <2>1. CASE x = n /\ ext = <<>>
    <3>1. HeaderSize(bytes) = 2
      BY <1>3, <2>1
    <3> QED
      BY <1>1, <2>1, <3>1 DEF PayloadSize
  <2>2. CASE Len(ext) > 0 /\ Number(ext) = n
    <3> DEFINE h == 2 + Len(ext)
               u == SubSeq(bytes, 3, h)
    <3>1. Len(ext) \in Nat /\ h \in Int /\ h > 2 /\ h <= Len(bytes) /\ h - 3 + 1 = Len(ext) /\ 3 <= h
      BY <1>4, <2>2
    <3>2. \A i \in 3 .. h : bytes[i] \in Byte
      BY <3>1
    <3>3. \A i \in 1 .. Len(ext) : bytes[3 + i - 1] = ext[i]
      <4>1. \A i \in 1 .. Len(ext) : 3 + i - 1 = 2 + i
        OBVIOUS
      <4> QED
        BY <1>4, <4>1
    <3> HIDE DEF h
    <3>4. /\ u \in Seq(Byte)
          /\ Len(u) = IF 3 <= h THEN h - 3 + 1 ELSE 0
          /\ \A i \in 1 .. h - 3 + 1 : u[i] = bytes[3 + i - 1]
      <4>1. 3 \in Int
        OBVIOUS
      <4> QED
        BY <3>1, <3>2, <4>1, SubSeqProperties
    <3> HIDE DEF u
    <3>5. u \in Seq(Byte) /\ Len(u) = Len(ext) /\ \A i \in 1 .. Len(u) : u[i] = ext[i]
      BY <3>1, <3>3, <3>4
    <3>6. u = ext
      BY <3>5, SeqEqual
    <3>7. HeaderSize(bytes) # 2 /\ HeaderSize(bytes) = h
      BY <1>3, <3>1 DEF h
    <3> QED
      BY <2>2, <3>6, <3>7 DEF PayloadSize, u
  <2>3. (x = n /\ ext = <<>>) \/ (Len(ext) > 0 /\ Number(ext) = n)
    <3> DEFINE m == Len(ext)
    <3>1. (x = n /\ ext = <<>>) \/ (m = 2 /\ Number(ext) = n) \/ (m = 8 /\ Number(ext) = n)
      BY DEF Announced
    <3> HIDE DEF m
    <3>2. (m = 2 => m > 0) /\ (m = 8 => m > 0)
      OBVIOUS
    <3>3. (x = n /\ ext = <<>>) \/ (m > 0 /\ Number(ext) = n)
      BY <3>1, <3>2
    <3> QED
      BY <3>3 DEF m
  <2> QED
    BY <2>1, <2>2, <2>3
<1> QED
  BY <1>3, <1>4 DEF FrameSize

(* The bytes of a frame that the server sends, and the places of its parts. *)
Encoding(op, payload) == <<Half + op>> \o Length(Len(payload)) \o payload

Laid(bytes, op, payload, x, ext) ==
    /\ bytes \in Seq(Byte)
    /\ Len(bytes) = 2 + Len(ext) + Len(payload)
    /\ bytes[1] = Half + op
    /\ bytes[2] = x
    /\ \A i \in 1 .. Len(ext) : bytes[2 + i] = ext[i]
    /\ \A i \in 1 .. Len(payload) : bytes[2 + Len(ext) + i] = payload[i]
    /\ Announced(Len(payload), x, ext)

LEMMA EncodingLaid ==
    ASSUME NEW op \in 0 .. Half - 1, NEW payload \in Seq(Byte), Len(payload) \in Lengths
    PROVE  \E x \in 0 .. Half - 1, ext \in Seq(Byte) : Laid(Encoding(op, payload), op, payload, x, ext)
<1> DEFINE n == Len(payload)
<1>1. PICK x \in 0 .. Half - 1, ext \in Seq(Byte) : Length(n) = <<x>> \o ext /\ Announced(n, x, ext)
  BY LengthForm
<1>2. Half + op \in Byte /\ x \in Byte
  BY BaseType
<1>3. n \in Nat /\ Len(ext) \in Nat
  OBVIOUS
<1> DEFINE l == <<x>> \o ext
           h == <<Half + op>> \o l
           E == h \o payload
<1>4. Encoding(op, payload) = E
  BY <1>1 DEF Encoding
<1>5. <<x>> \in Seq(Byte) /\ <<Half + op>> \in Seq(Byte)
  BY <1>2
<1>6. l \in Seq(Byte) /\ Len(l) = 1 + Len(ext) /\ l[1] = x /\ \A i \in 1 .. Len(ext) : l[1 + i] = ext[i]
  BY <1>3, <1>5
<1> HIDE DEF l
<1>7. /\ h \in Seq(Byte) /\ Len(h) = 2 + Len(ext) /\ h[1] = Half + op
      /\ \A i \in 1 .. 1 + Len(ext) : h[1 + i] = l[i]
  <2>1. h \in Seq(Byte) /\ Len(h) = 1 + Len(l)
    BY <1>5, <1>6
  <2>2. h[1] = Half + op /\ \A i \in 1 .. Len(l) : h[1 + i] = l[i]
    BY <1>5, <1>6
  <2> QED
    BY <1>3, <1>6, <2>1, <2>2
<1>8. h[2] = x /\ \A i \in 1 .. Len(ext) : h[2 + i] = ext[i]
  <2>1. 1 \in 1 .. 1 + Len(ext) /\ 1 + 1 = 2
    BY <1>3
  <2>2. h[2] = l[1]
    <3>1. h[1 + 1] = l[1]
      BY <1>7, <2>1
    <3> QED
      BY <2>1, <3>1
  <2>3. ASSUME NEW i \in 1 .. Len(ext) PROVE h[2 + i] = ext[i]
    <3>1. 1 + i \in 1 .. 1 + Len(ext) /\ 1 + (1 + i) = 2 + i
      BY <1>3
    <3>2. h[1 + (1 + i)] = l[1 + i]
      BY <1>7, <3>1
    <3> QED
      BY <1>6, <3>1, <3>2
  <2> QED
    BY <1>6, <2>2, <2>3
<1> HIDE DEF h, n
<1>9. /\ E \in Seq(Byte) /\ Len(E) = Len(h) + n
      /\ \A i \in 1 .. Len(h) + n : E[i] = IF i <= Len(h) THEN h[i] ELSE payload[i - Len(h)]
  <2>1. h \in Seq(Byte) /\ payload \in Seq(Byte)
    BY <1>7
  <2> QED
    BY <2>1, ConcatProperties DEF n
<1> HIDE DEF E
<1>10. /\ Len(E) = 2 + Len(ext) + n
       /\ \A i \in 1 .. 2 + Len(ext) : E[i] = h[i]
       /\ \A i \in 1 .. n : E[2 + Len(ext) + i] = payload[i]
  <2>1. Len(E) = 2 + Len(ext) + n
    BY <1>3, <1>7, <1>9
  <2>2. \A i \in 1 .. 2 + Len(ext) : E[i] = h[i]
    BY <1>3, <1>7, <1>9
  <2>3. ASSUME NEW i \in 1 .. n PROVE E[2 + Len(ext) + i] = payload[i]
    <3> DEFINE j == 2 + Len(ext) + i
    <3>1. j \in 1 .. Len(h) + n /\ ~ (j <= Len(h)) /\ j - Len(h) = i
      BY <1>3, <1>7
    <3> HIDE DEF j
    <3>2. E[j] = payload[j - Len(h)]
      BY <1>9, <3>1
    <3> QED
      BY <3>1, <3>2 DEF j
  <2> QED
    BY <2>1, <2>2, <2>3
<1>11. E[1] = h[1] /\ E[2] = h[2] /\ \A i \in 1 .. Len(ext) : E[2 + i] = h[2 + i]
  BY <1>3, <1>10
<1>12. Laid(E, op, payload, x, ext)
  BY <1>1, <1>7, <1>8, <1>9, <1>10, <1>11 DEF Laid, n
<1> QED
  BY <1>4, <1>12

\* A frame, whatever follows it, is read as what was meant.
LEMMA OneFrame ==
    ASSUME NEW op \in 0 .. Half - 1, NEW payload \in Seq(Byte), Len(payload) \in Lengths,
           NEW further \in Seq(Byte)
    PROVE  /\ Encoding(op, payload) \in Seq(Byte)
           /\ Decoded(Encoding(op, payload) \o further) = <<[op |-> op, payload |-> payload]>> \o Decoded(further)
<1> DEFINE E == Encoding(op, payload)
           n == Len(payload)
           bytes == E \o further
<1>1. PICK x \in 0 .. Half - 1, ext \in Seq(Byte) : Laid(E, op, payload, x, ext)
  BY EncodingLaid
<1> DEFINE l == Len(ext)
           e == Len(E)
<1>2. /\ E \in Seq(Byte) /\ e = 2 + l + n /\ E[1] = Half + op /\ E[2] = x
      /\ \A i \in 1 .. l : E[2 + i] = ext[i]
      /\ \A i \in 1 .. n : E[2 + l + i] = payload[i]
      /\ Announced(n, x, ext) /\ n \in Nat /\ l \in Nat /\ e \in Nat
  BY <1>1 DEF Laid
<1> HIDE DEF E
<1>3. /\ bytes \in Seq(Byte) /\ Len(bytes) = e + Len(further)
      /\ \A i \in 1 .. e + Len(further) : bytes[i] = IF i <= e THEN E[i] ELSE further[i - e]
  <2>1. E \in Seq(Byte)
    BY <1>2
  <2> QED
    BY <2>1, ConcatProperties
<1>4. Len(further) \in Nat
  OBVIOUS
<1> HIDE DEF bytes, n, l, e
<1>sizes. e = 2 + l + n /\ n \in Nat /\ l \in Nat /\ e \in Nat /\ Len(bytes) = e + Len(further)
  BY <1>2, <1>3
<1>5. \A i \in 1 .. e : bytes[i] = E[i]
  BY <1>2, <1>3, <1>4
<1>6. /\ bytes[1] = Half + op /\ bytes[2] = x
      /\ \A i \in 1 .. l : bytes[2 + i] = ext[i]
      /\ \A i \in 1 .. n : bytes[2 + l + i] = payload[i]
  <2>1. 1 \in 1 .. e /\ 2 \in 1 .. e
    BY <1>2
  <2>2. \A i \in 1 .. l : 2 + i \in 1 .. e
    BY <1>2
  <2>3. \A i \in 1 .. n : 2 + l + i \in 1 .. e
    BY <1>2
  <2>4. bytes[1] = Half + op /\ bytes[2] = x
    BY <1>2, <1>5, <2>1
  <2>5. \A i \in 1 .. l : bytes[2 + i] = ext[i]
    BY <1>2, <1>5, <2>2
  <2>6. \A i \in 1 .. n : bytes[2 + l + i] = payload[i]
    BY <1>2, <1>5, <2>3
  <2> QED
    BY <2>4, <2>5, <2>6
<1>7. Len(bytes) >= e /\ Len(bytes) >= 2 + l /\ Len(bytes) >= 2
  BY <1>sizes, <1>4
<1>8. HeaderSize(bytes) = 2 + l /\ FrameSize(bytes) = e
  <2>1. /\ Len(bytes) >= 2 + Len(ext) /\ Len(bytes) >= 2 /\ bytes[2] = x
        /\ \A i \in 1 .. Len(ext) : bytes[2 + i] = ext[i]
    BY <1>6, <1>7 DEF l
  <2>2. /\ HeaderSize(bytes) = 2 + Len(ext)
        /\ FrameSize(bytes) = 2 + Len(ext) + n
    <3>1. bytes \in Seq(Byte) /\ n \in Nat /\ Announced(n, x, ext)
      BY <1>2, <1>3
    <3> QED
      BY <2>1, <3>1, HeaderReads
  <2>3. HeaderSize(bytes) = 2 + l /\ FrameSize(bytes) = 2 + l + n
    BY <2>2 DEF l
  <2> QED
    BY <1>2, <2>3
<1>9. BeginsWithFrame(bytes)
  BY <1>7, <1>8 DEF BeginsWithFrame
<1>10. FirstFrame(bytes) = [op |-> op, payload |-> payload]
  <2>1. bytes[1] - Half = op
    BY <1>6, BaseType
  <2>2. SubSeq(bytes, (2 + l) + 1, e) = payload
    <3> DEFINE m == (2 + l) + 1
               u == SubSeq(bytes, m, e)
    <3>1. m \in Int /\ e \in Int /\ e - m + 1 = n /\ (m <= e \/ n = 0) /\ (m <= e => n > 0)
      BY <1>sizes
    <3>2. \A i \in m .. e : bytes[i] \in Byte
      <4>1. \A i \in m .. e : i \in 1 .. Len(bytes)
        BY <1>sizes, <1>4
      <4> QED
        BY <1>3, <4>1
    <3>3. \A i \in 1 .. n : m + i - 1 = 2 + l + i
      BY <1>sizes
    <3> HIDE DEF m
    <3>4. /\ u \in Seq(Byte)
          /\ Len(u) = IF m <= e THEN e - m + 1 ELSE 0
          /\ \A i \in 1 .. e - m + 1 : u[i] = bytes[m + i - 1]
      BY <3>1, <3>2, SubSeqProperties
    <3> HIDE DEF u
    <3>5. Len(u) = n /\ \A i \in 1 .. n : u[i] = bytes[m + i - 1]
      BY <3>1, <3>4
    <3>6. \A i \in 1 .. n : u[i] = payload[i]
      BY <1>6, <3>3, <3>5
    <3>7. u = payload
      BY <3>4, <3>5, <3>6, SeqEqual DEF n
    <3> QED
      BY <3>7 DEF u, m
  <2> QED
    BY <1>8, <2>1, <2>2 DEF FirstFrame
<1>11. LastBytes(bytes, Len(bytes) - e) = further
  <2> DEFINE r == Len(further)
             v == LastBytes(bytes, r)
  <2>1. Len(bytes) - e = r /\ r \in 0 .. Len(bytes) /\ Len(bytes) - r = e
    BY <1>sizes, <1>4
  <2>2. v \in Seq(Byte) /\ Len(v) = r /\ \A i \in 1 .. r : v[i] = bytes[e + i]
    BY <1>3, <2>1, Lasts
  <2>3. ASSUME NEW i \in 1 .. r PROVE bytes[e + i] = further[i]
    <3> DEFINE j == e + i
    <3>1. j \in 1 .. e + Len(further) /\ ~ (j <= e) /\ j - e = i
      BY <1>sizes, <1>4
    <3> HIDE DEF j
    <3>2. bytes[j] = further[j - e]
      BY <1>3, <3>1
    <3> QED
      BY <3>1, <3>2 DEF j
  <2> HIDE DEF v
  <2>4. Len(v) = Len(further) /\ \A i \in 1 .. Len(v) : v[i] = further[i]
    BY <2>2, <2>3
  <2>5. v = further
    BY <2>2, <2>4, SeqEqual
  <2> QED
    BY <2>1, <2>5 DEF v
<1>12. Decoded(bytes) = <<[op |-> op, payload |-> payload]>> \o Decoded(further)
  BY <1>3, <1>8, <1>9, <1>10, <1>11, DecodedStep
<1> QED
  BY <1>2, <1>12 DEF bytes, E

\* What has come of a frame that has not come entirely is not read yet.
LEMMA PartOfFrame ==
    ASSUME NEW op \in 0 .. Half - 1, NEW payload \in Seq(Byte), Len(payload) \in Lengths,
           NEW sent \in Seq(Byte), NEW more \in Seq(Byte), sent \o more = Encoding(op, payload),
           more # <<>>
    PROVE  Decoded(sent) = <<>>
<1> DEFINE E == Encoding(op, payload)
           n == Len(payload)
           k == Len(sent)
<1>1. PICK x \in 0 .. Half - 1, ext \in Seq(Byte) : Laid(E, op, payload, x, ext)
  BY EncodingLaid
<1> DEFINE l == Len(ext)
<1>2. /\ E[2] = x /\ Len(E) = 2 + l + n
      /\ \A i \in 1 .. l : E[2 + i] = ext[i]
      /\ Announced(n, x, ext) /\ n \in Nat /\ l \in Nat /\ k \in Nat
  BY <1>1 DEF Laid
<1>3. k < 2 + l + n /\ \A i \in 1 .. k : sent[i] = E[i]
  <2>1. /\ Len(sent \o more) = k + Len(more)
        /\ \A i \in 1 .. k + Len(more) : (sent \o more)[i] = IF i <= k THEN sent[i] ELSE more[i - k]
    BY ConcatProperties
  <2>2. Len(more) \in Nat \ {0}
    BY EmptySeq
  <2>3. sent \o more = E
    OBVIOUS
  <2> HIDE DEF E, n, k, l
  <2>4. \A i \in 1 .. k : i \in 1 .. k + Len(more) /\ i <= k
    BY <1>2, <2>2
  <2> QED
    BY <1>2, <2>1, <2>2, <2>3, <2>4
<1> HIDE DEF E, n, k, l
<1>4. ASSUME BeginsWithFrame(sent) PROVE FALSE
  <2>1. k >= 2 /\ k >= HeaderSize(sent) /\ k >= FrameSize(sent)
    BY <1>4 DEF BeginsWithFrame, k
  <2>2. sent[2] = x
    <3>1. 2 \in 1 .. k
      BY <1>2, <2>1
    <3> QED
      BY <1>2, <1>3, <3>1
  <2>3. HeaderSize(sent) = 2 + l
    BY <1>2, <2>1, <2>2, HeaderReads DEF l, k
  <2>4. \A i \in 1 .. l : sent[2 + i] = ext[i]
    <3>1. \A i \in 1 .. l : 2 + i \in 1 .. k
      BY <1>2, <2>1, <2>3
    <3> QED
      BY <1>2, <1>3, <3>1
  <2>5. FrameSize(sent) = 2 + l + n
    <3>1. Len(sent) >= 2 + Len(ext) /\ Len(sent) >= 2 /\ \A i \in 1 .. Len(ext) : sent[2 + i] = ext[i]
      BY <2>1, <2>3, <2>4 DEF l, k
    <3> QED
      BY <1>2, <2>2, <3>1, HeaderReads DEF l
  <2> QED
    BY <1>2, <1>3, <2>1, <2>5
<1> QED
  BY <1>4, DecodedStep

(* b says these frames, whatever follows it.                               *)
Says(b, frames) == \A x \in Seq(Byte) : Decoded(b \o x) = frames \o Decoded(x)

LEMMA SaysNothing == Says(<<>>, <<>>)
<1>1. ASSUME NEW x \in Seq(Byte) PROVE Decoded(<<>> \o x) = <<>> \o Decoded(x)
  <2>1. <<>> \o x = x
    OBVIOUS
  <2>2. Decoded(x) \in Seq(Sent)
    BY DecodedStep
  <2>3. <<>> \o Decoded(x) = Decoded(x)
    BY <2>2, ConcatEmptySeq
  <2> QED
    BY <2>1, <2>3
<1> QED
  BY <1>1 DEF Says

LEMMA SaysMore ==
    ASSUME NEW b \in Seq(Byte), NEW frames \in Seq(Sent), Says(b, frames),
           NEW op \in 0 .. Half - 1, NEW payload \in Seq(Byte), Len(payload) \in Lengths
    PROVE  Says(b \o Encoding(op, payload), Append(frames, [op |-> op, payload |-> payload]))
<1> DEFINE E == Encoding(op, payload)
           f == [op |-> op, payload |-> payload]
<1>1. f \in Sent
  BY BaseType DEF Sent
<1>2. <<>> \in Seq(Byte)
  OBVIOUS
<1>3. E \in Seq(Byte)
  BY <1>2, OneFrame
<1>4. ASSUME NEW x \in Seq(Byte) PROVE Decoded((b \o E) \o x) = Append(frames, f) \o Decoded(x)
  <2>1. Decoded(E \o x) = <<f>> \o Decoded(x)
    BY OneFrame
  <2>2. E \o x \in Seq(Byte) /\ (b \o E) \o x = b \o (E \o x)
    <3> HIDE DEF E
    <3> QED
      BY <1>3, ConcatProperties, ConcatAssociative, SMTT(30)
  <2> HIDE DEF E, f
  <2>3. Decoded(b \o (E \o x)) = frames \o (<<f>> \o Decoded(x))
    BY <2>1, <2>2 DEF Says
  <2>4. <<f>> \in Seq(Sent) /\ Decoded(x) \in Seq(Sent)
    <3>1. Decoded(x) \in Seq(Sent)
      BY DecodedStep
    <3>2. <<f>> \in Seq(Sent)
      BY <1>1
    <3> QED
      BY <3>1, <3>2
  <2>5. frames \o (<<f>> \o Decoded(x)) = (frames \o <<f>>) \o Decoded(x)
    BY <2>4, ConcatAssociative, SMTT(30)
  <2>6. Append(frames, f) = frames \o <<f>>
    BY <1>1, AppendIsConcat
  <2> QED
    BY <2>2, <2>3, <2>5, <2>6
<1> QED
  BY <1>4 DEF Says

LEMMA SaysExactly ==
    ASSUME NEW b \in Seq(Byte), NEW frames \in Seq(Sent), Says(b, frames)
    PROVE  Decoded(b) = frames
<1>1. <<>> \in Seq(Byte) /\ b \o <<>> = b
  BY ConcatEmptySeq
<1>2. Decoded(<<>>) = <<>>
  <2>1. ~ BeginsWithFrame(<<>>)
    BY DEF BeginsWithFrame
  <2> QED
    BY <1>1, <2>1, DecodedStep
<1>3. Decoded(b) = frames \o <<>>
  BY <1>1, <1>2 DEF Says
<1> QED
  BY <1>3, ConcatEmptySeq

-----------------------------------------------------------------------------
(* Types.                                                                  *)

Places == {"handshaking", "polling", "length", "mask", "payload", "texting",
           "sending", "answering", "closing", "closed"}

Frame == [op : 0 .. Half - 1, length : Nat, masked : BOOLEAN, mask : {m \in Seq(Byte) : Len(m) = 4},
          payload : Seq(Byte)]

ConnectionType ==
    /\ said \in Seq(ClientFrames)
    /\ transit \in Seq(Seq(Byte))
    /\ arrived \in Seq(Byte)
    /\ at \in Places
    /\ frame \in Frame
    /\ out \in Seq(Byte)
    /\ meant \in Seq([op : 0 .. Half - 1, payload : Seq(Byte)])
    /\ stream \in Seq(Byte)

\* What recv() returns and what it leaves.
LEMMA TakenAndLeft ==
    ASSUME arrived \in Seq(Byte), NEW k \in Nat, NEW held \in Byte
    PROVE  /\ Taken(k, held) \in Seq(Byte) /\ Len(Taken(k, held)) = k
           /\ Left(k) \in Seq(Byte)
           /\ k <= Len(arrived) =>
                 /\ \A i \in 1 .. k : Taken(k, held)[i] = arrived[i]
                 /\ Len(Left(k)) = Len(arrived) - k
                 /\ \A i \in 1 .. Len(arrived) - k : Left(k)[i] = arrived[k + i]
<1> DEFINE n == Len(arrived)
           m == Least(k, n) + 1
<1>1. n \in Nat /\ m \in Int /\ 1 <= m /\ (k <= n => m = k + 1)
  BY DEF Least
<1>2. \A i \in 1 .. k : i <= n => arrived[i] \in Byte
  BY <1>1
<1>3. /\ Taken(k, held) \in Seq(Byte) /\ Len(Taken(k, held)) = k
      /\ \A i \in 1 .. k : Taken(k, held)[i] = IF i <= n THEN arrived[i] ELSE held
  BY <1>2 DEF Taken
<1>4. \A i \in m .. n : arrived[i] \in Byte
  BY <1>1
<1>5. Left(k) = SubSeq(arrived, m, n)
  BY DEF Left
<1> HIDE DEF m, n
<1>6. /\ Left(k) \in Seq(Byte)
      /\ Len(Left(k)) = IF m <= n THEN n - m + 1 ELSE 0
      /\ \A i \in 1 .. n - m + 1 : Left(k)[i] = arrived[m + i - 1]
  BY <1>1, <1>4, <1>5, SubSeqProperties
<1>7. ASSUME k <= n
      PROVE  /\ \A i \in 1 .. k : Taken(k, held)[i] = arrived[i]
             /\ Len(Left(k)) = n - k
             /\ \A i \in 1 .. n - k : Left(k)[i] = arrived[k + i]
  <2>1. m = k + 1 /\ n - m + 1 = n - k /\ (IF m <= n THEN n - m + 1 ELSE 0) = n - k
    BY <1>1, <1>7
  <2>2. \A i \in 1 .. n - k : m + i - 1 = k + i
    BY <1>1, <2>1
  <2>3. \A i \in 1 .. k : i <= n
    BY <1>1, <1>7
  <2> QED
    BY <1>3, <1>6, <2>1, <2>2, <2>3
<1> QED
  BY <1>3, <1>6, <1>7 DEF n

LEMMA MaskedBytes ==
    ASSUME NEW payload \in Seq(Byte), NEW mask \in Seq(Byte), Len(mask) = 4
    PROVE  /\ Masked(payload, mask) \in Seq(Byte)
           /\ Len(Masked(payload, mask)) = Len(payload)
           /\ Masked(Masked(payload, mask), mask) = payload
<1> DEFINE n == Len(payload)
           u == Masked(payload, mask)
           v == Masked(u, mask)
           m(k) == 1 + ((k - 1) % 4)
<1>1. n \in Nat /\ DOMAIN payload = 1 .. n
  OBVIOUS
<1>2. ASSUME NEW i \in 1 .. n PROVE mask[m(i)] \in Byte /\ payload[i] \in Byte
  <2>1. ASSUME NEW j \in Nat PROVE 1 + (j % 4) \in 1 .. 4
    BY <2>1
  <2>2. i - 1 \in Nat
    BY <1>1
  <2>3. m(i) \in 1 .. 4
    <3> DEFINE j == i - 1
    <3>1. j \in Nat
      BY <2>2
    <3> HIDE DEF j
    <3>2. 1 + (j % 4) \in 1 .. 4
      BY <2>1, <3>1
    <3> QED
      BY <3>2 DEF j, m
  <2>4. \A j \in 1 .. 4 : mask[j] \in Byte
    <3>1. \A j \in 1 .. Len(mask) : mask[j] \in Byte
      BY ElementOfSeq
    <3> QED
      BY <3>1
  <2>5. payload[i] \in Byte
    OBVIOUS
  <2> HIDE DEF m, n
  <2> QED
    BY <2>3, <2>4, <2>5
<1>3. u = [i \in 1 .. n |-> ByteXor(payload[i], mask[m(i)])]
  BY <1>1 DEF Masked
<1> HIDE DEF m
<1>4. \A i \in 1 .. n : ByteXor(payload[i], mask[m(i)]) \in Byte
  BY <1>2, XorAssumption
<1>5. /\ u \in Seq(Byte) /\ Len(u) = n /\ DOMAIN u = 1 .. n
      /\ \A i \in 1 .. n : u[i] = ByteXor(payload[i], mask[m(i)])
  <2> HIDE DEF u, n
  <2> QED
    BY <1>1, <1>3, <1>4
<1> HIDE DEF u
<1>6. v = [i \in 1 .. n |-> ByteXor(u[i], mask[m(i)])]
  BY <1>5 DEF Masked, m
<1>7. \A i \in 1 .. n : ByteXor(u[i], mask[m(i)]) = payload[i]
  BY <1>2, <1>5, XorAssumption
<1> HIDE DEF v
<1>8. v = [i \in 1 .. n |-> payload[i]]
  BY <1>6, <1>7
<1>9. payload = [i \in 1 .. n |-> payload[i]]
  OBVIOUS
<1> QED
  BY <1>5, <1>8, <1>9 DEF u, v

\* The places of what the browser sends.
Announces(f, x, ext) ==
    LET H == ClientHeader(f)
    IN  /\ H \in Seq(Byte)
        /\ Len(H) = 2 + Len(ext) + Len(f.mask)
        /\ H[1] = Half + f.op
        /\ H[2] = x + (IF f.mask = <<>> THEN 0 ELSE Half)
        /\ \A i \in 1 .. Len(ext) : H[2 + i] = ext[i]
        /\ \A i \in 1 .. Len(f.mask) : H[2 + Len(ext) + i] = f.mask[i]
        /\ Announced(Len(f.payload), x, ext)

LEMMA FrameFacts ==
    ASSUME NEW f \in ClientFrames
    PROVE  /\ f.op \in 0 .. Half - 1 /\ f.payload \in Seq(Byte) /\ f.mask \in Seq(Byte)
           /\ f = [op |-> f.op, payload |-> f.payload, mask |-> f.mask]
           /\ Len(f.mask) \in {0, 4}
           /\ Len(f.payload) \in Lengths
           /\ f.op = Ping => Len(f.payload) < Half - 2
  BY BrowserAssumption

LEMMA HeaderLaid ==
    ASSUME NEW f \in ClientFrames
    PROVE  \E x \in 0 .. Half - 1, ext \in Seq(Byte) : Announces(f, x, ext)
<1> DEFINE n == Len(f.payload)
           mask == f.mask
<1>1. PICK x \in 0 .. Half - 1, ext \in Seq(Byte) : Length(n) = <<x>> \o ext /\ Announced(n, x, ext)
  BY FrameFacts, LengthForm
<1> DEFINE y == x + (IF mask = <<>> THEN 0 ELSE Half)
           a == <<Half + f.op, y>>
           l == Len(ext)
           h == a \o ext
           H == h \o mask
<1>2. Head(Length(n)) = x /\ Tail(Length(n)) = ext
  <2>1. x \in Byte
    BY BaseType
  <2>2. <<x>> \o ext = [i \in 1 .. 1 + Len(ext) |-> IF i = 1 THEN x ELSE ext[i - 1]]
    OBVIOUS
  <2> DEFINE s == <<x>> \o ext
  <2>3. s \in Seq(Byte) /\ Len(s) = 1 + Len(ext) /\ s[1] = x /\ \A i \in 1 .. Len(ext) : s[i + 1] = ext[i]
    BY <2>1
  <2>4. s # <<>> /\ Len(ext) \in Nat
    BY <2>3
  <2> HIDE DEF s
  <2>5. Head(s) = s[1]
    BY <2>3, <2>4
  <2>6. Tail(s) \in Seq(Byte) /\ Len(Tail(s)) = Len(s) - 1 /\ \A i \in 1 .. Len(Tail(s)) : Tail(s)[i] = s[i + 1]
    BY <2>3, <2>4, HeadTailProperties
  <2>7. Len(Tail(s)) = Len(ext) /\ \A i \in 1 .. Len(Tail(s)) : Tail(s)[i] = ext[i]
    BY <2>3, <2>4, <2>6
  <2>8. Tail(s) = ext
    BY <2>6, <2>7, SeqEqual
  <2> QED
    BY <1>1, <2>3, <2>5, <2>8 DEF s
<1>3. ClientHeader(f) = H
  <2>1. ClientHeader(f) = <<Half + f.op, Head(Length(n)) + (IF f.mask = <<>> THEN 0 ELSE Half)>>
                              \o Tail(Length(n)) \o f.mask
    BY Zenon DEF ClientHeader
  <2> QED
    BY <1>2, <2>1, Zenon
<1>4. Half + f.op \in Byte /\ y \in Byte /\ mask \in Seq(Byte) /\ l \in Nat
  <2>1. mask \in Seq(Byte) /\ l \in Nat /\ f.op \in 0 .. Half - 1
    BY FrameFacts
  <2>2. Half + f.op \in Byte
    BY <2>1, BaseType
  <2>3. y \in Byte
    BY BaseType
  <2> QED
    BY <2>1, <2>2, <2>3
<1>5. a \in Seq(Byte) /\ Len(a) = 2 /\ a[1] = Half + f.op /\ a[2] = y
  <2> HIDE DEF y
  <2> QED
    BY <1>4
<1> HIDE DEF a, y
<1>6. /\ h \in Seq(Byte) /\ Len(h) = 2 + l
      /\ h[1] = Half + f.op /\ h[2] = y
      /\ \A i \in 1 .. l : h[2 + i] = ext[i]
  <2>1. /\ h \in Seq(Byte) /\ Len(h) = Len(a) + l
        /\ \A i \in 1 .. Len(a) + l : h[i] = IF i <= Len(a) THEN a[i] ELSE ext[i - Len(a)]
    BY <1>5, ConcatProperties
  <2> HIDE DEF h, l
  <2>2. /\ Len(h) = 2 + l
        /\ \A i \in 1 .. 2 + l : h[i] = IF i <= 2 THEN a[i] ELSE ext[i - 2]
    BY <1>5, <2>1
  <2>3. 1 \in 1 .. 2 + l /\ 2 \in 1 .. 2 + l
    BY <1>4
  <2>4. h[1] = a[1] /\ h[2] = a[2]
    BY <2>2, <2>3
  <2>5. ASSUME NEW i \in 1 .. l PROVE h[2 + i] = ext[i]
    <3> DEFINE j == 2 + i
    <3>1. j \in 1 .. 2 + l /\ ~ (j <= 2) /\ j - 2 = i
      BY <1>4
    <3> HIDE DEF j
    <3>2. h[j] = ext[j - 2]
      BY <2>2, <3>1
    <3> QED
      BY <3>1, <3>2 DEF j
  <2> QED
    BY <1>5, <2>1, <2>2, <2>4, <2>5
<1> HIDE DEF h, mask
<1>7. /\ H \in Seq(Byte) /\ Len(H) = Len(h) + Len(mask)
      /\ \A i \in 1 .. Len(h) + Len(mask) : H[i] = IF i <= Len(h) THEN h[i] ELSE mask[i - Len(h)]
  <2>1. h \in Seq(Byte) /\ mask \in Seq(Byte)
    BY <1>4, <1>6
  <2> QED
    BY <2>1, ConcatProperties
<1> HIDE DEF H, l
<1>8. \A i \in 1 .. 2 + l : H[i] = h[i]
  <2>1. Len(mask) \in Nat
    BY <1>4
  <2> QED
    BY <1>4, <1>6, <1>7, <2>1
<1>9. ASSUME NEW i \in 1 .. Len(mask) PROVE H[2 + l + i] = mask[i]
  <2> DEFINE j == 2 + l + i
  <2>1. Len(mask) \in Nat
    BY <1>4
  <2>2. j \in 1 .. Len(h) + Len(mask) /\ ~ (j <= Len(h)) /\ j - Len(h) = i
    BY <1>4, <1>6, <2>1
  <2> HIDE DEF j
  <2>3. H[j] = mask[j - Len(h)]
    BY <1>7, <2>2
  <2> QED
    BY <2>2, <2>3 DEF j
<1>10. H[1] = h[1] /\ H[2] = h[2] /\ \A i \in 1 .. l : H[2 + i] = h[2 + i]
  BY <1>4, <1>8
<1>11. Announces(f, x, ext)
  BY <1>1, <1>3, <1>6, <1>7, <1>9, <1>10 DEF Announces, n, l, y, mask
<1> QED
  BY <1>11

LEMMA ClientBytes ==
    ASSUME NEW f \in ClientFrames
    PROVE  /\ ClientHeader(f) \in Seq(Byte)
           /\ Len(ClientHeader(f)) >= 2
           /\ ClientPayload(f) \in Seq(Byte)
           /\ Len(ClientPayload(f)) = Len(f.payload)
<1>1. PICK x \in 0 .. Half - 1, ext \in Seq(Byte) : Announces(f, x, ext)
  BY HeaderLaid
<1>2. Len(ext) \in Nat /\ Len(f.mask) \in Nat
  BY FrameFacts
<1>3. ClientHeader(f) \in Seq(Byte) /\ Len(ClientHeader(f)) >= 2
  <2>1. ClientHeader(f) \in Seq(Byte) /\ Len(ClientHeader(f)) = 2 + Len(ext) + Len(f.mask)
    BY <1>1 DEF Announces
  <2>2. ASSUME NEW a \in Nat, NEW b \in Nat PROVE 2 + a + b >= 2
    OBVIOUS
  <2>3. 2 + Len(ext) + Len(f.mask) >= 2
    BY <1>2, <2>2
  <2> QED
    BY <2>1, <2>3
<1>4. f.mask = <<>> \/ Len(f.mask) = 4
  BY FrameFacts
<1>5. ClientPayload(f) \in Seq(Byte) /\ Len(ClientPayload(f)) = Len(f.payload)
  BY <1>4, FrameFacts, MaskedBytes DEF ClientPayload
<1> QED
  BY <1>3, <1>5

LEMMA PiecesType ==
    ASSUME NEW f \in ClientFrames
    PROVE  Pieces(f) \in Seq(Seq(Byte))
<1>1. ASSUME NEW s \in Seq(Byte) PROVE Singly(s) \in Seq(Seq(Byte)) /\ <<s>> \in Seq(Seq(Byte))
  <2>1. \A i \in 1 .. Len(s) : <<s[i]>> \in Seq(Byte)
    OBVIOUS
  <2>2. Singly(s) = [i \in 1 .. Len(s) |-> <<s[i]>>] /\ Len(s) \in Nat
    BY DEF Singly
  <2> QED
    BY <2>1, <2>2
<1>2. (IF Segmented THEN Singly(ClientHeader(f)) ELSE <<ClientHeader(f)>>) \in Seq(Seq(Byte))
  BY <1>1, ClientBytes
<1>3. Singly(ClientPayload(f)) \in Seq(Seq(Byte))
  BY <1>1, ClientBytes
<1> QED
  BY <1>2, <1>3, ConcatProperties DEF Pieces

LEMMA NoFrameType == NoFrame \in Frame /\ NoFrame.payload = <<>> /\ <<0, 0, 0, 0>> \in Seq(Byte)
<1>1. 0 \in Byte /\ 0 \in 0 .. Half - 1
  BY BaseType
<1>2. <<0, 0, 0, 0>> \in Seq(Byte) /\ Len(<<0, 0, 0, 0>>) = 4 /\ <<>> \in Seq(Byte)
  BY <1>1
<1> DEFINE zeros == <<0, 0, 0, 0>>
<1>3. zeros \in {m \in Seq(Byte) : Len(m) = 4}
  BY <1>2
<1> HIDE DEF zeros
<1>4. NoFrame = [op |-> 0, length |-> 0, masked |-> FALSE, mask |-> zeros, payload |-> <<>>]
  BY DEF NoFrame, zeros
<1>5. NoFrame \in Frame
  BY <1>1, <1>2, <1>3, <1>4 DEF Frame
<1>6. NoFrame.payload = <<>>
  BY <1>4
<1> QED
  BY <1>2, <1>5, <1>6

LEMMA OpcodeTypes == /\ Text \in 0 .. Half - 1 /\ Close \in 0 .. Half - 1
                     /\ Ping \in 0 .. Half - 1 /\ Pong \in 0 .. Half - 1
BY WebSocketAssumption

LEMMA TextPayload ==
    ASSUME NEW n \in TextLengths
    PROVE  /\ n \in Nat /\ n \in Lengths
           /\ [i \in 1 .. n |-> i % Base] \in Seq(Byte)
           /\ Len([i \in 1 .. n |-> i % Base]) = n
<1>1. n \in Nat /\ n \in Lengths
  BY WebSocketAssumption DEF Lengths
<1>2. \A i \in 1 .. n : i % Base \in Byte
  BY DivMod
<1> QED
  BY <1>1, <1>2

LEMMA UnmaskedType == ASSUME ConnectionType PROVE Unmasked \in Seq(Byte) /\ Len(Unmasked) = Len(frame.payload)
<1>1. /\ frame.payload \in Seq(Byte) /\ frame.mask \in Seq(Byte) /\ Len(frame.mask) = 4
      /\ frame.masked \in BOOLEAN
  BY DEF ConnectionType, Frame
<1> QED
  BY <1>1, MaskedBytes DEF Unmasked

LEMMA ControlType ==
    ASSUME NEW op \in 0 .. Half - 1, NEW payload \in Seq(Byte)
    PROVE  /\ ControlFrame(op, payload) \in Seq(Byte)
           /\ Len(payload) < Half - 2 => ControlFrame(op, payload) = Encoding(op, payload)
<1> DEFINE n == Len(payload)
           low == n % Half
           a == <<Half + op>>
           b == <<low>>
           c == <<Half + op, low>>
<1>1. n \in Nat /\ Half + op \in Byte
  BY BaseType
<1>2. low \in Byte /\ (n < Half => low = n)
  <2>1. ASSUME NEW y \in Nat, NEW m \in Nat, m > 0 PROVE y % m \in 0 .. m - 1 /\ (y < m => y % m = y)
    BY <2>1
  <2>2. low \in 0 .. Half - 1 /\ (n < Half => low = n)
    BY <1>1, <2>1, BaseType
  <2> HIDE DEF low
  <2> QED
    BY <2>2, BaseType
<1> HIDE DEF low
<1>3. a \in Seq(Byte) /\ b \in Seq(Byte) /\ c \in Seq(Byte) /\ c = a \o b
  BY <1>1, <1>2
<1>4. ControlFrame(op, payload) = c \o payload
  BY DEF ControlFrame, low
<1> HIDE DEF c, a, b
<1>5. c \o payload \in Seq(Byte)
  BY <1>3, ConcatProperties
<1>6. ASSUME n < Half - 2 PROVE c \o payload = Encoding(op, payload)
  <2>1. Length(n) = <<n>>
    BY <1>1, <1>6, BaseType, SMTT(30) DEF Length
  <2>2. low = n
    BY <1>1, <1>2, <1>6, BaseType
  <2>3. Encoding(op, payload) = a \o b \o payload
    BY <2>1, <2>2 DEF Encoding, a, b
  <2> QED
    BY <1>3, <2>3
<1> QED
  BY <1>4, <1>5, <1>6

LEMMA TypeBegins == ConnectionInit => ConnectionType
<1> SUFFICES ASSUME ConnectionInit PROVE ConnectionType
  OBVIOUS
<1>1. said = <<>> /\ transit = <<>> /\ arrived = <<>> /\ out = <<>> /\ meant = <<>> /\ stream = <<>>
  BY DEF ConnectionInit
<1>2. at \in Places /\ frame \in Frame
  BY NoFrameType DEF ConnectionInit, Places
<1> QED
  BY <1>1, <1>2 DEF ConnectionType

LEMMA BeginType ==
    ASSUME ConnectionType, NEW op \in 0 .. Half - 1, NEW payload \in Seq(Byte), NEW bytes \in Seq(Byte),
           NEW next \in Places, Begin(op, payload, bytes, next)
    PROVE  ConnectionType'
<1>1. meant' \in Seq([op : 0 .. Half - 1, payload : Seq(Byte)])
  <2> DEFINE F == [op : 0 .. Half - 1, payload : Seq(Byte)]
             f == [op |-> op, payload |-> payload]
  <2>1. f \in F /\ meant \in Seq(F) /\ meant' = Append(meant, f)
    BY DEF ConnectionType, Begin
  <2> HIDE DEF F, f
  <2>2. meant' \in Seq(F)
    BY <2>1
  <2> QED
    BY <2>2 DEF F
<1>2. out' \in Seq(Byte) /\ at' \in Places /\ frame' \in Frame
  BY NoFrameType DEF Begin
<1> QED
  BY <1>1, <1>2 DEF ConnectionType, Begin, browser

LEMMA TypeStep == ASSUME ConnectionType, [ConnectionNext]_connectionVars PROVE ConnectionType'
<1>1. ASSUME UNCHANGED connectionVars PROVE ConnectionType'
  BY <1>1 DEF ConnectionType, connectionVars, browser, endpoint
<1>2. ASSUME ReadKeyByte \/ OmitText \/ FindNothing \/ Upgrade PROVE ConnectionType'
  BY <1>2 DEF ConnectionType, Places, browser, endpoint, ReadKeyByte, OmitText, FindNothing, Upgrade
<1>3. ASSUME NEW f \in ClientFrames, Speak(f) PROVE ConnectionType'
  <2>1. said' \in Seq(ClientFrames)
    BY <1>3 DEF ConnectionType, Speak
  <2>2. transit' \in Seq(Seq(Byte))
    <3>1. transit \in Seq(Seq(Byte)) /\ transit' = transit \o Pieces(f)
      BY <1>3 DEF ConnectionType, Speak
    <3> QED
      BY <3>1, PiecesType, ConcatProperties
  <2> QED
    BY <1>3, <2>1, <2>2 DEF ConnectionType, Speak, endpoint
<1>4. ASSUME Arrive PROVE ConnectionType'
  <2>1. transit \in Seq(Seq(Byte)) /\ transit # <<>> /\ arrived \in Seq(Byte)
    BY <1>4 DEF ConnectionType, Arrive
  <2>2. Head(transit) \in Seq(Byte) /\ Tail(transit) \in Seq(Seq(Byte))
    BY <2>1, HeadTailProperties
  <2>3. arrived \o Head(transit) \in Seq(Byte)
    BY <2>1, <2>2, ConcatProperties
  <2> QED
    BY <1>4, <2>2, <2>3 DEF ConnectionType, Arrive, endpoint
<1>5. ASSUME ReadHeader PROVE ConnectionType'
  <2>1. PICK held \in Junk :
           /\ frame' = [NoFrame EXCEPT !.op = Taken(2, held)[1] % Half,
                                       !.length = Taken(2, held)[2] % Half,
                                       !.masked = Taken(2, held)[2] >= Half]
           /\ at' = IF Taken(2, held)[2] % Half >= Half - 2 THEN "length"
                    ELSE AfterLength(Taken(2, held)[2] >= Half)
    BY <1>5 DEF ReadHeader
  <2> DEFINE h == Taken(2, held)
  <2>2. held \in Byte /\ 2 \in Nat /\ arrived \in Seq(Byte)
    BY WebSocketAssumption DEF ConnectionType
  <2>3. h \in Seq(Byte) /\ Len(h) = 2 /\ Left(2) \in Seq(Byte)
    BY <2>2, TakenAndLeft
  <2> HIDE DEF h
  <2>4. h[1] \in Nat /\ h[2] \in Nat
    <3>1. 1 \in 1 .. Len(h) /\ 2 \in 1 .. Len(h)
      BY <2>3
    <3>2. h[1] \in Byte /\ h[2] \in Byte
      BY <2>3, <3>1, ElementOfSeq
    <3> QED
      BY <3>2, BaseType
  <2>5. h[1] % Half \in 0 .. Half - 1 /\ h[2] % Half \in Nat
    BY <2>4, BaseType
  <2>6. (h[2] >= Half) \in BOOLEAN
    OBVIOUS
  <2>7. frame' \in Frame
    BY <2>1, <2>5, <2>6, NoFrameType DEF Frame, h
  <2>8. at' \in Places
    BY <2>1 DEF AfterLength, Places
  <2> QED
    BY <1>5, <2>3, <2>7, <2>8 DEF ConnectionType, ReadHeader, browser
<1>6. ASSUME ReadLength PROVE ConnectionType'
  <2> DEFINE k == IF frame.length = Half - 2 THEN 2 ELSE 8
  <2>1. PICK held \in Junk : frame' = [frame EXCEPT !.length = Number(Taken(k, held))]
    BY <1>6 DEF ReadLength
  <2>2. k \in Nat
    OBVIOUS
  <2>3. arrived' = Left(k) /\ at' = AfterLength(frame.masked)
    BY <1>6 DEF ReadLength
  <2> HIDE DEF k
  <2>4. held \in Byte /\ arrived \in Seq(Byte)
    BY WebSocketAssumption DEF ConnectionType
  <2>5. Taken(k, held) \in Seq(Byte) /\ Left(k) \in Seq(Byte)
    BY <2>2, <2>4, TakenAndLeft
  <2>6. Number(Taken(k, held)) \in Nat
    <3> DEFINE s == Taken(k, held)
    <3>1. s \in Seq(Byte)
      BY <2>5
    <3> HIDE DEF s
    <3>2. Len(s) \in 0 .. Len(s)
      BY <3>1
    <3>3. Number(s) \in Nat
      BY <3>1, <3>2, NumberDef
    <3> QED
      BY <3>3 DEF s
  <2>7. frame' \in Frame
    BY <2>1, <2>6 DEF ConnectionType, Frame
  <2>8. at' \in Places
    BY <2>3 DEF AfterLength, Places
  <2> QED
    BY <1>6, <2>3, <2>5, <2>7, <2>8 DEF ConnectionType, ReadLength, browser
<1>7. ASSUME ReadMask PROVE ConnectionType'
  <2>1. 0 \in Byte /\ 4 \in Nat /\ arrived \in Seq(Byte)
    BY BaseType DEF ConnectionType
  <2>2. Taken(4, 0) \in Seq(Byte) /\ Len(Taken(4, 0)) = 4 /\ Left(4) \in Seq(Byte)
    BY <2>1, TakenAndLeft
  <2>3. frame' \in Frame
    BY <1>7, <2>2 DEF ReadMask, ConnectionType, Frame
  <2> QED
    BY <1>7, <2>2, <2>3 DEF ConnectionType, ReadMask, Places, browser
<1>8. ASSUME ReadPayload PROVE ConnectionType'
  <2> DEFINE k == Least(Missing, Len(arrived))
  <2>1. frame' = [frame EXCEPT !.payload = @ \o Taken(k, 0)] /\ arrived' = Left(k) /\ Missing > 0
    BY <1>8 DEF ReadPayload, Receive
  <2>2. Missing \in Int /\ Len(arrived) \in Nat /\ arrived \in Seq(Byte) /\ frame \in Frame
    <3>1. frame.length \in Nat /\ frame.payload \in Seq(Byte)
      BY DEF ConnectionType, Frame
    <3>2. frame.length \in Nat /\ Len(frame.payload) \in Nat
      BY <3>1
    <3> QED
      BY <3>2 DEF ConnectionType, Missing
  <2>3. k \in Nat
    BY <2>1, <2>2 DEF Least
  <2> HIDE DEF k
  <2>4. Taken(k, 0) \in Seq(Byte) /\ Left(k) \in Seq(Byte)
    <3>1. 0 \in Byte
      BY BaseType
    <3> QED
      BY <2>2, <2>3, <3>1, TakenAndLeft
  <2>5. frame.payload \o Taken(k, 0) \in Seq(Byte)
    BY <2>2, <2>4, ConcatProperties DEF Frame
  <2>6. frame' \in Frame
    BY <2>1, <2>2, <2>5 DEF Frame
  <2> QED
    BY <1>8, <2>1, <2>4, <2>6 DEF ConnectionType, ReadPayload, Receive, browser
<1>9. ASSUME HandleClose PROVE ConnectionType'
  <2>1. Begin(Close, <<>>, ControlFrame(Close, <<>>), "closing")
    BY <1>9 DEF HandleClose, Answer
  <2>2. <<>> \in Seq(Byte) /\ "closing" \in Places
    BY DEF Places
  <2> QED
    BY <2>1, <2>2, OpcodeTypes, ControlType, BeginType
<1>10. ASSUME HandlePing PROVE ConnectionType'
  <2>1. Begin(Pong, Unmasked, ControlFrame(Pong, Unmasked), "answering")
    BY <1>10 DEF HandlePing, Answer
  <2>2. Unmasked \in Seq(Byte) /\ "answering" \in Places
    BY UnmaskedType DEF Places
  <2>3. ControlFrame(Pong, Unmasked) \in Seq(Byte)
    BY <2>2, OpcodeTypes, ControlType
  <2> QED
    BY <2>1, <2>2, <2>3, OpcodeTypes, BeginType
<1>11. ASSUME Ignore PROVE ConnectionType'
  BY <1>11, NoFrameType DEF ConnectionType, Ignore, Places, browser
<1>12. ASSUME SendText PROVE ConnectionType'
  <2>1. PICK n \in TextLengths :
           Begin(Text, [i \in 1 .. n |-> i % Base], TextFrame([i \in 1 .. n |-> i % Base]), "sending")
    BY <1>12 DEF SendText
  <2> DEFINE payload == [i \in 1 .. n |-> i % Base]
  <2>2. payload \in Seq(Byte) /\ Len(payload) \in Lengths /\ "sending" \in Places
    BY TextPayload DEF Places
  <2>3. Begin(Text, payload, TextFrame(payload), "sending")
    BY <2>1
  <2> HIDE DEF payload
  <2>4. TextFrame(payload) \in Seq(Byte)
    <3>1. TextFrame(payload) = Encoding(Text, payload) /\ <<>> \in Seq(Byte)
      BY DEF TextFrame, Encoding
    <3> QED
      BY <2>2, <3>1, OneFrame, OpcodeTypes
  <2> QED
    BY <2>2, <2>3, <2>4, OpcodeTypes, BeginType
<1>13. ASSUME SendBytes PROVE ConnectionType'
  <2>1. PICK n \in 1 .. Len(out) :
           /\ stream' = stream \o SubSeq(out, 1, n)
           /\ out' = SubSeq(out, n + 1, Len(out))
           /\ at' = IF n = Len(out) THEN After[at] ELSE at
    BY <1>13 DEF SendBytes
  <2>2. out \in Seq(Byte) /\ stream \in Seq(Byte) /\ Len(out) \in Nat
    BY DEF ConnectionType
  <2>3. n \in Nat /\ n <= Len(out)
    BY <2>2
  <2>4. SubSeq(out, 1, n) \in Seq(Byte) /\ SubSeq(out, n + 1, Len(out)) \in Seq(Byte)
    <3>1. \A i \in 1 .. n : out[i] \in Byte
      BY <2>2, <2>3
    <3>2. \A i \in n + 1 .. Len(out) : out[i] \in Byte
      BY <2>2, <2>3
    <3>3. 1 \in Int /\ n \in Int /\ n + 1 \in Int /\ Len(out) \in Int
      BY <2>2, <2>3
    <3> QED
      BY <3>1, <3>2, <3>3, SubSeqProperties
  <2>5. stream' \in Seq(Byte)
    BY <2>1, <2>2, <2>4, ConcatProperties
  <2>6. at' \in Places
    BY <1>13, <2>1, SMTT(30) DEF SendBytes, ConnectionType, After, Places
  <2> QED
    BY <1>13, <2>1, <2>4, <2>5, <2>6 DEF ConnectionType, SendBytes, browser
<1> QED
  BY <1>1, <1>2, <1>3, <1>4, <1>5, <1>6, <1>7, <1>8, <1>9, <1>10, <1>11, <1>12, <1>13 DEF ConnectionNext

-----------------------------------------------------------------------------
(* What the server sends.                                                  *)

Meant == [op : 0 .. Half - 1, payload : Seq(Byte)]
Sendable == {p \in Seq(Byte) : Len(p) \in Lengths}

\* b has been sent, and of one more frame what is in sent.
Underway(b, sent, frames, op, payload) ==
    /\ stream = b \o sent
    /\ Says(b, frames)
    /\ sent \o out = Encoding(op, payload)
    /\ meant = Append(frames, [op |-> op, payload |-> payload])

SentInv ==
    /\ at \notin DOMAIN After => out = <<>> /\ Says(stream, meant)
    /\ at \in DOMAIN After =>
          \E b, sent \in Seq(Byte), frames \in Seq(Meant), op \in 0 .. Half - 1, payload \in Sendable :
              Underway(b, sent, frames, op, payload)

\* A ping that has been read is one that can be answered.
ShortPing == Complete /\ frame.op = Ping => Len(frame.payload) < Half - 2

LEMMA AfterDomain == DOMAIN After = {"sending", "answering", "closing"}
BY DEF After

LEMMA MeantIsSent == Seq(Meant) \subseteq Seq(Sent)
<1>1. Meant \subseteq Sent
  BY BaseType DEF Meant, Sent
<1> QED
  BY <1>1, SeqMonotonic

LEMMA ShortLengths ==
    ASSUME NEW n \in Nat, n < Half - 2
    PROVE  n \in Lengths
<1>1. PICK s \in [0 .. 8 -> Nat] :
         /\ s[0] = n
         /\ \A i \in 1 .. 8 : s[i] = s[i - 1] \div Base
         /\ \A i \in 0 .. 8 : Shifted(n, i) = s[i]
  <2>1. 8 \in Nat
    OBVIOUS
  <2> QED
    BY <2>1, ShiftedDef
<1>2. ASSUME NEW m \in Nat, m < Base PROVE m \div Base = 0
  BY <1>2, BaseType, SMTT(30)
<1> DEFINE T == {i \in 0 .. 8 : s[i] < Base /\ (i = 0 \/ s[i] = 0)}
<1>3. 0 \in T
  BY <1>1, BaseType
<1>4. ASSUME NEW i \in 1 .. 8, i - 1 \in T PROVE i \in T
  <2> DEFINE j == i - 1
  <2>1. j \in 0 .. 8 /\ s[j] < Base /\ s[j] \in Nat
    BY <1>4
  <2>2. s[i] = s[j] \div Base
    BY <1>1
  <2> HIDE DEF j
  <2>3. s[i] = 0
    BY <1>2, <2>1, <2>2
  <2> QED
    BY <2>3, BaseType
<1> HIDE DEF T
<1>5. 8 \in Nat /\ 8 \in 0 .. 8
  OBVIOUS
<1>6. 8 \in T
  BY <1>3, <1>4, <1>5, UpTo
<1>7. s[8] = 0
  BY <1>6 DEF T
<1> QED
  BY <1>1, <1>5, <1>7 DEF Lengths

LEMMA ConcatenatedBytes == \A x, y, z \in Seq(Byte) : (x \o y) \o z = x \o (y \o z)
<1> TAKE x, y, z \in Seq(Byte)
<1> QED
  BY ConcatAssociative

LEMMA SentBegins == ConnectionInit => SentInv
  BY SaysNothing, AfterDomain DEF ConnectionInit, SentInv

LEMMA SentNext ==
    ASSUME ConnectionType, SentInv, at \notin DOMAIN After,
           NEW op \in 0 .. Half - 1, NEW payload \in Sendable,
           NEW next \in DOMAIN After, Begin(op, payload, Encoding(op, payload), next)
    PROVE  SentInv'
<1>1. PICK b \in Seq(Byte), frames \in Seq(Meant) : b = stream /\ frames = meant /\ Says(b, frames)
  BY DEF ConnectionType, SentInv, Meant
<1>2. /\ out' = Encoding(op, payload) /\ at' = next /\ stream' = b
      /\ meant' = Append(frames, [op |-> op, payload |-> payload])
  BY <1>1 DEF Begin
<1>3. stream' = b \o <<>> /\ <<>> \in Seq(Byte)
  BY <1>2, ConcatEmptySeq
<1>4. <<>> \o out' = Encoding(op, payload)
  <2> DEFINE E == Encoding(op, payload)
  <2>1. E \in Seq(Byte)
    BY <1>3, OneFrame DEF Sendable
  <2>2. <<>> \o E = E
    <3> HIDE DEF E
    <3> QED
      BY <2>1, ConcatEmptySeq
  <2>3. out' = E
    BY <1>2
  <2> QED
    BY <2>2, <2>3, Zenon
<1>5. Underway(b, <<>>, frames, op, payload)'
  BY <1>1, <1>2, <1>3, <1>4 DEF Underway
<1>6. at' \in DOMAIN After
  BY <1>2
<1> QED
  BY <1>3, <1>5, <1>6 DEF SentInv

LEMMA SentStep ==
    ASSUME ConnectionType, SentInv, ShortPing, [ConnectionNext]_connectionVars
    PROVE  SentInv'
<1>1. ASSUME UNCHANGED <<out, meant, stream>>, at' = at \/ (at \notin DOMAIN After /\ at' \notin DOMAIN After)
      PROVE  SentInv'
  BY <1>1 DEF SentInv, Underway
<1>2. ASSUME \/ UNCHANGED connectionVars \/ ReadKeyByte \/ Arrive \/ ReadPayload
             \/ \E f \in ClientFrames : Speak(f)
      PROVE  UNCHANGED <<out, meant, stream>> /\ at' = at
  BY <1>2 DEF connectionVars, browser, endpoint, ReadKeyByte, Arrive, ReadPayload, Receive, Speak
<1>3. ASSUME \/ Upgrade \/ FindNothing \/ ReadHeader \/ ReadLength \/ ReadMask \/ Ignore \/ OmitText
      PROVE  UNCHANGED <<out, meant, stream>> /\ at \notin DOMAIN After /\ at' \notin DOMAIN After
  BY <1>3, AfterDomain
     DEF browser, endpoint, Upgrade, FindNothing, ReadHeader, ReadLength, ReadMask, Ignore, Complete,
         OmitText, AfterLength
<1>4. ASSUME HandleClose PROVE SentInv'
  <2>1. /\ Begin(Close, <<>>, ControlFrame(Close, <<>>), "closing") /\ at = "payload"
    BY <1>4 DEF HandleClose, Answer, Complete
  <2>2. <<>> \in Sendable /\ Len(<<>>) < Half - 2 /\ <<>> \in Seq(Byte)
    <3>1. 0 \in Lengths
      BY BaseType, ShortLengths
    <3> QED
      BY <3>1, BaseType DEF Sendable
  <2>3. ControlFrame(Close, <<>>) = Encoding(Close, <<>>)
    BY <2>2, OpcodeTypes, ControlType
  <2> QED
    BY <2>1, <2>2, <2>3, AfterDomain, OpcodeTypes, SentNext
<1>5. ASSUME HandlePing PROVE SentInv'
  <2>1. Begin(Pong, Unmasked, ControlFrame(Pong, Unmasked), "answering") /\ at = "payload"
    BY <1>5 DEF HandlePing, Answer, Complete
  <2>2. Unmasked \in Seq(Byte) /\ Len(Unmasked) < Half - 2
    BY <1>5, UnmaskedType DEF HandlePing, ShortPing
  <2>3. Unmasked \in Sendable
    <3>1. Len(Unmasked) \in Nat
      BY <2>2
    <3> QED
      BY <2>2, <3>1, ShortLengths DEF Sendable
  <2>4. ControlFrame(Pong, Unmasked) = Encoding(Pong, Unmasked)
    BY <2>2, OpcodeTypes, ControlType
  <2> QED
    BY <2>1, <2>3, <2>4, AfterDomain, OpcodeTypes, SentNext
<1>6. ASSUME SendText PROVE SentInv'
  <2>1. PICK n \in TextLengths :
           Begin(Text, [i \in 1 .. n |-> i % Base], TextFrame([i \in 1 .. n |-> i % Base]), "sending")
    BY <1>6 DEF SendText
  <2> DEFINE payload == [i \in 1 .. n |-> i % Base]
  <2>2. payload \in Sendable
    BY TextPayload DEF Sendable
  <2>3. Begin(Text, payload, TextFrame(payload), "sending")
    BY <2>1
  <2> HIDE DEF payload
  <2>4. TextFrame(payload) = Encoding(Text, payload)
    BY DEF TextFrame, Encoding
  <2>5. at = "texting"
    BY <1>6 DEF SendText
  <2> QED
    BY <2>2, <2>3, <2>4, <2>5, AfterDomain, OpcodeTypes, SentNext
<1>7. ASSUME SendBytes PROVE SentInv'
  <2>1. PICK n \in 1 .. Len(out) :
           /\ stream' = stream \o SubSeq(out, 1, n)
           /\ out' = SubSeq(out, n + 1, Len(out))
           /\ at' = IF n = Len(out) THEN After[at] ELSE at
    BY <1>7 DEF SendBytes
  <2>2. out \in Seq(Byte) /\ Len(out) \in Nat /\ at \in DOMAIN After /\ UNCHANGED meant
    BY <1>7 DEF ConnectionType, SendBytes
  <2>3. n \in Nat /\ n <= Len(out)
    BY <2>2
  <2>4. PICK b \in Seq(Byte), sent \in Seq(Byte), frames \in Seq(Meant), op \in 0 .. Half - 1, payload \in Sendable :
           Underway(b, sent, frames, op, payload)
    BY <2>2 DEF SentInv
  <2>5. PICK part \in Seq(Byte), left \in Seq(Byte) :
           /\ part \o left = out
           /\ stream' = stream \o part
           /\ out' = left
           /\ n = Len(out) => part = out /\ left = <<>>
    <3> DEFINE p == SubSeq(out, 1, n)
               l == SubSeq(out, n + 1, Len(out))
    <3>1. 1 \in 1 .. Len(out) + 1 /\ n \in 1 - 1 .. Len(out) /\ Len(out) \in n .. Len(out)
      BY <2>2, <2>3
    <3>2. p \o l = SubSeq(out, 1, Len(out))
      BY <2>2, <3>1, ConcatAdjacentSubSeq
    <3>3. \A i \in 1 .. n : out[i] \in Byte
      BY <2>2, <2>3
    <3>4. \A i \in n + 1 .. Len(out) : out[i] \in Byte
      BY <2>2, <2>3
    <3>5. 1 \in Int /\ n \in Int /\ n + 1 \in Int /\ Len(out) \in Int
      BY <2>2, <2>3
    <3>6. p \in Seq(Byte) /\ l \in Seq(Byte)
      BY <3>3, <3>4, <3>5, SubSeqProperties
    <3>7. SubSeq(out, 1, Len(out)) = out
      BY <2>2, SubSeqFull
    <3>8. n = Len(out) => l = <<>>
      BY <2>2, <3>5, SubSeqEmpty
    <3>9. n = Len(out) => p = out
      BY <3>7
    <3>10. stream' = stream \o p /\ out' = l
      BY <2>1
    <3> HIDE DEF p, l
    <3> QED
      BY <3>2, <3>6, <3>7, <3>8, <3>9, <3>10
  <2>6. PICK more \in Seq(Byte) : more = sent \o part
    <3>1. sent \o part \in Seq(Byte)
      BY ConcatProperties
    <3> QED
      BY <3>1
  <2>7. more \o left = sent \o out
    <3>1. (sent \o part) \o left = sent \o (part \o left)
      BY ConcatAssociative, SMTT(30)
    <3> QED
      BY <2>5, <2>6, <3>1
  <2>8. stream' = b \o more
    <3>1. (b \o sent) \o part = b \o (sent \o part)
      BY ConcatenatedBytes, SMTT(30)
    <3> QED
      BY <2>4, <2>5, <2>6, <3>1 DEF Underway
  <2>9. out' = left /\ more \o out' = Encoding(op, payload)
    BY <2>4, <2>5, <2>7 DEF Underway
  <2>10. CASE n = Len(out)
    <3>1. more = Encoding(op, payload)
      <4>1. more \o <<>> = more
        BY <2>8, ConcatEmptySeq
      <4> QED
        BY <2>5, <2>9, <2>10, <4>1
    <3>2. Says(b \o Encoding(op, payload), Append(frames, [op |-> op, payload |-> payload]))
      <4>1. frames \in Seq(Sent) /\ payload \in Seq(Byte) /\ Len(payload) \in Lengths
        BY MeantIsSent DEF Sendable
      <4>2. Says(b, frames)
        BY <2>4 DEF Underway
      <4> QED
        BY <4>1, <4>2, SaysMore
    <3>3. Says(stream', meant')
      BY <2>2, <2>4, <2>8, <3>1, <3>2 DEF Underway
    <3>4. at' \notin DOMAIN After
      BY <2>1, <2>2, <2>10 DEF After
    <3> QED
      BY <2>5, <2>10, <3>3, <3>4 DEF SentInv
  <2>11. CASE n # Len(out)
    <3>1. at' = at
      BY <2>1, <2>11
    <3>2. Underway(b, more, frames, op, payload)'
      BY <2>2, <2>4, <2>8, <2>9 DEF Underway
    <3> QED
      BY <2>2, <3>1, <3>2 DEF SentInv
  <2> QED
    BY <2>10, <2>11
<1> QED
  BY <1>1, <1>2, <1>3, <1>4, <1>5, <1>6, <1>7 DEF ConnectionNext

LEMMA SentRead == ASSUME ConnectionType, SentInv PROVE BrowserReadsWhatIsMeant
<1>1. stream \in Seq(Byte) /\ meant \in Seq(Meant) /\ meant \in Seq(Sent) /\ out \in Seq(Byte)
  BY MeantIsSent DEF ConnectionType, Meant
<1>2. ASSUME Decoded(stream) = meant PROVE BrowserReadsWhatIsMeant
  <2>1. IsPrefix(meant, meant)
    <3>1. Len(meant) \in Nat
      BY <1>1
    <3> QED
      BY <1>1, <3>1, PrefixMeans
  <2> QED
    BY <1>2, <2>1 DEF BrowserReadsWhatIsMeant
<1>3. CASE at \notin DOMAIN After
  BY <1>1, <1>2, <1>3, SaysExactly DEF SentInv
<1>4. CASE at \in DOMAIN After
  <2>1. PICK b \in Seq(Byte), sent \in Seq(Byte), frames \in Seq(Meant), op \in 0 .. Half - 1, payload \in Sendable :
           Underway(b, sent, frames, op, payload)
    BY <1>4 DEF SentInv
  <2>2. frames \in Seq(Sent) /\ payload \in Seq(Byte) /\ Len(payload) \in Lengths
    BY MeantIsSent DEF Sendable
  <2> DEFINE f == [op |-> op, payload |-> payload]
  <2>3. f \in Meant
    BY <2>2 DEF Meant
  <2>4. stream = b \o sent /\ Says(b, frames) /\ sent \o out = Encoding(op, payload) /\ meant = Append(frames, f)
    BY <2>1 DEF Underway
  <2>5. CASE out = <<>>
    <3>1. sent = Encoding(op, payload)
      BY <2>4, <2>5, ConcatEmptySeq
    <3>2. Says(stream, meant)
      BY <2>2, <2>4, <3>1, SaysMore
    <3> QED
      BY <1>1, <1>2, <3>2, SaysExactly
  <2>6. CASE out # <<>>
    <3>1. Decoded(sent) = <<>>
      BY <1>1, <2>2, <2>4, <2>6, PartOfFrame
    <3>2. Decoded(stream) = frames \o <<>>
      BY <2>4, <3>1 DEF Says
    <3>3. Decoded(stream) = frames
      BY <2>2, <3>2, ConcatEmptySeq
    <3>4. IsPrefix(frames, frames)
      <4>1. Len(frames) \in Nat
        OBVIOUS
      <4> QED
        BY <4>1, PrefixMeans
    <3> HIDE DEF f
    <3>5. IsPrefix(frames, meant)
      BY <2>3, <2>4, <3>4, PrefixAppend
    <3> QED
      BY <1>4, <3>3, <3>5 DEF BrowserReadsWhatIsMeant
  <2> QED
    BY <2>5, <2>6
<1> QED
  BY <1>3, <1>4

-----------------------------------------------------------------------------
(* What the browser sends.                                                 *)

Reading == {"length", "mask", "payload"}

\* The bytes of a frame stand after the first s of T.
Placed(T, s, f) ==
    /\ \A i \in 1 .. Len(ClientHeader(f)) : T[s + i] = ClientHeader(f)[i]
    /\ \A i \in 1 .. Len(f.payload) : T[s + Len(ClientHeader(f)) + i] = ClientPayload(f)[i]

\* T is everything that was said; the first j frames take start[j] bytes.
Taped(T, start) ==
    /\ start[0] = 0
    /\ start[Len(said)] = Len(T)
    /\ \A j, k \in 0 .. Len(said) : j < k => start[j] < start[k]
    /\ \A j \in 1 .. Len(said) :
          /\ start[j] = start[j - 1] + Len(ClientHeader(said[j])) + Len(said[j].payload)
          /\ Placed(T, start[j - 1], said[j])

\* cut[0] bytes of it have arrived, and the i-th piece under way is the one up
\* to cut[i]; no header is cut.
Cut(T, start, cut) ==
    /\ cut[Len(transit)] = Len(T)
    /\ \A i \in 1 .. Len(transit) :
          /\ cut[i] = cut[i - 1] + Len(transit[i])
          /\ \A m \in 1 .. Len(transit[i]) : transit[i][m] = T[cut[i - 1] + m]
    /\ \A i \in 0 .. Len(transit) :
          /\ cut[i] <= Len(T)
          /\ \A j \in 1 .. Len(said) :
                start[j - 1] < cut[i] => cut[i] >= start[j - 1] + Len(ClientHeader(said[j]))

\* All that has arrived but the first c bytes has still to be received.
Arrived(T, r, c) ==
    /\ c <= r
    /\ Len(arrived) = r - c
    /\ \A m \in 1 .. Len(arrived) : arrived[m] = T[c + m]

\* What is known of a frame that begins after s bytes.
Known(f, s, c, x, ext) ==
    /\ Announces(f, x, ext)
    /\ frame.op = f.op
    /\ frame.masked = (f.mask # <<>>)
    /\ at = "length" => frame.length = x /\ x >= Half - 2 /\ c = s + 2 /\ frame.payload = <<>>
    /\ at = "mask" =>
          /\ f.mask # <<>> /\ frame.length = Len(f.payload)
          /\ c = s + 2 + Len(ext) /\ frame.payload = <<>>
    /\ at = "payload" =>
          /\ f.mask # <<>> => frame.mask = f.mask
          /\ frame.length = Len(f.payload)
          /\ Len(frame.payload) <= Len(f.payload)
          /\ c = s + Len(ClientHeader(f)) + Len(frame.payload)
          /\ \A i \in 1 .. Len(frame.payload) : frame.payload[i] = ClientPayload(f)[i]

\* h frames have been taken.
Stage(start, c, h) ==
    /\ at \notin Reading => c = start[h]
    /\ at \in Reading =>
          /\ h < Len(said)
          /\ \E x \in 0 .. Half - 1, ext \in Seq(Byte) : Known(said[h + 1], start[h], c, x, ext)

Answered(h) ==
    /\ Payloads(meant, Pong) = Payloads(SubSeq(said, 1, h), Ping)
    /\ \A i \in 1 .. Len(said) : said[i].op = Close => i = Len(said)
    /\ at \in {"closing", "closed"} => h > 0 /\ h = Len(said) /\ said[h].op = Close

Heard(T, start, cut, c, h) ==
    Taped(T, start) /\ Cut(T, start, cut) /\ Arrived(T, cut[0], c) /\ Stage(start, c, h) /\ Answered(h)

HeardInv ==
    \E T \in Seq(Byte), start \in [0 .. Len(said) -> Nat], cut \in [0 .. Len(transit) -> Nat], c \in Nat,
       h \in 0 .. Len(said) : Heard(T, start, cut, c, h)

LEMMA HeardBegins == ConnectionInit => HeardInv
<1> SUFFICES ASSUME ConnectionInit PROVE HeardInv
  OBVIOUS
<1>1. said = <<>> /\ transit = <<>> /\ arrived = <<>> /\ meant = <<>> /\ at = "handshaking"
  BY DEF ConnectionInit
<1> DEFINE zero == [i \in 0 .. 0 |-> 0]
<1>2. zero \in [0 .. 0 -> Nat] /\ zero[0] = 0 /\ 0 .. 0 = {0} /\ 1 .. 0 = {}
  OBVIOUS
<1>3. /\ Len(said) = 0 /\ Len(transit) = 0 /\ Len(arrived) = 0 /\ <<>> \in Seq(Byte) /\ Len(<<>>) = 0
  BY <1>1
<1> HIDE DEF zero
<1>4. Taped(<<>>, zero)
  BY <1>2, <1>3 DEF Taped
<1>5. Cut(<<>>, zero, zero)
  BY <1>2, <1>3 DEF Cut
<1>6. Arrived(<<>>, zero[0], 0)
  BY <1>2, <1>3 DEF Arrived
<1>7. Stage(zero, 0, 0)
  BY <1>1, <1>2 DEF Stage, Reading
<1>8. Answered(0)
  <2>1. SubSeq(said, 1, 0) = <<>>
    BY SubSeqEmpty
  <2>2. Payloads(<<>>, Pong) = <<>> /\ Payloads(<<>>, Ping) = <<>>
    <3>1. ASSUME NEW op PROVE Payloads(<<>>, op) = <<>>
      <4>1. <<>> \in Seq(Meant) /\ \A x \in Meant : x.payload \in Seq(Byte)
        BY DEF Meant
      <4>2. PICK f \in [0 .. Len(<<>>) -> Seq(Seq(Byte))] : Collects(f, <<>>, op)
        BY <4>1, PayloadsDef
      <4>3. SubSeq(<<>>, 1, 0) = <<>> /\ 0 \in 0 .. Len(<<>>)
        BY SubSeqEmpty
      <4> QED
        BY <4>2, <4>3 DEF Collects
    <3> QED
      BY <3>1
  <2>3. Payloads(meant, Pong) = Payloads(SubSeq(said, 1, 0), Ping)
    BY <1>1, <2>1, <2>2, Zenon
  <2>4. at \notin {"closing", "closed"}
    BY <1>1
  <2>5. 1 .. Len(said) = {}
    BY <1>2, <1>3
  <2> QED
    BY <2>3, <2>4, <2>5 DEF Answered
<1>9. Heard(<<>>, zero, zero, 0, 0)
  BY <1>4, <1>5, <1>6, <1>7, <1>8 DEF Heard
<1> QED
  BY <1>2, <1>3, <1>9 DEF HeardInv

\* When something of a frame has arrived, its header has.
LEMMA WholeHeader ==
    ASSUME ConnectionType,
           NEW T \in Seq(Byte), NEW start \in [0 .. Len(said) -> Nat], NEW cut \in [0 .. Len(transit) -> Nat],
           NEW h \in 0 .. Len(said), Taped(T, start), Cut(T, start, cut), start[h] < cut[0]
    PROVE  /\ h < Len(said) /\ h + 1 \in 1 .. Len(said) /\ said[h + 1] \in ClientFrames
           /\ start[h] + Len(ClientHeader(said[h + 1])) <= cut[0]
           /\ Placed(T, start[h], said[h + 1])
           /\ start[h + 1] = start[h] + Len(ClientHeader(said[h + 1])) + Len(said[h + 1].payload)
<1> DEFINE n == Len(said)
<1>1. said \in Seq(ClientFrames) /\ n \in Nat /\ Len(transit) \in Nat /\ 0 \in 0 .. Len(transit)
  BY DEF ConnectionType
<1>2. cut[0] \in Nat /\ cut[0] <= Len(T) /\ Len(T) \in Nat
  BY <1>1, SMTT(30) DEF Cut
<1>3. h < n
  <2> SUFFICES ASSUME h = n PROVE FALSE
    BY <1>1
  <2>1. start[h] = Len(T) /\ start[h] \in Nat
    BY DEF Taped
  <2> QED
    BY <1>2, <2>1
<1>4. h + 1 \in 1 .. n /\ (h + 1) - 1 = h /\ start[h] \in Nat
  BY <1>1, <1>3
<1>5. said[h + 1] \in ClientFrames
  BY <1>1, <1>4, ElementOfSeq
<1>6. cut[0] >= start[h] + Len(ClientHeader(said[h + 1]))
  <2> DEFINE j == h + 1
  <2>1. j \in 1 .. n /\ j - 1 = h
    BY <1>4
  <2> HIDE DEF j
  <2>2. start[j - 1] < cut[0] => cut[0] >= start[j - 1] + Len(ClientHeader(said[j]))
    BY <1>1, <2>1 DEF Cut
  <2>3. cut[0] >= start[h] + Len(ClientHeader(said[j]))
    BY <2>1, <2>2
  <2> QED
    BY <2>3 DEF j
<1>7. /\ Placed(T, start[h], said[h + 1])
      /\ start[h + 1] = start[h] + Len(ClientHeader(said[h + 1])) + Len(said[h + 1].payload)
  <2> DEFINE j == h + 1
  <2>1. j \in 1 .. n /\ j - 1 = h
    BY <1>4
  <2> HIDE DEF j
  <2>2. /\ Placed(T, start[j - 1], said[j])
        /\ start[j] = start[j - 1] + Len(ClientHeader(said[j])) + Len(said[j].payload)
    BY <2>1 DEF Taped
  <2>3. /\ Placed(T, start[h], said[j])
        /\ start[j] = start[h] + Len(ClientHeader(said[j])) + Len(said[j].payload)
    BY <2>1, <2>2
  <2> QED
    BY <2>3 DEF j
<1>8. start[h] + Len(ClientHeader(said[h + 1])) <= cut[0]
  <2>1. Len(ClientHeader(said[h + 1])) \in Nat
    BY <1>5, ClientBytes
  <2> QED
    BY <1>2, <1>4, <1>6, <2>1
<1> QED
  BY <1>3, <1>4, <1>5, <1>7, <1>8

\* What recv() returns of what has arrived entirely.
LEMMA Received ==
    ASSUME ConnectionType, NEW T \in Seq(Byte), NEW r \in Nat, NEW c \in Nat, Arrived(T, r, c),
           NEW k \in Nat, c + k <= r, NEW held \in Byte, arrived' = Left(k)
    PROVE  /\ Taken(k, held) \in Seq(Byte) /\ Len(Taken(k, held)) = k
           /\ \A i \in 1 .. k : Taken(k, held)[i] = T[c + i]
           /\ Arrived(T, r, c + k)'
<1> DEFINE n == Len(arrived)
<1>1. arrived \in Seq(Byte) /\ n \in Nat /\ n = r - c /\ k <= n /\ c <= r
  BY DEF ConnectionType, Arrived
<1>2. /\ Taken(k, held) \in Seq(Byte) /\ Len(Taken(k, held)) = k
      /\ \A i \in 1 .. k : Taken(k, held)[i] = arrived[i]
      /\ Len(Left(k)) = n - k
      /\ \A i \in 1 .. n - k : Left(k)[i] = arrived[k + i]
  BY <1>1, TakenAndLeft
<1>3. \A m \in 1 .. n : arrived[m] = T[c + m]
  BY DEF Arrived
<1> HIDE DEF n
<1>4. \A i \in 1 .. k : Taken(k, held)[i] = T[c + i]
  <2> SUFFICES ASSUME NEW i \in 1 .. k PROVE Taken(k, held)[i] = T[c + i]
    OBVIOUS
  <2>1. i \in 1 .. n
    BY <1>1
  <2>2. arrived[i] = T[c + i]
    BY <1>3, <2>1
  <2> QED
    BY <1>2, <2>2
<1>5. ASSUME NEW m \in 1 .. n - k PROVE Left(k)[m] = T[(c + k) + m]
  <2> DEFINE j == k + m
  <2>1. j \in 1 .. n /\ c + j = (c + k) + m
    BY <1>1
  <2> HIDE DEF j
  <2>2. arrived[j] = T[(c + k) + m]
    BY <1>3, <2>1
  <2>3. Left(k)[m] = arrived[j]
    BY <1>2 DEF j
  <2> QED
    BY <2>2, <2>3
<1>6. c + k <= r /\ n - k = r - (c + k)
  BY <1>1
<1>7. Len(arrived') = r - (c + k) /\ \A m \in 1 .. Len(arrived') : arrived'[m] = T[(c + k) + m]
  BY <1>2, <1>5, <1>6
<1> QED
  BY <1>2, <1>4, <1>6, <1>7 DEF Arrived

LEMMA LowBits ==
    ASSUME NEW y \in 0 .. Half - 1
    PROVE  y % Half = y /\ (Half + y) % Half = y /\ (y + Half) % Half = y
<1>1. ASSUME NEW b \in Nat, b > 0, NEW m \in 0 .. b - 1
      PROVE  m % b = m /\ (b + m) % b = m
  <2>1. m % b = m
    OBVIOUS
  <2>2. (b + m) % b = m
    BY <1>1
  <2> QED
    BY <2>1, <2>2
<1>2. Half \in Nat /\ Half > 0
  BY BaseType
<1>3. y % Half = y /\ (Half + y) % Half = y
  BY <1>1, <1>2
<1>4. Half + y = y + Half
  BY <1>2
<1> QED
  BY <1>3, <1>4

\* A step that only receives.
LEMMA OnlyReceived ==
    ASSUME ConnectionType,
           NEW T \in Seq(Byte), NEW start \in [0 .. Len(said) -> Nat], NEW cut \in [0 .. Len(transit) -> Nat],
           NEW c \in Nat, NEW d \in Nat, NEW h \in 0 .. Len(said), Heard(T, start, cut, c, h),
           UNCHANGED <<said, transit, meant>>, at' \notin {"closing", "closed"},
           Arrived(T, cut[0], d)', Stage(start, d, h)'
    PROVE  HeardInv'
<1>1. Taped(T, start)' /\ Cut(T, start, cut)'
  BY DEF Heard, Taped, Cut
<1>2. Answered(h)'
  BY DEF Heard, Answered
<1>3. Heard(T, start, cut, d, h)'
  BY <1>1, <1>2 DEF Heard
<1>4. start \in [0 .. Len(said') -> Nat] /\ cut \in [0 .. Len(transit') -> Nat] /\ h \in 0 .. Len(said')
  OBVIOUS
<1> QED
  BY <1>3, <1>4 DEF HeardInv

LEMMA HeardHeader == ASSUME ConnectionType, HeardInv, ReadHeader PROVE HeardInv'
<1>1. PICK T \in Seq(Byte), start \in [0 .. Len(said) -> Nat], cut \in [0 .. Len(transit) -> Nat], c \in Nat,
           h \in 0 .. Len(said) : Heard(T, start, cut, c, h)
  BY DEF HeardInv
<1>2. Taped(T, start) /\ Cut(T, start, cut) /\ Arrived(T, cut[0], c) /\ Stage(start, c, h)
  BY <1>1 DEF Heard
<1>3. PICK held \in Junk :
         /\ frame' = [NoFrame EXCEPT !.op = Taken(2, held)[1] % Half,
                                     !.length = Taken(2, held)[2] % Half,
                                     !.masked = Taken(2, held)[2] >= Half]
         /\ at' = IF Taken(2, held)[2] % Half >= Half - 2 THEN "length"
                  ELSE AfterLength(Taken(2, held)[2] >= Half)
  BY DEF ReadHeader
<1>4. at = "polling" /\ arrived # <<>> /\ arrived' = Left(2) /\ UNCHANGED <<said, transit, meant>>
  BY DEF ReadHeader, browser
<1> DEFINE r == cut[0]
<1>5. r \in Nat /\ arrived \in Seq(Byte) /\ said \in Seq(ClientFrames)
  <2>1. Len(transit) \in Nat
    BY DEF ConnectionType
  <2>2. 0 \in 0 .. Len(transit)
    BY <2>1
  <2> QED
    BY <2>2 DEF ConnectionType
<1>6. c = start[h] /\ c < r
  <2>1. c = start[h]
    BY <1>2, <1>4 DEF Stage, Reading
  <2>2. Len(arrived) \in Nat \ {0} /\ Len(arrived) = r - c
    BY <1>2, <1>4, <1>5, EmptySeq DEF Arrived
  <2> QED
    BY <1>5, <2>1, <2>2
<1>7. /\ h < Len(said) /\ said[h + 1] \in ClientFrames
      /\ start[h] + Len(ClientHeader(said[h + 1])) <= r
      /\ Placed(T, start[h], said[h + 1])
  BY <1>2, <1>6, WholeHeader
<1>8. PICK f \in ClientFrames : f = said[h + 1]
  BY <1>7
<1>9. PICK x \in 0 .. Half - 1, ext \in Seq(Byte) : Announces(f, x, ext)
  BY HeaderLaid
<1>10. PICK H \in Seq(Byte) : H = ClientHeader(f)
  BY ClientBytes
<1>11. /\ Len(H) \in Nat /\ Len(H) >= 2 /\ c + Len(H) <= r
       /\ H[1] = Half + f.op /\ H[2] = x + (IF f.mask = <<>> THEN 0 ELSE Half)
       /\ Len(H) = 2 + Len(ext) + Len(f.mask) /\ Announced(Len(f.payload), x, ext)
       /\ T[c + 1] = H[1] /\ T[c + 2] = H[2] /\ c + 2 <= r
  <2>1. /\ H[1] = Half + f.op /\ H[2] = x + (IF f.mask = <<>> THEN 0 ELSE Half)
        /\ Len(H) = 2 + Len(ext) + Len(f.mask) /\ Announced(Len(f.payload), x, ext)
    BY <1>9, <1>10 DEF Announces
  <2> DEFINE n == Len(H)
  <2>2. n \in Nat /\ n >= 2
    BY <1>10, ClientBytes
  <2>3. c + n <= r
    BY <1>6, <1>7, <1>8, <1>10
  <2>4. \A i \in 1 .. n : T[c + i] = H[i]
    BY <1>6, <1>7, <1>8, <1>10 DEF Placed
  <2> HIDE DEF n
  <2>5. c + 2 <= r
    BY <1>5, <2>2, <2>3
  <2>6. 1 \in 1 .. n /\ 2 \in 1 .. n
    BY <2>2
  <2>7. T[c + 1] = H[1] /\ T[c + 2] = H[2]
    BY <2>4, <2>6
  <2> QED
    BY <2>1, <2>2, <2>3, <2>5, <2>7 DEF n
<1>12. held \in Byte /\ 2 \in Nat
  BY WebSocketAssumption
<1> DEFINE t == Taken(2, held)
<1>13. t[1] = T[c + 1] /\ t[2] = T[c + 2] /\ Arrived(T, r, c + 2)'
  <2> HIDE DEF r
  <2>1. /\ \A i \in 1 .. 2 : t[i] = T[c + i]
        /\ Arrived(T, r, c + 2)'
    BY <1>2, <1>4, <1>5, <1>11, <1>12, Received DEF r
  <2>2. 1 \in 1 .. 2 /\ 2 \in 1 .. 2
    OBVIOUS
  <2> QED
    BY <2>1, <2>2
<1> HIDE DEF t
<1>14. f.op \in 0 .. Half - 1 /\ x \in Nat /\ x < Half
  BY FrameFacts, BaseType
<1>15. t[1] % Half = f.op
  BY <1>11, <1>13, <1>14, LowBits
<1>16. t[2] % Half = x /\ (t[2] >= Half) = (f.mask # <<>>)
  <2>1. CASE f.mask = <<>>
    <3>1. t[2] = x
      BY <1>11, <1>13, <1>14, <2>1
    <3>2. ~ (t[2] >= Half)
      BY <1>14, <3>1, BaseType
    <3> QED
      BY <2>1, <3>1, <3>2, LowBits
  <2>2. CASE f.mask # <<>>
    <3>1. t[2] = x + Half
      BY <1>11, <1>13, <1>14, <2>2
    <3>2. t[2] >= Half
      BY <1>14, <3>1, BaseType
    <3> QED
      BY <2>2, <3>1, <3>2, LowBits
  <2> QED
    BY <2>1, <2>2
<1>17. /\ frame'.op = f.op /\ frame'.length = x /\ frame'.masked = (f.mask # <<>>)
       /\ frame'.payload = <<>>
  BY <1>3, <1>15, <1>16, NoFrameType DEF Frame, NoFrame, t
<1>18. at' = IF x >= Half - 2 THEN "length" ELSE AfterLength(f.mask # <<>>)
  <2>1. at' = IF t[2] % Half >= Half - 2 THEN "length" ELSE AfterLength(t[2] >= Half)
    BY <1>3 DEF t
  <2> QED
    BY <1>16, <2>1
<1>19. Known(f, start[h], c + 2, x, ext)'
  <2>1. CASE x >= Half - 2
    BY <1>6, <1>9, <1>17, <1>18, <2>1 DEF Known
  <2>2. CASE ~ (x >= Half - 2)
    <3>1. x = Len(f.payload) /\ ext = <<>>
      <4>1. x # Half - 2 /\ x # Half - 1
        BY <1>14, <2>2, BaseType
      <4> QED
        BY <1>11, <4>1 DEF Announced
    <3>2. Len(ext) = 0 /\ c + 2 = start[h] + 2 + Len(ext) /\ Len(f.payload) \in Nat
      BY <1>6, <3>1, FrameFacts
    <3>3. CASE f.mask # <<>>
      <4>1. at' = "mask"
        BY <1>18, <2>2, <3>3 DEF AfterLength
      <4> QED
        BY <1>9, <1>17, <3>1, <3>2, <3>3, <4>1 DEF Known
    <3>4. CASE f.mask = <<>>
      <4>1. at' = "payload"
        BY <1>18, <2>2, <3>4 DEF AfterLength
      <4>2. Len(ClientHeader(f)) = 2 /\ Len(<<>>) = 0
        BY <1>10, <1>11, <3>2, <3>4
      <4>3. c + 2 = start[h] + Len(ClientHeader(f)) + 0
        BY <1>6, <4>2
      <4>4. 0 <= Len(f.payload) /\ 1 .. 0 = {}
        BY <3>2
      <4> QED
        BY <1>9, <1>17, <3>1, <3>4, <4>1, <4>2, <4>3, <4>4 DEF Known
    <3> QED
      BY <3>3, <3>4
  <2> QED
    BY <2>1, <2>2
<1>20. at' \in Reading
  BY <1>18 DEF AfterLength, Reading
<1>21. Stage(start, c + 2, h)'
  BY <1>4, <1>7, <1>8, <1>19, <1>20 DEF Stage
<1>22. PICK d \in Nat : d = c + 2
  OBVIOUS
<1>23. Arrived(T, cut[0], d)' /\ Stage(start, d, h)' /\ at' \notin {"closing", "closed"}
  BY <1>13, <1>20, <1>21, <1>22 DEF Reading
<1> QED
  BY <1>1, <1>4, <1>23, OnlyReceived

\* The server is within the frame f, which begins after s bytes.
Within(T, start, cut, c, h, f, s, x, ext) ==
    /\ Heard(T, start, cut, c, h)
    /\ f = said[h + 1] /\ s = start[h] /\ h < Len(said)
    /\ Known(f, s, c, x, ext)
    /\ Arrived(T, cut[0], c)
    /\ s + Len(ClientHeader(f)) <= cut[0]
    /\ Placed(T, s, f)
    /\ start[h + 1] = s + Len(ClientHeader(f)) + Len(f.payload)

LEMMA WithinFrame ==
    ASSUME ConnectionType, HeardInv, at \in Reading
    PROVE  \E T \in Seq(Byte), start \in [0 .. Len(said) -> Nat], cut \in [0 .. Len(transit) -> Nat], c \in Nat,
              h \in 0 .. Len(said), f \in ClientFrames, s \in Nat, x \in 0 .. Half - 1, ext \in Seq(Byte) :
              Within(T, start, cut, c, h, f, s, x, ext)
<1>1. PICK T \in Seq(Byte), start \in [0 .. Len(said) -> Nat], cut \in [0 .. Len(transit) -> Nat], c \in Nat,
           h \in 0 .. Len(said) : Heard(T, start, cut, c, h)
  BY DEF HeardInv
<1>2. Taped(T, start) /\ Cut(T, start, cut) /\ Arrived(T, cut[0], c) /\ Stage(start, c, h)
  BY <1>1 DEF Heard
<1>3. PICK x \in 0 .. Half - 1, ext \in Seq(Byte) : Known(said[h + 1], start[h], c, x, ext)
  BY <1>2 DEF Stage
<1>4. PICK s \in Nat : s = start[h]
  OBVIOUS
<1>5. h < Len(said) /\ said[h + 1] \in ClientFrames
  <2>1. h < Len(said)
    BY <1>2 DEF Stage
  <2>2. said \in Seq(ClientFrames) /\ Len(said) \in Nat
    BY DEF ConnectionType
  <2>3. h + 1 \in 1 .. Len(said)
    BY <2>1, <2>2
  <2> QED
    BY <2>1, <2>2, <2>3, ElementOfSeq
<1>6. PICK f \in ClientFrames : f = said[h + 1]
  BY <1>5
<1>7. s < c
  <2>1. Len(ClientHeader(f)) \in Nat /\ Len(ClientHeader(f)) >= 2 /\ Len(ext) \in Nat
    BY ClientBytes
  <2>2. CASE at = "length"
    BY <1>3, <1>4, <2>2 DEF Known
  <2>3. CASE at = "mask"
    <3>1. c = s + 2 + Len(ext)
      BY <1>3, <1>4, <2>3 DEF Known
    <3> QED
      BY <2>1, <3>1
  <2>4. CASE at = "payload"
    <3> DEFINE l == Len(ClientHeader(f))
               p == Len(frame.payload)
    <3>1. c = s + l + p
      BY <1>3, <1>4, <1>6, <2>4 DEF Known
    <3>2. p \in Nat
      <4>1. frame.payload \in Seq(Byte)
        BY DEF ConnectionType, Frame
      <4> QED
        BY <4>1
    <3>3. l \in Nat /\ l >= 2
      BY <2>1
    <3> HIDE DEF l, p
    <3> QED
      BY <3>1, <3>2, <3>3
  <2> QED
    BY <2>2, <2>3, <2>4 DEF Reading
<1>8. start[h] < cut[0]
  <2>1. Len(transit) \in Nat
    BY DEF ConnectionType
  <2>2. cut[0] \in Nat
    BY <2>1
  <2>3. c <= cut[0]
    BY <1>2 DEF Arrived
  <2> QED
    BY <1>4, <1>7, <2>2, <2>3
<1>9. /\ start[h] + Len(ClientHeader(said[h + 1])) <= cut[0]
      /\ Placed(T, start[h], said[h + 1])
      /\ start[h + 1] = start[h] + Len(ClientHeader(said[h + 1])) + Len(said[h + 1].payload)
  BY <1>2, <1>8, WholeHeader
<1>10. Within(T, start, cut, c, h, f, s, x, ext)
  BY <1>1, <1>2, <1>3, <1>4, <1>5, <1>6, <1>9 DEF Within
<1> QED
  BY <1>10

LEMMA WithinGoesOn ==
    ASSUME ConnectionType,
           NEW T \in Seq(Byte), NEW start \in [0 .. Len(said) -> Nat], NEW cut \in [0 .. Len(transit) -> Nat],
           NEW c \in Nat, NEW d \in Nat, NEW h \in 0 .. Len(said), NEW f \in ClientFrames, NEW s \in Nat,
           NEW x \in 0 .. Half - 1, NEW ext \in Seq(Byte),
           Within(T, start, cut, c, h, f, s, x, ext),
           UNCHANGED <<said, transit, meant>>, at' \in Reading,
           Arrived(T, cut[0], d)', Known(f, s, d, x, ext)'
    PROVE  HeardInv'
<1>1. Heard(T, start, cut, c, h) /\ f = said[h + 1] /\ s = start[h] /\ h < Len(said)
  BY DEF Within
<1>2. Stage(start, d, h)'
  BY <1>1 DEF Stage
<1>3. at' \notin {"closing", "closed"}
  BY DEF Reading
<1> QED
  BY <1>1, <1>2, <1>3, OnlyReceived

LEMMA CutBegins == ASSUME ConnectionType, NEW cut \in [0 .. Len(transit) -> Nat] PROVE cut[0] \in Nat
<1>1. Len(transit) \in Nat
  BY DEF ConnectionType
<1> QED
  BY <1>1

LEMMA HeardLength == ASSUME ConnectionType, HeardInv, ReadLength PROVE HeardInv'
<1>1. at = "length" /\ arrived # <<>> /\ at' = AfterLength(frame.masked) /\ UNCHANGED <<said, transit, meant>>
  BY DEF ReadLength, browser
<1>2. PICK T \in Seq(Byte), start \in [0 .. Len(said) -> Nat], cut \in [0 .. Len(transit) -> Nat], c \in Nat,
           h \in 0 .. Len(said), f \in ClientFrames, s \in Nat, x \in 0 .. Half - 1, ext \in Seq(Byte) :
           Within(T, start, cut, c, h, f, s, x, ext)
  BY <1>1, WithinFrame DEF Reading
<1>3. /\ Arrived(T, cut[0], c) /\ s + Len(ClientHeader(f)) <= cut[0] /\ Placed(T, s, f)
      /\ Announces(f, x, ext) /\ frame.op = f.op /\ frame.masked = (f.mask # <<>>)
      /\ frame.length = x /\ x >= Half - 2 /\ c = s + 2 /\ frame.payload = <<>>
  BY <1>1, <1>2 DEF Within, Known
<1>4. PICK k \in Nat : k = IF frame.length = Half - 2 THEN 2 ELSE 8
  OBVIOUS
<1>5. PICK held \in Junk : frame' = [frame EXCEPT !.length = Number(Taken(k, held))]
  BY <1>4 DEF ReadLength
<1>6. arrived' = Left(k)
  BY <1>4 DEF ReadLength
<1>7. Len(ext) = k /\ Number(ext) = Len(f.payload)
  <2>1. Announced(Len(f.payload), x, ext)
    BY <1>3 DEF Announces
  <2>2. x \in Nat /\ Half \in Nat /\ Half - 2 # Half - 1 /\ ~ (x < Half - 2)
    BY <1>3, BaseType, SMTT(30)
  <2>3. ~ (x = Len(f.payload) /\ Len(f.payload) < Half - 2)
    BY <2>2
  <2> QED
    BY <1>3, <1>4, <2>1, <2>2, <2>3 DEF Announced
<1>8. PICK H \in Seq(Byte) : H = ClientHeader(f)
  BY ClientBytes
<1>9. Len(H) = 2 + k + Len(f.mask) /\ \A i \in 1 .. k : H[2 + i] = ext[i]
  BY <1>3, <1>7, <1>8 DEF Announces
<1>10. Len(f.mask) \in Nat /\ (f.mask = <<>> => Len(f.mask) = 0)
  BY FrameFacts
<1>11. cut[0] \in Nat
  BY CutBegins
<1>12. c + k <= cut[0] /\ \A i \in 1 .. k : 2 + i \in 1 .. Len(H) /\ s + (2 + i) = c + i
  <2> DEFINE m == Len(f.mask)
             l == Len(H)
             r == cut[0]
  <2>1. s + l <= r /\ l = 2 + k + m /\ m \in Nat /\ r \in Nat /\ c = s + 2
    BY <1>3, <1>8, <1>9, <1>10, <1>11
  <2> HIDE DEF m, l, r
  <2>2. l \in Nat
    BY <2>1
  <2>3. c + k <= r
    BY <2>1, <2>2
  <2>4. \A i \in 1 .. k : 2 + i \in 1 .. l /\ s + (2 + i) = c + i
    BY <2>1, <2>2
  <2> QED
    BY <2>3, <2>4 DEF l, r
<1>13. held \in Byte
  BY WebSocketAssumption
<1>14. /\ Taken(k, held) \in Seq(Byte) /\ Len(Taken(k, held)) = k
       /\ \A i \in 1 .. k : Taken(k, held)[i] = T[c + i]
       /\ Arrived(T, cut[0], c + k)'
  <2>1. PICK r \in Nat : r = cut[0]
    BY <1>11
  <2>2. Arrived(T, r, c) /\ c + k <= r
    BY <1>3, <1>12, <2>1
  <2>3. /\ Taken(k, held) \in Seq(Byte) /\ Len(Taken(k, held)) = k
        /\ \A i \in 1 .. k : Taken(k, held)[i] = T[c + i]
        /\ Arrived(T, r, c + k)'
    BY <1>6, <1>13, <2>2, Received
  <2> QED
    BY <2>1, <2>3
<1>15. Taken(k, held) = ext
  <2> DEFINE t == Taken(k, held)
  <2>1. \A i \in 1 .. Len(H) : T[s + i] = H[i]
    BY <1>3, <1>8 DEF Placed
  <2>2. ASSUME NEW i \in 1 .. k PROVE T[c + i] = ext[i]
    <3> DEFINE j == 2 + i
    <3>1. j \in 1 .. Len(H) /\ s + j = c + i
      BY <1>12
    <3> HIDE DEF j
    <3>2. T[c + i] = H[j]
      BY <2>1, <3>1
    <3> QED
      BY <1>9, <3>2 DEF j
  <2>3. t \in Seq(Byte) /\ Len(t) = Len(ext) /\ \A i \in 1 .. Len(t) : t[i] = ext[i]
    BY <1>7, <1>14, <2>2
  <2> HIDE DEF t
  <2>4. t = ext
    BY <2>3, SeqEqual
  <2> QED
    BY <2>4 DEF t
<1>16. /\ frame'.op = f.op /\ frame'.masked = (f.mask # <<>>) /\ frame'.length = Len(f.payload)
       /\ frame'.payload = <<>>
  BY <1>3, <1>5, <1>7, <1>15 DEF ConnectionType, Frame
<1>17. PICK d \in Nat : d = c + k
  OBVIOUS
<1>18. Known(f, s, d, x, ext)'
  <2>1. CASE f.mask # <<>>
    <3>1. at' = "mask"
      BY <1>1, <1>3, <2>1 DEF AfterLength
    <3>2. d = s + 2 + Len(ext)
      BY <1>3, <1>7, <1>17
    <3> QED
      BY <1>3, <1>16, <2>1, <3>1, <3>2 DEF Known
  <2>2. CASE f.mask = <<>>
    <3>1. at' = "payload"
      BY <1>1, <1>3, <2>2 DEF AfterLength
    <3>2. d = s + Len(ClientHeader(f)) + 0 /\ Len(<<>>) = 0 /\ 1 .. 0 = {}
      BY <1>3, <1>8, <1>9, <1>10, <1>17, <2>2
    <3>3. 0 <= Len(f.payload)
      <4>1. Len(f.payload) \in Nat
        BY FrameFacts
      <4> QED
        BY <4>1
    <3> QED
      BY <1>3, <1>16, <2>2, <3>1, <3>2, <3>3 DEF Known
  <2> QED
    BY <2>1, <2>2
<1>19. at' \in Reading /\ Arrived(T, cut[0], d)'
  BY <1>1, <1>14, <1>17 DEF AfterLength, Reading
<1> QED
  BY <1>1, <1>2, <1>18, <1>19, WithinGoesOn

LEMMA HeardMask == ASSUME ConnectionType, HeardInv, ReadMask PROVE HeardInv'
<1>1. /\ at = "mask" /\ at' = "payload" /\ arrived' = Left(4) /\ UNCHANGED <<said, transit, meant>>
      /\ frame' = [frame EXCEPT !.mask = Taken(4, 0)]
  BY DEF ReadMask, browser
<1>2. PICK T \in Seq(Byte), start \in [0 .. Len(said) -> Nat], cut \in [0 .. Len(transit) -> Nat], c \in Nat,
           h \in 0 .. Len(said), f \in ClientFrames, s \in Nat, x \in 0 .. Half - 1, ext \in Seq(Byte) :
           Within(T, start, cut, c, h, f, s, x, ext)
  BY <1>1, WithinFrame DEF Reading
<1>3. /\ Arrived(T, cut[0], c) /\ s + Len(ClientHeader(f)) <= cut[0] /\ Placed(T, s, f)
      /\ Announces(f, x, ext) /\ frame.op = f.op /\ frame.masked = (f.mask # <<>>) /\ f.mask # <<>>
      /\ frame.length = Len(f.payload) /\ c = s + 2 + Len(ext) /\ frame.payload = <<>>
  BY <1>1, <1>2 DEF Within, Known
<1>4. f.mask \in Seq(Byte) /\ Len(f.mask) = 4
  <2>1. f.mask \in Seq(Byte) /\ Len(f.mask) \in {0, 4}
    BY FrameFacts
  <2>2. Len(f.mask) \in Nat \ {0}
    BY <1>3, <2>1, EmptySeq
  <2> QED
    BY <2>1, <2>2
<1>5. PICK H \in Seq(Byte) : H = ClientHeader(f)
  BY ClientBytes
<1>6. PICK l \in Nat : l = Len(ext)
  OBVIOUS
<1>7. /\ Len(H) = 2 + l + 4 /\ \A i \in 1 .. 4 : H[2 + l + i] = f.mask[i]
  BY <1>3, <1>4, <1>5, <1>6 DEF Announces
<1>8. PICK r \in Nat : r = cut[0]
  BY CutBegins
<1>9. c + 4 <= r /\ c + 4 = s + Len(H)
  <2>1. s + Len(H) <= r /\ c = s + 2 + l
    BY <1>3, <1>5, <1>6, <1>8
  <2> QED
    BY <1>7, <2>1
<1>10. /\ Taken(4, 0) \in Seq(Byte) /\ Len(Taken(4, 0)) = 4
       /\ \A i \in 1 .. 4 : Taken(4, 0)[i] = T[c + i]
       /\ Arrived(T, r, c + 4)'
  <2>1. 0 \in Byte /\ 4 \in Nat
    BY BaseType
  <2>2. Arrived(T, r, c)
    BY <1>3, <1>8
  <2> QED
    BY <1>1, <1>9, <2>1, <2>2, Received
<1>11. Taken(4, 0) = f.mask
  <2> DEFINE t == Taken(4, 0)
  <2>1. \A i \in 1 .. Len(H) : T[s + i] = H[i]
    BY <1>3, <1>5 DEF Placed
  <2>2. ASSUME NEW i \in 1 .. 4 PROVE T[c + i] = f.mask[i]
    <3> DEFINE j == 2 + l + i
    <3>1. j \in 1 .. Len(H)
      BY <1>7
    <3>2. s + j = c + i
      <4>1. c = s + 2 + l
        BY <1>3, <1>6
      <4> QED
        BY <4>1
    <3>3. H[j] = f.mask[i]
      BY <1>7
    <3> HIDE DEF j
    <3> QED
      BY <2>1, <3>1, <3>2, <3>3
  <2>3. t \in Seq(Byte) /\ Len(t) = Len(f.mask) /\ \A i \in 1 .. Len(t) : t[i] = f.mask[i]
    BY <1>4, <1>10, <2>2
  <2> HIDE DEF t
  <2>4. t = f.mask
    BY <1>4, <2>3, SeqEqual
  <2> QED
    BY <2>4 DEF t
<1>12. /\ frame'.op = f.op /\ frame'.masked = (f.mask # <<>>) /\ frame'.length = Len(f.payload)
       /\ frame'.payload = <<>> /\ frame'.mask = f.mask
  BY <1>1, <1>3, <1>11 DEF ConnectionType, Frame
<1>13. PICK d \in Nat : d = c + 4
  OBVIOUS
<1>14. Known(f, s, d, x, ext)'
  <2>1. d = s + Len(ClientHeader(f)) + 0 /\ Len(<<>>) = 0 /\ 1 .. 0 = {}
    <3>1. Len(H) \in Nat
      OBVIOUS
    <3>2. d = s + Len(H) + 0
      BY <1>9, <1>13, <3>1
    <3> QED
      BY <1>5, <3>2
  <2>2. 0 <= Len(f.payload)
    <3>1. Len(f.payload) \in Nat
      BY FrameFacts
    <3> QED
      BY <3>1
  <2> QED
    BY <1>1, <1>3, <1>12, <2>1, <2>2 DEF Known
<1>15. at' \in Reading /\ Arrived(T, cut[0], d)'
  BY <1>1, <1>8, <1>10, <1>13 DEF Reading
<1> QED
  BY <1>1, <1>2, <1>14, <1>15, WithinGoesOn

LEMMA HeardPayload == ASSUME ConnectionType, HeardInv, ReadPayload PROVE HeardInv'
<1>1. PICK k \in Nat :
         /\ k = Least(Missing, Len(arrived)) /\ k <= Missing /\ k <= Len(arrived)
         /\ frame' = [frame EXCEPT !.payload = frame.payload \o Taken(k, 0)] /\ arrived' = Left(k)
         /\ at = "payload" /\ at' = at /\ UNCHANGED <<said, transit, meant>>
  <2> DEFINE k == Least(Missing, Len(arrived))
  <2>1. Missing \in Int /\ Missing > 0 /\ Len(arrived) \in Nat
    <3>1. frame.length \in Nat /\ frame.payload \in Seq(Byte) /\ arrived \in Seq(Byte)
      BY DEF ConnectionType, Frame
    <3>2. Len(frame.payload) \in Nat /\ Len(arrived) \in Nat
      BY <3>1
    <3> QED
      BY <3>1, <3>2 DEF Missing, ReadPayload, Receive
  <2>2. k \in Nat /\ k <= Missing /\ k <= Len(arrived)
    BY <2>1 DEF Least
  <2>3. /\ frame' = [frame EXCEPT !.payload = frame.payload \o Taken(k, 0)] /\ arrived' = Left(k)
        /\ at = "payload" /\ at' = at /\ UNCHANGED <<said, transit, meant>>
    BY DEF ReadPayload, Receive, browser
  <2> HIDE DEF k
  <2> QED
    BY <2>2, <2>3 DEF k
<1>2. PICK T \in Seq(Byte), start \in [0 .. Len(said) -> Nat], cut \in [0 .. Len(transit) -> Nat], c \in Nat,
           h \in 0 .. Len(said), f \in ClientFrames, s \in Nat, x \in 0 .. Half - 1, ext \in Seq(Byte) :
           Within(T, start, cut, c, h, f, s, x, ext)
  BY <1>1, WithinFrame DEF Reading
<1>3. PICK P \in Seq(Byte), H \in Seq(Byte) : P = ClientPayload(f) /\ H = ClientHeader(f)
  BY ClientBytes
<1>4. PICK p \in Nat, n \in Nat, l \in Nat, r \in Nat :
         p = Len(frame.payload) /\ n = Len(f.payload) /\ l = Len(H) /\ r = cut[0]
  <2>1. frame.payload \in Seq(Byte) /\ f.payload \in Seq(Byte)
    BY FrameFacts DEF ConnectionType, Frame
  <2>2. Len(frame.payload) \in Nat /\ Len(f.payload) \in Nat /\ Len(H) \in Nat
    BY <2>1
  <2>3. cut[0] \in Nat
    BY CutBegins
  <2> QED
    BY <2>2, <2>3
<1>5. /\ Arrived(T, cut[0], c) /\ Placed(T, s, f)
      /\ Announces(f, x, ext) /\ frame.op = f.op /\ frame.masked = (f.mask # <<>>)
      /\ (f.mask # <<>> => frame.mask = f.mask)
      /\ frame.length = Len(f.payload) /\ Len(frame.payload) <= Len(f.payload)
      /\ c = s + Len(ClientHeader(f)) + Len(frame.payload)
      /\ \A i \in 1 .. Len(frame.payload) : frame.payload[i] = ClientPayload(f)[i]
  BY <1>1, <1>2 DEF Within, Known
<1>6. c = s + l + p /\ p + k <= n /\ c + k <= r
  <2>1. c = s + l + p
    BY <1>3, <1>4, <1>5
  <2>2. p + k <= n
    <3>1. k <= n - p
      BY <1>1, <1>4, <1>5 DEF Missing
    <3> QED
      BY <3>1
  <2>3. c <= r /\ k <= r - c
    BY <1>1, <1>4, <1>5 DEF Arrived
  <2> QED
    BY <2>1, <2>2, <2>3
<1>7. /\ Taken(k, 0) \in Seq(Byte) /\ Len(Taken(k, 0)) = k
      /\ \A i \in 1 .. k : Taken(k, 0)[i] = T[c + i]
      /\ Arrived(T, r, c + k)'
  <2>1. 0 \in Byte
    BY BaseType
  <2>2. Arrived(T, r, c) /\ c + k <= r /\ arrived' = Left(k)
    BY <1>1, <1>4, <1>5, <1>6
  <2> QED
    BY <2>1, <2>2, Received
<1>8. \A i \in 1 .. k : Taken(k, 0)[i] = P[p + i]
  <2>1. \A i \in 1 .. n : T[s + l + i] = P[i]
    BY <1>3, <1>4, <1>5 DEF Placed
  <2> SUFFICES ASSUME NEW i \in 1 .. k PROVE T[c + i] = P[p + i]
    BY <1>7
  <2> DEFINE j == p + i
  <2>2. j \in 1 .. n /\ s + l + j = c + i
    BY <1>6
  <2> HIDE DEF j
  <2>3. T[c + i] = P[j]
    BY <2>1, <2>2
  <2> QED
    BY <2>3 DEF j
<1>9. PICK a \in Seq(Byte), b \in Seq(Byte) : a = frame.payload /\ b = Taken(k, 0)
  BY <1>7 DEF ConnectionType, Frame
<1>10. PICK q \in Seq(Byte) : q = a \o b
  BY ConcatProperties
<1>11. Len(q) = p + k /\ \A i \in 1 .. p + k : q[i] = P[i]
  <2>1. Len(a) = p /\ Len(b) = k /\ (\A i \in 1 .. p : a[i] = P[i]) /\ (\A i \in 1 .. k : b[i] = P[p + i])
    <3>1. Len(a) = p /\ Len(b) = k
      BY <1>4, <1>7, <1>9
    <3>2. \A i \in 1 .. p : a[i] = P[i]
      BY <1>3, <1>4, <1>5, <1>9
    <3>3. \A i \in 1 .. k : b[i] = P[p + i]
      BY <1>8, <1>9
    <3> QED
      BY <3>1, <3>2, <3>3
  <2>2. /\ Len(q) = Len(a) + Len(b)
        /\ \A i \in 1 .. Len(a) + Len(b) : q[i] = IF i <= Len(a) THEN a[i] ELSE b[i - Len(a)]
    BY <1>10, ConcatProperties
  <2>3. ASSUME NEW i \in 1 .. p + k PROVE q[i] = P[i]
    <3>1. CASE i <= p
      <4>1. i \in 1 .. p /\ i \in 1 .. Len(a) + Len(b) /\ i <= Len(a)
        BY <2>1, <3>1
      <4>2. q[i] = a[i]
        BY <2>2, <4>1
      <4> QED
        BY <2>1, <4>1, <4>2
    <3>2. CASE ~ (i <= p)
      <4> DEFINE m == i - p
      <4>1. m \in 1 .. k /\ p + m = i
        BY <3>2
      <4>2. q[i] = b[m]
        BY <2>1, <2>2, <3>2
      <4> HIDE DEF m
      <4> QED
        BY <2>1, <4>1, <4>2
    <3> QED
      BY <3>1, <3>2
  <2> QED
    BY <2>1, <2>2, <2>3
<1>12. frame'.payload = q
  BY <1>1, <1>9, <1>10 DEF ConnectionType, Frame
<1>13. /\ frame'.op = f.op /\ frame'.masked = (f.mask # <<>>) /\ frame'.length = Len(f.payload)
       /\ (f.mask # <<>> => frame'.mask = f.mask)
  BY <1>1, <1>5 DEF ConnectionType, Frame
<1>14. PICK d \in Nat : d = c + k
  OBVIOUS
<1>15. d = s + l + (p + k)
  BY <1>6, <1>14
<1>16. Known(f, s, d, x, ext)'
  <2>1. d = s + Len(ClientHeader(f)) + Len(frame'.payload)
    BY <1>3, <1>4, <1>11, <1>12, <1>15
  <2>2. Len(frame'.payload) <= Len(f.payload)
    BY <1>4, <1>6, <1>11, <1>12
  <2>3. \A i \in 1 .. Len(frame'.payload) : frame'.payload[i] = ClientPayload(f)[i]
    BY <1>3, <1>11, <1>12
  <2> QED
    BY <1>1, <1>5, <1>13, <2>1, <2>2, <2>3 DEF Known
<1>17. at' \in Reading /\ Arrived(T, cut[0], d)'
  BY <1>1, <1>4, <1>7, <1>14 DEF Reading
<1> QED
  BY <1>1, <1>2, <1>16, <1>17, WithinGoesOn

\* It has arrived entirely.
Wholly(T, start, cut, c, h, f, s, x, ext) ==
    /\ Within(T, start, cut, c, h, f, s, x, ext)
    /\ frame.op = f.op
    /\ Len(frame.payload) = Len(f.payload)
    /\ Unmasked = f.payload
    /\ c = start[h + 1]

\* A frame that is there entirely is the one that was said.
LEMMA CompleteFrame ==
    ASSUME ConnectionType, HeardInv, Complete
    PROVE  \E T \in Seq(Byte), start \in [0 .. Len(said) -> Nat], cut \in [0 .. Len(transit) -> Nat], c \in Nat,
              h \in 0 .. Len(said), f \in ClientFrames, s \in Nat, x \in 0 .. Half - 1, ext \in Seq(Byte) :
              Wholly(T, start, cut, c, h, f, s, x, ext)
<1>1. at \in Reading
  BY DEF Complete, Reading
<1>2. PICK T \in Seq(Byte), start \in [0 .. Len(said) -> Nat], cut \in [0 .. Len(transit) -> Nat], c \in Nat,
           h \in 0 .. Len(said), f \in ClientFrames, s \in Nat, x \in 0 .. Half - 1, ext \in Seq(Byte) :
           Within(T, start, cut, c, h, f, s, x, ext)
  BY <1>1, WithinFrame
<1>3. at = "payload" /\ frame.length - Len(frame.payload) = 0
  BY DEF Complete, Missing
<1>4. /\ frame.op = f.op /\ frame.masked = (f.mask # <<>>)
      /\ (f.mask # <<>> => frame.mask = f.mask)
      /\ frame.length = Len(f.payload)
      /\ c = s + Len(ClientHeader(f)) + Len(frame.payload)
      /\ \A i \in 1 .. Len(frame.payload) : frame.payload[i] = ClientPayload(f)[i]
      /\ start[h + 1] = s + Len(ClientHeader(f)) + Len(f.payload)
  BY <1>3, <1>2 DEF Within, Known
<1>5. frame.payload \in Seq(Byte) /\ f.payload \in Seq(Byte) /\ f.mask \in Seq(Byte)
  BY FrameFacts DEF ConnectionType, Frame
<1>6. Len(frame.payload) = Len(f.payload)
  <2>1. Len(frame.payload) \in Nat /\ Len(f.payload) \in Nat
    BY <1>5
  <2> QED
    BY <1>3, <1>4, <2>1
<1>7. frame.payload = ClientPayload(f)
  <2>1. ClientPayload(f) \in Seq(Byte) /\ Len(ClientPayload(f)) = Len(f.payload)
    BY ClientBytes
  <2> QED
    BY <1>4, <1>5, <1>6, <2>1, SeqEqual
<1>8. Unmasked = f.payload
  <2>1. CASE f.mask = <<>>
    <3>1. Unmasked = ClientPayload(f)
      BY <1>4, <1>7, <2>1 DEF Unmasked
    <3> QED
      BY <2>1, <3>1 DEF ClientPayload
  <2>2. CASE f.mask # <<>>
    <3>1. Unmasked = Masked(ClientPayload(f), f.mask)
      BY <1>4, <1>7, <2>2 DEF Unmasked
    <3>2. Len(f.mask) = 4
      <4>1. Len(f.mask) \in Nat \ {0} /\ Len(f.mask) \in {0, 4}
        BY <1>5, <2>2, EmptySeq, FrameFacts
      <4> QED
        BY <4>1
    <3>3. ClientPayload(f) = Masked(f.payload, f.mask)
      BY <2>2 DEF ClientPayload
    <3> QED
      BY <1>5, <3>1, <3>2, <3>3, MaskedBytes
  <2> QED
    BY <2>1, <2>2
<1>9. c = start[h + 1]
  BY <1>4, <1>6
<1>10. Wholly(T, start, cut, c, h, f, s, x, ext)
  BY <1>2, <1>4, <1>6, <1>8, <1>9 DEF Wholly
<1> QED
  BY <1>10

LEMMA HeardShort == ASSUME ConnectionType, HeardInv PROVE ShortPing
<1> SUFFICES ASSUME Complete, frame.op = Ping PROVE Len(frame.payload) < Half - 2
  BY DEF ShortPing
<1>1. PICK f \in ClientFrames : frame.op = f.op /\ Len(frame.payload) = Len(f.payload)
  BY CompleteFrame DEF Wholly
<1> QED
  BY <1>1, FrameFacts

LEMMA HeardArrive == ASSUME ConnectionType, HeardInv, Arrive PROVE HeardInv'
<1>1. PICK T \in Seq(Byte), start \in [0 .. Len(said) -> Nat], cut \in [0 .. Len(transit) -> Nat], c \in Nat,
           h \in 0 .. Len(said) : Heard(T, start, cut, c, h)
  BY DEF HeardInv
<1>2. Taped(T, start) /\ Cut(T, start, cut) /\ Arrived(T, cut[0], c) /\ Stage(start, c, h) /\ Answered(h)
  BY <1>1 DEF Heard
<1>3. /\ transit # <<>> /\ arrived' = arrived \o Head(transit) /\ transit' = Tail(transit)
      /\ UNCHANGED <<said, at, frame, meant>>
  BY DEF Arrive, endpoint
<1>4. PICK q \in Seq(Seq(Byte)), m \in Nat : q = transit /\ m = Len(q) /\ m > 0
  <2>1. transit \in Seq(Seq(Byte))
    BY DEF ConnectionType
  <2>2. Len(transit) \in Nat \ {0}
    BY <1>3, <2>1, EmptySeq
  <2> QED
    BY <2>1, <2>2
<1>5. /\ Len(transit') = m - 1 /\ \A i \in 1 .. m - 1 : transit'[i] = q[i + 1]
      /\ Head(transit) = q[1] /\ q[1] \in Seq(Byte)
  <2>1. q # <<>>
    BY <1>3, <1>4
  <2>2. Len(Tail(q)) = Len(q) - 1 /\ \A i \in 1 .. Len(Tail(q)) : Tail(q)[i] = q[i + 1]
    BY <2>1, HeadTailProperties
  <2>3. Head(q) = q[1]
    BY <2>1
  <2>4. 1 \in 1 .. Len(q)
    BY <1>4
  <2>5. q[1] \in Seq(Byte)
    BY <2>4, ElementOfSeq
  <2> QED
    BY <1>3, <1>4, <2>2, <2>3, <2>5
<1>6. /\ \A i \in 1 .. m :
            /\ cut[i] = cut[i - 1] + Len(q[i])
            /\ \A j \in 1 .. Len(q[i]) : q[i][j] = T[cut[i - 1] + j]
      /\ cut[m] = Len(T) /\ cut \in [0 .. m -> Nat]
  BY <1>2, <1>4 DEF Cut
<1>7. \A i \in 0 .. m :
         /\ cut[i] <= Len(T)
         /\ \A j \in 1 .. Len(said) :
               start[j - 1] < cut[i] => cut[i] >= start[j - 1] + Len(ClientHeader(said[j]))
  BY <1>2, <1>4 DEF Cut
<1>8. PICK later \in [0 .. m - 1 -> Nat] : \A i \in 0 .. m - 1 : later[i] = cut[i + 1]
  <2> DEFINE l == [i \in 0 .. m - 1 |-> cut[i + 1]]
  <2>1. ASSUME NEW i \in 0 .. m - 1 PROVE cut[i + 1] \in Nat
    <3>1. i + 1 \in 0 .. m
      BY <1>4
    <3> QED
      BY <1>6, <3>1
  <2>2. l \in [0 .. m - 1 -> Nat] /\ \A i \in 0 .. m - 1 : l[i] = cut[i + 1]
    BY <2>1
  <2> QED
    BY <2>2
<1>9. Cut(T, start, later)'
  <2>1. later[m - 1] = Len(T)
    <3>1. m - 1 \in 0 .. m - 1 /\ (m - 1) + 1 = m
      BY <1>4
    <3> QED
      BY <1>6, <1>8, <3>1
  <2>2. ASSUME NEW i \in 1 .. m - 1
        PROVE  /\ later[i] = later[i - 1] + Len(transit'[i])
               /\ \A j \in 1 .. Len(transit'[i]) : transit'[i][j] = T[later[i - 1] + j]
    <3> DEFINE k == i + 1
    <3>1. i - 1 \in 0 .. m - 1 /\ i \in 0 .. m - 1 /\ (i - 1) + 1 = i /\ k \in 1 .. m /\ k - 1 = i
      BY <1>4
    <3>2. later[i] = cut[k] /\ later[i - 1] = cut[i] /\ transit'[i] = q[k]
      BY <1>5, <1>8, <3>1
    <3> HIDE DEF k
    <3>3. cut[k] = cut[i] + Len(q[k]) /\ \A j \in 1 .. Len(q[k]) : q[k][j] = T[cut[i] + j]
      BY <1>6, <3>1
    <3> QED
      BY <3>2, <3>3
  <2>3. ASSUME NEW i \in 0 .. m - 1
        PROVE  /\ later[i] <= Len(T)
               /\ \A j \in 1 .. Len(said) :
                     start[j - 1] < later[i] => later[i] >= start[j - 1] + Len(ClientHeader(said[j]))
    <3> DEFINE k == i + 1
    <3>1. k \in 0 .. m /\ later[i] = cut[k]
      BY <1>4, <1>8
    <3> HIDE DEF k
    <3> QED
      BY <1>7, <3>1
  <2> QED
    BY <1>3, <1>5, <2>1, <2>2, <2>3 DEF Cut
<1>10. Arrived(T, later[0], c)'
  <2> DEFINE n == Len(arrived)
             a == arrived
             b == q[1]
             r == cut[0]
             z == Len(q[1])
  <2>1. /\ 0 \in 0 .. m - 1 /\ 0 + 1 = 1 /\ 1 \in 1 .. m /\ 1 - 1 = 0 /\ 0 \in 0 .. m
    BY <1>4
  <2>2. later[0] = r + z /\ \A j \in 1 .. z : b[j] = T[r + j]
    <3>1. later[0] = cut[1]
      <4>1. later[0] = cut[0 + 1]
        BY <1>8, <2>1
      <4> QED
        BY <2>1, <4>1
    <3>2. /\ cut[1] = cut[1 - 1] + Len(q[1])
          /\ \A j \in 1 .. Len(q[1]) : q[1][j] = T[cut[1 - 1] + j]
      BY <1>6, <2>1
    <3> QED
      BY <2>1, <3>1, <3>2
  <2>3. a \in Seq(Byte) /\ n \in Nat /\ z \in Nat /\ r \in Nat
    <3>1. r \in Nat
      BY <1>6, <2>1
    <3>2. a \in Seq(Byte)
      BY DEF ConnectionType
    <3>3. n \in Nat
      BY <3>2
    <3>4. z \in Nat
      BY <1>5
    <3> QED
      BY <3>1, <3>2, <3>3, <3>4
  <2>4. c <= r /\ n = r - c /\ \A j \in 1 .. n : a[j] = T[c + j]
    BY <1>2 DEF Arrived
  <2>5. /\ Len(a \o b) = n + z
        /\ \A i \in 1 .. n + z : (a \o b)[i] = IF i <= n THEN a[i] ELSE b[i - n]
    BY <1>5, <2>3, ConcatProperties
  <2>6. arrived' = a \o b
    BY <1>3, <1>5
  <2> HIDE DEF n, a, b, r, z
  <2>7. ASSUME NEW i \in 1 .. n + z PROVE (a \o b)[i] = T[c + i]
    <3>1. CASE i <= n
      <4>1. i \in 1 .. n
        BY <2>3, <3>1
      <4> QED
        BY <2>4, <2>5, <3>1, <4>1
    <3>2. CASE ~ (i <= n)
      <4> DEFINE j == i - n
      <4>1. j \in 1 .. z /\ r + j = c + i
        BY <2>3, <2>4, <3>2
      <4>2. (a \o b)[i] = b[j]
        BY <2>5, <3>2
      <4> HIDE DEF j
      <4> QED
        BY <2>2, <4>1, <4>2
    <3> QED
      BY <3>1, <3>2
  <2>8. c <= later[0] /\ n + z = later[0] - c
    BY <2>2, <2>3, <2>4
  <2> QED
    BY <2>5, <2>6, <2>7, <2>8 DEF Arrived
<1>11. Taped(T, start)' /\ Stage(start, c, h)' /\ Answered(h)'
  BY <1>2, <1>3 DEF Taped, Stage, Known, Answered
<1>12. Heard(T, start, later, c, h)'
  BY <1>9, <1>10, <1>11 DEF Heard
<1>13. start \in [0 .. Len(said') -> Nat] /\ later \in [0 .. Len(transit') -> Nat] /\ h \in 0 .. Len(said')
  BY <1>3, <1>5
<1> QED
  BY <1>12, <1>13 DEF HeardInv

LEMMA LastFrame ==
    ASSUME ConnectionType, NEW h \in 0 .. Len(said), h < Len(said), NEW f \in ClientFrames, f = said[h + 1]
    PROVE  Payloads(SubSeq(said, 1, h + 1), Ping) =
              IF f.op = Ping THEN Append(Payloads(SubSeq(said, 1, h), Ping), f.payload)
              ELSE Payloads(SubSeq(said, 1, h), Ping)
<1>1. said \in Seq(ClientFrames) /\ Len(said) \in Nat /\ h \in Nat /\ h + 1 \in 1 .. Len(said)
  <2>1. said \in Seq(ClientFrames)
    BY DEF ConnectionType
  <2>2. Len(said) \in Nat
    BY <2>1
  <2> QED
    BY <2>1, <2>2
<1> DEFINE u == SubSeq(said, 1, h)
           v == SubSeq(said, 1, h + 1)
<1>2. u \in Seq(ClientFrames)
  <2>1. \A i \in 1 .. h : said[i] \in ClientFrames
    BY <1>1
  <2> QED
    BY <1>1, <2>1, SubSeqProperties
<1>3. v = Append(u, f)
  <2>1. 1 \in 1 .. Len(said) /\ h + 1 \in 1 .. Len(said) /\ (h + 1) - 1 = h
    BY <1>1
  <2>2. v = SubSeq(said, 1, (h + 1) - 1) \o <<said[h + 1]>>
    BY <1>1, <2>1, SubSeqRecursiveSecond
  <2>3. v = u \o <<f>>
    BY <2>1, <2>2
  <2> HIDE DEF u, v
  <2> QED
    BY <1>2, <2>3, AppendIsConcat
<1> HIDE DEF u, v
<1>5. Payloads(v, Ping) = IF f.op = Ping THEN Append(Payloads(u, Ping), f.payload) ELSE Payloads(u, Ping)
  <2>1. ASSUME NEW g \in ClientFrames
        PROVE  Payloads(Append(u, g), Ping) =
                  IF g.op = Ping THEN Append(Payloads(u, Ping), g.payload) ELSE Payloads(u, Ping)
    BY <1>2, PayloadsAppend
  <2> QED
    BY <1>3, <2>1, Zenon
<1> QED
  BY <1>5 DEF u, v

LEMMA MeantPongs ==
    ASSUME ConnectionType, NEW op \in 0 .. Half - 1, NEW payload \in Seq(Byte)
    PROVE  Payloads(Append(meant, [op |-> op, payload |-> payload]), Pong) =
              IF op = Pong THEN Append(Payloads(meant, Pong), payload) ELSE Payloads(meant, Pong)
<1>1. meant \in Seq(Meant) /\ [op |-> op, payload |-> payload] \in Meant
  BY DEF ConnectionType, Meant
<1> DEFINE f == [op |-> op, payload |-> payload]
<1>3. f \in Meant /\ f.op = op /\ f.payload = payload
  BY <1>1
<1> HIDE DEF f
<1>4. Payloads(Append(meant, f), Pong) =
         IF f.op = Pong THEN Append(Payloads(meant, Pong), f.payload) ELSE Payloads(meant, Pong)
  BY <1>1, <1>3, PayloadsAppend
<1> QED
  BY <1>3, <1>4 DEF f

\* What happens when a frame is there.
LEMMA HeardComplete ==
    ASSUME ConnectionType, HeardInv, Complete, UNCHANGED <<said, transit, arrived>>,
           \/ /\ frame.op = Close /\ at' = "closing"
              /\ meant' = Append(meant, [op |-> Close, payload |-> <<>>])
           \/ /\ frame.op = Ping /\ at' = "answering"
              /\ meant' = Append(meant, [op |-> Pong, payload |-> Unmasked])
           \/ frame.op \notin {Close, Ping} /\ at' = "texting" /\ meant' = meant
    PROVE  HeardInv'
<1>1. PICK T \in Seq(Byte), start \in [0 .. Len(said) -> Nat], cut \in [0 .. Len(transit) -> Nat], c \in Nat,
           h \in 0 .. Len(said), f \in ClientFrames, s \in Nat, x \in 0 .. Half - 1, ext \in Seq(Byte) :
           Wholly(T, start, cut, c, h, f, s, x, ext)
  BY CompleteFrame
<1>2. /\ Within(T, start, cut, c, h, f, s, x, ext) /\ frame.op = f.op
      /\ Unmasked = f.payload /\ c = start[h + 1]
  BY <1>1 DEF Wholly
<1>3. Heard(T, start, cut, c, h) /\ f = said[h + 1] /\ h < Len(said)
  BY <1>2 DEF Within
<1>4. Taped(T, start) /\ Cut(T, start, cut) /\ Arrived(T, cut[0], c) /\ Answered(h)
  BY <1>3 DEF Heard
<1>5. Len(said) \in Nat /\ h + 1 \in 0 .. Len(said) /\ h + 1 > 0 /\ h + 1 \in 1 .. Len(said)
  <2>1. Len(said) \in Nat
    BY DEF ConnectionType
  <2> QED
    BY <1>3, <2>1
<1>6. PICK g \in Nat : g = h + 1
  BY <1>5
<1>7. Stage(start, c, g)'
  <2>1. at' \notin Reading
    BY DEF Reading
  <2> QED
    BY <1>2, <1>6, <2>1 DEF Stage
<1>8. Payloads(meant', Pong) = Payloads(SubSeq(said', 1, g), Ping)
  <2> DEFINE before == Payloads(SubSeq(said, 1, h), Ping)
  <2>1. Payloads(meant, Pong) = before
    BY <1>4 DEF Answered
  <2>2. Payloads(SubSeq(said', 1, g), Ping) = IF f.op = Ping THEN Append(before, f.payload) ELSE before
    BY <1>3, <1>6, LastFrame
  <2>3. Text # Pong /\ Close # Pong /\ Close # Ping
    BY WebSocketAssumption
  <2> HIDE DEF before
  <2>4. CASE frame.op = Close
    <3>1. meant' = Append(meant, [op |-> Close, payload |-> <<>>])
      BY <2>3, <2>4
    <3>2. <<>> \in Seq(Byte)
      OBVIOUS
    <3>3. Payloads(meant', Pong) = Payloads(meant, Pong)
      BY <2>3, <3>1, <3>2, MeantPongs, OpcodeTypes
    <3> QED
      BY <1>2, <2>1, <2>2, <2>3, <2>4, <3>3
  <2>5. CASE frame.op = Ping
    <3>1. meant' = Append(meant, [op |-> Pong, payload |-> f.payload])
      BY <1>2, <2>3, <2>5
    <3>2. Payloads(meant', Pong) = Append(Payloads(meant, Pong), f.payload)
      BY <3>1, MeantPongs, OpcodeTypes, FrameFacts
    <3> QED
      BY <1>2, <2>1, <2>2, <2>5, <3>2
  <2>6. CASE frame.op \notin {Close, Ping}
    BY <1>2, <2>1, <2>2, <2>6
  <2> QED
    BY <2>4, <2>5, <2>6
<1>9. Answered(g)'
  <2>1. \A i \in 1 .. Len(said) : said[i].op = Close => i = Len(said)
    BY <1>4 DEF Answered
  <2>2. at' \in {"closing", "closed"} => g > 0 /\ g = Len(said) /\ said[g].op = Close
    <3> SUFFICES ASSUME at' \in {"closing", "closed"} PROVE g > 0 /\ g = Len(said) /\ said[g].op = Close
      OBVIOUS
    <3>1. f.op = Close
      BY <1>2
    <3>2. said[g].op = Close /\ g \in 1 .. Len(said) /\ g > 0
      BY <1>3, <1>5, <1>6, <3>1
    <3> QED
      BY <2>1, <3>2
  <2> QED
    BY <1>8, <2>1, <2>2 DEF Answered
<1>10. Taped(T, start)' /\ Cut(T, start, cut)' /\ Arrived(T, cut[0], c)'
  BY <1>4 DEF Taped, Cut, Arrived
<1>11. Heard(T, start, cut, c, g)'
  BY <1>7, <1>9, <1>10 DEF Heard
<1>12. start \in [0 .. Len(said') -> Nat] /\ cut \in [0 .. Len(transit') -> Nat] /\ g \in 0 .. Len(said')
  BY <1>5, <1>6
<1> QED
  BY <1>11, <1>12 DEF HeardInv

-----------------------------------------------------------------------------
(* The browser speaks.                                                     *)

\* U is T, then H, then P.
Grown(U, T, H, P) ==
    /\ Len(U) = Len(T) + Len(H) + Len(P)
    /\ \A i \in 1 .. Len(T) : U[i] = T[i]
    /\ \A i \in 1 .. Len(H) : U[Len(T) + i] = H[i]
    /\ \A i \in 1 .. Len(P) : U[Len(T) + Len(H) + i] = P[i]

LEMMA TapeGrows ==
    ASSUME NEW T \in Seq(Byte), NEW H \in Seq(Byte), NEW P \in Seq(Byte)
    PROVE  \E U \in Seq(Byte) : Grown(U, T, H, P)
<1>1. PICK t \in Nat, a \in Nat, b \in Nat : t = Len(T) /\ a = Len(H) /\ b = Len(P)
  OBVIOUS
<1> DEFINE u(i) == IF i <= t THEN T[i] ELSE IF i <= t + a THEN H[i - t] ELSE P[i - (t + a)]
           U == [i \in 1 .. t + a + b |-> u(i)]
<1>2. ASSUME NEW i \in 1 .. t + a + b PROVE u(i) \in Byte
  <2>1. CASE i <= t
    <3>1. i \in 1 .. Len(T)
      BY <1>1, <2>1
    <3>2. T[i] \in Byte
      BY <3>1, ElementOfSeq
    <3> QED
      BY <2>1, <3>2
  <2>2. CASE ~ (i <= t) /\ i <= t + a
    <3>1. i - t \in 1 .. Len(H)
      BY <1>1, <2>2
    <3>2. H[i - t] \in Byte
      BY <3>1, ElementOfSeq
    <3> QED
      BY <2>2, <3>2
  <2>3. CASE ~ (i <= t) /\ ~ (i <= t + a)
    <3>1. i - (t + a) \in 1 .. Len(P)
      BY <1>1, <2>3
    <3>2. P[i - (t + a)] \in Byte
      BY <3>1, ElementOfSeq
    <3> QED
      BY <2>3, <3>2
  <2> QED
    BY <2>1, <2>2, <2>3
<1>3. t + a + b \in Nat
  OBVIOUS
<1>4. U \in Seq(Byte) /\ Len(U) = t + a + b /\ \A i \in 1 .. t + a + b : U[i] = u(i)
  <2> HIDE DEF u
  <2> QED
    BY <1>2, <1>3
<1> HIDE DEF U
<1>5. ASSUME NEW i \in 1 .. t PROVE U[i] = T[i]
  <2>1. i \in 1 .. t + a + b /\ i <= t
    OBVIOUS
  <2> QED
    BY <1>4, <2>1
<1>6. ASSUME NEW i \in 1 .. a PROVE U[t + i] = H[i]
  <2> DEFINE j == t + i
  <2>1. j \in 1 .. t + a + b /\ ~ (j <= t) /\ j <= t + a /\ j - t = i
    OBVIOUS
  <2> HIDE DEF j
  <2>2. U[j] = H[i]
    BY <1>4, <2>1
  <2> QED
    BY <2>2 DEF j
<1>7. ASSUME NEW i \in 1 .. b PROVE U[t + a + i] = P[i]
  <2> DEFINE j == t + a + i
  <2>1. j \in 1 .. t + a + b /\ ~ (j <= t) /\ ~ (j <= t + a) /\ j - (t + a) = i
    OBVIOUS
  <2> HIDE DEF j
  <2>2. U[j] = P[i]
    BY <1>4, <2>1
  <2> QED
    BY <2>2 DEF j
<1>8. Grown(U, T, H, P)
  BY <1>1, <1>4, <1>5, <1>6, <1>7 DEF Grown
<1> QED
  BY <1>4, <1>8

\* A header that is not cut is one piece, and every byte after it is one.
LEMMA PiecesLaid ==
    ASSUME ~ Segmented, NEW f \in ClientFrames
    PROVE  /\ Pieces(f) \in Seq(Seq(Byte))
           /\ Len(Pieces(f)) = 1 + Len(f.payload)
           /\ Pieces(f)[1] = ClientHeader(f)
           /\ \A i \in 1 .. Len(f.payload) : Pieces(f)[1 + i] = <<ClientPayload(f)[i]>>
<1>1. PICK H \in Seq(Byte), P \in Seq(Byte), b \in Nat :
         H = ClientHeader(f) /\ P = ClientPayload(f) /\ b = Len(P) /\ b = Len(f.payload)
  BY ClientBytes
<1> DEFINE s == Singly(P)
           p == <<H>>
<1>2. s \in Seq(Seq(Byte)) /\ Len(s) = b /\ \A i \in 1 .. b : s[i] = <<P[i]>>
  <2>1. \A i \in 1 .. Len(P) : <<P[i]>> \in Seq(Byte)
    OBVIOUS
  <2>2. s = [i \in 1 .. Len(P) |-> <<P[i]>>] /\ Len(P) \in Nat
    BY DEF Singly
  <2> HIDE DEF s
  <2>3. s \in Seq(Seq(Byte))
    BY <2>1, <2>2
  <2>4. Len(s) = Len(P) /\ \A i \in 1 .. Len(P) : s[i] = <<P[i]>>
    BY <2>2
  <2> QED
    BY <1>1, <2>3, <2>4
<1>3. p \in Seq(Seq(Byte)) /\ Len(p) = 1 /\ p[1] = H
  OBVIOUS
<1>4. Pieces(f) = p \o s
  BY <1>1 DEF Pieces
<1> HIDE DEF s, p
<1>5. /\ p \o s \in Seq(Seq(Byte)) /\ Len(p \o s) = Len(p) + Len(s)
      /\ \A i \in 1 .. Len(p) + Len(s) : (p \o s)[i] = IF i <= Len(p) THEN p[i] ELSE s[i - Len(p)]
  BY <1>2, <1>3, ConcatProperties
<1>6. PICK q \in Seq(Seq(Byte)) : q = p \o s
  BY <1>5
<1>7. Len(q) = 1 + b /\ \A i \in 1 .. 1 + b : q[i] = IF i <= 1 THEN p[i] ELSE s[i - 1]
  BY <1>2, <1>3, <1>5, <1>6
<1>8. q[1] = H
  <2>1. 1 \in 1 .. 1 + b
    BY <1>1
  <2> QED
    BY <1>3, <1>7, <2>1
<1>9. ASSUME NEW i \in 1 .. b PROVE q[1 + i] = <<P[i]>>
  <2> DEFINE j == 1 + i
  <2>1. j \in 1 .. 1 + b /\ ~ (j <= 1) /\ j - 1 = i
    BY <1>1
  <2> HIDE DEF j
  <2>2. q[j] = s[i]
    BY <1>7, <2>1
  <2> QED
    BY <1>2, <2>2 DEF j
<1> QED
  BY <1>1, <1>4, <1>6, <1>7, <1>8, <1>9

\* The browser's frames and one more.
LEMMA SaidMore ==
    ASSUME ConnectionType, NEW f \in ClientFrames, said' = Append(said, f)
    PROVE  /\ Len(said) \in Nat
           /\ Len(said') = Len(said) + 1
           /\ said'[Len(said) + 1] = f
           /\ \A j \in 1 .. Len(said) : said'[j] = said[j] /\ said[j] \in ClientFrames
<1>1. said \in Seq(ClientFrames)
  BY DEF ConnectionType
<1>2. \A j \in 1 .. Len(said) : said[j] \in ClientFrames
  BY <1>1, ElementOfSeq
<1> QED
  BY <1>1, <1>2

\* Where the frames lie.
LEMMA TapeBounds ==
    ASSUME ConnectionType, NEW T \in Seq(Byte), NEW start \in [0 .. Len(said) -> Nat], Taped(T, start)
    PROVE  /\ \A j \in 0 .. Len(said) : start[j] \in Nat /\ start[j] <= Len(T)
           /\ \A j \in 1 .. Len(said) :
                 /\ start[j - 1] + Len(ClientHeader(said[j])) + Len(said[j].payload) = start[j]
                 /\ start[j - 1] \in Nat
                 /\ start[j - 1] + Len(ClientHeader(said[j])) <= start[j]
                 /\ Len(ClientHeader(said[j])) \in Nat
                 /\ Len(said[j].payload) \in Nat
<1>1. PICK n \in Nat : n = Len(said)
  BY DEF ConnectionType
<1>2. \A j \in 0 .. n : start[j] \in Nat /\ start[j] <= Len(T)
  <2> SUFFICES ASSUME NEW j \in 0 .. n PROVE start[j] \in Nat /\ start[j] <= Len(T)
    OBVIOUS
  <2>1. start[j] \in Nat
    BY <1>1
  <2>2. start[n] = Len(T) /\ Len(T) \in Nat
    BY <1>1 DEF Taped
  <2>3. j < n => start[j] < start[n]
    <3>1. n \in 0 .. n
      OBVIOUS
    <3> QED
      BY <1>1, <3>1 DEF Taped
  <2>4. j < n \/ j = n
    OBVIOUS
  <2> QED
    BY <2>1, <2>2, <2>3, <2>4
<1>3. ASSUME NEW j \in 1 .. n
      PROVE  /\ start[j - 1] + Len(ClientHeader(said[j])) + Len(said[j].payload) = start[j]
             /\ start[j - 1] \in Nat
             /\ start[j - 1] + Len(ClientHeader(said[j])) <= start[j]
             /\ Len(ClientHeader(said[j])) \in Nat
             /\ Len(said[j].payload) \in Nat
  <2>1. said[j] \in ClientFrames
    BY <1>1, ElementOfSeq DEF ConnectionType
  <2>2. PICK a \in Nat, b \in Nat : a = Len(ClientHeader(said[j])) /\ b = Len(said[j].payload)
    <3>1. ClientHeader(said[j]) \in Seq(Byte) /\ said[j].payload \in Seq(Byte)
      BY <2>1, ClientBytes, FrameFacts
    <3> QED
      BY <3>1
  <2>3. PICK s \in Nat : s = start[j - 1]
    <3>1. j - 1 \in 0 .. n
      OBVIOUS
    <3> QED
      BY <1>2, <3>1
  <2>4. start[j] = start[j - 1] + Len(ClientHeader(said[j])) + Len(said[j].payload)
    BY <1>1 DEF Taped
  <2>5. start[j] = s + a + b /\ s + a <= s + a + b
    BY <2>2, <2>3, <2>4
  <2> QED
    BY <2>2, <2>3, <2>5
<1> QED
  BY <1>1, <1>2, <1>3

LEMMA TapeSpoken ==
    ASSUME ConnectionType, NEW f \in ClientFrames, said' = Append(said, f),
           NEW T \in Seq(Byte), NEW start \in [0 .. Len(said) -> Nat], Taped(T, start),
           NEW U \in Seq(Byte), Grown(U, T, ClientHeader(f), ClientPayload(f)),
           NEW later \in [0 .. Len(said) + 1 -> Nat],
           \A j \in 0 .. Len(said) : later[j] = start[j], later[Len(said) + 1] = Len(U)
    PROVE  Taped(U, later)'
<1>1. PICK n \in Nat : n = Len(said)
  BY DEF ConnectionType
<1>2. Len(said') = n + 1 /\ said'[n + 1] = f /\ \A j \in 1 .. n : said'[j] = said[j]
  BY <1>1, SaidMore
<1>3. PICK t \in Nat, a \in Nat, b \in Nat :
         /\ t = Len(T) /\ a = Len(ClientHeader(f)) /\ b = Len(ClientPayload(f)) /\ b = Len(f.payload)
         /\ a >= 2
  <2>1. ClientHeader(f) \in Seq(Byte) /\ Len(ClientHeader(f)) >= 2
    BY ClientBytes
  <2>2. ClientPayload(f) \in Seq(Byte) /\ Len(ClientPayload(f)) = Len(f.payload)
    BY ClientBytes
  <2> QED
    BY <2>1, <2>2
<1>4. /\ Len(U) = t + a + b
      /\ \A i \in 1 .. t : U[i] = T[i]
      /\ \A i \in 1 .. a : U[t + i] = ClientHeader(f)[i]
      /\ \A i \in 1 .. b : U[t + a + i] = ClientPayload(f)[i]
  BY <1>3 DEF Grown
<1>5. \A j \in 0 .. n : later[j] = start[j] /\ start[j] \in Nat /\ start[j] <= t
  BY <1>1, <1>3, TapeBounds
<1>6. later[n + 1] = t + a + b /\ start[n] = t /\ later[n] = t
  <2>1. n \in 0 .. n
    OBVIOUS
  <2>2. start[n] = t
    BY <1>1, <1>3 DEF Taped
  <2> QED
    BY <1>1, <1>4, <1>5, <2>1, <2>2
<1>7. later[0] = 0
  <2>1. 0 \in 0 .. n
    OBVIOUS
  <2>2. start[0] = 0
    BY DEF Taped
  <2> QED
    BY <1>5, <2>1, <2>2
<1>8. ASSUME NEW j \in 0 .. n + 1, NEW k \in 0 .. n + 1, j < k PROVE later[j] < later[k]
  <2>1. j \in 0 .. n
    BY <1>8
  <2>2. CASE k = n + 1
    <3>1. later[j] \in Nat /\ later[j] <= t
      BY <1>5, <2>1
    <3>2. later[n + 1] = t + a + b
      BY <1>6
    <3> DEFINE l == later[j]
    <3>3. l \in Nat /\ l <= t
      BY <3>1
    <3> HIDE DEF l
    <3>4. l < t + a + b
      <4>1. a >= 2
        BY <1>3
      <4> QED
        BY <3>3, <4>1
    <3> QED
      BY <2>2, <3>2, <3>4, Zenon DEF l
  <2>3. CASE k # n + 1
    <3>1. k \in 0 .. n
      BY <2>3
    <3>2. start[j] < start[k]
      BY <1>1, <1>8, <2>1, <3>1 DEF Taped
    <3> QED
      BY <1>5, <2>1, <3>1, <3>2
  <2> QED
    BY <2>2, <2>3
<1>9. ASSUME NEW j \in 1 .. n
      PROVE  /\ later[j] = later[j - 1] + Len(ClientHeader(said[j])) + Len(said[j].payload)
             /\ Placed(U, later[j - 1], said[j])
  <2>1. PICK g \in ClientFrames : g = said[j]
    BY <1>1, ElementOfSeq DEF ConnectionType
  <2>2. PICK s \in Nat, x \in Nat, y \in Nat :
           /\ s = start[j - 1] /\ x = Len(ClientHeader(g)) /\ y = Len(g.payload) /\ start[j] = s + x + y
    <3>1. /\ start[j - 1] + Len(ClientHeader(said[j])) + Len(said[j].payload) = start[j]
          /\ start[j - 1] \in Nat
          /\ Len(ClientHeader(said[j])) \in Nat
          /\ Len(said[j].payload) \in Nat
      BY <1>1, TapeBounds
    <3> QED
      BY <2>1, <3>1, Zenon
  <2>3. later[j] = start[j] /\ later[j - 1] = s /\ s + x + y <= t
    <3>1. j \in 0 .. n /\ j - 1 \in 0 .. n
      OBVIOUS
    <3> QED
      BY <1>5, <2>2, <3>1
  <2>4. Placed(T, s, g)
    BY <1>1, <2>1, <2>2 DEF Taped
  <2>5. ASSUME NEW i \in 1 .. x PROVE U[s + i] = ClientHeader(g)[i]
    <3>1. s + i \in 1 .. t
      BY <2>3
    <3>2. T[s + i] = ClientHeader(g)[i]
      BY <2>2, <2>4 DEF Placed
    <3> QED
      BY <1>4, <3>1, <3>2
  <2>6. ASSUME NEW i \in 1 .. y PROVE U[s + x + i] = ClientPayload(g)[i]
    <3>1. s + x + i \in 1 .. t
      BY <2>3
    <3>2. T[s + x + i] = ClientPayload(g)[i]
      BY <2>2, <2>4 DEF Placed
    <3> QED
      BY <1>4, <3>1, <3>2
  <2>7. Placed(U, s, g)
    BY <2>2, <2>5, <2>6 DEF Placed
  <2> QED
    BY <2>1, <2>2, <2>3, <2>7
<1>10. /\ later[n + 1] = later[n] + Len(ClientHeader(f)) + Len(f.payload)
       /\ Placed(U, later[n], f)
  <2>1. Placed(U, t, f)
    BY <1>3, <1>4 DEF Placed
  <2> QED
    BY <1>3, <1>6, <2>1
<1>11. ASSUME NEW j \in 1 .. n + 1
       PROVE  /\ later[j] = later[j - 1] + Len(ClientHeader(said'[j])) + Len(said'[j].payload)
              /\ Placed(U, later[j - 1], said'[j])
  <2>1. CASE j \in 1 .. n
    <3>1. said'[j] = said[j]
      BY <1>2, <2>1
    <3> QED
      BY <1>9, <2>1, <3>1
  <2>2. CASE j = n + 1
    <3>1. j - 1 = n /\ said'[j] = f
      BY <1>2, <2>2
    <3>2. later[j] = later[n] + Len(ClientHeader(said'[j])) + Len(said'[j].payload)
      <4>1. later[n + 1] = later[n] + Len(ClientHeader(f)) + Len(f.payload)
        BY <1>10
      <4> QED
        BY <2>2, <3>1, <4>1, Zenon
    <3>3. Placed(U, later[n], said'[j])
      <4>1. Placed(U, later[n], f)
        BY <1>10
      <4> QED
        BY <3>1, <4>1, Zenon
    <3> QED
      BY <3>1, <3>2, <3>3, Zenon
  <2>3. j \in 1 .. n \/ j = n + 1
    OBVIOUS
  <2> QED
    BY <2>1, <2>2, <2>3, Zenon
<1>12. later[n + 1] = Len(U)
  BY <1>1
<1>13. later[Len(said')] = Len(U)
  BY <1>2, <1>12
<1>14. ASSUME NEW j \in 0 .. Len(said'), NEW k \in 0 .. Len(said') PROVE j < k => later[j] < later[k]
  <2>1. j \in 0 .. n + 1 /\ k \in 0 .. n + 1
    BY <1>2, Zenon
  <2> QED
    BY <1>8, <2>1
<1>15. ASSUME NEW j \in 1 .. Len(said')
       PROVE  /\ later[j] = later[j - 1] + Len(ClientHeader(said'[j])) + Len(said'[j].payload)
              /\ Placed(U, later[j - 1], said'[j])
  <2>1. j \in 1 .. n + 1
    BY <1>2, Zenon
  <2> QED
    BY <1>11, <2>1
<1> QED
  BY <1>7, <1>13, <1>14, <1>15 DEF Taped, Placed

\* The pieces under way are cut somehow; r bytes have arrived.
CutSomehow(T, start, r) == \E cut \in [0 .. Len(transit) -> Nat] : Cut(T, start, cut) /\ cut[0] = r

LEMMA CutSpoken ==
    ASSUME ConnectionType, ~ Segmented, NEW f \in ClientFrames, said' = Append(said, f),
           transit' = transit \o Pieces(f),
           NEW T \in Seq(Byte), NEW start \in [0 .. Len(said) -> Nat], Taped(T, start),
           NEW cut \in [0 .. Len(transit) -> Nat], Cut(T, start, cut),
           NEW U \in Seq(Byte), Grown(U, T, ClientHeader(f), ClientPayload(f)),
           NEW later \in [0 .. Len(said) + 1 -> Nat],
           \A j \in 0 .. Len(said) : later[j] = start[j], later[Len(said) + 1] = Len(U)
    PROVE  CutSomehow(U, later, cut[0])'
<1>1. PICK n \in Nat, m \in Nat : n = Len(said) /\ m = Len(transit)
  BY DEF ConnectionType
<1>2. Len(said') = n + 1 /\ said'[n + 1] = f /\ \A j \in 1 .. n : said'[j] = said[j]
  BY <1>1, SaidMore
<1>3. PICK t \in Nat, a \in Nat, b \in Nat :
         /\ t = Len(T) /\ a = Len(ClientHeader(f)) /\ b = Len(ClientPayload(f)) /\ b = Len(f.payload)
  <2>1. ClientHeader(f) \in Seq(Byte)
    BY ClientBytes
  <2>2. ClientPayload(f) \in Seq(Byte) /\ Len(ClientPayload(f)) = Len(f.payload)
    BY ClientBytes
  <2> QED
    BY <2>1, <2>2
<1>4. /\ Len(U) = t + a + b
      /\ \A i \in 1 .. t : U[i] = T[i]
      /\ \A i \in 1 .. a : U[t + i] = ClientHeader(f)[i]
      /\ \A i \in 1 .. b : U[t + a + i] = ClientPayload(f)[i]
  BY <1>3 DEF Grown
<1>5. PICK q \in Seq(Seq(Byte)), p \in Seq(Seq(Byte)) :
         /\ q = transit' /\ p = transit /\ Len(q) = m + 1 + b
         /\ \A i \in 1 .. m : q[i] = p[i]
         /\ q[m + 1] = ClientHeader(f)
         /\ \A i \in 1 .. b : q[m + 1 + i] = <<ClientPayload(f)[i]>>
  <2>1. PICK p \in Seq(Seq(Byte)), z \in Seq(Seq(Byte)) : p = transit /\ z = Pieces(f)
    BY PiecesLaid DEF ConnectionType
  <2>2. /\ Len(z) = 1 + b /\ z[1] = ClientHeader(f)
        /\ \A i \in 1 .. b : z[1 + i] = <<ClientPayload(f)[i]>>
    BY <1>3, <2>1, PiecesLaid
  <2>3. /\ p \o z \in Seq(Seq(Byte)) /\ Len(p \o z) = Len(p) + Len(z)
        /\ \A i \in 1 .. Len(p) + Len(z) : (p \o z)[i] = IF i <= Len(p) THEN p[i] ELSE z[i - Len(p)]
    BY ConcatProperties
  <2>4. PICK q \in Seq(Seq(Byte)) : q = p \o z
    BY <2>3
  <2>5. Len(q) = m + 1 + b /\ \A i \in 1 .. m + 1 + b : q[i] = IF i <= m THEN p[i] ELSE z[i - m]
    <3>1. Len(p) = m /\ Len(p) + Len(z) = m + 1 + b
      BY <1>1, <2>1, <2>2
    <3> QED
      BY <2>3, <2>4, <3>1
  <2>6. ASSUME NEW i \in 1 .. m PROVE q[i] = p[i]
    <3>1. i \in 1 .. m + 1 + b /\ i <= m
      OBVIOUS
    <3> QED
      BY <2>5, <3>1
  <2>7. ASSUME NEW i \in 0 .. b PROVE q[m + 1 + i] = z[1 + i]
    <3> DEFINE j == m + 1 + i
    <3>1. j \in 1 .. m + 1 + b /\ ~ (j <= m) /\ j - m = 1 + i
      OBVIOUS
    <3> HIDE DEF j
    <3>2. q[j] = z[1 + i]
      BY <2>5, <3>1
    <3> QED
      BY <3>2 DEF j
  <2>8. q[m + 1] = ClientHeader(f)
    <3>1. 0 \in 0 .. b /\ m + 1 + 0 = m + 1 /\ 1 + 0 = 1
      OBVIOUS
    <3>2. q[m + 1 + 0] = z[1 + 0]
      BY <2>7, <3>1
    <3> QED
      BY <2>2, <3>1, <3>2
  <2>9. ASSUME NEW i \in 1 .. b PROVE q[m + 1 + i] = <<ClientPayload(f)[i]>>
    <3>1. i \in 0 .. b
      OBVIOUS
    <3> QED
      BY <2>2, <2>7, <3>1
  <2> QED
    BY <2>1, <2>4, <2>5, <2>6, <2>8, <2>9
<1>6. \A j \in 0 .. n : later[j] = start[j] /\ start[j] \in Nat /\ start[j] <= t
  BY <1>1, <1>3, TapeBounds
<1>7. later[n] = t
  <2>1. n \in 0 .. n
    OBVIOUS
  <2>2. start[n] = t
    BY <1>1, <1>3 DEF Taped
  <2> QED
    BY <1>6, <2>1, <2>2
<1>8. ASSUME NEW j \in 1 .. n
      PROVE  /\ later[j - 1] = start[j - 1]
             /\ start[j - 1] + Len(ClientHeader(said[j])) \in Nat
             /\ start[j - 1] + Len(ClientHeader(said[j])) <= t
  <2>1. j - 1 \in 0 .. n /\ j \in 0 .. n
    OBVIOUS
  <2>2. /\ start[j - 1] \in Nat /\ Len(ClientHeader(said[j])) \in Nat
        /\ start[j - 1] + Len(ClientHeader(said[j])) <= start[j]
    BY <1>1, TapeBounds
  <2>3. start[j] \in Nat /\ start[j] <= t /\ later[j - 1] = start[j - 1]
    BY <1>6, <2>1
  <2>4. ASSUME NEW x \in Nat, NEW y \in Nat, NEW z \in Nat, x + y <= z, z <= t
        PROVE  x + y \in Nat /\ x + y <= t
    BY <2>4
  <2> QED
    BY <2>2, <2>3, <2>4, Zenon
<1>9. PICK more \in [0 .. m + 1 + b -> Nat] :
         /\ \A i \in 0 .. m : more[i] = cut[i]
         /\ \A i \in 0 .. b : more[m + 1 + i] = t + a + i
  <2> DEFINE e == [i \in 0 .. m + 1 + b |-> IF i <= m THEN cut[i] ELSE t + a + (i - (m + 1))]
  <2>1. ASSUME NEW i \in 0 .. m PROVE cut[i] \in Nat /\ i \in 0 .. m + 1 + b /\ i <= m
    <3>1. \A k \in 0 .. m : cut[k] \in Nat
      BY <1>1
    <3>2. i \in 0 .. m + 1 + b /\ i <= m
      OBVIOUS
    <3> QED
      BY <3>1, <3>2
  <2>2. ASSUME NEW i \in 0 .. m + 1 + b, ~ (i <= m) PROVE t + a + (i - (m + 1)) \in Nat
    BY <2>2
  <2>3. ASSUME NEW i \in 0 .. m + 1 + b PROVE (IF i <= m THEN cut[i] ELSE t + a + (i - (m + 1))) \in Nat
    <3>1. CASE i <= m
      <4>1. i \in 0 .. m
        BY <3>1
      <4> QED
        BY <2>1, <3>1, <4>1
    <3>2. CASE ~ (i <= m)
      BY <2>2, <3>2
    <3> QED
      BY <3>1, <3>2
  <2>4. e \in [0 .. m + 1 + b -> Nat]
    BY <2>3
  <2>5. \A i \in 0 .. m + 1 + b : e[i] = IF i <= m THEN cut[i] ELSE t + a + (i - (m + 1))
    OBVIOUS
  <2> HIDE DEF e
  <2>6. \A i \in 0 .. m : e[i] = cut[i]
    BY <2>1, <2>5
  <2>7. ASSUME NEW i \in 0 .. b PROVE e[m + 1 + i] = t + a + i
    <3> DEFINE j == m + 1 + i
    <3>1. j \in 0 .. m + 1 + b /\ ~ (j <= m) /\ t + a + (j - (m + 1)) = t + a + i
      OBVIOUS
    <3> HIDE DEF j
    <3>2. e[j] = t + a + i
      BY <2>5, <3>1
    <3> QED
      BY <3>2 DEF j
  <2> QED
    BY <2>4, <2>6, <2>7
<1>10. /\ cut[m] = t
       /\ \A i \in 1 .. m :
             /\ cut[i] = cut[i - 1] + Len(p[i])
             /\ \A j \in 1 .. Len(p[i]) : p[i][j] = T[cut[i - 1] + j]
       /\ \A i \in 0 .. m :
             /\ cut[i] <= t
             /\ \A j \in 1 .. n :
                   start[j - 1] < cut[i] => cut[i] >= start[j - 1] + Len(ClientHeader(said[j]))
  BY <1>1, <1>3, <1>5 DEF Cut
<1>11. \A i \in 0 .. m : cut[i] \in Nat
  BY <1>1
<1>12. more[m] = t /\ more[m + 1] = t + a /\ more[m + 1 + b] = t + a + b
  <2>1. m \in 0 .. m /\ 0 \in 0 .. b /\ b \in 0 .. b /\ m + 1 + 0 = m + 1 /\ t + a + 0 = t + a
    OBVIOUS
  <2>2. more[m] = t
    BY <1>9, <1>10, <2>1
  <2>3. more[m + 1 + 0] = t + a + 0
    BY <1>9, <2>1
  <2>4. more[m + 1 + b] = t + a + b
    BY <1>9, <2>1
  <2> QED
    BY <2>1, <2>2, <2>3, <2>4
<1>13. ASSUME NEW i \in 1 .. m + 1 + b
       PROVE  /\ more[i] = more[i - 1] + Len(q[i])
              /\ \A j \in 1 .. Len(q[i]) : q[i][j] = U[more[i - 1] + j]
  <2>1. CASE i <= m
    <3>1. i \in 1 .. m /\ i \in 0 .. m /\ i - 1 \in 0 .. m
      BY <2>1
    <3>2. q[i] = p[i] /\ more[i] = cut[i] /\ more[i - 1] = cut[i - 1]
      BY <1>5, <1>9, <3>1
    <3>3. PICK g \in Seq(Byte), s \in Nat, z \in Nat : g = p[i] /\ s = cut[i - 1] /\ z = Len(g)
      <4>1. Len(p) = m
        BY <1>1, <1>5
      <4>2. p[i] \in Seq(Byte)
        BY <3>1, <4>1, ElementOfSeq
      <4>3. cut[i - 1] \in Nat
        BY <1>11, <3>1
      <4>4. Len(p[i]) \in Nat
        BY <4>2
      <4> QED
        BY <4>2, <4>3, <4>4, Zenon
    <3>4. cut[i] = s + z /\ \A j \in 1 .. z : g[j] = T[s + j]
      BY <1>10, <3>1, <3>3
    <3>5. s + z <= t
      BY <1>10, <3>1, <3>4
    <3>6. ASSUME NEW j \in 1 .. z PROVE g[j] = U[s + j]
      <4>1. s + j \in 1 .. t
        BY <3>5
      <4> QED
        BY <1>4, <3>4, <4>1
    <3> QED
      BY <3>2, <3>3, <3>4, <3>6
  <2>2. CASE i = m + 1
    <3>1. i - 1 = m /\ m + 1 = i
      BY <2>2
    <3>2. q[i] = ClientHeader(f) /\ more[i] = t + a /\ more[i - 1] = t
      BY <1>5, <1>12, <3>1
    <3> QED
      BY <1>3, <1>4, <3>2
  <2>3. CASE ~ (i <= m) /\ i # m + 1
    <3>1. PICK k \in Nat, l \in Nat, g \in Nat : k = i - (m + 1) /\ l = k - 1 /\ g = t + a + l
      BY <2>3
    <3>2. /\ k \in 1 .. b /\ k \in 0 .. b /\ l \in 0 .. b
          /\ m + 1 + k = i /\ m + 1 + l = i - 1 /\ t + a + k = g + 1
      BY <2>3, <3>1
    <3>3. q[i] = <<ClientPayload(f)[k]>> /\ more[i] = t + a + k /\ more[i - 1] = t + a + l
      <4>1. q[m + 1 + k] = <<ClientPayload(f)[k]>>
        BY <1>5, <3>2
      <4>2. more[m + 1 + k] = t + a + k
        BY <1>9, <3>2
      <4>3. more[m + 1 + l] = t + a + l
        BY <1>9, <3>2
      <4> QED
        BY <3>2, <4>1, <4>2, <4>3
    <3>4. ClientPayload(f)[k] = U[g + 1]
      <4>1. U[t + a + k] = ClientPayload(f)[k]
        BY <1>4, <3>2
      <4> QED
        BY <3>2, <4>1
    <3>5. Len(q[i]) = 1 /\ q[i][1] = U[g + 1]
      BY <3>3, <3>4
    <3>6. more[i] = g + 1 /\ more[i - 1] = g
      BY <3>1, <3>2, <3>3
    <3>7. \A j \in 1 .. 1 : j = 1
      OBVIOUS
    <3> QED
      BY <3>5, <3>6, <3>7
  <2> QED
    BY <2>1, <2>2, <2>3
<1>14. ASSUME NEW i \in 0 .. m + 1 + b PROVE more[i] \in Nat /\ more[i] <= t + a + b
  <2>1. CASE i <= m
    <3>1. i \in 0 .. m
      BY <2>1
    <3>2. more[i] = cut[i] /\ cut[i] \in Nat /\ cut[i] <= t
      BY <1>9, <1>10, <1>11, <3>1
    <3> QED
      BY <3>2
  <2>2. CASE ~ (i <= m)
    <3>1. PICK k \in Nat : k = i - (m + 1)
      BY <2>2
    <3>2. k \in 0 .. b /\ m + 1 + k = i
      BY <2>2, <3>1
    <3>3. more[i] = t + a + k
      BY <1>9, <3>2
    <3> QED
      BY <3>2, <3>3
  <2> QED
    BY <2>1, <2>2
<1>15. ASSUME NEW i \in 0 .. m + 1 + b, NEW j \in 1 .. n + 1, later[j - 1] < more[i]
       PROVE  more[i] >= later[j - 1] + Len(ClientHeader(said'[j]))
  <2>1. CASE i <= m
    <3>1. i \in 0 .. m
      BY <2>1
    <3>2. more[i] = cut[i] /\ cut[i] \in Nat /\ cut[i] <= t
      BY <1>9, <1>10, <1>11, <3>1
    <3>3. j \in 1 .. n
      <4>1. j = n + 1 => j - 1 = n
        OBVIOUS
      <4>2. j # n + 1
        BY <1>7, <1>15, <3>2, <4>1, SMTT(30)
      <4> QED
        BY <4>2
    <3>4. later[j - 1] = start[j - 1] /\ said'[j] = said[j]
      BY <1>2, <1>8, <3>3
    <3>5. cut[i] >= start[j - 1] + Len(ClientHeader(said[j]))
      BY <1>10, <1>15, <3>1, <3>2, <3>3, <3>4
    <3> QED
      BY <3>2, <3>4, <3>5
  <2>2. CASE ~ (i <= m)
    <3>1. PICK k \in Nat : k = i - (m + 1)
      BY <2>2
    <3>2. k \in 0 .. b /\ m + 1 + k = i
      BY <2>2, <3>1
    <3>3. more[i] = t + a + k
      BY <1>9, <3>2
    <3>4. CASE j \in 1 .. n
      <4>1. said'[j] = said[j]
        BY <1>2, <3>4
      <4>2. /\ later[j - 1] = start[j - 1]
            /\ start[j - 1] + Len(ClientHeader(said[j])) \in Nat
            /\ start[j - 1] + Len(ClientHeader(said[j])) <= t
        BY <1>8, <3>4
      <4>3. PICK x \in Nat : x = start[j - 1] + Len(ClientHeader(said[j])) /\ x <= t
        BY <4>2, Zenon
      <4>4. x = later[j - 1] + Len(ClientHeader(said'[j]))
        BY <4>1, <4>2, <4>3, Zenon
      <4>5. more[i] >= x
        BY <3>3, <4>3
      <4> QED
        BY <4>4, <4>5, Zenon
    <3>5. CASE j = n + 1
      <4>1. j - 1 = n /\ said'[j] = f
        BY <1>2, <3>5
      <4>2. later[j - 1] = t /\ Len(ClientHeader(said'[j])) = a
        BY <1>3, <1>7, <4>1
      <4> QED
        BY <3>3, <4>2
    <3>6. j \in 1 .. n \/ j = n + 1
      OBVIOUS
    <3> QED
      BY <3>4, <3>5, <3>6, Zenon
  <2> QED
    BY <2>1, <2>2
<1>16. more[0] = cut[0]
  <2>1. 0 \in 0 .. m
    OBVIOUS
  <2> QED
    BY <1>9, <2>1
<1>17. Cut(U, later, more)'
  <2>1. /\ Len(transit') = m + 1 + b /\ transit' = q /\ Len(said') = n + 1 /\ Len(U) = t + a + b
    BY <1>2, <1>4, <1>5
  <2>2. more[Len(transit')] = Len(U)
    BY <1>12, <2>1
  <2>3. \A i \in 1 .. Len(transit') :
           /\ more[i] = more[i - 1] + Len(transit'[i])
           /\ \A j \in 1 .. Len(transit'[i]) : transit'[i][j] = U[more[i - 1] + j]
    <3> SUFFICES ASSUME NEW i \in 1 .. Len(transit')
                 PROVE  /\ more[i] = more[i - 1] + Len(transit'[i])
                        /\ \A j \in 1 .. Len(transit'[i]) : transit'[i][j] = U[more[i - 1] + j]
      OBVIOUS
    <3>1. i \in 1 .. m + 1 + b
      BY <2>1, Zenon
    <3>2. more[i] = more[i - 1] + Len(q[i]) /\ \A j \in 1 .. Len(q[i]) : q[i][j] = U[more[i - 1] + j]
      BY <1>13, <3>1, Zenon
    <3>3. transit'[i] = q[i]
      BY <2>1, Zenon
    <3> QED
      BY <3>2, <3>3, Zenon
  <2>4. \A i \in 0 .. Len(transit') :
           /\ more[i] <= Len(U)
           /\ \A j \in 1 .. Len(said') :
                 later[j - 1] < more[i] => more[i] >= later[j - 1] + Len(ClientHeader(said'[j]))
    BY <1>14, <1>15, <2>1, Zenon
  <2> QED
    BY <2>2, <2>3, <2>4 DEF Cut
<1> QED
  BY <1>5, <1>16, <1>17 DEF CutSomehow

LEMMA HeardSpeak ==
    ASSUME ConnectionType, HeardInv, ~ Segmented, NEW f \in ClientFrames, Speak(f)
    PROVE  HeardInv'
<1>1. PICK T \in Seq(Byte), start \in [0 .. Len(said) -> Nat], cut \in [0 .. Len(transit) -> Nat], c \in Nat,
           h \in 0 .. Len(said) : Heard(T, start, cut, c, h)
  BY DEF HeardInv
<1>2. Taped(T, start) /\ Cut(T, start, cut) /\ Arrived(T, cut[0], c) /\ Stage(start, c, h) /\ Answered(h)
  BY <1>1 DEF Heard
<1>3. /\ said' = Append(said, f) /\ transit' = transit \o Pieces(f)
      /\ UNCHANGED <<arrived, at, frame, meant>>
      /\ \A i \in 1 .. Len(said) : said[i].op # Close
  <2>1. DOMAIN said = 1 .. Len(said)
    BY DEF ConnectionType
  <2> QED
    BY <2>1 DEF Speak, endpoint
<1>4. PICK n \in Nat : n = Len(said)
  BY DEF ConnectionType
<1>5. PICK U \in Seq(Byte) : Grown(U, T, ClientHeader(f), ClientPayload(f))
  BY ClientBytes, TapeGrows
<1>6. PICK later \in [0 .. n + 1 -> Nat] :
         (\A j \in 0 .. n : later[j] = start[j]) /\ later[n + 1] = Len(U)
  <2> DEFINE l == [j \in 0 .. n + 1 |-> IF j <= n THEN start[j] ELSE Len(U)]
  <2>1. Len(U) \in Nat
    OBVIOUS
  <2>2. ASSUME NEW j \in 0 .. n PROVE start[j] \in Nat /\ j <= n /\ j \in 0 .. n + 1
    BY <1>4, SMTT(30)
  <2>3. \A j \in 0 .. n + 1 : j <= n => j \in 0 .. n
    OBVIOUS
  <2>4. l \in [0 .. n + 1 -> Nat]
    BY <2>1, <2>2, <2>3
  <2>5. \A j \in 0 .. n + 1 : l[j] = IF j <= n THEN start[j] ELSE Len(U)
    OBVIOUS
  <2>6. n + 1 \in 0 .. n + 1 /\ ~ (n + 1 <= n)
    OBVIOUS
  <2> HIDE DEF l
  <2>7. \A j \in 0 .. n : l[j] = start[j]
    BY <2>2, <2>5
  <2>8. l[n + 1] = Len(U)
    BY <2>5, <2>6
  <2> QED
    BY <2>4, <2>7, <2>8
<1>7. /\ later \in [0 .. Len(said) + 1 -> Nat]
      /\ \A j \in 0 .. Len(said) : later[j] = start[j]
      /\ later[Len(said) + 1] = Len(U)
  BY <1>4, <1>6
<1>8. Taped(U, later)'
  BY <1>2, <1>3, <1>5, <1>7, TapeSpoken
<1>9. PICK more \in [0 .. Len(transit') -> Nat] : Cut(U, later, more)' /\ more[0] = cut[0]
  <2>1. Taped(T, start) /\ Cut(T, start, cut) /\ said' = Append(said, f) /\ transit' = transit \o Pieces(f)
    BY <1>2, <1>3
  <2>2. CutSomehow(U, later, cut[0])'
    BY <1>5, <1>7, <2>1, CutSpoken
  <2> QED
    BY <2>2 DEF CutSomehow
<1>10. Len(said') = n + 1 /\ said'[n + 1] = f /\ \A j \in 1 .. n : said'[j] = said[j]
  BY <1>3, <1>4, SaidMore
<1>11. Arrived(U, more[0], c)'
  <2>1. PICK r \in Nat, t \in Nat, z \in Nat : r = cut[0] /\ t = Len(T) /\ z = Len(arrived)
    <3>1. cut[0] \in Nat
      BY CutBegins
    <3>2. arrived \in Seq(Byte)
      BY DEF ConnectionType
    <3>3. Len(arrived) \in Nat /\ Len(T) \in Nat
      BY <3>2
    <3> QED
      BY <3>1, <3>3, Zenon
  <2>2. r <= t
    <3>1. 0 \in 0 .. Len(transit)
      BY DEF ConnectionType
    <3> QED
      BY <1>2, <2>1, <3>1 DEF Cut
  <2>3. c <= r /\ z = r - c /\ \A i \in 1 .. z : arrived[i] = T[c + i]
    BY <1>2, <2>1 DEF Arrived
  <2>4. \A i \in 1 .. t : U[i] = T[i]
    BY <1>5, <2>1 DEF Grown
  <2>5. ASSUME NEW i \in 1 .. z PROVE arrived[i] = U[c + i]
    <3>1. c + i \in 1 .. t
      BY <2>2, <2>3, SMTT(30)
    <3> QED
      BY <2>3, <2>4, <3>1
  <2>6. more[0] = r
    BY <1>9, <2>1
  <2> QED
    BY <1>3, <2>1, <2>3, <2>5, <2>6 DEF Arrived
<1>12. PICK g \in Nat : g = h /\ g \in 0 .. n /\ g \in 0 .. n + 1
  BY <1>4
<1>13. Stage(later, c, g)'
  <2>1. later[g] = start[g]
    BY <1>6, <1>12
  <2>2. CASE at \notin Reading
    <3>1. c = later[g]
      BY <1>2, <1>12, <2>1, <2>2 DEF Stage
    <3> QED
      BY <1>3, <2>2, <3>1 DEF Stage
  <2>3. CASE at \in Reading
    <3>1. g < n
      BY <1>2, <1>4, <1>12, <2>3 DEF Stage
    <3>2. PICK x \in 0 .. Half - 1, ext \in Seq(Byte) : Known(said[g + 1], start[g], c, x, ext)
      BY <1>2, <1>12, <2>3 DEF Stage
    <3>3. PICK e, s : e = said[g + 1] /\ s = start[g] /\ Known(e, s, c, x, ext)
      BY <3>2
    <3>4. said'[g + 1] = e
      <4>1. g + 1 \in 1 .. n
        BY <3>1
      <4> QED
        BY <1>10, <3>3, <4>1
    <3>5. Known(e, s, c, x, ext)'
      BY <1>3, <3>3 DEF Known
    <3>6. Known(said[g + 1], later[g], c, x, ext)'
      BY <2>1, <3>3, <3>4, <3>5, Zenon
    <3>7. g < Len(said')
      BY <1>10, <3>1
    <3> QED
      BY <1>3, <2>3, <3>6, <3>7 DEF Stage
  <2> QED
    BY <2>2, <2>3
<1>14. Answered(g)'
  <2>1. SubSeq(said', 1, g) = SubSeq(said, 1, g)
    <3>1. PICK S \in Seq(ClientFrames), R \in Seq(ClientFrames) : S = said /\ R = said'
      <4>1. PICK S \in Seq(ClientFrames) : S = said
        BY DEF ConnectionType
      <4>2. Append(S, f) \in Seq(ClientFrames)
        OBVIOUS
      <4> QED
        BY <1>3, <4>1, <4>2, Zenon
    <3>2. \A i \in 1 .. g : R[i] = S[i]
      BY <1>10, <1>12, <3>1
    <3>3. Len(S) = n /\ Len(R) = n + 1
      BY <1>4, <1>10, <3>1
    <3>4. SubSeq(R, 1, g) = SubSeq(S, 1, g)
      <4>1. \A i \in 1 .. g : R[i] \in ClientFrames /\ S[i] \in ClientFrames
        BY <1>12, <3>3
      <4>2. /\ SubSeq(R, 1, g) \in Seq(ClientFrames) /\ Len(SubSeq(R, 1, g)) = g
            /\ \A i \in 1 .. g : SubSeq(R, 1, g)[i] = R[i]
        BY <1>12, <3>3, <4>1
      <4>3. /\ SubSeq(S, 1, g) \in Seq(ClientFrames) /\ Len(SubSeq(S, 1, g)) = g
            /\ \A i \in 1 .. g : SubSeq(S, 1, g)[i] = S[i]
        BY <1>12, <3>3, <4>1
      <4> QED
        BY <3>2, <4>2, <4>3, SeqEqual
    <3> QED
      BY <3>1, <3>4
  <2>2. Payloads(meant', Pong) = Payloads(SubSeq(said', 1, g), Ping)
    <3>1. Payloads(meant, Pong) = Payloads(SubSeq(said, 1, g), Ping)
      BY <1>2, <1>12 DEF Answered
    <3>2. meant' = meant
      BY <1>3
    <3> QED
      BY <2>1, <3>1, <3>2, Zenon
  <2>3. ASSUME NEW i \in 1 .. n + 1, said'[i].op = Close PROVE i = n + 1
    <3> SUFFICES ASSUME i # n + 1 PROVE FALSE
      OBVIOUS
    <3>1. i \in 1 .. n
      OBVIOUS
    <3> QED
      BY <1>3, <1>4, <1>10, <2>3, <3>1
  <2>4. at' \notin {"closing", "closed"}
    <3> SUFFICES ASSUME at \in {"closing", "closed"} PROVE FALSE
      BY <1>3
    <3>1. h > 0 /\ h = Len(said) /\ said[h].op = Close
      BY <1>2 DEF Answered
    <3>2. h \in 1 .. Len(said)
      BY <1>4, <3>1
    <3> QED
      BY <1>3, <3>1, <3>2
  <2> QED
    BY <1>10, <2>2, <2>3, <2>4 DEF Answered
<1>15. Heard(U, later, more, c, g)'
  BY <1>8, <1>9, <1>11, <1>13, <1>14 DEF Heard
<1>16. later \in [0 .. Len(said') -> Nat] /\ g \in 0 .. Len(said')
  BY <1>6, <1>10, <1>12
<1> QED
  BY <1>9, <1>15, <1>16 DEF HeardInv

\* A step that neither takes from the browser nor hears of it.
LEMMA HeardIdle ==
    ASSUME ConnectionType, HeardInv, UNCHANGED <<said, transit, arrived>>,
           at \notin Reading, at' \notin Reading,
           at' \in {"closing", "closed"} => at \in {"closing", "closed"},
           Payloads(meant', Pong) = Payloads(meant, Pong)
    PROVE  HeardInv'
<1>1. PICK T \in Seq(Byte), start \in [0 .. Len(said) -> Nat], cut \in [0 .. Len(transit) -> Nat], c \in Nat,
           h \in 0 .. Len(said) : Heard(T, start, cut, c, h)
  BY DEF HeardInv
<1>2. Taped(T, start) /\ Cut(T, start, cut) /\ Arrived(T, cut[0], c) /\ Stage(start, c, h) /\ Answered(h)
  BY <1>1 DEF Heard
<1>3. Taped(T, start)' /\ Cut(T, start, cut)' /\ Arrived(T, cut[0], c)' /\ Stage(start, c, h)'
  BY <1>2 DEF Taped, Cut, Arrived, Stage
<1>4. Answered(h)'
  <2>1. Payloads(meant', Pong) = Payloads(SubSeq(said', 1, h), Ping)
    BY <1>2 DEF Answered
  <2>2. \A i \in 1 .. Len(said') : said'[i].op = Close => i = Len(said')
    BY <1>2 DEF Answered
  <2>3. at' \in {"closing", "closed"} => h > 0 /\ h = Len(said') /\ said'[h].op = Close
    BY <1>2 DEF Answered
  <2> QED
    BY <2>1, <2>2, <2>3 DEF Answered
<1>5. Heard(T, start, cut, c, h)'
  BY <1>3, <1>4 DEF Heard
<1>6. start \in [0 .. Len(said') -> Nat] /\ cut \in [0 .. Len(transit') -> Nat] /\ h \in 0 .. Len(said')
  OBVIOUS
<1> QED
  BY <1>5, <1>6 DEF HeardInv

LEMMA HeardUnmoved ==
    ASSUME HeardInv, UNCHANGED <<said, transit, arrived, at, frame, meant>>
    PROVE  HeardInv'
<1>1. PICK T \in Seq(Byte), start \in [0 .. Len(said) -> Nat], cut \in [0 .. Len(transit) -> Nat], c \in Nat,
           h \in 0 .. Len(said) : Heard(T, start, cut, c, h)
  BY DEF HeardInv
<1>2. Taped(T, start) /\ Cut(T, start, cut) /\ Arrived(T, cut[0], c) /\ Stage(start, c, h) /\ Answered(h)
  BY <1>1 DEF Heard
<1>3. Taped(T, start)' /\ Cut(T, start, cut)' /\ Arrived(T, cut[0], c)' /\ Stage(start, c, h)' /\ Answered(h)'
  BY <1>2 DEF Taped, Cut, Arrived, Stage, Known, Answered
<1>4. Heard(T, start, cut, c, h)'
  BY <1>3 DEF Heard
<1>5. start \in [0 .. Len(said') -> Nat] /\ cut \in [0 .. Len(transit') -> Nat] /\ h \in 0 .. Len(said')
  OBVIOUS
<1> QED
  BY <1>4, <1>5 DEF HeardInv

LEMMA HeardStep ==
    ASSUME ConnectionType, HeardInv, ~ Segmented, [ConnectionNext]_connectionVars
    PROVE  HeardInv'
<1>1. ASSUME UNCHANGED connectionVars \/ ReadKeyByte PROVE HeardInv'
  <2>1. UNCHANGED <<said, transit, arrived, at, frame, meant>>
    BY <1>1 DEF connectionVars, browser, endpoint, ReadKeyByte
  <2> QED
    BY <2>1, HeardUnmoved
<1>2. ASSUME Upgrade \/ FindNothing \/ OmitText PROVE HeardInv'
  <2>1. /\ UNCHANGED <<said, transit, arrived, meant>>
        /\ at \in {"handshaking", "polling", "texting"} /\ at' \in {"polling", "texting"}
    BY <1>2 DEF Upgrade, FindNothing, OmitText, browser
  <2>2. /\ at \notin Reading /\ at' \notin Reading /\ at' \notin {"closing", "closed"}
        /\ Payloads(meant', Pong) = Payloads(meant, Pong)
    BY <2>1 DEF Reading
  <2> QED
    BY <2>1, <2>2, HeardIdle
<1>3. ASSUME NEW f \in ClientFrames, Speak(f) PROVE HeardInv'
  BY <1>3, HeardSpeak
<1>4. ASSUME Arrive PROVE HeardInv'
  BY <1>4, HeardArrive
<1>5. ASSUME ReadHeader PROVE HeardInv'
  BY <1>5, HeardHeader
<1>6. ASSUME ReadLength PROVE HeardInv'
  BY <1>6, HeardLength
<1>7. ASSUME ReadMask PROVE HeardInv'
  BY <1>7, HeardMask
<1>8. ASSUME ReadPayload PROVE HeardInv'
  BY <1>8, HeardPayload
<1>9. ASSUME HandleClose PROVE HeardInv'
  <2>1. /\ Complete /\ UNCHANGED <<said, transit, arrived>>
        /\ frame.op = Close /\ at' = "closing"
        /\ meant' = Append(meant, [op |-> Close, payload |-> <<>>])
    BY <1>9 DEF HandleClose, Answer, Begin, browser
  <2> QED
    BY <2>1, HeardComplete
<1>10. ASSUME HandlePing PROVE HeardInv'
  <2>1. /\ Complete /\ UNCHANGED <<said, transit, arrived>>
        /\ frame.op = Ping /\ at' = "answering"
        /\ meant' = Append(meant, [op |-> Pong, payload |-> Unmasked])
    BY <1>10 DEF HandlePing, Answer, Begin, browser
  <2> QED
    BY <2>1, HeardComplete
<1>11. ASSUME Ignore PROVE HeardInv'
  <2>1. /\ Complete /\ UNCHANGED <<said, transit, arrived>>
        /\ frame.op \notin {Close, Ping} /\ at' = "texting" /\ meant' = meant
    BY <1>11 DEF Ignore, browser
  <2> QED
    BY <2>1, HeardComplete
<1>12. ASSUME SendText PROVE HeardInv'
  <2>1. PICK n \in TextLengths :
           Begin(Text, [i \in 1 .. n |-> i % Base], TextFrame([i \in 1 .. n |-> i % Base]), "sending")
    BY <1>12 DEF SendText
  <2>2. PICK payload \in Seq(Byte) : payload = [i \in 1 .. n |-> i % Base]
    BY TextPayload
  <2>3. /\ UNCHANGED <<said, transit, arrived>> /\ at' = "sending" /\ at = "texting"
        /\ meant' = Append(meant, [op |-> Text, payload |-> payload])
    BY <1>12, <2>1, <2>2 DEF Begin, SendText, browser
  <2>4. Payloads(meant', Pong) = Payloads(meant, Pong)
    <3>1. Text \in 0 .. Half - 1 /\ Text # Pong
      BY OpcodeTypes, WebSocketAssumption
    <3> QED
      BY <2>3, <3>1, MeantPongs
  <2>5. at \notin Reading /\ at' \notin Reading /\ at' \notin {"closing", "closed"}
    BY <2>3 DEF Reading
  <2> QED
    BY <2>3, <2>4, <2>5, HeardIdle
<1>13. ASSUME SendBytes PROVE HeardInv'
  <2>1. /\ UNCHANGED <<said, transit, arrived, meant>> /\ at \in DOMAIN After
        /\ at' = After[at] \/ at' = at
    BY <1>13 DEF SendBytes, browser
  <2>2. /\ at \in {"sending", "answering", "closing"}
        /\ After["sending"] = "polling" /\ After["answering"] = "texting" /\ After["closing"] = "closed"
    BY <2>1 DEF After
  <2>3. at \notin Reading /\ at' \notin Reading
    BY <2>1, <2>2 DEF Reading
  <2>4. at' \in {"closing", "closed"} => at \in {"closing", "closed"}
    BY <2>1, <2>2
  <2>5. Payloads(meant', Pong) = Payloads(meant, Pong)
    BY <2>1
  <2> QED
    BY <2>1, <2>3, <2>4, <2>5, HeardIdle
<1> QED
  BY <1>1, <1>2, <1>3, <1>4, <1>5, <1>6, <1>7, <1>8, <1>9, <1>10, <1>11, <1>12, <1>13 DEF ConnectionNext

LEMMA HeardAnswers == ASSUME ConnectionType, HeardInv PROVE PingsAnswered
<1>1. PICK T \in Seq(Byte), start \in [0 .. Len(said) -> Nat], cut \in [0 .. Len(transit) -> Nat], c \in Nat,
           h \in 0 .. Len(said) : Heard(T, start, cut, c, h)
  BY DEF HeardInv
<1>2. Taped(T, start) /\ Cut(T, start, cut) /\ Arrived(T, cut[0], c) /\ Stage(start, c, h) /\ Answered(h)
  BY <1>1 DEF Heard
<1>3. PICK n \in Nat : n = Len(said)
  BY DEF ConnectionType
<1>4. said \in Seq(ClientFrames)
  BY DEF ConnectionType
<1>5. Payloads(meant, Pong) = Payloads(SubSeq(said, 1, h), Ping)
  BY <1>2 DEF Answered
<1>6. IsPrefix(Payloads(SubSeq(said, 1, h), Ping), Payloads(said, Ping))
  BY <1>4, PayloadsPrefix
<1>7. ASSUME at = "polling", arrived = <<>>, transit = <<>> PROVE Payloads(meant, Pong) = Payloads(said, Ping)
  <2>1. Len(arrived) = 0 /\ Len(transit) = 0
    BY <1>7
  <2>2. cut[0] = Len(T)
    BY <1>2, <2>1 DEF Cut
  <2>3. c = Len(T)
    <3>1. Len(arrived) = cut[0] - c
      BY <1>2 DEF Arrived
    <3>2. Len(T) \in Nat
      OBVIOUS
    <3> QED
      BY <2>1, <2>2, <3>1, <3>2
  <2>4. c = start[h]
    BY <1>2, <1>7 DEF Stage, Reading
  <2>5. start[n] = c
    BY <1>2, <1>3, <2>3 DEF Taped
  <2>6. h = n
    <3>1. h \in 0 .. n /\ n \in 0 .. n
      BY <1>3
    <3>2. h < n => start[h] < start[n]
      BY <1>2, <1>3, <3>1 DEF Taped
    <3>3. ~ (h < n)
      BY <2>4, <2>5, <3>2
    <3> QED
      BY <3>1, <3>3
  <2>7. SubSeq(said, 1, n) = said
    BY <1>3, <1>4, SubSeqFull
  <2> QED
    BY <1>5, <2>6, <2>7, Zenon
<1>8. ASSUME at = "closed" PROVE said # <<>> /\ Last(said).op = Close
  <2>1. h > 0 /\ h = Len(said) /\ said[h].op = Close
    BY <1>2, <1>8 DEF Answered
  <2>2. said # <<>>
    BY <2>1
  <2> QED
    BY <2>1, <2>2 DEF Last
<1> QED
  BY <1>5, <1>6, <1>7, <1>8 DEF PingsAnswered

-----------------------------------------------------------------------------

\* Every variable of a connection keeps its type, whatever the network does to
\* the headers (client_loop, poll_client_frame).
THEOREM ConnectionIsTyped == ConnectionSpec => []ConnectionType
<1>1. ConnectionType /\ [ConnectionNext]_connectionVars => ConnectionType'
  BY TypeStep
<1> QED
  BY TypeBegins, <1>1, PTL DEF ConnectionSpec

\* What has arrived, what is under way and what poll_client_frame knows are the
\* bytes of the frames the browser has sent, in their places, if no header comes
\* in pieces.
THEOREM BrowserIsHeard == ASSUME ~ Segmented PROVE ConnectionSpec => []HeardInv
<1>1. ConnectionType /\ HeardInv /\ [ConnectionNext]_connectionVars => HeardInv'
  BY HeardStep
<1> QED
  BY HeardBegins, ConnectionIsTyped, <1>1, PTL DEF ConnectionSpec

\* poll_client_frame answers every ping once, in order and with its payload, and
\* only a close frame closes, if no header comes in pieces.
THEOREM EveryPingIsAnswered == ASSUME ~ Segmented PROVE ConnectionSpec => []PingsAnswered
<1>1. ConnectionType /\ HeardInv => PingsAnswered
  BY HeardAnswers
<1> QED
  BY ConnectionIsTyped, BrowserIsHeard, <1>1, PTL

\* What send_text_frame and send_control_frame encode, the browser decodes to what
\* was meant, frame for frame, for every length and however send() cuts them.
THEOREM EveryFrameIsRead == ASSUME ~ Segmented PROVE ConnectionSpec => []BrowserReadsWhatIsMeant
<1>1. ConnectionType /\ HeardInv => ShortPing
  BY HeardShort
<1>2. ConnectionType /\ SentInv /\ ShortPing /\ [ConnectionNext]_connectionVars => SentInv'
  BY SentStep
<1>3. ConnectionType /\ SentInv => BrowserReadsWhatIsMeant
  BY SentRead
<1> QED
  BY SentBegins, ConnectionIsTyped, BrowserIsHeard, <1>1, <1>2, <1>3, PTL DEF ConnectionSpec

=============================================================================
