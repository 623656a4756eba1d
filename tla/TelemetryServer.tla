--------------------------- MODULE TelemetryServer ---------------------------
(***************************************************************************)
(* TelemetryServer: one thread accepts connections and performs the        *)
(* handshakes, one thread per client pushes a frame per period, and stop() *)
(* lowers is_running_, closes the listening socket and joins them all.     *)
(* recv and send block.  The peers, the kernel's buffers and backlog are   *)
(* external: a peer may send its request or not, read or not, send a frame *)
(* in one piece or in two, and leave at any time.  A reconnecting browser  *)
(* is another peer.                                                        *)
(***************************************************************************)
EXTENDS Naturals, FiniteSets

CONSTANTS
    Peers,        \* connections
    Greeters,     \* the peers that are sure to send their request or leave
    Readers,      \* the peers that are sure to finish their frames and read
    Room,         \* bound: frames the kernel buffers for one peer
    None

ASSUME TelemetryAssumption ==
    /\ Greeters \subseteq Peers
    /\ Readers \subseteq Peers
    /\ Room \in Nat \ {0}
    /\ None \notin Peers

VARIABLES
    running,      \* is_running_
    listening,    \* is the kernel's listening socket open?
    stored,       \* is listen_socket_ a socket (TRUE) or kInvalidSocket?
    control,      \* where stop() is
    accepter,     \* where accept_loop() is
    selected,     \* listen_sock: is the value it read a socket?
    serving,      \* client_sock: the peer whose handshake it performs
    thread,       \* per peer, where its client_loop() is
    sock,         \* per peer, the server's end of its connection
    peer,         \* per peer, "away", "there" or "gone"
    request,      \* per peer, what it has sent for a handshake
    inbox,        \* per peer, the frame it has sent that was not received yet
    unread        \* per peer, how many frames it has not read

server == <<running, listening, stored, control, accepter, selected, serving, thread>>
wire   == <<peer, request, inbox, unread>>
vars   == <<server, sock, wire>>

Live == {p \in Peers : thread[p] \in {"looping", "polling", "sending"}}

Init ==
    /\ running = FALSE
    /\ listening = FALSE
    /\ stored = FALSE
    /\ control = "idle"
    /\ accepter = "none"
    /\ selected = FALSE
    /\ serving = None
    /\ thread = [p \in Peers |-> "none"]
    /\ sock = [p \in Peers |-> "none"]
    /\ peer = [p \in Peers |-> "away"]
    /\ request = [p \in Peers |-> "none"]
    /\ inbox = [p \in Peers |-> "none"]
    /\ unread = [p \in Peers |-> 0]

-----------------------------------------------------------------------------
(* start() and stop(), called by the main thread.                          *)

Start ==
    /\ control = "idle"
    /\ ~running
    /\ running' = TRUE
    /\ listening' = TRUE
    /\ stored' = TRUE
    /\ accepter' = "checking"
    /\ UNCHANGED <<control, selected, serving, thread, sock, wire>>

BeginStop ==
    /\ control = "idle"
    /\ running
    /\ running' = FALSE
    /\ control' = "lowered"
    /\ UNCHANGED <<listening, stored, accepter, selected, serving, thread, sock, wire>>

\* close_socket(listen_socket_): the connections nobody accepted are reset.
CloseListener ==
    /\ control = "lowered"
    /\ control' = "closed"
    /\ listening' = FALSE
    /\ sock' = [p \in Peers |-> IF sock[p] = "backlog" THEN "closed" ELSE sock[p]]
    /\ UNCHANGED <<running, stored, accepter, selected, serving, thread, wire>>

ForgetListener ==
    /\ control = "closed"
    /\ control' = "joining"
    /\ stored' = FALSE
    /\ UNCHANGED <<running, listening, accepter, selected, serving, thread, sock, wire>>

JoinAccepterLater ==
    /\ control = "joining"
    /\ control' = "clearing"
    /\ UNCHANGED <<running, listening, stored, accepter, selected, serving, thread, sock, wire>>

JoinAccepter ==
    /\ control = "joining"
    /\ accepter = "ended"
    /\ control' = "clearing"
    /\ accepter' = "none"
    /\ UNCHANGED <<running, listening, stored, selected, serving, thread, sock, wire>>

\* client_threads_.clear() joins every client thread, finished or not.
JoinClients ==
    /\ control = "clearing"
    /\ Live = {}
    /\ control' = "idle"
    /\ UNCHANGED <<running, listening, stored, accepter, selected, serving, thread, sock, wire>>

Stopping == BeginStop \/ CloseListener \/ ForgetListener \/ JoinAccepter \/ JoinClients

-----------------------------------------------------------------------------
(* accept_loop().                                                          *)

CheckRunning ==
    /\ accepter = "checking"
    /\ accepter' = IF running THEN "reading" ELSE "ended"
    /\ UNCHANGED <<running, listening, stored, control, selected, serving, thread, sock, wire>>

\* listen_socket_ is no atomic: stop() may be about to overwrite it.
ReadListener ==
    /\ accepter = "reading"
    /\ accepter' = "selecting"
    /\ selected' = stored
    /\ UNCHANGED <<running, listening, stored, control, serving, thread, sock, wire>>

Pending == IF listening /\ selected THEN {p \in Peers : sock[p] = "backlog"} ELSE {}

\* select() finds nothing within its 200 ms, or fails.  The socket may be
\* kInvalidSocket by then: FD_SET of -1 is undefined, and the model follows a
\* library that does not check.
SelectNothing ==
    /\ accepter = "selecting"
    /\ Pending = {}
    /\ accepter' = "checking"
    /\ UNCHANGED <<running, listening, stored, control, selected, serving, thread, sock, wire>>

\* select() finds the socket ready.
SelectReady ==
    /\ accepter = "selecting"
    /\ Pending # {}
    /\ accepter' = "accepting"
    /\ UNCHANGED <<running, listening, stored, control, selected, serving, thread, sock, wire>>

\* accept(), and the look at is_running_ after it.
Accept ==
    /\ accepter = "accepting"
    /\ IF Pending = {}
       THEN /\ accepter' = IF running THEN "checking" ELSE "ended"
            /\ UNCHANGED <<serving, sock>>
       ELSE \E p \in Pending :
               IF running
               THEN /\ accepter' = "greeting"
                    /\ serving' = p
                    /\ sock' = [sock EXCEPT ![p] = "open"]
               ELSE /\ accepter' = "ended"
                    /\ sock' = [sock EXCEPT ![p] = "closed"]
                    /\ UNCHANGED serving
    /\ UNCHANGED <<running, listening, stored, control, selected, thread, wire>>

\* read_websocket_key() returns a key.  Until the request is complete the
\* thread is in recv().
ReadKey ==
    /\ accepter = "greeting"
    /\ request[serving] = "key"
    /\ accepter' = "answering"
    /\ UNCHANGED <<running, listening, stored, control, selected, serving, thread, sock, wire>>

TurnAway ==
    /\ accepter' = "checking"
    /\ serving' = None
    /\ sock' = [sock EXCEPT ![serving] = "closed"]
    /\ UNCHANGED <<running, listening, stored, control, selected, thread, wire>>

NoKey ==
    /\ accepter = "greeting"
    /\ \/ request[serving] = "no_key"
       \/ request[serving] = "none" /\ peer[serving] = "gone"

ReadNoKeyBreaking ==
    /\ NoKey
    /\ accepter' = "ended"
    /\ serving' = None
    /\ sock' = [sock EXCEPT ![serving] = "closed"]
    /\ UNCHANGED <<running, listening, stored, control, selected, thread, wire>>

\* It returns none: the request has no key, or the peer left first.
ReadNoKey == NoKey /\ TurnAway

\* The answer is sent, and the client gets its thread.
Welcome ==
    /\ accepter = "answering"
    /\ accepter' = "checking"
    /\ serving' = None
    /\ thread' = [thread EXCEPT ![serving] = "looping"]
    /\ UNCHANGED <<running, listening, stored, control, selected, sock, wire>>

AnswerFailsLeaking ==
    /\ accepter = "answering"
    /\ peer[serving] = "gone"
    /\ accepter' = "checking"
    /\ serving' = None
    /\ UNCHANGED <<running, listening, stored, control, selected, thread, sock, wire>>

AnswerFails ==
    /\ accepter = "answering"
    /\ peer[serving] = "gone"
    /\ TurnAway

Accepting ==
    \/ CheckRunning \/ ReadListener \/ SelectNothing \/ SelectReady
    \/ Accept \/ ReadKey \/ ReadNoKey \/ Welcome \/ AnswerFails

-----------------------------------------------------------------------------
(* client_loop().                                                          *)

rest == <<running, listening, stored, control, accepter, selected, serving, peer, request>>

MoveOn(p, next) == thread' = [thread EXCEPT ![p] = next]

End(p) ==
    /\ MoveOn(p, "ended")
    /\ sock' = [sock EXCEPT ![p] = "closed"]

LoopForEver(p) ==
    /\ thread[p] = "looping"
    /\ MoveOn(p, "polling")
    /\ UNCHANGED <<rest, sock, inbox, unread>>

LoopOrEnd(p) ==
    /\ thread[p] = "looping"
    /\ IF running THEN MoveOn(p, "polling") /\ UNCHANGED sock ELSE End(p)
    /\ UNCHANGED <<rest, inbox, unread>>

\* poll_client_frame() finds no byte to receive.
PollNothing(p) ==
    /\ thread[p] = "polling"
    /\ inbox[p] = "none" /\ peer[p] # "gone"
    /\ MoveOn(p, "sending")
    /\ UNCHANGED <<rest, sock, inbox, unread>>

\* It receives a whole frame and ignores it.  A frame that arrives byte by
\* byte may be taken for a whole one: recv() of the two header bytes may
\* return one, and header[1], with the length, is then uninitialised.
PollData(p) ==
    /\ thread[p] = "polling"
    /\ inbox[p] \in {"data", "half"}
    /\ MoveOn(p, "sending")
    /\ inbox' = [inbox EXCEPT ![p] = "none"]
    /\ UNCHANGED <<rest, sock, unread>>

\* It answers a ping, and the loop goes on, or a close, and the thread ends.
\* The answer needs room as every send() does, and whether it was sent is not
\* looked at.
PollAnswered(p) ==
    /\ thread[p] = "polling"
    /\ inbox[p] \in {"ping", "close", "half"}
    /\ unread[p] < Room \/ peer[p] = "gone"
    /\ inbox' = [inbox EXCEPT ![p] = "none"]
    /\ unread' = IF peer[p] = "gone" THEN unread ELSE [unread EXCEPT ![p] = @ + 1]
    /\ \/ inbox[p] # "close" /\ MoveOn(p, "sending") /\ UNCHANGED sock
       \/ inbox[p] # "ping" /\ End(p)
    /\ UNCHANGED rest

\* The peer left, perhaps in the middle of a frame: recv() returns 0.
PollClosed(p) ==
    /\ thread[p] = "polling"
    /\ inbox[p] \in {"none", "half"} /\ peer[p] = "gone"
    /\ End(p)
    /\ UNCHANGED <<rest, inbox, unread>>

\* The frame is sent once the peer's buffers have room for it; the thread
\* then sleeps for a period.
Send(p) ==
    /\ thread[p] = "sending"
    /\ unread[p] < Room
    /\ MoveOn(p, "looping")
    /\ unread' = [unread EXCEPT ![p] = @ + 1]
    /\ UNCHANGED <<rest, sock, inbox>>

SendFails(p) ==
    /\ thread[p] = "sending"
    /\ peer[p] = "gone"
    /\ End(p)
    /\ UNCHANGED <<rest, inbox, unread>>

Serving(p) ==
    \/ LoopOrEnd(p) \/ PollNothing(p) \/ PollData(p) \/ PollAnswered(p) \/ PollClosed(p)
    \/ Send(p) \/ SendFails(p)

-----------------------------------------------------------------------------
(* The peers.                                                              *)

Connect(p) ==
    /\ peer[p] = "away"
    /\ listening
    /\ peer' = [peer EXCEPT ![p] = "there"]
    /\ sock' = [sock EXCEPT ![p] = "backlog"]
    /\ UNCHANGED <<server, request, inbox, unread>>

Ask(p) ==
    /\ peer[p] = "there"
    /\ request[p] = "none"
    /\ \E r \in {"key", "no_key"} : request' = [request EXCEPT ![p] = r]
    /\ UNCHANGED <<server, sock, peer, inbox, unread>>

\* A frame arrives whole, or its first bytes do.
Say(p) ==
    /\ peer[p] = "there"
    /\ thread[p] # "none"
    /\ inbox[p] = "none"
    /\ \E f \in {"data", "half", "ping", "close"} : inbox' = [inbox EXCEPT ![p] = f]
    /\ UNCHANGED <<server, sock, peer, request, unread>>

FinishFrame(p) ==
    /\ peer[p] = "there"
    /\ inbox[p] = "half"
    /\ inbox' = [inbox EXCEPT ![p] = "data"]
    /\ UNCHANGED <<server, sock, peer, request, unread>>

ReadFrame(p) ==
    /\ peer[p] = "there"
    /\ unread[p] > 0
    /\ unread' = [unread EXCEPT ![p] = @ - 1]
    /\ UNCHANGED <<server, sock, peer, request, inbox>>

Leave(p) ==
    /\ peer[p] = "there"
    /\ peer' = [peer EXCEPT ![p] = "gone"]
    /\ UNCHANGED <<server, sock, request, inbox, unread>>

-----------------------------------------------------------------------------

Next ==
    \/ Start \/ Stopping \/ Accepting
    \/ \E p \in Peers :
          \/ Serving(p)
          \/ Connect(p) \/ Ask(p) \/ Say(p) \/ FinishFrame(p) \/ ReadFrame(p) \/ Leave(p)

Spec == Init /\ [][Next]_vars

\* A stop() that was called is carried on, the server's threads are
\* scheduled, and the peers that are sure to do something do it.  Nothing
\* makes start() or stop() be called, a peer connect, speak or leave.
FairSpec ==
    /\ Spec
    /\ WF_vars(control # "idle" /\ Stopping)
    /\ WF_vars(Accepting)
    /\ \A p \in Peers : WF_vars(Serving(p))
    /\ \A p \in Greeters : WF_vars(Ask(p))
    /\ \A p \in Readers : WF_vars(FinishFrame(p)) /\ WF_vars(ReadFrame(p))

-----------------------------------------------------------------------------
(* Properties.                                                             *)

\* Types; a handshake is under way exactly when the accepting thread is in one
\* (accept_loop).
TypeOK ==
    /\ {running, listening, stored, selected} \subseteq BOOLEAN
    /\ control \in {"idle", "lowered", "closed", "joining", "clearing"}
    /\ accepter \in {"none", "checking", "reading", "selecting", "accepting", "greeting",
                     "answering", "ended"}
    /\ serving \in Peers \cup {None}
    /\ (accepter \in {"greeting", "answering"}) <=> (serving # None)
    /\ thread \in [Peers -> {"none", "looping", "polling", "sending", "ended"}]
    /\ sock \in [Peers -> {"none", "backlog", "open", "closed"}]
    /\ peer \in [Peers -> {"away", "there", "gone"}]
    /\ request \in [Peers -> {"none", "key", "no_key"}]
    /\ inbox \in [Peers -> {"none", "data", "half", "ping", "close"}]
    /\ unread \in [Peers -> 0 .. Room]

\* Every connection the server holds open is some thread's to close: the
\* accepting thread's until the client has a thread of its own, and nobody
\* uses one that was closed (accept_loop, client_loop).
OneOwner ==
    \A p \in Peers : (sock[p] = "open") <=> (p \in Live \/ serving = p)

\* When stop() has returned, no thread of the server is left, nobody is
\* connected and nobody waits to be: whatever the accepting thread was doing
\* when the listening socket was closed under it (TelemetryServer::stop).
StopReleasesAll ==
    control = "idle" /\ ~running =>
        /\ accepter = "none"
        /\ Live = {}
        /\ \A p \in Peers : sock[p] \in {"none", "closed"}

\* stop() returns.  telemetry_server.cpp:369-370, "every client_loop notices
\* within one broadcast_period_ and returns", and :385-387, polling "bounds
\* shutdown latency to one timeout interval".  It holds as long as the peers
\* send their requests and read; with one that connects and sends nothing it
\* is refuted (SilentPeer.cfg).
StopReturns == (control # "idle") ~> (control = "idle")

\* Nobody waits in the backlog for ever: every peer is served, turned away or
\* reset (TelemetryServer::accept_loop, which performs one handshake at a
\* time).
PeerAnswered ==
    \A p \in Peers : (sock[p] = "backlog") ~> (thread[p] # "none" \/ sock[p] = "closed")

=============================================================================
