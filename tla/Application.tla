----------------------------- MODULE Application -----------------------------
(***************************************************************************)
(* main(): the order in which it constructs, starts, stops and destroys    *)
(* the logger, the archive, the engine, the runtime and the two servers,   *)
(* with the threads they run and the HTTP handlers, on every way out of    *)
(* it.  Each of them is reduced to its flag, its thread and what the       *)
(* thread uses; the modules of their own have the rest.  The peers of the  *)
(* telemetry server do not keep it (TelemetryServer has those that do).    *)
(***************************************************************************)
EXTENDS Naturals, Sequences

CONSTANTS
    Handlers,       \* the handler threads of the HTTP server
    MaxRequests     \* bound: POST /api/deploy requests

ASSUME MaxRequestsAssumption == MaxRequests \in Nat

Servants == {"logger", "engine", "web", "telemetry"}

VARIABLES
    at,         \* where main() is, up to its shutdown
    todo,       \* then what it has still to do: [act, what]
    objects,    \* the objects of main() that exist
    running,    \* per servant, its is_running_ (for web: server_ and its listening)
    thread,     \* per servant, its thread: "none", "binding", "running" or "ended"
    handler,    \* per handler thread, what it is about to do
    requests,   \* how many requests there were
    pending     \* entries in the logger's ring

vars == <<at, todo, objects, running, thread, handler, requests, pending>>

Init ==
    /\ at = "logging"
    /\ todo = <<>>
    /\ objects = {}
    /\ running = [s \in Servants |-> FALSE]
    /\ thread = [s \in Servants |-> "none"]
    /\ handler = [h \in Handlers |-> "idle"]
    /\ requests = 0
    /\ pending = 0

Construct(things) == objects' = objects \cup things
Launch(s) == running' = [running EXCEPT ![s] = TRUE] /\ thread' = [thread EXCEPT ![s] = "running"]
Logs      == pending' = pending + 1

-----------------------------------------------------------------------------
(* What is left to do.                                                     *)

Do(act, what) == <<[act |-> act, what |-> what]>>

StopJoinsFirst(s) == Do("join", s) \o Do("lower", s)

\* stop() of the four: lower the flag, join the thread.
Stop(s) == Do("lower", s) \o Do("join", s)

\* A destructor, which stops what still runs.
Destruct(o) ==
    IF o \notin objects THEN <<>>
    ELSE IF o \in Servants THEN Stop(o) \o Do("destroy", o) ELSE Do("destroy", o)

\* The end of main(): what it has constructed is destroyed in reverse order.
Leave == Destruct("telemetry") \o Destruct("web") \o Destruct("runtime")
            \o Destruct("engine") \o Destruct("archive") \o Destruct("logger")

ShutdownLoggerFirst == Stop("logger") \o Stop("telemetry") \o Stop("web") \o Stop("engine") \o Leave
Shutdown == Stop("telemetry") \o Stop("web") \o Stop("engine") \o Stop("logger") \o Leave

AbandonRunning == Leave
Abandon == Stop("engine") \o Leave

-----------------------------------------------------------------------------
(* main() until its shutdown.                                              *)

StartLogger ==
    /\ at = "logging"
    /\ Construct({"logger"})
    /\ Launch("logger")
    /\ at' = "opening"
    /\ UNCHANGED <<todo, handler, requests, pending>>

OpenArchive ==
    /\ at = "opening"
    /\ Construct({"archive", "engine"})
    /\ at' = "loading"
    /\ UNCHANGED <<todo, running, thread, handler, requests, pending>>

\* The constructor throws, and nothing catches it: the process is terminated.
ArchiveFails ==
    /\ at = "opening"
    /\ at' = "terminated"
    /\ thread' = [s \in Servants |-> "none"]
    /\ UNCHANGED <<todo, objects, running, handler, requests, pending>>

LoadProgram ==
    /\ at = "loading"
    /\ Logs
    /\ Construct({"runtime"})
    /\ at' = "starting"
    /\ UNCHANGED <<todo, running, thread, handler, requests>>

\* return 1
LoadFails ==
    /\ at = "loading"
    /\ Logs
    /\ at' = "ending"
    /\ todo' = Leave
    /\ UNCHANGED <<objects, running, thread, handler, requests>>

StartEngine ==
    /\ at = "starting"
    /\ Logs
    /\ Launch("engine")
    /\ Construct({"web", "telemetry"})
    /\ at' = "serving"
    /\ UNCHANGED <<todo, handler, requests>>

StartWeb ==
    /\ at = "serving"
    /\ running' = [running EXCEPT !["web"] = TRUE]
    /\ thread' = [thread EXCEPT !["web"] = "binding"]
    /\ at' = "waiting"
    /\ UNCHANGED <<todo, objects, handler, requests, pending>>

\* listen() in the server's thread; if it cannot bind the port, the thread says
\* so and ends.
Listen ==
    /\ thread["web"] = "binding"
    /\ \E bound \in {"running", "ended"} : thread' = [thread EXCEPT !["web"] = bound]
    /\ UNCHANGED <<at, todo, objects, running, handler, requests, pending>>

\* wait_until_ready() has returned; the telemetry server starts, or cannot
\* open its port, says so and does not run.
StartTelemetry ==
    /\ at = "waiting"
    /\ thread["web"] # "binding"
    /\ Logs
    /\ Launch("telemetry") \/ UNCHANGED <<running, thread>>
    /\ at' = "reloading"
    /\ UNCHANGED <<todo, objects, handler, requests>>

HotReload ==
    /\ at = "reloading"
    /\ Logs
    /\ at' = "prompting"
    /\ UNCHANGED <<todo, objects, running, thread, handler, requests>>

\* engine.stop(), return 1
HotReloadFails ==
    /\ at = "reloading"
    /\ Logs
    /\ at' = "ending"
    /\ todo' = Abandon
    /\ UNCHANGED <<objects, running, thread, handler, requests>>

Enter ==
    /\ at = "prompting"
    /\ Logs
    /\ at' = "ending"
    /\ todo' = Shutdown
    /\ UNCHANGED <<objects, running, thread, handler, requests>>

-----------------------------------------------------------------------------
(* The shutdown.  A stop() of what does not run has nothing to do.         *)

Upcoming(act) == todo # <<>> /\ Head(todo).act = act /\ todo' = Tail(todo)
What == Head(todo).what

Lower ==
    /\ Upcoming("lower")
    /\ running' = [running EXCEPT ![What] = FALSE]
    /\ UNCHANGED <<at, objects, thread, handler, requests, pending>>

\* The logger's stop() writes what is left when its thread has ended.
Join ==
    /\ Upcoming("join")
    /\ thread[What] # "running"
    /\ thread' = [thread EXCEPT ![What] = "none"]
    /\ pending' = IF What = "logger" /\ thread[What] = "ended" THEN 0 ELSE pending
    /\ UNCHANGED <<at, objects, running, handler, requests>>

Destroy ==
    /\ Upcoming("destroy")
    /\ objects' = objects \ {What}
    /\ UNCHANGED <<at, running, thread, handler, requests, pending>>

Exit ==
    /\ at = "ending"
    /\ todo = <<>>
    /\ at' = "exited"
    /\ UNCHANGED <<todo, objects, running, thread, handler, requests, pending>>

-----------------------------------------------------------------------------
(* The threads.                                                            *)

\* A thread notices the flag; the HTTP server's waits for its handlers first.
ThreadEnds(s) ==
    /\ thread[s] = "running"
    /\ ~running[s]
    /\ s = "web" => \A h \in Handlers : handler[h] = "idle"
    /\ thread' = [thread EXCEPT ![s] = "ended"]
    /\ UNCHANGED <<at, todo, objects, running, handler, requests, pending>>

Flush ==
    /\ thread["logger"] = "running"
    /\ pending > 0
    /\ pending' = 0
    /\ UNCHANGED <<at, todo, objects, running, thread, handler, requests>>

\* POST /api/deploy reaches a handler thread.
Receive(h) ==
    /\ thread["web"] = "running" /\ running["web"]
    /\ handler[h] = "idle"
    /\ requests < MaxRequests
    /\ requests' = requests + 1
    /\ handler' = [handler EXCEPT ![h] = "deploying"]
    /\ UNCHANGED <<at, todo, objects, running, thread, pending>>

Proceed(h, from, to) ==
    /\ handler[h] = from
    /\ handler' = [handler EXCEPT ![h] = to]
    /\ UNCHANGED <<at, todo, objects, running, thread, requests>>

\* reload_from_json swaps the program in or rejects it.
Deploy(h) == Proceed(h, "deploying", "archiving") /\ UNCHANGED pending
Reject(h) == Proceed(h, "deploying", "logging") /\ UNCHANGED pending

\* A body that is no UTF-8: the text of its rejection cannot be dumped, the
\* library answers, and nothing is logged.
Undumpable(h) == Proceed(h, "deploying", "idle") /\ UNCHANGED pending

\* The archive succeeds or fails; both are logged.
Archive(h) == Proceed(h, "archiving", "logging") /\ UNCHANGED pending

Log(h) == Proceed(h, "logging", "idle") /\ Logs

-----------------------------------------------------------------------------

Startup == StartLogger \/ OpenArchive \/ ArchiveFails \/ LoadProgram \/ LoadFails \/ StartEngine
           \/ StartWeb \/ StartTelemetry \/ HotReload \/ HotReloadFails \/ Enter
Ending  == Lower \/ Join \/ Destroy \/ Exit
Handle(h) == Deploy(h) \/ Reject(h) \/ Undumpable(h) \/ Archive(h) \/ Log(h)

Next ==
    \/ Startup \/ Listen \/ Ending \/ Flush
    \/ \E s \in Servants : ThreadEnds(s)
    \/ \E h \in Handlers : Receive(h) \/ Handle(h)

\* main() goes on, threads look at their flags, handlers finish; nobody need
\* press Enter or send a request, and wait_until_ready() need not return.
Fairness ==
    /\ WF_vars(Ending)
    /\ \A s \in Servants : WF_vars(ThreadEnds(s))
    /\ \A h \in Handlers : WF_vars(Handle(h))

Spec == Init /\ [][Next]_vars /\ Fairness

-----------------------------------------------------------------------------

\* What each thread and each handler holds a reference or a pointer to.
Uses == [logger |-> {"logger"}, engine |-> {"engine", "runtime"},
         web |-> {"web"}, telemetry |-> {"telemetry"}]
HandlerUses == {"web", "runtime", "archive", "logger"}

\* Nothing is used after its destruction: the scan thread calls a callback
\* that holds a reference to runtime, which main() constructs after the engine
\* and so destroys before it (main.cpp:44-47), and the handlers hold pointers
\* to archive and logger; on every way out of main() the threads have ended by
\* then.
NothingOutlived ==
    /\ \A s \in Servants : thread[s] \in {"binding", "running"} => Uses[s] \subseteq objects
    /\ \A h \in Handlers : handler[h] # "idle" => HandlerUses \subseteq objects

\* When main() has returned, every entry that was logged has been written,
\* those of handlers that were still at work when the shutdown began included
\* (main.cpp:104-107, RingBufferLogger::stop()'s final drain).
LogComplete == at = "exited" => pending = 0

\* Once main() is on its way out, by Enter or by a failure, it gets there:
\* every stop() lowers its flag before it waits.
ShutdownEnds == at = "ending" ~> at = "exited"

=============================================================================
