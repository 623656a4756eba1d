--------------------------- MODULE ApplicationProofs ---------------------------
(***************************************************************************)
(* Proofs about Application: on every way out of main(), with any number   *)
(* of handlers and requests, no thread outlives what it uses, and nothing  *)
(* that was logged is lost.                                                *)
(***************************************************************************)
EXTENDS Application, SequenceTheorems, TLAPS

Objects == {"logger", "archive", "engine", "runtime", "web", "telemetry"}

Work == [act : {"lower", "join"}, what : Servants] \cup [act : {"destroy"}, what : Objects]

Starting == {"logging", "opening", "loading", "starting", "serving", "waiting", "reloading",
             "prompting"}

Typed ==
    /\ at \in Starting \cup {"ending", "exited", "terminated"}
    /\ todo \in Seq(Work)
    /\ objects \subseteq Objects
    /\ thread \in [Servants -> {"none", "binding", "running", "ended"}]
    /\ DOMAIN handler = Handlers

\* What main() has constructed when it is at one of its steps.
Built ==
    CASE at = "logging" -> {}
      [] at = "opening" -> {"logger"}
      [] at = "loading" -> {"logger", "archive", "engine"}
      [] at = "starting" -> {"logger", "archive", "engine", "runtime"}
      [] OTHER -> Objects

Stages ==
    at \in Starting =>
        /\ objects = Built
        /\ todo = <<>>
        /\ at # "logging" => thread["logger"] # "none"
        /\ at \in {"logging", "opening", "loading", "starting"} =>
              \A s \in Servants : s # "logger" => thread[s] = "none"
        /\ at = "serving" => thread["web"] = "none"

\* What must exist while a servant's thread has not been joined.  The threads
\* of the handlers are the HTTP server's.
Needs(s) == IF s = "web" THEN HandlerUses ELSE Uses[s]

Alive == \A s \in Servants : thread[s] # "none" => Needs(s) \subseteq objects

Joining(s) == [act |-> "join", what |-> s]

\* What must not be done before the thread of s has been joined: destroying
\* what it needs, and, as the handlers log, the last drain of the logger.
Late(s) ==
    {w \in Work : \/ w.act = "destroy" /\ w.what \in Needs(s)
                  \/ s = "web" /\ w = Joining("logger")}

Joins(t, s) == \E j \in DOMAIN t : t[j] = Joining(s)

Ordered(t, s) ==
    \A i \in DOMAIN t : t[i] \in Late(s) => \E j \in 1 .. i - 1 : t[j] = Joining(s)

JoinedInTime == \A s \in Servants : thread[s] # "none" => Ordered(todo, s)

\* Handlers are at work only while the HTTP server's thread runs, and that
\* thread never outlives the logger's.
Busy ==
    /\ \A h \in Handlers : handler[h] # "idle" => thread["web"] = "running"
    /\ thread["web"] # "none" => thread["logger"] # "none"
    /\ thread["logger"] # "binding"

\* On the way out the ring is empty, or the logger is still to be stopped.
Logged ==
    at \in {"ending", "exited"} =>
        /\ thread["logger"] = "none" => pending = 0
        /\ thread["logger"] # "none" => Joins(todo, "logger")
        /\ at = "exited" => todo = <<>>

AppInv == Typed /\ Stages /\ Alive /\ JoinedInTime /\ Busy /\ Logged

-----------------------------------------------------------------------------
(* Lists of work.                                                          *)

LEMMA TailOfWork ==
    ASSUME NEW t \in Seq(Work), t # <<>>
    PROVE  /\ Head(t) = t[1] /\ Head(t) \in Work
           /\ Tail(t) \in Seq(Work)
           /\ Len(t) \in Nat /\ Len(t) >= 1
           /\ DOMAIN t = 1 .. Len(t)
           /\ DOMAIN Tail(t) = 1 .. Len(t) - 1
           /\ \A i \in 1 .. Len(t) - 1 : Tail(t)[i] = t[i + 1]
<1>1. Len(t) \in Nat /\ DOMAIN t = 1 .. Len(t) /\ Len(t) # 0
  BY LenProperties, EmptySeq
<1>2. /\ Head(t) \in Work /\ Tail(t) \in Seq(Work)
      /\ Len(Tail(t)) = Len(t) - 1
      /\ \A i \in 1 .. Len(Tail(t)) : Tail(t)[i] = t[i + 1]
  BY HeadTailProperties
<1>3. Head(t) = t[1]
  BY DEF Head
<1>4. DOMAIN Tail(t) = 1 .. Len(Tail(t))
  BY <1>2, LenProperties
<1> QED
  BY <1>1, <1>2, <1>3, <1>4

\* Nothing late is at the head while its thread has not been joined.
LEMMA HeadNotLate ==
    ASSUME NEW t \in Seq(Work), t # <<>>, NEW s \in Servants, Ordered(t, s)
    PROVE  Head(t) \notin Late(s)
<1>1. 1 \in DOMAIN t /\ Head(t) = t[1]
  BY TailOfWork
<1> QED
  BY <1>1 DEF Ordered

LEMMA OrderedTail ==
    ASSUME NEW t \in Seq(Work), t # <<>>, NEW s \in Servants, Head(t) # Joining(s), Ordered(t, s)
    PROVE  Ordered(Tail(t), s)
<1> SUFFICES ASSUME NEW i \in DOMAIN Tail(t), Tail(t)[i] \in Late(s)
             PROVE  \E j \in 1 .. i - 1 : Tail(t)[j] = Joining(s)
  BY DEF Ordered
<1>1. i \in 1 .. Len(t) - 1 /\ Len(t) \in Nat /\ i + 1 \in DOMAIN t /\ Tail(t)[i] = t[i + 1]
  BY TailOfWork
<1>2. PICK j \in 1 .. (i + 1) - 1 : t[j] = Joining(s)
  BY <1>1 DEF Ordered
<1>3. j # 1
  BY <1>2, TailOfWork
<1>4. j - 1 \in 1 .. i - 1 /\ j - 1 \in 1 .. Len(t) - 1 /\ (j - 1) + 1 = j
  BY <1>1, <1>2, <1>3
<1>5. Tail(t)[j - 1] = t[j]
  BY <1>4, TailOfWork
<1> QED
  BY <1>2, <1>4, <1>5

LEMMA JoinsTail ==
    ASSUME NEW t \in Seq(Work), t # <<>>, NEW s \in Servants, Head(t) # Joining(s), Joins(t, s)
    PROVE  Joins(Tail(t), s)
<1>1. PICK j \in DOMAIN t : t[j] = Joining(s)
  BY DEF Joins
<1>2. j # 1 /\ j \in 1 .. Len(t) /\ Len(t) \in Nat
  BY <1>1, TailOfWork
<1>3. j - 1 \in 1 .. Len(t) - 1 /\ (j - 1) + 1 = j
  BY <1>2
<1>4. Tail(t)[j - 1] = t[j] /\ j - 1 \in DOMAIN Tail(t)
  BY <1>3, TailOfWork
<1> QED
  BY <1>1, <1>4 DEF Joins

\* One list after another.
LEMMA Concat ==
    ASSUME NEW a \in Seq(Work), NEW b \in Seq(Work), NEW s \in Servants
    PROVE  /\ a \o b \in Seq(Work)
           /\ Joins(a, s) \/ Joins(b, s) => Joins(a \o b, s)
           /\ Ordered(a, s) /\ (Ordered(b, s) \/ Joins(a, s)) => Ordered(a \o b, s)
<1> DEFINE c == a \o b
           m == Len(a)
           n == Len(b)
<1>1. /\ c \in Seq(Work)
      /\ m \in Nat /\ n \in Nat
      /\ DOMAIN a = 1 .. m /\ DOMAIN b = 1 .. n /\ DOMAIN c = 1 .. m + n
      /\ \A i \in 1 .. m : c[i] = a[i]
      /\ \A i \in 1 .. n : c[m + i] = b[i]
  <2>1. c \in Seq(Work) /\ Len(c) = m + n
        /\ \A i \in 1 .. m + n : c[i] = IF i <= m THEN a[i] ELSE b[i - m]
    BY ConcatProperties
  <2>2. m \in Nat /\ n \in Nat /\ DOMAIN a = 1 .. m /\ DOMAIN b = 1 .. n /\ DOMAIN c = 1 .. m + n
    BY <2>1, LenProperties
  <2> HIDE DEF c, m, n
  <2>3. \A i \in 1 .. m : c[i] = a[i]
    BY <2>1, <2>2
  <2>4. ASSUME NEW i \in 1 .. n PROVE c[m + i] = b[i]
    <3>1. m + i \in 1 .. m + n /\ ~ (m + i <= m) /\ (m + i) - m = i
      BY <2>2
    <3> QED
      BY <2>1, <3>1
  <2> QED
    BY <2>1, <2>2, <2>3, <2>4
<1> HIDE DEF c, m, n
<1>2. ASSUME Joins(a, s) PROVE \E j \in 1 .. m : c[j] = Joining(s)
  BY <1>1, <1>2 DEF Joins
<1>3. Joins(a, s) \/ Joins(b, s) => Joins(c, s)
  <2>1. CASE Joins(a, s)
    <3>1. 1 .. m \subseteq DOMAIN c
      BY <1>1
    <3> QED
      BY <1>2, <2>1, <3>1 DEF Joins
  <2>2. CASE Joins(b, s)
    <3>1. PICK j \in 1 .. n : b[j] = Joining(s)
      BY <1>1, <2>2 DEF Joins
    <3>2. m + j \in DOMAIN c /\ c[m + j] = b[j]
      BY <1>1
    <3> QED
      BY <3>1, <3>2 DEF Joins
  <2> QED
    BY <2>1, <2>2
<1>4. ASSUME Ordered(a, s), Ordered(b, s) \/ Joins(a, s) PROVE Ordered(c, s)
  <2> SUFFICES ASSUME NEW i \in DOMAIN c, c[i] \in Late(s)
               PROVE  \E j \in 1 .. i - 1 : c[j] = Joining(s)
    BY DEF Ordered
  <2>1. CASE i \in 1 .. m
    <3>1. PICK j \in 1 .. i - 1 : a[j] = Joining(s)
      BY <1>1, <1>4, <2>1 DEF Ordered
    <3>2. j \in 1 .. m
      BY <1>1, <2>1
    <3> QED
      BY <1>1, <3>1, <3>2
  <2>2. CASE i \notin 1 .. m /\ Joins(a, s)
    <3>1. PICK j \in 1 .. m : c[j] = Joining(s)
      BY <1>2, <2>2
    <3>2. j \in 1 .. i - 1
      BY <1>1, <2>2
    <3> QED
      BY <3>1, <3>2
  <2>3. CASE i \notin 1 .. m /\ Ordered(b, s)
    <3>1. i - m \in 1 .. n /\ m + (i - m) = i
      BY <1>1, <2>3
    <3>2. b[i - m] = c[i]
      BY <1>1, <3>1
    <3>3. PICK j \in 1 .. (i - m) - 1 : b[j] = Joining(s)
      BY <1>1, <2>3, <3>1, <3>2 DEF Ordered
    <3>4. j \in 1 .. n /\ m + j \in 1 .. i - 1
      BY <1>1, <3>1, <3>3
    <3>5. c[m + j] = b[j]
      BY <1>1, <3>4
    <3> QED
      BY <3>3, <3>4, <3>5
  <2> QED
    BY <1>4, <2>1, <2>2, <2>3
<1> QED
  BY <1>1, <1>3, <1>4 DEF c

LEMMA Nothing ==
    ASSUME NEW s \in Servants
    PROVE  <<>> \in Seq(Work) /\ Ordered(<<>>, s)
<1>1. <<>> \in Seq(Work) /\ DOMAIN <<>> = {}
  BY EmptySeq
<1> QED
  BY <1>1 DEF Ordered

LEMMA OneThing ==
    ASSUME NEW act, NEW what, [act |-> act, what |-> what] \in Work, NEW s \in Servants
    PROVE  /\ Do(act, what) \in Seq(Work)
           /\ [act |-> act, what |-> what] \notin Late(s) => Ordered(Do(act, what), s)
           /\ act = "join" /\ what = s => Joins(Do(act, what), s)
<1> DEFINE w == [act |-> act, what |-> what]
           t == Do(act, what)
<1>1. t = <<w>>
  BY DEF Do
<1> HIDE DEF w, t
<1>2. DOMAIN t = {1} /\ t[1] = w
  BY <1>1
<1>3. t \in Seq(Work)
  <2>1. w \in Work
    BY DEF w
  <2> QED
    BY <1>1, <2>1
<1>4. w \notin Late(s) => Ordered(t, s)
  BY <1>2 DEF Ordered
<1>5. act = "join" /\ what = s => Joins(t, s)
  BY <1>2 DEF Joins, Joining, w
<1> QED
  BY <1>3, <1>4, <1>5 DEF w, t

\* stop() joins the thread, and is late only for the handlers of a server
\* that still runs when it is the logger's.
LEMMA StopWork ==
    ASSUME NEW x \in Servants, NEW s \in Servants
    PROVE  /\ Stop(x) \in Seq(Work)
           /\ x = s => Joins(Stop(x), s)
           /\ ~ (s = "web" /\ x = "logger") => Ordered(Stop(x), s)
<1>1. [act |-> "lower", what |-> x] \in Work /\ [act |-> "join", what |-> x] \in Work
  BY DEF Work
<1>2. [act |-> "lower", what |-> x] \notin Late(s)
  BY DEF Late, Joining
<1>3. ~ (s = "web" /\ x = "logger") => [act |-> "join", what |-> x] \notin Late(s)
  BY DEF Late, Joining
<1>4. /\ Do("lower", x) \in Seq(Work) /\ Do("join", x) \in Seq(Work)
      /\ Ordered(Do("lower", x), s)
      /\ ~ (s = "web" /\ x = "logger") => Ordered(Do("join", x), s)
      /\ x = s => Joins(Do("join", x), s)
  BY <1>1, <1>2, <1>3, OneThing
<1> QED
  BY <1>4, Concat DEF Stop

\* A destructor is late for those that need the object, and stops a servant
\* first.
LEMMA DestructWork ==
    ASSUME NEW o \in Objects, NEW s \in Servants
    PROVE  /\ Destruct(o) \in Seq(Work)
           /\ o \notin Needs(s) => Ordered(Destruct(o), s)
           /\ o = s => Ordered(Destruct(o), s)
           /\ o = s /\ o \in objects => Joins(Destruct(o), s)
<1>1. [act |-> "destroy", what |-> o] \in Work
  BY DEF Work
<1>2. o \notin Needs(s) => [act |-> "destroy", what |-> o] \notin Late(s)
  BY DEF Late, Joining
<1>3. /\ Do("destroy", o) \in Seq(Work)
      /\ o \notin Needs(s) => Ordered(Do("destroy", o), s)
  BY <1>1, <1>2, OneThing
<1>4. CASE o \notin objects
  BY <1>4, Nothing DEF Destruct
<1>5. CASE o \in objects /\ o \notin Servants
  BY <1>3, <1>5 DEF Destruct
<1>6. CASE o \in objects /\ o \in Servants
  <2>1. Destruct(o) = Stop(o) \o Do("destroy", o)
    BY <1>6 DEF Destruct
  <2>2. s = "web" => "logger" \in Needs(s)
    BY DEF Needs, HandlerUses
  <2>3. /\ Stop(o) \in Seq(Work)
        /\ o = s => Joins(Stop(o), s) /\ Ordered(Stop(o), s)
        /\ o \notin Needs(s) => Ordered(Stop(o), s)
    BY <1>6, <2>2, StopWork
  <2> QED
    BY <1>3, <2>1, <2>3, Concat
<1> QED
  BY <1>4, <1>5, <1>6

LEMMA NeedsOf ==
    /\ Needs("logger") = {"logger"}
    /\ Needs("engine") = {"engine", "runtime"}
    /\ Needs("web") = {"web", "runtime", "archive", "logger"}
    /\ Needs("telemetry") = {"telemetry"}
BY DEF Needs, Uses, HandlerUses

\* The destructors stop the servers and the logger in time; the engine is
\* destroyed after the runtime, and so too late.
LEMMA LeaveWork ==
    ASSUME NEW s \in {"logger", "web", "telemetry"}
    PROVE  /\ Leave \in Seq(Work)
           /\ s \in objects => Ordered(Leave, s) /\ Joins(Leave, s)
<1> DEFINE d1 == Destruct("telemetry")
           d2 == Destruct("web")
           d3 == Destruct("runtime")
           d4 == Destruct("engine")
           d5 == Destruct("archive")
           d6 == Destruct("logger")
           c2 == d1 \o d2
           c3 == c2 \o d3
           c4 == c3 \o d4
           c5 == c4 \o d5
<1>1. s \in Servants
  BY DEF Servants
<1>2. /\ d1 \in Seq(Work) /\ d2 \in Seq(Work) /\ d3 \in Seq(Work)
      /\ d4 \in Seq(Work) /\ d5 \in Seq(Work) /\ d6 \in Seq(Work)
  BY <1>1, DestructWork DEF Objects
<1>3. Leave = c5 \o d6
  BY DEF Leave
<1>4. CASE s = "telemetry"
  <2>1. s \in objects => Ordered(d1, s) /\ Joins(d1, s)
    BY <1>1, <1>4, DestructWork DEF Objects
  <2> HIDE DEF d1, d2, d3, d4, d5, d6
  <2>2. c2 \in Seq(Work) /\ (s \in objects => Ordered(c2, s) /\ Joins(c2, s))
    BY <1>1, <1>2, <2>1, Concat
  <2> HIDE DEF c2
  <2>3. c3 \in Seq(Work) /\ (s \in objects => Ordered(c3, s) /\ Joins(c3, s))
    BY <1>1, <1>2, <2>2, Concat
  <2> HIDE DEF c3
  <2>4. c4 \in Seq(Work) /\ (s \in objects => Ordered(c4, s) /\ Joins(c4, s))
    BY <1>1, <1>2, <2>3, Concat
  <2> HIDE DEF c4
  <2>5. c5 \in Seq(Work) /\ (s \in objects => Ordered(c5, s) /\ Joins(c5, s))
    BY <1>1, <1>2, <2>4, Concat
  <2> HIDE DEF c5
  <2> QED
    BY <1>1, <1>2, <1>3, <2>5, Concat
<1>5. CASE s = "web"
  <2>1. Ordered(d1, s) /\ (s \in objects => Ordered(d2, s) /\ Joins(d2, s))
    BY <1>1, <1>5, DestructWork, NeedsOf DEF Objects
  <2> HIDE DEF d1, d2, d3, d4, d5, d6
  <2>2. c2 \in Seq(Work) /\ (s \in objects => Ordered(c2, s) /\ Joins(c2, s))
    BY <1>1, <1>2, <2>1, Concat
  <2> HIDE DEF c2
  <2>3. c3 \in Seq(Work) /\ (s \in objects => Ordered(c3, s) /\ Joins(c3, s))
    BY <1>1, <1>2, <2>2, Concat
  <2> HIDE DEF c3
  <2>4. c4 \in Seq(Work) /\ (s \in objects => Ordered(c4, s) /\ Joins(c4, s))
    BY <1>1, <1>2, <2>3, Concat
  <2> HIDE DEF c4
  <2>5. c5 \in Seq(Work) /\ (s \in objects => Ordered(c5, s) /\ Joins(c5, s))
    BY <1>1, <1>2, <2>4, Concat
  <2> HIDE DEF c5
  <2> QED
    BY <1>1, <1>2, <1>3, <2>5, Concat
<1>6. CASE s = "logger"
  <2>1. /\ Ordered(d1, s) /\ Ordered(d2, s) /\ Ordered(d3, s)
        /\ Ordered(d4, s) /\ Ordered(d5, s) /\ Ordered(d6, s)
        /\ s \in objects => Joins(d6, s)
    BY <1>1, <1>6, DestructWork, NeedsOf DEF Objects
  <2> HIDE DEF d1, d2, d3, d4, d5, d6
  <2>2. c2 \in Seq(Work) /\ Ordered(c2, s)
    BY <1>1, <1>2, <2>1, Concat
  <2> HIDE DEF c2
  <2>3. c3 \in Seq(Work) /\ Ordered(c3, s)
    BY <1>1, <1>2, <2>1, <2>2, Concat
  <2> HIDE DEF c3
  <2>4. c4 \in Seq(Work) /\ Ordered(c4, s)
    BY <1>1, <1>2, <2>1, <2>3, Concat
  <2> HIDE DEF c4
  <2>5. c5 \in Seq(Work) /\ Ordered(c5, s)
    BY <1>1, <1>2, <2>1, <2>4, Concat
  <2> HIDE DEF c5
  <2> QED
    BY <1>1, <1>2, <1>3, <2>1, <2>5, Concat
<1> QED
  BY <1>4, <1>5, <1>6

\* After a failed hot reload the engine is stopped by name, and first.
LEMMA AbandonWork ==
    ASSUME NEW s \in Servants, objects = Objects
    PROVE  Abandon \in Seq(Work) /\ Ordered(Abandon, s) /\ Joins(Abandon, "logger")
<1>1. "logger" \in Servants /\ "engine" \in Servants /\ Servants \subseteq Objects
  BY DEF Servants, Objects
<1>2. Leave \in Seq(Work) /\ Joins(Leave, "logger")
  BY <1>1, LeaveWork
<1>3. Stop("engine") \in Seq(Work) /\ Ordered(Stop("engine"), s)
  BY <1>1, StopWork
<1>4. s = "engine" => Joins(Stop("engine"), s)
  BY <1>1, StopWork
<1>5. s # "engine" => Ordered(Leave, s)
  BY <1>1, LeaveWork DEF Servants
<1>6. Abandon \in Seq(Work) /\ Joins(Abandon, "logger")
  BY <1>1, <1>2, <1>3, Concat DEF Abandon
<1>7. Ordered(Abandon, s)
  BY <1>2, <1>3, <1>4, <1>5, Concat DEF Abandon
<1> QED
  BY <1>6, <1>7

\* The shutdown stops all four, the logger after those that log.
LEMMA ShutdownWork ==
    ASSUME NEW s \in Servants
    PROVE  Shutdown \in Seq(Work) /\ Ordered(Shutdown, s) /\ Joins(Shutdown, "logger")
<1> DEFINE p1 == Stop("telemetry")
           p2 == p1 \o Stop("web")
           p3 == p2 \o Stop("engine")
           p4 == p3 \o Stop("logger")
<1>1. /\ "logger" \in Servants /\ "engine" \in Servants
      /\ "web" \in Servants /\ "telemetry" \in Servants
  BY DEF Servants
<1>2. Leave \in Seq(Work)
  BY LeaveWork
<1>3. /\ p1 \in Seq(Work) /\ Ordered(p1, s) /\ (s = "telemetry" => Joins(p1, s))
  BY <1>1, StopWork
<1>4. /\ Stop("web") \in Seq(Work) /\ Ordered(Stop("web"), s)
      /\ s = "web" => Joins(Stop("web"), s)
  BY <1>1, StopWork
<1>5. /\ Stop("engine") \in Seq(Work) /\ Ordered(Stop("engine"), s)
      /\ s = "engine" => Joins(Stop("engine"), s)
  BY <1>1, StopWork
<1>6. /\ Stop("logger") \in Seq(Work) /\ (s # "web" => Ordered(Stop("logger"), s))
      /\ s = "logger" => Joins(Stop("logger"), s)
      /\ Joins(Stop("logger"), "logger")
  BY <1>1, StopWork
<1>7. Shutdown = p4 \o Leave
  BY DEF Shutdown
<1> HIDE DEF p1
<1>8. /\ p2 \in Seq(Work) /\ Ordered(p2, s) /\ (s \in {"telemetry", "web"} => Joins(p2, s))
  BY <1>3, <1>4, Concat
<1> HIDE DEF p2
<1>9. /\ p3 \in Seq(Work) /\ Ordered(p3, s)
      /\ s \in {"telemetry", "web", "engine"} => Joins(p3, s)
  BY <1>5, <1>8, Concat
<1> HIDE DEF p3
<1>10. /\ p4 \in Seq(Work) /\ Ordered(p4, s) /\ Joins(p4, s) /\ Joins(p4, "logger")
  <2>1. p4 \in Seq(Work) /\ Joins(p4, "logger")
    BY <1>1, <1>6, <1>9, Concat
  <2>2. Ordered(p4, s)
    BY <1>6, <1>9, Concat
  <2>3. Joins(p4, s)
    BY <1>6, <1>9, Concat DEF Servants
  <2> QED
    BY <2>1, <2>2, <2>3
<1> HIDE DEF p4
<1>11. Shutdown \in Seq(Work) /\ Ordered(Shutdown, s)
  BY <1>2, <1>7, <1>10, Concat
<1>12. Joins(Shutdown, "logger")
  BY <1>1, <1>2, <1>7, <1>10, Concat
<1> QED
  BY <1>11, <1>12

-----------------------------------------------------------------------------
(* The invariant is inductive.                                             *)

LEMMA InitApp == Init => AppInv
<1> SUFFICES ASSUME Init PROVE AppInv
  OBVIOUS
<1>1. Typed
  BY Nothing DEF Init, Typed, Starting, Servants
<1>2. Stages
  BY DEF Init, Stages, Starting, Built, Servants
<1>3. Alive /\ JoinedInTime /\ Busy /\ Logged
  BY DEF Init, Alive, JoinedInTime, Busy, Logged, Servants
<1> QED
  BY <1>1, <1>2, <1>3 DEF AppInv

\* Until main() leaves there is nothing to be done late.
LEMMA NothingLate ==
    ASSUME todo = <<>>
    PROVE  \A s \in Servants : Ordered(todo, s)
BY Nothing

\* The steps of main() until it leaves.
LEMMA StartupStep ==
    ASSUME AppInv, Startup, at' \in Starting
    PROVE  AppInv'
<1> USE DEF AppInv
<1>0. /\ "logger" \in Servants /\ "engine" \in Servants
      /\ "web" \in Servants /\ "telemetry" \in Servants
      /\ \A s \in Servants : s \in {"logger", "engine", "web", "telemetry"}
  BY DEF Servants
<1>1. at \in Starting /\ todo = <<>> /\ todo' = <<>> /\ handler' = handler
  BY DEF Startup, StartLogger, OpenArchive, ArchiveFails, LoadProgram, LoadFails, StartEngine,
         StartWeb, StartTelemetry, HotReload, HotReloadFails, Enter, Stages, Starting
<1>2. /\ objects \subseteq objects'
      /\ objects' = Built'
      /\ objects' \subseteq Objects
  BY DEF Startup, StartLogger, OpenArchive, ArchiveFails, LoadProgram, LoadFails, StartEngine,
         StartWeb, StartTelemetry, HotReload, HotReloadFails, Enter, Stages, Starting, Built,
         Construct, Objects
<1>3. /\ thread' \in [Servants -> {"none", "binding", "running", "ended"}]
      /\ \A s \in Servants : \/ thread'[s] = thread[s]
                             \/ s = "logger" /\ at = "logging" /\ thread'[s] = "running"
                             \/ s = "engine" /\ at = "starting" /\ thread'[s] = "running"
                             \/ s = "web" /\ at = "serving" /\ thread'[s] = "binding"
                             \/ s = "telemetry" /\ at = "waiting" /\ thread'[s] = "running"
  BY <1>0 DEF Startup, StartLogger, OpenArchive, ArchiveFails, LoadProgram, LoadFails, StartEngine,
         StartWeb, StartTelemetry, HotReload, HotReloadFails, Enter, Starting, Launch, Typed
<1>4. /\ at = "logging" => at' = "opening" /\ thread'["logger"] = "running"
      /\ at = "serving" => at' = "waiting"
      /\ at = "starting" => at' = "serving"
      /\ at # "logging" => at' # "logging"
      /\ at' = "serving" => at = "starting"
      /\ at' \in {"logging", "opening", "loading", "starting"} =>
           at \in {"logging", "opening", "loading"}
  BY <1>0 DEF Startup, StartLogger, OpenArchive, ArchiveFails, LoadProgram, LoadFails, StartEngine,
         StartWeb, StartTelemetry, HotReload, HotReloadFails, Enter, Starting, Launch, Typed
<1>5. Typed'
  BY <1>1, <1>2, <1>3 DEF Typed
<1>6. Stages'
  <2>1. at' # "logging" => thread'["logger"] # "none"
    BY <1>0, <1>1, <1>3, <1>4 DEF Stages
  <2>2. at' \in {"logging", "opening", "loading", "starting"} =>
          \A s \in Servants : s # "logger" => thread'[s] = "none"
    BY <1>1, <1>3, <1>4 DEF Stages
  <2>3. at' = "serving" => thread'["web"] = "none"
    BY <1>0, <1>1, <1>3, <1>4 DEF Stages
  <2> QED
    BY <1>1, <1>2, <2>1, <2>2, <2>3 DEF Stages
<1>7. Alive'
  <2> SUFFICES ASSUME NEW s \in Servants, thread'[s] # "none" PROVE Needs(s) \subseteq objects'
    BY DEF Alive, Needs
  <2>1. CASE thread'[s] = thread[s]
    BY <1>2, <2>1 DEF Alive
  <2>2. CASE thread'[s] # thread[s]
    <3>1. /\ s = "logger" => at' = "opening"
          /\ s = "engine" => at' = "serving"
          /\ s = "web" => at' = "waiting"
          /\ s = "telemetry" => objects = Objects
      BY <1>0, <1>1, <1>3, <1>4, <2>2 DEF Stages, Built
    <3> QED
      BY <1>0, <1>2, <3>1, NeedsOf DEF Built, Objects
  <2> QED
    BY <2>1, <2>2
<1>8. JoinedInTime'
  BY <1>1, Nothing DEF JoinedInTime
<1>9. Busy'
  <2>1. \A h \in Handlers : handler'[h] # "idle" => thread'["web"] = "running"
    <3> SUFFICES ASSUME NEW h \in Handlers, handler[h] # "idle" PROVE thread'["web"] = "running"
      BY <1>1
    <3>1. thread["web"] = "running"
      BY DEF Busy
    <3>2. at # "serving"
      BY <1>1, <3>1 DEF Stages
    <3> QED
      BY <1>0, <1>3, <3>1, <3>2
  <2>2. thread'["web"] # "none" => thread'["logger"] # "none"
    BY <1>0, <1>1, <1>3, <1>4 DEF Stages, Busy
  <2>3. thread'["logger"] # "binding"
    BY <1>0, <1>3 DEF Busy
  <2> QED
    BY <2>1, <2>2, <2>3 DEF Busy
<1>10. Logged'
  BY <1>1 DEF Logged, Starting
<1> QED
  BY <1>5, <1>6, <1>7, <1>8, <1>9, <1>10

\* main() begins to leave: what it has to do then is in order.
LEMMA LeavingStep ==
    ASSUME AppInv, LoadFails \/ HotReloadFails \/ Enter
    PROVE  AppInv'
<1> USE DEF AppInv
<1>0. /\ "logger" \in Servants /\ "engine" \in Servants
      /\ "web" \in Servants /\ "telemetry" \in Servants
      /\ Servants \subseteq Objects
  BY DEF Servants, Objects
<1>1. /\ at' = "ending" /\ UNCHANGED <<objects, thread, handler>>
      /\ at \in Starting /\ at # "logging"
  BY DEF LoadFails, HotReloadFails, Enter, Starting
<1>2. thread["logger"] # "none" /\ "logger" \in objects
  BY <1>0, <1>1, NeedsOf DEF Stages, Alive
<1>3. /\ todo' \in Seq(Work)
      /\ Joins(todo', "logger")
      /\ \A s \in Servants : thread[s] # "none" => Ordered(todo', s)
  <2>1. CASE LoadFails
    <3>1. at = "loading" /\ todo' = Leave
      BY <2>1 DEF LoadFails
    <3>2. \A s \in Servants : s # "logger" => thread[s] = "none"
      BY <3>1 DEF Stages, Starting
    <3>3. Leave \in Seq(Work) /\ Ordered(Leave, "logger") /\ Joins(Leave, "logger")
      BY <1>2, LeaveWork
    <3> QED
      BY <3>1, <3>2, <3>3
  <2>2. CASE HotReloadFails
    <3>1. objects = Objects /\ todo' = Abandon
      BY <2>2 DEF HotReloadFails, Stages, Starting, Built
    <3> QED
      BY <1>0, <3>1, AbandonWork
  <2>3. CASE Enter
    <3>1. todo' = Shutdown
      BY <2>3 DEF Enter
    <3> QED
      BY <1>0, <3>1, ShutdownWork
  <2> QED
    BY <2>1, <2>2, <2>3
<1>5. Typed' /\ Stages'
  BY <1>1, <1>3 DEF Typed, Stages, Starting
<1>6. Alive'
  BY <1>1 DEF Alive, Needs
<1>7. JoinedInTime'
  BY <1>1, <1>3 DEF JoinedInTime
<1>8. Busy' /\ Logged'
  BY <1>1, <1>2, <1>3 DEF Busy, Logged
<1> QED
  BY <1>5, <1>6, <1>7, <1>8

\* Doing what is at the head of the list, unless it is a join.
LEMMA WorkStep ==
    ASSUME AppInv, Lower \/ Destroy
    PROVE  AppInv'
<1> USE DEF AppInv
<1>0. "logger" \in Servants /\ "web" \in Servants
  BY DEF Servants
<1>1. /\ todo # <<>> /\ todo' = Tail(todo) /\ todo \in Seq(Work)
      /\ Head(todo).act \in {"lower", "destroy"}
      /\ UNCHANGED <<at, thread, handler, pending>>
      /\ \/ objects' = objects
         \/ Head(todo).act = "destroy" /\ objects' = objects \ {Head(todo).what}
  BY DEF Lower, Destroy, Upcoming, What, Typed
<1>2. \A s \in Servants : Head(todo) # Joining(s)
  BY <1>1 DEF Joining
<1>3. Typed' /\ Stages'
  BY <1>1, TailOfWork DEF Typed, Stages
<1>4. Alive'
  <2> SUFFICES ASSUME NEW s \in Servants, thread[s] # "none" PROVE Needs(s) \subseteq objects'
    BY <1>1 DEF Alive, Needs
  <2>1. Head(todo) \notin Late(s) /\ Head(todo) \in Work
    BY <1>1, HeadNotLate, TailOfWork DEF JoinedInTime
  <2>2. Head(todo).act = "destroy" => Head(todo).what \notin Needs(s)
    BY <2>1 DEF Late
  <2> QED
    BY <1>1, <2>2 DEF Alive
<1>5. JoinedInTime'
  BY <1>1, <1>2, OrderedTail DEF JoinedInTime
<1>6. Busy'
  BY <1>1 DEF Busy
<1>7. Logged'
  BY <1>0, <1>1, <1>2, JoinsTail DEF Logged
<1> QED
  BY <1>3, <1>4, <1>5, <1>6, <1>7

LEMMA JoinStep ==
    ASSUME AppInv, Join
    PROVE  AppInv'
<1> USE DEF AppInv
<1> DEFINE x == Head(todo).what
<1>0. "logger" \in Servants /\ "web" \in Servants
  BY DEF Servants
<1>1. /\ todo # <<>> /\ todo' = Tail(todo) /\ todo \in Seq(Work)
      /\ Head(todo).act = "join" /\ Head(todo) \in Work
      /\ UNCHANGED <<at, objects, handler>>
      /\ thread[x] # "running" /\ thread' = [thread EXCEPT ![x] = "none"]
      /\ pending' = IF x = "logger" /\ thread[x] = "ended" THEN 0 ELSE pending
  BY TailOfWork DEF Join, Upcoming, What, Typed
<1>2. x \in Servants /\ Head(todo) = Joining(x)
  BY <1>1 DEF Work, Joining
<1>3. \A s \in Servants : s # x => Head(todo) # Joining(s)
  BY <1>2 DEF Joining
<1> HIDE DEF x
<1>4. /\ thread' \in [Servants -> {"none", "binding", "running", "ended"}]
      /\ thread'[x] = "none"
      /\ \A s \in Servants : s # x => thread'[s] = thread[s]
  BY <1>1, <1>2 DEF Typed
<1>5. at \notin Starting
  BY <1>1 DEF Stages
<1>6. Typed' /\ Stages'
  BY <1>1, <1>4, <1>5, TailOfWork DEF Typed, Stages
<1>7. Alive'
  BY <1>1, <1>4 DEF Alive, Needs
<1>8. JoinedInTime'
  <2> SUFFICES ASSUME NEW s \in Servants, thread'[s] # "none" PROVE Ordered(todo', s)
    BY DEF JoinedInTime, Ordered, Late, Needs, Joining
  <2>1. s # x /\ thread[s] # "none"
    BY <1>4
  <2> QED
    BY <1>1, <1>3, <2>1, OrderedTail DEF JoinedInTime
<1>9. x = "logger" => thread["web"] = "none"
  <2> SUFFICES ASSUME x = "logger", thread["web"] # "none" PROVE FALSE
    OBVIOUS
  <2>1. Head(todo) \notin Late("web")
    BY <1>0, <1>1, HeadNotLate DEF JoinedInTime
  <2> QED
    BY <1>1, <1>2, <2>1 DEF Late
<1>10. Busy'
  <2>1. \A h \in Handlers : handler'[h] # "idle" => thread'["web"] = "running"
    <3> SUFFICES ASSUME NEW h \in Handlers, handler[h] # "idle" PROVE thread'["web"] = "running"
      BY <1>1
    <3>1. thread["web"] = "running"
      BY DEF Busy
    <3> QED
      BY <1>0, <1>1, <1>4, <3>1
  <2>2. thread'["web"] # "none" => thread'["logger"] # "none"
    BY <1>0, <1>4, <1>9 DEF Busy
  <2>3. thread'["logger"] # "binding"
    BY <1>0, <1>4 DEF Busy
  <2> QED
    BY <2>1, <2>2, <2>3 DEF Busy
<1>11. Logged'
  <2> SUFFICES ASSUME at \in {"ending", "exited"} PROVE Logged'
    BY <1>1 DEF Logged
  <2>1. at = "ending"
    BY <1>1 DEF Logged
  <2>2. thread'["logger"] = "none" => pending' = 0
    <3>1. CASE x = "logger"
      <4>1. thread[x] \in {"none", "ended"}
        BY <1>1, <1>2, <3>1 DEF Busy, Typed
      <4> QED
        BY <1>1, <2>1, <3>1, <4>1 DEF Logged
    <3>2. CASE x # "logger"
      BY <1>0, <1>1, <1>4, <2>1, <3>2 DEF Logged
    <3> QED
      BY <3>1, <3>2
  <2>3. thread'["logger"] # "none" => Joins(todo', "logger")
    <3> SUFFICES ASSUME thread'["logger"] # "none" PROVE Joins(todo', "logger")
      OBVIOUS
    <3>1. x # "logger" /\ thread["logger"] # "none"
      BY <1>0, <1>4
    <3> QED
      BY <1>0, <1>1, <1>3, <2>1, <3>1, JoinsTail DEF Logged
  <2> QED
    BY <1>1, <2>1, <2>2, <2>3 DEF Logged
<1> QED
  BY <1>6, <1>7, <1>8, <1>10, <1>11

\* The process is terminated, or main() returns.
LEMMA LastStep ==
    ASSUME AppInv, ArchiveFails \/ Exit
    PROVE  AppInv'
<1> USE DEF AppInv
<1>0. "logger" \in Servants /\ "web" \in Servants
  BY DEF Servants
<1>1. CASE ArchiveFails
  <2>1. /\ at' = "terminated" /\ thread' = [s \in Servants |-> "none"]
        /\ UNCHANGED <<todo, objects, handler, pending>>
        /\ at = "opening"
    BY <1>1 DEF ArchiveFails
  <2>2. \A h \in Handlers : handler[h] = "idle"
    BY <1>0, <2>1 DEF Stages, Busy, Starting
  <2>3. Typed' /\ Stages'
    BY <2>1 DEF Typed, Stages, Starting
  <2>4. Alive' /\ JoinedInTime'
    BY <2>1 DEF Alive, JoinedInTime
  <2>5. Busy' /\ Logged'
    BY <1>0, <2>1, <2>2 DEF Busy, Logged
  <2> QED
    BY <2>3, <2>4, <2>5
<1>2. CASE Exit
  <2>1. /\ at = "ending" /\ todo = <<>> /\ at' = "exited"
        /\ UNCHANGED <<todo, objects, thread, handler, pending>>
    BY <1>2 DEF Exit
  <2>2. Typed' /\ Stages'
    BY <2>1 DEF Typed, Stages, Starting
  <2>3. Alive' /\ JoinedInTime'
    BY <2>1 DEF Alive, Needs, JoinedInTime, Ordered, Late, Joining
  <2>4. Busy' /\ Logged'
    BY <2>1 DEF Busy, Logged, Joins
  <2> QED
    BY <2>2, <2>3, <2>4
<1> QED
  BY <1>1, <1>2

\* The threads and the handlers.
LEMMA ThreadStep ==
    ASSUME AppInv,
           \/ Listen \/ Flush
           \/ \E s \in Servants : ThreadEnds(s)
           \/ \E h \in Handlers : Receive(h) \/ Handle(h)
           \/ UNCHANGED vars
    PROVE  AppInv'
<1> USE DEF AppInv
<1>0. "logger" \in Servants /\ "web" \in Servants
  BY DEF Servants
<1>1. /\ UNCHANGED <<at, todo, objects>>
      /\ thread' \in [Servants -> {"none", "binding", "running", "ended"}]
      /\ \A s \in Servants : /\ thread'[s] = "none" <=> thread[s] = "none"
                             /\ thread[s] # "binding" => thread'[s] # "binding"
      /\ DOMAIN handler' = Handlers
  BY <1>0 DEF Listen, Flush, ThreadEnds, Receive, Handle, Deploy, Reject, Undumpable, Archive, Log,
         Proceed, vars, Typed
<1>2. Typed' /\ Stages'
  BY <1>0, <1>1 DEF Typed, Stages, Built
<1>3. Alive'
  BY <1>1 DEF Alive, Needs
<1>4. JoinedInTime'
  BY <1>1 DEF JoinedInTime, Ordered, Late, Needs, Joining
<1>5. \A h \in Handlers : handler'[h] # "idle" => thread'["web"] = "running"
  <2>1. CASE Listen
    <3>1. thread["web"] = "binding" /\ handler' = handler
      BY <2>1 DEF Listen
    <3> QED
      BY <3>1 DEF Busy
  <2>2. CASE \E s \in Servants : ThreadEnds(s)
    <3>1. PICK s \in Servants : ThreadEnds(s)
      BY <2>2
    <3>2. CASE s = "web"
      BY <3>1, <3>2 DEF ThreadEnds
    <3>3. CASE s # "web"
      BY <1>0, <3>1, <3>3 DEF ThreadEnds, Typed, Busy
    <3> QED
      BY <3>2, <3>3
  <2>3. CASE \E h \in Handlers : Receive(h) \/ Handle(h)
    <3>1. PICK h \in Handlers : Receive(h) \/ Handle(h)
      BY <2>3
    <3>2. thread["web"] = "running" /\ thread' = thread
      BY <3>1 DEF Receive, Handle, Deploy, Reject, Undumpable, Archive, Log, Proceed, Busy
    <3> QED
      BY <3>2
  <2>4. CASE Flush \/ UNCHANGED vars
    BY <2>4 DEF Flush, vars, Busy
  <2> QED
    BY <2>1, <2>2, <2>3, <2>4
<1>6. Busy'
  BY <1>0, <1>1, <1>5 DEF Busy
<1>7. thread["logger"] = "none" => (pending = 0 => pending' = 0)
  <2>1. CASE \E h \in Handlers : Log(h)
    BY <2>1 DEF Log, Proceed, Busy
  <2>2. CASE ~ \E h \in Handlers : Log(h)
    <3>1. pending' = pending \/ pending' = 0
      BY <2>2 DEF Listen, Flush, ThreadEnds, Receive, Handle, Deploy, Reject, Undumpable, Archive,
             vars
    <3> QED
      BY <3>1
  <2> QED
    BY <2>1, <2>2
<1>8. Logged'
  BY <1>0, <1>1, <1>7 DEF Logged, Joins, Joining
<1> QED
  BY <1>2, <1>3, <1>4, <1>6, <1>8

LEMMA NextApp == AppInv /\ [Next]_vars => AppInv'
<1> SUFFICES ASSUME AppInv, [Next]_vars PROVE AppInv'
  OBVIOUS
<1>1. CASE Startup
  <2>1. \/ at' \in Starting
        \/ ArchiveFails \/ LoadFails \/ HotReloadFails \/ Enter
    BY <1>1 DEF Startup, StartLogger, OpenArchive, LoadProgram, StartEngine, StartWeb,
           StartTelemetry, HotReload, Starting
  <2> QED
    BY <1>1, <2>1, StartupStep, LeavingStep, LastStep
<1>2. CASE Ending
  BY <1>2, WorkStep, JoinStep, LastStep DEF Ending
<1>3. CASE ~ Startup /\ ~ Ending
  BY <1>3, ThreadStep DEF Next
<1> QED
  BY <1>1, <1>2, <1>3

LEMMA AppInvariance == Spec => []AppInv
BY InitApp, NextApp, PTL DEF Spec

-----------------------------------------------------------------------------

(* On every way out of main(), and while it runs, no thread and no handler *)
(* uses an object that has been destroyed or not yet been constructed      *)
(* (main.cpp:44-47, the destructors, stop() of the four).                  *)
THEOREM NothingIsOutlived == Spec => []NothingOutlived
<1>1. AppInv => NothingOutlived
  <2> SUFFICES ASSUME AppInv PROVE NothingOutlived
    OBVIOUS
  <2>1. \A s \in Servants : thread[s] \in {"binding", "running"} => Uses[s] \subseteq objects
    <3>1. \A s \in Servants : Uses[s] \subseteq Needs(s)
      BY DEF Needs, Uses, HandlerUses
    <3> QED
      BY <3>1 DEF AppInv, Alive
  <2>2. \A h \in Handlers : handler[h] # "idle" => HandlerUses \subseteq objects
    BY DEF AppInv, Busy, Alive, Needs, Servants
  <2> QED
    BY <2>1, <2>2 DEF NothingOutlived
<1> QED
  BY <1>1, AppInvariance, PTL

(* When main() has returned, everything that was logged has been written,  *)
(* whatever the handlers were still doing when it began to leave           *)
(* (main.cpp:104-107, RingBufferLogger::stop).                             *)
THEOREM LogIsComplete == Spec => []LogComplete
<1>1. AppInv => LogComplete
  BY EmptySeq DEF AppInv, Logged, LogComplete, Joins
<1> QED
  BY <1>1, AppInvariance, PTL

=============================================================================
