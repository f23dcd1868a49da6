------------------------------ MODULE Shutdown ------------------------------
(***************************************************************************)
(* How the process of cmd/mcp/main.go ends: the main goroutine inside      *)
(* ListenAndServe, the goroutine that waits for SIGINT or SIGTERM, and the *)
(* HTTP handlers, which query the database of internal/db and pool         *)
(* sockets in internal/socket.                                             *)
(*                                                                         *)
(* net/http is modelled from how main uses it: Shutdown closes the         *)
(* listener, which makes ListenAndServe return at once, and then waits for *)
(* the handlers or for its context.  When main returns the process ends,   *)
(* whatever its other goroutines are doing.                                *)
(***************************************************************************)
EXTENDS Naturals

CONSTANT Handler   \* requests that may arrive

VARIABLES
  main,      \* the main goroutine
  signal,    \* the signal goroutine
  listener,  \* the HTTP server accepts connections
  handler,   \* each request: none, connected, running, answered, panicked
  pooled,    \* handlers whose socket is in the pool
  db         \* the database instance: open, or closed (nil)

processVars == <<main, signal, listener, handler, pooled, db>>

ProcessTypeOK ==
  /\ main \in {"serving", "deferred", "fatal", "fatalDb", "fatalExit",
              "returning", "exited"}
  /\ signal \in {"waiting", "closeAll", "shutdown", "draining", "closeDb", "cancel", "done"}
  /\ listener \in BOOLEAN
  /\ handler \in [Handler -> {"none", "connected", "running", "answered", "panicked"}]
  /\ pooled \subseteq Handler
  /\ db \in {"open", "closed"}

\* db.Connect has succeeded; otherwise the process never serves.
ProcessInit ==
  /\ main = "serving"
  /\ signal = "waiting"
  /\ listener = TRUE
  /\ handler = [h \in Handler |-> "none"]
  /\ pooled = {}
  /\ db = "open"

Alive == main # "exited"
Running == {h \in Handler : handler[h] = "running"}
-----------------------------------------------------------------------------
(* Requests.                                                               *)

\* A connection is accepted.
Connect(h) ==
  /\ Alive /\ listener
  /\ handler[h] = "none"
  /\ handler' = [handler EXCEPT ![h] = "connected"]
  /\ UNCHANGED <<main, signal, listener, pooled, db>>

\* Its request begins, perhaps only after the listener has closed.
Arrive(h) ==
  /\ Alive
  /\ handler[h] = "connected"
  /\ handler' = [handler EXCEPT ![h] = "running"]
  /\ UNCHANGED <<main, signal, listener, pooled, db>>

\* A write pools the socket it dials; CloseAll does not stop later dials.
PoolSocket(h) ==
  /\ Alive
  /\ h \in Running \ pooled
  /\ pooled' = pooled \cup {h}
  /\ UNCHANGED <<main, signal, listener, handler, db>>

Answer(h) ==
  /\ Alive
  /\ h \in Running
  /\ handler' = [handler EXCEPT ![h] = "answered"]
  /\ UNCHANGED <<main, signal, listener, pooled, db>>

\* db.Pool panics once the database is closed.
QueryPanics(h) ==
  /\ Alive
  /\ h \in Running /\ db = "closed"
  /\ handler' = [handler EXCEPT ![h] = "panicked"]
  /\ UNCHANGED <<main, signal, listener, pooled, db>>
-----------------------------------------------------------------------------
(* The signal goroutine.                                                   *)

\* Each of its steps follows the previous one.
Then(from, to) ==
  /\ Alive
  /\ signal = from
  /\ signal' = to

SignalArrives ==
  /\ Then("waiting", "closeAll")
  /\ UNCHANGED <<main, listener, handler, pooled, db>>

CloseSocketsAndDb ==
  /\ Then("closeAll", "shutdown")
  /\ pooled' = {}
  /\ db' = "closed"
  /\ UNCHANGED <<main, listener, handler>>

\* socket.CloseAll.
CloseSockets ==
  /\ Then("closeAll", "shutdown")
  /\ pooled' = {}
  /\ UNCHANGED <<main, listener, handler, db>>

\* httpServer.Shutdown begins.
BeginShutdown ==
  /\ Then("shutdown", "draining")
  /\ listener' = FALSE
  /\ UNCHANGED <<main, handler, pooled, db>>

\* httpServer.Shutdown returns: no handler is left, and the connections without a
\* request have been closed, by it or by their clients.
Drained ==
  /\ Then("draining", "closeDb")
  /\ Running = {}
  /\ handler' = [h \in Handler |-> IF handler[h] = "connected" THEN "none" ELSE handler[h]]
  /\ UNCHANGED <<main, listener, pooled, db>>

TimeoutIsFatal ==
  /\ Then("draining", "failed")
  /\ UNCHANGED <<main, listener, handler, pooled, db>>

\* httpServer.Shutdown returns: its five seconds are over.  Open connections stay.
DrainTimesOut ==
  /\ Then("draining", "closeDb")
  /\ UNCHANGED <<main, listener, handler, pooled, db>>

SignalClosesDb ==
  /\ Then("closeDb", "cancel")
  /\ db' = "closed"
  /\ UNCHANGED <<main, listener, handler, pooled>>

\* Nothing but the database was opened with the context.
CancelContext ==
  /\ Then("cancel", "done")
  /\ UNCHANGED <<main, listener, handler, pooled, db>>
-----------------------------------------------------------------------------
(* The main goroutine.                                                     *)

ReturnsWhenDrained ==
  /\ main = "serving" /\ ~listener /\ Running = {}
  /\ main' = "deferred"
  /\ UNCHANGED <<signal, listener, handler, pooled, db>>

\* ListenAndServe returns ErrServerClosed as soon as Shutdown has begun.
ListenAndServeReturns ==
  /\ main = "serving" /\ ~listener
  /\ main' = "deferred"
  /\ UNCHANGED <<signal, listener, handler, pooled, db>>

\* The listener cannot be opened, or fails for good.
ListenAndServeFails ==
  /\ main = "serving" /\ listener
  /\ main' = "fatal"
  /\ listener' = FALSE
  /\ UNCHANGED <<signal, handler, pooled, db>>

FatalClosesSockets ==
  /\ main = "fatal"
  /\ main' = "fatalDb"
  /\ pooled' = {}
  /\ UNCHANGED <<signal, listener, handler, db>>

\* The deferred db.Close, or the one before os.Exit.
MainClosesDb ==
  /\ \/ main = "deferred" /\ main' = "returning"
     \/ main = "fatalDb" /\ main' = "fatalExit"
  /\ db' = "closed"
  /\ UNCHANGED <<signal, listener, handler, pooled>>

Exit ==
  /\ main \in {"returning", "fatalExit"}
  /\ main' = "exited"
  /\ UNCHANGED <<signal, listener, handler, pooled, db>>
-----------------------------------------------------------------------------
SignalStep ==
  \/ CloseSockets \/ BeginShutdown \/ Drained \/ DrainTimesOut
  \/ SignalClosesDb \/ CancelContext

MainStep ==
  \/ ListenAndServeReturns \/ FatalClosesSockets \/ MainClosesDb \/ Exit

ProcessNext ==
  \/ \E h \in Handler :
       Connect(h) \/ Arrive(h) \/ PoolSocket(h) \/ Answer(h) \/ QueryPanics(h)
  \/ SignalArrives \/ SignalStep
  \/ ListenAndServeFails \/ MainStep

ProcessSpec == ProcessInit /\ [][ProcessNext]_processVars

\* The two goroutines are scheduled.  Handlers may hang and signals may never come.
ProcessFairSpec == ProcessSpec /\ WF_processVars(SignalStep) /\ WF_processVars(MainStep)
-----------------------------------------------------------------------------
(* Properties.                                                             *)

\* The first half of "DB must close last": by either path, the database is
\* closed only after the server has stopped accepting connections.  (A request on a
\* connection that is already open may still find it closed: QueryPanics.)
DbOutlivesListener == db = "closed" => ~listener

\* A signal ends the process, even one whose handlers hang (the five seconds of
\* Shutdown, and main returning).
SignalEndsProcess == signal # "waiting" ~> main = "exited"

\* Claimed by the comment on the signal goroutine: HTTP is drained, "so
\* in-flight handlers can finish", and only then is the database closed.  So
\* while Shutdown waits for a handler, inside its five seconds, the database is
\* open (unless the listener had failed, which the comment is not about).
DrainedBeforeDbCloses ==
  signal = "draining" /\ Running # {} /\ main \in {"serving", "deferred", "returning"}
    => db = "open"
=============================================================================
