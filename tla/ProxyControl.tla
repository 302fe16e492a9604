----------------------------- MODULE ProxyControl -----------------------------
(***************************************************************************)
(* Turning the proxy on and off: the API handlers handleStart and handleStop *)
(* (gui/server.go:613-648) and handleV2RayConnect (gui/v2ray.go:23-58), the  *)
(* globals proxyServer and proxyRunning they share, and NewServer, Start and *)
(* Stop of proxy/server.go (33-98) with the goroutines they leave behind.    *)
(*                                                                         *)
(* net/http runs each API request in a goroutine of its own and recovers    *)
(* its panics; nothing recovers those of the goroutine that handleStart     *)
(* spawns.  The globals have no lock: each access is one step.              *)
(*                                                                         *)
(* A call of handleStart or handleV2RayConnect makes at most one server,    *)
(* which bears its name; one of handleStart spawns at most one goroutine    *)
(* that calls Start, and so opens at most one listener, which do so too.    *)
(***************************************************************************)
CONSTANTS
  Starts,      \* requests for /api/start
  Stops,       \* requests for /api/stop
  Connects,    \* requests for /api/v2ray/connect
  Ports,
  Port,        \* the port of the configuration each server is made from
  OneAtATime,  \* a request comes only when all is quiet
  None

Servers == Starts \cup Connects
Calls == Servers \cup Stops

ASSUME ControlAssumption ==
  /\ None \notin Calls
  /\ Starts \cap Stops = {} /\ Starts \cap Connects = {}
  /\ Stops \cap Connects = {}
  /\ Port \in [Servers -> Ports]
  /\ OneAtATime \in BOOLEAN

VARIABLES
  pc,           \* where each request stands
  proxyServer,  \* the global: a server or nil
  proxyRunning, \* the global
  stopped,      \* servers whose stopCh is closed
  target,       \* the server whose Stop a request is in
  loop,         \* the goroutine of each start
  on,           \* the server it calls Start on
  lst,          \* the listener it opens
  listener,     \* s.listener: the one of which goroutine
  closer,       \* the goroutine of Start that waits for stopCh
  crashed       \* the process is gone

globals == <<proxyServer, proxyRunning>>
goVars == <<loop, on, lst, listener, closer>>
vars == <<pc, globals, stopped, target, goVars, crashed>>

TypeOK ==
  /\ pc \in [Calls -> {"idle", "create", "mark", "close", "shut", "unmark",
                       "make", "end"}]
  /\ proxyServer \in Servers \cup {None}
  /\ proxyRunning \in BOOLEAN
  /\ stopped \subseteq Servers
  /\ target \in [Stops -> stopped \cup {None}]
  /\ loop \in [Starts -> {"none", "spawned", "bind", "bound", "failed",
                          "accepting", "returned"}]
  /\ on \in [Starts -> Servers \cup {None}]
  /\ lst \in [Starts -> {"none", "open", "closed"}]
  /\ listener \in [Servers -> Starts \cup {None}]
  /\ closer \in [Starts -> {"none", "waiting", "done"}]
  /\ crashed \in BOOLEAN

Init ==
  /\ pc = [c \in Calls |-> "idle"]
  /\ proxyServer = None
  /\ proxyRunning = FALSE
  /\ stopped = {}
  /\ target = [c \in Stops |-> None]
  /\ loop = [g \in Starts |-> "none"]
  /\ on = [g \in Starts |-> None]
  /\ lst = [g \in Starts |-> "none"]
  /\ listener = [s \in Servers |-> None]
  /\ closer = [g \in Starts |-> "none"]
  /\ crashed = FALSE

\* No request is being served, and no goroutine is on its way to Accept or
\* to reporting that it cannot listen.
Quiet ==
  /\ \A c \in Calls : pc[c] \in {"idle", "end"}
  /\ \A g \in Starts : loop[g] \in {"none", "accepting", "returned"}

Come(c) == pc[c] = "idle" /\ (OneAtATime => Quiet)

-----------------------------------------------------------------------------
(* handleStart.                                                             *)

\* Fault: no look at proxyRunning.
StartAgain(c) ==
  /\ Come(c)
  /\ pc' = [pc EXCEPT ![c] = "create"]
  /\ UNCHANGED <<globals, stopped, target, goVars>>

\* "already running", or on to NewServer.
Start(c) ==
  /\ Come(c)
  /\ pc' = [pc EXCEPT ![c] = IF proxyRunning THEN "end" ELSE "create"]
  /\ UNCHANGED <<globals, stopped, target, goVars>>

\* proxyServer takes what NewServer returns, nil if the CA cannot be had.
Create(c) ==
  /\ pc[c] = "create"
  /\ \/ proxyServer' = c /\ pc' = [pc EXCEPT ![c] = "mark"]
     \/ proxyServer' = None /\ pc' = [pc EXCEPT ![c] = "end"]
  /\ UNCHANGED <<proxyRunning, stopped, target, goVars>>

Mark(c) ==
  /\ pc[c] = "mark"
  /\ proxyRunning' = TRUE
  /\ loop' = [loop EXCEPT ![c] = "spawned"]
  /\ pc' = [pc EXCEPT ![c] = "end"]
  /\ UNCHANGED <<proxyServer, stopped, target, on, lst, listener, closer>>

-----------------------------------------------------------------------------
(* handleStop and Server.Stop.                                              *)

\* Fault: no look at proxyRunning.
StopAnyway(c) ==
  /\ Come(c)
  /\ pc' = [pc EXCEPT ![c] = IF proxyServer # None THEN "close" ELSE "end"]
  /\ UNCHANGED <<globals, stopped, target, goVars>>

\* "not running", or on to Server.Stop.
Stop(c) ==
  /\ Come(c)
  /\ pc' = [pc EXCEPT ![c] =
              IF proxyRunning /\ proxyServer # None THEN "close" ELSE "end"]
  /\ UNCHANGED <<globals, stopped, target, goVars>>

\* Fault: Stop closes the listener only.
CloseNothing(c) ==
  /\ pc[c] = "close"
  /\ proxyServer # None
  /\ target' = [target EXCEPT ![c] = proxyServer]
  /\ pc' = [pc EXCEPT ![c] = "shut"]
  /\ UNCHANGED <<globals, stopped, goVars>>

\* close(s.stopCh) of the server proxyServer names by now.  It panics, and
\* the request ends there, if there is none or its channel is closed.
CloseStopCh(c) ==
  /\ pc[c] = "close"
  /\ IF proxyServer = None \/ proxyServer \in stopped
     THEN /\ pc' = [pc EXCEPT ![c] = "end"]
          /\ UNCHANGED <<stopped, target>>
     ELSE /\ stopped' = stopped \cup {proxyServer}
          /\ target' = [target EXCEPT ![c] = proxyServer]
          /\ pc' = [pc EXCEPT ![c] = "shut"]
  /\ UNCHANGED <<globals, goVars>>

CloseListener(c) ==
  /\ pc[c] = "shut"
  /\ lst' = IF listener[target[c]] = None THEN lst
            ELSE [lst EXCEPT ![listener[target[c]]] = "closed"]
  /\ pc' = [pc EXCEPT ![c] = "unmark"]
  /\ UNCHANGED <<globals, stopped, target, loop, on, listener, closer>>

Unmark(c) ==
  /\ pc[c] = "unmark"
  /\ proxyRunning' = FALSE
  /\ pc' = [pc EXCEPT ![c] = "end"]
  /\ UNCHANGED <<proxyServer, stopped, target, goVars>>

-----------------------------------------------------------------------------
(* handleV2RayConnect, for a configuration that exists.                     *)

Connect(c) ==
  /\ Come(c)
  /\ pc' = [pc EXCEPT ![c] = IF proxyServer = None THEN "make" ELSE "end"]
  /\ UNCHANGED <<globals, stopped, target, goVars>>

\* A server nobody starts.
Make(c) ==
  /\ pc[c] = "make"
  /\ proxyServer' \in {c, None}
  /\ pc' = [pc EXCEPT ![c] = "end"]
  /\ UNCHANGED <<proxyRunning, stopped, target, goVars>>

-----------------------------------------------------------------------------
(* The goroutine of handleStart, in Server.Start.                           *)

\* It calls Start on the server proxyServer names by now; on nil, reading the
\* configuration panics and takes the process down.
Enter(g) ==
  /\ loop[g] = "spawned"
  /\ IF proxyServer = None
     THEN /\ crashed' = TRUE
          /\ lst' = [h \in Starts |-> IF lst[h] = "open" THEN "closed" ELSE lst[h]]
          /\ UNCHANGED <<loop, on>>
     ELSE /\ on' = [on EXCEPT ![g] = proxyServer]
          /\ loop' = [loop EXCEPT ![g] = "bind"]
          /\ UNCHANGED <<lst, crashed>>
  /\ UNCHANGED <<pc, globals, stopped, target, listener, closer>>

Free(p) == \A g \in Starts : lst[g] = "open" => Port[on[g]] # p

\* net.Listen.  It may fail for reasons of its own, another program's
\* listener among them.
Bind(g) ==
  /\ loop[g] = "bind"
  /\ \/ /\ Free(Port[on[g]])
        /\ lst' = [lst EXCEPT ![g] = "open"]
        /\ loop' = [loop EXCEPT ![g] = "bound"]
     \/ /\ loop' = [loop EXCEPT ![g] = "failed"]
        /\ UNCHANGED lst
  /\ UNCHANGED <<pc, globals, stopped, target, on, listener, closer, crashed>>

\* Fault: no goroutine waits for stopCh.
ServeAlone(g) ==
  /\ loop[g] = "bound"
  /\ listener' = [listener EXCEPT ![on[g]] = g]
  /\ loop' = [loop EXCEPT ![g] = "accepting"]
  /\ UNCHANGED <<pc, globals, stopped, target, on, lst, closer, crashed>>

Serve(g) ==
  /\ loop[g] = "bound"
  /\ listener' = [listener EXCEPT ![on[g]] = g]
  /\ closer' = [closer EXCEPT ![g] = "waiting"]
  /\ loop' = [loop EXCEPT ![g] = "accepting"]
  /\ UNCHANGED <<pc, globals, stopped, target, on, lst, crashed>>

\* Fault: the error of Start is only logged.
FailQuietly(g) ==
  /\ loop[g] = "failed"
  /\ loop' = [loop EXCEPT ![g] = "returned"]
  /\ UNCHANGED <<pc, globals, stopped, target, on, lst, listener, closer, crashed>>

\* handleStart's goroutine takes the error for the end of the proxy.
Fail(g) ==
  /\ loop[g] = "failed"
  /\ proxyRunning' = FALSE
  /\ loop' = [loop EXCEPT ![g] = "returned"]
  /\ UNCHANGED <<pc, proxyServer, stopped, target, on, lst, listener, closer, crashed>>

\* Accept fails, and stopCh says why.  While it does not, the loop spins.
Return(g) ==
  /\ loop[g] = "accepting"
  /\ lst[g] = "closed"
  /\ on[g] \in stopped
  /\ loop' = [loop EXCEPT ![g] = "returned"]
  /\ UNCHANGED <<pc, globals, stopped, target, on, lst, listener, closer, crashed>>

\* <-s.stopCh; l.Close()
CloserWakes(g) ==
  /\ closer[g] = "waiting"
  /\ on[g] \in stopped
  /\ lst' = [lst EXCEPT ![g] = "closed"]
  /\ closer' = [closer EXCEPT ![g] = "done"]
  /\ UNCHANGED <<pc, globals, stopped, target, loop, on, listener, crashed>>

-----------------------------------------------------------------------------
Handle(c) ==
  \/ c \in Starts /\ (Create(c) \/ Mark(c))
  \/ c \in Stops /\ (CloseStopCh(c) \/ CloseListener(c) \/ Unmark(c))
  \/ c \in Connects /\ Make(c)

Goroutine(g) ==
  Enter(g) \/ Bind(g) \/ Serve(g) \/ Fail(g) \/ Return(g) \/ CloserWakes(g)

Next ==
  /\ ~crashed
  /\ \/ /\ \/ \E c \in Starts : Start(c)
           \/ \E c \in Stops : Stop(c)
           \/ \E c \in Connects : Connect(c)
           \/ \E c \in Calls : Handle(c)
        /\ UNCHANGED crashed
     \/ \E g \in Starts : Goroutine(g)

Spec == Init /\ [][Next]_vars

\* The Go scheduler runs every goroutine that can run.
Fairness ==
  /\ \A c \in Calls : WF_vars(~crashed /\ Handle(c) /\ UNCHANGED crashed)
  /\ \A g \in Starts :
       /\ WF_vars(~crashed /\ (Enter(g) \/ Bind(g) \/ Serve(g) \/ Fail(g)))
       /\ WF_vars(~crashed /\ Return(g))
       /\ WF_vars(~crashed /\ CloserWakes(g))

FairSpec == Spec /\ Fairness

-----------------------------------------------------------------------------
Serving == \E g \in Starts : lst[g] = "open"

\* proxy/server.go:80-87: whatever requests overlap, an accept loop whose
\* listener is closed finds its stopCh closed, and returns: it never spins.
NeverSpins ==
  ~crashed =>
    \A g \in Starts : lst[g] = "closed" => on[g] \in stopped

\* gui/server.go:627-631, 641-642: if each request waits for quiet, the status
\* is true whenever all is quiet.
StatusTrue == Quiet => (proxyRunning <=> Serving)

\* gui/server.go:640: if each request waits for quiet, a listener that is
\* open can be closed: it is that of the server handleStop would stop, and
\* that server's Stop has not been called.
Stoppable ==
  \A g \in Starts :
    lst[g] = "open" /\ Quiet =>
      proxyRunning /\ proxyServer = on[g] /\ on[g] \notin stopped

\* gui/server.go:629, proxy/server.go:94: if each request waits for quiet, no
\* nil server is started or stopped and no channel is closed twice.
NoPanic ==
  /\ ~crashed
  /\ \A c \in Stops :
       pc[c] = "close" => proxyServer # None /\ proxyServer \notin stopped

\* The status and what listens, as a user sees them; who has looked for a
\* listener, or taken one away, is still turning.
Turning ==
  IF \E g \in Starts : loop[g] \in {"spawned", "bind", "failed"} THEN "on"
  ELSE IF ~Serving /\ \E c \in Stops : pc[c] \in {"shut", "unmark"} THEN "off"
  ELSE "none"

With(state) == {on[g] : g \in {g \in Starts : lst[g] = state}}

Switched == INSTANCE Switch WITH
  status <- proxyRunning, serving <- With("open"), retired <- With("closed"),
  turn <- Turning

\* gui/server.go:613-648, proxy/server.go:62-98: if each request waits for
\* quiet, what a user sees is a switch: nothing listens behind a status that
\* says it does not, not even on the way; a status that says it does is true
\* or about to be put right; and no server that was stopped listens again.
IsSwitch == Switched!Spec

\* proxy/server.go:74-77: whatever requests overlap, a server that is stopped
\* stops listening for good, even if Stop came before Start had listened.
StoppedCloses ==
  \A g \in Starts :
    on[g] # None /\ on[g] \in stopped ~> [](lst[g] # "open")

-----------------------------------------------------------------------------
(* What the program says of itself, and is not so when requests overlap.    *)

\* gui/server.go:646, "not running", and 738, "Proxy is not running": when
\* the program says so, and all is quiet, nothing listens.
NotRunningSaidTruly == Quiet /\ ~proxyRunning => ~Serving
=============================================================================
