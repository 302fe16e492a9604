-------------------------------- MODULE LogHub --------------------------------
(***************************************************************************)
(* The WebSocket clients of the panel and what is sent to them: log lines    *)
(* and the status of the proxy (gui/server.go:436-438, 836-893).  clientsMu   *)
(* covers the map of clients and a whole broadcast; log's own mutex is held   *)
(* around that by whoever logs.  A write to a client waits until the client   *)
(* has read enough of what it was sent; no deadline is set.                 *)
(***************************************************************************)
EXTENDS Naturals

CONSTANTS
  Clients,         \* WebSocket connections
  Loggers, Flips,  \* log lines, and changes of proxyRunning by its handlers
  Buffer,          \* the writes a client's connection takes unread
  NoOne

Senders == Loggers \cup Flips

ASSUME HubAssumption ==
  /\ Loggers \cap Flips = {} /\ Clients \cap Senders = {}
  /\ NoOne \notin Clients \cup Senders
  /\ Buffer \in Nat \ {0}

VARIABLES
  hubPc,         \* where each handler and each sender stands
  conn,          \* of each client: its connection
  unread,        \* ... writes it has not read
  shown,         \* ... the last status written to it
  proxyRunning,  \* gui.proxyRunning
  logClients,    \* the map
  clientsMu,     \* who holds the mutex
  logMu,         \* ... that of package log
  todo,          \* clients a broadcast has not come to, the one it writes to
  target,        \* ... included
  status,        \* proxyRunning as each handler and sender read it last
  crossed        \* history: see StatusShown

hubVars == <<hubPc, conn, unread, shown, proxyRunning, logClients, clientsMu,
             logMu, todo, target, status, crossed>>

HubTypeOK ==
  /\ hubPc \in [Clients \cup Senders ->
       {"idle", "register", "read", "hello", "greet", "reading", "leave",
        "log", "ask", "lock", "loop", "end"}]
  /\ conn \in [Clients -> {"none", "nil", "open", "closed"}]
  /\ unread \in [Clients -> 0..Buffer]
  /\ shown \in [Clients -> BOOLEAN \cup {NoOne}]
  /\ proxyRunning \in BOOLEAN /\ logClients \in SUBSET Clients
  /\ clientsMu \in Senders \cup {NoOne} /\ logMu \in Loggers \cup {NoOne}
  /\ todo \in [Senders -> SUBSET Clients]
  /\ target \in [Senders -> Clients \cup {NoOne}]
  /\ status \in [Clients \cup Senders -> BOOLEAN \cup {NoOne}]
  /\ crossed \in BOOLEAN

HubInit ==
  /\ hubPc = [p \in Clients \cup Senders |-> "idle"]
  /\ conn = [c \in Clients |-> "none"]
  /\ unread = [c \in Clients |-> 0] /\ shown = [c \in Clients |-> NoOne]
  /\ proxyRunning = FALSE /\ logClients = {}
  /\ clientsMu = NoOne /\ logMu = NoOne
  /\ todo = [s \in Senders |-> {}] /\ target = [s \in Senders |-> NoOne]
  /\ status = [p \in Clients \cup Senders |-> NoOne]
  /\ crossed = FALSE

HubGoes(p, from, to) == hubPc[p] = from /\ hubPc' = [hubPc EXCEPT ![p] = to]

Greeting(c) == hubPc[c] = "greet"
WrittenTo(c) == \E s \in Senders : hubPc[s] = "loop" /\ target[s] = c

-----------------------------------------------------------------------------
(* handleWebSocket                                                         *)

\* The error of Upgrade is not looked at: the connection may be nil.
Upgrade(c) ==
  /\ HubGoes(c, "idle", "register")
  /\ \E to \in {"open", "nil"} : conn' = [conn EXCEPT ![c] = to]
  /\ UNCHANGED <<unread, shown, proxyRunning, logClients, clientsMu, logMu, todo,
                 target, status, crossed>>

Register(c) ==
  /\ clientsMu = NoOne /\ HubGoes(c, "register", "read")
  /\ logClients' = logClients \cup {c}
  /\ UNCHANGED <<conn, unread, shown, proxyRunning, clientsMu, logMu, todo, target,
                 status, crossed>>

\* Fault: the status is read before the client is in the map.
ReadEarly(c) ==
  \/ /\ HubGoes(c, "register", "read")
     /\ status' = [status EXCEPT ![c] = proxyRunning]
     /\ UNCHANGED <<conn, unread, shown, proxyRunning, logClients, clientsMu, logMu,
                    todo, target, crossed>>
  \/ /\ clientsMu = NoOne /\ HubGoes(c, "read", "hello")
     /\ logClients' = logClients \cup {c}
     /\ UNCHANGED <<conn, unread, shown, proxyRunning, clientsMu, logMu, todo,
                    target, status, crossed>>

\* The status is read, and getPing takes up to a second.
ReadStatus(c) ==
  /\ HubGoes(c, "read", "hello")
  /\ status' = [status EXCEPT ![c] = proxyRunning]
  /\ UNCHANGED <<conn, unread, shown, proxyRunning, logClients, clientsMu, logMu,
                 todo, target, crossed>>

\* The first write is outside clientsMu.
Greet(c) ==
  /\ conn[c] # "nil" /\ HubGoes(c, "hello", "greet")
  /\ UNCHANGED <<conn, unread, shown, proxyRunning, logClients, clientsMu, logMu,
                 todo, target, status, crossed>>

\* sendWSMessage drops the error of writing to a closed connection.
Greeted(c) ==
  /\ HubGoes(c, "greet", "reading")
  /\ \/ /\ conn[c] = "open" /\ unread[c] < Buffer
        /\ unread' = [unread EXCEPT ![c] = @ + 1]
        /\ shown' = [shown EXCEPT ![c] = status[c]]
     \/ conn[c] = "closed" /\ UNCHANGED <<unread, shown>>
  /\ status' = [status EXCEPT ![c] = NoOne]
  /\ UNCHANGED <<conn, proxyRunning, logClients, clientsMu, logMu, todo, target,
                 crossed>>

\* A broadcast writes to the client at the same time: gorilla fails one of the
\* two, or panics, which net/http recovers and which leaves the client in the
\* map with nobody to read from it.
Spoilt(c) ==
  /\ WrittenTo(c) /\ conn[c] = "open"
  /\ \E to \in {"reading", "end"} : HubGoes(c, "greet", to)
  /\ crossed' = TRUE /\ status' = [status EXCEPT ![c] = NoOne]
  /\ UNCHANGED <<conn, unread, shown, proxyRunning, logClients, clientsMu, logMu,
                 todo, target>>

\* ReadMessage fails when either side has closed.
ReadFails(c) ==
  /\ conn[c] = "closed" /\ HubGoes(c, "reading", "leave")
  /\ UNCHANGED <<conn, unread, shown, proxyRunning, logClients, clientsMu, logMu,
                 todo, target, status, crossed>>

Leave(c) ==
  /\ clientsMu = NoOne /\ HubGoes(c, "leave", "end")
  /\ logClients' = logClients \ {c} /\ shown' = [shown EXCEPT ![c] = NoOne]
  /\ UNCHANGED <<conn, unread, proxyRunning, clientsMu, logMu, todo, target, status,
                 crossed>>

\* The page reads what it was sent, or goes away; nothing makes it do either.
PageReads(c) ==
  /\ conn[c] = "open" /\ unread[c] > 0
  /\ unread' = [unread EXCEPT ![c] = @ - 1]
  /\ UNCHANGED <<hubPc, conn, shown, proxyRunning, logClients, clientsMu, logMu,
                 todo, target, status, crossed>>

PageLeaves(c) ==
  /\ conn[c] = "open" /\ conn' = [conn EXCEPT ![c] = "closed"]
  /\ unread' = [unread EXCEPT ![c] = 0]
  /\ UNCHANGED <<hubPc, shown, proxyRunning, logClients, clientsMu, logMu, todo,
                 target, status, crossed>>

-----------------------------------------------------------------------------
(* Those who send: log lines through package log or by broadcastLog itself,   *)
(* and handlers that have set proxyRunning.                                *)

Log(l) ==
  /\ \E to \in {"log", "lock"} : HubGoes(l, "idle", to)
  /\ UNCHANGED <<conn, unread, shown, proxyRunning, logClients, clientsMu, logMu,
                 todo, target, status, crossed>>

LockLog(l) ==
  /\ logMu = NoOne /\ logMu' = l /\ HubGoes(l, "log", "lock")
  /\ UNCHANGED <<conn, unread, shown, proxyRunning, logClients, clientsMu, todo,
                 target, status, crossed>>

\* A status was read that has not reached everyone it is for
Pending ==
  \/ \E f \in Flips : hubPc[f] \in {"lock", "loop"}
  \/ \E c \in Clients : hubPc[c] \in {"hello", "greet"}

Flip(f, running) ==
  /\ HubGoes(f, "idle", "ask")
  /\ proxyRunning' = running /\ crossed' = Pending
  /\ UNCHANGED <<conn, unread, shown, logClients, clientsMu, logMu, todo, target,
                 status>>

\* sendStatusUpdate
AskStatus(f) ==
  /\ HubGoes(f, "ask", "lock")
  /\ status' = [status EXCEPT ![f] = proxyRunning]
  /\ UNCHANGED <<conn, unread, shown, proxyRunning, logClients, clientsMu, logMu,
                 todo, target, crossed>>

Lock(s) ==
  /\ clientsMu = NoOne /\ clientsMu' = s /\ HubGoes(s, "lock", "loop")
  /\ todo' = [todo EXCEPT ![s] = logClients]
  /\ UNCHANGED <<conn, unread, shown, proxyRunning, logClients, logMu, target,
                 status, crossed>>

Choose(s) ==
  /\ hubPc[s] = "loop" /\ target[s] = NoOne
  /\ \E c \in todo[s] : conn[c] # "nil" /\ target' = [target EXCEPT ![s] = c]
  /\ UNCHANGED <<hubPc, conn, unread, shown, proxyRunning, logClients, clientsMu,
                 logMu, todo, status, crossed>>

Done(s, c) ==
  /\ hubPc[s] = "loop" /\ target[s] = c
  /\ target' = [target EXCEPT ![s] = NoOne]
  /\ todo' = [todo EXCEPT ![s] = @ \ {c}]

\* Fault: a write does not wait for the client.
WriteOn(s, c) ==
  /\ Done(s, c) /\ conn[c] = "open"
  /\ unread' = [unread EXCEPT ![c] = @ + 1]
  /\ shown' = IF s \in Flips THEN [shown EXCEPT ![c] = status[s]] ELSE shown
  /\ UNCHANGED <<hubPc, conn, proxyRunning, logClients, clientsMu, logMu, status,
                 crossed>>

Write(s, c) ==
  /\ Done(s, c) /\ conn[c] = "open" /\ unread[c] < Buffer
  /\ unread' = [unread EXCEPT ![c] = @ + 1]
  /\ shown' = IF s \in Flips THEN [shown EXCEPT ![c] = status[s]] ELSE shown
  /\ UNCHANGED <<hubPc, conn, proxyRunning, logClients, clientsMu, logMu, status,
                 crossed>>

\* The client has closed, or the handler is greeting it: it is dropped.
WriteFails(s, c) ==
  /\ Done(s, c)
  /\ conn[c] = "closed" \/ Greeting(c)
  /\ conn' = [conn EXCEPT ![c] = "closed"] /\ unread' = [unread EXCEPT ![c] = 0]
  /\ logClients' = logClients \ {c}
  /\ UNCHANGED <<hubPc, shown, proxyRunning, clientsMu, logMu, status,
                 crossed>>

\* Both mutexes are released, by defer.
Releases(s) ==
  /\ HubGoes(s, "loop", "end")
  /\ clientsMu' = NoOne /\ logMu' = IF logMu = s THEN NoOne ELSE logMu
  /\ status' = [status EXCEPT ![s] = NoOne]

\* Fault: a broadcast that has come to its end keeps the mutex.
KeepLock(s) ==
  /\ todo[s] = {} /\ HubGoes(s, "loop", "end")
  /\ logMu' = (IF logMu = s THEN NoOne ELSE logMu)
  /\ status' = [status EXCEPT ![s] = NoOne]
  /\ UNCHANGED <<conn, unread, shown, proxyRunning, logClients, clientsMu, todo,
                 target, crossed>>

Unlock(s) ==
  /\ todo[s] = {} /\ Releases(s)
  /\ UNCHANGED <<conn, unread, shown, proxyRunning, logClients, todo, target, crossed>>

\* The other outcome of Spoilt: the broadcast panics, in a handler.
Breaks(s, c) ==
  /\ target[s] = c /\ Greeting(c) /\ Releases(s)
  /\ todo' = [todo EXCEPT ![s] = {}] /\ target' = [target EXCEPT ![s] = NoOne]
  /\ crossed' = TRUE
  /\ UNCHANGED <<conn, unread, shown, proxyRunning, logClients>>

-----------------------------------------------------------------------------
\* What ends the program: a write to a nil connection, by a broadcast or by its
\* handler, whose panic net/http recovers and logs, and that broadcast panics
\* too; a panic of gorilla in a goroutine of the proxy.
HubPanic ==
  \E c \in logClients :
    \/ conn[c] = "nil" /\ hubPc[c] = "hello"
    \/ conn[c] = "nil" /\ \E s \in Senders : hubPc[s] = "loop" /\ c \in todo[s]
    \/ Greeting(c) /\ WrittenTo(c)

Handler(c) ==
  \/ Register(c) \/ ReadStatus(c) \/ Greet(c) \/ Greeted(c) \/ Spoilt(c)
  \/ ReadFails(c) \/ Leave(c)

Broadcast(s) ==
  \/ Lock(s) \/ Choose(s) \/ Unlock(s)
  \/ \E c \in Clients : Write(s, c) \/ WriteFails(s, c) \/ Breaks(s, c)

HubNext ==
  \/ \E c \in Clients : Upgrade(c) \/ Handler(c) \/ PageReads(c) \/ PageLeaves(c)
  \/ \E l \in Loggers : Log(l) \/ LockLog(l)
  \/ \E f \in Flips : AskStatus(f) \/ \E running \in BOOLEAN : Flip(f, running)
  \/ \E s \in Senders : Broadcast(s)

HubRestart ==
  /\ hubPc' = [p \in Clients \cup Senders |->
                 IF hubPc[p] = "idle" THEN "idle" ELSE "end"]
  /\ conn' = [c \in Clients |-> IF hubPc[c] = "idle" THEN conn[c] ELSE "closed"]
  /\ unread' = [c \in Clients |-> 0]
  /\ proxyRunning' = FALSE /\ logClients' = {}
  /\ clientsMu' = NoOne /\ logMu' = NoOne
  /\ todo' = [s \in Senders |-> {}] /\ target' = [s \in Senders |-> NoOne]
  /\ shown' = [c \in Clients |-> NoOne]
  /\ status' = [p \in Clients \cup Senders |-> NoOne]
  /\ crossed' = FALSE

HubFairness ==
  /\ \A c \in Clients : WF_hubVars(Handler(c))
  /\ \A l \in Loggers : WF_hubVars(LockLog(l) \/ Broadcast(l))
  /\ \A f \in Flips : WF_hubVars(AskStatus(f) \/ Broadcast(f))

-----------------------------------------------------------------------------
(* When no status is on its way, every client that is connected shows         *)
(* whether the proxy runs, unless an older status was still on its way when   *)
(* the proxy last changed, or a broadcast met a client's first message: what  *)
(* registers, reads the status, broadcasts and drops clients in any order     *)
(* must leave nobody out (gui/server.go:836-873).                            *)
StatusShown ==
  ~crossed /\ ~Pending /\ (\A f \in Flips : hubPc[f] # "ask") =>
    \A c \in Clients : hubPc[c] = "reading" /\ conn[c] = "open" =>
                         shown[c] = proxyRunning

(* If every client goes on reading or goes away, every log line and every     *)
(* status update comes back to its caller: nobody is left holding clientsMu   *)
(* or waiting for it (gui/server.go:855-865).                               *)
Reads(c) == conn[c] # "open" \/ unread[c] < Buffer

LoggersReturn ==
  (\A c \in Clients : []<>Reads(c)) =>
    \A s \in Senders : hubPc[s] # "idle" ~> hubPc[s] = "end"

=============================================================================
