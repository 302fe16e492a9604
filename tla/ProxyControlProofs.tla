-------------------------- MODULE ProxyControlProofs --------------------------
(***************************************************************************)
(* Proofs about turning the proxy on and off, for any requests and ports.   *)
(* However requests overlap, an accept loop never spins (NoSpin), an open   *)
(* listener has a goroutine to serve or to close it (Tended), and a closed   *)
(* one stays closed (ClosedForGood).  If each request waits for quiet, the   *)
(* status is true, what listens can be stopped, and nothing panics: at most  *)
(* one request or goroutine is busy (OneBusy), so each step finds the        *)
(* globals as the one before left them (Phases), what listens is the server  *)
(* that proxyServer names (Opened), and the whole is a Switch (Refinement).  *)
(***************************************************************************)
EXTENDS ProxyControl, TLAPS

\* A goroutine has a server from its first step on, a listener only after
\* that, and the goroutine that waits to close it later still.
Fresh ==
  \A g \in Starts :
    /\ pc[g] \in {"idle", "create", "mark"} => loop[g] = "none"
    /\ loop[g] \in {"none", "spawned"} <=> on[g] = None
    /\ loop[g] \in {"none", "spawned", "bind", "failed"} => lst[g] = "none"
    /\ closer[g] # "none" => loop[g] \in {"accepting", "returned"}

\* s.listener is a listener that a goroutine opened for s.
Own ==
  \A s \in Servers : listener[s] # None =>
    on[listener[s]] = s /\ closer[listener[s]] # "none"

Targets == \A c \in Stops : pc[c] = "shut" => target[c] # None

IInv ==
  /\ TypeOK
  /\ Fresh
  /\ Own
  /\ Targets
  /\ NeverSpins

-----------------------------------------------------------------------------
(* Whatever requests overlap.                                               *)

LEMMA InitIInv == Init => IInv
  BY ControlAssumption, ZenonT(60)
  DEF Init, IInv, TypeOK, Fresh, Own, Targets, NeverSpins, Calls, Servers

LEMMA StartKeeps ==
  ASSUME IInv, ~crashed, NEW c \in Starts, Start(c), UNCHANGED crashed
  PROVE  IInv'
<1> USE ControlAssumption
    DEF IInv, TypeOK, Start, Come, globals, goVars, Servers, Calls
<1>1. TypeOK'
  OBVIOUS
<1>2. Fresh'
  BY DEF Fresh
<1>3. Own' /\ Targets'
  BY DEF Fresh, Own, Targets
<1>4. NeverSpins'
  BY DEF Fresh, Own, Targets, NeverSpins
<1> QED  BY <1>1, <1>2, <1>3, <1>4

LEMMA CreateKeeps ==
  ASSUME IInv, ~crashed, NEW c \in Starts, Create(c), UNCHANGED crashed
  PROVE  IInv'
<1> USE ControlAssumption
    DEF IInv, TypeOK, Create, globals, goVars, Servers, Calls
<1>1. TypeOK'
  OBVIOUS
<1>2. Fresh'
  BY DEF Fresh
<1>3. Own' /\ Targets'
  BY DEF Fresh, Own, Targets
<1>4. NeverSpins'
  BY DEF Fresh, Own, Targets, NeverSpins
<1> QED  BY <1>1, <1>2, <1>3, <1>4

LEMMA MarkKeeps ==
  ASSUME IInv, ~crashed, NEW c \in Starts, Mark(c), UNCHANGED crashed
  PROVE  IInv'
<1> USE ControlAssumption
    DEF IInv, TypeOK, Mark, globals, goVars, Servers, Calls
<1>1. TypeOK'
  OBVIOUS
<1>2. Fresh'
  BY DEF Fresh
<1>3. Own' /\ Targets'
  BY DEF Fresh, Own, Targets
<1>4. NeverSpins'
  BY DEF Fresh, Own, Targets, NeverSpins
<1> QED  BY <1>1, <1>2, <1>3, <1>4

LEMMA StopKeeps ==
  ASSUME IInv, ~crashed, NEW c \in Stops, Stop(c), UNCHANGED crashed
  PROVE  IInv'
<1> USE ControlAssumption
    DEF IInv, TypeOK, Stop, Come, globals, goVars, Servers, Calls
<1>1. TypeOK'
  OBVIOUS
<1>2. Fresh'
  BY DEF Fresh
<1>3. Own' /\ Targets'
  BY DEF Fresh, Own, Targets
<1>4. NeverSpins'
  BY DEF Fresh, Own, Targets, NeverSpins
<1> QED  BY <1>1, <1>2, <1>3, <1>4

LEMMA CloseStopChKeeps ==
  ASSUME IInv, ~crashed, NEW c \in Stops, CloseStopCh(c), UNCHANGED crashed
  PROVE  IInv'
<1> USE ControlAssumption
    DEF IInv, TypeOK, CloseStopCh, globals, goVars, Servers, Calls
<1>1. TypeOK'
  OBVIOUS
<1>2. Fresh'
  BY DEF Fresh
<1>3. Own' /\ Targets'
  BY DEF Fresh, Own, Targets
<1>4. NeverSpins'
  BY DEF Fresh, Own, Targets, NeverSpins
<1> QED  BY <1>1, <1>2, <1>3, <1>4

LEMMA CloseListenerKeeps ==
  ASSUME IInv, ~crashed, NEW c \in Stops, CloseListener(c), UNCHANGED crashed
  PROVE  IInv'
<1> USE ControlAssumption
    DEF IInv, TypeOK, CloseListener, globals, goVars, Servers, Calls
<1>1. TypeOK'
  OBVIOUS
<1>2. Fresh'
  BY DEF Fresh, Own, Targets
<1>3. Own' /\ Targets'
  BY DEF Fresh, Own, Targets
<1>4. NeverSpins'
  BY DEF Fresh, Own, Targets, NeverSpins
<1> QED  BY <1>1, <1>2, <1>3, <1>4

LEMMA UnmarkKeeps ==
  ASSUME IInv, ~crashed, NEW c \in Stops, Unmark(c), UNCHANGED crashed
  PROVE  IInv'
<1> USE ControlAssumption
    DEF IInv, TypeOK, Unmark, globals, goVars, Servers, Calls
<1>1. TypeOK'
  OBVIOUS
<1>2. Fresh'
  BY DEF Fresh
<1>3. Own' /\ Targets'
  BY DEF Fresh, Own, Targets
<1>4. NeverSpins'
  BY DEF Fresh, Own, Targets, NeverSpins
<1> QED  BY <1>1, <1>2, <1>3, <1>4

LEMMA ConnectKeeps ==
  ASSUME IInv, ~crashed, NEW c \in Connects, Connect(c), UNCHANGED crashed
  PROVE  IInv'
<1> USE ControlAssumption
    DEF IInv, TypeOK, Connect, Come, globals, goVars, Servers, Calls
<1>1. TypeOK'
  OBVIOUS
<1>2. Fresh'
  BY DEF Fresh
<1>3. Own' /\ Targets'
  BY DEF Fresh, Own, Targets
<1>4. NeverSpins'
  BY DEF Fresh, Own, Targets, NeverSpins
<1> QED  BY <1>1, <1>2, <1>3, <1>4

LEMMA MakeKeeps ==
  ASSUME IInv, ~crashed, NEW c \in Connects, Make(c), UNCHANGED crashed
  PROVE  IInv'
<1> USE ControlAssumption
    DEF IInv, TypeOK, Make, globals, goVars, Servers, Calls
<1>1. TypeOK'
  OBVIOUS
<1>2. Fresh'
  BY DEF Fresh
<1>3. Own' /\ Targets'
  BY DEF Fresh, Own, Targets
<1>4. NeverSpins'
  BY DEF Fresh, Own, Targets, NeverSpins
<1> QED  BY <1>1, <1>2, <1>3, <1>4

LEMMA EnterKeeps ==
  ASSUME IInv, ~crashed, NEW g \in Starts, Enter(g)
  PROVE  IInv'
<1> USE ControlAssumption
    DEF IInv, TypeOK, Enter, globals, goVars, Servers, Calls
<1>1. TypeOK'
  <2>1. CASE proxyServer = None
    BY <2>1
  <2>2. CASE proxyServer # None
    BY <2>2
  <2> QED  BY <2>1, <2>2
<1>2. Fresh'
  <2>1. CASE proxyServer = None
    BY <2>1 DEF Fresh
  <2>2. CASE proxyServer # None
    BY <2>2 DEF Fresh
  <2> QED  BY <2>1, <2>2
<1>3. Own' /\ Targets'
  BY DEF Fresh, Own, Targets
<1>4. NeverSpins'
  BY DEF Fresh, Own, Targets, NeverSpins
<1> QED  BY <1>1, <1>2, <1>3, <1>4

LEMMA BindKeeps ==
  ASSUME IInv, ~crashed, NEW g \in Starts, Bind(g)
  PROVE  IInv'
<1> USE ControlAssumption
    DEF IInv, TypeOK, Bind, globals, goVars, Servers, Calls
<1>1. TypeOK'
  OBVIOUS
<1>2. Fresh'
  BY DEF Fresh
<1>3. Own' /\ Targets'
  BY DEF Fresh, Own, Targets
<1>4. NeverSpins'
  BY DEF Fresh, Own, Targets, NeverSpins
<1> QED  BY <1>1, <1>2, <1>3, <1>4

LEMMA ServeKeeps ==
  ASSUME IInv, ~crashed, NEW g \in Starts, Serve(g)
  PROVE  IInv'
<1> USE ControlAssumption
    DEF IInv, TypeOK, Serve, globals, goVars, Servers, Calls
<1>1. TypeOK'
  OBVIOUS
<1>2. Fresh'
  BY DEF Fresh
<1>3. Own' /\ Targets'
  BY DEF Fresh, Own, Targets
<1>4. NeverSpins'
  BY DEF Fresh, Own, Targets, NeverSpins
<1> QED  BY <1>1, <1>2, <1>3, <1>4

LEMMA FailKeeps ==
  ASSUME IInv, ~crashed, NEW g \in Starts, Fail(g)
  PROVE  IInv'
<1> USE ControlAssumption
    DEF IInv, TypeOK, Fail, globals, goVars, Servers, Calls
<1>1. TypeOK'
  OBVIOUS
<1>2. Fresh'
  BY DEF Fresh
<1>3. Own' /\ Targets'
  BY DEF Fresh, Own, Targets
<1>4. NeverSpins'
  BY DEF Fresh, Own, Targets, NeverSpins
<1> QED  BY <1>1, <1>2, <1>3, <1>4

LEMMA ReturnKeeps ==
  ASSUME IInv, ~crashed, NEW g \in Starts, Return(g)
  PROVE  IInv'
<1> USE ControlAssumption
    DEF IInv, TypeOK, Return, globals, goVars, Servers, Calls
<1>1. TypeOK'
  OBVIOUS
<1>2. Fresh'
  BY DEF Fresh
<1>3. Own' /\ Targets'
  BY DEF Fresh, Own, Targets
<1>4. NeverSpins'
  BY DEF Fresh, Own, Targets, NeverSpins
<1> QED  BY <1>1, <1>2, <1>3, <1>4

LEMMA CloserWakesKeeps ==
  ASSUME IInv, ~crashed, NEW g \in Starts, CloserWakes(g)
  PROVE  IInv'
<1> USE ControlAssumption
    DEF IInv, TypeOK, CloserWakes, globals, goVars, Servers, Calls
<1>1. TypeOK'
  OBVIOUS
<1>2. Fresh'
  BY DEF Fresh
<1>3. Own' /\ Targets'
  BY DEF Fresh, Own, Targets
<1>4. NeverSpins'
  BY DEF Fresh, Own, Targets, NeverSpins
<1> QED  BY <1>1, <1>2, <1>3, <1>4

LEMMA StutterKeeps ==
  ASSUME IInv, UNCHANGED vars
  PROVE  IInv'
  BY DEF IInv, TypeOK, Fresh, Own, Targets, NeverSpins, vars, globals, goVars

LEMMA StepKeeps == IInv /\ [Next]_vars => IInv'
<1> SUFFICES ASSUME IInv, [Next]_vars PROVE IInv'
  OBVIOUS
<1>1. CASE Next
  <2>1. ~crashed
    BY <1>1 DEF Next
  <2>2. ASSUME NEW c \in Calls, Handle(c), UNCHANGED crashed PROVE IInv'
    BY <2>1, <2>2, CreateKeeps, MarkKeeps, CloseStopChKeeps,
     CloseListenerKeeps, UnmarkKeeps, MakeKeeps DEF Handle
  <2>3. ASSUME NEW g \in Starts, Goroutine(g) PROVE IInv'
    BY <2>1, <2>3, EnterKeeps, BindKeeps, ServeKeeps, FailKeeps, ReturnKeeps,
     CloserWakesKeeps DEF Goroutine
  <2> QED
    BY <1>1, <2>1, <2>2, <2>3, StartKeeps, StopKeeps, ConnectKeeps DEF Next
<1>2. CASE UNCHANGED vars
  BY <1>2, StutterKeeps
<1> QED  BY <1>1, <1>2

LEMMA Invariance == Spec => []IInv
<1> QED  BY InitIInv, StepKeeps, PTL DEF Spec

\* The variables of the control keep their types; a stopped server's Stop is
\* the only one a request can be in.
THEOREM TypeCorrect == Spec => []TypeOK
<1>1. IInv => TypeOK  BY DEF IInv
<1> QED  BY <1>1, Invariance, PTL

\* proxy/server.go:80-87: however requests overlap, an accept loop whose
\* listener is closed finds stopCh closed too, and returns.
THEOREM NoSpin == Spec => []NeverSpins
<1>1. IInv => NeverSpins  BY DEF IInv
<1> QED  BY <1>1, Invariance, PTL

-----------------------------------------------------------------------------
(* What StoppedCloses rests on, as far as it is a matter of states and steps. *)

\* proxy/server.go:71-77: whatever requests overlap, an open listener has a
\* goroutine that waits for its server's stopCh, or Start is about to spawn
\* it: there is none that a Stop, even one that came before, does not reach.
Tended ==
  \A g \in Starts :
    lst[g] = "open" => loop[g] = "bound" \/ closer[g] = "waiting"

\* proxy/server.go:66-77, 95-97: a listener that was closed is not opened
\* again, nor passed on to another server, though Stop and the goroutine that
\* waits both close it, and though a server may be started twice.
ClosedForGood ==
  [][\A g \in Starts : lst[g] = "closed" =>
        lst'[g] = "closed" /\ on'[g] = on[g]]_vars

\* What one step may do to a listener.
LEMMA ListenerSteps ==
  ASSUME IInv, Next, NEW g \in Starts
  PROVE  /\ Tended => (lst'[g] = "open" =>
                          loop'[g] = "bound" \/ closer'[g] = "waiting")
         /\ lst[g] = "closed" => lst'[g] = "closed" /\ on'[g] = on[g]
<1> USE DEF IInv, TypeOK, Fresh, Tended
<1>1. CASE UNCHANGED goVars
  BY <1>1 DEF goVars
<1>2. ASSUME NEW c \in Calls, Handle(c), ~UNCHANGED goVars
      PROVE  (c \in Starts /\ Mark(c)) \/ (c \in Stops /\ CloseListener(c))
  BY <1>2 DEF Handle, Create, CloseStopCh, Unmark, Make
<1>3. ASSUME NEW c \in Starts, Mark(c)
      PROVE  /\ lst' = lst /\ on' = on /\ closer' = closer
             /\ loop[g] = "bound" => loop'[g] = "bound"
  BY <1>3, ControlAssumption DEF Mark, Calls, Servers
<1>4. ASSUME NEW c \in Stops, CloseListener(c)
      PROVE  /\ lst'[g] \in {lst[g], "closed"}
             /\ loop' = loop /\ on' = on /\ closer' = closer
  BY <1>4 DEF CloseListener
<1>5. ASSUME NEW h \in Starts, Goroutine(h)
      PROVE  /\ Tended => (lst'[g] = "open" =>
                              loop'[g] = "bound" \/ closer'[g] = "waiting")
             /\ lst[g] = "closed" => lst'[g] = "closed" /\ on'[g] = on[g]
  <2>1. CASE Enter(h)
    BY <2>1 DEF Enter
  <2>2. CASE Bind(h)
    BY <2>2 DEF Bind
  <2>3. CASE Serve(h)
    BY <2>3 DEF Serve
  <2>4. CASE Fail(h) \/ Return(h)
    BY <2>4 DEF Fail, Return
  <2>5. CASE CloserWakes(h)
    BY <2>5 DEF CloserWakes
  <2> QED  BY <1>5, <2>1, <2>2, <2>3, <2>4, <2>5 DEF Goroutine
<1>6. \/ UNCHANGED goVars
      \/ \E c \in Starts : Mark(c)
      \/ \E c \in Stops : CloseListener(c)
      \/ \E h \in Starts : Goroutine(h)
  BY <1>2 DEF Next, Start, Stop, Connect
<1> QED  BY <1>1, <1>3, <1>4, <1>5, <1>6

\* However requests overlap, whichever server a goroutine finds.
THEOREM AllTended == Spec => []Tended
<1>1. Init => Tended
  BY DEF Init, Tended
<1>2. IInv /\ Tended /\ [Next]_vars => Tended'
  <2>1. Tended /\ UNCHANGED vars => Tended'
    BY DEF Tended, vars, goVars
  <2> QED  BY <2>1, ListenerSteps DEF Tended
<1> QED  BY <1>1, <1>2, Invariance, PTL DEF Spec

\* However requests overlap, what was closed stays so.
THEOREM StaysClosed == Spec => ClosedForGood
<1>1. IInv /\ [Next]_vars =>
        [\A g \in Starts : lst[g] = "closed" =>
            lst'[g] = "closed" /\ on'[g] = on[g]]_vars
  BY ListenerSteps
<1> QED  BY <1>1, Invariance, PTL DEF Spec, ClosedForGood

-----------------------------------------------------------------------------
(* If each request waits for quiet.                                         *)

BusyCall(c) == pc[c] \notin {"idle", "end"}
BusyLoop(g) == loop[g] \notin {"none", "accepting", "returned"}
Stopping == \E c \in Stops : pc[c] \in {"shut", "unmark"}

\* One at a time is one request, then the goroutine it leaves.
OneBusy ==
  /\ \A c, d \in Calls : BusyCall(c) /\ BusyCall(d) => c = d
  /\ \A g, h \in Starts : BusyLoop(g) /\ BusyLoop(h) => g = h
  /\ \A c \in Calls, g \in Starts : ~(BusyCall(c) /\ BusyLoop(g))

\* What listens is the server of the globals, and s.listener knows it.
Opened ==
  \A g \in Starts : lst[g] = "open" =>
    /\ proxyServer = on[g] /\ proxyRunning
    /\ loop[g] \in {"bound", "accepting"}
    /\ loop[g] = "accepting" => listener[on[g]] = g
    /\ on[g] \in stopped => \E c \in Stops : pc[c] = "shut"
    /\ \A h \in Starts : lst[h] = "open" => h = g

\* The proxy that runs listens, or is on its way to or from it.
Running ==
  proxyRunning =>
    /\ proxyServer # None
    /\ Serving \/ (\E g \in Starts : BusyLoop(g)) \/ Stopping
    /\ proxyServer \in stopped => Stopping

\* What each step of a request finds.
CallPhases ==
  \A c \in Calls :
    /\ pc[c] \in {"create", "mark"} => ~proxyRunning
    /\ pc[c] = "mark" => proxyServer = c
    /\ pc[c] \in {"idle", "create"} => proxyServer # c
    /\ pc[c] \in {"idle", "create", "mark"} => c \notin stopped
    /\ pc[c] = "make" => proxyServer = None
    /\ pc[c] \in {"close", "shut", "unmark"} => proxyRunning
    /\ pc[c] = "close" => proxyServer \notin stopped
    /\ pc[c] = "shut" => c \in Stops /\ target[c] = proxyServer
    /\ pc[c] = "unmark" => ~Serving

\* What each step of a goroutine of handleStart finds.
LoopPhases ==
  \A g \in Starts :
    /\ BusyLoop(g) => proxyRunning
    /\ loop[g] \in {"bind", "bound"} => on[g] = proxyServer
    /\ loop[g] \in {"spawned", "bind", "failed"} => ~Serving
    /\ loop[g] = "bound" => lst[g] = "open"

SInv ==
  /\ IInv
  /\ ~crashed
  /\ OneBusy
  /\ Opened
  /\ Running
  /\ CallPhases
  /\ LoopPhases

LEMMA InitSInv == Init => SInv
<1> SUFFICES ASSUME Init PROVE SInv
  OBVIOUS
<1>1. IInv
  BY InitIInv
<1> QED
  BY <1>1, ControlAssumption
  DEF Init, SInv, OneBusy, Opened, Running, CallPhases, LoopPhases, Serving,
      Stopping, BusyCall, BusyLoop, Calls, Servers

LEMMA StartSettled ==
  ASSUME SInv, OneAtATime, NEW c \in Starts, Start(c), UNCHANGED crashed
  PROVE  SInv'
<1> USE ControlAssumption, OneAtATime
    DEF SInv, IInv, TypeOK, Start, Come, globals, goVars, Servers, Calls
<1>1. IInv' /\ ~crashed'
  BY StartKeeps DEF LoopPhases, Running, BusyLoop
<1>2. OneBusy'
  BY DEF OneBusy, BusyCall, BusyLoop, Quiet
<1>3. Opened'
  BY DEF Fresh, OneBusy, Opened, Running, CallPhases, LoopPhases, Serving,
         Stopping, BusyCall, BusyLoop, Quiet
<1>4. Running'
  BY DEF Fresh, OneBusy, Opened, Running, CallPhases, LoopPhases, Serving,
         Stopping, BusyCall, BusyLoop, Quiet
<1>5. CallPhases'
  BY DEF Fresh, OneBusy, Opened, Running, CallPhases, LoopPhases, Serving,
         Stopping, BusyCall, BusyLoop, Quiet
<1>6. LoopPhases'
  BY DEF Fresh, OneBusy, Opened, Running, CallPhases, LoopPhases, Serving,
         Stopping, BusyCall, BusyLoop, Quiet
<1> QED  BY <1>1, <1>2, <1>3, <1>4, <1>5, <1>6

LEMMA CreateSettled ==
  ASSUME SInv, OneAtATime, NEW c \in Starts, Create(c), UNCHANGED crashed
  PROVE  SInv'
<1> USE ControlAssumption, OneAtATime
    DEF SInv, IInv, TypeOK, Create, globals, goVars, Servers, Calls
<1>1. IInv' /\ ~crashed'
  BY CreateKeeps DEF LoopPhases, Running, BusyLoop
<1>2. OneBusy'
  BY DEF OneBusy, BusyCall, BusyLoop
<1>3. Opened'
  BY DEF Fresh, OneBusy, Opened, Running, CallPhases, LoopPhases, Serving,
         Stopping, BusyCall, BusyLoop
<1>4. Running'
  BY DEF Fresh, OneBusy, Opened, Running, CallPhases, LoopPhases, Serving,
         Stopping, BusyCall, BusyLoop
<1>5. CallPhases'
  BY DEF Fresh, OneBusy, Opened, Running, CallPhases, LoopPhases, Serving,
         Stopping, BusyCall, BusyLoop
<1>6. LoopPhases'
  BY DEF Fresh, OneBusy, Opened, Running, CallPhases, LoopPhases, Serving,
         Stopping, BusyCall, BusyLoop
<1> QED  BY <1>1, <1>2, <1>3, <1>4, <1>5, <1>6

LEMMA MarkSettled ==
  ASSUME SInv, OneAtATime, NEW c \in Starts, Mark(c), UNCHANGED crashed
  PROVE  SInv'
<1> USE ControlAssumption, OneAtATime
    DEF SInv, IInv, TypeOK, Mark, globals, goVars, Servers, Calls
<1>1. IInv' /\ ~crashed'
  BY MarkKeeps DEF LoopPhases, Running, BusyLoop
<1>2. OneBusy'
  BY DEF OneBusy, BusyCall, BusyLoop
<1>3. Opened'
  BY DEF Fresh, OneBusy, Opened, Running, CallPhases, LoopPhases, Serving,
         Stopping, BusyCall, BusyLoop
<1>4. Running'
  BY DEF Fresh, OneBusy, Opened, Running, CallPhases, LoopPhases, Serving,
         Stopping, BusyCall, BusyLoop
<1>5. CallPhases'
  BY DEF Fresh, OneBusy, Opened, Running, CallPhases, LoopPhases, Serving,
         Stopping, BusyCall, BusyLoop
<1>6. LoopPhases'
  BY DEF Fresh, OneBusy, Opened, Running, CallPhases, LoopPhases, Serving,
         Stopping, BusyCall, BusyLoop
<1> QED  BY <1>1, <1>2, <1>3, <1>4, <1>5, <1>6

LEMMA StopSettled ==
  ASSUME SInv, OneAtATime, NEW c \in Stops, Stop(c), UNCHANGED crashed
  PROVE  SInv'
<1> USE ControlAssumption, OneAtATime
    DEF SInv, IInv, TypeOK, Stop, Come, globals, goVars, Servers, Calls
<1>1. IInv' /\ ~crashed'
  BY StopKeeps DEF LoopPhases, Running, BusyLoop
<1>2. OneBusy'
  BY DEF OneBusy, BusyCall, BusyLoop, Quiet
<1>3. Opened'
  BY DEF Fresh, OneBusy, Opened, Running, CallPhases, LoopPhases, Serving,
         Stopping, BusyCall, BusyLoop, Quiet
<1>4. Running'
  BY DEF Fresh, OneBusy, Opened, Running, CallPhases, LoopPhases, Serving,
         Stopping, BusyCall, BusyLoop, Quiet
<1>5. CallPhases'
  BY DEF Fresh, OneBusy, Opened, Running, CallPhases, LoopPhases, Serving,
         Stopping, BusyCall, BusyLoop, Quiet
<1>6. LoopPhases'
  BY DEF Fresh, OneBusy, Opened, Running, CallPhases, LoopPhases, Serving,
         Stopping, BusyCall, BusyLoop, Quiet
<1> QED  BY <1>1, <1>2, <1>3, <1>4, <1>5, <1>6

LEMMA CloseStopChSettled ==
  ASSUME SInv, OneAtATime, NEW c \in Stops, CloseStopCh(c), UNCHANGED crashed
  PROVE  SInv'
<1> USE ControlAssumption, OneAtATime
    DEF SInv, IInv, TypeOK, CloseStopCh, globals, goVars, Servers, Calls
<1>1. IInv' /\ ~crashed'
  BY CloseStopChKeeps DEF LoopPhases, Running, BusyLoop
<1>2. OneBusy'
  BY DEF OneBusy, BusyCall, BusyLoop
<1>3. Opened'
  BY DEF Fresh, OneBusy, Opened, Running, CallPhases, LoopPhases, Serving,
         Stopping, BusyCall, BusyLoop
<1>4. Running'
  BY DEF Fresh, OneBusy, Opened, Running, CallPhases, LoopPhases, Serving,
         Stopping, BusyCall, BusyLoop
<1>5. CallPhases'
  BY DEF Fresh, OneBusy, Opened, Running, CallPhases, LoopPhases, Serving,
         Stopping, BusyCall, BusyLoop
<1>6. LoopPhases'
  BY DEF Fresh, OneBusy, Opened, Running, CallPhases, LoopPhases, Serving,
         Stopping, BusyCall, BusyLoop
<1> QED  BY <1>1, <1>2, <1>3, <1>4, <1>5, <1>6

LEMMA CloseListenerSettled ==
  ASSUME SInv, OneAtATime, NEW c \in Stops, CloseListener(c), UNCHANGED crashed
  PROVE  SInv'
<1> USE ControlAssumption, OneAtATime
    DEF SInv, IInv, TypeOK, CloseListener, globals, goVars, Servers, Calls
<1>1. IInv' /\ ~crashed'
  BY CloseListenerKeeps DEF LoopPhases, Running, BusyLoop
<1>2. OneBusy'
  BY DEF OneBusy, BusyCall, BusyLoop
<1>3. Opened'
  BY DEF Fresh, OneBusy, Opened, Running, CallPhases, LoopPhases, Serving,
         Stopping, BusyCall, BusyLoop
<1>4. Running'
  BY DEF Fresh, OneBusy, Opened, Running, CallPhases, LoopPhases, Serving,
         Stopping, BusyCall, BusyLoop
<1>5. CallPhases'
  BY DEF Fresh, OneBusy, Opened, Running, CallPhases, LoopPhases, Serving,
         Stopping, BusyCall, BusyLoop
<1>6. LoopPhases'
  BY DEF Fresh, OneBusy, Opened, Running, CallPhases, LoopPhases, Serving,
         Stopping, BusyCall, BusyLoop
<1> QED  BY <1>1, <1>2, <1>3, <1>4, <1>5, <1>6

LEMMA UnmarkSettled ==
  ASSUME SInv, OneAtATime, NEW c \in Stops, Unmark(c), UNCHANGED crashed
  PROVE  SInv'
<1> USE ControlAssumption, OneAtATime
    DEF SInv, IInv, TypeOK, Unmark, globals, goVars, Servers, Calls
<1>1. IInv' /\ ~crashed'
  BY UnmarkKeeps DEF LoopPhases, Running, BusyLoop
<1>2. OneBusy'
  BY DEF OneBusy, BusyCall, BusyLoop
<1>3. Opened'
  BY DEF Fresh, OneBusy, Opened, Running, CallPhases, LoopPhases, Serving,
         Stopping, BusyCall, BusyLoop
<1>4. Running'
  BY DEF Fresh, OneBusy, Opened, Running, CallPhases, LoopPhases, Serving,
         Stopping, BusyCall, BusyLoop
<1>5. CallPhases'
  BY DEF Fresh, OneBusy, Opened, Running, CallPhases, LoopPhases, Serving,
         Stopping, BusyCall, BusyLoop
<1>6. LoopPhases'
  BY DEF Fresh, OneBusy, Opened, Running, CallPhases, LoopPhases, Serving,
         Stopping, BusyCall, BusyLoop
<1> QED  BY <1>1, <1>2, <1>3, <1>4, <1>5, <1>6

LEMMA ConnectSettled ==
  ASSUME SInv, OneAtATime, NEW c \in Connects, Connect(c), UNCHANGED crashed
  PROVE  SInv'
<1> USE ControlAssumption, OneAtATime
    DEF SInv, IInv, TypeOK, Connect, Come, globals, goVars, Servers, Calls
<1>1. IInv' /\ ~crashed'
  BY ConnectKeeps DEF LoopPhases, Running, BusyLoop
<1>2. OneBusy'
  BY DEF OneBusy, BusyCall, BusyLoop, Quiet
<1>3. Opened'
  BY DEF Fresh, OneBusy, Opened, Running, CallPhases, LoopPhases, Serving,
         Stopping, BusyCall, BusyLoop, Quiet
<1>4. Running'
  BY DEF Fresh, OneBusy, Opened, Running, CallPhases, LoopPhases, Serving,
         Stopping, BusyCall, BusyLoop, Quiet
<1>5. CallPhases'
  BY DEF Fresh, OneBusy, Opened, Running, CallPhases, LoopPhases, Serving,
         Stopping, BusyCall, BusyLoop, Quiet
<1>6. LoopPhases'
  BY DEF Fresh, OneBusy, Opened, Running, CallPhases, LoopPhases, Serving,
         Stopping, BusyCall, BusyLoop, Quiet
<1> QED  BY <1>1, <1>2, <1>3, <1>4, <1>5, <1>6

LEMMA MakeSettled ==
  ASSUME SInv, OneAtATime, NEW c \in Connects, Make(c), UNCHANGED crashed
  PROVE  SInv'
<1> USE ControlAssumption, OneAtATime
    DEF SInv, IInv, TypeOK, Make, globals, goVars, Servers, Calls
<1>1. IInv' /\ ~crashed'
  BY MakeKeeps DEF LoopPhases, Running, BusyLoop
<1>2. OneBusy'
  BY DEF OneBusy, BusyCall, BusyLoop
<1>3. Opened'
  BY DEF Fresh, OneBusy, Opened, Running, CallPhases, LoopPhases, Serving,
         Stopping, BusyCall, BusyLoop
<1>4. Running'
  BY DEF Fresh, OneBusy, Opened, Running, CallPhases, LoopPhases, Serving,
         Stopping, BusyCall, BusyLoop
<1>5. CallPhases'
  BY DEF Fresh, OneBusy, Opened, Running, CallPhases, LoopPhases, Serving,
         Stopping, BusyCall, BusyLoop
<1>6. LoopPhases'
  BY DEF Fresh, OneBusy, Opened, Running, CallPhases, LoopPhases, Serving,
         Stopping, BusyCall, BusyLoop
<1> QED  BY <1>1, <1>2, <1>3, <1>4, <1>5, <1>6

LEMMA EnterSettled ==
  ASSUME SInv, OneAtATime, NEW g \in Starts, Enter(g)
  PROVE  SInv'
<1> USE ControlAssumption, OneAtATime
    DEF SInv, IInv, TypeOK, Enter, globals, goVars, Servers, Calls
<1>1. IInv' /\ ~crashed'
  BY EnterKeeps DEF LoopPhases, Running, BusyLoop
<1>2. OneBusy'
  BY DEF OneBusy, BusyCall, BusyLoop
<1>3. Opened'
  BY DEF Fresh, OneBusy, Opened, Running, CallPhases, LoopPhases, Serving,
         Stopping, BusyCall, BusyLoop
<1>4. Running'
  BY DEF Fresh, OneBusy, Opened, Running, CallPhases, LoopPhases, Serving,
         Stopping, BusyCall, BusyLoop
<1>5. CallPhases'
  BY DEF Fresh, OneBusy, Opened, Running, CallPhases, LoopPhases, Serving,
         Stopping, BusyCall, BusyLoop
<1>6. LoopPhases'
  BY DEF Fresh, OneBusy, Opened, Running, CallPhases, LoopPhases, Serving,
         Stopping, BusyCall, BusyLoop
<1> QED  BY <1>1, <1>2, <1>3, <1>4, <1>5, <1>6

LEMMA BindSettled ==
  ASSUME SInv, OneAtATime, NEW g \in Starts, Bind(g)
  PROVE  SInv'
<1> USE ControlAssumption, OneAtATime
    DEF SInv, IInv, TypeOK, Bind, globals, goVars, Servers, Calls
<1>1. IInv' /\ ~crashed'
  BY BindKeeps DEF LoopPhases, Running, BusyLoop
<1>2. OneBusy'
  BY DEF OneBusy, BusyCall, BusyLoop
<1>3. Opened'
  BY DEF Fresh, OneBusy, Opened, Running, CallPhases, LoopPhases, Serving,
         Stopping, BusyCall, BusyLoop
<1>4. Running'
  BY DEF Fresh, OneBusy, Opened, Running, CallPhases, LoopPhases, Serving,
         Stopping, BusyCall, BusyLoop
<1>5. CallPhases'
  BY DEF Fresh, OneBusy, Opened, Running, CallPhases, LoopPhases, Serving,
         Stopping, BusyCall, BusyLoop
<1>6. LoopPhases'
  BY DEF Fresh, OneBusy, Opened, Running, CallPhases, LoopPhases, Serving,
         Stopping, BusyCall, BusyLoop
<1> QED  BY <1>1, <1>2, <1>3, <1>4, <1>5, <1>6

LEMMA ServeSettled ==
  ASSUME SInv, OneAtATime, NEW g \in Starts, Serve(g)
  PROVE  SInv'
<1> USE ControlAssumption, OneAtATime
    DEF SInv, IInv, TypeOK, Serve, globals, goVars, Servers, Calls
<1>1. IInv' /\ ~crashed'
  BY ServeKeeps DEF LoopPhases, Running, BusyLoop
<1>2. OneBusy'
  BY DEF OneBusy, BusyCall, BusyLoop
<1>3. Opened'
  BY DEF Fresh, OneBusy, Opened, Running, CallPhases, LoopPhases, Serving,
         Stopping, BusyCall, BusyLoop
<1>4. Running'
  BY DEF Fresh, OneBusy, Opened, Running, CallPhases, LoopPhases, Serving,
         Stopping, BusyCall, BusyLoop
<1>5. CallPhases'
  BY DEF Fresh, OneBusy, Opened, Running, CallPhases, LoopPhases, Serving,
         Stopping, BusyCall, BusyLoop
<1>6. LoopPhases'
  BY DEF Fresh, OneBusy, Opened, Running, CallPhases, LoopPhases, Serving,
         Stopping, BusyCall, BusyLoop
<1> QED  BY <1>1, <1>2, <1>3, <1>4, <1>5, <1>6

LEMMA FailSettled ==
  ASSUME SInv, OneAtATime, NEW g \in Starts, Fail(g)
  PROVE  SInv'
<1> USE ControlAssumption, OneAtATime
    DEF SInv, IInv, TypeOK, Fail, globals, goVars, Servers, Calls
<1>1. IInv' /\ ~crashed'
  BY FailKeeps DEF LoopPhases, Running, BusyLoop
<1>2. OneBusy'
  BY DEF OneBusy, BusyCall, BusyLoop
<1>3. Opened'
  BY DEF Fresh, OneBusy, Opened, Running, CallPhases, LoopPhases, Serving,
         Stopping, BusyCall, BusyLoop
<1>4. Running'
  BY DEF Fresh, OneBusy, Opened, Running, CallPhases, LoopPhases, Serving,
         Stopping, BusyCall, BusyLoop
<1>5. CallPhases'
  BY DEF Fresh, OneBusy, Opened, Running, CallPhases, LoopPhases, Serving,
         Stopping, BusyCall, BusyLoop
<1>6. LoopPhases'
  BY DEF Fresh, OneBusy, Opened, Running, CallPhases, LoopPhases, Serving,
         Stopping, BusyCall, BusyLoop
<1> QED  BY <1>1, <1>2, <1>3, <1>4, <1>5, <1>6

LEMMA ReturnSettled ==
  ASSUME SInv, OneAtATime, NEW g \in Starts, Return(g)
  PROVE  SInv'
<1> USE ControlAssumption, OneAtATime
    DEF SInv, IInv, TypeOK, Return, globals, goVars, Servers, Calls
<1>1. IInv' /\ ~crashed'
  BY ReturnKeeps DEF LoopPhases, Running, BusyLoop
<1>2. OneBusy'
  BY DEF OneBusy, BusyCall, BusyLoop
<1>3. Opened'
  BY DEF Fresh, OneBusy, Opened, Running, CallPhases, LoopPhases, Serving,
         Stopping, BusyCall, BusyLoop
<1>4. Running'
  BY DEF Fresh, OneBusy, Opened, Running, CallPhases, LoopPhases, Serving,
         Stopping, BusyCall, BusyLoop
<1>5. CallPhases'
  BY DEF Fresh, OneBusy, Opened, Running, CallPhases, LoopPhases, Serving,
         Stopping, BusyCall, BusyLoop
<1>6. LoopPhases'
  BY DEF Fresh, OneBusy, Opened, Running, CallPhases, LoopPhases, Serving,
         Stopping, BusyCall, BusyLoop
<1> QED  BY <1>1, <1>2, <1>3, <1>4, <1>5, <1>6

LEMMA CloserWakesSettled ==
  ASSUME SInv, OneAtATime, NEW g \in Starts, CloserWakes(g)
  PROVE  SInv'
<1> USE ControlAssumption, OneAtATime
    DEF SInv, IInv, TypeOK, CloserWakes, globals, goVars, Servers, Calls
<1>1. IInv' /\ ~crashed'
  BY CloserWakesKeeps DEF LoopPhases, Running, BusyLoop
<1>2. OneBusy'
  BY DEF OneBusy, BusyCall, BusyLoop
<1>3. Opened'
  BY DEF Fresh, OneBusy, Opened, Running, CallPhases, LoopPhases, Serving,
         Stopping, BusyCall, BusyLoop
<1>4. Running'
  BY DEF Fresh, OneBusy, Opened, Running, CallPhases, LoopPhases, Serving,
         Stopping, BusyCall, BusyLoop
<1>5. CallPhases'
  BY DEF Fresh, OneBusy, Opened, Running, CallPhases, LoopPhases, Serving,
         Stopping, BusyCall, BusyLoop
<1>6. LoopPhases'
  BY DEF Fresh, OneBusy, Opened, Running, CallPhases, LoopPhases, Serving,
         Stopping, BusyCall, BusyLoop
<1> QED  BY <1>1, <1>2, <1>3, <1>4, <1>5, <1>6

LEMMA StutterSettled ==
  ASSUME SInv, UNCHANGED vars
  PROVE  SInv'
<1>1. IInv'
  BY StutterKeeps DEF SInv
<1> QED
  BY <1>1 DEF SInv, OneBusy, Opened, Running, CallPhases, LoopPhases, Serving,
              Stopping, BusyCall, BusyLoop, vars, globals, goVars

LEMMA StepSettled ==
  ASSUME OneAtATime
  PROVE  SInv /\ [Next]_vars => SInv'
<1> SUFFICES ASSUME SInv, [Next]_vars PROVE SInv'
  OBVIOUS
<1>1. CASE Next
  <2>1. ASSUME NEW c \in Calls, Handle(c), UNCHANGED crashed PROVE SInv'
    BY <2>1, CreateSettled, MarkSettled, CloseStopChSettled,
     CloseListenerSettled, UnmarkSettled, MakeSettled DEF Handle
  <2>2. ASSUME NEW g \in Starts, Goroutine(g) PROVE SInv'
    BY <2>2, EnterSettled, BindSettled, ServeSettled, FailSettled,
     ReturnSettled, CloserWakesSettled DEF Goroutine
  <2> QED
    BY <1>1, <2>1, <2>2, StartSettled, StopSettled, ConnectSettled DEF Next
<1>2. CASE UNCHANGED vars
  BY <1>2, StutterSettled
<1> QED  BY <1>1, <1>2

LEMMA SettledInvariance ==
  ASSUME OneAtATime
  PROVE  Spec => []SInv
<1>1. SInv /\ [Next]_vars => SInv'
  BY StepSettled
<1> QED  BY <1>1, InitSInv, PTL DEF Spec

\* gui/server.go:627-631, 641-642: with requests that wait for quiet, what the
\* panel is told when all is quiet is so.
THEOREM StatusIsTrue ==
  ASSUME OneAtATime
  PROVE  Spec => []StatusTrue
<1>1. SInv => StatusTrue
  BY DEF SInv, StatusTrue, Quiet, Opened, Running, Serving, Stopping, BusyLoop,
         Calls
<1>2. Spec => []SInv
  BY SettledInvariance
<1> QED  BY <1>1, <1>2, PTL

\* gui/server.go:646, 738: NotRunningSaidTruly is not so when requests overlap,
\* and for that cause only: if each waits for quiet, "not running" is true.
THEOREM NotRunningIsTrue ==
  ASSUME OneAtATime
  PROVE  Spec => []NotRunningSaidTruly
<1>1. StatusTrue => NotRunningSaidTruly
  BY DEF StatusTrue, NotRunningSaidTruly
<1> QED  BY <1>1, StatusIsTrue, PTL

\* gui/server.go:640: with requests that wait for quiet, handleStop reaches
\* whatever listens.
THEOREM AlwaysStoppable ==
  ASSUME OneAtATime
  PROVE  Spec => []Stoppable
<1>1. SInv => Stoppable
  BY DEF SInv, Stoppable, Quiet, Opened, Calls
<1>2. Spec => []SInv
  BY SettledInvariance
<1> QED  BY <1>1, <1>2, PTL

\* gui/server.go:629, proxy/server.go:94: with requests that wait for quiet,
\* neither the process nor a request panics.
THEOREM NeverPanics ==
  ASSUME OneAtATime
  PROVE  Spec => []NoPanic
<1>1. SInv => NoPanic
  BY DEF SInv, NoPanic, Running, CallPhases, Calls
<1>2. Spec => []SInv
  BY SettledInvariance
<1> QED  BY <1>1, <1>2, PTL

-----------------------------------------------------------------------------
(* With requests that wait for quiet the proxy is a Switch.                 *)

\* A goroutine that has come to Accept had a listener.
Listened == \A g \in Starts : closer[g] # "none" => lst[g] # "none"

LEMMA ListenedKept ==
  ASSUME SInv, Listened, [Next]_vars
  PROVE  Listened'
<1> USE DEF Listened, SInv, IInv, TypeOK, globals, goVars
<1>1. CASE UNCHANGED <<lst, closer>>
  BY <1>1
<1>2. ASSUME NEW c \in Stops, CloseListener(c) PROVE Listened'
  BY <1>2 DEF CloseListener
<1>3. ASSUME NEW g \in Starts, Enter(g) PROVE Listened'
  BY <1>3 DEF Enter
<1>4. ASSUME NEW g \in Starts, Bind(g) PROVE Listened'
  BY <1>4 DEF Bind
<1>5. ASSUME NEW g \in Starts, Serve(g) PROVE Listened'
  BY <1>5 DEF Serve, LoopPhases
<1>6. ASSUME NEW g \in Starts, Fail(g) \/ Return(g) PROVE Listened'
  BY <1>6 DEF Fail, Return
<1>7. ASSUME NEW g \in Starts, CloserWakes(g) PROVE Listened'
  BY <1>7 DEF CloserWakes
<1>8. ASSUME NEW c \in Calls, Handle(c) PROVE Listened'
  BY <1>1, <1>2, <1>8
  DEF Handle, Create, Mark, CloseStopCh, Unmark, Make
<1> QED
  BY <1>1, <1>3, <1>4, <1>5, <1>6, <1>7, <1>8
  DEF Next, Goroutine, Start, Stop, Connect, vars

RInv == SInv /\ Listened

LEMMA RInvariance ==
  ASSUME OneAtATime
  PROVE  Spec => []RInv
<1>1. Init => RInv
  BY InitSInv DEF Init, RInv, Listened
<1>2. RInv /\ [Next]_vars => RInv'
  BY StepSettled, ListenedKept DEF RInv
<1> QED  BY <1>1, <1>2, PTL DEF Spec

LEMMA InitSwitches == Init => Switched!Init
<1> SUFFICES ASSUME Init PROVE Switched!Init
  OBVIOUS
<1>1. /\ \A g \in Starts : loop[g] = "none" /\ lst[g] = "none"
      /\ \A c \in Stops : pc[c] = "idle"
      /\ proxyRunning = FALSE
  BY DEF Init, Calls
<1>2. With("open") = {} /\ With("closed") = {}
  BY <1>1 DEF With
<1>3. Turning = "none"
  BY <1>1 DEF Turning
<1> QED  BY <1>1, <1>2, <1>3 DEF Switched!Init

switchVars == <<proxyRunning, With("open"), With("closed"), Turning>>

\* Steps that no user sees.
LEMMA HandlersHide ==
  ASSUME RInv, NEW c \in Calls,
         \/ c \in Starts /\ (Start(c) \/ Create(c))
         \/ c \in Stops /\ Stop(c)
         \/ c \in Connects /\ (Connect(c) \/ Make(c))
  PROVE  UNCHANGED switchVars
<1>1. /\ UNCHANGED <<proxyRunning, loop, on, lst>>
      /\ \A d \in Stops : pc'[d] \in {"shut", "unmark"} <=>
                            pc[d] \in {"shut", "unmark"}
  BY ControlAssumption
  DEF Start, Create, Stop, Connect, Make, Come, globals, goVars, RInv, SInv,
      IInv, TypeOK, Calls, Servers
<1>2. Turning' = Turning
  BY <1>1 DEF Turning, Serving
<1>3. With("open")' = With("open") /\ With("closed")' = With("closed")
  BY <1>1 DEF With
<1> QED  BY <1>1, <1>2, <1>3 DEF switchVars

LEMMA CloseStopChHides ==
  ASSUME RInv, NEW c \in Stops, CloseStopCh(c)
  PROVE  UNCHANGED switchVars
<1>1. pc[c] = "close" /\ UNCHANGED <<proxyRunning, loop, on, lst>>
  BY DEF CloseStopCh, globals, goVars
<1>2. Serving
  <2>1. proxyRunning
    BY <1>1 DEF RInv, SInv, CallPhases, Calls
  <2>2. ~Stopping /\ \A g \in Starts : ~BusyLoop(g)
    BY <1>1 DEF RInv, SInv, OneBusy, BusyCall, Stopping, Calls
  <2> QED  BY <2>1, <2>2 DEF RInv, SInv, Running
<1>3. Turning' = Turning
  BY <1>1, <1>2 DEF Turning, Serving
<1>4. With("open")' = With("open") /\ With("closed")' = With("closed")
  BY <1>1 DEF With
<1> QED  BY <1>1, <1>3, <1>4 DEF switchVars

LEMMA LoopsHide ==
  ASSUME RInv, NEW g \in Starts, Enter(g) \/ Serve(g) \/ Return(g)
  PROVE  UNCHANGED switchVars
<1> USE DEF RInv, SInv, IInv, TypeOK
<1>1. /\ UNCHANGED <<proxyRunning, lst, pc>>
      /\ \A h \in Starts : lst[h] # "none" => on'[h] = on[h]
      /\ \A h \in Starts : loop'[h] \in {"spawned", "bind", "failed"} <=>
                             loop[h] \in {"spawned", "bind", "failed"}
  <2>1. CASE Enter(g)
    <3>1. proxyServer # None /\ loop[g] = "spawned" /\ lst[g] = "none"
      BY <2>1 DEF Enter, LoopPhases, BusyLoop, Running, Fresh
    <3> QED  BY <2>1, <3>1 DEF Enter, globals
  <2>2. CASE Serve(g) \/ Return(g)
    BY <2>2 DEF Serve, Return, globals
  <2> QED  BY <2>1, <2>2
<1>2. Turning' = Turning
  BY <1>1 DEF Turning, Serving
<1>3. With("open")' = With("open") /\ With("closed")' = With("closed")
  BY <1>1 DEF With
<1> QED  BY <1>1, <1>2, <1>3 DEF switchVars

LEMMA MarkTurnsOn ==
  ASSUME RInv, NEW c \in Starts, Mark(c)
  PROVE  Switched!TurnOn
<1> USE DEF RInv, SInv, IInv, TypeOK
<1>1. /\ pc[c] = "mark" /\ proxyRunning' = TRUE
      /\ loop' = [loop EXCEPT ![c] = "spawned"]
      /\ UNCHANGED <<on, lst>>
  BY DEF Mark
<1>2. ~proxyRunning /\ ~Serving
  BY <1>1 DEF CallPhases, Opened, Serving, Calls, Servers
<1>3. With("open") = {} /\ UNCHANGED <<With("open"), With("closed")>>
  BY <1>1, <1>2 DEF With, Serving
<1>4. \A g \in Starts : ~BusyLoop(g)
  BY <1>1 DEF OneBusy, BusyCall, Calls, Servers
<1>5. \A d \in Stops : pc[d] \notin {"shut", "unmark"}
  BY <1>1, ControlAssumption DEF OneBusy, BusyCall, Calls, Servers
<1>6. Turning = "none" /\ Turning' = "on"
  <2>1. Turning = "none"
    BY <1>4, <1>5 DEF Turning, BusyLoop
  <2>2. loop'[c] = "spawned"
    BY <1>1
  <2> QED  BY <2>1, <2>2 DEF Turning
<1> QED  BY <1>1, <1>2, <1>3, <1>6 DEF Switched!TurnOn

\* Nothing else is open, so that with its listener goes all that serves.
LEMMA ClosingTurnsOff ==
  ASSUME RInv, NEW g \in Starts, lst[g] = "open",
         loop[g] = "accepting",
         lst' = [lst EXCEPT ![g] = "closed"], UNCHANGED <<loop, on, proxyRunning>>,
         \E c \in Stops : pc'[c] \in {"shut", "unmark"}
  PROVE  Switched!TurnOff(on[g])
<1> USE DEF RInv, SInv, IInv, TypeOK
<1>1. proxyRunning /\ \A h \in Starts : lst[h] = "open" => h = g
  BY DEF Opened
<1>2. With("open") = {on[g]} /\ With("open")' = {}
  BY <1>1 DEF With
<1>3. With("closed")' = With("closed") \cup {on[g]}
  BY DEF With
<1>4. \A h \in Starts : loop[h] \notin {"spawned", "bind", "failed"}
  BY DEF LoopPhases, Serving
<1>5. Turning = "none"
  BY <1>4 DEF Turning, Serving
<1>6. Turning' = "off"
  <2>1. ~Serving'
    BY <1>1 DEF Serving
  <2> QED  BY <2>1, <1>4 DEF Turning
<1> QED  BY <1>1, <1>2, <1>3, <1>5, <1>6 DEF Switched!TurnOff

\* To close a listener that is closed is nothing.
LEMMA ClosedAgain ==
  ASSUME RInv, NEW g \in Starts, lst[g] = "closed",
         lst' = [lst EXCEPT ![g] = "closed"], UNCHANGED <<loop, on, proxyRunning>>,
         \A c \in Stops : pc'[c] \in {"shut", "unmark"} <=>
                            pc[c] \in {"shut", "unmark"}
  PROVE  UNCHANGED switchVars
<1>1. lst' = lst
  BY DEF RInv, SInv, IInv, TypeOK
<1>2. Turning' = Turning
  BY <1>1 DEF Turning, Serving
<1>3. With("open")' = With("open") /\ With("closed")' = With("closed")
  BY <1>1 DEF With
<1> QED  BY <1>2, <1>3 DEF switchVars

LEMMA CloseListenerSwitches ==
  ASSUME RInv, NEW c \in Stops, CloseListener(c)
  PROVE  Switched!TurnOff(target[c]) \/ UNCHANGED switchVars
<1> USE DEF RInv, SInv, IInv, TypeOK
<1> DEFINE g == listener[target[c]]
<1>1. /\ pc[c] = "shut" /\ pc' = [pc EXCEPT ![c] = "unmark"]
      /\ lst' = IF g = None THEN lst ELSE [lst EXCEPT ![g] = "closed"]
      /\ UNCHANGED <<loop, on, proxyRunning>>
  BY DEF CloseListener, globals
<1>2. /\ target[c] = proxyServer /\ target[c] \in Servers
  BY <1>1 DEF CallPhases, Calls, Targets
<1>3. \A d \in Stops : pc'[d] \in {"shut", "unmark"} <=>
                         pc[d] \in {"shut", "unmark"}
  BY <1>1 DEF Calls
<1>4. g \in Starts \cup {None}
  BY <1>2
<1>5. \A h \in Starts : lst[h] = "open" => g = h /\ loop[h] = "accepting"
  BY <1>1, <1>2 DEF Opened, OneBusy, BusyCall, BusyLoop, Calls
<1>6. CASE g = None
  <2>1. lst' = lst
    BY <1>1, <1>6
  <2>2. Turning' = Turning
    BY <1>1, <1>3, <2>1 DEF Turning, Serving
  <2>3. With("open")' = With("open") /\ With("closed")' = With("closed")
    BY <1>1, <2>1 DEF With
  <2> QED  BY <1>1, <2>2, <2>3 DEF switchVars
<1>7. CASE g \in Starts
  <2>1. g # None
    BY <1>7, ControlAssumption DEF Calls, Servers
  <2>2. on[g] = target[c] /\ lst[g] # "none"
    BY <1>2, <1>7, <2>1 DEF Own, Listened
  <2>3. CASE lst[g] = "open"
    <3>1. Switched!TurnOff(on[g])
      BY <1>1, <1>5, <1>7, <2>1, <2>3, ClosingTurnsOff DEF Calls
    <3> QED  BY <2>2, <3>1
  <2>4. CASE lst[g] = "closed"
    BY <1>1, <1>3, <1>7, <2>1, <2>4, ClosedAgain
  <2> QED  BY <1>7, <2>2, <2>3, <2>4
<1> QED  BY <1>4, <1>6, <1>7

LEMMA UnmarkSays ==
  ASSUME RInv, NEW c \in Stops, Unmark(c)
  PROVE  Switched!Say
<1> USE DEF RInv, SInv, IInv, TypeOK
<1>1. /\ pc[c] = "unmark" /\ pc' = [pc EXCEPT ![c] = "end"]
      /\ proxyRunning' = FALSE /\ UNCHANGED <<loop, on, lst>>
  BY DEF Unmark, goVars
<1>2. ~Serving
  BY <1>1 DEF CallPhases, Calls
<1>3. With("open") = {} /\ UNCHANGED <<With("open"), With("closed")>>
  BY <1>1, <1>2 DEF With, Serving
<1>4. \A g \in Starts : loop[g] \notin {"spawned", "bind", "failed"}
  BY <1>1 DEF OneBusy, BusyCall, BusyLoop, Calls
<1>5. \A d \in Stops : pc'[d] \notin {"shut", "unmark"}
  BY <1>1 DEF OneBusy, BusyCall, Calls
<1>6. Turning = "off"
  BY <1>1, <1>2, <1>4 DEF Turning
<1>7. Turning' = "none"
  BY <1>1, <1>4, <1>5 DEF Turning
<1> QED  BY <1>1, <1>3, <1>6, <1>7 DEF Switched!Say

\* The server that proxyServer names was not stopped, so it has not served.
LEMMA BindSwitches ==
  ASSUME RInv, NEW g \in Starts, Bind(g)
  PROVE  Switched!Serve(on[g]) \/ UNCHANGED switchVars
<1> USE DEF RInv, SInv, IInv, TypeOK
<1>1. /\ loop[g] = "bind" /\ UNCHANGED <<pc, on, proxyRunning, stopped>>
  BY DEF Bind, globals
<1>2. /\ proxyRunning /\ ~Serving /\ on[g] = proxyServer /\ lst[g] = "none"
  BY <1>1 DEF LoopPhases, BusyLoop, Fresh
<1>3. \A h \in Starts : h # g => loop[h] \notin {"spawned", "bind", "failed"}
  BY <1>1 DEF OneBusy, BusyLoop
<1>4. \A c \in Stops : pc[c] \notin {"shut", "unmark"}
  BY <1>1 DEF OneBusy, BusyCall, BusyLoop, Calls
<1>5. CASE lst' = [lst EXCEPT ![g] = "open"]
           /\ loop' = [loop EXCEPT ![g] = "bound"]
  <2>1. With("open") = {} /\ With("open")' = {on[g]}
    BY <1>1, <1>2, <1>5 DEF With, Serving
  <2>2. With("closed")' = With("closed")
    BY <1>1, <1>2, <1>5 DEF With
  <2>3. on[g] \notin With("closed")
    <3>1. on[g] \notin stopped
      BY <1>2, <1>4 DEF Running, Stopping
    <3> QED  BY <3>1 DEF With, NeverSpins
  <2>4. Turning = "on"
    BY <1>1 DEF Turning
  <2>5. Turning' = "none"
    BY <1>1, <1>3, <1>4, <1>5 DEF Turning, Serving
  <2> QED  BY <1>1, <1>2, <2>1, <2>2, <2>3, <2>4, <2>5 DEF Switched!Serve
<1>6. CASE loop' = [loop EXCEPT ![g] = "failed"] /\ lst' = lst
  <2>1. Turning = "on" /\ Turning' = "on"
    BY <1>1, <1>6 DEF Turning
  <2>2. With("open")' = With("open") /\ With("closed")' = With("closed")
    BY <1>1, <1>6 DEF With
  <2> QED  BY <1>1, <2>1, <2>2 DEF switchVars
<1> QED  BY <1>5, <1>6 DEF Bind

LEMMA FailSwitches ==
  ASSUME RInv, NEW g \in Starts, Fail(g)
  PROVE  Switched!Fail
<1> USE DEF RInv, SInv, IInv, TypeOK
<1>1. /\ loop[g] = "failed" /\ loop' = [loop EXCEPT ![g] = "returned"]
      /\ proxyRunning' = FALSE /\ UNCHANGED <<pc, on, lst>>
  BY DEF Fail
<1>2. ~Serving
  BY <1>1 DEF LoopPhases
<1>3. With("open") = {} /\ UNCHANGED <<With("open"), With("closed")>>
  BY <1>1, <1>2 DEF With, Serving
<1>4. \A h \in Starts : loop'[h] \notin {"spawned", "bind", "failed"}
  BY <1>1 DEF OneBusy, BusyLoop
<1>5. \A c \in Stops : pc[c] \notin {"shut", "unmark"}
  BY <1>1 DEF OneBusy, BusyCall, BusyLoop, Calls
<1>6. Turning = "on" /\ Turning' = "none"
  BY <1>1, <1>4, <1>5 DEF Turning
<1> QED  BY <1>1, <1>3, <1>6 DEF Switched!Fail

\* What a stopped server still listens on is about to be closed by Stop.
LEMMA CloserWakesSwitches ==
  ASSUME RInv, NEW g \in Starts, CloserWakes(g)
  PROVE  Switched!TurnOff(on[g]) \/ UNCHANGED switchVars
<1> USE DEF RInv, SInv, IInv, TypeOK
<1>1. /\ closer[g] = "waiting" /\ on[g] \in stopped
      /\ lst' = [lst EXCEPT ![g] = "closed"]
      /\ UNCHANGED <<pc, loop, on, proxyRunning>>
  BY DEF CloserWakes, globals
<1>2. lst[g] \in {"open", "closed"}
  BY <1>1 DEF Listened
<1>3. CASE lst[g] = "open"
  <2>1. loop[g] = "accepting"
    BY <1>1, <1>3 DEF Opened, Fresh
  <2>2. \E c \in Stops : pc[c] = "shut"
    BY <1>1, <1>3 DEF Opened
  <2> QED  BY <1>1, <1>3, <2>1, <2>2, ClosingTurnsOff
<1>4. CASE lst[g] = "closed"
  BY <1>1, <1>4, ClosedAgain
<1> QED  BY <1>2, <1>3, <1>4

LEMMA StepSwitches == RInv /\ [Next]_vars => [Switched!Next]_(Switched!vars)
<1> SUFFICES ASSUME RInv, [Next]_vars
             PROVE  [Switched!Next]_(Switched!vars)
  OBVIOUS
<1>0. UNCHANGED switchVars => UNCHANGED Switched!vars
  BY DEF switchVars, Switched!vars
<1>1. Starts \subseteq Calls /\ Stops \subseteq Calls /\ Connects \subseteq Calls
      /\ \A g \in Starts : on[g] \in Servers \cup {None}
  BY DEF Calls, Servers, RInv, SInv, IInv, TypeOK
<1>2. ASSUME NEW c \in Calls, Handle(c)
      PROVE  [Switched!Next]_(Switched!vars)
  <2>1. ASSUME c \in Stops, CloseListener(c)
        PROVE  [Switched!Next]_(Switched!vars)
    <3>1. target[c] \in Servers
      BY <2>1 DEF CloseListener, RInv, SInv, IInv, TypeOK, Targets
    <3> QED  BY <1>0, <2>1, <3>1, CloseListenerSwitches DEF Switched!Next
  <2> QED
    BY <1>0, <1>1, <1>2, <2>1, HandlersHide, MarkTurnsOn, CloseStopChHides,
       UnmarkSays DEF Handle, Switched!Next
<1>3. ASSUME NEW g \in Starts, Goroutine(g)
      PROVE  [Switched!Next]_(Switched!vars)
  <2>1. ASSUME Bind(g) \/ CloserWakes(g)
        PROVE  [Switched!Next]_(Switched!vars)
    <3>1. on[g] \in Servers
      BY <2>1, <1>1 DEF Bind, CloserWakes, RInv, SInv, IInv, Fresh, TypeOK
    <3> QED
      BY <1>0, <2>1, <3>1, BindSwitches, CloserWakesSwitches DEF Switched!Next
  <2> QED
    BY <1>0, <1>3, <2>1, LoopsHide, FailSwitches DEF Goroutine, Switched!Next
<1>4. CASE UNCHANGED vars
  BY <1>4 DEF vars, globals, goVars, Switched!vars, With, Turning, Serving
<1> QED
  BY <1>0, <1>1, <1>2, <1>3, <1>4, HandlersHide DEF Next

\* gui/server.go:613-648, proxy/server.go:62-98: however starts, stops and
\* V2Ray connections that wait for quiet follow each other, and whichever of
\* them fails, status, listeners and servers behave as one switch.
THEOREM Refinement ==
  ASSUME OneAtATime
  PROVE  Spec => IsSwitch
<1>1. Spec => []RInv
  BY RInvariance
<1> QED  BY <1>1, InitSwitches, StepSwitches, PTL
         DEF Spec, IsSwitch, Switched!Spec
=============================================================================
