----------------------------- MODULE Connection -----------------------------
(***************************************************************************)
(* What the proxy does with one accepted connection: handleConn            *)
(* (proxy/server.go:106-163), the choice of a route by mode and domain     *)
(* (proxy/connect.go:46-75) and the four routes: the raw tunnel, the two    *)
(* loops that terminate the client's TLS (connect.go:77-163), and a plain   *)
(* HTTP request (proxy/http.go).  Connections share nothing but the counts  *)
(* of Stats, left out here, and the relay, whose answers are those of       *)
(* ScriptPool and SharedFetch.                                              *)
(*                                                                         *)
(* What the client sends is a stream of units numbered from one.  The first *)
(* three are its request: the start of the request line, the rest of that   *)
(* line, and the rest of the request; TCP may deliver any prefix of what    *)
(* was sent to one Read.  After a CONNECT the units are what the tunnel     *)
(* carries, or, where the proxy terminates TLS, one request each.           *)
(***************************************************************************)
EXTENDS Integers, Sequences

CONSTANTS
  Modes,     \* configured modes a connection may meet
  Hosts,     \* the targets
  Rewrite,   \* those of isSNIRewriteDomain
  Google,    \* those of isGoogleDomain
  MaxData,   \* bound: units a client sends after its request
  MaxBack    \* bound: units the far end of a tunnel sends

LineEnd == 2  \* the unit that completes the request line
HeadEnd == 3  \* the unit that completes the request

ASSUME ConnectionAssumption ==
  /\ Modes \subseteq STRING
  /\ Rewrite \subseteq Hosts /\ Google \subseteq Hosts
  /\ MaxData \in Nat /\ MaxBack \in Nat

VARIABLES
  mode,    \* s.config.Mode
  method, host,
  sent,    \* units the client has sent
  client,  \* "open", "half" (has sent all it will), "gone" (closed)
  broken,  \* its last unit is incomplete
  full,    \* the next write to it waits until it reads
  first,   \* units that handleConn's Read returned
  taken,   \* units the proxy has taken off the connection
  pc,      \* where the handler stands
  answers, \* what was written to the client, by request
  ups,     \* connections dialed for this one
  remote,  \* the far end of a tunnel: "open", "fin" or "reset"
  back,    \* units it has sent
  copied,  \* those of them written to the client
  pump     \* the goroutine that copies the other way

request == <<mode, method, host>>
clientVars == <<sent, client, broken, full>>
tunnel == <<remote, back, copied, pump>>
vars == <<request, clientVars, first, taken, pc, answers, ups, tunnel>>

TunnelPCs == {"tunnel", "httpTunnel"}
RelayPCs == {"relay", "relayed", "httpRelay"}
FrontPCs == {"front", "frontDial", "fronted"}

TypeOK ==
  /\ mode \in Modes /\ method \in {"CONNECT", "other"} /\ host \in Hosts
  /\ sent \in 0..(HeadEnd + MaxData) /\ broken \in BOOLEAN
  /\ client \in {"open", "half", "gone"} /\ full \in BOOLEAN
  /\ first \in 0..sent /\ taken \in 0..sent
  /\ pc \in {"read", "route", "dial", "http", "httpDial", "ended"}
             \cup TunnelPCs \cup RelayPCs \cup FrontPCs
  /\ answers \in Seq([of : Nat, how : {"whole", "cut", "502"}])
  /\ ups \in Seq([via : {"socks", "direct", "front"}, open : BOOLEAN])
  /\ remote \in {"open", "fin", "reset"}
  /\ back \in 0..MaxBack /\ copied \in 0..back
  /\ pump \in {"none", "run", "ended"}

Init ==
  /\ mode \in Modes /\ method \in {"CONNECT", "other"} /\ host \in Hosts
  /\ sent = 0 /\ client = "open" /\ broken = FALSE /\ full \in BOOLEAN
  /\ first = 0 /\ taken = 0 /\ pc = "read"
  /\ answers = <<>> /\ ups = <<>>
  /\ remote = "open" /\ back = 0 /\ copied = 0 /\ pump = "none"

----------------------------------------------------------------------------
(* The client, at any time and whether or not it has been answered. *)

Send ==
  /\ client = "open" /\ sent < HeadEnd + MaxData
  /\ sent' = sent + 1
  /\ UNCHANGED <<request, client, broken, full, first, taken, pc, answers, ups, tunnel>>

\* It shuts down its sending side, or closes; maybe within a unit.
Close(how) ==
  /\ how = "half" => client = "open"
  /\ client # "gone"
  /\ client' = how
  /\ broken' \in IF client = "open" /\ sent >= HeadEnd THEN BOOLEAN ELSE {broken}
  /\ UNCHANGED <<request, sent, full, first, taken, pc, answers, ups, tunnel>>

\* It reads, and makes room.
ClientReads ==
  /\ full /\ client # "gone"
  /\ full' = FALSE
  /\ UNCHANGED <<request, sent, client, broken, first, taken, pc, answers, ups, tunnel>>

Client == ClientReads \/ Send \/ \E how \in {"half", "gone"} : Close(how)

\* What was sent may be lost when the client closes, and is not otherwise.
Unread == taken < sent
InputEnded == client = "gone" \/ (client = "half" /\ ~Unread)

----------------------------------------------------------------------------
(* What every route does. *)

\* NewServer: a dialer through Xray in github mode, a relay in the others.
HasSocks == mode = "github"
HasRelay == mode # "github"

\* Fault: the upstream connections are not closed.
ReturnOnly == pc' = "ended" /\ UNCHANGED ups

\* The handler returns, and its deferred calls close what it has open, the
\* client's connection included.
Return ==
  /\ pc' = "ended"
  /\ ups' = [i \in DOMAIN ups |-> [via |-> ups[i].via, open |-> FALSE]]

Opened(via) == ups' = Append(ups, [via |-> via, open |-> TRUE])

\* Fault: dial without a look at the SOCKS dialer.
DialDirect == "direct"

\* dial: through the SOCKS dialer if there is one
Via == IF HasSocks THEN "socks" ELSE "direct"

\* A write has no deadline: it returns when the client has room for it or is
\* gone.  Whether there is room for the next is the client's affair.
Room == ~full \/ client = "gone"

Write == Room /\ full' \in BOOLEAN /\ UNCHANGED <<sent, client, broken>>

Answer(d, how) == Write /\ answers' = Append(answers, [of |-> d, how |-> how])

\* Read returns what has come so far, as much as it likes.  A request line
\* that is cut before its third word is the end of it.  What came with a
\* CONNECT is dropped; a plain request is parsed from its first byte.
Read ==
  /\ pc = "read"
  /\ first' \in 1..sent
  /\ IF first' < LineEnd
       THEN taken' = first' /\ Return
       ELSE /\ IF method = "CONNECT"
                 THEN pc' = "route" /\ taken' = first'
                 ELSE pc' = "http" /\ taken' = 0
            /\ UNCHANGED ups
  /\ UNCHANGED <<request, clientVars, answers, tunnel>>

ReadFails ==
  /\ pc = "read" /\ InputEnded
  /\ Return
  /\ UNCHANGED <<request, clientVars, first, taken, answers, tunnel>>

\* handleConnect has said 200 and chooses.  Any other mode of the panel
\* (worker, exit_node, v2ray) dials.
Route ==
  IF \/ mode = "google_only" /\ host \in Google \cup Rewrite
     \/ mode = "apps_script" /\ host \in Rewrite
    THEN "front"
  ELSE IF mode = "apps_script" /\ host \notin Google
    THEN "relay"
  ELSE "dial"

HandleConnect ==
  /\ pc = "route" /\ pc' = Route
  /\ UNCHANGED <<request, clientVars, first, taken, answers, ups, tunnel>>

----------------------------------------------------------------------------
(* handleRawTCP: one goroutine for each direction.  The handler's own copies *)
(* what the far end sends, and only its end is the end of the tunnel.        *)

Dial ==
  /\ pc = "dial"
  /\ \/ Return /\ UNCHANGED pump
     \/ Opened(Via) /\ pc' = "tunnel" /\ pump' = "run"
  /\ UNCHANGED <<request, clientVars, first, taken, answers, remote, back, copied>>

\* To write to a far end that has closed brings a reset back.
Pump ==
  /\ pump = "run" /\ pc # "ended" /\ Unread /\ remote # "reset"
  /\ taken' = taken + 1
  /\ remote' \in IF remote = "open" THEN {"open"} ELSE {"fin", "reset"}
  /\ UNCHANGED <<request, clientVars, first, pc, answers, ups, back, copied, pump>>

\* Fault: the client's connection is left open when the handler returns.
PumpOutlives ==
  /\ pump = "run"
  /\ InputEnded \/ (remote = "reset" /\ pc # "ended")
  /\ pump' = "ended"
  /\ UNCHANGED <<request, clientVars, first, taken, pc, answers, ups, remote, back, copied>>

PumpEnds ==
  /\ pump = "run"
  /\ InputEnded \/ remote = "reset" \/ pc = "ended"
  /\ pump' = "ended"
  /\ UNCHANGED <<request, clientVars, first, taken, pc, answers, ups, remote, back, copied>>

RemoteSends ==
  /\ pc \in TunnelPCs /\ remote = "open" /\ back < MaxBack
  /\ back' = back + 1
  /\ UNCHANGED <<request, clientVars, first, taken, pc, answers, ups, remote, copied, pump>>

RemoteEnds ==
  /\ pc \in TunnelPCs /\ remote # "reset"
  /\ remote' \in IF remote = "open" THEN {"fin", "reset"} ELSE {"reset"}
  /\ UNCHANGED <<request, clientVars, first, taken, pc, answers, ups, back, copied, pump>>

\* A write to a client that has closed may succeed for a while.
Copy ==
  /\ pc \in TunnelPCs /\ copied < back
  /\ \/ Write /\ copied' = copied + 1 /\ UNCHANGED <<pc, ups>>
     \/ client = "gone" /\ Return /\ UNCHANGED <<clientVars, copied>>
  /\ UNCHANGED <<request, first, taken, answers, remote, back, pump>>

\* Fault: the tunnel ends with the first direction that ends.
EitherEnds ==
  /\ pc \in TunnelPCs
  /\ remote = "reset" \/ (remote = "fin" /\ copied = back) \/ pump = "ended"
  /\ Return
  /\ UNCHANGED <<request, clientVars, first, taken, answers, tunnel>>

CopyEnds ==
  /\ pc \in TunnelPCs
  /\ remote = "reset" \/ (remote = "fin" /\ copied = back)
  /\ Return
  /\ UNCHANGED <<request, clientVars, first, taken, answers, tunnel>>

----------------------------------------------------------------------------
(* The loops inside the client's TLS.  The handshake succeeds only if the    *)
(* first Read took the request and nothing else.                            *)

ReadRequest(loop, next) ==
  /\ pc = loop
  /\ Unread /\ first = HeadEnd
  /\ taken' = taken + 1
  /\ pc' = next
  /\ UNCHANGED <<request, clientVars, first, answers, ups, tunnel>>

\* Fault: an error in reading is passed over.
ReadOn(loop) ==
  /\ pc = loop /\ broken /\ taken + 1 = sent
  /\ taken' = sent
  /\ UNCHANGED <<request, clientVars, first, pc, answers, ups, tunnel>>

\* A request broken off in its head is an error; one broken off in its body
\* is read, and its body taken for whole.
ReadRequestFails(loop) ==
  /\ pc = loop
  /\ \/ InputEnded
     \/ Unread /\ first # HeadEnd
     \/ broken /\ taken + 1 = sent
  /\ Return
  /\ UNCHANGED <<request, clientVars, first, taken, answers, tunnel>>

\* handleSNIRewriteMITM: a new connection to Google for each request
FrontDial ==
  /\ pc = "frontDial"
  /\ \/ Return
     \/ Opened("front") /\ pc' = "fronted"
  /\ UNCHANGED <<request, clientVars, first, taken, answers, tunnel>>

\* The error of writing the response is not looked at: the loop goes on after
\* a response that Google broke off.
Fronted ==
  /\ pc = "fronted"
  /\ \/ Return /\ UNCHANGED <<clientVars, answers>>
     \/ /\ \E how \in {"whole", "cut"} : Answer(taken, how)
        /\ pc' = "front"
        /\ UNCHANGED ups
  /\ UNCHANGED <<request, first, taken, tunnel>>

\* Fault: no answer for an error of the relay.
SkipError ==
  /\ pc = "relayed"
  /\ \/ Answer(taken, "whole") /\ pc' = "relay" /\ UNCHANGED ups
     \/ pc' = "relay" /\ UNCHANGED <<clientVars, answers, ups>>
     \/ Answer(taken, "cut") /\ Return
  /\ UNCHANGED <<request, first, taken, tunnel>>

\* handleMITMRelay: an error of the relay is answered with 502 and the loop
\* goes on; one of writing the response, as for a body another caller has
\* read, ends it.
Relayed ==
  /\ pc = "relayed"
  /\ \/ \E how \in {"whole", "502"} :
          Answer(taken, how) /\ pc' = "relay" /\ UNCHANGED ups
     \/ Answer(taken, "cut") /\ Return
     \/ client = "gone" /\ Return /\ UNCHANGED <<clientVars, answers>>
  /\ UNCHANGED <<request, first, taken, tunnel>>

----------------------------------------------------------------------------
(* handleHTTP: one request, then the connection is closed.                   *)

\* Fault: the request is passed on before it has come whole.
HttpEarly ==
  /\ pc = "http"
  /\ taken' = HeadEnd
  /\ pc' = IF HasSocks THEN "httpDial" ELSE "httpRelay"
  /\ UNCHANGED <<request, clientVars, first, answers, ups, tunnel>>

Http ==
  /\ pc = "http"
  /\ sent >= HeadEnd /\ taken' = HeadEnd
  /\ pc' = IF HasSocks THEN "httpDial" ELSE "httpRelay"
  /\ UNCHANGED <<request, clientVars, first, answers, ups, tunnel>>

HttpFails ==
  /\ pc = "http"
  /\ client = "gone" \/ (client = "half" /\ sent < HeadEnd) \/ (broken /\ sent = HeadEnd)
  /\ Return
  /\ UNCHANGED <<request, clientVars, first, taken, answers, tunnel>>

\* The request is passed on before anything is copied back.
HttpDial ==
  /\ pc = "httpDial"
  /\ \/ Answer(taken, "502") /\ Return
     \/ Opened(Via) /\ pc' = "httpTunnel" /\ UNCHANGED <<clientVars, answers>>
  /\ UNCHANGED <<request, first, taken, tunnel>>

HttpRelayed ==
  /\ pc = "httpRelay"
  /\ \E how \in {"whole", "cut", "502"} : Answer(taken, how)
  /\ Return
  /\ UNCHANGED <<request, first, taken, tunnel>>

----------------------------------------------------------------------------

Handle ==
  \/ Read \/ ReadFails \/ HandleConnect
  \/ Copy \/ CopyEnds
  \/ ReadRequest("front", "frontDial") \/ ReadRequestFails("front")
  \/ ReadRequest("relay", "relayed") \/ ReadRequestFails("relay") \/ Relayed
  \/ Http \/ HttpFails \/ HttpRelayed

\* Steps of the handler that wait for an upstream, with no deadline.
Upstream == Dial \/ FrontDial \/ Fronted \/ HttpDial

Next ==
  \/ Client
  \/ Handle \/ Upstream
  \/ Pump \/ PumpEnds
  \/ RemoteSends \/ RemoteEnds

Spec == Init /\ [][Next]_vars

\* The handler of a tunnel has read what it may be unable to write.
Stuck == ~Room /\ copied < back

\* The scheduler runs what can run, and the relay's client has a timeout.
\* Nothing makes a client read or an upstream answer; only what the handler
\* closes when it returns is certain to end the other copying goroutine.
FairSpec ==
  Spec /\ WF_vars(~Stuck /\ Handle) /\ WF_vars(pc = "ended" /\ PumpEnds)

----------------------------------------------------------------------------

\* In github mode everything goes through Xray (proxy/connect.go:56): no way
\* through the handlers dials past it, and none reaches the relay, which is
\* nil in that mode.
AllThroughSocks ==
  mode = "github" =>
    /\ pc \notin RelayPCs \cup FrontPCs
    /\ \A i \in DOMAIN ups : ups[i].via = "socks"

\* The answers on a connection are those to its requests, one each and in
\* order, however the client pipelines them and whatever fails; and the
\* relay's loop writes nothing after an answer that was cut short, which the
\* client would take for the rest of it.
AnswersInOrder ==
  /\ \A i \in DOMAIN answers :
       answers[i].of = IF method = "CONNECT" THEN HeadEnd + i ELSE HeadEnd
  /\ method # "CONNECT" => Len(answers) <= 1
  /\ pc \in {"relay", "front"} /\ first = HeadEnd => Len(answers) = taken - HeadEnd
  /\ pc \in RelayPCs \cup {"ended"} /\ Route = "relay" =>
       \A i \in 1..(Len(answers) - 1) : answers[i].how # "cut"

\* A handler that has returned has left no connection open.
ClosedBehind == pc = "ended" => \A i \in DOMAIN ups : ~ups[i].open

\* A tunnel whose far end closes in order has delivered all the far end sent,
\* also to a client that had finished sending, unless the client is gone.
TunnelDelivers ==
  pc = "ended" /\ client # "gone" /\ remote = "fin" => copied = back

\* The client never leaves a write to it waiting for ever: it reads or goes.
ClientTakes == []<>Room

\* When the far end closes, the handler returns and the other copying
\* goroutine ends too, if the client goes on reading or goes away.
TunnelEnds == ClientTakes => (remote # "open" ~> pc = "ended" /\ pump # "run")

\* A client that has finished, and takes its answers or goes away, is released
\* by the routes of the relay.
RelayEnds ==
  ClientTakes =>
    (HasRelay /\ (method = "other" \/ Route = "relay") /\ client # "open"
       ~> pc = "ended")

=============================================================================
