-------------------------- MODULE ConnectionProofs --------------------------
(***************************************************************************)
(* Proofs about one connection, for any modes, targets and bounds.  The     *)
(* handler's place says which route it is on (Place) and how many of the    *)
(* requests taken off the connection have been answered (Counted), and a    *)
(* far end exists only in a tunnel (Quiet); with these the four invariants  *)
(* that the runs check are inductive, and so is that what the relay carries  *)
(* is never dialed (RelayOnly).                                            *)
(***************************************************************************)
EXTENDS Connection, SequenceTheorems, TLAPS

\* Where the handler stands follows from the route it chose.
Place ==
  /\ pc = "route" => method = "CONNECT"
  /\ pc \in {"dial", "tunnel"} => method = "CONNECT" /\ Route = "dial"
  /\ pc \in FrontPCs => method = "CONNECT" /\ Route = "front"
  /\ pc \in {"relay", "relayed"} => method = "CONNECT" /\ Route = "relay"
  /\ pc \in {"http", "httpDial", "httpTunnel", "httpRelay"} => method = "other"
  /\ pc \in {"httpDial", "httpTunnel"} => HasSocks
  /\ pc = "httpRelay" => HasRelay
  /\ pump = "run" => pc \in {"tunnel", "ended"}

\* At the head of a loop all requests taken are answered, inside it all but
\* the last, and elsewhere nothing is before the end.
Counted ==
  /\ pc \in {"front", "relay"} =>
       IF first = HeadEnd THEN Len(answers) = taken - HeadEnd ELSE answers = <<>>
  /\ pc \in {"frontDial", "fronted", "relayed"} =>
       first = HeadEnd /\ Len(answers) = taken - HeadEnd - 1
  /\ pc \in {"read", "route", "dial", "tunnel", "http", "httpDial",
             "httpTunnel", "httpRelay"} => answers = <<>>
  /\ pc = "route" => taken = first
  /\ pc \in {"httpDial", "httpRelay"} => taken = HeadEnd

\* Up to its last answer, the loop of the relay wrote whole ones.
NoneCut ==
  /\ pc \in {"relay", "relayed"} =>
       \A i \in DOMAIN answers : answers[i].how # "cut"
  /\ pc = "ended" /\ method = "CONNECT" /\ Route = "relay" =>
       \A i \in 1..(Len(answers) - 1) : answers[i].how # "cut"

InOrder ==
  \A i \in DOMAIN answers :
    answers[i].of = IF method = "CONNECT" THEN HeadEnd + i ELSE HeadEnd

\* The connections of a handler in github mode, and what it leaves of them.
Conns ==
  /\ mode = "github" => \A i \in DOMAIN ups : ups[i].via = "socks"
  /\ ClosedBehind

\* Outside a tunnel there is no far end.
Quiet ==
  /\ pc \notin TunnelPCs \cup {"ended"} => remote = "open" /\ back = 0 /\ copied = 0
  /\ TunnelDelivers

IInv ==
  /\ TypeOK
  /\ Place
  /\ Counted
  /\ NoneCut
  /\ InOrder
  /\ method # "CONNECT" => Len(answers) <= 1
  /\ Conns
  /\ Quiet

-----------------------------------------------------------------------------

(* What the parts that actions share do to the two sequences.               *)

LEMMA ReturnDoes ==
  ASSUME TypeOK, Return
  PROVE  /\ pc' = "ended"
         /\ ups' \in Seq([via : {"socks", "direct", "front"}, open : BOOLEAN])
         /\ DOMAIN ups' = DOMAIN ups
         /\ \A i \in DOMAIN ups : ups'[i].via = ups[i].via /\ ~ups'[i].open
<1>1. ups \in Seq([via : {"socks", "direct", "front"}, open : BOOLEAN])
  BY DEF TypeOK
<1>2. ups' = [i \in 1..Len(ups) |-> [via |-> ups[i].via, open |-> FALSE]]
  BY <1>1 DEF Return
<1>3. \A i \in 1..Len(ups) :
        [via |-> ups[i].via, open |-> FALSE]
          \in [via : {"socks", "direct", "front"}, open : BOOLEAN]
  <2> SUFFICES ASSUME NEW i \in 1..Len(ups)
               PROVE  ups[i].via \in {"socks", "direct", "front"}
    OBVIOUS
  <2>1. ups[i] \in [via : {"socks", "direct", "front"}, open : BOOLEAN]
    BY <1>1, ElementOfSeq
  <2> QED  BY <2>1
<1>4. ups' \in Seq([via : {"socks", "direct", "front"}, open : BOOLEAN])
  BY <1>1, <1>2, <1>3, Len(ups) \in Nat
<1>5. DOMAIN ups' = DOMAIN ups
  BY <1>1, <1>2
<1>6. \A i \in DOMAIN ups : ups'[i].via = ups[i].via /\ ~ups'[i].open
  BY <1>1, <1>2
<1> QED  BY <1>4, <1>5, <1>6 DEF Return

LEMMA OpenedDoes ==
  ASSUME TypeOK, NEW via \in {"socks", "direct", "front"}, Opened(via)
  PROVE  /\ ups' \in Seq([via : {"socks", "direct", "front"}, open : BOOLEAN])
         /\ DOMAIN ups' = 1..(Len(ups) + 1)
         /\ \A i \in DOMAIN ups : ups'[i] = ups[i]
         /\ ups'[Len(ups) + 1] = [via |-> via, open |-> TRUE]
  BY DEF TypeOK, Opened

LEMMA OpenedVia ==
  ASSUME TypeOK, Opened(Via)
  PROVE  /\ ups' \in Seq([via : {"socks", "direct", "front"}, open : BOOLEAN])
         /\ mode = "github" /\ (\A i \in DOMAIN ups : ups[i].via = "socks")
              => \A i \in DOMAIN ups' : ups'[i].via = "socks"
<1>1. Via \in {"socks", "direct", "front"}
  BY DEF Via
<1>2. mode = "github" => Via = "socks"
  BY DEF Via, HasSocks
<1>3. DOMAIN ups = 1..Len(ups) /\ Len(ups) \in Nat
  BY DEF TypeOK
<1> QED  BY <1>1, <1>2, <1>3, OpenedDoes

LEMMA AnswerDoes ==
  ASSUME TypeOK, NEW d \in Nat, NEW how \in {"whole", "cut", "502"}, Answer(d, how)
  PROVE  /\ full' \in BOOLEAN /\ UNCHANGED <<sent, client, broken>>
         /\ answers' \in Seq([of : Nat, how : {"whole", "cut", "502"}])
         /\ Len(answers') = Len(answers) + 1
         /\ DOMAIN answers' = 1..(Len(answers) + 1)
         /\ \A i \in DOMAIN answers : answers'[i] = answers[i]
         /\ answers'[Len(answers) + 1] = [of |-> d, how |-> how]
  BY DEF TypeOK, Answer, Write

\* An answer to the next request keeps the order.
LEMMA OrderKept ==
  ASSUME InOrder, method = "CONNECT", method' = method,
         Len(answers) \in Nat, DOMAIN answers = 1..Len(answers),
         DOMAIN answers' = 1..(Len(answers) + 1),
         \A i \in DOMAIN answers : answers'[i] = answers[i],
         answers'[Len(answers) + 1].of = HeadEnd + Len(answers) + 1
  PROVE  InOrder'
<1> SUFFICES ASSUME NEW i \in 1..(Len(answers) + 1)
             PROVE  answers'[i].of = HeadEnd + i
  BY DEF InOrder, HeadEnd
<1>1. CASE i \in 1..Len(answers)
  BY <1>1 DEF InOrder
<1>2. CASE i = Len(answers) + 1
  BY <1>2 DEF HeadEnd
<1> QED  BY <1>1, <1>2

LEMMA InitIInv == Init => IInv
<1> USE ConnectionAssumption DEF Init, HeadEnd, TunnelPCs, RelayPCs, FrontPCs
<1> SUFFICES ASSUME Init PROVE IInv
  OBVIOUS
<1>1. TypeOK
  <2>1. /\ answers \in Seq([of : Nat, how : {"whole", "cut", "502"}])
        /\ ups \in Seq([via : {"socks", "direct", "front"}, open : BOOLEAN])
    BY EmptySeq
  <2>2. 0 \in 0..0 /\ 0 \in 0..(HeadEnd + MaxData) /\ 0 \in 0..MaxBack
    OBVIOUS
  <2> QED  BY <2>1, <2>2 DEF TypeOK
<1>2. Place /\ Counted /\ NoneCut /\ InOrder
  BY DEF Place, Counted, NoneCut, InOrder
<1>3. Len(answers) <= 1
  OBVIOUS
<1>4. Conns /\ Quiet
  BY DEF Conns, ClosedBehind, Quiet, TunnelDelivers
<1> QED  BY <1>1, <1>2, <1>3, <1>4 DEF IInv

LEMMA SendKeeps ==
  ASSUME IInv, Send
  PROVE  IInv'
<1> USE ConnectionAssumption
    DEF IInv, TypeOK, Send, Route, HasSocks, HasRelay, HeadEnd, TunnelPCs,
        RelayPCs, FrontPCs, request, clientVars, tunnel
<1>1. TypeOK'
  OBVIOUS
<1>2. Place'
  BY DEF Place
<1>3. Counted' /\ (method # "CONNECT" => Len(answers) <= 1)'
  BY DEF Place, Counted
<1>4. NoneCut' /\ InOrder'
  BY DEF Place, Counted, NoneCut, InOrder
<1>5. Conns'
  BY DEF Place, Conns, ClosedBehind
<1>6. Quiet'
  BY DEF Place, Quiet, TunnelDelivers
<1> QED  BY <1>1, <1>2, <1>3, <1>4, <1>5, <1>6

LEMMA ClientReadsKeeps ==
  ASSUME IInv, ClientReads
  PROVE  IInv'
<1> USE ConnectionAssumption
    DEF IInv, TypeOK, ClientReads, Route, HasSocks, HasRelay, HeadEnd, TunnelPCs,
        RelayPCs, FrontPCs, request, clientVars, tunnel
<1>1. TypeOK'
  OBVIOUS
<1>2. Place'
  BY DEF Place
<1>3. Counted' /\ (method # "CONNECT" => Len(answers) <= 1)'
  BY DEF Place, Counted
<1>4. NoneCut' /\ InOrder'
  BY DEF Place, Counted, NoneCut, InOrder
<1>5. Conns'
  BY DEF Place, Conns, ClosedBehind
<1>6. Quiet'
  BY DEF Place, Quiet, TunnelDelivers
<1> QED  BY <1>1, <1>2, <1>3, <1>4, <1>5, <1>6

LEMMA CloseKeeps ==
  ASSUME IInv, NEW how \in {"half", "gone"}, Close(how)
  PROVE  IInv'
<1> USE ConnectionAssumption
    DEF IInv, TypeOK, Close, Route, HasSocks, HasRelay, HeadEnd, TunnelPCs,
        RelayPCs, FrontPCs, request, clientVars, tunnel
<1>1. TypeOK'
  OBVIOUS
<1>2. Place'
  BY DEF Place
<1>3. Counted' /\ (method # "CONNECT" => Len(answers) <= 1)'
  BY DEF Place, Counted
<1>4. NoneCut' /\ InOrder'
  BY DEF Place, Counted, NoneCut, InOrder
<1>5. Conns'
  BY DEF Place, Conns, ClosedBehind
<1>6. Quiet'
  BY DEF Place, Quiet, TunnelDelivers
<1> QED  BY <1>1, <1>2, <1>3, <1>4, <1>5, <1>6

LEMMA ReadKeeps ==
  ASSUME IInv, Read
  PROVE  IInv'
<1> USE ConnectionAssumption, ReturnDoes
    DEF IInv, TypeOK, Read, Route, HasSocks, HasRelay, HeadEnd, LineEnd,
        TunnelPCs, RelayPCs, FrontPCs, request, clientVars, tunnel
<1>1. TypeOK'
  OBVIOUS
<1>2. Place'
  BY DEF Place
<1>3. Counted' /\ (method # "CONNECT" => Len(answers) <= 1)'
  BY DEF Place, Counted
<1>4. NoneCut' /\ InOrder'
  BY DEF Place, Counted, NoneCut, InOrder
<1>5. Conns'
  BY DEF Place, Conns, ClosedBehind
<1>6. Quiet'
  BY DEF Place, Quiet, TunnelDelivers
<1> QED  BY <1>1, <1>2, <1>3, <1>4, <1>5, <1>6

LEMMA ReadFailsKeeps ==
  ASSUME IInv, ReadFails
  PROVE  IInv'
<1> USE ConnectionAssumption, ReturnDoes
    DEF IInv, TypeOK, ReadFails, Route, HasSocks, HasRelay, HeadEnd,
        TunnelPCs, RelayPCs, FrontPCs, request, clientVars, tunnel
<1>1. TypeOK'
  OBVIOUS
<1>2. Place'
  BY DEF Place
<1>3. Counted' /\ (method # "CONNECT" => Len(answers) <= 1)'
  BY DEF Place, Counted
<1>4. NoneCut' /\ InOrder'
  BY DEF Place, Counted, NoneCut, InOrder
<1>5. Conns'
  BY DEF Place, Conns, ClosedBehind
<1>6. Quiet'
  BY DEF Place, Quiet, TunnelDelivers
<1> QED  BY <1>1, <1>2, <1>3, <1>4, <1>5, <1>6

LEMMA HandleConnectKeeps ==
  ASSUME IInv, HandleConnect
  PROVE  IInv'
<1> USE ConnectionAssumption
    DEF IInv, TypeOK, HandleConnect, Route, HasSocks, HasRelay, HeadEnd,
        TunnelPCs, RelayPCs, FrontPCs, request, clientVars, tunnel
<1>1. TypeOK'
  OBVIOUS
<1>2. Place'
  BY DEF Place
<1>3. Counted' /\ (method # "CONNECT" => Len(answers) <= 1)'
  BY DEF Place, Counted
<1>4. NoneCut' /\ InOrder'
  BY DEF Place, Counted, NoneCut, InOrder
<1>5. Conns'
  BY DEF Place, Conns, ClosedBehind
<1>6. Quiet'
  BY DEF Place, Quiet, TunnelDelivers
<1> QED  BY <1>1, <1>2, <1>3, <1>4, <1>5, <1>6

LEMMA DialKeeps ==
  ASSUME IInv, Dial
  PROVE  IInv'
<1> USE ConnectionAssumption, ReturnDoes, OpenedVia
    DEF IInv, TypeOK, Dial, Route, HasSocks, HasRelay, HeadEnd, TunnelPCs,
        RelayPCs, FrontPCs, request, clientVars, tunnel
<1>1. TypeOK'
  OBVIOUS
<1>2. Place'
  BY DEF Place
<1>3. Counted' /\ (method # "CONNECT" => Len(answers) <= 1)'
  BY DEF Place, Counted
<1>4. NoneCut' /\ InOrder'
  BY DEF Place, Counted, NoneCut, InOrder
<1>5. Conns'
  BY DEF Place, Conns, ClosedBehind
<1>6. Quiet'
  BY DEF Place, Quiet, TunnelDelivers
<1> QED  BY <1>1, <1>2, <1>3, <1>4, <1>5, <1>6

LEMMA PumpKeeps ==
  ASSUME IInv, Pump
  PROVE  IInv'
<1> USE ConnectionAssumption
    DEF IInv, TypeOK, Pump, Unread, Route, HasSocks, HasRelay, HeadEnd,
        TunnelPCs, RelayPCs, FrontPCs, request, clientVars, tunnel
<1>1. TypeOK'
  OBVIOUS
<1>2. Place'
  BY DEF Place
<1>3. Counted' /\ (method # "CONNECT" => Len(answers) <= 1)'
  BY DEF Place, Counted
<1>4. NoneCut' /\ InOrder'
  BY DEF Place, Counted, NoneCut, InOrder
<1>5. Conns'
  BY DEF Place, Conns, ClosedBehind
<1>6. Quiet'
  BY DEF Place, Quiet, TunnelDelivers
<1> QED  BY <1>1, <1>2, <1>3, <1>4, <1>5, <1>6

LEMMA PumpEndsKeeps ==
  ASSUME IInv, PumpEnds
  PROVE  IInv'
<1> USE ConnectionAssumption
    DEF IInv, TypeOK, PumpEnds, Route, HasSocks, HasRelay, HeadEnd,
        TunnelPCs, RelayPCs, FrontPCs, request, clientVars, tunnel
<1>1. TypeOK'
  OBVIOUS
<1>2. Place'
  BY DEF Place
<1>3. Counted' /\ (method # "CONNECT" => Len(answers) <= 1)'
  BY DEF Place, Counted
<1>4. NoneCut' /\ InOrder'
  BY DEF Place, Counted, NoneCut, InOrder
<1>5. Conns'
  BY DEF Place, Conns, ClosedBehind
<1>6. Quiet'
  BY DEF Place, Quiet, TunnelDelivers
<1> QED  BY <1>1, <1>2, <1>3, <1>4, <1>5, <1>6

LEMMA RemoteSendsKeeps ==
  ASSUME IInv, RemoteSends
  PROVE  IInv'
<1> USE ConnectionAssumption
    DEF IInv, TypeOK, RemoteSends, Route, HasSocks, HasRelay, HeadEnd,
        TunnelPCs, RelayPCs, FrontPCs, request, clientVars, tunnel
<1>1. TypeOK'
  OBVIOUS
<1>2. Place'
  BY DEF Place
<1>3. Counted' /\ (method # "CONNECT" => Len(answers) <= 1)'
  BY DEF Place, Counted
<1>4. NoneCut' /\ InOrder'
  BY DEF Place, Counted, NoneCut, InOrder
<1>5. Conns'
  BY DEF Place, Conns, ClosedBehind
<1>6. Quiet'
  BY DEF Place, Quiet, TunnelDelivers
<1> QED  BY <1>1, <1>2, <1>3, <1>4, <1>5, <1>6

LEMMA RemoteEndsKeeps ==
  ASSUME IInv, RemoteEnds
  PROVE  IInv'
<1> USE ConnectionAssumption
    DEF IInv, TypeOK, RemoteEnds, Route, HasSocks, HasRelay, HeadEnd,
        TunnelPCs, RelayPCs, FrontPCs, request, clientVars, tunnel
<1>1. TypeOK'
  OBVIOUS
<1>2. Place'
  BY DEF Place
<1>3. Counted' /\ (method # "CONNECT" => Len(answers) <= 1)'
  BY DEF Place, Counted
<1>4. NoneCut' /\ InOrder'
  BY DEF Place, Counted, NoneCut, InOrder
<1>5. Conns'
  BY DEF Place, Conns, ClosedBehind
<1>6. Quiet'
  BY DEF Place, Quiet, TunnelDelivers
<1> QED  BY <1>1, <1>2, <1>3, <1>4, <1>5, <1>6

LEMMA CopyKeeps ==
  ASSUME IInv, Copy
  PROVE  IInv'
<1> USE ConnectionAssumption, ReturnDoes
    DEF IInv, TypeOK, Copy, Write, Route, HasSocks, HasRelay, HeadEnd, TunnelPCs,
        RelayPCs, FrontPCs, request, clientVars, tunnel
<1>1. TypeOK'
  OBVIOUS
<1>2. Place'
  BY DEF Place
<1>3. Counted' /\ (method # "CONNECT" => Len(answers) <= 1)'
  BY DEF Place, Counted
<1>4. NoneCut' /\ InOrder'
  BY DEF Place, Counted, NoneCut, InOrder
<1>5. Conns'
  BY DEF Place, Conns, ClosedBehind
<1>6. Quiet'
  BY DEF Place, Quiet, TunnelDelivers
<1> QED  BY <1>1, <1>2, <1>3, <1>4, <1>5, <1>6

LEMMA CopyEndsKeeps ==
  ASSUME IInv, CopyEnds
  PROVE  IInv'
<1> USE ConnectionAssumption, ReturnDoes
    DEF IInv, TypeOK, CopyEnds, Route, HasSocks, HasRelay, HeadEnd,
        TunnelPCs, RelayPCs, FrontPCs, request, clientVars, tunnel
<1>1. TypeOK'
  OBVIOUS
<1>2. Place'
  BY DEF Place
<1>3. Counted' /\ (method # "CONNECT" => Len(answers) <= 1)'
  BY DEF Place, Counted
<1>4. NoneCut' /\ InOrder'
  BY DEF Place, Counted, NoneCut, InOrder
<1>5. Conns'
  BY DEF Place, Conns, ClosedBehind
<1>6. Quiet'
  BY DEF Place, Quiet, TunnelDelivers
<1> QED  BY <1>1, <1>2, <1>3, <1>4, <1>5, <1>6

LEMMA FrontReadKeeps ==
  ASSUME IInv, ReadRequest("front", "frontDial")
  PROVE  IInv'
<1> USE ConnectionAssumption
    DEF IInv, TypeOK, ReadRequest, Unread, Route, HasSocks, HasRelay,
        HeadEnd, TunnelPCs, RelayPCs, FrontPCs, request, clientVars, tunnel
<1>1. TypeOK'
  OBVIOUS
<1>2. Place'
  BY DEF Place
<1>3. Counted' /\ (method # "CONNECT" => Len(answers) <= 1)'
  BY DEF Place, Counted
<1>4. NoneCut' /\ InOrder'
  BY DEF Place, Counted, NoneCut, InOrder
<1>5. Conns'
  BY DEF Place, Conns, ClosedBehind
<1>6. Quiet'
  BY DEF Place, Quiet, TunnelDelivers
<1> QED  BY <1>1, <1>2, <1>3, <1>4, <1>5, <1>6

LEMMA RelayReadKeeps ==
  ASSUME IInv, ReadRequest("relay", "relayed")
  PROVE  IInv'
<1> USE ConnectionAssumption
    DEF IInv, TypeOK, ReadRequest, Unread, Route, HasSocks, HasRelay,
        HeadEnd, TunnelPCs, RelayPCs, FrontPCs, request, clientVars, tunnel
<1>1. TypeOK'
  OBVIOUS
<1>2. Place'
  BY DEF Place
<1>3. Counted' /\ (method # "CONNECT" => Len(answers) <= 1)'
  BY DEF Place, Counted
<1>4. NoneCut' /\ InOrder'
  BY DEF Place, Counted, NoneCut, InOrder
<1>5. Conns'
  BY DEF Place, Conns, ClosedBehind
<1>6. Quiet'
  BY DEF Place, Quiet, TunnelDelivers
<1> QED  BY <1>1, <1>2, <1>3, <1>4, <1>5, <1>6

LEMMA ReadRequestFailsKeeps ==
  ASSUME IInv, NEW loop \in {"front", "relay"}, ReadRequestFails(loop)
  PROVE  IInv'
<1> USE ConnectionAssumption, ReturnDoes
    DEF IInv, TypeOK, ReadRequestFails, Route, HasSocks, HasRelay, HeadEnd,
        TunnelPCs, RelayPCs, FrontPCs, request, clientVars, tunnel
<1>1. TypeOK'
  OBVIOUS
<1>2. Place'
  BY DEF Place
<1>3. Counted' /\ (method # "CONNECT" => Len(answers) <= 1)'
  BY DEF Place, Counted
<1>4. NoneCut' /\ InOrder'
  BY DEF Place, Counted, NoneCut, InOrder
<1>5. Conns'
  BY DEF Place, Conns, ClosedBehind
<1>6. Quiet'
  BY DEF Place, Quiet, TunnelDelivers
<1> QED  BY <1>1, <1>2, <1>3, <1>4, <1>5, <1>6

LEMMA FrontDialKeeps ==
  ASSUME IInv, FrontDial
  PROVE  IInv'
<1> USE ConnectionAssumption, ReturnDoes, OpenedDoes
    DEF IInv, TypeOK, FrontDial, Route, HasSocks, HasRelay, HeadEnd,
        TunnelPCs, RelayPCs, FrontPCs, request, clientVars, tunnel
<1>1. TypeOK'
  OBVIOUS
<1>2. Place'
  BY DEF Place
<1>3. Counted' /\ (method # "CONNECT" => Len(answers) <= 1)'
  BY DEF Place, Counted
<1>4. NoneCut' /\ InOrder'
  BY DEF Place, Counted, NoneCut, InOrder
<1>5. Conns'
  BY DEF Place, Conns, ClosedBehind
<1>6. Quiet'
  BY DEF Place, Quiet, TunnelDelivers
<1> QED  BY <1>1, <1>2, <1>3, <1>4, <1>5, <1>6

LEMMA FrontedKeeps ==
  ASSUME IInv, Fronted
  PROVE  IInv'
<1> USE ConnectionAssumption
    DEF IInv, HasSocks, HasRelay, Route, HeadEnd, TunnelPCs, RelayPCs, FrontPCs,
        request, clientVars, tunnel
<1>1. taken \in Nat /\ UNCHANGED <<request, first, taken>>
  BY DEF TypeOK, Fronted
<1>2. pc = "fronted" /\ UNCHANGED tunnel
  BY DEF Fronted
<1>3. CASE Return /\ UNCHANGED <<clientVars, answers>>
  <2> USE <1>1, <1>2, <1>3, ReturnDoes
  <2>1. TypeOK'
    BY DEF TypeOK
  <2>2. Place'
    BY DEF TypeOK, Place
  <2>3. Counted' /\ (method # "CONNECT" => Len(answers) <= 1)'
    BY DEF TypeOK, Place, Counted
  <2>4. NoneCut' /\ InOrder'
    BY DEF TypeOK, Place, Counted, NoneCut, InOrder
  <2>5. Conns'
    BY DEF TypeOK, Place, Conns, ClosedBehind
  <2>6. Quiet'
    BY DEF TypeOK, Place, Quiet, TunnelDelivers
  <2> QED  BY <2>1, <2>2, <2>3, <2>4, <2>5, <2>6
<1>4. CASE /\ \E how \in {"whole", "cut"} : Answer(taken, how)
          /\ pc' = "front" /\ UNCHANGED ups
  <2>0. PICK how \in {"whole", "cut"} : Answer(taken, how)
    BY <1>4
  <2>a. /\ full' \in BOOLEAN /\ UNCHANGED <<sent, client, broken>>
        /\ answers' \in Seq([of : Nat, how : {"whole", "cut", "502"}])
        /\ Len(answers') = Len(answers) + 1
        /\ DOMAIN answers' = 1..(Len(answers) + 1)
        /\ \A i \in DOMAIN answers : answers'[i] = answers[i]
        /\ answers'[Len(answers) + 1] = [of |-> taken, how |-> how]
    BY <1>1, <2>0, AnswerDoes
  <2>b. method = "CONNECT" /\ taken = HeadEnd + Len(answers) + 1
    BY <1>1, <1>2 DEF TypeOK, Place, Counted
  <2> USE <1>1, <1>2, <1>4, <2>0, <2>a
  <2>1. TypeOK'
    BY DEF TypeOK
  <2>2. Place'
    BY DEF TypeOK, Place
  <2>3. Counted' /\ (method # "CONNECT" => Len(answers) <= 1)'
    BY DEF TypeOK, Place, Counted
  <2>4. NoneCut'
    BY <2>b DEF TypeOK, NoneCut
  <2>5. InOrder'
    <3>1. Len(answers) \in Nat /\ DOMAIN answers = 1..Len(answers)
      BY DEF TypeOK
    <3>2. answers'[Len(answers) + 1].of = HeadEnd + Len(answers) + 1
      BY <2>a, <2>b
    <3>3. InOrder /\ method' = method
      BY <1>1
    <3> QED  BY <2>a, <2>b, <3>1, <3>2, <3>3, OrderKept
  <2>6. Conns'
    BY DEF TypeOK, Place, Conns, ClosedBehind
  <2>7. Quiet'
    BY DEF TypeOK, Place, Quiet, TunnelDelivers
  <2> QED  BY <2>1, <2>2, <2>3, <2>4, <2>5, <2>6, <2>7
<1> QED  BY <1>2, <1>3, <1>4 DEF Fronted

LEMMA RelayedKeeps ==
  ASSUME IInv, Relayed
  PROVE  IInv'
<1> USE ConnectionAssumption
    DEF IInv, HasSocks, HasRelay, Route, HeadEnd, TunnelPCs, RelayPCs, FrontPCs,
        request, clientVars, tunnel
<1>1. taken \in Nat /\ UNCHANGED <<request, first, taken>>
  BY DEF TypeOK, Relayed
<1>2. pc = "relayed" /\ UNCHANGED tunnel
  BY DEF Relayed
<1>3. CASE /\ \E how \in {"whole", "502"} : Answer(taken, how)
          /\ pc' = "relay" /\ UNCHANGED ups
  <2>0. PICK how \in {"whole", "502"} : Answer(taken, how)
    BY <1>3
  <2>a. /\ full' \in BOOLEAN /\ UNCHANGED <<sent, client, broken>>
        /\ answers' \in Seq([of : Nat, how : {"whole", "cut", "502"}])
        /\ Len(answers') = Len(answers) + 1
        /\ DOMAIN answers' = 1..(Len(answers) + 1)
        /\ \A i \in DOMAIN answers : answers'[i] = answers[i]
        /\ answers'[Len(answers) + 1] = [of |-> taken, how |-> how]
    BY <1>1, <2>0, AnswerDoes
  <2>b. method = "CONNECT" /\ taken = HeadEnd + Len(answers) + 1
    BY <1>1, <1>2 DEF TypeOK, Place, Counted
  <2> USE <1>1, <1>2, <1>3, <2>0, <2>a
  <2>1. TypeOK'
    BY DEF TypeOK
  <2>2. Place'
    BY DEF TypeOK, Place
  <2>3. Counted' /\ (method # "CONNECT" => Len(answers) <= 1)'
    BY DEF TypeOK, Place, Counted
  <2>4. NoneCut'
    BY <2>b DEF TypeOK, NoneCut
  <2>5. InOrder'
    <3>1. Len(answers) \in Nat /\ DOMAIN answers = 1..Len(answers)
      BY DEF TypeOK
    <3>2. answers'[Len(answers) + 1].of = HeadEnd + Len(answers) + 1
      BY <2>a, <2>b
    <3>3. InOrder /\ method' = method
      BY <1>1
    <3> QED  BY <2>a, <2>b, <3>1, <3>2, <3>3, OrderKept
  <2>6. Conns'
    BY DEF TypeOK, Place, Conns, ClosedBehind
  <2>7. Quiet'
    BY DEF TypeOK, Place, Quiet, TunnelDelivers
  <2> QED  BY <2>1, <2>2, <2>3, <2>4, <2>5, <2>6, <2>7
<1>4. CASE Answer(taken, "cut") /\ Return
  <2>0. PICK how \in {"cut"} : Answer(taken, how)
    BY <1>4
  <2>a. /\ full' \in BOOLEAN /\ UNCHANGED <<sent, client, broken>>
        /\ answers' \in Seq([of : Nat, how : {"whole", "cut", "502"}])
        /\ Len(answers') = Len(answers) + 1
        /\ DOMAIN answers' = 1..(Len(answers) + 1)
        /\ \A i \in DOMAIN answers : answers'[i] = answers[i]
        /\ answers'[Len(answers) + 1] = [of |-> taken, how |-> how]
    BY <1>1, <2>0, AnswerDoes
  <2>b. method = "CONNECT" /\ taken = HeadEnd + Len(answers) + 1
    BY <1>1, <1>2 DEF TypeOK, Place, Counted
  <2>c. pc' = "ended"
    BY <1>4, ReturnDoes
  <2>4. NoneCut'
    <3>1. \A i \in DOMAIN answers : answers[i].how # "cut"
      BY <1>2 DEF NoneCut
    <3>2. Len(answers') - 1 = Len(answers) /\ DOMAIN answers = 1..Len(answers)
      BY <2>a DEF TypeOK
    <3>3. \A i \in 1..(Len(answers') - 1) : answers'[i] = answers[i]
      BY <2>a, <3>2
    <3> QED  BY <2>c, <3>1, <3>2, <3>3 DEF NoneCut
  <2>5. InOrder'
    <3>1. Len(answers) \in Nat /\ DOMAIN answers = 1..Len(answers)
      BY DEF TypeOK
    <3>2. answers'[Len(answers) + 1].of = HeadEnd + Len(answers) + 1
      BY <2>a, <2>b
    <3>3. InOrder /\ method' = method
      BY <1>1
    <3> QED  BY <2>a, <2>b, <3>1, <3>2, <3>3, OrderKept
  <2> USE <1>1, <1>2, <1>4, <2>0, <2>a, ReturnDoes
  <2>1. TypeOK'
    BY DEF TypeOK
  <2>2. Place'
    BY DEF TypeOK, Place
  <2>3. Counted' /\ (method # "CONNECT" => Len(answers) <= 1)'
    BY DEF TypeOK, Place, Counted
  <2>6. Conns'
    BY DEF TypeOK, Place, Conns, ClosedBehind
  <2>7. Quiet'
    BY DEF TypeOK, Place, Quiet, TunnelDelivers
  <2> QED  BY <2>1, <2>2, <2>3, <2>4, <2>5, <2>6, <2>7
<1>5. CASE Return /\ UNCHANGED <<clientVars, answers>>
  <2> USE <1>1, <1>2, <1>5, ReturnDoes
  <2>1. TypeOK'
    BY DEF TypeOK
  <2>2. Place'
    BY DEF TypeOK, Place
  <2>3. Counted' /\ (method # "CONNECT" => Len(answers) <= 1)'
    BY DEF TypeOK, Place, Counted
  <2>4. NoneCut' /\ InOrder'
    BY DEF TypeOK, Place, Counted, NoneCut, InOrder
  <2>5. Conns'
    BY DEF TypeOK, Place, Conns, ClosedBehind
  <2>6. Quiet'
    BY DEF TypeOK, Place, Quiet, TunnelDelivers
  <2> QED  BY <2>1, <2>2, <2>3, <2>4, <2>5, <2>6
<1> QED  BY <1>2, <1>3, <1>4, <1>5 DEF Relayed

LEMMA HttpKeeps ==
  ASSUME IInv, Http
  PROVE  IInv'
<1> USE ConnectionAssumption
    DEF IInv, TypeOK, Http, Route, HasSocks, HasRelay, HeadEnd, TunnelPCs,
        RelayPCs, FrontPCs, request, clientVars, tunnel
<1>1. TypeOK'
  OBVIOUS
<1>2. Place'
  BY DEF Place
<1>3. Counted' /\ (method # "CONNECT" => Len(answers) <= 1)'
  BY DEF Place, Counted
<1>4. NoneCut' /\ InOrder'
  BY DEF Place, Counted, NoneCut, InOrder
<1>5. Conns'
  BY DEF Place, Conns, ClosedBehind
<1>6. Quiet'
  BY DEF Place, Quiet, TunnelDelivers
<1> QED  BY <1>1, <1>2, <1>3, <1>4, <1>5, <1>6

LEMMA HttpFailsKeeps ==
  ASSUME IInv, HttpFails
  PROVE  IInv'
<1> USE ConnectionAssumption, ReturnDoes
    DEF IInv, TypeOK, HttpFails, Route, HasSocks, HasRelay, HeadEnd,
        TunnelPCs, RelayPCs, FrontPCs, request, clientVars, tunnel
<1>1. TypeOK'
  OBVIOUS
<1>2. Place'
  BY DEF Place
<1>3. Counted' /\ (method # "CONNECT" => Len(answers) <= 1)'
  BY DEF Place, Counted
<1>4. NoneCut' /\ InOrder'
  BY DEF Place, Counted, NoneCut, InOrder
<1>5. Conns'
  BY DEF Place, Conns, ClosedBehind
<1>6. Quiet'
  BY DEF Place, Quiet, TunnelDelivers
<1> QED  BY <1>1, <1>2, <1>3, <1>4, <1>5, <1>6

LEMMA HttpDialKeeps ==
  ASSUME IInv, HttpDial
  PROVE  IInv'
<1> USE ConnectionAssumption
    DEF IInv, HasSocks, HasRelay, Route, HeadEnd, TunnelPCs, RelayPCs, FrontPCs,
        request, clientVars, tunnel
<1>1. taken \in Nat /\ UNCHANGED <<request, first, taken>>
  BY DEF TypeOK, HttpDial
<1>2. pc = "httpDial" /\ UNCHANGED tunnel
  BY DEF HttpDial
<1>3. CASE Answer(taken, "502") /\ Return
  <2>0. PICK how \in {"502"} : Answer(taken, how)
    BY <1>3
  <2>a. /\ full' \in BOOLEAN /\ UNCHANGED <<sent, client, broken>>
        /\ answers' \in Seq([of : Nat, how : {"whole", "cut", "502"}])
        /\ Len(answers') = Len(answers) + 1
        /\ DOMAIN answers' = 1..(Len(answers) + 1)
        /\ \A i \in DOMAIN answers : answers'[i] = answers[i]
        /\ answers'[Len(answers) + 1] = [of |-> taken, how |-> how]
    BY <1>1, <2>0, AnswerDoes
  <2> USE <1>1, <1>2, <1>3, <2>0, <2>a, ReturnDoes
  <2>1. TypeOK'
    BY DEF TypeOK
  <2>2. Place'
    BY DEF TypeOK, Place
  <2>3. Counted' /\ (method # "CONNECT" => Len(answers) <= 1)'
    BY DEF TypeOK, Place, Counted
  <2>4. NoneCut' /\ InOrder'
    BY DEF TypeOK, Place, Counted, NoneCut, InOrder
  <2>5. Conns'
    BY DEF TypeOK, Place, Conns, ClosedBehind
  <2>6. Quiet'
    BY DEF TypeOK, Place, Quiet, TunnelDelivers
  <2> QED  BY <2>1, <2>2, <2>3, <2>4, <2>5, <2>6
<1>4. CASE Opened(Via) /\ pc' = "httpTunnel" /\ UNCHANGED <<clientVars, answers>>
  <2> USE <1>1, <1>2, <1>4, OpenedVia
  <2>1. TypeOK'
    BY DEF TypeOK
  <2>2. Place'
    BY DEF TypeOK, Place
  <2>3. Counted' /\ (method # "CONNECT" => Len(answers) <= 1)'
    BY DEF TypeOK, Place, Counted
  <2>4. NoneCut' /\ InOrder'
    BY DEF TypeOK, Place, Counted, NoneCut, InOrder
  <2>5. Conns'
    BY DEF TypeOK, Place, Conns, ClosedBehind
  <2>6. Quiet'
    BY DEF TypeOK, Place, Quiet, TunnelDelivers
  <2> QED  BY <2>1, <2>2, <2>3, <2>4, <2>5, <2>6
<1> QED  BY <1>2, <1>3, <1>4 DEF HttpDial

LEMMA HttpRelayedKeeps ==
  ASSUME IInv, HttpRelayed
  PROVE  IInv'
<1> USE ConnectionAssumption
    DEF IInv, HasSocks, HasRelay, Route, HeadEnd, TunnelPCs, RelayPCs, FrontPCs,
        request, clientVars, tunnel
<1>1. taken \in Nat /\ UNCHANGED <<request, first, taken>>
  BY DEF TypeOK, HttpRelayed
<1>2. pc = "httpRelay" /\ UNCHANGED tunnel
  BY DEF HttpRelayed
<1>3. CASE /\ \E how \in {"whole", "cut", "502"} : Answer(taken, how)
          /\ Return
  <2>0. PICK how \in {"whole", "cut", "502"} : Answer(taken, how)
    BY <1>3
  <2>a. /\ full' \in BOOLEAN /\ UNCHANGED <<sent, client, broken>>
        /\ answers' \in Seq([of : Nat, how : {"whole", "cut", "502"}])
        /\ Len(answers') = Len(answers) + 1
        /\ DOMAIN answers' = 1..(Len(answers) + 1)
        /\ \A i \in DOMAIN answers : answers'[i] = answers[i]
        /\ answers'[Len(answers) + 1] = [of |-> taken, how |-> how]
    BY <1>1, <2>0, AnswerDoes
  <2> USE <1>1, <1>2, <1>3, <2>0, <2>a, ReturnDoes
  <2>1. TypeOK'
    BY DEF TypeOK
  <2>2. Place'
    BY DEF TypeOK, Place
  <2>3. Counted' /\ (method # "CONNECT" => Len(answers) <= 1)'
    BY DEF TypeOK, Place, Counted
  <2>4. NoneCut' /\ InOrder'
    BY DEF TypeOK, Place, Counted, NoneCut, InOrder
  <2>5. Conns'
    BY DEF TypeOK, Place, Conns, ClosedBehind
  <2>6. Quiet'
    BY DEF TypeOK, Place, Quiet, TunnelDelivers
  <2> QED  BY <2>1, <2>2, <2>3, <2>4, <2>5, <2>6
<1> QED  BY <1>2, <1>3 DEF HttpRelayed

LEMMA NextIInv == IInv /\ [Next]_vars => IInv'
<1> SUFFICES ASSUME IInv, [Next]_vars PROVE IInv'
  OBVIOUS
<1>1. CASE Client
  BY <1>1, ClientReadsKeeps, SendKeeps, CloseKeeps DEF Client
<1>2. CASE Handle
  BY <1>2, ReadKeeps, ReadFailsKeeps, HandleConnectKeeps, CopyKeeps, CopyEndsKeeps,
     FrontReadKeeps, RelayReadKeeps, ReadRequestFailsKeeps, RelayedKeeps, HttpKeeps,
     HttpFailsKeeps, HttpRelayedKeeps DEF Handle
<1>3. CASE Upstream \/ Pump \/ PumpEnds \/ RemoteSends \/ RemoteEnds
  BY <1>3, DialKeeps, FrontDialKeeps, FrontedKeeps, HttpDialKeeps, PumpKeeps,
     PumpEndsKeeps, RemoteSendsKeeps, RemoteEndsKeeps DEF Upstream
<1>4. CASE UNCHANGED vars
  BY <1>4 DEF vars, request, clientVars, tunnel, IInv, TypeOK, Place, Counted,
     NoneCut, InOrder, Conns, ClosedBehind, Quiet, TunnelDelivers, Route,
     HasSocks, HasRelay
<1> QED  BY <1>1, <1>2, <1>3, <1>4 DEF Next

LEMMA Invariance == Spec => []IInv
  BY InitIInv, NextIInv, PTL DEF Spec

-----------------------------------------------------------------------------

\* The variables keep their types whatever the client and the far end do
\* (proxy/server.go:106-163).
THEOREM TypeCorrect == Spec => []TypeOK
<1>1. IInv => TypeOK
  BY DEF IInv
<1> QED  BY <1>1, Invariance, PTL

\* In github mode nothing is dialed past Xray and nothing reaches the relay
\* (proxy/connect.go:54-57, proxy/http.go:31-46, proxy/server.go:166-171).
THEOREM ThroughSocks == Spec => []AllThroughSocks
<1>1. IInv => AllThroughSocks
  BY DEF IInv, AllThroughSocks, Place, Conns, Route, HasSocks, HasRelay, RelayPCs,
         FrontPCs
<1> QED  BY <1>1, Invariance, PTL

\* However many requests a client sends at once, it gets one answer to each,
\* in order (proxy/connect.go:95-118, 128-162).
THEOREM InOrderAnswers == Spec => []AnswersInOrder
<1>1. IInv => AnswersInOrder
  <2> SUFFICES ASSUME IInv PROVE AnswersInOrder
    OBVIOUS
  <2>1. \A i \in DOMAIN answers :
          answers[i].of = IF method = "CONNECT" THEN HeadEnd + i ELSE HeadEnd
    BY DEF IInv, InOrder
  <2>2. method # "CONNECT" => Len(answers) <= 1
    BY DEF IInv
  <2>3. pc \in {"relay", "front"} /\ first = HeadEnd
          => Len(answers) = taken - HeadEnd
    BY DEF IInv, Counted
  <2>4. pc \in RelayPCs \cup {"ended"} /\ Route = "relay" =>
          \A i \in 1..(Len(answers) - 1) : answers[i].how # "cut"
    <3>1. Len(answers) \in Nat /\ DOMAIN answers = 1..Len(answers)
      BY DEF IInv, TypeOK
    <3>2. method \in {"CONNECT", "other"}
      BY DEF IInv, TypeOK
    <3>3. CASE pc \in {"relay", "relayed"}
      BY <3>1, <3>3 DEF IInv, NoneCut
    <3>4. CASE pc = "httpRelay"
      BY <3>1, <3>4 DEF IInv, Counted
    <3>5. CASE pc = "ended" /\ method = "CONNECT"
      BY <3>5 DEF IInv, NoneCut
    <3>6. CASE pc = "ended" /\ method = "other"
      BY <2>2, <3>1, <3>6
    <3> QED  BY <3>2, <3>3, <3>4, <3>5, <3>6 DEF RelayPCs
  <2> QED  BY <2>1, <2>2, <2>3, <2>4 DEF AnswersInOrder
<1> QED  BY <1>1, Invariance, PTL

\* No connection outlives its handler (proxy/connect.go:83, 107,
\* proxy/http.go:42).
THEOREM NothingLeftOpen == Spec => []ClosedBehind
<1>1. IInv => ClosedBehind
  BY DEF IInv, Conns
<1> QED  BY <1>1, Invariance, PTL

\* A tunnel that ends in order delivered everything, also after the client's
\* direction had ended (proxy/connect.go:84-85, proxy/http.go:44).
THEOREM TunnelIsWhole == Spec => []TunnelDelivers
<1>1. IInv => TunnelDelivers
  BY DEF IInv, Quiet
<1> QED  BY <1>1, Invariance, PTL

-----------------------------------------------------------------------------

(* What goes to the relay, and what is answered: no run checks these two.   *)

\* A request for the relay, which one of Apps Script or of a Worker carries:
\* a plain one, or one inside the TLS of a host that is neither dialed nor
\* fronted.
Relays == HasRelay /\ (method = "other" \/ Route = "relay")

\* What the relay carries the proxy never dials itself: no failure on the way
\* makes it fall back to a connection of its own, which would show the
\* network what the relay hides.
RelayOnly ==
  Relays => ups = <<>> /\ pc \notin TunnelPCs \cup FrontPCs \cup {"dial", "httpDial"}

LEMMA RelayOnlyKept == IInv /\ RelayOnly /\ [Next]_vars => RelayOnly'
<1> SUFFICES ASSUME IInv, RelayOnly, [Next]_vars, Relays'
             PROVE  /\ ups' = <<>>
                    /\ pc' \notin TunnelPCs \cup FrontPCs \cup {"dial", "httpDial"}
  BY DEF RelayOnly
<1>1. UNCHANGED request
  BY DEF Next, Client, ClientReads, Send, Close, Handle, Upstream, Read, ReadFails, HandleConnect,
     Dial, Copy, CopyEnds, ReadRequest, ReadRequestFails, FrontDial, Fronted,
     Relayed, Http, HttpFails, HttpDial, HttpRelayed, Pump, PumpEnds,
     RemoteSends, RemoteEnds, vars
<1>2. Relays
  BY <1>1 DEF Relays, HasRelay, Route, request
<1>3. ups = <<>> /\ pc \notin TunnelPCs \cup FrontPCs \cup {"dial", "httpDial"}
  BY <1>2 DEF RelayOnly
<1>4. pc = "route" => Route = "relay"
  BY <1>2 DEF IInv, Place, Relays
<1>5. ASSUME Return
      PROVE  ups' = <<>> /\ pc' = "ended"
  BY <1>3, <1>5 DEF Return
<1> USE <1>3 DEF TunnelPCs, FrontPCs
<1>6. CASE Client \/ Pump \/ PumpEnds \/ RemoteSends \/ RemoteEnds \/ UNCHANGED vars
  BY <1>6 DEF Client, ClientReads, Send, Close, Pump, PumpEnds, RemoteSends, RemoteEnds, vars
<1>7. CASE Handle \/ Upstream
  <2>1. CASE Read \/ ReadFails \/ HandleConnect
    BY <1>4, <1>5, <2>1 DEF Read, ReadFails, HandleConnect
  <2>2. CASE Dial \/ Copy \/ CopyEnds \/ FrontDial \/ Fronted \/ HttpDial
    BY <2>2 DEF Dial, Copy, CopyEnds, FrontDial, Fronted, HttpDial
  <2>3. CASE \/ ReadRequest("front", "frontDial") \/ ReadRequestFails("front")
             \/ ReadRequest("relay", "relayed") \/ ReadRequestFails("relay")
    BY <1>5, <2>3 DEF ReadRequest, ReadRequestFails
  <2>4. CASE Relayed \/ HttpRelayed \/ HttpFails
    BY <1>5, <2>4 DEF Relayed, HttpRelayed, HttpFails
  <2>5. CASE Http
    BY <1>2, <2>5 DEF Http, Relays, HasSocks, HasRelay
  <2> QED  BY <1>7, <2>1, <2>2, <2>3, <2>4, <2>5 DEF Handle, Upstream
<1> QED  BY <1>6, <1>7 DEF Next

\* In the modes that have a relay, a plain request and a request to a host
\* that the mode relays reach the outside through the relay alone, whatever
\* fails (proxy/connect.go:53-75, 128-162, proxy/http.go:31-60).
THEOREM OnlyByRelay == Spec => []RelayOnly
<1>1. Init => RelayOnly
  BY DEF Init, RelayOnly, TunnelPCs, FrontPCs
<1> QED  BY <1>1, RelayOnlyKept, Invariance, PTL DEF Spec

\* Nothing is answered that has not been taken off the connection.
AnsweredWasAsked == \A i \in DOMAIN answers : answers[i].of <= taken

LEMMA AnsweredKept == IInv /\ AnsweredWasAsked /\ [Next]_vars => AnsweredWasAsked'
<1> SUFFICES ASSUME IInv, AnsweredWasAsked, [Next]_vars
             PROVE  AnsweredWasAsked'
  OBVIOUS
<1>1. taken \in Nat /\ TypeOK
  BY ConnectionAssumption DEF IInv, TypeOK, HeadEnd
<1>2. ASSUME answers' = answers, taken' \in Nat, taken' >= taken
      PROVE  AnsweredWasAsked'
  <2>1. \A i \in DOMAIN answers : answers[i].of \in Nat
    <3>1. SUFFICES ASSUME NEW i \in 1..Len(answers)
                   PROVE  answers[i].of \in Nat
      BY <1>1 DEF TypeOK
    <3>2. answers[i] \in [of : Nat, how : {"whole", "cut", "502"}]
      BY <1>1, ElementOfSeq DEF TypeOK
    <3> QED  BY <3>2
  <2> QED  BY <1>1, <1>2, <2>1 DEF AnsweredWasAsked
<1>3. ASSUME answers = <<>>, answers' = answers
      PROVE  AnsweredWasAsked'
  BY <1>3 DEF AnsweredWasAsked
<1>4. ASSUME NEW how \in {"whole", "cut", "502"}, Answer(taken, how), taken' = taken
      PROVE  AnsweredWasAsked'
  <2>1. /\ DOMAIN answers = 1..Len(answers) /\ Len(answers) \in Nat
        /\ DOMAIN answers' = 1..(Len(answers) + 1)
        /\ \A i \in DOMAIN answers : answers'[i] = answers[i]
        /\ answers'[Len(answers) + 1].of = taken
    <3>1. DOMAIN answers = 1..Len(answers) /\ Len(answers) \in Nat
      BY <1>1 DEF TypeOK
    <3>2. /\ DOMAIN answers' = 1..(Len(answers) + 1)
          /\ \A i \in DOMAIN answers : answers'[i] = answers[i]
          /\ answers'[Len(answers) + 1] = [of |-> taken, how |-> how]
      BY <1>1, <1>4, AnswerDoes
    <3> QED  BY <3>1, <3>2
  <2> SUFFICES ASSUME NEW i \in 1..(Len(answers) + 1)
               PROVE  answers'[i].of <= taken
    BY <1>4, <2>1 DEF AnsweredWasAsked
  <2>2. CASE i \in DOMAIN answers
    BY <2>1, <2>2 DEF AnsweredWasAsked
  <2>3. CASE i = Len(answers) + 1
    BY <1>1, <2>1, <2>3
  <2> QED  BY <2>1, <2>2, <2>3
<1>5. CASE Read \/ Http
  BY <1>3, <1>5 DEF Read, Http, IInv, Counted
<1>6. CASE Fronted \/ Relayed
  BY <1>1, <1>2, <1>4, <1>6 DEF Fronted, Relayed
<1>7. CASE HttpDial \/ HttpRelayed
  BY <1>1, <1>2, <1>4, <1>7 DEF HttpDial, HttpRelayed
<1>8. CASE \/ Client \/ Pump \/ PumpEnds \/ RemoteSends \/ RemoteEnds
           \/ UNCHANGED vars
  BY <1>1, <1>2, <1>8
     DEF Client, ClientReads, Send, Close, Pump, PumpEnds, RemoteSends, RemoteEnds, vars
<1>9. CASE \/ ReadFails \/ HandleConnect \/ Dial \/ Copy \/ CopyEnds
           \/ ReadRequest("front", "frontDial") \/ ReadRequestFails("front")
           \/ FrontDial
           \/ ReadRequest("relay", "relayed") \/ ReadRequestFails("relay")
           \/ HttpFails
  BY <1>1, <1>2, <1>9
     DEF ReadFails, HandleConnect, Dial, Copy, CopyEnds, ReadRequest,
         ReadRequestFails, FrontDial, HttpFails
<1> QED  BY <1>5, <1>6, <1>7, <1>8, <1>9 DEF Next, Handle, Upstream

\* An answer goes out only for a request that has been read: the client's
\* stream of answers never runs ahead of its requests (proxy/connect.go:92-118,
\* 143-162, proxy/http.go:20-60).
THEOREM OnlyAskedIsAnswered == Spec => []AnsweredWasAsked
<1>1. Init => AnsweredWasAsked
  BY DEF Init, AnsweredWasAsked
<1> QED  BY <1>1, AnsweredKept, Invariance, PTL DEF Spec

=============================================================================
