---------------------------- MODULE TunnelStream ----------------------------
(***************************************************************************)
(* The life of the gRPC stream between tunnel-cloud and one edge node: the  *)
(* context registry of both processes, the interceptors' SendMsg and        *)
(* RecvMsg loops, the heartbeat, reconnection, and what depends on them in   *)
(* the cloud: HTTPS requests, each reduced to its first message either way   *)
(* (TunnelHttps has the rest), and a connection of the TCP proxy.            *)
(*                                                                         *)
(* Streams are numbered as the edge opens them.  A node object is named by  *)
(* the stream whose SendMsg made it, or TcpObj.  Channels have a thousand    *)
(* places here (MSG_CHANNEL_CAP), so that no send waits; a RecvMsg loop that *)
(* does is a fault that comes from outside (Clog).                          *)
(***************************************************************************)
EXTENDS Naturals, Sequences, FiniteSets

CONSTANTS Req,         \* HTTPS requests, by their uuid
          Tcp,         \* the uuids of TCP connections: none or one
          MaxStreams,  \* how many streams the edge opens at most
          MaxFaults    \* how often the network breaks or is slow, a RecvMsg loop is
                        \* clogged, a TCP connection takes the name of the node, or
                        \* a heartbeat's answer is there before its flag

Stream == 1 .. MaxStreams
TcpObj == MaxStreams + 1
Obj == Stream \cup {TcpObj}
Conn == Req \cup Tcp
Side == {"cloud", "edge"}
Other(s) == IF s = "cloud" THEN "edge" ELSE "cloud"

\* Messages: a heartbeat, the STREAM/CLOSED that ends a SendMsg, and a request or
\* its answer, which are on different sides.
Msg == {"beat", "closed"} \cup Req

ASSUME StreamAssumption ==
    /\ MaxStreams \in Nat \ {0} /\ MaxFaults \in Nat
    /\ Conn \cap {"beat", "closed"} = {} /\ Req \cap Tcp = {}
    /\ Cardinality(Tcp) <= 1

VARIABLES
    net, faults,  \* "up" or "down"; how many faults there were
    used, cur,    \* streams opened so far; the one stream.Send waits for, or 0
    over, closed, \* streams that broke or returned; those after CloseSend
    send, recv,   \* send[s][k], recv[s][k]: the SendMsg and RecvMsg of side s
    remove,       \* remove[s][k]: where a RemoveNode called for stream k is
    names,        \* names[s][k]: the bound conns that RemoveNode has read
    wire,         \* wire[s][k]: what side s has sent on k, not yet received
    restart, count, \* the heartbeat goroutine's flags, per stream
    sent,         \* the streams whose heartbeat is sent and restart not yet set
    reg,          \* reg[s]: the object the node's name leads to, or 0
    ch,           \* ch[s][o]: the channel of an object
    bound,        \* bound[s][o]: the conns of an object
    hasConns,     \* hasConns[s]: the objects whose conns pointer is not nil
    conns,        \* the cloud's registered conns
    inbox,        \* inbox[c]: the first message in the channel of a cloud conn
    serve, via,   \* where ServeHTTP stands, with which node object
    asked,        \* the requests the edge has received and not yet answered
    tcp,          \* the goroutines of a TCP connection, its token and its socket
    lost          \* history: requests that lost a race with a registration

netVars == <<net, faults, used, cur, over, closed>>
loopVars == <<send, recv, remove, names, wire, restart, count, sent>>
nodeVars == <<reg, ch, bound, hasConns>>
connVars == <<conns, inbox, serve, via, asked, tcp, lost>>
vars == <<netVars, loopVars, nodeVars, connVars>>

\* Names lead to objects, and every goroutine is at one of its places.
TypeOK ==
    /\ net \in {"up", "down"} /\ faults \in 0 .. MaxFaults
    /\ used \in 0 .. MaxStreams /\ cur \in 0 .. used
    /\ over \subseteq Stream /\ closed \subseteq Stream
    /\ send \in [Side -> [Stream -> {"off", "run", "stuck", "done"}]]
    /\ recv \in [Side -> [Stream -> {"off", "run", "stuck", "done"}]]
    /\ remove \in [Side -> [Stream -> {"off", "look", "delete", "done"}]]
    /\ names \in [Side -> [Stream -> SUBSET Conn]]
    /\ wire \in [Side -> [Stream -> Seq(Msg)]]
    /\ restart \in [Stream -> BOOLEAN] /\ count \in [Stream -> {0, 1}] /\ sent \subseteq Stream
    /\ reg \in [Side -> Obj \cup {0}] /\ ch \in [Side -> [Obj -> Seq(Msg)]]
    /\ bound \in [Side -> [Obj -> SUBSET Conn]] /\ hasConns \in [Side -> SUBSET Obj]
    /\ \A s \in Side, o \in Obj : Cardinality(bound[s][o]) <= 1
    /\ conns \subseteq Conn /\ inbox \in [Conn -> {"none", "answer", "closed"}]
    /\ serve \in [Req -> {"idle", "bind", "ask", "wait", "done"}]
    /\ via \in [Req -> Obj \cup {0}] /\ asked \subseteq Req /\ lost \subseteq Req
    /\ tcp.client \in BOOLEAN /\ tcp.socket \in BOOLEAN /\ tcp.stop \in BOOLEAN
    /\ tcp.reader \in {"off", "select", "put", "done"}
    /\ tcp.writer \in {"off", "select", "put", "done"}

Both(x) == [s \in Side |-> x]

Init ==
    /\ net = "up" /\ faults = 0 /\ used = 0 /\ cur = 0 /\ over = {} /\ closed = {}
    /\ send = Both([k \in Stream |-> "off"]) /\ recv = Both([k \in Stream |-> "off"])
    /\ remove = Both([k \in Stream |-> "off"]) /\ names = Both([k \in Stream |-> {}])
    /\ wire = Both([k \in Stream |-> <<>>])
    /\ restart = [k \in Stream |-> FALSE] /\ count = [k \in Stream |-> 0] /\ sent = {}
    /\ reg = Both(0) /\ ch = Both([o \in Obj |-> <<>>])
    /\ bound = Both([o \in Obj |-> {}]) /\ hasConns = Both({})
    /\ conns = {} /\ inbox = [c \in Conn |-> "none"]
    /\ serve = [r \in Req |-> "idle"] /\ via = [r \in Req |-> 0]
    /\ asked = {} /\ lost = {}
    /\ tcp = [reader |-> "off", writer |-> "off", stop |-> FALSE,
              client |-> TRUE, socket |-> FALSE]
-----------------------------------------------------------------------------
(* The registry: pkg/tunnel/context.                                       *)

\* Requests that are bound to the registered object and have heard nothing.
Bound == IF reg["cloud"] = 0 THEN {} ELSE bound["cloud"][reg["cloud"]]
Unheard(C) == {r \in C \cap Req : serve[r] \in {"ask", "wait"} /\ inbox[r] = "none"}

AddNodeIfNew(s, o) ==
    /\ reg' = [reg EXCEPT ![s] = IF @ = 0 THEN o ELSE @]
    /\ UNCHANGED lost

\* AddNode puts a new object in the place of whatever the name led to.
AddNode(s, o) ==
    /\ reg' = [reg EXCEPT ![s] = o]
    /\ lost' = IF s = "cloud" THEN lost \cup Unheard(Bound) ELSE lost

\* Only the first conn of an object is bound: BindNode does nothing once conns is
\* not nil.
BindNode(s, o, c) ==
    /\ hasConns' = [hasConns EXCEPT ![s] = @ \cup {o}]
    /\ bound' = IF o \in hasConns[s] THEN bound ELSE [bound EXCEPT ![s][o] = {c}]

\* Send2Node.  What goes to an object whose SendMsg is over, or never was, stays in
\* its channel unread, and is left out.
Drained(s, o) == o \in Stream /\ send[s][o] \in {"run", "stuck"}
Send2Node(s, o, m) == ch' = IF Drained(s, o) THEN [ch EXCEPT ![s][o] = Append(@, m)] ELSE ch

\* GetNode(name) and Send2Node, when there is a node.
SendToName(s, m) == Send2Node(s, reg[s], m)

TellNobody(C, m) == UNCHANGED inbox

\* Send2Conn of a message: the first is what the receiver goes by.
Tell(C, m) == inbox' = [c \in Conn |-> IF c \in C /\ inbox[c] = "none" THEN m ELSE inbox[c]]

\* RemoveNode first reads the object and its bound conns and tells those that are
\* registered.  An object that never had a conn bound is left in the registry.
LookUp(s, k) ==
    /\ remove[s][k] = "look"
    /\ IF reg[s] = 0 \/ reg[s] \notin hasConns[s]
         THEN /\ remove' = [remove EXCEPT ![s][k] = "done"]
              /\ over' = IF s = "cloud" THEN over \cup {k} ELSE over
              /\ UNCHANGED <<names, inbox, lost>>
         ELSE /\ remove' = [remove EXCEPT ![s][k] = "delete"]
              /\ names' = [names EXCEPT ![s][k] = bound[s][reg[s]]]
              /\ IF s = "cloud"
                   THEN /\ Tell(Bound \cap conns, "closed")
                        /\ lost' = lost \cup (Unheard(Bound) \ conns)
                   ELSE UNCHANGED <<inbox, lost>>
              /\ UNCHANGED over
    /\ UNCHANGED <<net, faults, used, cur, closed, send, recv, wire, restart, count, sent>>
    /\ UNCHANGED <<nodeVars, conns, serve, via, asked, tcp>>

\* Then it removes the name, whatever it leads to by now.
Delete(s, k) ==
    /\ remove[s][k] = "delete"
    /\ reg' = [reg EXCEPT ![s] = 0]
    /\ remove' = [remove EXCEPT ![s][k] = "done"] /\ names' = [names EXCEPT ![s][k] = {}]
    /\ over' = IF s = "cloud" THEN over \cup {k} ELSE over
    /\ lost' = IF s = "cloud" THEN lost \cup (Unheard(Bound) \ names[s][k]) ELSE lost
    /\ UNCHANGED <<net, faults, used, cur, closed, send, recv, wire, restart, count, sent>>
    /\ UNCHANGED <<ch, bound, hasConns, conns, inbox, serve, via, asked, tcp>>
-----------------------------------------------------------------------------
(* The stream's loops: streamclient.go, streamserver.go, streaminterceptor.go. *)

\* SendMsg(nil) begins with a node object of its own, beside RecvMsg(nil).
Starts(s, k) ==
    /\ send' = [send EXCEPT ![s][k] = "run"] /\ recv' = [recv EXCEPT ![s][k] = "run"]
    /\ AddNode(s, k)

\* What a goroutine of the cloud or of the edge does next without waiting for the
\* network.
Settling ==
    \E k \in Stream :
        \/ \E s \in Side : \/ remove[s][k] \in {"look", "delete"}
                           \/ (send[s][k] = "run" /\ ch[s][k] # <<>>)
        \/ (remove["cloud"][k] = "off" /\ "done" \in {send["cloud"][k], recv["cloud"][k]})
        \/ (remove["cloud"][k] = "done" /\ recv["cloud"][k] = "run")
        \/ (k \in over /\ recv["edge"][k] = "run")
        \/ (k \in closed \ over /\ recv["cloud"][k] = "run")
        \/ (k <= used /\ k \notin over /\ send["cloud"][k] = "off")

\* StartSendClient calls stream.Send again a second after the last one has
\* returned, when the connection is ready.
Opens ==
    /\ cur = 0 /\ net = "up" /\ used < MaxStreams
    /\ used' = used + 1 /\ cur' = used + 1
    /\ Starts("edge", used + 1)
    /\ UNCHANGED <<net, over, closed, remove, names, wire, restart, count, sent>>
    /\ UNCHANGED <<ch, bound, hasConns, conns, inbox, serve, via, asked, tcp>>

\* The second is enough for Settling, but not for the cloud to notice that the
\* connection is broken.  On a slow link it is not enough, which is a fault.
Open == Opens /\ ~Settling /\ UNCHANGED faults
OpenTooSoon == Opens /\ Settling /\ faults < MaxFaults /\ faults' = faults + 1

\* TunnelStreaming in the cloud, after the interceptor has let the stream in.
Accept(k) ==
    /\ k <= used /\ k \notin over /\ send["cloud"][k] = "off"
    /\ Starts("cloud", k)
    /\ UNCHANGED <<netVars, remove, names, wire, restart, count, sent>>
    /\ UNCHANGED <<ch, bound, hasConns, conns, inbox, serve, via, asked, tcp>>

\* The edge's SendMsg defers a RemoveNode; the cloud's does not.
SendEnds(s, k) ==
    /\ send' = [send EXCEPT ![s][k] = "done"] /\ ch' = [ch EXCEPT ![s][k] = <<>>]
    /\ restart' = IF s = "edge" THEN [restart EXCEPT ![k] = FALSE] ELSE restart
    /\ count' = IF s = "edge" THEN [count EXCEPT ![k] = 0] ELSE count
    /\ sent' = IF s = "edge" THEN sent \ {k} ELSE sent
    /\ remove' = IF s = "edge" THEN [remove EXCEPT ![s][k] = "look"] ELSE remove

Broken(s, k) == k \in over \/ (s = "edge" /\ k \in closed)

\* SendMsg takes the next message of its own object and sends it, unless it is
\* told to stop.  On a broken stream it fails, or what it sends is lost; at a
\* cloud that no longer receives it may wait for ever.
Drain(s, k) ==
    /\ send[s][k] = "run" /\ ch[s][k] # <<>>
    /\ \/ /\ Head(ch[s][k]) = "closed" \/ Broken(s, k)
          /\ SendEnds(s, k)
          /\ UNCHANGED wire
       \/ /\ Head(ch[s][k]) # "closed"
          /\ wire' = IF Broken(s, k) \/ recv[Other(s)][k] \in {"done", "stuck"} THEN wire
                     ELSE [wire EXCEPT ![s][k] = Append(@, Head(ch[s][k]))]
          /\ ch' = [ch EXCEPT ![s][k] = Tail(@)]
          /\ UNCHANGED <<send, remove, restart, count, sent>>
       \/ /\ Head(ch[s][k]) # "closed" /\ s = "edge" /\ recv["cloud"][k] = "stuck"
          /\ send' = [send EXCEPT ![s][k] = "stuck"]
          /\ ch' = [ch EXCEPT ![s][k] = Tail(@)]
          /\ UNCHANGED <<wire, remove, restart, count, sent>>
    /\ UNCHANGED <<netVars, recv, names>>
    /\ UNCHANGED <<reg, bound, hasConns, connVars>>

\* A send that waits fails when the stream breaks.
SendFails(s, k) ==
    /\ send[s][k] = "stuck" /\ k \in over
    /\ SendEnds(s, k)
    /\ UNCHANGED <<netVars, recv, names, wire, reg, bound, hasConns, connVars>>

\* The cloud returns a heartbeat to the node of that name; an answer goes to its
\* conn.  At the edge a heartbeat clears restart; a request starts a goroutine.
CloudHandles(m) ==
    /\ IF m = "beat" THEN SendToName("cloud", m) /\ UNCHANGED inbox
                     ELSE Tell({m} \cap conns, "answer") /\ UNCHANGED ch
    /\ UNCHANGED <<restart, asked>>

KeepsRestart(k, m) ==
    /\ asked' = asked \cup ({m} \cap Req)
    /\ UNCHANGED <<restart, ch, inbox>>

EdgeHandles(k, m) ==
    /\ restart' = IF m = "beat" THEN [restart EXCEPT ![k] = FALSE] ELSE restart
    /\ asked' = asked \cup ({m} \cap Req)
    /\ UNCHANGED <<ch, inbox>>

Receives(s, k) ==
    /\ recv[s][k] = "run" /\ wire[Other(s)][k] # <<>>
    /\ wire' = [wire EXCEPT ![Other(s)][k] = Tail(@)]
    /\ LET m == Head(wire[Other(s)][k])
       IN IF s = "cloud" THEN CloudHandles(m) ELSE EdgeHandles(k, m)
    /\ UNCHANGED <<net, used, cur, over, closed, send, recv, remove, names, count, sent>>
    /\ UNCHANGED <<reg, bound, hasConns, conns, serve, via, tcp, lost>>

\* A heartbeat has gone to the cloud and back, and the goroutine that sent it has not
\* set restart yet.
Early(s, k) == s = "edge" /\ k \in sent /\ Head(wire["cloud"][k]) = "beat"

\* Nothing in the code sees to it that the flag is there first; that it is not is a
\* disturbance, as the flag then stays and ends the stream.
Receive(s, k) == Receives(s, k) /\ ~Early(s, k) /\ UNCHANGED faults
ReceiveEarly(k) ==
    /\ Receives("edge", k) /\ Early("edge", k)
    /\ faults < MaxFaults /\ faults' = faults + 1

\* RecvMsg fails, and tells the node of that name to stop sending.
ReceiveFails(s, k) ==
    /\ recv[s][k] = "run"
    /\ k \in over \/ (s = "cloud" /\ k \in closed /\ wire["edge"][k] = <<>>)
    /\ recv' = [recv EXCEPT ![s][k] = "done"]
    /\ wire' = [wire EXCEPT ![Other(s)][k] = <<>>]
    /\ SendToName(s, "closed")
    /\ UNCHANGED <<netVars, send, remove, names, restart, count, sent>>
    /\ UNCHANGED <<reg, bound, hasConns, connVars>>

\* TunnelStreaming returns with the first error of the two, and the interceptor
\* removes the node before it returns in turn.
HandlerReturns(k) ==
    /\ remove["cloud"][k] = "off"
    /\ send["cloud"][k] = "done" \/ recv["cloud"][k] = "done"
    /\ remove' = [remove EXCEPT !["cloud"][k] = "look"]
    /\ UNCHANGED <<netVars, send, recv, names, wire, restart, count, sent, nodeVars, connVars>>

\* stream.Send returns with the first error, too; SendMsg's comes after its defer.
SendReturns ==
    /\ cur # 0
    /\ remove["edge"][cur] = "done" \/ recv["edge"][cur] = "done"
    /\ closed' = closed \cup {cur} /\ cur' = 0
    /\ UNCHANGED <<net, faults, used, over, loopVars, nodeVars, connVars>>
-----------------------------------------------------------------------------
(* The heartbeat, and what ends the edge's process.                        *)

Exits ==
    /\ cur' = 0 /\ over' = over \cup 1 .. used
    /\ send' = [send EXCEPT !["edge"] = [k \in Stream |-> IF k <= used THEN "done" ELSE "off"]]
    /\ recv' = [recv EXCEPT !["edge"] = [k \in Stream |-> IF k <= used THEN "done" ELSE "off"]]
    /\ remove' = [remove EXCEPT !["edge"] = [k \in Stream |-> "off"]]
    /\ names' = [names EXCEPT !["edge"] = [k \in Stream |-> {}]]
    /\ reg' = [reg EXCEPT !["edge"] = 0]
    /\ ch' = [ch EXCEPT !["edge"] = [o \in Obj |-> <<>>]]
    /\ bound' = [bound EXCEPT !["edge"] = [o \in Obj |-> {}]]
    /\ hasConns' = [hasConns EXCEPT !["edge"] = {}]
    /\ asked' = {}
    /\ wire' = Both([k \in Stream |-> <<>>])
    /\ restart' = [k \in Stream |-> FALSE] /\ count' = [k \in Stream |-> 0] /\ sent' = {}
    /\ UNCHANGED <<net, faults, used, closed, conns, inbox, serve, via, tcp, lost>>

\* Something is under way that a minute is enough for.
Moving ==
    \E k \in Stream :
        \/ \E s \in Side : \/ (send[s][k] = "run" /\ ch[s][k] # <<>>)
                           \/ (recv[s][k] = "run" /\ wire[Other(s)][k] # <<>>)
                           \/ (send[s][k] = "stuck" /\ k \in over)
        \/ k \in sent
        \/ (k <= used /\ k \notin over /\ send["cloud"][k] = "off")

\* The heartbeat goroutine of a stream, once a minute while SendMsg runs, first sends
\* a heartbeat.
Beats(k) ==
    /\ sent' = sent \cup {k}
    /\ Send2Node("edge", k, "beat")
    /\ UNCHANGED <<restart, count>>

\* Then it sets restart, whatever has been received in between.
SetsRestart(k) ==
    /\ k \in sent /\ sent' = sent \ {k}
    /\ restart' = [restart EXCEPT ![k] = TRUE] /\ count' = [count EXCEPT ![k] = 0]
    /\ UNCHANGED <<netVars, send, recv, remove, names, wire, nodeVars, connVars>>

Missed(k) ==
    /\ count' = [count EXCEPT ![k] = 1]
    /\ Send2Node("edge", k, "closed")
    /\ UNCHANGED <<restart, sent>>

Tick(k) ==
    /\ send["edge"][k] \in {"run", "stuck"} /\ ~Moving
    /\ ~(restart[k] /\ count[k] = 1)
    /\ IF restart[k] THEN Missed(k) ELSE Beats(k)
    /\ UNCHANGED <<netVars, send, recv, remove, names, wire, reg, bound, hasConns, connVars>>

\* A second minute without a heartbeat and without an end of SendMsg.
TickExits(k) ==
    /\ send["edge"][k] \in {"run", "stuck"} /\ ~Moving
    /\ restart[k] /\ count[k] = 1
    /\ Exits

\* The connection was not ready for three minutes.
MonitorExits ==
    /\ net = "down" /\ \E k \in Stream : send["edge"][k] \in {"run", "stuck"}
    /\ Exits

NetDown ==
    /\ net = "up" /\ faults < MaxFaults
    /\ net' = "down" /\ faults' = faults + 1 /\ over' = over \cup 1 .. used
    /\ UNCHANGED <<used, cur, closed, loopVars, nodeVars, connVars>>

NetUp ==
    /\ net = "down" /\ net' = "up"
    /\ UNCHANGED <<faults, used, cur, over, closed, loopVars, nodeVars, connVars>>

\* The cloud's RecvMsg waits for room in the channel of a conn nobody reads (see
\* TunnelHttps, Clogged).
Clog(k) ==
    /\ recv["cloud"][k] = "run" /\ faults < MaxFaults
    /\ recv' = [recv EXCEPT !["cloud"][k] = "stuck"] /\ faults' = faults + 1
    /\ UNCHANGED <<net, used, cur, over, closed, send, remove, names, wire, restart, count, sent>>
    /\ UNCHANGED <<nodeVars, connVars>>
-----------------------------------------------------------------------------
(* HTTPS requests: ServeHTTP in the cloud, Request at the edge.            *)

Goes(r, pc) == serve' = [serve EXCEPT ![r] = pc]

FindNode(r) ==
    /\ serve[r] = "idle"
    /\ via' = [via EXCEPT ![r] = reg["cloud"]]
    /\ Goes(r, IF reg["cloud"] = 0 THEN "done" ELSE "bind")
    /\ UNCHANGED <<netVars, loopVars, nodeVars, conns, inbox, asked, tcp, lost>>

Bind(r) ==
    /\ serve[r] = "bind"
    /\ BindNode("cloud", via[r], r)
    /\ lost' = IF via[r] = reg["cloud"] THEN lost ELSE lost \cup {r}
    /\ Goes(r, "ask")
    /\ UNCHANGED <<netVars, loopVars, reg, ch, conns, inbox, via, asked, tcp>>

Ask(r) ==
    /\ serve[r] = "ask"
    /\ conns' = conns \cup {r}
    /\ Send2Node("cloud", via[r], r)
    /\ Goes(r, "wait")
    /\ UNCHANGED <<netVars, loopVars, reg, bound, hasConns, inbox, via, asked, tcp, lost>>

\* The first message ends the wait.  After a CLOSED ServeHTTP gives up and leaves
\* its conn registered.
Hear(r) ==
    /\ serve[r] = "wait" /\ inbox[r] # "none"
    /\ conns' = IF inbox[r] = "answer" THEN conns \ {r} ELSE conns
    /\ Goes(r, "done")
    /\ UNCHANGED <<netVars, loopVars, nodeVars, inbox, via, asked, tcp, lost>>

\* The edge answers through the node of its name, and binds the conn to it.
Answer(r) ==
    /\ r \in asked /\ asked' = asked \ {r}
    /\ SendToName("edge", r)
    /\ IF reg["edge"] = 0 THEN UNCHANGED <<bound, hasConns>>
                          ELSE BindNode("edge", reg["edge"], r)
    /\ UNCHANGED <<netVars, loopVars, reg, conns, inbox, serve, via, tcp, lost>>
-----------------------------------------------------------------------------
(* The TCP proxy's end in the cloud.  NewTcpConn makes an object that no     *)
(* SendMsg takes anything from, so that nothing of a connection gets to the  *)
(* edge: its handlers there (tcpprotocol.go) are never called.              *)

\* A connection is accepted while a node is registered.
TcpAccept(c) ==
    /\ tcp.reader = "off" /\ reg["cloud"] # 0
    /\ faults < MaxFaults /\ faults' = faults + 1
    /\ conns' = conns \cup {c}
    /\ AddNode("cloud", TcpObj) /\ BindNode("cloud", TcpObj, c)
    /\ tcp' = [tcp EXCEPT !.reader = "select", !.writer = "select", !.socket = TRUE]
    /\ UNCHANGED <<net, used, cur, over, closed, loopVars, ch, inbox, serve, via, asked>>

TcpClientLeaves ==
    /\ tcp.reader # "off" /\ tcp.client
    /\ tcp' = [tcp EXCEPT !.client = FALSE]
    /\ UNCHANGED <<netVars, loopVars, nodeVars, conns, inbox, serve, via, asked, lost>>


\* Read: the token ends it; otherwise it reads, and a failed read is a cleanUp.
\* What it reads goes to a channel nobody drains, and is left out.
TcpRead ==
    /\ \/ /\ tcp.reader = "select" /\ tcp.stop
          /\ tcp' = [tcp EXCEPT !.stop = FALSE, !.socket = FALSE, !.reader = "done"]
       \/ /\ tcp.reader = "select" /\ ~tcp.stop /\ (~tcp.client \/ ~tcp.socket)
          /\ tcp' = [tcp EXCEPT !.reader = "put"]
       \/ /\ tcp.reader = "put" /\ ~tcp.stop
          /\ tcp' = [tcp EXCEPT !.stop = TRUE, !.reader = "select"]
    /\ UNCHANGED <<netVars, loopVars, nodeVars, conns, inbox, serve, via, asked, lost>>

\* Write: a STREAM/CLOSED is written out as no data, which fails on a closed
\* socket; a failed write is a cleanUp.  The token closes the socket and, once,
\* unbinds and forgets the conn (closeOpposite).
TcpWrite(c) ==
    /\ \/ /\ tcp.writer = "select" /\ inbox[c] # "none"
          /\ inbox' = [inbox EXCEPT ![c] = "none"]
          /\ tcp' = IF tcp.socket THEN tcp ELSE [tcp EXCEPT !.writer = "put"]
          /\ UNCHANGED <<conns, bound>>
       \/ /\ tcp.writer = "put" /\ ~tcp.stop
          /\ tcp' = [tcp EXCEPT !.stop = TRUE, !.writer = "select"]
          /\ UNCHANGED <<conns, bound, inbox>>
       \/ /\ tcp.writer = "select" /\ tcp.stop
          /\ tcp' = [tcp EXCEPT !.stop = FALSE, !.socket = FALSE, !.writer = "done"]
          /\ conns' = conns \ {c}
          /\ bound' = [bound EXCEPT !["cloud"][TcpObj] = @ \ {c}]
          /\ UNCHANGED inbox
    /\ UNCHANGED <<netVars, loopVars, reg, ch, hasConns, serve, via, asked, lost>>
-----------------------------------------------------------------------------
Loop(s, k) == Receive(s, k) \/ ReceiveFails(s, k)
Sender(s, k) == Drain(s, k) \/ SendFails(s, k)
Heart(k) == Tick(k) \/ TickExits(k) \/ SetsRestart(k)
Environment ==
    \/ NetDown \/ NetUp \/ MonitorExits \/ OpenTooSoon \/ TcpClientLeaves
    \/ \E k \in Stream : Clog(k) \/ ReceiveEarly(k)

Next ==
    \/ Open \/ SendReturns \/ Environment \/ TcpRead
    \/ \E k \in Stream : \/ Accept(k) \/ HandlerReturns(k) \/ Heart(k)
                         \/ \E s \in Side : \/ Sender(s, k) \/ Loop(s, k)
                                            \/ LookUp(s, k) \/ Delete(s, k)
    \/ \E r \in Req : FindNode(r) \/ Bind(r) \/ Ask(r) \/ Hear(r) \/ Answer(r)
    \/ \E c \in Tcp : TcpAccept(c) \/ TcpWrite(c)

\* What one goroutine does step after step: the cloud's handler of a stream, with the
\* interceptor around it, and the edge's SendMsg with its defer.
Removes(s, k) == LookUp(s, k) \/ Delete(s, k)
Handler(k) == Accept(k) \/ HandlerReturns(k) \/ Removes("cloud", k)
SendMsg(k) == Sender("edge", k) \/ Removes("edge", k)

\* Every goroutine that can go on does, a minute passes, and the network returns.
\* Nobody has to ask anything.
Fairness ==
    /\ WF_vars(Open) /\ WF_vars(SendReturns) /\ WF_vars(NetUp) /\ WF_vars(TcpRead)
    /\ \A k \in Stream : /\ WF_vars(Handler(k)) /\ WF_vars(SendMsg(k))
                         /\ WF_vars(Sender("cloud", k)) /\ WF_vars(Heart(k))
                         /\ \A s \in Side : WF_vars(Loop(s, k))
    /\ \A r \in Req : /\ WF_vars(Bind(r) \/ Ask(r) \/ Hear(r)) /\ WF_vars(Answer(r))
    /\ \A c \in Tcp : WF_vars(TcpWrite(c))

Spec == Init /\ [][Next]_vars
FairSpec == Spec /\ Fairness
-----------------------------------------------------------------------------
\* A disturbance does not start an avalanche: the old stream's clean-up may close
\* the new one's sender or remove its node, but that stops after a few reconnections
\* (streaminterceptor.go:232, :288).  A link that is slow each time, or a heartbeat's
\* answer that is received before its flag is set each time (:125, :132, :186), can keep
\* it going, and is a disturbance each time.
FewReconnections == used <= 1 + 2 * faults

\* What is sent to the name of the node goes out on a stream both ends work on.
Reachable ==
    /\ cur # 0 /\ reg["cloud"] = cur /\ cur \notin over \cup closed
    /\ \A s \in Side : send[s][cur] = "run" /\ recv[s][cur] = "run"

\* Once disturbances cease, answers that come before their flags among them, the node
\* is reachable for good: heartbeats find out a node that was removed or replaced in the
\* registry, and the edge connects again (streaminterceptor.go SendMsg,
\* streamprotocol.go HeartbeatHandler, grpcclient.go StartSendClient).
ReachableInTheEnd == <>[]Reachable

\* The node's name leads nowhere at the edge: an old SendMsg has removed it.
EdgeForgot == reg["edge"] = 0

\* Every request ends, answered or told of the broken stream, except those that
\* are not bound (all but the first of an object), those that lost a race with a
\* registration, and those the edge cannot answer (context_factory.go RemoveNode).
BoundRequestsEnd ==
    \A r \in Req : serve[r] = "wait" ~>
        \/ serve[r] = "done" \/ r \in lost \/ EdgeForgot
        \/ via[r] # 0 /\ r \notin bound["cloud"][via[r]]

=============================================================================
