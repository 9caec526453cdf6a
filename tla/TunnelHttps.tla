---------------------------- MODULE TunnelHttps ----------------------------
(***************************************************************************)
(* HTTPS requests proxied through one tunnel, pkg/tunnel/proxy/https: a     *)
(* requester in the cloud, tunnel-cloud's ServeHTTP, the gRPC stream to     *)
(* tunnel-edge, tunnel-edge's Request, and the component on the edge node   *)
(* that answers.  The stream stays up and keeps its order; what happens     *)
(* when it breaks is outside this module.                                  *)
(*                                                                         *)
(* A side's `wire' is the channel of its node object together with the     *)
(* stream it is drained into.  The bodies are numbered pieces, and 0 is an *)
(* empty Data.  A send that blocks is an action that waits for room.       *)
(***************************************************************************)
EXTENDS Naturals, Sequences, FiniteSets

CONSTANTS Req,       \* the requests, each named by its uuid
          Upgrade,   \* those the component answers with 101
          MaxLeft,   \* how many of the clients may go away
          MayFail,   \* those the component may refuse
          Pieces,    \* Pieces[s][r]: how many pieces the end at s has at most
          Cap,       \* MSG_CHANNEL_CAP, of conn.ch and of readCh
          WireCap    \* the room in node.ch and in the stream, together

Side == {"cloud", "edge"}
Other(s) == IF s = "cloud" THEN "edge" ELSE "cloud"

ASSUME TunnelAssumption ==
    /\ Upgrade \subseteq Req /\ MayFail \subseteq Req
    /\ Pieces \in [Side -> [Req -> Nat]]
    /\ MaxLeft \in Nat /\ Cap \in Nat \ {0} /\ WireCap \in Nat \ {0}

VARIABLES
    serve,    \* serve[r]: where ServeHTTP stands
    request,  \* request[r]: where the edge's Request stands
    conns,    \* conns[s]: the uuids in the connContext of side s
    ch,       \* ch[s][r]: the channel of the conn object
    wire,     \* wire[s]: what side s has sent and the other has not received
    hand,     \* hand[s]: the messages s's RecvMsg is blocked on, at most one
    reader,   \* reader[s][r]: NetRead, IoRead, or the reader of a plain body
    writer,   \* writer[s][r]: NetWrite, IoWrite
    stop,     \* the sides and requests whose `stop' token is in its channel
    readCh,   \* readCh[r]: between the reader of a plain body and its sender
    open,     \* open[s]: the requests whose connection at side s is open
    left,     \* the requests whose client went away
    said, heard   \* see HttpsRelay

procs == <<serve, request, reader, writer>>
links == <<conns, ch, wire, hand, stop, readCh>>
ends == <<open, left, said, heard>>
vars == <<procs, links, ends>>

Msg == [topic : Req, type : {"CONNECTING", "CONNECTED", "TRANSNMISSION", "CLOSED"},
        data : Nat]

M(r, type, data) == [topic |-> r, type |-> type, data |-> data]

\* No channel holds more than it was made for, and a RecvMsg loop has at most one
\* message in hand (MSG_CHANNEL_CAP, conn.go Send2Conn, node.go Send2Node).
TypeOK ==
    /\ serve \in [Req -> {"idle", "wait", "http", "raw", "done"}]
    /\ request \in [Req -> {"off", "dial", "reply", "register", "confirm", "http",
                            "abort", "last", "raw", "done", "failed"}]
    /\ reader \in [Side -> [Req -> {"off", "run", "ended", "done"}]]
    /\ writer \in [Side -> [Req -> {"off", "run", "done"}]]
    /\ conns \in [Side -> SUBSET Req] /\ open \in [Side -> SUBSET Req]
    /\ ch \in [Side -> [Req -> Seq(Msg)]]
    /\ \A s \in Side : \A r \in Req : Len(ch[s][r]) <= Cap
    /\ wire \in [Side -> Seq(Msg)] /\ \A s \in Side : Len(wire[s]) <= WireCap
    /\ hand \in [Side -> SUBSET Msg] /\ \A s \in Side : \A m, n \in hand[s] : m = n
    /\ readCh \in [Req -> Seq(Msg)] /\ \A r \in Req : Len(readCh[r]) <= Cap
    /\ stop \subseteq Side \X Req /\ left \subseteq Req
    /\ said \in [Side -> [Req -> Nat]] /\ heard \in [Side -> [Req -> Seq(Nat)]]

Init ==
    /\ serve = [r \in Req |-> "idle"] /\ request = [r \in Req |-> "off"]
    /\ conns = [s \in Side |-> {}]
    /\ ch = [s \in Side |-> [r \in Req |-> <<>>]]
    /\ wire = [s \in Side |-> <<>>] /\ hand = [s \in Side |-> {}]
    /\ reader = [s \in Side |-> [r \in Req |-> "off"]]
    /\ writer = [s \in Side |-> [r \in Req |-> "off"]]
    /\ stop = {} /\ readCh = [r \in Req |-> <<>>]
    /\ open = [s \in Side |-> IF s = "cloud" THEN Req ELSE {}]
    /\ left = {}
    /\ said = [s \in Side |-> [r \in Req |-> 0]]
    /\ heard = [s \in Side |-> [r \in Req |-> <<>>]]
-----------------------------------------------------------------------------
\* A request is over for its client when ServeHTTP has returned; a hijacked
\* connection, when its writer has.
Over == {r \in Req : serve[r] = "done" \/ writer["cloud"][r] = "done"}

Add(s, r) == conns' = [conns EXCEPT ![s] = @ \cup {r}]
RemoveNothing(s, r) == UNCHANGED conns
Remove(s, r) == conns' = [conns EXCEPT ![s] = @ \ {r}]

\* node.Send2Node waits while the channel is full.
Send2Node(s, m) == /\ Len(wire[s]) < WireCap
                   /\ wire' = [wire EXCEPT ![s] = Append(@, m)]

\* <-conn.ConnRecv()
Take(s, r) == ch[s][r] # <<>> /\ ch' = [ch EXCEPT ![s][r] = Tail(@)]

Close(s, r) == open' = [open EXCEPT ![s] = @ \ {r}]

\* The end of what was read, with the piece that came with it.
UnmarkedEnd(r, d) == M(r, "TRANSNMISSION", d)
EndOf(r, d) == M(r, "CLOSED", d)

Hears(s, r, d) == heard' = [heard EXCEPT ![s][r] = IF d = 0 THEN @ ELSE Append(@, d)]

Says(s, r, d) == said' = [said EXCEPT ![s][r] = IF d = 0 THEN @ ELSE d]

\* What a Read of the end at s may return: the next piece, and nothing once the
\* connection was closed under it.
Unread(s, r) == IF r \in open[s] /\ said[s][r] < Pieces[s][r] THEN {said[s][r] + 1} ELSE {}
-----------------------------------------------------------------------------
\* The two RecvMsg loops.  CONNECTING starts a goroutine; another HTTPS message
\* goes to the channel of its conn, or is dropped when nobody registered one.
\* While that channel is full the loop is blocked, for every request of the node.
RecvMsg(s) ==
    /\ hand[s] = {} /\ wire[Other(s)] # <<>>
    /\ wire' = [wire EXCEPT ![Other(s)] = Tail(@)]
    /\ LET m == Head(wire[Other(s)])
           r == m.topic
       IN CASE m.type = "CONNECTING" ->
                 request' = [request EXCEPT ![r] = "dial"] /\ UNCHANGED <<ch, hand>>
            [] m.type # "CONNECTING" /\ r \notin conns[s] ->
                 UNCHANGED <<request, ch, hand>>
            [] m.type # "CONNECTING" /\ r \in conns[s] /\ Len(ch[s][r]) < Cap ->
                 ch' = [ch EXCEPT ![s][r] = Append(@, m)] /\ UNCHANGED <<request, hand>>
            [] OTHER ->
                 hand' = [hand EXCEPT ![s] = {m}] /\ UNCHANGED <<request, ch>>
    /\ UNCHANGED <<serve, reader, writer, conns, stop, readCh, ends>>

\* The blocked loop goes on when there is room, if there ever is.
Send2Conn(s) ==
    \E m \in hand[s] :
        /\ Len(ch[s][m.topic]) < Cap
        /\ ch' = [ch EXCEPT ![s][m.topic] = Append(@, m)]
        /\ hand' = [hand EXCEPT ![s] = {}]
        /\ UNCHANGED <<procs, conns, wire, stop, readCh, ends>>
-----------------------------------------------------------------------------
\* The client goes away; ServeHTTP learns of it from the request's context or
\* from the connection it reads.
Leave(r) ==
    /\ r \notin left \cup Over /\ Cardinality(left) < MaxLeft
    /\ left' = left \cup {r} /\ Close("cloud", r)
    /\ UNCHANGED <<procs, links, said, heard>>

\* The body of a request is read whole, as one piece; one that is to be upgraded
\* has none.
Body(r) == {0} \cup IF r \in Upgrade THEN {} ELSE Unread("cloud", r)

\* ServeHTTP registers the conn and sends the request, body and all, to the node.
\* If the client is gone the body may be unreadable: the conn stays registered.
ServeHTTP(r) ==
    /\ serve[r] = "idle"
    /\ Add("cloud", r)
    /\ \/ /\ \E d \in Body(r) : /\ Send2Node("cloud", M(r, "CONNECTING", d))
                                /\ Says("cloud", r, d)
          /\ serve' = [serve EXCEPT ![r] = "wait"]
       \/ /\ r \in left
          /\ serve' = [serve EXCEPT ![r] = "done"]
          /\ UNCHANGED <<wire, said>>
    /\ UNCHANGED <<request, reader, writer, ch, hand, stop, readCh, open, left, heard>>

\* The first message answers the request.  ServeHTTP confirms it and goes on as
\* its status says.  It looks for 101 only: the status of a plain answer is never
\* written, and its client sees 200.  Until this message comes ServeHTTP looks at
\* nothing else, the client's leaving included.
Confirm(r) ==
    /\ serve[r] = "wait"
    /\ Take("cloud", r)
    /\ Send2Node("cloud", M(r, "CONNECTED", 0))
    /\ IF r \in Upgrade
         THEN /\ serve' = [serve EXCEPT ![r] = "raw"]
              /\ reader' = [reader EXCEPT !["cloud"][r] = "run"]
              /\ writer' = [writer EXCEPT !["cloud"][r] = "run"]
         ELSE /\ serve' = [serve EXCEPT ![r] = "http"]
              /\ UNCHANGED <<reader, writer>>
    /\ UNCHANGED <<request, conns, hand, stop, readCh, ends>>

\* The data of a message is written before its type is looked at.
WritesUnlessClosed(r, m) == Hears("cloud", r, IF r \in left \/ m.type = "CLOSED" THEN 0 ELSE m.data)
Writes(r, m) == Hears("cloud", r, IF r \in left THEN 0 ELSE m.data)

\* handleServerHttp: a message is written to the client, and the last one ends
\* the loop.
ServerHttpRecv(r) ==
    /\ serve[r] = "http"
    /\ Take("cloud", r)
    /\ LET m == Head(ch["cloud"][r])
       IN /\ Writes(r, m)
          /\ IF m.type = "CLOSED"
               THEN serve' = [serve EXCEPT ![r] = "done"] /\ Remove("cloud", r)
               ELSE UNCHANGED <<serve, conns>>
    /\ UNCHANGED <<request, reader, writer, wire, hand, stop, readCh, open, left, said>>

TellsTheEdge(r) == Send2Node("cloud", M(r, "CLOSED", 0))

\* handleServerHttp: the request's context is done.
ServerHttpLeave(r) ==
    /\ serve[r] = "http" /\ r \in left
    /\ TellsTheEdge(r)
    /\ serve' = [serve EXCEPT ![r] = "done"]
    /\ Remove("cloud", r)
    /\ UNCHANGED <<request, reader, writer, ch, hand, stop, readCh, ends>>
-----------------------------------------------------------------------------
\* Request: dial the component, write the request and read the response's head,
\* with no deadline.  The request is built without a body (http.NewRequest gets
\* nil): the piece that CONNECTING brought goes no further.  A failure is only
\* logged.
Dial(r) ==
    /\ request[r] = "dial"
    /\ \/ /\ request' = [request EXCEPT ![r] = "reply"]
          /\ open' = [open EXCEPT !["edge"] = @ \cup {r}]
       \/ /\ r \in MayFail
          /\ request' = [request EXCEPT ![r] = "failed"]
          /\ UNCHANGED open
    /\ UNCHANGED <<serve, reader, writer, links, left, said, heard>>

\* The answer goes to the cloud first, and the conn is registered afterwards.
Reply(r) ==
    /\ request[r] = "reply"
    /\ Send2Node("edge", M(r, "CONNECTED", 0))
    /\ request' = [request EXCEPT ![r] = "register"]
    /\ UNCHANGED <<serve, reader, writer, conns, ch, hand, stop, readCh, ends>>

Register(r) ==
    /\ request[r] = "register"
    /\ Add("edge", r)
    /\ request' = [request EXCEPT ![r] = "confirm"]
    /\ UNCHANGED <<serve, reader, writer, ch, wire, hand, stop, readCh, ends>>

\* Messages are thrown away until the cloud's confirmation.
AwaitConfirm(r) ==
    /\ request[r] = "confirm"
    /\ Take("edge", r)
    /\ IF Head(ch["edge"][r]).type # "CONNECTED"
         THEN UNCHANGED <<request, reader>>
         ELSE \/ /\ r \in Upgrade
                 /\ request' = [request EXCEPT ![r] = "raw"]
                 /\ UNCHANGED reader
              \/ /\ r \notin Upgrade
                 /\ request' = [request EXCEPT ![r] = "http"]
                 /\ reader' = [reader EXCEPT !["edge"][r] = "run"]
    /\ UNCHANGED <<serve, writer, conns, wire, hand, stop, readCh, ends>>

\* handleClientSwitchingProtocols sends what was read with the response's head,
\* then starts IoRead and IoWrite.
SwitchProtocols(r) ==
    /\ request[r] = "raw"
    /\ \E d \in Unread("edge", r) : /\ Send2Node("edge", M(r, "TRANSNMISSION", d))
                                    /\ Says("edge", r, d)
    /\ request' = [request EXCEPT ![r] = "done"]
    /\ reader' = [reader EXCEPT !["edge"][r] = "run"]
    /\ writer' = [writer EXCEPT !["edge"][r] = "run"]
    /\ UNCHANGED <<serve, conns, ch, hand, stop, readCh, open, left, heard>>
-----------------------------------------------------------------------------
ReaderForgets(s, r) ==
    /\ reader' = [reader EXCEPT ![s][r] = "done"]
    /\ stop' = stop \cup {<<s, r>>}
    /\ Close(s, r) /\ Remove(s, r)

ReaderDone(s, r) ==
    /\ reader' = [reader EXCEPT ![s][r] = "done"]
    /\ stop' = stop \cup {<<s, r>>}
    /\ Close(s, r) /\ UNCHANGED conns

\* NetRead and IoRead: what the end says goes to the other side.  Its end, which
\* may bring the last piece, goes there as CLOSED and stops the writer here.  The
\* component ends when it likes, the client's connection when somebody closes it.
NetRead(s, r) ==
    /\ r \in Upgrade /\ reader[s][r] = "run"
    /\ \/ /\ \E d \in Unread(s, r) : /\ Send2Node(s, M(r, "TRANSNMISSION", d))
                                     /\ Says(s, r, d)
          /\ UNCHANGED <<reader, stop, open, conns>>
       \/ /\ s = "edge" \/ r \notin open[s]
          /\ \E d \in Unread(s, r) \cup {0} : /\ Send2Node(s, EndOf(r, d))
                                              /\ Says(s, r, d)
          /\ ReaderDone(s, r)
    /\ UNCHANGED <<serve, request, writer, ch, hand, readCh, left, heard>>

WriterDone(s, r) ==
    /\ writer' = [writer EXCEPT ![s][r] = "done"]
    /\ Remove(s, r) /\ Close(s, r)

\* NetWrite and IoWrite: what the other side said is written out, until it closes,
\* a write fails or the reader stops this loop.
NetWrite(s, r) ==
    /\ writer[s][r] = "run"
    /\ \/ /\ Take(s, r)
          /\ LET m == Head(ch[s][r])
                 failed == m.data # 0 /\ r \notin open[s]
             IN /\ Hears(s, r, IF failed THEN 0 ELSE m.data)
                /\ \/ m.type # "CLOSED" /\ UNCHANGED <<writer, conns, open>>
                   \/ (m.type = "CLOSED" \/ failed) /\ WriterDone(s, r)
          /\ UNCHANGED stop
       \/ /\ <<s, r>> \in stop
          /\ stop' = stop \ {<<s, r>>}
          /\ WriterDone(s, r)
          /\ UNCHANGED <<ch, heard>>
    /\ UNCHANGED <<serve, request, reader, wire, hand, readCh, left, said>>
-----------------------------------------------------------------------------
\* The reader of a plain body: pieces, then the end, into readCh.
ReadBody(r) ==
    /\ r \notin Upgrade /\ reader["edge"][r] = "run"
    /\ Len(readCh[r]) < Cap
    /\ \/ \E d \in Unread("edge", r) :
             /\ readCh' = [readCh EXCEPT ![r] = Append(@, M(r, "TRANSNMISSION", d))]
             /\ Says("edge", r, d)
             /\ UNCHANGED reader
       \/ \E d \in Unread("edge", r) \cup {0} :
             /\ readCh' = [readCh EXCEPT ![r] = Append(@, EndOf(r, d))]
             /\ Says("edge", r, d)
             /\ reader' = [reader EXCEPT !["edge"][r] = "ended"]
    /\ UNCHANGED <<serve, request, writer, conns, ch, wire, hand, stop, open, left, heard>>

\* handleClientHttp: the cloud closes the request; the component's connection is
\* closed, and the loop waits for its reader.
ClientHttpClosed(r) ==
    /\ request[r] = "http"
    /\ Take("edge", r)
    /\ IF Head(ch["edge"][r]).type = "CLOSED"
         THEN /\ Close("edge", r)
              /\ request' = [request EXCEPT ![r] = "abort"]
         ELSE UNCHANGED <<open, request>>
    /\ UNCHANGED <<serve, reader, writer, conns, wire, hand, stop, readCh, left, said, heard>>

\* handleClientHttp: the reader's next message goes to the cloud.
ClientHttpSend(r) ==
    /\ request[r] = "http"
    /\ IF readCh[r] = <<>>
         THEN /\ reader["edge"][r] = "done"
              /\ request' = [request EXCEPT ![r] = "done"]
              /\ Remove("edge", r)
              /\ UNCHANGED <<readCh, wire>>
         ELSE /\ Send2Node("edge", Head(readCh[r]))
              /\ readCh' = [readCh EXCEPT ![r] = Tail(@)]
              /\ request' = [request EXCEPT ![r] =
                                 IF Head(readCh[r]).type = "CLOSED" THEN "last" ELSE @]
              /\ UNCHANGED conns
    /\ UNCHANGED <<serve, reader, writer, ch, hand, stop, ends>>

\* stop <- struct{}{}, which the reader receives once, after its last message.
StopReader(r) ==
    /\ reader["edge"][r] = "ended"
    /\ \/ /\ request[r] = "abort"
          /\ request' = [request EXCEPT ![r] = "http"]
          /\ UNCHANGED conns
       \/ /\ request[r] = "last"
          /\ request' = [request EXCEPT ![r] = "done"]
          /\ Remove("edge", r)
    /\ reader' = [reader EXCEPT !["edge"][r] = "done"]
    /\ UNCHANGED <<serve, writer, ch, wire, hand, stop, readCh, ends>>
-----------------------------------------------------------------------------
Cloud(r) == Confirm(r) \/ ServerHttpRecv(r) \/ ServerHttpLeave(r)
Edge(r) == \/ Reply(r) \/ Register(r) \/ AwaitConfirm(r)
           \/ SwitchProtocols(r) \/ ClientHttpClosed(r) \/ ClientHttpSend(r)
           \/ StopReader(r)

Next == \/ \E s \in Side : RecvMsg(s) \/ Send2Conn(s)
        \/ \E r \in Req : \/ Leave(r) \/ ServeHTTP(r) \/ Dial(r)
                          \/ Cloud(r) \/ Edge(r) \/ ReadBody(r)
                          \/ \E s \in Side : NetRead(s, r) \/ NetWrite(s, r)

\* As long as some goroutine can go on, one does: a request has finitely many
\* messages, so that neither a select nor the scheduler can prefer one for ever.
\* What an end says, and whether it ever ends, is up to it: a read is sure to
\* return only once the connection under it is closed.  A client need not send
\* its request (ServeHTTP), nor a component accept or answer one (Dial).
GoesOn ==
    \/ \E s \in Side : RecvMsg(s) \/ Send2Conn(s)
    \/ \E r \in Req : Cloud(r) \/ Edge(r)
    \/ \E r \in Req \ Upgrade : r \notin open["edge"] /\ ReadBody(r)
    \/ \E r \in Upgrade, s \in Side : (r \notin open[s] /\ NetRead(s, r)) \/ NetWrite(s, r)
Fairness == WF_vars(GoesOn)

Spec == Init /\ [][Next]_vars
FairSpec == Spec /\ Fairness
-----------------------------------------------------------------------------
Relay == INSTANCE HttpsRelay WITH over <- Over

\* The tunnel is a faithful relay of what it passes on at all: whatever the
\* interleaving of the goroutines of both sides, a client hears the component's
\* pieces, and the component of an upgraded request the client's, in order and
\* without a gap, and a request whose client stayed ends only when the client has
\* the whole answer.  The body of a plain request and the status of its answer
\* are lost, and nothing is said of them (httpsclient.go Request .. handleClientSwitchingProtocols, httpsserver.go
\* ServeHTTP .. handleServerSwitchingProtocols, httpstrans.go).
RelaysFaithfully == Relay!Spec

ConfirmUnderWay(r) ==
    \/ \E i \in DOMAIN wire["cloud"] : wire["cloud"][i] = M(r, "CONNECTED", 0)
    \/ M(r, "CONNECTED", 0) \in hand["edge"]
    \/ \E i \in DOMAIN ch["edge"][r] : ch["edge"][r][i] = M(r, "CONNECTED", 0)

\* The cloud's confirmation came before the edge had registered the conn, and was
\* dropped.
Missed(r) == /\ serve[r] \in {"http", "raw", "done"}
             /\ request[r] \in {"register", "confirm"}
             /\ ~ConfirmUnderWay(r)

\* A RecvMsg loop is blocked on the channel of a conn nobody reads any more.
Clogged == \E s \in Side : \E m \in hand[s] :
              m.topic \notin conns[s] /\ Len(ch[s][m.topic]) = Cap

\* The component has not accepted the request, or not answered it: neither the
\* edge, which reads the answer, nor ServeHTTP, which waits for the first message,
\* has a deadline.
Unanswered(r) == request[r] = "dial"

\* Once its component has ended, or its client has gone, a request ends at the
\* cloud, if its component accepted and answered it, the confirmation is not
\* missed and the stream is not clogged (handleServerHttp, NetRead, NetWrite).
RequestsEnd ==
    \A r \in Req :
        serve[r] # "idle" /\ (reader["edge"][r] \in {"ended", "done"} \/ r \in left) ~>
            r \in Over \/ Unanswered(r) \/ request[r] = "failed" \/ Missed(r) \/ Clogged

\* The edge forgets a request that its client heard to the end.
EndedIsForgotten ==
    \A r \in Req : (r \in Over \ left) ~> (r \notin conns["edge"] \/ Clogged)

\* What is under way to the cloud finds its conn there or its request over: the
\* cloud registers a conn before it asks, and keeps it until the end.
CloudDropsOnlyTheDead ==
    \A i \in DOMAIN wire["edge"] : wire["edge"][i].topic \in conns["cloud"] \cup Over
=============================================================================
