-------------------------- MODULE TunnelHttpsProofs --------------------------
(* Proofs about TunnelHttps, for any requests, capacities and numbers of    *)
(* pieces.                                                                  *)
EXTENDS TunnelHttps, TLAPS

USE TunnelAssumption

Asked(r) == serve[r] # "idle"

(* A request the cloud has asked for is registered there, or over.          *)
Registered == \A r \in Req : Asked(r) => r \in conns["cloud"] \cup Over

(* Nobody on the edge knows of a request that the cloud has not asked for.  *)
EdgeWasAsked ==
    \A r \in Req : request[r] # "off" \/ reader["edge"][r] # "off" => Asked(r)
WiresWereAsked == \A s \in Side : \A i \in DOMAIN wire[s] : Asked(wire[s][i].topic)
ReadChIsOwn == \A r \in Req : \A i \in DOMAIN readCh[r] : readCh[r][i].topic = r

(* The goroutines of a hijacked connection, and what they leave behind.     *)
Hijacked ==
    \A r \in Req : reader["cloud"][r] # "off" \/ writer["cloud"][r] # "off" => serve[r] = "raw"

Known == Registered /\ EdgeWasAsked /\ WiresWereAsked /\ ReadChIsOwn /\ Hijacked

IInv == TypeOK /\ Known
-----------------------------------------------------------------------------
(* The parts of TypeOK, one for each variable or two.                       *)
ServeOK == serve \in [Req -> {"idle", "wait", "http", "raw", "done"}]
RequestOK == request \in [Req -> {"off", "dial", "reply", "register", "confirm",
                                  "http", "abort", "last", "raw", "done", "failed"}]
ReaderOK == reader \in [Side -> [Req -> {"off", "run", "ended", "done"}]]
WriterOK == writer \in [Side -> [Req -> {"off", "run", "done"}]]
ConnsOK == conns \in [Side -> SUBSET Req]
OpenOK == open \in [Side -> SUBSET Req]
ChOK == /\ ch \in [Side -> [Req -> Seq(Msg)]]
        /\ \A s \in Side : \A r \in Req : Len(ch[s][r]) <= Cap
WireOK == wire \in [Side -> Seq(Msg)] /\ \A s \in Side : Len(wire[s]) <= WireCap
HandOK == /\ hand \in [Side -> SUBSET Msg]
          /\ \A s \in Side : \A m, n \in hand[s] : m = n
ReadChOK == readCh \in [Req -> Seq(Msg)] /\ \A r \in Req : Len(readCh[r]) <= Cap
StopOK == stop \subseteq Side \X Req
LeftOK == left \subseteq Req
SaidOK == said \in [Side -> [Req -> Nat]]
HeardOK == heard \in [Side -> [Req -> Seq(Nat)]]

LEMMA Parts ==
    TypeOK <=> /\ ServeOK /\ RequestOK /\ ReaderOK /\ WriterOK /\ ConnsOK /\ OpenOK
               /\ ChOK /\ WireOK /\ HandOK /\ ReadChOK /\ StopOK /\ LeftOK
               /\ SaidOK /\ HeardOK
  BY DEF TypeOK, ServeOK, RequestOK, ReaderOK, WriterOK, ConnsOK, OpenOK, ChOK, WireOK,
         HandOK, ReadChOK, StopOK, LeftOK, SaidOK, HeardOK

LEMMA PartsNext ==
    ASSUME ServeOK', RequestOK', ReaderOK', WriterOK', ConnsOK', OpenOK', ChOK', WireOK',
           HandOK', ReadChOK', StopOK', LeftOK', SaidOK', HeardOK'
    PROVE  TypeOK'
  BY DEF TypeOK, ServeOK, RequestOK, ReaderOK, WriterOK, ConnsOK, OpenOK, ChOK, WireOK,
         HandOK, ReadChOK, StopOK, LeftOK, SaidOK, HeardOK

LEMMA Kept ==
    ASSUME TypeOK
    PROVE  /\ serve' = serve => ServeOK'
           /\ request' = request => RequestOK'
           /\ reader' = reader => ReaderOK'
           /\ writer' = writer => WriterOK'
           /\ conns' = conns => ConnsOK'
           /\ open' = open => OpenOK'
           /\ ch' = ch => ChOK'
           /\ wire' = wire => WireOK'
           /\ hand' = hand => HandOK'
           /\ readCh' = readCh => ReadChOK'
           /\ stop' = stop => StopOK'
           /\ left' = left => LeftOK'
           /\ said' = said => SaidOK'
           /\ heard' = heard => HeardOK'
  BY Parts DEF ServeOK, RequestOK, ReaderOK, WriterOK, ConnsOK, OpenOK, ChOK, WireOK,
         HandOK, ReadChOK, StopOK, LeftOK, SaidOK, HeardOK

-----------------------------------------------------------------------------
LEMMA Sides == "cloud" \in Side /\ "edge" \in Side /\ \A s \in Side : Other(s) \in Side
  BY DEF Side, Other

LEMMA MsgTyped ==
    ASSUME NEW r \in Req, NEW d \in Nat
    PROVE  /\ M(r, "CONNECTING", d) \in Msg /\ M(r, "CONNECTED", d) \in Msg
           /\ M(r, "TRANSNMISSION", d) \in Msg /\ EndOf(r, d) \in Msg
           /\ M(r, "CLOSED", d) \in Msg
           /\ M(r, "CONNECTING", d).topic = r /\ M(r, "CONNECTED", d).topic = r
           /\ M(r, "TRANSNMISSION", d).topic = r /\ EndOf(r, d).topic = r
           /\ M(r, "CLOSED", d).topic = r
  BY DEF Msg, M, EndOf

LEMMA MsgParts ==
    ASSUME NEW m \in Msg
    PROVE  m.topic \in Req /\ m.data \in Nat
  BY DEF Msg

LEMMA AppendTyped ==
    ASSUME NEW S, NEW q \in Seq(S), NEW e \in S
    PROVE  /\ Append(q, e) \in Seq(S) /\ Len(Append(q, e)) = Len(q) + 1
           /\ \A i \in DOMAIN Append(q, e) :
                 \/ i \in DOMAIN q /\ Append(q, e)[i] = q[i]
                 \/ Append(q, e)[i] = e
  OBVIOUS

LEMMA TailTyped ==
    ASSUME NEW S, NEW q \in Seq(S), q # <<>>
    PROVE  /\ Tail(q) \in Seq(S) /\ Len(Tail(q)) = Len(q) - 1 /\ Head(q) \in S
           /\ Head(q) = q[1] /\ 1 \in DOMAIN q /\ Len(q) \in Nat
           /\ \A i \in DOMAIN Tail(q) : i + 1 \in DOMAIN q /\ Tail(q)[i] = q[i + 1]
  OBVIOUS

(* What a send leaves on the wires: what was there, and the message.        *)
LEMMA SendTyped ==
    ASSUME TypeOK, NEW s \in Side, NEW m \in Msg, Send2Node(s, m)
    PROVE  /\ WireOK'
           /\ \A x \in Side : \A i \in DOMAIN wire'[x] :
                 \/ i \in DOMAIN wire[x] /\ wire'[x][i] = wire[x][i]
                 \/ wire'[x][i] = m
  BY Parts, AppendTyped DEF WireOK, Send2Node

LEMMA ReceiveTyped ==
    ASSUME TypeOK, NEW s \in Side, wire[s] # <<>>, wire' = [wire EXCEPT ![s] = Tail(@)]
    PROVE  /\ WireOK' /\ Head(wire[s]) \in Msg
           /\ Head(wire[s]) = wire[s][1] /\ 1 \in DOMAIN wire[s]
           /\ \A x \in Side : \A i \in DOMAIN wire'[x] :
                 \E j \in DOMAIN wire[x] : wire'[x][i] = wire[x][j]
  <1>1. wire[s] \in Seq(Msg) /\ wire \in [Side -> Seq(Msg)]
      BY Parts DEF WireOK
  <1>2. /\ Tail(wire[s]) \in Seq(Msg) /\ Len(Tail(wire[s])) <= WireCap
        /\ Head(wire[s]) \in Msg /\ Head(wire[s]) = wire[s][1] /\ 1 \in DOMAIN wire[s]
        /\ \A i \in DOMAIN Tail(wire[s]) :
              i + 1 \in DOMAIN wire[s] /\ Tail(wire[s])[i] = wire[s][i + 1]
      BY <1>1, Parts, TailTyped DEF WireOK
  <1>3. WireOK'
      BY <1>1, <1>2, Parts DEF WireOK
  <1>4. ASSUME NEW x \in Side, NEW i \in DOMAIN wire'[x]
        PROVE  \E j \in DOMAIN wire[x] : wire'[x][i] = wire[x][j]
      BY <1>1, <1>2
  <1> QED BY <1>2, <1>3, <1>4

LEMMA TakeTyped ==
    ASSUME TypeOK, NEW s \in Side, NEW r \in Req, Take(s, r)
    PROVE  ChOK' /\ Head(ch[s][r]) \in Msg
  BY Parts, TailTyped DEF ChOK, Take

LEMMA PushTyped ==
    ASSUME TypeOK, NEW s \in Side, NEW r \in Req, NEW m \in Msg, Len(ch[s][r]) < Cap,
           ch' = [ch EXCEPT ![s][r] = Append(@, m)]
    PROVE  ChOK'
  BY Parts, AppendTyped DEF ChOK

LEMMA ReadChTyped ==
    ASSUME TypeOK, NEW r \in Req
    PROVE  /\ \A m \in Msg :
                Len(readCh[r]) < Cap /\ readCh' = [readCh EXCEPT ![r] = Append(@, m)] => ReadChOK'
           /\ readCh[r] # <<>> => Head(readCh[r]) \in Msg
           /\ readCh[r] # <<>> /\ readCh' = [readCh EXCEPT ![r] = Tail(@)] => ReadChOK'
  <1>1. readCh \in [Req -> Seq(Msg)] /\ \A q \in Req : Len(readCh[q]) <= Cap
      BY Parts DEF ReadChOK
  <1>2. ASSUME NEW m \in Msg, Len(readCh[r]) < Cap,
               readCh' = [readCh EXCEPT ![r] = Append(@, m)]
        PROVE  ReadChOK'
      BY <1>1, <1>2, AppendTyped DEF ReadChOK
  <1>3. CASE readCh[r] # <<>>
    <2>1. /\ Tail(readCh[r]) \in Seq(Msg) /\ Len(Tail(readCh[r])) = Len(readCh[r]) - 1
          /\ Head(readCh[r]) \in Msg /\ Len(readCh[r]) \in Nat
        BY <1>1, <1>3, TailTyped
    <2>2. Len(Tail(readCh[r])) <= Cap
        BY <1>1, <2>1
    <2> QED BY <1>1, <1>2, <2>1, <2>2 DEF ReadChOK
  <1> QED BY <1>2, <1>3

LEMMA SetsTyped ==
    ASSUME TypeOK, NEW s \in Side, NEW r \in Req
    PROVE  /\ Add(s, r) => ConnsOK'
           /\ Remove(s, r) => ConnsOK'
           /\ Close(s, r) => OpenOK'
           /\ open' = [open EXCEPT ![s] = @ \cup {r}] => OpenOK'
  <1>1. Add(s, r) => ConnsOK'
      BY Parts DEF ConnsOK, Add
  <1>2. Remove(s, r) => ConnsOK'
      BY Parts DEF ConnsOK, Remove
  <1>3. Close(s, r) => OpenOK'
      BY Parts DEF OpenOK, Close
  <1>4. open' = [open EXCEPT ![s] = @ \cup {r}] => OpenOK'
      BY Parts DEF OpenOK
  <1> QED BY <1>1, <1>2, <1>3, <1>4

LEMMA ProcsTyped ==
    ASSUME TypeOK, NEW s \in Side, NEW r \in Req
    PROVE  /\ \A v \in {"run", "ended", "done"} :
                 reader' = [reader EXCEPT ![s][r] = v] => ReaderOK'
           /\ \A v \in {"run", "done"} :
                 writer' = [writer EXCEPT ![s][r] = v] => WriterOK'
           /\ \A v \in {"wait", "http", "raw", "done"} :
                 serve' = [serve EXCEPT ![r] = v] => ServeOK'
           /\ \A v \in {"dial", "reply", "register", "confirm", "http", "abort", "last",
                         "raw", "done", "failed"} :
                 request' = [request EXCEPT ![r] = v] => RequestOK'
  <1>1. ASSUME NEW v \in {"run", "ended", "done"}, reader' = [reader EXCEPT ![s][r] = v]
        PROVE  ReaderOK'
      BY <1>1, Parts DEF ReaderOK
  <1>2. ASSUME NEW v \in {"run", "done"}, writer' = [writer EXCEPT ![s][r] = v]
        PROVE  WriterOK'
      BY <1>2, Parts DEF WriterOK
  <1>3. ASSUME NEW v \in {"wait", "http", "raw", "done"}, serve' = [serve EXCEPT ![r] = v]
        PROVE  ServeOK'
      BY <1>3, Parts DEF ServeOK
  <1>4. ASSUME NEW v \in {"dial", "reply", "register", "confirm", "http", "abort", "last",
                         "raw", "done", "failed"}, request' = [request EXCEPT ![r] = v]
        PROVE  RequestOK'
      BY <1>4, Parts DEF RequestOK
  <1> QED BY <1>1, <1>2, <1>3, <1>4

LEMMA SaysTyped ==
    ASSUME TypeOK, NEW s \in Side, NEW r \in Req, NEW d \in Unread(s, r) \cup {0}
    PROVE  d \in Nat /\ (Says(s, r, d) => SaidOK')
  <1>1. said[s][r] + 1 \in Nat
      BY Parts DEF SaidOK
  <1>2. d \in Nat
      BY <1>1 DEF Unread
  <1> QED BY <1>2, Parts DEF SaidOK, Says

LEMMA HearsTyped ==
    ASSUME TypeOK, NEW s \in Side, NEW r \in Req, NEW d \in Nat, Hears(s, r, d)
    PROVE  HeardOK'
  BY Parts, AppendTyped DEF HeardOK, Hears
-----------------------------------------------------------------------------
LEMMA RecvMsgTyped ==
    ASSUME TypeOK, NEW s \in Side, RecvMsg(s)
    PROVE  TypeOK'
  <1>1. WireOK'
      BY Sides, ReceiveTyped DEF RecvMsg
  <1>2. RequestOK'
      BY Sides, ReceiveTyped, MsgParts, ProcsTyped, Kept DEF RecvMsg
  <1>3. ChOK'
      BY Sides, ReceiveTyped, MsgParts, PushTyped, Kept DEF RecvMsg
  <1>4. HandOK'
    <2>1. /\ Head(wire[Other(s)]) \in Msg
          /\ \/ UNCHANGED hand
             \/ hand' = [hand EXCEPT ![s] = {Head(wire[Other(s)])}]
        BY Sides, ReceiveTyped DEF RecvMsg
    <2> QED BY <2>1, Kept, Parts DEF HandOK
  <1>5. /\ ServeOK' /\ ReaderOK' /\ WriterOK' /\ ConnsOK' /\ OpenOK' /\ ReadChOK'
        /\ StopOK' /\ LeftOK' /\ SaidOK' /\ HeardOK'
      BY Kept DEF RecvMsg, procs, links, ends
  <1> QED BY <1>1, <1>2, <1>3, <1>4, <1>5, PartsNext

LEMMA Send2ConnTyped ==
    ASSUME TypeOK, NEW s \in Side, Send2Conn(s)
    PROVE  TypeOK'
  <1>1. ChOK'
      BY Parts, MsgParts, PushTyped DEF HandOK, Send2Conn
  <1>2. HandOK'
      BY Parts DEF HandOK, Send2Conn
  <1>3. /\ ServeOK' /\ RequestOK' /\ ReaderOK' /\ WriterOK' /\ ConnsOK' /\ OpenOK'
        /\ WireOK' /\ ReadChOK' /\ StopOK' /\ LeftOK' /\ SaidOK' /\ HeardOK'
      BY Kept DEF Send2Conn, procs, links, ends
  <1> QED BY <1>1, <1>2, <1>3, PartsNext

LEMMA LeaveTyped ==
    ASSUME TypeOK, NEW r \in Req, Leave(r)
    PROVE  TypeOK'
  <1>1. LeftOK'
      BY Parts DEF LeftOK, Leave
  <1>2. OpenOK'
      BY Sides, SetsTyped DEF Leave
  <1>3. /\ ServeOK' /\ RequestOK' /\ ReaderOK' /\ WriterOK' /\ ConnsOK' /\ ChOK'
        /\ WireOK' /\ HandOK' /\ ReadChOK' /\ StopOK' /\ SaidOK' /\ HeardOK'
      BY Kept DEF Leave, procs, links, ends
  <1> QED BY <1>1, <1>2, <1>3, PartsNext

LEMMA BodyTyped ==
    ASSUME TypeOK, NEW r \in Req, NEW d \in Body(r)
    PROVE  /\ d \in Unread("cloud", r) \cup {0} /\ d \in Nat
           /\ d = 0 \/ (r \notin Upgrade /\ d = said["cloud"][r] + 1)
  <1>1. said["cloud"][r] \in Nat
      BY Sides, Parts DEF SaidOK
  <1> QED BY <1>1 DEF Body, Unread

LEMMA ServeHTTPTyped ==
    ASSUME TypeOK, NEW r \in Req, ServeHTTP(r)
    PROVE  TypeOK'
  <1>1. ConnsOK'
      BY Sides, SetsTyped DEF ServeHTTP
  <1>2. WireOK'
      BY Sides, BodyTyped, MsgTyped, SendTyped, Kept DEF ServeHTTP
  <1>3. ServeOK'
      BY Sides, ProcsTyped DEF ServeHTTP
  <1>4. SaidOK'
      BY Sides, BodyTyped, SaysTyped, Kept DEF ServeHTTP
  <1>5. /\ RequestOK' /\ ReaderOK' /\ WriterOK' /\ OpenOK' /\ ChOK' /\ HandOK'
        /\ ReadChOK' /\ StopOK' /\ LeftOK' /\ HeardOK'
      BY Kept DEF ServeHTTP, procs, links, ends
  <1> QED BY <1>1, <1>2, <1>3, <1>4, <1>5, PartsNext

LEMMA ConfirmTyped ==
    ASSUME TypeOK, NEW r \in Req, Confirm(r)
    PROVE  TypeOK'
  <1>1. ChOK'
      BY Sides, TakeTyped DEF Confirm
  <1>2. WireOK'
      BY Sides, MsgTyped, SendTyped DEF Confirm
  <1>3. ServeOK'
      BY Sides, ProcsTyped DEF Confirm
  <1>4. ReaderOK'
      BY Sides, ProcsTyped, Kept DEF Confirm
  <1>5. WriterOK'
      BY Sides, ProcsTyped, Kept DEF Confirm
  <1>6. /\ RequestOK' /\ ConnsOK' /\ OpenOK' /\ HandOK' /\ ReadChOK' /\ StopOK'
        /\ LeftOK' /\ SaidOK' /\ HeardOK'
      BY Kept DEF Confirm, procs, links, ends
  <1> QED BY <1>1, <1>2, <1>3, <1>4, <1>5, <1>6, PartsNext

LEMMA ServerHttpRecvTyped ==
    ASSUME TypeOK, NEW r \in Req, ServerHttpRecv(r)
    PROVE  TypeOK'
  <1>1. ChOK'
      BY Sides, TakeTyped DEF ServerHttpRecv
  <1>2. HeardOK'
      BY Sides, TakeTyped, MsgParts, HearsTyped DEF Writes, ServerHttpRecv
  <1>3. ServeOK'
      BY Sides, ProcsTyped, Kept DEF ServerHttpRecv
  <1>4. ConnsOK'
      BY Sides, SetsTyped, Kept DEF ServerHttpRecv
  <1>5. /\ RequestOK' /\ ReaderOK' /\ WriterOK' /\ OpenOK' /\ WireOK' /\ HandOK'
        /\ ReadChOK' /\ StopOK' /\ LeftOK' /\ SaidOK'
      BY Kept DEF ServerHttpRecv, procs, links, ends
  <1> QED BY <1>1, <1>2, <1>3, <1>4, <1>5, PartsNext

LEMMA ServerHttpLeaveTyped ==
    ASSUME TypeOK, NEW r \in Req, ServerHttpLeave(r)
    PROVE  TypeOK'
  <1>1. WireOK'
      BY Sides, MsgTyped, SendTyped DEF TellsTheEdge, ServerHttpLeave
  <1>2. ServeOK'
      BY Sides, ProcsTyped DEF ServerHttpLeave
  <1>3. ConnsOK'
      BY Sides, SetsTyped DEF ServerHttpLeave
  <1>4. /\ RequestOK' /\ ReaderOK' /\ WriterOK' /\ OpenOK' /\ ChOK' /\ HandOK'
        /\ ReadChOK' /\ StopOK' /\ LeftOK' /\ SaidOK' /\ HeardOK'
      BY Kept DEF ServerHttpLeave, procs, links, ends
  <1> QED BY <1>1, <1>2, <1>3, <1>4, PartsNext

LEMMA DialTyped ==
    ASSUME TypeOK, NEW r \in Req, Dial(r)
    PROVE  TypeOK'
  <1>1. RequestOK'
      BY Sides, ProcsTyped DEF Dial
  <1>2. OpenOK'
      BY Sides, SetsTyped, Kept DEF Dial
  <1>3. /\ ServeOK' /\ ReaderOK' /\ WriterOK' /\ ConnsOK' /\ ChOK' /\ WireOK'
        /\ HandOK' /\ ReadChOK' /\ StopOK' /\ LeftOK' /\ SaidOK' /\ HeardOK'
      BY Kept DEF Dial, procs, links, ends
  <1> QED BY <1>1, <1>2, <1>3, PartsNext

LEMMA ReplyTyped ==
    ASSUME TypeOK, NEW r \in Req, Reply(r)
    PROVE  TypeOK'
  <1>1. WireOK'
      BY Sides, MsgTyped, SendTyped DEF Reply
  <1>2. RequestOK'
      BY Sides, ProcsTyped DEF Reply
  <1>3. /\ ServeOK' /\ ReaderOK' /\ WriterOK' /\ ConnsOK' /\ OpenOK' /\ ChOK'
        /\ HandOK' /\ ReadChOK' /\ StopOK' /\ LeftOK' /\ SaidOK' /\ HeardOK'
      BY Kept DEF Reply, procs, links, ends
  <1> QED BY <1>1, <1>2, <1>3, PartsNext

LEMMA RegisterTyped ==
    ASSUME TypeOK, NEW r \in Req, Register(r)
    PROVE  TypeOK'
  <1>1. ConnsOK'
      BY Sides, SetsTyped DEF Register
  <1>2. RequestOK'
      BY Sides, ProcsTyped DEF Register
  <1>3. /\ ServeOK' /\ ReaderOK' /\ WriterOK' /\ OpenOK' /\ ChOK' /\ WireOK'
        /\ HandOK' /\ ReadChOK' /\ StopOK' /\ LeftOK' /\ SaidOK' /\ HeardOK'
      BY Kept DEF Register, procs, links, ends
  <1> QED BY <1>1, <1>2, <1>3, PartsNext

LEMMA AwaitConfirmTyped ==
    ASSUME TypeOK, NEW r \in Req, AwaitConfirm(r)
    PROVE  TypeOK'
  <1>1. ChOK'
      BY Sides, TakeTyped DEF AwaitConfirm
  <1>2. RequestOK'
      BY Sides, ProcsTyped, Kept DEF AwaitConfirm
  <1>3. ReaderOK'
      BY Sides, ProcsTyped, Kept DEF AwaitConfirm
  <1>4. /\ ServeOK' /\ WriterOK' /\ ConnsOK' /\ OpenOK' /\ WireOK' /\ HandOK'
        /\ ReadChOK' /\ StopOK' /\ LeftOK' /\ SaidOK' /\ HeardOK'
      BY Kept DEF AwaitConfirm, procs, links, ends
  <1> QED BY <1>1, <1>2, <1>3, <1>4, PartsNext

LEMMA SwitchProtocolsTyped ==
    ASSUME TypeOK, NEW r \in Req, SwitchProtocols(r)
    PROVE  TypeOK'
  <1>1. WireOK'
      BY Sides, SaysTyped, MsgTyped, SendTyped DEF SwitchProtocols
  <1>2. SaidOK'
      BY Sides, SaysTyped DEF SwitchProtocols
  <1>3. RequestOK'
      BY Sides, ProcsTyped DEF SwitchProtocols
  <1>4. ReaderOK'
      BY Sides, ProcsTyped DEF SwitchProtocols
  <1>5. WriterOK'
      BY Sides, ProcsTyped DEF SwitchProtocols
  <1>6. /\ ServeOK' /\ ConnsOK' /\ OpenOK' /\ ChOK' /\ HandOK' /\ ReadChOK'
        /\ StopOK' /\ LeftOK' /\ HeardOK'
      BY Kept DEF SwitchProtocols, procs, links, ends
  <1> QED BY <1>1, <1>2, <1>3, <1>4, <1>5, <1>6, PartsNext

LEMMA ReadBodyTyped ==
    ASSUME TypeOK, NEW r \in Req, ReadBody(r)
    PROVE  TypeOK'
  <1>1. ReadChOK'
      BY Sides, SaysTyped, MsgTyped, ReadChTyped DEF ReadBody
  <1>2. SaidOK'
      BY Sides, SaysTyped DEF ReadBody
  <1>3. ReaderOK'
      BY Sides, ProcsTyped, Kept DEF ReadBody
  <1>4. /\ ServeOK' /\ RequestOK' /\ WriterOK' /\ ConnsOK' /\ OpenOK' /\ ChOK'
        /\ WireOK' /\ HandOK' /\ StopOK' /\ LeftOK' /\ HeardOK'
      BY Kept DEF ReadBody, procs, links, ends
  <1> QED BY <1>1, <1>2, <1>3, <1>4, PartsNext

LEMMA ClientHttpClosedTyped ==
    ASSUME TypeOK, NEW r \in Req, ClientHttpClosed(r)
    PROVE  TypeOK'
  <1>1. ChOK'
      BY Sides, TakeTyped DEF ClientHttpClosed
  <1>2. OpenOK'
      BY Sides, SetsTyped, Kept DEF ClientHttpClosed
  <1>3. RequestOK'
      BY Sides, ProcsTyped, Kept DEF ClientHttpClosed
  <1>4. /\ ServeOK' /\ ReaderOK' /\ WriterOK' /\ ConnsOK' /\ WireOK' /\ HandOK'
        /\ ReadChOK' /\ StopOK' /\ LeftOK' /\ SaidOK' /\ HeardOK'
      BY Kept DEF ClientHttpClosed, procs, links, ends
  <1> QED BY <1>1, <1>2, <1>3, <1>4, PartsNext

LEMMA ClientHttpSendTyped ==
    ASSUME TypeOK, NEW r \in Req, ClientHttpSend(r)
    PROVE  TypeOK'
  <1>1. ReadChOK'
      BY ReadChTyped, Kept DEF ClientHttpSend
  <1>2. WireOK'
      BY Sides, ReadChTyped, SendTyped, Kept DEF ClientHttpSend
  <1>3. ConnsOK'
      BY Sides, SetsTyped, Kept DEF ClientHttpSend
  <1>4. RequestOK'
      BY Sides, Parts DEF RequestOK, ClientHttpSend
  <1>5. /\ ServeOK' /\ ReaderOK' /\ WriterOK' /\ OpenOK' /\ ChOK' /\ HandOK'
        /\ StopOK' /\ LeftOK' /\ SaidOK' /\ HeardOK'
      BY Kept DEF ClientHttpSend, procs, links, ends
  <1> QED BY <1>1, <1>2, <1>3, <1>4, <1>5, PartsNext

LEMMA StopReaderTyped ==
    ASSUME TypeOK, NEW r \in Req, StopReader(r)
    PROVE  TypeOK'
  <1>1. RequestOK'
      BY Sides, ProcsTyped DEF StopReader
  <1>2. ReaderOK'
      BY Sides, ProcsTyped DEF StopReader
  <1>3. ConnsOK'
      BY Sides, SetsTyped, Kept DEF StopReader
  <1>4. /\ ServeOK' /\ WriterOK' /\ OpenOK' /\ ChOK' /\ WireOK' /\ HandOK'
        /\ ReadChOK' /\ StopOK' /\ LeftOK' /\ SaidOK' /\ HeardOK'
      BY Kept DEF StopReader, procs, links, ends
  <1> QED BY <1>1, <1>2, <1>3, <1>4, PartsNext

LEMMA NetReadTyped ==
    ASSUME TypeOK, NEW s \in Side, NEW r \in Req, NetRead(s, r)
    PROVE  TypeOK'
  <1>1. WireOK'
      BY SaysTyped, MsgTyped, SendTyped DEF NetRead
  <1>2. SaidOK'
      BY SaysTyped DEF NetRead
  <1>3. ReaderOK'
      BY ProcsTyped, Kept DEF ReaderDone, NetRead
  <1>4. StopOK'
      BY Parts DEF StopOK, ReaderDone, NetRead
  <1>5. OpenOK'
      BY SetsTyped, Kept DEF ReaderDone, NetRead
  <1>6. ConnsOK'
      BY Kept DEF ReaderDone, NetRead
  <1>7. /\ ServeOK' /\ RequestOK' /\ WriterOK' /\ ChOK' /\ HandOK' /\ ReadChOK'
        /\ LeftOK' /\ HeardOK'
      BY Kept DEF NetRead, procs, links, ends
  <1> QED BY <1>1, <1>2, <1>3, <1>4, <1>5, <1>6, <1>7, PartsNext

LEMMA NetWriteTyped ==
    ASSUME TypeOK, NEW s \in Side, NEW r \in Req, NetWrite(s, r)
    PROVE  TypeOK'
  <1>1. ChOK'
      BY TakeTyped, Kept DEF NetWrite
  <1>2. HeardOK'
      BY TakeTyped, MsgParts, HearsTyped, Kept DEF NetWrite
  <1>3. StopOK'
      BY Parts DEF StopOK, NetWrite
  <1>4. WriterOK'
      BY ProcsTyped, Kept DEF WriterDone, NetWrite
  <1>5. ConnsOK'
      BY SetsTyped, Kept DEF WriterDone, NetWrite
  <1>6. OpenOK'
      BY SetsTyped, Kept DEF WriterDone, NetWrite
  <1>7. /\ ServeOK' /\ RequestOK' /\ ReaderOK' /\ WireOK' /\ HandOK' /\ ReadChOK'
        /\ LeftOK' /\ SaidOK'
      BY Kept DEF NetWrite, procs, links, ends
  <1> QED BY <1>1, <1>2, <1>3, <1>4, <1>5, <1>6, <1>7, PartsNext

-----------------------------------------------------------------------------
LEMMA AskedKept ==
    ASSUME TypeOK, \/ serve' = serve
                   \/ \E r \in Req, v \in {"wait", "http", "raw", "done"} :
                         serve' = [serve EXCEPT ![r] = v]
    PROVE  \A q \in Req : Asked(q) => Asked(q)'
  BY Parts DEF ServeOK, Asked

LEMMA SendKnown ==
    ASSUME IInv, \A q \in Req : Asked(q) => Asked(q)',
           NEW s \in Side, NEW m \in Msg, Send2Node(s, m), serve'[m.topic] # "idle"
    PROVE  WiresWereAsked'
  <1> SUFFICES ASSUME NEW x \in Side, NEW i \in DOMAIN wire'[x]
               PROVE  serve'[wire'[x][i].topic] # "idle"
      BY DEF WiresWereAsked, Asked
  <1>1. CASE i \in DOMAIN wire[x] /\ wire'[x][i] = wire[x][i]
    <2>1. wire[x] \in Seq(Msg)
        BY Parts DEF WireOK, IInv
    <2>2. wire[x][i].topic \in Req
        BY <1>1, <2>1, MsgParts
    <2> QED BY <1>1, <2>2 DEF IInv, Known, WiresWereAsked, Asked
  <1>2. CASE wire'[x][i] = m
      BY <1>2
  <1> QED BY <1>1, <1>2, SendTyped DEF IInv

LEMMA ReceiveKnown ==
    ASSUME IInv, serve' = serve, NEW s \in Side, wire[s] # <<>>,
           wire' = [wire EXCEPT ![s] = Tail(@)]
    PROVE  WiresWereAsked' /\ Head(wire[s]).topic \in Req /\ Asked(Head(wire[s]).topic)
  <1>1. WiresWereAsked'
    <2> SUFFICES ASSUME NEW x \in Side, NEW i \in DOMAIN wire'[x]
                 PROVE  serve[wire'[x][i].topic] # "idle"
        BY DEF WiresWereAsked, Asked
    <2>1. PICK j \in DOMAIN wire[x] : wire'[x][i] = wire[x][j]
        BY ReceiveTyped DEF IInv
    <2> QED BY <2>1 DEF IInv, Known, WiresWereAsked, Asked
  <1>2. Head(wire[s]).topic \in Req /\ Asked(Head(wire[s]).topic)
      BY ReceiveTyped, MsgParts DEF IInv, Known, WiresWereAsked
  <1> QED BY <1>1, <1>2

LEMMA Unmoved ==
    ASSUME Known
    PROVE  /\ UNCHANGED <<serve, conns, writer>> => Registered'
           /\ UNCHANGED <<serve, request, reader>> => EdgeWasAsked'
           /\ UNCHANGED <<serve, wire>> => WiresWereAsked'
           /\ UNCHANGED readCh => ReadChIsOwn'
           /\ UNCHANGED <<serve, reader, writer>> => Hijacked'
  BY DEF Known, Registered, EdgeWasAsked, WiresWereAsked, ReadChIsOwn, Hijacked, Asked, Over

LEMMA RecvMsgKnown ==
    ASSUME IInv, NEW s \in Side, RecvMsg(s)
    PROVE  Known'
  <1> USE DEF IInv
  <1>1. EdgeWasAsked'
    <2>1. LET q == Head(wire[Other(s)]).topic
          IN  \/ UNCHANGED request
              \/ /\ q \in Req /\ serve[q] # "idle"
                 /\ request' = [request EXCEPT ![q] = "dial"]
        BY Sides, ReceiveKnown DEF RecvMsg, Asked
    <2>2. UNCHANGED <<serve, reader>>
        BY DEF RecvMsg
    <2> QED BY <2>1, <2>2, Parts DEF Known, EdgeWasAsked, Asked, RequestOK
  <1>2. WiresWereAsked'
      BY Sides, ReceiveKnown DEF RecvMsg
  <1>3. Registered' /\ ReadChIsOwn' /\ Hijacked'
      BY Unmoved DEF RecvMsg, procs, links
  <1> QED BY <1>1, <1>2, <1>3 DEF Known

LEMMA Send2ConnKnown ==
    ASSUME IInv, NEW s \in Side, Send2Conn(s)
    PROVE  Known'
  <1> USE DEF IInv
  <1>1. Registered' /\ EdgeWasAsked' /\ WiresWereAsked' /\ ReadChIsOwn' /\ Hijacked'
      BY Unmoved DEF Send2Conn, procs, links
  <1> QED BY <1>1 DEF Known

LEMMA LeaveKnown ==
    ASSUME IInv, NEW r \in Req, Leave(r)
    PROVE  Known'
  <1> USE DEF IInv
  <1>1. Registered' /\ EdgeWasAsked' /\ WiresWereAsked' /\ ReadChIsOwn' /\ Hijacked'
      BY Unmoved DEF Leave, procs, links
  <1> QED BY <1>1 DEF Known

LEMMA ServeHTTPKnown ==
    ASSUME IInv, NEW r \in Req, ServeHTTP(r)
    PROVE  Known'
  <1> USE DEF IInv
  <1>1. Registered'
      BY Sides, Parts
        DEF Known, Registered, Asked, Over, ServeOK, WriterOK, ConnsOK, Hijacked, Add, Remove, ServeHTTP
  <1>2. EdgeWasAsked'
      BY Sides, Parts
        DEF Known, EdgeWasAsked, Asked, ServeOK, RequestOK, ReaderOK, ServeHTTP
  <1>3. WiresWereAsked'
    <2>1. \A q \in Req : Asked(q) => Asked(q)'
        BY AskedKept DEF ServeHTTP
    <2>2. serve'[r] # "idle"
        BY Parts DEF ServeHTTP, ServeOK
    <2>3. CASE \E d \in Body(r) : Send2Node("cloud", M(r, "CONNECTING", d))
      <3>1. PICK d \in Nat : Send2Node("cloud", M(r, "CONNECTING", d))
          BY <2>3, BodyTyped
      <3>2. M(r, "CONNECTING", d) \in Msg /\ M(r, "CONNECTING", d).topic = r
          BY MsgTyped
      <3> QED BY <2>1, <2>2, <3>1, <3>2, Sides, SendKnown
    <2>4. CASE wire' = wire
        BY <2>1, <2>4, Parts, MsgParts DEF Known, WiresWereAsked, WireOK, Asked
    <2> QED BY <2>3, <2>4 DEF ServeHTTP
  <1>4. Hijacked'
      BY Sides, Parts DEF Known, Hijacked, ServeOK, ReaderOK, WriterOK, ServeHTTP
  <1>5. ReadChIsOwn'
      BY Unmoved DEF ServeHTTP, procs, links
  <1> QED BY <1>1, <1>2, <1>3, <1>4, <1>5 DEF Known

LEMMA ConfirmKnown ==
    ASSUME IInv, NEW r \in Req, Confirm(r)
    PROVE  Known'
  <1> USE DEF IInv
  <1>1. Registered'
      BY Sides, Parts
        DEF Known, Registered, Asked, Over, ServeOK, WriterOK, ConnsOK, Hijacked, Add, Remove, Confirm
  <1>2. EdgeWasAsked'
      BY Sides, Parts DEF Known, EdgeWasAsked, Asked, ServeOK, RequestOK, ReaderOK, Confirm
  <1>3. WiresWereAsked'
    <2>1. \A q \in Req : Asked(q) => Asked(q)'
        BY AskedKept DEF Confirm
    <2>2. serve'[r] # "idle"
        BY Parts DEF Confirm, ServeOK
    <2>3. M(r, "CONNECTED", 0) \in Msg /\ M(r, "CONNECTED", 0).topic = r
        BY MsgTyped
    <2>4. Send2Node("cloud", M(r, "CONNECTED", 0))
        BY DEF Confirm
    <2> QED BY <2>1, <2>2, <2>3, <2>4, Sides, SendKnown
  <1>4. Hijacked'
      BY Sides, Parts DEF Known, Hijacked, ServeOK, ReaderOK, WriterOK, Confirm
  <1>5. ReadChIsOwn'
      BY Unmoved DEF Confirm, procs, links
  <1> QED BY <1>1, <1>2, <1>3, <1>4, <1>5 DEF Known

LEMMA ServerHttpRecvKnown ==
    ASSUME IInv, NEW r \in Req, ServerHttpRecv(r)
    PROVE  Known'
  <1> USE DEF IInv
  <1>1. Registered'
      BY Sides, Parts
        DEF Known, Registered, Asked, Over, ServeOK, WriterOK, ConnsOK, Hijacked, Add, Remove, ServerHttpRecv
  <1>2. EdgeWasAsked'
      BY Sides, Parts
        DEF Known, EdgeWasAsked, Asked, ServeOK, RequestOK, ReaderOK, ServerHttpRecv
  <1>3. WiresWereAsked'
      BY AskedKept, Parts, MsgParts
        DEF ServerHttpRecv, Known, WiresWereAsked, WireOK, Asked, ServeOK
  <1>4. Hijacked'
      BY Sides, Parts DEF Known, Hijacked, ServeOK, ReaderOK, WriterOK, ServerHttpRecv
  <1>5. ReadChIsOwn'
      BY Unmoved DEF ServerHttpRecv, procs, links
  <1> QED BY <1>1, <1>2, <1>3, <1>4, <1>5 DEF Known

LEMMA ServerHttpLeaveKnown ==
    ASSUME IInv, NEW r \in Req, ServerHttpLeave(r)
    PROVE  Known'
  <1> USE DEF IInv
  <1>1. Registered'
      BY Sides, Parts
        DEF Known, Registered, Asked, Over, ServeOK, WriterOK, ConnsOK, Hijacked, Add, Remove, ServerHttpLeave, TellsTheEdge
  <1>2. EdgeWasAsked'
      BY Sides, Parts
        DEF Known, EdgeWasAsked, Asked, ServeOK, RequestOK, ReaderOK, ServerHttpLeave, TellsTheEdge
  <1>3. WiresWereAsked'
    <2>1. \A q \in Req : Asked(q) => Asked(q)'
        BY AskedKept DEF ServerHttpLeave
    <2>2. serve'[r] # "idle"
        BY Parts DEF ServerHttpLeave, ServeOK
    <2>3. M(r, "CLOSED", 0) \in Msg /\ M(r, "CLOSED", 0).topic = r
        BY MsgTyped
    <2>4. Send2Node("cloud", M(r, "CLOSED", 0))
        BY DEF ServerHttpLeave, TellsTheEdge
    <2> QED BY <2>1, <2>2, <2>3, <2>4, Sides, SendKnown
  <1>4. Hijacked'
      BY Sides, Parts
        DEF Known, Hijacked, ServeOK, ReaderOK, WriterOK, ServerHttpLeave, TellsTheEdge
  <1>5. ReadChIsOwn'
      BY Unmoved DEF ServerHttpLeave, TellsTheEdge, procs, links
  <1> QED BY <1>1, <1>2, <1>3, <1>4, <1>5 DEF Known

LEMMA DialKnown ==
    ASSUME IInv, NEW r \in Req, Dial(r)
    PROVE  Known'
  <1> USE DEF IInv
  <1>1. EdgeWasAsked'
      BY Sides, Parts DEF Known, EdgeWasAsked, Asked, ServeOK, RequestOK, ReaderOK, Dial
  <1>2. Registered' /\ WiresWereAsked' /\ ReadChIsOwn' /\ Hijacked'
      BY Unmoved DEF Dial, procs, links
  <1> QED BY <1>1, <1>2 DEF Known

LEMMA ReplyKnown ==
    ASSUME IInv, NEW r \in Req, Reply(r)
    PROVE  Known'
  <1> USE DEF IInv
  <1>1. EdgeWasAsked'
      BY Sides, Parts DEF Known, EdgeWasAsked, Asked, ServeOK, RequestOK, ReaderOK, Reply
  <1>2. WiresWereAsked'
    <2>1. \A q \in Req : Asked(q) => Asked(q)'
        BY AskedKept DEF Reply
    <2>2. serve'[r] # "idle"
        BY DEF Reply, procs, Known, EdgeWasAsked, Asked
    <2>3. M(r, "CONNECTED", 0) \in Msg /\ M(r, "CONNECTED", 0).topic = r
        BY MsgTyped
    <2>4. Send2Node("edge", M(r, "CONNECTED", 0))
        BY DEF Reply
    <2> QED BY <2>1, <2>2, <2>3, <2>4, Sides, SendKnown
  <1>3. Registered' /\ ReadChIsOwn' /\ Hijacked'
      BY Unmoved DEF Reply, procs, links
  <1> QED BY <1>1, <1>2, <1>3 DEF Known

LEMMA RegisterKnown ==
    ASSUME IInv, NEW r \in Req, Register(r)
    PROVE  Known'
  <1> USE DEF IInv
  <1>1. Registered'
      BY Sides, Parts
        DEF Known, Registered, Asked, Over, ServeOK, WriterOK, ConnsOK, Hijacked, Add, Remove, Register
  <1>2. EdgeWasAsked'
      BY Sides, Parts DEF Known, EdgeWasAsked, Asked, ServeOK, RequestOK, ReaderOK, Register
  <1>3. WiresWereAsked' /\ ReadChIsOwn' /\ Hijacked'
      BY Unmoved DEF Register, procs, links
  <1> QED BY <1>1, <1>2, <1>3 DEF Known

LEMMA AwaitConfirmKnown ==
    ASSUME IInv, NEW r \in Req, AwaitConfirm(r)
    PROVE  Known'
  <1> USE DEF IInv
  <1>1. EdgeWasAsked'
      BY Sides, Parts
        DEF Known, EdgeWasAsked, Asked, ServeOK, RequestOK, ReaderOK, AwaitConfirm
  <1>2. Hijacked'
      BY Sides, Parts DEF Known, Hijacked, ServeOK, ReaderOK, WriterOK, AwaitConfirm
  <1>3. Registered' /\ WiresWereAsked' /\ ReadChIsOwn'
      BY Unmoved DEF AwaitConfirm, procs, links
  <1> QED BY <1>1, <1>2, <1>3 DEF Known

LEMMA SwitchProtocolsKnown ==
    ASSUME IInv, NEW r \in Req, SwitchProtocols(r)
    PROVE  Known'
  <1> USE DEF IInv
  <1>1. Registered'
      BY Sides, Parts
        DEF Known, Registered, Asked, Over, ServeOK, WriterOK, ConnsOK, Hijacked, Add, Remove, SwitchProtocols
  <1>2. EdgeWasAsked'
      BY Sides, Parts
        DEF Known, EdgeWasAsked, Asked, ServeOK, RequestOK, ReaderOK, SwitchProtocols
  <1>3. WiresWereAsked'
    <2>1. \A q \in Req : Asked(q) => Asked(q)'
        BY AskedKept DEF SwitchProtocols
    <2>2. serve'[r] # "idle"
        BY DEF SwitchProtocols, Known, EdgeWasAsked, Asked
    <2>3. PICK d \in Unread("edge", r) : Send2Node("edge", M(r, "TRANSNMISSION", d))
        BY DEF SwitchProtocols
    <2>4. M(r, "TRANSNMISSION", d) \in Msg /\ M(r, "TRANSNMISSION", d).topic = r
        BY <2>3, Sides, SaysTyped, MsgTyped
    <2> QED BY <2>1, <2>2, <2>3, <2>4, Sides, SendKnown
  <1>4. Hijacked'
      BY Sides, Parts DEF Known, Hijacked, ServeOK, ReaderOK, WriterOK, SwitchProtocols
  <1>5. ReadChIsOwn'
      BY Unmoved DEF SwitchProtocols, procs, links
  <1> QED BY <1>1, <1>2, <1>3, <1>4, <1>5 DEF Known

LEMMA ReadBodyKnown ==
    ASSUME IInv, NEW r \in Req, ReadBody(r)
    PROVE  Known'
  <1> USE DEF IInv
  <1>1. EdgeWasAsked'
      BY Sides, Parts DEF Known, EdgeWasAsked, Asked, ServeOK, RequestOK, ReaderOK, ReadBody
  <1>2. ReadChIsOwn'
    <2>1. PICK d \in Unread("edge", r) \cup {0} :
             \/ readCh' = [readCh EXCEPT ![r] = Append(@, M(r, "TRANSNMISSION", d))]
             \/ readCh' = [readCh EXCEPT ![r] = Append(@, EndOf(r, d))]
        BY DEF ReadBody
    <2>2. /\ M(r, "TRANSNMISSION", d) \in Msg /\ M(r, "TRANSNMISSION", d).topic = r
          /\ EndOf(r, d) \in Msg /\ EndOf(r, d).topic = r
        BY <2>1, Sides, SaysTyped, MsgTyped
    <2>3. readCh \in [Req -> Seq(Msg)]
        BY Parts DEF ReadChOK
    <2>4. ASSUME NEW m \in Msg, m.topic = r,
                 readCh' = [readCh EXCEPT ![r] = Append(@, m)]
          PROVE  ReadChIsOwn'
      <3>1. \A i \in DOMAIN Append(readCh[r], m) : Append(readCh[r], m)[i].topic = r
          BY <2>3, <2>4, AppendTyped DEF Known, ReadChIsOwn
      <3>2. ASSUME NEW q \in Req PROVE \A i \in DOMAIN readCh'[q] : readCh'[q][i].topic = q
        <4>1. CASE q = r
            BY <2>3, <2>4, <3>1, <4>1
        <4>2. CASE q # r
            BY <2>3, <2>4, <4>2 DEF Known, ReadChIsOwn
        <4> QED BY <4>1, <4>2
      <3> QED BY <3>2 DEF ReadChIsOwn
    <2> QED BY <2>1, <2>2, <2>4
  <1>3. Hijacked'
      BY Sides, Parts DEF Known, Hijacked, ServeOK, ReaderOK, WriterOK, ReadBody
  <1>4. Registered' /\ WiresWereAsked'
      BY Unmoved DEF ReadBody, procs, links
  <1> QED BY <1>1, <1>2, <1>3, <1>4 DEF Known

LEMMA ClientHttpClosedKnown ==
    ASSUME IInv, NEW r \in Req, ClientHttpClosed(r)
    PROVE  Known'
  <1> USE DEF IInv
  <1>1. EdgeWasAsked'
      BY Sides, Parts
        DEF Known, EdgeWasAsked, Asked, ServeOK, RequestOK, ReaderOK, ClientHttpClosed
  <1>2. Registered' /\ WiresWereAsked' /\ ReadChIsOwn' /\ Hijacked'
      BY Unmoved DEF ClientHttpClosed, procs, links
  <1> QED BY <1>1, <1>2 DEF Known

LEMMA ClientHttpSendKnown ==
    ASSUME IInv, NEW r \in Req, ClientHttpSend(r)
    PROVE  Known'
  <1> USE DEF IInv
  <1>1. Registered'
      BY Sides, Parts
        DEF Known, Registered, Asked, Over, ServeOK, WriterOK, ConnsOK, Hijacked, Add, Remove, ClientHttpSend
  <1>2. EdgeWasAsked'
      BY Sides, Parts
        DEF Known, EdgeWasAsked, Asked, ServeOK, RequestOK, ReaderOK, ClientHttpSend
  <1>3. WiresWereAsked'
    <2>1. \A q \in Req : Asked(q) => Asked(q)'
        BY AskedKept DEF ClientHttpSend
    <2>2. serve'[r] # "idle"
        BY DEF ClientHttpSend, Known, EdgeWasAsked, Asked
    <2>3. CASE readCh[r] # <<>>
      <3>1. readCh[r] \in Seq(Msg)
          BY Parts DEF ReadChOK
      <3>2. Head(readCh[r]) \in Msg /\ Head(readCh[r]).topic = r
          BY <2>3, <3>1, TailTyped DEF Known, ReadChIsOwn
      <3>3. Send2Node("edge", Head(readCh[r]))
          BY <2>3 DEF ClientHttpSend
      <3> QED BY <2>1, <2>2, <3>2, <3>3, Sides, SendKnown
    <2>4. CASE wire' = wire
        BY <2>1, <2>4, Parts, MsgParts DEF Known, WiresWereAsked, WireOK, Asked
    <2> QED BY <2>3, <2>4 DEF ClientHttpSend
  <1>4. ReadChIsOwn'
    <2>1. readCh \in [Req -> Seq(Msg)]
        BY Parts DEF ReadChOK
    <2>2. \/ UNCHANGED readCh
          \/ readCh[r] # <<>> /\ readCh' = [readCh EXCEPT ![r] = Tail(@)]
        BY DEF ClientHttpSend
    <2>3. ASSUME readCh[r] # <<>>, readCh' = [readCh EXCEPT ![r] = Tail(@)]
          PROVE  ReadChIsOwn'
      <3>1. \A i \in DOMAIN Tail(readCh[r]) : Tail(readCh[r])[i].topic = r
          BY <2>1, <2>3, TailTyped DEF Known, ReadChIsOwn
      <3>2. ASSUME NEW q \in Req PROVE \A i \in DOMAIN readCh'[q] : readCh'[q][i].topic = q
        <4>1. CASE q = r
            BY <2>1, <2>3, <3>1, <4>1
        <4>2. CASE q # r
            BY <2>1, <2>3, <4>2 DEF Known, ReadChIsOwn
        <4> QED BY <4>1, <4>2
      <3> QED BY <3>2 DEF ReadChIsOwn
    <2> QED BY <2>2, <2>3, Unmoved
  <1>5. Hijacked'
      BY Unmoved DEF ClientHttpSend, procs, links
  <1> QED BY <1>1, <1>2, <1>3, <1>4, <1>5 DEF Known

LEMMA StopReaderKnown ==
    ASSUME IInv, NEW r \in Req, StopReader(r)
    PROVE  Known'
  <1> USE DEF IInv
  <1>1. Registered'
      BY Sides, Parts
        DEF Known, Registered, Asked, Over, ServeOK, WriterOK, ConnsOK, Hijacked, Add, Remove, StopReader
  <1>2. EdgeWasAsked'
      BY Sides, Parts
        DEF Known, EdgeWasAsked, Asked, ServeOK, RequestOK, ReaderOK, StopReader
  <1>3. Hijacked'
      BY Sides, Parts DEF Known, Hijacked, ServeOK, ReaderOK, WriterOK, StopReader
  <1>4. WiresWereAsked' /\ ReadChIsOwn'
      BY Unmoved DEF StopReader, procs, links
  <1> QED BY <1>1, <1>2, <1>3, <1>4 DEF Known

LEMMA NetReadKnown ==
    ASSUME IInv, NEW s \in Side, NEW r \in Req, NetRead(s, r)
    PROVE  Known'
  <1> USE DEF IInv
  <1>1. Registered'
      BY Sides, Parts
        DEF Known, Registered, Asked, Over, ServeOK, WriterOK, ConnsOK, Hijacked, Add, Remove, NetRead, ReaderDone
  <1>2. EdgeWasAsked'
      BY Sides, Parts
        DEF Known, EdgeWasAsked, Asked, ServeOK, RequestOK, ReaderOK, NetRead, ReaderDone
  <1>3. WiresWereAsked'
    <2>1. \A q \in Req : Asked(q) => Asked(q)'
        BY AskedKept DEF NetRead
    <2>2. serve'[r] # "idle"
        BY DEF NetRead, Known, EdgeWasAsked, Hijacked, Asked, Side
    <2>3. PICK d \in Unread(s, r) \cup {0} : \/ Send2Node(s, M(r, "TRANSNMISSION", d))
                                          \/ Send2Node(s, EndOf(r, d))
        BY DEF NetRead
    <2>4. /\ M(r, "TRANSNMISSION", d) \in Msg /\ M(r, "TRANSNMISSION", d).topic = r
          /\ EndOf(r, d) \in Msg /\ EndOf(r, d).topic = r
        BY <2>3, SaysTyped, MsgTyped
    <2> QED BY <2>1, <2>2, <2>3, <2>4, SendKnown
  <1>4. Hijacked'
    <2>1. /\ UNCHANGED <<serve, writer>> /\ reader[s][r] = "run"
          /\ \/ UNCHANGED reader
             \/ reader' = [reader EXCEPT ![s][r] = "done"]
        BY DEF NetRead, ReaderDone
    <2>2. reader \in [Side -> [Req -> {"off", "run", "ended", "done"}]]
        BY Parts DEF ReaderOK
    <2> QED BY <2>1, <2>2, Sides DEF Known, Hijacked
  <1>5. ReadChIsOwn'
      BY Unmoved DEF NetRead, ReaderDone, procs, links
  <1> QED BY <1>1, <1>2, <1>3, <1>4, <1>5 DEF Known

LEMMA NetWriteKnown ==
    ASSUME IInv, NEW s \in Side, NEW r \in Req, NetWrite(s, r)
    PROVE  Known'
  <1> USE DEF IInv
  <1>1. Registered'
      BY Sides, Parts
        DEF Known, Registered, Asked, Over, ServeOK, WriterOK, ConnsOK, Hijacked, Add, Remove, NetWrite, WriterDone
  <1>2. Hijacked'
    <2>1. /\ UNCHANGED <<serve, reader>> /\ writer[s][r] = "run"
          /\ \/ UNCHANGED writer
             \/ writer' = [writer EXCEPT ![s][r] = "done"]
        BY DEF NetWrite, WriterDone
    <2>2. writer \in [Side -> [Req -> {"off", "run", "done"}]]
        BY Parts DEF WriterOK
    <2> QED BY <2>1, <2>2, Sides DEF Known, Hijacked
  <1>3. EdgeWasAsked' /\ WiresWereAsked' /\ ReadChIsOwn'
      BY Unmoved DEF NetWrite, WriterDone, procs, links
  <1> QED BY <1>1, <1>2, <1>3 DEF Known
-----------------------------------------------------------------------------
LEMMA InitInv == Init => IInv
  <1> SUFFICES ASSUME Init PROVE IInv
      OBVIOUS
  <1>1. TypeOK
      BY DEF Init, TypeOK
  <1>2. Known
      BY Sides DEF Init, Known, Registered, EdgeWasAsked, WiresWereAsked, ReadChIsOwn,
                   Hijacked, Asked
  <1> QED BY <1>1, <1>2 DEF IInv

LEMMA StutterInv == ASSUME IInv, UNCHANGED vars PROVE IInv'
  <1>1. TypeOK'
      BY Kept, PartsNext DEF IInv, vars, procs, links, ends
  <1>2. Known'
      BY Unmoved DEF IInv, Known, vars, procs, links
  <1> QED BY <1>1, <1>2 DEF IInv

LEMMA NextInv == ASSUME IInv, Next PROVE IInv'
  <1>1. ASSUME NEW s \in Side, RecvMsg(s) PROVE IInv'
      BY <1>1, RecvMsgTyped, RecvMsgKnown DEF IInv
  <1>2. ASSUME NEW s \in Side, Send2Conn(s) PROVE IInv'
      BY <1>2, Send2ConnTyped, Send2ConnKnown DEF IInv
  <1>3. ASSUME NEW r \in Req, Leave(r) PROVE IInv'
      BY <1>3, LeaveTyped, LeaveKnown DEF IInv
  <1>4. ASSUME NEW r \in Req, ServeHTTP(r) PROVE IInv'
      BY <1>4, ServeHTTPTyped, ServeHTTPKnown DEF IInv
  <1>5. ASSUME NEW r \in Req, Confirm(r) PROVE IInv'
      BY <1>5, ConfirmTyped, ConfirmKnown DEF IInv
  <1>6. ASSUME NEW r \in Req, ServerHttpRecv(r) PROVE IInv'
      BY <1>6, ServerHttpRecvTyped, ServerHttpRecvKnown DEF IInv
  <1>7. ASSUME NEW r \in Req, ServerHttpLeave(r) PROVE IInv'
      BY <1>7, ServerHttpLeaveTyped, ServerHttpLeaveKnown DEF IInv
  <1>8. ASSUME NEW r \in Req, Dial(r) PROVE IInv'
      BY <1>8, DialTyped, DialKnown DEF IInv
  <1>9. ASSUME NEW r \in Req, Reply(r) PROVE IInv'
      BY <1>9, ReplyTyped, ReplyKnown DEF IInv
  <1>10. ASSUME NEW r \in Req, Register(r) PROVE IInv'
      BY <1>10, RegisterTyped, RegisterKnown DEF IInv
  <1>11. ASSUME NEW r \in Req, AwaitConfirm(r) PROVE IInv'
      BY <1>11, AwaitConfirmTyped, AwaitConfirmKnown DEF IInv
  <1>12. ASSUME NEW r \in Req, SwitchProtocols(r) PROVE IInv'
      BY <1>12, SwitchProtocolsTyped, SwitchProtocolsKnown DEF IInv
  <1>13. ASSUME NEW r \in Req, ReadBody(r) PROVE IInv'
      BY <1>13, ReadBodyTyped, ReadBodyKnown DEF IInv
  <1>14. ASSUME NEW r \in Req, ClientHttpClosed(r) PROVE IInv'
      BY <1>14, ClientHttpClosedTyped, ClientHttpClosedKnown DEF IInv
  <1>15. ASSUME NEW r \in Req, ClientHttpSend(r) PROVE IInv'
      BY <1>15, ClientHttpSendTyped, ClientHttpSendKnown DEF IInv
  <1>16. ASSUME NEW r \in Req, StopReader(r) PROVE IInv'
      BY <1>16, StopReaderTyped, StopReaderKnown DEF IInv
  <1>17. ASSUME NEW s \in Side, NEW r \in Req, NetRead(s, r) PROVE IInv'
      BY <1>17, NetReadTyped, NetReadKnown DEF IInv
  <1>18. ASSUME NEW s \in Side, NEW r \in Req, NetWrite(s, r) PROVE IInv'
      BY <1>18, NetWriteTyped, NetWriteKnown DEF IInv
  <1> QED BY <1>1, <1>2, <1>3, <1>4, <1>5, <1>6, <1>7, <1>8, <1>9,
             <1>10, <1>11, <1>12, <1>13, <1>14, <1>15, <1>16, <1>17, <1>18 DEF Next, Cloud, Edge

LEMMA Inductive == Spec => []IInv
  <1>1. IInv /\ [Next]_vars => IInv'
      BY NextInv, StutterInv
  <1> QED BY InitInv, <1>1, PTL DEF Spec

(* The channels of both tunnel processes never hold more than they were    *)
(* made for, whatever the requests and capacities.                         *)
THEOREM TypeCorrect == Spec => []TypeOK
  <1>1. IInv => TypeOK
      BY DEF IInv
  <1> QED BY Inductive, <1>1, PTL

(* Whatever is under way to the cloud finds its conn registered there or   *)
(* its request over, so that RecvMsg drops nothing that was still wanted.  *)
THEOREM NothingWantedIsDropped == Spec => []CloudDropsOnlyTheDead
  <1>1. ASSUME IInv PROVE CloudDropsOnlyTheDead
    <2> SUFFICES ASSUME NEW i \in DOMAIN wire["edge"]
                 PROVE  wire["edge"][i].topic \in conns["cloud"] \cup Over
        BY DEF CloudDropsOnlyTheDead
    <2>1. wire["edge"] \in Seq(Msg)
        BY <1>1, Sides, Parts DEF IInv, WireOK
    <2>2. wire["edge"][i].topic \in Req
        BY <2>1, MsgParts
    <2> QED BY <1>1, <2>2, Sides DEF IInv, Known, WiresWereAsked, Registered
  <1> QED BY Inductive, <1>1, PTL
-----------------------------------------------------------------------------
(* What is under way to side s for request r passes up to four places: the *)
(* channel of its conn, the hand of s's RecvMsg loop, the wire, and, of a  *)
(* plain body, the channel of its reader.  c, h, w and q stand for them,   *)
(* from the nearest to the farthest.                                       *)
Elems(q) == {q[i] : i \in DOMAIN q}
Of(r, S) == {m \in S : m.topic = r}

(* Message y may be under way behind message x.                            *)
Follows(x, y) ==
    /\ x.type # "CLOSED" /\ y.type # "CONNECTING"
    /\ y.type = "CONNECTED" => x.type = "CONNECTING"
    /\ y.data = 0 \/ x.data < y.data

Ahead(A, B) == \A x \in A, y \in B : Follows(x, y)
Sorted(r, q) ==
    \A i, j \in DOMAIN q :
        i < j /\ q[i].topic = r /\ q[j].topic = r => Follows(q[i], q[j])

Flying(r, c, h, w, q) == Of(r, Elems(c)) \cup Of(r, h) \cup Of(r, Elems(w)) \cup Of(r, Elems(q))
Ordered(r, c, h, w, q) ==
    /\ Sorted(r, c) /\ Sorted(r, w) /\ Sorted(r, q)
    /\ Ahead(Of(r, Elems(c)), Of(r, h) \cup Of(r, Elems(w)) \cup Of(r, Elems(q)))
    /\ Ahead(Of(r, h), Of(r, Elems(w)) \cup Of(r, Elems(q)))
    /\ Ahead(Of(r, Elems(w)), Of(r, Elems(q)))

ReadChOf(s, r) == IF s = "cloud" THEN readCh[r] ELSE <<>>
Fly(s, r) == Flying(r, ch[s][r], hand[s], wire[Other(s)], ReadChOf(s, r))
Ord(s, r) == Ordered(r, ch[s][r], hand[s], wire[Other(s)], ReadChOf(s, r))

HasType(S, t) == \E m \in S : m.type = t
Bare(S) == \A m \in S : m.type = "CONNECTED" => m.data = 0

(* Of n pieces that were said, h were heard: the messages F have only such *)
(* as are still to be heard; they have all of them.                        *)
Within(F, h, n) == h <= n /\ \A m \in F : m.data # 0 => h < m.data /\ m.data <= n
Whole(F, h, n)  == \A d \in (h + 1)..n : \E m \in F : m.data = d

InRange(s, r)  == Within(Fly(s, r), Len(heard[s][r]), said[Other(s)][r])
Complete(s, r) == Whole(Fly(s, r), Len(heard[s][r]), said[Other(s)][r])

(* What RecvMsg has taken from the wire.                                   *)
Near(s, r) == Of(r, Elems(ch[s][r]) \cup hand[s])

Own(s, r)  == \A i \in DOMAIN ch[s][r] : ch[s][r][i].topic = r
Pipes(s)   == \A r \in Req : Ord(s, r) /\ Own(s, r)

(* What the places of the goroutines say of each other.                    *)
Young == {"off", "dial", "reply", "failed"}
Control(r) ==
    /\ request[r] \in Young \cup {"register", "confirm"} =>
           reader["edge"][r] = "off" /\ writer["edge"][r] = "off"
    /\ request[r] = "raw" => r \in Upgrade /\ reader["edge"][r] = "off" /\ writer["edge"][r] = "off"
    /\ request[r] \in {"http", "abort", "last"} => r \notin Upgrade
    /\ writer["edge"][r] # "off" => request[r] = "done" /\ r \in Upgrade
    /\ r \in Upgrade /\ request[r] = "done" => writer["edge"][r] # "off"
    /\ request[r] \in {"confirm", "raw"} \/ writer["edge"][r] = "run" => r \in conns["edge"]
    /\ r \in conns["edge"] => request[r] \notin Young \cup {"register"}
    /\ writer["edge"][r] = "done" => r \notin open["edge"]
    /\ r \in left => r \notin open["cloud"]
    /\ r \notin open["cloud"] => r \in left \/ writer["cloud"][r] = "done"
    /\ <<"cloud", r>> \in stop => r \notin open["cloud"]
    /\ reader["cloud"][r] # "off" => r \in Upgrade
    /\ readCh[r] # <<>> => r \notin Upgrade

(* The way to the cloud.                                                   *)
ToCloud(r) ==
    /\ request[r] \in Young => Fly("cloud", r) = {} /\ said["edge"][r] = 0
    /\ ~HasType(Fly("cloud", r), "CONNECTING") /\ Bare(Fly("cloud", r))
    /\ HasType(Fly("cloud", r), "CLOSED") \/ r \in Over \ left =>
           reader["edge"][r] \in {"ended", "done"}
    /\ serve[r] = "wait" /\ request[r] \notin Young => HasType(Fly("cloud", r), "CONNECTED")
    /\ r \notin left \cup Over => Complete("cloud", r)

(* The way to the edge.                                                    *)
ToEdge(r) ==
    /\ Bare(Fly("edge", r))
    /\ serve[r] = "idle" => Fly("edge", r) = {}
    /\ serve[r] = "wait" => \A m \in Fly("edge", r) : m.type = "CONNECTING"
    /\ HasType(Fly("edge", r), "CONNECTING") => serve[r] = "wait" /\ request[r] = "off"
    /\ HasType(Fly("edge", r), "CLOSED") => serve[r] = "done" \/ reader["cloud"][r] = "done"
    /\ HasType(Fly("edge", r), "CONNECTED") => request[r] \in {"register", "confirm"}
    /\ request[r] \notin Young \cup {"register", "confirm"} => serve[r] # "wait"
    /\ Near("edge", r) # {} => request[r] \notin Young \cup {"register"}
    /\ r \in Upgrade /\ reader["cloud"][r] = "off" => said["cloud"][r] = 0
    /\ r \in Upgrade /\ r \in open["edge"] /\ (HasType(Fly("edge", r), "CONNECTED") \/ request[r] \in {"raw", "done"})
           => Complete("edge", r)

Flow(r) == /\ InRange("cloud", r) /\ InRange("edge", r)
           /\ Control(r) /\ ToCloud(r) /\ ToEdge(r)

FInv == IInv /\ Pipes("cloud") /\ Pipes("edge") /\ \A r \in Req : Flow(r)
-----------------------------------------------------------------------------
(* A queue with one message more, or without its first.                    *)
LEMMA ElemsAppend ==
    ASSUME NEW S, NEW q \in Seq(S), NEW m \in S
    PROVE  Elems(Append(q, m)) = Elems(q) \cup {m}
  <1>1. /\ DOMAIN Append(q, m) = 1..(Len(q) + 1) /\ DOMAIN q = 1..Len(q) /\ Len(q) \in Nat
        /\ \A i \in 1..Len(q) : Append(q, m)[i] = q[i]
        /\ Append(q, m)[Len(q) + 1] = m
      OBVIOUS
  <1>2. Elems(Append(q, m)) \subseteq Elems(q) \cup {m}
      BY <1>1 DEF Elems
  <1>3. Elems(q) \subseteq Elems(Append(q, m))
      BY <1>1 DEF Elems
  <1>4. m \in Elems(Append(q, m))
      BY <1>1 DEF Elems
  <1> QED BY <1>2, <1>3, <1>4

LEMMA ElemsTail ==
    ASSUME NEW S, NEW q \in Seq(S), q # <<>>
    PROVE  Elems(q) = Elems(Tail(q)) \cup {Head(q)}
  <1>1. /\ DOMAIN Tail(q) = 1..(Len(q) - 1) /\ DOMAIN q = 1..Len(q) /\ Len(q) \in Nat \ {0}
        /\ \A i \in 1..(Len(q) - 1) : Tail(q)[i] = q[i + 1] /\ i + 1 \in 1..Len(q)
        /\ Head(q) = q[1] /\ 1 \in 1..Len(q)
        /\ \A j \in 1..Len(q) : j # 1 => j - 1 \in 1..(Len(q) - 1) /\ (j - 1) + 1 = j
      OBVIOUS
  <1>2. Elems(Tail(q)) \subseteq Elems(q) /\ Head(q) \in Elems(q)
      BY <1>1 DEF Elems
  <1>3. ASSUME NEW j \in 1..Len(q) PROVE q[j] \in Elems(Tail(q)) \cup {Head(q)}
    <2>1. CASE j = 1
        BY <1>1, <2>1
    <2>2. CASE j # 1
      <3>1. j - 1 \in 1..(Len(q) - 1) /\ Tail(q)[j - 1] = q[j]
          BY <1>1, <2>2
      <3> QED BY <1>1, <3>1 DEF Elems
    <2> QED BY <2>1, <2>2
  <1> QED BY <1>1, <1>2, <1>3 DEF Elems

LEMMA ElemsEmpty == Elems(<<>>) = {}
  BY DEF Elems

(* The messages of F are those of G and those of H.                        *)
Joins(F, G, H) == \A m : m \in F <=> m \in G \/ m \in H

LEMMA OfParts ==
    ASSUME NEW r
    PROVE  /\ \A A, B : Of(r, A \cup B) = Of(r, A) \cup Of(r, B)
           /\ \A m : m.topic = r => Of(r, {m}) = {m}
           /\ \A m : m.topic # r => Of(r, {m}) = {}
           /\ Of(r, {}) = {}
  BY DEF Of

LEMMA OfAppend ==
    ASSUME NEW r, NEW q \in Seq(Msg), NEW m \in Msg
    PROVE  Of(r, Elems(Append(q, m))) = Of(r, Elems(q)) \cup Of(r, {m})
  <1>1. Elems(Append(q, m)) = Elems(q) \cup {m}
      BY ElemsAppend
  <1> QED BY <1>1 DEF Of

LEMMA OfTail ==
    ASSUME NEW r, NEW q \in Seq(Msg), q # <<>>
    PROVE  Of(r, Elems(q)) = Of(r, Elems(Tail(q))) \cup Of(r, {Head(q)}) /\ Head(q) \in Msg
  <1>1. Elems(q) = Elems(Tail(q)) \cup {Head(q)} /\ Head(q) \in Msg
      BY ElemsTail
  <1> QED BY <1>1 DEF Of

LEMMA SortedTail ==
    ASSUME NEW r, NEW q \in Seq(Msg), q # <<>>, Sorted(r, q)
    PROVE  /\ Sorted(r, Tail(q))
           /\ Ahead(Of(r, {Head(q)}), Of(r, Elems(Tail(q))))
  <1>1. /\ DOMAIN Tail(q) = 1..(Len(q) - 1) /\ DOMAIN q = 1..Len(q) /\ Len(q) \in Nat \ {0}
        /\ \A i \in 1..(Len(q) - 1) : Tail(q)[i] = q[i + 1] /\ i + 1 \in 1..Len(q) /\ 1 < i + 1
        /\ Head(q) = q[1] /\ 1 \in 1..Len(q)
      OBVIOUS
  <1>2. Sorted(r, Tail(q))
    <2> SUFFICES ASSUME NEW i \in 1..(Len(q) - 1), NEW j \in 1..(Len(q) - 1), i < j,
                        Tail(q)[i].topic = r, Tail(q)[j].topic = r
                 PROVE  Follows(Tail(q)[i], Tail(q)[j])
        BY <1>1 DEF Sorted
    <2>1. i + 1 < j + 1
        BY <1>1
    <2> QED BY <1>1, <2>1 DEF Sorted
  <1>3. \A i \in 1..(Len(q) - 1) : q[1].topic = r /\ Tail(q)[i].topic = r => Follows(q[1], Tail(q)[i])
      BY <1>1 DEF Sorted
  <1> QED BY <1>1, <1>2, <1>3 DEF Ahead, Of, Elems

LEMMA SortedAppend ==
    ASSUME NEW r, NEW q \in Seq(Msg), NEW m \in Msg, Sorted(r, q),
           Ahead(Of(r, Elems(q)), Of(r, {m}))
    PROVE  Sorted(r, Append(q, m))
  <1>1. /\ DOMAIN Append(q, m) = 1..(Len(q) + 1) /\ DOMAIN q = 1..Len(q) /\ Len(q) \in Nat
        /\ \A i \in 1..Len(q) : Append(q, m)[i] = q[i]
        /\ Append(q, m)[Len(q) + 1] = m
      OBVIOUS
  <1> DEFINE new == Append(q, m)
  <1> HIDE DEF new
  <1> SUFFICES ASSUME NEW i \in 1..(Len(q) + 1), NEW j \in 1..(Len(q) + 1), i < j,
                      new[i].topic = r, new[j].topic = r
               PROVE  Follows(new[i], new[j])
      BY <1>1 DEF Sorted, new
  <1>2. i \in 1..Len(q) /\ new[i] = q[i]
      BY <1>1 DEF new
  <1>3. CASE j \in 1..Len(q)
      BY <1>1, <1>2, <1>3 DEF Sorted, new
  <1>4. CASE j = Len(q) + 1
    <2>1. new[j] = m
        BY <1>1, <1>4 DEF new
    <2>2. q[i] \in Of(r, Elems(q)) /\ m \in Of(r, {m})
        BY <1>1, <1>2, <2>1 DEF Of, Elems
    <2> QED BY <1>2, <2>1, <2>2 DEF Ahead
  <1>5. PICK n \in Nat : n = Len(q)
      BY <1>1
  <1>6. j \in 1..n \/ j = n + 1
      BY <1>5
  <1> QED BY <1>3, <1>4, <1>5, <1>6
-----------------------------------------------------------------------------
(* The moves along the way, for the requests of any other topic too.       *)
LEMMA TakeOne ==
    ASSUME NEW r, NEW c \in Seq(Msg), NEW h, NEW w, NEW q, Ordered(r, c, h, w, q),
           c # <<>>, Head(c).topic = r
    PROVE  /\ Ordered(r, Tail(c), h, w, q)
           /\ Joins(Flying(r, c, h, w, q), Flying(r, Tail(c), h, w, q), {Head(c)})
           /\ Ahead({Head(c)}, Flying(r, Tail(c), h, w, q))
  <1>1. /\ Of(r, Elems(c)) = Of(r, Elems(Tail(c))) \cup {Head(c)}
        /\ Of(r, {Head(c)}) = {Head(c)}
    <2>1. Of(r, Elems(c)) = Of(r, Elems(Tail(c))) \cup Of(r, {Head(c)})
        BY OfTail
    <2>2. Of(r, {Head(c)}) = {Head(c)}
        BY DEF Of
    <2> QED BY <2>1, <2>2
  <1>2. /\ Sorted(r, Tail(c)) /\ Ahead({Head(c)}, Of(r, Elems(Tail(c))))
    <2>1. Sorted(r, c)
        BY DEF Ordered
    <2>2. Sorted(r, Tail(c)) /\ Ahead(Of(r, {Head(c)}), Of(r, Elems(Tail(c))))
        BY <2>1, SortedTail
    <2> QED BY <1>1, <2>2
  <1> QED BY <1>1, <1>2 DEF Ordered, Flying, Ahead, Joins

LEMMA SendOne ==
    ASSUME NEW r, NEW c, NEW h, NEW w \in Seq(Msg), NEW q, NEW m \in Msg,
           Ordered(r, c, h, w, q),
           m.topic # r \/ (q = <<>> /\ Ahead(Flying(r, c, h, w, q), {m}))
    PROVE  /\ Ordered(r, c, h, Append(w, m), q)
           /\ Joins(Flying(r, c, h, Append(w, m), q), Flying(r, c, h, w, q), Of(r, {m}))
  <1>1. Of(r, Elems(Append(w, m))) = Of(r, Elems(w)) \cup Of(r, {m})
      BY OfAppend
  <1>2. Ahead(Of(r, Elems(c)) \cup Of(r, h) \cup Of(r, Elems(w)), Of(r, {m}))
      BY DEF Of, Ahead, Flying
  <1>3. Sorted(r, Append(w, m))
    <2>1. Ahead(Of(r, Elems(w)), Of(r, {m})) /\ Sorted(r, w)
        BY <1>2 DEF Ordered, Ahead
    <2> QED BY <2>1, SortedAppend
  <1>4. Ahead(Of(r, {m}), Of(r, Elems(q)))
      BY ElemsEmpty, OfParts DEF Ahead
  <1> QED BY <1>1, <1>2, <1>3, <1>4 DEF Ordered, Flying, Ahead, Joins

LEMMA ForwardOne ==
    ASSUME NEW r, NEW c, NEW h, NEW w \in Seq(Msg), NEW q \in Seq(Msg), q # <<>>,
           Ordered(r, c, h, w, q)
    PROVE  /\ Ordered(r, c, h, Append(w, Head(q)), Tail(q))
           /\ Flying(r, c, h, Append(w, Head(q)), Tail(q)) = Flying(r, c, h, w, q)
  <1> DEFINE m == Head(q)
  <1>1. Of(r, Elems(q)) = Of(r, Elems(Tail(q))) \cup Of(r, {m}) /\ m \in Msg
      BY OfTail
  <1>2. Sorted(r, Tail(q)) /\ Ahead(Of(r, {m}), Of(r, Elems(Tail(q))))
      BY SortedTail DEF Ordered
  <1> HIDE DEF m
  <1>3. Of(r, Elems(Append(w, m))) = Of(r, Elems(w)) \cup Of(r, {m})
      BY <1>1, OfAppend
  <1>4. Sorted(r, Append(w, m))
    <2>1. Ahead(Of(r, Elems(w)), Of(r, {m})) /\ Sorted(r, w)
        BY <1>1 DEF Ordered, Ahead
    <2> QED BY <1>1, <2>1, SortedAppend
  <1>5. Ordered(r, c, h, Append(w, m), Tail(q))
      BY <1>1, <1>2, <1>3, <1>4 DEF Ordered, Ahead
  <1>6. Flying(r, c, h, Append(w, m), Tail(q)) = Flying(r, c, h, w, q)
      BY <1>1, <1>3 DEF Flying
  <1> QED BY <1>5, <1>6 DEF m

LEMMA ReadOne ==
    ASSUME NEW r, NEW c, NEW h, NEW w, NEW q \in Seq(Msg), NEW m \in Msg, m.topic = r,
           Ordered(r, c, h, w, q), Ahead(Flying(r, c, h, w, q), {m})
    PROVE  /\ Ordered(r, c, h, w, Append(q, m))
           /\ Joins(Flying(r, c, h, w, Append(q, m)), Flying(r, c, h, w, q), {m})
  <1>1. /\ Of(r, Elems(Append(q, m))) = Of(r, Elems(q)) \cup {m}
        /\ Of(r, {m}) = {m}
    <2>1. Of(r, Elems(Append(q, m))) = Of(r, Elems(q)) \cup Of(r, {m})
        BY OfAppend
    <2>2. Of(r, {m}) = {m}
        BY DEF Of
    <2> QED BY <2>1, <2>2
  <1>2. Sorted(r, Append(q, m))
    <2>1. Ahead(Of(r, Elems(q)), Of(r, {m}))
        BY <1>1 DEF Ahead, Flying
    <2>2. Sorted(r, q)
        BY DEF Ordered
    <2> QED BY <2>1, <2>2, SortedAppend
  <1> QED BY <1>1, <1>2 DEF Ordered, Flying, Ahead, Joins
-----------------------------------------------------------------------------
(* What the moves do to the pieces: F before, G after, m the message.      *)
LEMMA HearOne ==
    ASSUME NEW F, F \subseteq Msg, NEW G, NEW m, F = G \cup {m}, Ahead({m}, G),
           NEW h \in Nat, NEW n \in Nat, Within(F, h, n), Whole(F, h, n), m.data # 0
    PROVE  /\ m.data = h + 1 /\ h < n
           /\ Within(G, h + 1, n) /\ Whole(G, h + 1, n)
  <1>1. m \in Msg /\ m.data \in Nat /\ \A y \in F : y.data \in Nat
      BY MsgParts
  <1>2. h < m.data /\ m.data <= n
      BY DEF Within
  <1>3. h < n /\ h + 1 \in (h + 1)..n
      BY <1>1, <1>2
  <1>4. PICK y \in F : y.data = h + 1
      BY <1>3 DEF Whole
  <1>5. m.data = h + 1
    <2>1. CASE y = m
        BY <1>4, <2>1
    <2>2. CASE y # m
      <3>1. Follows(m, y)
          BY <2>2 DEF Ahead
      <3>2. m.data < h + 1
          BY <1>4, <3>1 DEF Follows
      <3> QED BY <1>1, <1>2, <3>2
    <2> QED BY <2>1, <2>2
  <1>6. Within(G, h + 1, n)
    <2>1. ASSUME NEW z \in G, z.data # 0 PROVE h + 1 < z.data /\ z.data <= n
      <3>1. Follows(m, z)
          BY DEF Ahead
      <3> QED BY <1>1, <1>5, <2>1, <3>1 DEF Follows, Within
    <2> QED BY <1>3, <2>1 DEF Within
  <1>7. Whole(G, h + 1, n)
    <2> SUFFICES ASSUME NEW d \in ((h + 1) + 1)..n PROVE \E z \in G : z.data = d
        BY DEF Whole
    <2>1. d \in (h + 1)..n /\ d # m.data
        BY <1>5
    <2> QED BY <2>1 DEF Whole
  <1> QED BY <1>3, <1>5, <1>6, <1>7

LEMMA SkipOne ==
    ASSUME NEW F, NEW G, NEW m, F = G \cup {m}, m.data = 0, NEW h \in Nat, NEW n \in Nat
    PROVE  (Within(F, h, n) => Within(G, h, n)) /\ (Whole(F, h, n) => Whole(G, h, n))
           /\ (Within(G, h, n) => Within(F, h, n)) /\ (Whole(G, h, n) => Whole(F, h, n))
  <1>1. \A d \in (h + 1)..n : d # 0
      OBVIOUS
  <1> QED BY <1>1 DEF Within, Whole

LEMMA SayOne ==
    ASSUME NEW F, F \subseteq Msg, NEW G, NEW m, G = F \cup {m},
           NEW h \in Nat, NEW n \in Nat, m.data = n + 1, Within(F, h, n)
    PROVE  Within(G, h, n + 1) /\ (Whole(F, h, n) => Whole(G, h, n + 1))
  <1>1. \A y \in F : y.data \in Nat
      BY MsgParts
  <1>2. Within(G, h, n + 1)
      BY <1>1 DEF Within
  <1>3. ASSUME Whole(F, h, n), NEW d \in (h + 1)..(n + 1) PROVE \E y \in G : y.data = d
    <2>1. d = n + 1 \/ d \in (h + 1)..n
        OBVIOUS
    <2> QED BY <1>3, <2>1 DEF Whole
  <1> QED BY <1>2, <1>3 DEF Whole

LEMMA LastOne ==
    ASSUME NEW F, F \subseteq Msg, NEW G, NEW m, F = G \cup {m}, Ahead({m}, G), m.type = "CLOSED",
           NEW h \in Nat, NEW n \in Nat, Within(F, h, n), Whole(F, h, n)
    PROVE  (m.data = 0 => h = n) /\ (m.data # 0 => m.data = h + 1 /\ n = h + 1)
  <1>1. F = {m}
      BY DEF Ahead, Follows
  <1>2. h <= n /\ (m.data # 0 => h < m.data /\ m.data <= n)
      BY <1>1 DEF Within
  <1>3. \A d \in (h + 1)..n : m.data = d
      BY <1>1 DEF Whole
  <1>4. h < n => h + 1 \in (h + 1)..n /\ n \in (h + 1)..n
      OBVIOUS
  <1>5. m.data \in Nat
      BY MsgParts
  <1>6. CASE m.data = 0
    <2>1. ~(h < n)
        BY <1>3, <1>4, <1>6
    <2> QED BY <1>2, <1>6, <2>1
  <1>7. CASE m.data # 0
    <2>1. h < n
        BY <1>2, <1>5, <1>7
    <2>2. m.data = h + 1 /\ m.data = n
        BY <1>3, <1>4, <2>1
    <2> QED BY <1>7, <2>2
  <1> QED BY <1>6, <1>7

LEMMA NothingSaid ==
    ASSUME NEW F, NEW h \in Nat, Within(F, h, 0)
    PROVE  h = 0 /\ Whole(F, h, 0)
  <1>1. h = 0
      BY DEF Within
  <1>2. (h + 1)..0 = {}
      BY <1>1
  <1> QED BY <1>1, <1>2 DEF Whole

LEMMA FreshOne ==
    ASSUME NEW F, F \subseteq Msg, NEW h \in Nat, NEW n \in Nat, Within(F, h, n),
           ~HasType(F, "CLOSED"), NEW m, m.type \in {"TRANSNMISSION", "CLOSED"},
           m.data = 0 \/ m.data = n + 1
    PROVE  Ahead(F, {m})
  <1> SUFFICES ASSUME NEW x \in F PROVE Follows(x, m)
      BY DEF Ahead
  <1>1. x.data \in Nat /\ x.type # "CLOSED"
      BY MsgParts DEF HasType
  <1>2. m.data = 0 \/ x.data < m.data
    <2>1. x.data = 0 \/ x.data <= n
        BY <1>1 DEF Within
    <2> QED BY <1>1, <2>1
  <1> QED BY <1>1, <1>2 DEF Follows
-----------------------------------------------------------------------------
(* The moves in the state: one lemma for each thing a step does to what is *)
(* under way to side s.                                                    *)
LEMMA PipeTypes ==
    ASSUME TypeOK, NEW s \in Side, NEW r \in Req
    PROVE  /\ ch[s][r] \in Seq(Msg) /\ wire[s] \in Seq(Msg) /\ readCh[r] \in Seq(Msg)
           /\ ReadChOf(s, r) \in Seq(Msg) /\ hand[s] \subseteq Msg
           /\ Fly(s, r) \subseteq Msg
           /\ wire[Other(s)] \in Seq(Msg)
  <1>1. ch[s][r] \in Seq(Msg) /\ wire[s] \in Seq(Msg) /\ readCh[r] \in Seq(Msg) /\ hand[s] \subseteq Msg
      BY Parts DEF ChOK, WireOK, ReadChOK, HandOK
  <1>2. ReadChOf(s, r) \in Seq(Msg)
      BY <1>1 DEF ReadChOf
  <1>3. wire[Other(s)] \in Seq(Msg)
      BY Sides, Parts DEF WireOK
  <1>4. \A q \in Seq(Msg) : Elems(q) \subseteq Msg
      BY DEF Elems
  <1>5. Fly(s, r) \subseteq Msg
      BY <1>1, <1>2, <1>3, <1>4 DEF Fly, Flying, Of
  <1> QED BY <1>1, <1>2, <1>3, <1>5

(* What the names above stand for, now and after a step.                   *)
LEMMA OrdNow ==
    ASSUME NEW s, NEW r
    PROVE  Ord(s, r) <=> Ordered(r, ch[s][r], hand[s], wire[Other(s)], ReadChOf(s, r))
  BY DEF Ord

LEMMA OrdNext ==
    ASSUME NEW s, NEW r
    PROVE  Ord(s, r)' <=> Ordered(r, ch'[s][r], hand'[s], wire'[Other(s)], ReadChOf(s, r)')
  BY DEF Ord, Ordered, Sorted, Ahead, Follows, Of, Elems

LEMMA FlyNext ==
    ASSUME NEW s, NEW r
    PROVE  /\ Fly(s, r) = Flying(r, ch[s][r], hand[s], wire[Other(s)], ReadChOf(s, r))
           /\ Fly(s, r)' = Flying(r, ch'[s][r], hand'[s], wire'[Other(s)], ReadChOf(s, r)')
  <1>1. Fly(s, r)' = Flying(r, ch'[s][r], hand'[s], wire'[Other(s)], ReadChOf(s, r)')
      BY DEF Fly, Flying, Of, Elems
  <1> QED BY <1>1 DEF Fly

LEMMA NearNext ==
    ASSUME NEW s, NEW r
    PROVE  /\ Near(s, r) = Of(r, Elems(ch[s][r]) \cup hand[s])
           /\ Near(s, r)' = Of(r, Elems(ch'[s][r]) \cup hand'[s])
  <1>1. Near(s, r)' = Of(r, Elems(ch'[s][r]) \cup hand'[s])
      BY DEF Near, Of, Elems
  <1> QED BY <1>1 DEF Near

LEMMA Idle ==
    ASSUME NEW s \in Side, ch'[s] = ch[s], hand'[s] = hand[s],
           wire'[Other(s)] = wire[Other(s)], s = "cloud" => readCh' = readCh
    PROVE  /\ Pipes(s) => Pipes(s)'
           /\ \A r : Fly(s, r)' = Fly(s, r) /\ Near(s, r)' = Near(s, r)
  <1>1. \A r : ReadChOf(s, r)' = ReadChOf(s, r)
      BY DEF ReadChOf
  <1>2. \A r : Ord(s, r)' = Ord(s, r) /\ Own(s, r)' = Own(s, r)
      BY <1>1 DEF Ord, Own
  <1>3. \A r : Fly(s, r)' = Fly(s, r) /\ Near(s, r)' = Near(s, r)
      BY <1>1 DEF Fly, Near
  <1> QED BY <1>2, <1>3 DEF Pipes

LEMMA TakeStep ==
    ASSUME TypeOK, NEW s \in Side, Pipes(s), NEW r \in Req, Take(s, r), hand'[s] = hand[s],
           wire'[Other(s)] = wire[Other(s)], readCh' = readCh
    PROVE  /\ Pipes(s)'
           /\ \A x \in Req : x # r => Fly(s, x)' = Fly(s, x) /\ Near(s, x)' = Near(s, x)
           /\ Near(s, r)' \subseteq Near(s, r)
           /\ Fly(s, r) = Fly(s, r)' \cup {Head(ch[s][r])}
           /\ Ahead({Head(ch[s][r])}, Fly(s, r)')
           /\ Head(ch[s][r]) \in Msg
  <1> DEFINE m == Head(ch[s][r])
  <1>1. /\ ch[s][r] \in Seq(Msg) /\ ch[s][r] # <<>> /\ ch'[s][r] = Tail(ch[s][r])
        /\ \A x \in Req : x # r => ch'[s][x] = ch[s][x]
      BY PipeTypes, Parts DEF ChOK, Take
  <1>2. m \in Msg /\ m.topic = r /\ Own(s, r)'
    <2>1. m = ch[s][r][1] /\ 1 \in DOMAIN ch[s][r] /\ m \in Msg
        BY <1>1, TailTyped
    <2>2. \A i \in DOMAIN ch'[s][r] : i + 1 \in DOMAIN ch[s][r] /\ ch'[s][r][i] = ch[s][r][i + 1]
        BY <1>1, TailTyped
    <2> QED BY <2>1, <2>2 DEF Pipes, Own
  <1>3. /\ Ord(s, r)' /\ Fly(s, r) = Fly(s, r)' \cup {m} /\ Ahead({m}, Fly(s, r)')
    <2>1. ReadChOf(s, r)' = ReadChOf(s, r)
        BY DEF ReadChOf
    <2>2. Ord(s, r)
        BY DEF Pipes
    <2>3. PICK c, h, w, q : /\ c = ch[s][r] /\ h = hand[s] /\ w = wire[Other(s)]
                             /\ q = ReadChOf(s, r)
        OBVIOUS
    <2>4. /\ Ordered(r, c, h, w, q) /\ Fly(s, r) = Flying(r, c, h, w, q)
          /\ c \in Seq(Msg) /\ c # <<>> /\ Head(c).topic = r
        BY <1>1, <1>2, <2>2, <2>3, OrdNow, OrdNext, FlyNext
    <2>5. /\ Ord(s, r)' <=> Ordered(r, Tail(c), h, w, q)
          /\ Fly(s, r)' = Flying(r, Tail(c), h, w, q)
        BY <1>1, <2>1, <2>3, OrdNow, OrdNext, FlyNext
    <2>6. /\ Ordered(r, Tail(c), h, w, q)
          /\ Joins(Flying(r, c, h, w, q), Flying(r, Tail(c), h, w, q), {Head(c)})
          /\ Ahead({Head(c)}, Flying(r, Tail(c), h, w, q))
        BY <2>4, TakeOne
    <2> QED BY <2>3, <2>4, <2>5, <2>6 DEF Joins
  <1>4. ASSUME NEW x \in Req, x # r
        PROVE  /\ Ord(s, x)' = Ord(s, x) /\ Own(s, x)' = Own(s, x)
               /\ Fly(s, x)' = Fly(s, x) /\ Near(s, x)' = Near(s, x)
    <2>1. ReadChOf(s, x)' = ReadChOf(s, x)
        BY DEF ReadChOf
    <2> QED BY <1>1, <1>4, <2>1 DEF Ord, Own, Fly, Near
  <1>5. Near(s, r)' \subseteq Near(s, r)
      BY <1>1, ElemsTail DEF Near, Of
  <1>6. Pipes(s)'
      BY <1>2, <1>3, <1>4 DEF Pipes
  <1> QED BY <1>2, <1>3, <1>4, <1>5, <1>6

LEMMA SendStep ==
    ASSUME TypeOK, NEW s \in Side, Pipes(s), NEW r \in Req, NEW m \in Msg, m.topic = r,
           Send2Node(Other(s), m), ch'[s] = ch[s], hand'[s] = hand[s], readCh' = readCh,
           ReadChOf(s, r) = <<>>, Ahead(Fly(s, r), {m})
    PROVE  /\ Pipes(s)'
           /\ \A x \in Req : x # r => Fly(s, x)' = Fly(s, x)
           /\ \A x \in Req : Near(s, x)' = Near(s, x)
           /\ Fly(s, r)' = Fly(s, r) \cup {m}
  <1>1. wire'[Other(s)] = Append(wire[Other(s)], m) /\ wire[Other(s)] \in Seq(Msg)
      BY Sides, Parts DEF WireOK, Send2Node
  <1>2. ASSUME NEW x \in Req
        PROVE  /\ Ord(s, x)' /\ Own(s, x)' = Own(s, x) /\ Near(s, x)' = Near(s, x)
               /\ Fly(s, x)' = Fly(s, x) \cup Of(x, {m})
    <2>1. ReadChOf(s, x)' = ReadChOf(s, x)
        BY DEF ReadChOf
    <2>2. Ord(s, x)
        BY DEF Pipes
    <2>3. m.topic # x \/ (ReadChOf(s, x) = <<>> /\ Ahead(Fly(s, x), {m}))
        OBVIOUS
    <2>4. PICK c, h, w, q : /\ c = ch[s][x] /\ h = hand[s] /\ w = wire[Other(s)]
                             /\ q = ReadChOf(s, x)
        OBVIOUS
    <2>5. /\ Ordered(x, c, h, w, q) /\ Fly(s, x) = Flying(x, c, h, w, q) /\ w \in Seq(Msg)
          /\ m.topic # x \/ (q = <<>> /\ Ahead(Flying(x, c, h, w, q), {m}))
        BY <1>1, <2>2, <2>3, <2>4, OrdNow, OrdNext, FlyNext
    <2>6. /\ Ord(s, x)' <=> Ordered(x, c, h, Append(w, m), q)
          /\ Fly(s, x)' = Flying(x, c, h, Append(w, m), q)
        BY <1>1, <2>1, <2>4, OrdNow, OrdNext, FlyNext
    <2>7. /\ Ordered(x, c, h, Append(w, m), q)
          /\ Joins(Flying(x, c, h, Append(w, m), q), Flying(x, c, h, w, q), Of(x, {m}))
        BY <2>5, SendOne
    <2>8. Ord(s, x)' /\ Fly(s, x)' = Fly(s, x) \cup Of(x, {m})
        BY <2>5, <2>6, <2>7 DEF Joins
    <2> QED BY <2>8 DEF Own, Near
  <1> QED BY <1>2, OfParts DEF Pipes

LEMMA ForwardStep ==
    ASSUME TypeOK, Pipes("cloud"), NEW r \in Req, readCh[r] # <<>>,
           \A i \in DOMAIN readCh[r] : readCh[r][i].topic = r,
           Send2Node("edge", Head(readCh[r])), readCh' = [readCh EXCEPT ![r] = Tail(@)],
           ch' = ch, hand' = hand
    PROVE  /\ Pipes("cloud")'
           /\ \A x \in Req : Fly("cloud", x)' = Fly("cloud", x)
  <1> DEFINE m == Head(readCh[r])
  <1>1. /\ wire'["edge"] = Append(wire["edge"], m) /\ wire["edge"] \in Seq(Msg)
        /\ Other("cloud") = "edge"
      BY Sides, Parts DEF WireOK, Send2Node, Other
  <1>2. readCh[r] \in Seq(Msg) /\ m \in Msg /\ m.topic = r
      BY Sides, PipeTypes, TailTyped
  <1>3. /\ readCh'[r] = Tail(readCh[r]) /\ \A x \in Req : x # r => readCh'[x] = readCh[x]
      BY Parts DEF ReadChOK
  <1> HIDE DEF m
  <1>4. ASSUME NEW x \in Req
        PROVE  /\ Ord("cloud", x)' /\ Own("cloud", x)' = Own("cloud", x)
               /\ Fly("cloud", x)' = Fly("cloud", x)
    <2>1. Ord("cloud", x) /\ ReadChOf("cloud", x) = readCh[x] /\ ReadChOf("cloud", x)' = readCh'[x]
        BY DEF Pipes, ReadChOf
    <2>2. CASE x = r
      <3>1. PICK c, h, w, q : /\ c = ch["cloud"][x] /\ h = hand["cloud"] /\ w = wire["edge"]
                               /\ q = readCh[x]
          OBVIOUS
      <3>2. /\ Ordered(x, c, h, w, q) /\ Fly("cloud", x) = Flying(x, c, h, w, q)
            /\ w \in Seq(Msg) /\ q \in Seq(Msg) /\ q # <<>> /\ m = Head(q)
          BY <1>1, <1>2, <2>1, <2>2, <3>1, OrdNow, OrdNext, FlyNext DEF m
      <3>3. /\ Ord("cloud", x)' <=> Ordered(x, c, h, Append(w, m), Tail(q))
            /\ Fly("cloud", x)' = Flying(x, c, h, Append(w, m), Tail(q))
        <4>1. /\ ch'["cloud"][x] = c /\ hand'["cloud"] = h
              /\ wire'[Other("cloud")] = Append(w, m) /\ ReadChOf("cloud", x)' = Tail(q)
            BY <1>1, <1>3, <2>1, <2>2, <3>1
        <4> QED BY <4>1, OrdNext, FlyNext
      <3>4. /\ Ordered(x, c, h, Append(w, m), Tail(q))
            /\ Flying(x, c, h, Append(w, m), Tail(q)) = Flying(x, c, h, w, q)
          BY <3>2, ForwardOne
      <3> QED BY <3>2, <3>3, <3>4 DEF Own
    <2>3. CASE x # r
      <3>1. PICK c, h, w, q : /\ c = ch["cloud"][x] /\ h = hand["cloud"] /\ w = wire["edge"]
                               /\ q = readCh[x]
          OBVIOUS
      <3>2. /\ Ordered(x, c, h, w, q) /\ Fly("cloud", x) = Flying(x, c, h, w, q)
            /\ w \in Seq(Msg) /\ m \in Msg /\ m.topic # x
          BY <1>1, <1>2, <2>1, <2>3, <3>1, OrdNow, OrdNext, FlyNext
      <3>3. /\ Ord("cloud", x)' <=> Ordered(x, c, h, Append(w, m), q)
            /\ Fly("cloud", x)' = Flying(x, c, h, Append(w, m), q)
        <4>1. /\ ch'["cloud"][x] = c /\ hand'["cloud"] = h
              /\ wire'[Other("cloud")] = Append(w, m) /\ ReadChOf("cloud", x)' = q
            BY <1>1, <1>3, <2>1, <2>3, <3>1
        <4> QED BY <4>1, OrdNext, FlyNext
      <3>4. /\ Ordered(x, c, h, Append(w, m), q)
            /\ Joins(Flying(x, c, h, Append(w, m), q), Flying(x, c, h, w, q), Of(x, {m}))
          BY <3>2, SendOne
      <3>5. Of(x, {m}) = {}
          BY <1>2, <2>3, OfParts
      <3>6. Fly("cloud", x)' = Fly("cloud", x)
        <4>1. \A k : k \in Fly("cloud", x)' <=> k \in Flying(x, c, h, w, q)
            BY <3>3, <3>4, <3>5 DEF Joins
        <4> QED BY <3>2, <4>1
      <3>7. Own("cloud", x)' = Own("cloud", x)
          BY DEF Own
      <3> QED BY <3>3, <3>4, <3>6, <3>7
    <2> QED BY <2>2, <2>3
  <1> QED BY <1>4 DEF Pipes

LEMMA ReadStep ==
    ASSUME TypeOK, Pipes("cloud"), NEW r \in Req, NEW m \in Msg, m.topic = r,
           readCh' = [readCh EXCEPT ![r] = Append(@, m)],
           ch' = ch, hand' = hand, wire' = wire, Ahead(Fly("cloud", r), {m})
    PROVE  /\ Pipes("cloud")'
           /\ \A x \in Req : x # r => Fly("cloud", x)' = Fly("cloud", x)
           /\ Fly("cloud", r)' = Fly("cloud", r) \cup {m}
  <1>1. /\ readCh'[r] = Append(readCh[r], m) /\ \A x \in Req : x # r => readCh'[x] = readCh[x]
        /\ readCh[r] \in Seq(Msg)
      BY Parts DEF ReadChOK
  <1>2. \A x \in Req : /\ Ord("cloud", x) /\ ReadChOf("cloud", x) = readCh[x]
                       /\ ReadChOf("cloud", x)' = readCh'[x]
                       /\ Own("cloud", x)' = Own("cloud", x)
      BY DEF Pipes, ReadChOf, Own
  <1>3. Ord("cloud", r)' /\ Fly("cloud", r)' = Fly("cloud", r) \cup {m}
    <2>1. PICK c, h, w, q : /\ c = ch["cloud"][r] /\ h = hand["cloud"]
                             /\ w = wire[Other("cloud")] /\ q = readCh[r]
        OBVIOUS
    <2>2. /\ Ordered(r, c, h, w, q) /\ Fly("cloud", r) = Flying(r, c, h, w, q)
          /\ q \in Seq(Msg) /\ Ahead(Flying(r, c, h, w, q), {m})
        BY <1>1, <1>2, <2>1, OrdNow, OrdNext, FlyNext
    <2>3. /\ Ord("cloud", r)' <=> Ordered(r, c, h, w, Append(q, m))
          /\ Fly("cloud", r)' = Flying(r, c, h, w, Append(q, m))
      <3>1. /\ ch'["cloud"][r] = c /\ hand'["cloud"] = h
            /\ wire'[Other("cloud")] = w /\ ReadChOf("cloud", r)' = Append(q, m)
          BY <1>1, <1>2, <2>1
      <3> QED BY <3>1, OrdNext, FlyNext
    <2>4. /\ Ordered(r, c, h, w, Append(q, m))
          /\ Joins(Flying(r, c, h, w, Append(q, m)), Flying(r, c, h, w, q), {m})
        BY <2>2, ReadOne
    <2> QED BY <2>2, <2>3, <2>4 DEF Joins
  <1>4. ASSUME NEW x \in Req, x # r
        PROVE  Ord("cloud", x)' /\ Fly("cloud", x)' = Fly("cloud", x)
      BY <1>1, <1>2, <1>4, OrdNow, OrdNext, FlyNext
  <1> QED BY <1>2, <1>3, <1>4 DEF Pipes

LEMMA HandStep ==
    ASSUME TypeOK, NEW s \in Side, Pipes(s), Send2Conn(s)
    PROVE  /\ Pipes(s)'
           /\ \A x \in Req : Fly(s, x)' = Fly(s, x) /\ Near(s, x)' = Near(s, x)
  <1>1. PICK m \in hand[s] : /\ ch' = [ch EXCEPT ![s][m.topic] = Append(@, m)]
                             /\ hand' = [hand EXCEPT ![s] = {}]
                             /\ UNCHANGED <<wire, readCh>>
      BY DEF Send2Conn
  <1>2. m \in Msg /\ m.topic \in Req /\ hand[s] = {m}
    <2>1. hand[s] \subseteq Msg /\ \A n \in hand[s] : n = m
        BY Parts DEF HandOK
    <2> QED BY <2>1, MsgParts
  <1>3. PICK t \in Req : t = m.topic
      BY <1>2
  <1>4. /\ ch'[s][t] = Append(ch[s][t], m)
        /\ \A x \in Req : x # t => ch'[s][x] = ch[s][x]
        /\ hand'[s] = {} /\ \A x \in Req : ch[s][x] \in Seq(Msg)
      BY <1>1, <1>3, Parts DEF ChOK, HandOK
  <1>5. ASSUME NEW x \in Req
        PROVE  Ord(s, x)' /\ Own(s, x)' /\ Fly(s, x)' = Fly(s, x) /\ Near(s, x)' = Near(s, x)
    <2>1. PICK c, h, g, w, q : h = {m} /\ g = {} /\ c = ch[s][x] /\ w = wire[Other(s)] /\ q = ReadChOf(s, x)
        OBVIOUS
    <2> /\ Of(x, h) = Of(x, {m}) /\ Of(x, g) = {} /\ m \in Msg /\ c \in Seq(Msg)
        /\ x # t => Of(x, {m}) = {}
        BY <1>2, <1>3, <1>4, <2>1 DEF Of
    <2>2. c \in Seq(Msg) /\ hand[s] = h /\ hand'[s] = g
        BY <1>2, <1>4, <2>1
    <2>3. /\ wire'[Other(s)] = w /\ ReadChOf(s, x)' = q
        BY <1>1, <2>1 DEF ReadChOf
    <2>4. Ordered(x, c, h, w, q)
      <3>1. Ord(s, x)
          BY DEF Pipes
      <3> QED BY <2>1, <2>2, <3>1, OrdNow
    <2>5. Fly(s, x) = Flying(x, c, h, w, q) /\ Near(s, x) = Of(x, Elems(c) \cup h)
        BY <2>1, <2>2, FlyNext, NearNext
    <2>6. CASE x = t
      <3>1. ch'[s][x] = Append(c, m)
          BY <1>4, <2>1, <2>6
      <3>2. Ordered(x, Append(c, m), g, w, q) /\ Flying(x, Append(c, m), g, w, q) = Flying(x, c, h, w, q)
        <4>1. Of(x, Elems(Append(c, m))) = Of(x, Elems(c)) \cup Of(x, {m})
            BY OfAppend
        <4>2. Ahead(Of(x, Elems(c)), Of(x, {m})) /\ Sorted(x, c)
            BY <2>4 DEF Ordered, Ahead
        <4>3. Sorted(x, Append(c, m))
            BY <4>2, SortedAppend
        <4> QED BY <2>4, <4>1, <4>3 DEF Ordered, Flying, Ahead
      <3>3. Ord(s, x)'
          BY <2>2, <2>3, <3>1, <3>2, OrdNext
      <3>4. Fly(s, x)' = Fly(s, x)
          BY <2>2, <2>3, <2>5, <3>1, <3>2, FlyNext
      <3>5. Own(s, x)'
        <4>1. \A i \in DOMAIN c : c[i].topic = x
            BY <2>1 DEF Pipes, Own
        <4>2. \A i \in DOMAIN Append(c, m) : Append(c, m)[i].topic = x
            BY <1>2, <1>3, <2>2, <2>6, <4>1, AppendTyped
        <4> QED BY <3>1, <4>2 DEF Own
      <3>6. Near(s, x)' = Near(s, x)
        <4>1. Elems(Append(c, m)) = Elems(c) \cup {m}
            BY <1>2, <2>2, ElemsAppend
        <4>2. (Elems(c) \cup {m}) \cup g = Elems(c) \cup h
            BY <2>1
        <4> QED BY <2>2, <2>5, <3>1, <4>1, <4>2, NearNext
      <3> QED BY <3>3, <3>4, <3>5, <3>6
    <2>7. CASE x # t
      <3>1. ch'[s][x] = c
          BY <1>4, <2>1, <2>7
      <3>2. Ordered(x, c, g, w, q) /\ Flying(x, c, g, w, q) = Flying(x, c, h, w, q)
          BY <2>4, <2>7 DEF Ordered, Flying, Ahead
      <3>3. Ord(s, x)'
          BY <2>2, <2>3, <3>1, <3>2, OrdNext
      <3>4. Fly(s, x)' = Fly(s, x)
          BY <2>2, <2>3, <2>5, <3>1, <3>2, FlyNext
      <3>5. Own(s, x)'
        <4>1. \A i \in DOMAIN c : c[i].topic = x
            BY <2>1 DEF Pipes, Own
        <4> QED BY <3>1, <4>1 DEF Own
      <3>6. Near(s, x)' = Near(s, x)
        <4>1. Of(x, Elems(c) \cup h) = Of(x, Elems(c) \cup g)
            BY <1>3, <2>1, <2>7 DEF Of
        <4> QED BY <2>2, <2>5, <3>1, <4>1, NearNext
      <3> QED BY <3>3, <3>4, <3>5, <3>6
    <2> QED BY <2>6, <2>7
  <1> QED BY <1>5 DEF Pipes

(* A message comes off the wire: it is kept, or lost.                      *)
LEMMA RecvStep ==
    ASSUME TypeOK, NEW s \in Side, Pipes(s), RecvMsg(s)
    PROVE  \E m \in Msg, t \in Req :
              /\ m = Head(wire[Other(s)]) /\ t = m.topic /\ Pipes(s)'
              /\ \A x \in Req : x # t => Fly(s, x)' = Fly(s, x) /\ Near(s, x)' \subseteq Near(s, x)
              /\ m \in Fly(s, t)
              /\ \/ /\ m.type # "CONNECTING" /\ t \in conns[s]
                    /\ Fly(s, t)' = Fly(s, t)
                 \/ /\ m.type = "CONNECTING" \/ t \notin conns[s]
                    /\ Fly(s, t) = Fly(s, t)' \cup {m}
                    /\ Near(s, t)' \subseteq Near(s, t)
                    /\ \A y \in Fly(s, t)' : Follows(m, y) \/ y \in Near(s, t)
  <1>1. PICK m \in Msg, t \in Req : m = Head(wire[Other(s)]) /\ t = m.topic
    <2>1. wire[Other(s)] \in Seq(Msg) /\ wire[Other(s)] # <<>>
        BY Sides, Parts DEF WireOK, RecvMsg
    <2>2. Head(wire[Other(s)]) \in Msg
        BY <2>1, TailTyped
    <2> QED BY <2>2, MsgParts
  <1>2. PICK w \in Seq(Msg) : w = wire[Other(s)] /\ w # <<>> /\ m = Head(w)
      BY <1>1, Sides, Parts DEF WireOK, RecvMsg
  <1>3. wire'[Other(s)] = Tail(w) /\ hand[s] = {} /\ readCh' = readCh
    <2>1. wire' = [wire EXCEPT ![Other(s)] = Tail(@)] /\ hand[s] = {} /\ readCh' = readCh
        BY DEF RecvMsg
    <2> QED BY <1>2, <2>1, Sides, Parts DEF WireOK
  <1>4. \/ /\ m.type # "CONNECTING" /\ t \in conns[s]
           /\ ch' = [ch EXCEPT ![s][t] = Append(@, m)] /\ hand' = hand
        \/ /\ m.type # "CONNECTING" /\ t \in conns[s]
           /\ ch' = ch /\ hand' = [hand EXCEPT ![s] = {m}]
        \/ /\ m.type = "CONNECTING" \/ t \notin conns[s]
           /\ ch' = ch /\ hand' = hand
    <2>1. CASE m.type = "CONNECTING"
        BY <1>1, <2>1 DEF RecvMsg
    <2>2. CASE m.type # "CONNECTING" /\ t \notin conns[s]
        BY <1>1, <2>2 DEF RecvMsg
    <2>3. CASE m.type # "CONNECTING" /\ t \in conns[s] /\ Len(ch[s][t]) < Cap
        BY <1>1, <2>3 DEF RecvMsg
    <2>4. CASE m.type # "CONNECTING" /\ t \in conns[s] /\ ~(Len(ch[s][t]) < Cap)
        BY <1>1, <2>4 DEF RecvMsg
    <2> QED BY <2>1, <2>2, <2>3, <2>4
  <1>5. \/ /\ m.type # "CONNECTING" /\ t \in conns[s] /\ hand'[s] = {}
           /\ ch'[s][t] = Append(ch[s][t], m) /\ \A x \in Req : x # t => ch'[s][x] = ch[s][x]
        \/ /\ m.type # "CONNECTING" /\ t \in conns[s]
           /\ hand'[s] = {m} /\ \A x \in Req : ch'[s][x] = ch[s][x]
        \/ /\ m.type = "CONNECTING" \/ t \notin conns[s]
           /\ hand'[s] = {} /\ \A x \in Req : ch'[s][x] = ch[s][x]
      BY <1>3, <1>4, Parts DEF ChOK, HandOK
  <1>6. ASSUME NEW x \in Req
        PROVE  /\ Ord(s, x)' /\ Own(s, x)'
               /\ x # t => Fly(s, x)' = Fly(s, x) /\ Near(s, x)' \subseteq Near(s, x)
               /\ x = t => m \in Fly(s, x)
               /\ x = t => \/ /\ m.type # "CONNECTING" /\ t \in conns[s]
                              /\ Fly(s, x)' = Fly(s, x)
                           \/ /\ m.type = "CONNECTING" \/ t \notin conns[s]
                              /\ Fly(s, x) = Fly(s, x)' \cup {m}
                              /\ Near(s, x)' \subseteq Near(s, x)
                              /\ \A y \in Fly(s, x)' : Follows(m, y) \/ y \in Near(s, x)
    <2>1. PICK c, q, v : c = ch[s][x] /\ q = ReadChOf(s, x) /\ v = Tail(w)
        OBVIOUS
    <2>2. c \in Seq(Msg) /\ (\A i \in DOMAIN c : c[i].topic = x)
        BY <2>1, PipeTypes DEF Pipes, Own
    <2>3. wire'[Other(s)] = v /\ ReadChOf(s, x)' = q
        BY <1>3, <2>1 DEF ReadChOf
    <2>4. /\ Sorted(x, c) /\ Sorted(x, w) /\ Sorted(x, q)
          /\ Ahead(Of(x, Elems(c)), Of(x, Elems(w)) \cup Of(x, Elems(q)))
          /\ Ahead(Of(x, Elems(w)), Of(x, Elems(q)))
      <3>1. Ord(s, x)
          BY DEF Pipes
      <3>2. Ordered(x, c, {}, w, q)
          BY <1>2, <1>3, <2>1, <3>1, OrdNow
      <3> QED BY <3>2 DEF Ordered, Ahead
    <2>5. Fly(s, x) = Flying(x, c, {}, w, q) /\ Near(s, x) = Of(x, Elems(c) \cup {})
        BY <1>2, <1>3, <2>1, FlyNext, NearNext
    <2>6. /\ Of(x, Elems(w)) = Of(x, Elems(v)) \cup Of(x, {m}) /\ Sorted(x, v)
          /\ Ahead(Of(x, {m}), Of(x, Elems(v)))
        BY <1>2, <2>1, <2>4, OfTail, SortedTail
    <2>7. (x # t => Of(x, {m}) = {}) /\ (x = t => Of(x, {m}) = {m}) /\ Of(x, {}) = {}
        BY <1>1 DEF Of
    <2>8. x = t => m \in Fly(s, x)
        BY <2>5, <2>6, <2>7 DEF Flying
    <2>9. CASE /\ m.type # "CONNECTING" /\ t \in conns[s] /\ hand'[s] = {} /\ x = t
               /\ ch'[s][t] = Append(ch[s][t], m)
      <3>1. ch'[s][x] = Append(c, m)
          BY <2>1, <2>9
      <3>2. Of(x, Elems(Append(c, m))) = Of(x, Elems(c)) \cup Of(x, {m})
          BY <2>2, OfAppend
      <3>3. Ahead(Of(x, Elems(c)), Of(x, {m}))
          BY <2>4, <2>6 DEF Ahead
      <3>4. Sorted(x, Append(c, m))
          BY <2>2, <2>4, <3>3, SortedAppend
      <3>5. Ordered(x, Append(c, m), {}, v, q)
          BY <2>4, <2>6, <2>7, <3>2, <3>4 DEF Ordered, Ahead
      <3>6. Flying(x, Append(c, m), {}, v, q) = Flying(x, c, {}, w, q)
          BY <2>6, <2>7, <3>2 DEF Flying
      <3>7. Ord(s, x)'
          BY <2>3, <2>9, <3>1, <3>5, OrdNext
      <3>8. Fly(s, x)' = Fly(s, x)
          BY <2>3, <2>5, <2>9, <3>1, <3>6, FlyNext
      <3>9. Own(s, x)'
        <4>1. \A i \in DOMAIN Append(c, m) : Append(c, m)[i].topic = x
          <5>1. m.topic = x
              BY <1>1, <2>9
          <5> QED BY <2>2, <5>1
        <4> QED BY <3>1, <4>1 DEF Own
      <3> QED BY <2>8, <2>9, <3>7, <3>8, <3>9
    <2>10. CASE ch'[s][x] = ch[s][x] /\ (hand'[s] = {m} \/ (x # t /\ hand'[s] = {}))
      <3>1. PICK h : h = hand'[s] /\ Of(x, h) = Of(x, {m})
          BY <2>7, <2>10
      <3>2. ch'[s][x] = c
          BY <2>1, <2>10
      <3>3. Ordered(x, c, h, v, q)
          BY <2>4, <2>6, <3>1 DEF Ordered, Ahead
      <3>4. Flying(x, c, h, v, q) = Flying(x, c, {}, w, q)
          BY <2>6, <2>7, <3>1 DEF Flying
      <3>5. Ord(s, x)'
          BY <2>3, <3>1, <3>2, <3>3, OrdNext
      <3>6. Fly(s, x)' = Fly(s, x)
          BY <2>3, <2>5, <3>1, <3>2, <3>4, FlyNext
      <3>7. Own(s, x)'
          BY <2>2, <3>2 DEF Own
      <3>8. x # t => Near(s, x)' \subseteq Near(s, x)
        <4>1. x # t => Of(x, Elems(c) \cup h) = Of(x, Elems(c) \cup {})
            BY <2>7, <3>1 DEF Of
        <4> QED BY <2>5, <3>1, <3>2, <4>1, NearNext
      <3>9. x = t => m.type # "CONNECTING" /\ t \in conns[s]
          BY <1>5, <2>10
      <3> QED BY <2>8, <3>5, <3>6, <3>7, <3>8, <3>9
    <2>11. CASE /\ m.type = "CONNECTING" \/ t \notin conns[s]
                /\ hand'[s] = {} /\ ch'[s][x] = ch[s][x] /\ x = t
      <3>1. ch'[s][x] = c
          BY <2>1, <2>11
      <3>2. Ordered(x, c, {}, v, q)
          BY <2>4, <2>6, <2>7 DEF Ordered, Ahead
      <3>3. Ord(s, x)'
          BY <2>3, <2>11, <3>1, <3>2, OrdNext
      <3>4. Own(s, x)'
          BY <2>2, <3>1 DEF Own
      <3>5. Fly(s, x)' = Flying(x, c, {}, v, q) /\ Near(s, x)' = Near(s, x)
          BY <2>3, <2>5, <2>11, <3>1, FlyNext, NearNext
      <3>6. Fly(s, x) = Fly(s, x)' \cup {m}
        <4>1. Flying(x, c, {}, w, q) = Flying(x, c, {}, v, q) \cup {m}
            BY <2>6, <2>7, <2>11 DEF Flying
        <4> QED BY <2>5, <3>5, <4>1
      <3>7. \A y \in Fly(s, x)' : Follows(m, y) \/ y \in Near(s, x)
        <4>1. Ahead({m}, Of(x, Elems(v)) \cup Of(x, Elems(q)))
            BY <2>4, <2>6, <2>7, <2>11 DEF Ahead
        <4>2. Of(x, Elems(c)) \subseteq Near(s, x)
            BY <2>5 DEF Of
        <4>3. \A y \in Flying(x, c, {}, v, q) :
                 y \in Of(x, Elems(c)) \/ y \in Of(x, Elems(v)) \cup Of(x, Elems(q))
            BY <2>7 DEF Flying
        <4> QED BY <3>5, <4>1, <4>2, <4>3 DEF Ahead
      <3> QED BY <2>8, <2>11, <3>3, <3>4, <3>5, <3>6, <3>7
    <2> QED BY <1>5, <2>9, <2>10, <2>11
  <1>7. Pipes(s)'
      BY <1>6 DEF Pipes
  <1>8. \A x \in Req : x # t => Fly(s, x)' = Fly(s, x) /\ Near(s, x)' \subseteq Near(s, x)
      BY <1>6
  <1>9. /\ m \in Fly(s, t)
        /\ \/ /\ m.type # "CONNECTING" /\ t \in conns[s]
              /\ Fly(s, t)' = Fly(s, t)
           \/ /\ m.type = "CONNECTING" \/ t \notin conns[s]
              /\ Fly(s, t) = Fly(s, t)' \cup {m}
              /\ Near(s, t)' \subseteq Near(s, t)
              /\ \A y \in Fly(s, t)' : Follows(m, y) \/ y \in Near(s, t)
      BY <1>6
  <1> QED BY <1>1, <1>7, <1>8, <1>9
-----------------------------------------------------------------------------
(* Nothing of request x changes but the places of its messages.            *)
Same(x) ==
    /\ serve'[x] = serve[x] /\ request'[x] = request[x] /\ readCh'[x] = readCh[x]
    /\ x \in left' <=> x \in left
    /\ \A s \in Side : /\ reader'[s][x] = reader[s][x] /\ writer'[s][x] = writer[s][x]
                       /\ said'[s][x] = said[s][x] /\ heard'[s][x] = heard[s][x]
                       /\ x \in conns'[s] <=> x \in conns[s]
                       /\ x \in open'[s] <=> x \in open[s]
                       /\ <<s, x>> \in stop' <=> <<s, x>> \in stop

LEMMA InRangeNext ==
    ASSUME NEW s, NEW r
    PROVE  InRange(s, r)' <=> Within(Fly(s, r)', Len(heard'[s][r]), said'[Other(s)][r])
  BY DEF InRange, Within

LEMMA CompleteNext ==
    ASSUME NEW s, NEW r
    PROVE  Complete(s, r)' <=> Whole(Fly(s, r)', Len(heard'[s][r]), said'[Other(s)][r])
  BY DEF Complete, Whole

LEMMA OverOf ==
    ASSUME NEW r \in Req
    PROVE  /\ r \in Over <=> serve[r] = "done" \/ writer["cloud"][r] = "done"
           /\ r \in Over' <=> serve'[r] = "done" \/ writer'["cloud"][r] = "done"
  BY DEF Over

(* What a step does to the pieces at side s, in one case or another.       *)
LEMMA Steady ==
    ASSUME NEW s \in Side, NEW r \in Req, Fly(s, r)' = Fly(s, r),
           heard'[s][r] = heard[s][r], said'[Other(s)][r] = said[Other(s)][r]
    PROVE  (InRange(s, r) => InRange(s, r)') /\ (Complete(s, r) => Complete(s, r)')
  <1>1. InRange(s, r) => InRange(s, r)'
      BY InRangeNext DEF InRange
  <1>2. Complete(s, r) => Complete(s, r)'
      BY CompleteNext DEF Complete
  <1> QED BY <1>1, <1>2

LEMMA Dropped ==
    ASSUME NEW s \in Side, NEW r \in Req, Fly(s, r)' \subseteq Fly(s, r), InRange(s, r),
           heard'[s][r] = heard[s][r], said'[Other(s)][r] = said[Other(s)][r]
    PROVE  InRange(s, r)'
  <1>1. Within(Fly(s, r)', Len(heard[s][r]), said[Other(s)][r])
      BY DEF InRange, Within
  <1> QED BY <1>1, InRangeNext

LEMMA Skipped ==
    ASSUME TypeOK, NEW s \in Side, NEW r \in Req, NEW m, m.data = 0,
           Fly(s, r)' = Fly(s, r) \cup {m} \/ Fly(s, r) = Fly(s, r)' \cup {m},
           heard'[s][r] = heard[s][r], said'[Other(s)][r] = said[Other(s)][r]
    PROVE  (InRange(s, r) => InRange(s, r)') /\ (Complete(s, r) => Complete(s, r)')
  <1>1. PICK h \in Nat, n \in Nat : h = Len(heard[s][r]) /\ n = said[Other(s)][r]
      BY Sides, Parts DEF HeardOK, SaidOK
  <1>2. PICK F, G : F = Fly(s, r) /\ G = Fly(s, r)'
      OBVIOUS
  <1>3. (Within(F, h, n) => Within(G, h, n)) /\ (Whole(F, h, n) => Whole(G, h, n))
    <2>1. CASE G = F \cup {m}
        BY <2>1, SkipOne
    <2>2. CASE F = G \cup {m}
        BY <2>2, SkipOne
    <2> QED BY <1>2, <2>1, <2>2
  <1>4. InRange(s, r) => InRange(s, r)'
      BY <1>1, <1>2, <1>3, InRangeNext DEF InRange
  <1>5. Complete(s, r) => Complete(s, r)'
      BY <1>1, <1>2, <1>3, CompleteNext DEF Complete
  <1> QED BY <1>4, <1>5

LEMMA Heard ==
    ASSUME TypeOK, NEW s \in Side, NEW r \in Req, NEW m, m.data # 0,
           Fly(s, r) = Fly(s, r)' \cup {m}, Ahead({m}, Fly(s, r)'),
           InRange(s, r), Complete(s, r),
           heard'[s][r] = Append(heard[s][r], m.data), said'[Other(s)][r] = said[Other(s)][r]
    PROVE  InRange(s, r)' /\ Complete(s, r)'
  <1>1. PICK h \in Nat, n \in Nat : h = Len(heard[s][r]) /\ n = said[Other(s)][r]
      BY Sides, Parts DEF HeardOK, SaidOK
  <1>2. PICK F, G : F = Fly(s, r) /\ G = Fly(s, r)' /\ F = G \cup {m} /\ Ahead({m}, G)
      OBVIOUS
  <1>3. F \subseteq Msg
      BY <1>2, PipeTypes
  <1>4. Within(F, h, n) /\ Whole(F, h, n)
      BY <1>1, <1>2 DEF InRange, Complete
  <1>5. m.data = h + 1 /\ h < n /\ Within(G, h + 1, n) /\ Whole(G, h + 1, n)
      BY <1>2, <1>3, <1>4, HearOne
  <1>6. Len(heard'[s][r]) = h + 1
    <2>1. heard[s][r] \in Seq(Nat) /\ m.data \in Nat
        BY <1>2, <1>3, MsgParts, Parts DEF HeardOK
    <2> QED BY <1>1, <2>1
  <1>7. InRange(s, r)'
      BY <1>1, <1>2, <1>5, <1>6, InRangeNext
  <1>8. Complete(s, r)'
      BY <1>1, <1>2, <1>5, <1>6, CompleteNext
  <1> QED BY <1>7, <1>8

LEMMA Said ==
    ASSUME TypeOK, NEW s \in Side, NEW r \in Req, NEW m, m.data = said[Other(s)][r] + 1,
           Fly(s, r)' = Fly(s, r) \cup {m}, InRange(s, r),
           heard'[s][r] = heard[s][r], said'[Other(s)][r] = m.data
    PROVE  InRange(s, r)' /\ (Complete(s, r) => Complete(s, r)')
  <1>1. PICK h \in Nat, n \in Nat : h = Len(heard[s][r]) /\ n = said[Other(s)][r]
    <2>1. Len(heard[s][r]) \in Nat /\ said[Other(s)][r] \in Nat
        BY Sides, Parts DEF HeardOK, SaidOK
    <2> QED BY <2>1
  <1>2. PICK F, G : F = Fly(s, r) /\ G = Fly(s, r)' /\ G = F \cup {m}
      OBVIOUS
  <1>3. F \subseteq Msg
      BY <1>2, PipeTypes
  <1>4. Within(F, h, n)
      BY <1>1, <1>2 DEF InRange
  <1>5. Within(G, h, n + 1) /\ (Whole(F, h, n) => Whole(G, h, n + 1))
      BY <1>1, <1>2, <1>3, <1>4, SayOne
  <1>6. InRange(s, r)'
      BY <1>1, <1>2, <1>5, InRangeNext
  <1>7. Complete(s, r) => Complete(s, r)'
      BY <1>1, <1>2, <1>5, CompleteNext DEF Complete
  <1> QED BY <1>6, <1>7

(* Nobody has said anything, and nothing is missing.                       *)
LEMMA Silent ==
    ASSUME TypeOK, NEW s \in Side, NEW r \in Req, InRange(s, r), said[Other(s)][r] = 0
    PROVE  Complete(s, r)
  <1>1. Len(heard[s][r]) \in Nat
      BY Parts DEF HeardOK
  <1> QED BY <1>1, NothingSaid DEF InRange, Complete

(* A message with the next piece, or with none.                            *)
LEMMA Spoken ==
    ASSUME TypeOK, NEW s \in Side, NEW r \in Req, NEW m,
           m.data = 0 \/ m.data = said[Other(s)][r] + 1,
           Fly(s, r)' = Fly(s, r) \cup {m}, InRange(s, r), heard'[s][r] = heard[s][r],
           said'[Other(s)][r] = IF m.data = 0 THEN said[Other(s)][r] ELSE m.data
    PROVE  InRange(s, r)' /\ (Complete(s, r) => Complete(s, r)')
  <1>1. CASE m.data = 0
      BY <1>1, Skipped
  <1>2. CASE m.data # 0
      BY <1>2, Said
  <1> QED BY <1>1, <1>2

LEMMA SaysNext ==
    ASSUME TypeOK, NEW s \in Side, NEW r \in Req, NEW d \in Nat, Says(s, r, d)
    PROVE  /\ said'[s][r] = IF d = 0 THEN said[s][r] ELSE d
           /\ \A t \in Side, x \in Req : t # s \/ x # r => said'[t][x] = said[t][x]
  BY Parts DEF Says, SaidOK

(* The last message of a side that has stopped.                            *)
LEMMA Last ==
    ASSUME TypeOK, NEW s \in Side, NEW r \in Req, NEW m, m.type = "CLOSED",
           Fly(s, r) = Fly(s, r)' \cup {m}, Ahead({m}, Fly(s, r)'), InRange(s, r), Complete(s, r)
    PROVE  /\ m.data = 0 => Len(heard[s][r]) = said[Other(s)][r]
           /\ m.data # 0 => /\ m.data = Len(heard[s][r]) + 1
                            /\ said[Other(s)][r] = Len(heard[s][r]) + 1
  <1>1. PICK h \in Nat, n \in Nat : h = Len(heard[s][r]) /\ n = said[Other(s)][r]
      BY Sides, Parts DEF HeardOK, SaidOK
  <1>2. PICK F, G : F = Fly(s, r) /\ G = Fly(s, r)' /\ F = G \cup {m} /\ Ahead({m}, G)
      OBVIOUS
  <1>3. F \subseteq Msg
      BY <1>2, PipeTypes
  <1>4. Within(F, h, n) /\ Whole(F, h, n)
      BY <1>1, <1>2 DEF InRange, Complete
  <1> QED BY <1>1, <1>2, <1>3, <1>4, LastOne

(* The messages that may go out behind the others.                         *)
LEMMA Fresh ==
    ASSUME TypeOK, NEW s \in Side, NEW r \in Req, InRange(s, r),
           ~HasType(Fly(s, r), "CLOSED"), NEW m, m.type \in {"TRANSNMISSION", "CLOSED"},
           m.data = 0 \/ m.data = said[Other(s)][r] + 1
    PROVE  Ahead(Fly(s, r), {m})
  <1>1. PICK h \in Nat, n \in Nat : h = Len(heard[s][r]) /\ n = said[Other(s)][r]
      BY Sides, Parts DEF HeardOK, SaidOK
  <1>2. Fly(s, r) \subseteq Msg /\ Within(Fly(s, r), h, n)
      BY <1>1, PipeTypes DEF InRange
  <1> QED BY <1>1, <1>2, FreshOne

(* A request whose state and messages stay, but for what RecvMsg let go.   *)
LEMMA Untouched ==
    ASSUME NEW x \in Req, Flow(x), Same(x), Fly("cloud", x)' = Fly("cloud", x),
           Fly("edge", x)' = Fly("edge", x), Near("edge", x)' \subseteq Near("edge", x)
    PROVE  Flow(x)'
  <1>1. /\ \A s \in Side : /\ reader'[s][x] = reader[s][x] /\ writer'[s][x] = writer[s][x]
                           /\ said'[s][x] = said[s][x] /\ heard'[s][x] = heard[s][x]
                           /\ x \in conns'[s] <=> x \in conns[s]
                           /\ x \in open'[s] <=> x \in open[s]
                           /\ <<s, x>> \in stop' <=> <<s, x>> \in stop
        /\ serve'[x] = serve[x] /\ request'[x] = request[x] /\ readCh'[x] = readCh[x]
        /\ x \in left' <=> x \in left
      BY DEF Same
  <1>2. InRange("cloud", x)' /\ InRange("edge", x)'
    <2>1. InRange("cloud", x) /\ InRange("edge", x)
        BY DEF Flow
    <2>2. InRange("cloud", x)'
        BY <1>1, <2>1, Sides, InRangeNext DEF InRange
    <2>3. InRange("edge", x)'
        BY <1>1, <2>1, Sides, InRangeNext DEF InRange
    <2> QED BY <2>2, <2>3
  <1>3. (Complete("cloud", x) => Complete("cloud", x)') /\ (Complete("edge", x) => Complete("edge", x)')
    <2>1. Complete("cloud", x) => Complete("cloud", x)'
        BY <1>1, Sides, CompleteNext DEF Complete
    <2>2. Complete("edge", x) => Complete("edge", x)'
        BY <1>1, Sides, CompleteNext DEF Complete
    <2> QED BY <2>1, <2>2
  <1>4. Control(x)'
      BY <1>1, Sides DEF Flow, Control, Young
  <1>5. ToCloud(x)'
      BY <1>1, <1>3, Sides, OverOf DEF Flow, ToCloud, HasType, Bare, Young
  <1>6. ToEdge(x)'
      BY <1>1, <1>3, Sides DEF Flow, ToEdge, HasType, Bare, Young
  <1> QED BY <1>2, <1>4, <1>5, <1>6 DEF Flow
-----------------------------------------------------------------------------
(* FInv is inductive: one lemma for each action.                           *)
LEMMA MsgIs ==
    ASSUME NEW r, NEW t, NEW d
    PROVE  /\ M(r, t, d).topic = r /\ M(r, t, d).type = t /\ M(r, t, d).data = d
           /\ EndOf(r, d) = M(r, "CLOSED", d)
  BY DEF M, EndOf

LEMMA Here ==
    ASSUME FInv, NEW r \in Req
    PROVE  /\ TypeOK /\ Known /\ IInv /\ Pipes("cloud") /\ Pipes("edge") /\ Flow(r)
           /\ \A s \in Side : Len(heard[s][r]) \in Nat /\ said[s][r] \in Nat
           /\ heard["cloud"][r] \in Seq(Nat) /\ heard["edge"][r] \in Seq(Nat)
           /\ InRange("cloud", r) /\ InRange("edge", r)
  <1>1. TypeOK /\ Known /\ IInv /\ Pipes("cloud") /\ Pipes("edge") /\ Flow(r)
      BY DEF FInv, IInv
  <1>2. \A s \in Side : heard[s][r] \in Seq(Nat) /\ said[s][r] \in Nat
      BY <1>1, Parts DEF HeardOK, SaidOK
  <1> QED BY <1>1, <1>2, Sides DEF Flow

LEMMA Send2ConnFlow ==
    ASSUME FInv, NEW s \in Side, Send2Conn(s)
    PROVE  Pipes("cloud")' /\ Pipes("edge")' /\ \A x \in Req : Flow(x)'
  <1>1. TypeOK /\ Pipes("cloud") /\ Pipes("edge")
      BY DEF FInv, IInv
  <1>2. \A x \in Req : Same(x)
      BY DEF Same, Send2Conn, procs, ends
  <1>3. /\ wire' = wire /\ readCh' = readCh
        /\ \A t \in Side : t # s => ch'[t] = ch[t] /\ hand'[t] = hand[t]
      BY <1>1, Parts DEF Send2Conn, ChOK, HandOK
  <1>4. \A t \in Side : Pipes(t) => Pipes(t)' /\ \A x \in Req : Fly(t, x)' = Fly(t, x) /\ Near(t, x)' = Near(t, x)
    <2> SUFFICES ASSUME NEW t \in Side, Pipes(t)
                 PROVE  Pipes(t)' /\ \A x \in Req : Fly(t, x)' = Fly(t, x) /\ Near(t, x)' = Near(t, x)
        OBVIOUS
    <2>1. CASE t = s
        BY <1>1, <2>1, HandStep
    <2>2. CASE t # s
      <3>1. ch'[t] = ch[t] /\ hand'[t] = hand[t] /\ wire'[Other(t)] = wire[Other(t)]
          BY <1>3, <2>2
      <3> QED BY <1>3, <3>1, Idle
    <2> QED BY <2>1, <2>2
  <1>5. ASSUME NEW x \in Req PROVE Flow(x)'
    <2>1. /\ Fly("cloud", x)' = Fly("cloud", x) /\ Fly("edge", x)' = Fly("edge", x)
          /\ Near("edge", x)' \subseteq Near("edge", x)
        BY <1>1, <1>4, Sides
    <2> QED BY <1>2, <2>1, Untouched DEF FInv
  <1> QED BY <1>1, <1>4, <1>5, Sides

LEMMA LeaveFlow ==
    ASSUME FInv, NEW r \in Req, Leave(r)
    PROVE  Pipes("cloud")' /\ Pipes("edge")' /\ \A x \in Req : Flow(x)'
  <1>1. TypeOK /\ Pipes("cloud") /\ Pipes("edge") /\ Flow(r)
      BY Here
  <1>2. /\ Pipes("cloud")' /\ Pipes("edge")'
        /\ \A x \in Req : /\ Fly("cloud", x)' = Fly("cloud", x) /\ Fly("edge", x)' = Fly("edge", x)
                          /\ Near("edge", x)' = Near("edge", x)
      BY <1>1, Sides, Idle DEF Leave, links
  <1>3. /\ UNCHANGED <<procs, links, said, heard>> /\ r \notin left \cup Over
        /\ left' = left \cup {r} /\ open'["edge"] = open["edge"]
        /\ open'["cloud"] = open["cloud"] \ {r}
    <2>1. UNCHANGED <<procs, links, said, heard>> /\ r \notin left \cup Over /\ left' = left \cup {r}
        BY DEF Leave
    <2>2. open' = [open EXCEPT !["cloud"] = @ \ {r}] /\ open \in [Side -> SUBSET Req]
        BY <1>1, Parts DEF Leave, Close, OpenOK
    <2>3. open'["edge"] = open["edge"] /\ open'["cloud"] = open["cloud"] \ {r}
        BY <2>2, Sides
    <2> QED BY <2>1, <2>3
  <1>4. ASSUME NEW x \in Req, x # r PROVE Flow(x)'
    <2>1. Same(x)
        BY <1>3, <1>4 DEF Same, Side, procs, links
    <2> QED BY <1>2, <2>1, Untouched DEF FInv
  <1>5. InRange("cloud", r) /\ InRange("edge", r) /\ heard' = heard /\ said' = said
      BY <1>1, <1>3 DEF Flow
  <1>6. /\ InRange("cloud", r)' /\ (Complete("cloud", r) => Complete("cloud", r)')
        /\ InRange("edge", r)' /\ (Complete("edge", r) => Complete("edge", r)')
      BY <1>2, <1>5, Sides, Steady
  <1>7. Control(r)'
      BY <1>1, <1>3, Sides DEF Flow, Control, Young, procs, links
  <1>8. ToCloud(r)'
      BY <1>1, <1>2, <1>3, <1>6, Sides, OverOf
        DEF Flow, ToCloud, HasType, Bare, Young, procs
  <1>9. ToEdge(r)'
      BY <1>1, <1>2, <1>3, <1>6, Sides DEF Flow, ToEdge, HasType, Bare, Young, procs
  <1> QED BY <1>2, <1>4, <1>6, <1>7, <1>8, <1>9 DEF Flow

LEMMA ServeHTTPFlow ==
    ASSUME FInv, NEW r \in Req, ServeHTTP(r)
    PROVE  Pipes("cloud")' /\ Pipes("edge")' /\ \A x \in Req : Flow(x)'
  <1>1. /\ TypeOK /\ Known /\ Pipes("cloud") /\ Pipes("edge") /\ Flow(r)
        /\ InRange("cloud", r) /\ InRange("edge", r)
      BY Here
  <1>2. /\ UNCHANGED <<request, reader, writer, ch, hand, stop, readCh, open, left, heard>>
        /\ serve[r] = "idle"
      BY DEF ServeHTTP
  <1>20. PICK d \in Nat :
            /\ d = 0 \/ (r \notin Upgrade /\ d = said["cloud"][r] + 1)
            /\ said'["cloud"][r] = IF d = 0 THEN said["cloud"][r] ELSE d
            /\ \A t \in Side, x \in Req : t # "cloud" \/ x # r => said'[t][x] = said[t][x]
            /\ \/ /\ Send2Node("cloud", M(r, "CONNECTING", d))
                  /\ serve' = [serve EXCEPT ![r] = "wait"]
               \/ r \in left /\ serve' = [serve EXCEPT ![r] = "done"] /\ UNCHANGED <<wire, said>>
    <2>1. CASE r \in left /\ serve' = [serve EXCEPT ![r] = "done"] /\ UNCHANGED <<wire, said>>
        BY <2>1
    <2>2. CASE /\ \E d \in Body(r) : /\ Send2Node("cloud", M(r, "CONNECTING", d))
                                     /\ Says("cloud", r, d)
               /\ serve' = [serve EXCEPT ![r] = "wait"]
        BY <1>1, <2>2, BodyTyped, SaysNext, Sides
    <2> QED BY <2>1, <2>2 DEF ServeHTTP
  <1>3. \A x \in Req : x # r => Same(x)
    <2>1. \A x \in Req : x # r => serve'[x] = serve[x]
        BY <1>1, Parts DEF ServeHTTP, ServeOK
    <2>2. \A x \in Req : x # r => \A s \in Side : x \in conns'[s] <=> x \in conns[s]
        BY <1>1, Parts DEF ServeHTTP, Add, ConnsOK
    <2> QED BY <1>2, <1>20, <2>1, <2>2 DEF Same
  <1>4. /\ r \in conns'["edge"] <=> r \in conns["edge"]
        /\ reader["cloud"][r] = "off" /\ writer["cloud"][r] = "off" /\ request[r] = "off"
        /\ Fly("edge", r) = {}
    <2>1. conns'["edge"] = conns["edge"]
        BY <1>1, Parts, Sides DEF ServeHTTP, Add, ConnsOK
    <2> QED BY <1>1, <1>2, <2>1 DEF Known, Hijacked, EdgeWasAsked, Asked, Flow, ToEdge
  <1>5. /\ Pipes("cloud")' /\ wire'["edge"] = wire["edge"]
        /\ \A x \in Req : Fly("cloud", x)' = Fly("cloud", x) /\ Near("cloud", x)' = Near("cloud", x)
    <2>1. wire'["edge"] = wire["edge"]
        BY <1>1, <1>20, Parts, Sides DEF Send2Node, WireOK
    <2>2. Other("cloud") = "edge"
        BY DEF Other
    <2> QED BY <1>1, <1>2, <2>1, <2>2, Sides, Idle
  <1>6. InRange("cloud", r)' /\ (Complete("cloud", r) => Complete("cloud", r)')
    <2>1. said'[Other("cloud")][r] = said[Other("cloud")][r]
        BY <1>20, Sides DEF Other
    <2> QED BY <1>1, <1>2, <1>5, <2>1, Sides, Steady
  <1>7. CASE Send2Node("cloud", M(r, "CONNECTING", d)) /\ serve' = [serve EXCEPT ![r] = "wait"]
    <2>1. PICK m \in Msg : m = M(r, "CONNECTING", d)
        BY MsgTyped
    <2>2. m.topic = r /\ m.type = "CONNECTING" /\ m.data = d /\ serve'[r] = "wait"
      <3>1. m.topic = r /\ m.type = "CONNECTING" /\ m.data = d
          BY <2>1, MsgIs
      <3> QED BY <1>1, <1>7, <3>1, Parts DEF ServeOK
    <2>3. /\ Pipes("edge")' /\ Fly("edge", r)' = Fly("edge", r) \cup {m}
          /\ \A x \in Req : x # r => Fly("edge", x)' = Fly("edge", x)
          /\ \A x \in Req : Near("edge", x)' = Near("edge", x)
      <3>1. Send2Node(Other("edge"), m) /\ ReadChOf("edge", r) = <<>> /\ Ahead(Fly("edge", r), {m})
          BY <1>4, <1>7, <2>1 DEF Other, ReadChOf, Ahead
      <3> QED BY <1>1, <1>2, <2>2, <3>1, Sides, SendStep
    <2>4. InRange("edge", r)' /\ (Complete("edge", r) => Complete("edge", r)')
      <3>1. /\ m.data = 0 \/ m.data = said[Other("edge")][r] + 1
            /\ said'[Other("edge")][r] = IF m.data = 0 THEN said[Other("edge")][r] ELSE m.data
          BY <1>20, <2>2 DEF Other
      <3> QED BY <1>1, <1>2, <2>3, <3>1, Sides, Spoken
    <2>5. Control(r)'
        BY <1>1, <1>2, <1>4, Sides DEF Flow, Control, Young
    <2>6. ToCloud(r)'
        BY <1>1, <1>2, <1>4, <1>5, <1>6, <1>20, <2>2, Sides, OverOf
          DEF Flow, ToCloud, HasType, Bare, Young
    <2>7. ToEdge(r)'
        BY <1>1, <1>2, <1>4, <1>20, <2>2, <2>3, <2>4, Sides
          DEF Flow, ToEdge, HasType, Bare, Young
    <2>8. ASSUME NEW x \in Req, x # r PROVE Flow(x)'
        BY <1>3, <1>5, <2>3, <2>8, Untouched DEF FInv
    <2> QED BY <1>5, <1>6, <2>3, <2>4, <2>5, <2>6, <2>7, <2>8 DEF Flow
  <1>8. CASE r \in left /\ serve' = [serve EXCEPT ![r] = "done"] /\ UNCHANGED <<wire, said>>
    <2>1. serve'[r] = "done"
        BY <1>1, <1>8, Parts DEF ServeOK
    <2>2. /\ Pipes("edge")'
          /\ \A x \in Req : Fly("edge", x)' = Fly("edge", x) /\ Near("edge", x)' = Near("edge", x)
        BY <1>1, <1>2, <1>8, Sides, Idle
    <2>3. InRange("edge", r)' /\ (Complete("edge", r) => Complete("edge", r)')
        BY <1>1, <1>2, <1>8, <2>2, Sides, Steady
    <2>4. Control(r)'
        BY <1>1, <1>2, <1>4, Sides DEF Flow, Control, Young
    <2>5. ToCloud(r)'
        BY <1>1, <1>2, <1>4, <1>5, <1>6, <1>8, <2>1, Sides, OverOf
          DEF Flow, ToCloud, HasType, Bare, Young
    <2>6. ToEdge(r)'
        BY <1>1, <1>2, <1>4, <1>8, <2>1, <2>2, <2>3, Sides
          DEF Flow, ToEdge, HasType, Bare, Young
    <2>7. ASSUME NEW x \in Req, x # r PROVE Flow(x)'
        BY <1>3, <1>5, <2>2, <2>7, Untouched DEF FInv
    <2> QED BY <1>5, <1>6, <2>2, <2>3, <2>4, <2>5, <2>6, <2>7 DEF Flow
  <1> QED BY <1>7, <1>8, <1>20

LEMMA ConfirmFlow ==
    ASSUME FInv, NEW r \in Req, Confirm(r)
    PROVE  Pipes("cloud")' /\ Pipes("edge")' /\ \A x \in Req : Flow(x)'
  <1>1. /\ TypeOK /\ Known /\ Pipes("cloud") /\ Pipes("edge") /\ Flow(r)
        /\ InRange("cloud", r) /\ InRange("edge", r)
      BY Here
  <1>2. UNCHANGED <<request, conns, hand, stop, readCh, ends>> /\ serve[r] = "wait"
      BY DEF Confirm
  <1>3. /\ serve'[r] \in {"http", "raw"} /\ reader'["edge"] = reader["edge"] /\ writer'["edge"] = writer["edge"]
        /\ reader'["cloud"][r] # "off" => r \in Upgrade
        /\ writer'["cloud"][r] # "done"
        /\ reader["cloud"][r] = "off" /\ writer["cloud"][r] = "off"
    <2>1. reader["cloud"][r] = "off" /\ writer["cloud"][r] = "off"
        BY <1>1, <1>2 DEF Known, Hijacked
    <2> QED BY <1>1, <2>1, Parts, Sides DEF Confirm, ServeOK, ReaderOK, WriterOK
  <1>4. \A x \in Req : x # r => Same(x)
    <2>1. \A x \in Req : x # r => serve'[x] = serve[x]
        BY <1>1, Parts DEF Confirm, ServeOK
    <2>2. \A x \in Req : x # r => \A s \in Side : reader'[s][x] = reader[s][x]
      <3>1. CASE reader' = reader
          BY <3>1
      <3>2. CASE reader' = [reader EXCEPT !["cloud"][r] = "run"]
          BY <1>1, <3>2, Parts, Sides DEF ReaderOK
      <3> QED BY <3>1, <3>2 DEF Confirm
    <2>3. \A x \in Req : x # r => \A s \in Side : writer'[s][x] = writer[s][x]
      <3>1. CASE writer' = writer
          BY <3>1
      <3>2. CASE writer' = [writer EXCEPT !["cloud"][r] = "run"]
          BY <1>1, <3>2, Parts, Sides DEF WriterOK
      <3> QED BY <3>1, <3>2 DEF Confirm
    <2> QED BY <1>2, <2>1, <2>2, <2>3 DEF Same, ends
  <1>5. /\ ch'["edge"] = ch["edge"] /\ wire'["edge"] = wire["edge"]
        /\ Other("cloud") = "edge" /\ Other("edge") = "cloud"
      BY <1>1, Parts, Sides DEF Confirm, Take, Send2Node, ChOK, WireOK, Other
  <1>6. PICK h : h = Head(ch["cloud"][r])
      OBVIOUS
  <1>7. /\ Pipes("cloud")' /\ h \in Msg
        /\ Fly("cloud", r) = Fly("cloud", r)' \cup {h} /\ Ahead({h}, Fly("cloud", r)')
        /\ \A x \in Req : x # r => Fly("cloud", x)' = Fly("cloud", x)
    <2>1. Take("cloud", r)
        BY DEF Confirm
    <2> QED BY <1>1, <1>2, <1>5, <1>6, <2>1, Sides, TakeStep
  <1>8. request[r] \in {"register", "confirm"} /\ h.type = "CONNECTED" /\ h.data = 0
    <2>1. request[r] \in {"register", "confirm"}
      <3>1. request[r] \notin Young
          BY <1>1, <1>7 DEF Flow, ToCloud
      <3> QED BY <1>1, <1>2, <3>1 DEF Flow, ToEdge
    <2>2. PICK y \in Fly("cloud", r) : y.type = "CONNECTED"
        BY <1>1, <1>2, <2>1 DEF Flow, ToCloud, HasType, Young
    <2>3. h.type # "CONNECTING"
        BY <1>1, <1>7 DEF Flow, ToCloud, HasType
    <2>4. y = h
        BY <1>7, <2>2, <2>3 DEF Ahead, Follows
    <2> QED BY <1>1, <2>1, <2>2, <2>4 DEF Flow, ToCloud, Bare
  <1>9. InRange("cloud", r)' /\ (Complete("cloud", r) => Complete("cloud", r)')
      BY <1>1, <1>2, <1>7, <1>8, Sides, Skipped DEF ends
  <1>10. Fly("edge", r) = {} /\ (r \in Upgrade => said["cloud"][r] = 0)
    <2>1. \A m \in Fly("edge", r) : m.type = "CONNECTING"
        BY <1>1, <1>2 DEF Flow, ToEdge
    <2>2. ~HasType(Fly("edge", r), "CONNECTING")
        BY <1>1, <1>8 DEF Flow, ToEdge
    <2> QED BY <1>1, <1>3, <2>1, <2>2 DEF Flow, ToEdge, HasType
  <1>11. PICK m \in Msg : m = M(r, "CONNECTED", 0)
      BY MsgTyped
  <1>12. m.topic = r /\ m.type = "CONNECTED" /\ m.data = 0
      BY <1>11, MsgIs
  <1>13. /\ Pipes("edge")' /\ Fly("edge", r)' = Fly("edge", r) \cup {m}
         /\ \A x \in Req : x # r => Fly("edge", x)' = Fly("edge", x)
         /\ \A x \in Req : Near("edge", x)' = Near("edge", x)
    <2>1. Send2Node(Other("edge"), m) /\ ReadChOf("edge", r) = <<>> /\ Ahead(Fly("edge", r), {m})
        BY <1>10, <1>11 DEF Confirm, Other, ReadChOf, Ahead
    <2> QED BY <1>1, <1>2, <1>5, <1>12, <2>1, Sides, SendStep
  <1>14. InRange("edge", r)' /\ (r \in Upgrade => Complete("edge", r)')
    <2>1. r \in Upgrade => Complete("edge", r)
        BY <1>1, <1>5, <1>10, Sides, Silent
    <2> QED BY <1>1, <1>2, <1>12, <1>13, <2>1, Sides, Skipped DEF ends
  <1>15. Control(r)'
      BY <1>1, <1>2, <1>3, <1>8, Sides DEF Flow, Control, Young, ends
  <1>16. ToCloud(r)'
      BY <1>1, <1>2, <1>3, <1>7, <1>8, <1>9, Sides, OverOf
        DEF Flow, ToCloud, HasType, Bare, Young, ends
  <1>17. ToEdge(r)'
      BY <1>1, <1>2, <1>3, <1>8, <1>10, <1>12, <1>13, <1>14, Sides
        DEF Flow, ToEdge, HasType, Bare, Young, ends
  <1>18. ASSUME NEW x \in Req, x # r PROVE Flow(x)'
      BY <1>4, <1>7, <1>13, <1>18, Untouched DEF FInv
  <1> QED BY <1>7, <1>9, <1>13, <1>14, <1>15, <1>16, <1>17, <1>18 DEF Flow

LEMMA ServerHttpRecvFlow ==
    ASSUME FInv, NEW r \in Req, ServerHttpRecv(r)
    PROVE  Pipes("cloud")' /\ Pipes("edge")' /\ \A x \in Req : Flow(x)'
  <1>1. /\ TypeOK /\ Known /\ Pipes("cloud") /\ Pipes("edge") /\ Flow(r)
        /\ InRange("cloud", r) /\ InRange("edge", r)
      BY Here
  <1>2. UNCHANGED <<request, reader, writer, wire, hand, stop, readCh, open, left, said>> /\ serve[r] = "http"
      BY DEF ServerHttpRecv
  <1>3. PICK h : h = Head(ch["cloud"][r])
      OBVIOUS
  <1>4. /\ serve'[r] = IF h.type = "CLOSED" THEN "done" ELSE "http"
        /\ conns'["edge"] = conns["edge"] /\ ch'["edge"] = ch["edge"] /\ heard'["edge"] = heard["edge"]
        /\ reader["cloud"][r] = "off" /\ writer["cloud"][r] = "off"
    <2>1. reader["cloud"][r] = "off" /\ writer["cloud"][r] = "off"
        BY <1>1, <1>2 DEF Known, Hijacked
    <2>2. serve'[r] = IF h.type = "CLOSED" THEN "done" ELSE "http"
        BY <1>1, <1>2, <1>3, Parts DEF ServerHttpRecv, ServeOK
    <2>3. conns'["edge"] = conns["edge"]
        BY <1>1, Parts, Sides DEF ServerHttpRecv, Remove, ConnsOK
    <2>4. ch'["edge"] = ch["edge"]
        BY <1>1, Parts, Sides DEF ServerHttpRecv, Take, ChOK
    <2>5. heard'["edge"] = heard["edge"]
        BY <1>1, Parts, Sides DEF ServerHttpRecv, Writes, Hears, HeardOK
    <2> QED BY <2>1, <2>2, <2>3, <2>4, <2>5
  <1>5. \A x \in Req : x # r => Same(x)
    <2>1. \A x \in Req : x # r => serve'[x] = serve[x]
        BY <1>1, Parts DEF ServerHttpRecv, ServeOK
    <2>2. \A x \in Req : x # r => \A s \in Side : x \in conns'[s] <=> x \in conns[s]
        BY <1>1, Parts, Sides DEF ServerHttpRecv, Remove, ConnsOK
    <2>3. \A x \in Req : x # r => \A s \in Side : heard'[s][x] = heard[s][x]
        BY <1>1, Parts, Sides DEF ServerHttpRecv, Writes, Hears, HeardOK
    <2> QED BY <1>2, <2>1, <2>2, <2>3 DEF Same
  <1>6. /\ Pipes("cloud")' /\ h \in Msg
        /\ Fly("cloud", r) = Fly("cloud", r)' \cup {h} /\ Ahead({h}, Fly("cloud", r)')
        /\ \A x \in Req : x # r => Fly("cloud", x)' = Fly("cloud", x)
    <2>1. Take("cloud", r)
        BY DEF ServerHttpRecv
    <2> QED BY <1>1, <1>2, <1>3, <2>1, Sides, TakeStep
  <1>7. /\ Pipes("edge")'
        /\ \A x \in Req : Fly("edge", x)' = Fly("edge", x) /\ Near("edge", x)' = Near("edge", x)
      BY <1>1, <1>2, <1>4, Sides, Idle
  <1>8. InRange("edge", r)' /\ (Complete("edge", r) => Complete("edge", r)')
      BY <1>1, <1>2, <1>4, <1>7, Sides, Steady
  <1>9. heard'["cloud"][r] = IF r \in left \/ h.data = 0 THEN heard["cloud"][r]
                             ELSE Append(heard["cloud"][r], h.data)
      BY <1>1, <1>3, Parts, Sides DEF ServerHttpRecv, Writes, Hears, HeardOK
  <1>10. r \notin Over
      BY <1>2, <1>4, OverOf
  <1>11. InRange("cloud", r)' /\ (r \notin left => Complete("cloud", r)')
    <2>1. CASE r \in left
      <3>1. Fly("cloud", r)' \subseteq Fly("cloud", r) /\ heard'["cloud"][r] = heard["cloud"][r]
          BY <1>6, <1>9, <2>1
      <3> QED BY <1>1, <1>2, <2>1, <3>1, Sides, Dropped
    <2>2. CASE r \notin left
      <3>1. Complete("cloud", r)
          BY <1>1, <1>10, <2>2 DEF Flow, ToCloud
      <3>2. CASE h.data = 0
          BY <1>1, <1>2, <1>6, <1>9, <3>1, <3>2, Sides, Skipped
      <3>3. CASE h.data # 0
          BY <1>1, <1>2, <1>6, <1>9, <2>2, <3>1, <3>3, Sides, Heard
      <3> QED BY <3>2, <3>3
    <2> QED BY <2>1, <2>2
  <1>12. Control(r)'
      BY <1>1, <1>2, <1>4, Sides DEF Flow, Control, Young
  <1>13. ToCloud(r)'
    <2>1. h.type = "CLOSED" => reader["edge"][r] \in {"ended", "done"}
        BY <1>1, <1>6 DEF Flow, ToCloud, HasType
    <2> QED BY <1>1, <1>2, <1>4, <1>6, <1>10, <1>11, <2>1, Sides, OverOf
             DEF Flow, ToCloud, HasType, Bare, Young
  <1>14. ToEdge(r)'
      BY <1>1, <1>2, <1>4, <1>7, <1>8, Sides DEF Flow, ToEdge, HasType, Bare, Young
  <1>15. ASSUME NEW x \in Req, x # r PROVE Flow(x)'
      BY <1>5, <1>6, <1>7, <1>15, Untouched DEF FInv
  <1> QED BY <1>6, <1>7, <1>8, <1>11, <1>12, <1>13, <1>14, <1>15 DEF Flow

LEMMA ServerHttpLeaveFlow ==
    ASSUME FInv, NEW r \in Req, ServerHttpLeave(r)
    PROVE  Pipes("cloud")' /\ Pipes("edge")' /\ \A x \in Req : Flow(x)'
  <1>1. /\ TypeOK /\ Known /\ Pipes("cloud") /\ Pipes("edge") /\ Flow(r)
        /\ InRange("cloud", r) /\ InRange("edge", r)
      BY Here
  <1>2. /\ UNCHANGED <<request, reader, writer, ch, hand, stop, readCh, ends>>
        /\ serve[r] = "http" /\ r \in left
      BY DEF ServerHttpLeave
  <1>3. /\ serve'[r] = "done" /\ conns'["edge"] = conns["edge"] /\ wire'["edge"] = wire["edge"]
        /\ reader["cloud"][r] = "off" /\ writer["cloud"][r] = "off"
        /\ Other("cloud") = "edge" /\ Other("edge") = "cloud"
    <2>1. reader["cloud"][r] = "off" /\ writer["cloud"][r] = "off"
        BY <1>1, <1>2 DEF Known, Hijacked
    <2>2. serve'[r] = "done"
        BY <1>1, Parts DEF ServerHttpLeave, ServeOK
    <2>3. conns'["edge"] = conns["edge"]
        BY <1>1, Parts, Sides DEF ServerHttpLeave, Remove, ConnsOK
    <2>4. wire'["edge"] = wire["edge"]
        BY <1>1, Parts, Sides DEF ServerHttpLeave, TellsTheEdge, Send2Node, WireOK
    <2> QED BY <2>1, <2>2, <2>3, <2>4 DEF Other
  <1>4. \A x \in Req : x # r => Same(x)
    <2>1. \A x \in Req : x # r => serve'[x] = serve[x]
        BY <1>1, Parts DEF ServerHttpLeave, ServeOK
    <2>2. \A x \in Req : x # r => \A s \in Side : x \in conns'[s] <=> x \in conns[s]
        BY <1>1, Parts, Sides DEF ServerHttpLeave, Remove, ConnsOK
    <2> QED BY <1>2, <2>1, <2>2 DEF Same, ends
  <1>5. /\ Pipes("cloud")'
        /\ \A x \in Req : Fly("cloud", x)' = Fly("cloud", x) /\ Near("cloud", x)' = Near("cloud", x)
      BY <1>1, <1>2, <1>3, Sides, Idle
  <1>6. InRange("cloud", r)' /\ (Complete("cloud", r) => Complete("cloud", r)')
      BY <1>1, <1>2, <1>5, Sides, Steady DEF ends
  <1>7. ~HasType(Fly("edge", r), "CLOSED") /\ ~HasType(Fly("edge", r), "CONNECTING")
      BY <1>1, <1>2, <1>3 DEF Flow, ToEdge
  <1>8. PICK m \in Msg : m = M(r, "CLOSED", 0)
      BY MsgTyped
  <1>9. m.topic = r /\ m.type = "CLOSED" /\ m.data = 0
      BY <1>8, MsgIs
  <1>10. /\ Pipes("edge")' /\ Fly("edge", r)' = Fly("edge", r) \cup {m}
         /\ \A x \in Req : x # r => Fly("edge", x)' = Fly("edge", x)
         /\ \A x \in Req : Near("edge", x)' = Near("edge", x)
    <2>1. Send2Node(Other("edge"), m) /\ ReadChOf("edge", r) = <<>>
        BY <1>8 DEF ServerHttpLeave, TellsTheEdge, Other, ReadChOf
    <2>2. Ahead(Fly("edge", r), {m})
        BY <1>1, <1>7, <1>9, Sides, Fresh
    <2> QED BY <1>1, <1>2, <1>9, <2>1, <2>2, Sides, SendStep
  <1>11. InRange("edge", r)' /\ (Complete("edge", r) => Complete("edge", r)')
      BY <1>1, <1>2, <1>9, <1>10, Sides, Skipped DEF ends
  <1>12. Control(r)'
      BY <1>1, <1>2, <1>3, Sides DEF Flow, Control, Young, ends
  <1>13. ToCloud(r)'
      BY <1>1, <1>2, <1>3, <1>5, <1>6, Sides, OverOf
        DEF Flow, ToCloud, HasType, Bare, Young, ends
  <1>14. ToEdge(r)'
      BY <1>1, <1>2, <1>3, <1>7, <1>9, <1>10, <1>11, Sides
        DEF Flow, ToEdge, HasType, Bare, Young, ends
  <1>15. ASSUME NEW x \in Req, x # r PROVE Flow(x)'
      BY <1>4, <1>5, <1>10, <1>15, Untouched DEF FInv
  <1> QED BY <1>5, <1>6, <1>10, <1>11, <1>12, <1>13, <1>14, <1>15 DEF Flow

LEMMA DialFlow ==
    ASSUME FInv, NEW r \in Req, Dial(r)
    PROVE  Pipes("cloud")' /\ Pipes("edge")' /\ \A x \in Req : Flow(x)'
  <1>1. /\ TypeOK /\ Known /\ Pipes("cloud") /\ Pipes("edge") /\ Flow(r)
        /\ InRange("cloud", r) /\ InRange("edge", r)
      BY Here
  <1>2. UNCHANGED <<serve, reader, writer, links, left, said, heard>> /\ request[r] = "dial"
      BY DEF Dial
  <1>3. /\ request'[r] \in {"reply", "failed"} /\ open'["cloud"] = open["cloud"]
    <2>1. request'[r] \in {"reply", "failed"}
        BY <1>1, Parts DEF Dial, RequestOK
    <2>2. open'["cloud"] = open["cloud"]
        BY <1>1, Parts, Sides DEF Dial, OpenOK
    <2> QED BY <2>1, <2>2
  <1>4. \A x \in Req : x # r => Same(x)
    <2>1. \A x \in Req : x # r => request'[x] = request[x]
        BY <1>1, Parts DEF Dial, RequestOK
    <2>2. \A x \in Req : x # r => \A s \in Side : x \in open'[s] <=> x \in open[s]
        BY <1>1, Parts, Sides DEF Dial, OpenOK
    <2> QED BY <1>2, <2>1, <2>2 DEF Same, links
  <1>5. /\ Pipes("cloud")' /\ Pipes("edge")'
        /\ \A x \in Req : /\ Fly("cloud", x)' = Fly("cloud", x) /\ Fly("edge", x)' = Fly("edge", x)
                          /\ Near("edge", x)' = Near("edge", x)
      BY <1>1, <1>2, Sides, Idle DEF links
  <1>6. /\ InRange("cloud", r)' /\ (Complete("cloud", r) => Complete("cloud", r)')
        /\ InRange("edge", r)' /\ (Complete("edge", r) => Complete("edge", r)')
      BY <1>1, <1>2, <1>5, Sides, Steady
  <1>7. Control(r)'
      BY <1>1, <1>2, <1>3, Sides DEF Flow, Control, Young, links
  <1>8. ToCloud(r)'
      BY <1>1, <1>2, <1>3, <1>5, <1>6, Sides, OverOf DEF Flow, ToCloud, HasType, Bare, Young
  <1>9. ToEdge(r)'
      BY <1>1, <1>2, <1>3, <1>5, <1>6, Sides DEF Flow, ToEdge, HasType, Bare, Young
  <1>10. ASSUME NEW x \in Req, x # r PROVE Flow(x)'
      BY <1>4, <1>5, <1>10, Untouched DEF FInv
  <1> QED BY <1>5, <1>6, <1>7, <1>8, <1>9, <1>10 DEF Flow

(* A channel of the reader with something in it has something under way.   *)
LEMMA ReadChFlies ==
    ASSUME TypeOK, Known, NEW r \in Req, Fly("cloud", r) = {}
    PROVE  ReadChOf("cloud", r) = <<>>
  <1>1. Of(r, Elems(readCh[r])) = {} /\ readCh[r] \in Seq(Msg)
    <2>1. Fly("cloud", r) = Flying(r, ch["cloud"][r], hand["cloud"], wire[Other("cloud")], readCh[r])
        BY FlyNext DEF ReadChOf
    <2>2. Of(r, Elems(readCh[r])) = {}
        BY <2>1 DEF Flying
    <2> QED BY <2>2, Sides, PipeTypes
  <1>2. SUFFICES ASSUME readCh[r] # <<>> PROVE FALSE
      BY DEF ReadChOf
  <1>3. 1 \in DOMAIN readCh[r]
      BY <1>1, <1>2, TailTyped
  <1>4. readCh[r][1].topic = r
      BY <1>3 DEF Known, ReadChIsOwn
  <1> QED BY <1>1, <1>3, <1>4 DEF Of, Elems

LEMMA ReplyFlow ==
    ASSUME FInv, NEW r \in Req, Reply(r)
    PROVE  Pipes("cloud")' /\ Pipes("edge")' /\ \A x \in Req : Flow(x)'
  <1>1. /\ TypeOK /\ Known /\ Pipes("cloud") /\ Pipes("edge") /\ Flow(r)
        /\ InRange("cloud", r) /\ InRange("edge", r)
      BY Here
  <1>2. UNCHANGED <<serve, reader, writer, conns, ch, hand, stop, readCh, ends>> /\ request[r] = "reply"
      BY DEF Reply
  <1>3. /\ request'[r] = "register" /\ wire'["cloud"] = wire["cloud"]
        /\ Other("cloud") = "edge" /\ Other("edge") = "cloud"
    <2>1. request'[r] = "register"
        BY <1>1, Parts DEF Reply, RequestOK
    <2>2. wire'["cloud"] = wire["cloud"]
        BY <1>1, Parts, Sides DEF Reply, Send2Node, WireOK
    <2> QED BY <2>1, <2>2 DEF Other
  <1>4. \A x \in Req : x # r => Same(x)
    <2>1. \A x \in Req : x # r => request'[x] = request[x]
        BY <1>1, Parts DEF Reply, RequestOK
    <2> QED BY <1>2, <2>1 DEF Same, ends
  <1>5. /\ Pipes("edge")'
        /\ \A x \in Req : Fly("edge", x)' = Fly("edge", x) /\ Near("edge", x)' = Near("edge", x)
      BY <1>1, <1>2, <1>3, Sides, Idle
  <1>6. Fly("cloud", r) = {} /\ ~HasType(Fly("edge", r), "CONNECTED")
      BY <1>1, <1>2 DEF Flow, ToCloud, ToEdge, Young
  <1>7. PICK m \in Msg : m = M(r, "CONNECTED", 0)
      BY MsgTyped
  <1>8. m.topic = r /\ m.type = "CONNECTED" /\ m.data = 0
      BY <1>7, MsgIs
  <1>9. /\ Pipes("cloud")' /\ Fly("cloud", r)' = Fly("cloud", r) \cup {m}
        /\ \A x \in Req : x # r => Fly("cloud", x)' = Fly("cloud", x)
    <2>1. Send2Node(Other("cloud"), m) /\ Ahead(Fly("cloud", r), {m})
        BY <1>6, <1>7 DEF Reply, Other, Ahead
    <2>2. ReadChOf("cloud", r) = <<>>
        BY <1>1, <1>6, ReadChFlies
    <2> QED BY <1>1, <1>2, <1>8, <2>1, <2>2, Sides, SendStep
  <1>10. /\ InRange("cloud", r)' /\ (Complete("cloud", r) => Complete("cloud", r)')
         /\ InRange("edge", r)' /\ (Complete("edge", r) => Complete("edge", r)')
    <2>1. InRange("cloud", r)' /\ (Complete("cloud", r) => Complete("cloud", r)')
        BY <1>1, <1>2, <1>8, <1>9, Sides, Skipped DEF ends
    <2>2. InRange("edge", r)' /\ (Complete("edge", r) => Complete("edge", r)')
        BY <1>1, <1>2, <1>5, Sides, Steady DEF ends
    <2> QED BY <2>1, <2>2
  <1>11. Control(r)'
      BY <1>1, <1>2, <1>3, Sides DEF Flow, Control, Young, ends
  <1>12. ToCloud(r)'
      BY <1>1, <1>2, <1>3, <1>6, <1>8, <1>9, <1>10, Sides, OverOf
        DEF Flow, ToCloud, HasType, Bare, Young, ends
  <1>13. ToEdge(r)'
      BY <1>1, <1>2, <1>3, <1>5, <1>6, <1>10, Sides
        DEF Flow, ToEdge, HasType, Bare, Young, ends
  <1>14. ASSUME NEW x \in Req, x # r PROVE Flow(x)'
      BY <1>4, <1>5, <1>9, <1>14, Untouched DEF FInv
  <1> QED BY <1>5, <1>9, <1>10, <1>11, <1>12, <1>13, <1>14 DEF Flow

LEMMA RegisterFlow ==
    ASSUME FInv, NEW r \in Req, Register(r)
    PROVE  Pipes("cloud")' /\ Pipes("edge")' /\ \A x \in Req : Flow(x)'
  <1>1. /\ TypeOK /\ Known /\ Pipes("cloud") /\ Pipes("edge") /\ Flow(r)
        /\ InRange("cloud", r) /\ InRange("edge", r)
      BY Here
  <1>2. UNCHANGED <<serve, reader, writer, ch, wire, hand, stop, readCh, ends>> /\ request[r] = "register"
      BY DEF Register
  <1>3. request'[r] = "confirm" /\ conns'["edge"] = conns["edge"] \cup {r}
      BY <1>1, Parts, Sides DEF Register, Add, RequestOK, ConnsOK
  <1>4. \A x \in Req : x # r => Same(x)
    <2>1. \A x \in Req : x # r => request'[x] = request[x]
        BY <1>1, Parts DEF Register, RequestOK
    <2>2. \A x \in Req : x # r => \A s \in Side : x \in conns'[s] <=> x \in conns[s]
        BY <1>1, Parts, Sides DEF Register, Add, ConnsOK
    <2> QED BY <1>2, <2>1, <2>2 DEF Same, ends
  <1>5. /\ Pipes("cloud")' /\ Pipes("edge")'
        /\ \A x \in Req : /\ Fly("cloud", x)' = Fly("cloud", x) /\ Fly("edge", x)' = Fly("edge", x)
                          /\ Near("edge", x)' = Near("edge", x)
      BY <1>1, <1>2, Sides, Idle
  <1>6. /\ InRange("cloud", r)' /\ (Complete("cloud", r) => Complete("cloud", r)')
        /\ InRange("edge", r)' /\ (Complete("edge", r) => Complete("edge", r)')
      BY <1>1, <1>2, <1>5, Sides, Steady DEF ends
  <1>7. Control(r)'
      BY <1>1, <1>2, <1>3, Sides DEF Flow, Control, Young, ends
  <1>8. ToCloud(r)'
      BY <1>1, <1>2, <1>3, <1>5, <1>6, Sides, OverOf
        DEF Flow, ToCloud, HasType, Bare, Young, ends
  <1>9. ToEdge(r)'
      BY <1>1, <1>2, <1>3, <1>5, <1>6, Sides DEF Flow, ToEdge, HasType, Bare, Young, ends
  <1>10. ASSUME NEW x \in Req, x # r PROVE Flow(x)'
      BY <1>4, <1>5, <1>10, Untouched DEF FInv
  <1> QED BY <1>5, <1>6, <1>7, <1>8, <1>9, <1>10 DEF Flow

LEMMA AwaitConfirmFlow ==
    ASSUME FInv, NEW r \in Req, AwaitConfirm(r)
    PROVE  Pipes("cloud")' /\ Pipes("edge")' /\ \A x \in Req : Flow(x)'
  <1>1. /\ TypeOK /\ Known /\ Pipes("cloud") /\ Pipes("edge") /\ Flow(r)
        /\ InRange("cloud", r) /\ InRange("edge", r)
      BY Here
  <1>2. UNCHANGED <<serve, writer, conns, wire, hand, stop, readCh, ends>> /\ request[r] = "confirm"
      BY DEF AwaitConfirm
  <1>3. PICK h : h = Head(ch["edge"][r])
      OBVIOUS
  <1>4. /\ ch'["cloud"] = ch["cloud"] /\ reader'["cloud"] = reader["cloud"]
        /\ reader["edge"][r] = "off" /\ writer["edge"][r] = "off" /\ r \in conns["edge"]
        /\ \/ /\ h.type # "CONNECTED" /\ request'[r] = "confirm" /\ reader'["edge"][r] = "off"
           \/ /\ h.type = "CONNECTED" /\ r \in Upgrade /\ request'[r] = "raw"
              /\ reader'["edge"][r] = "off"
           \/ /\ h.type = "CONNECTED" /\ r \notin Upgrade /\ request'[r] = "http"
              /\ reader'["edge"][r] = "run"
    <2>1. reader["edge"][r] = "off" /\ writer["edge"][r] = "off" /\ r \in conns["edge"]
        BY <1>1, <1>2 DEF Flow, Control
    <2>2. ch'["cloud"] = ch["cloud"]
        BY <1>1, Parts, Sides DEF AwaitConfirm, Take, ChOK
    <2>3. CASE h.type # "CONNECTED"
        BY <1>1, <1>2, <1>3, <2>1, <2>2, <2>3 DEF AwaitConfirm
    <2>4. CASE h.type = "CONNECTED" /\ r \in Upgrade
        BY <1>1, <1>2, <1>3, <2>1, <2>2, <2>4, Parts DEF AwaitConfirm, RequestOK
    <2>5. CASE h.type = "CONNECTED" /\ r \notin Upgrade
        BY <1>1, <1>2, <1>3, <2>1, <2>2, <2>5, Parts, Sides
          DEF AwaitConfirm, RequestOK, ReaderOK
    <2> QED BY <2>3, <2>4, <2>5
  <1>5. \A x \in Req : x # r => Same(x)
    <2>1. \A x \in Req : x # r => request'[x] = request[x]
        BY <1>1, Parts DEF AwaitConfirm, RequestOK
    <2>2. \A x \in Req : x # r => \A s \in Side : reader'[s][x] = reader[s][x]
      <3>1. CASE reader' = reader
          BY <3>1
      <3>2. CASE reader' = [reader EXCEPT !["edge"][r] = "run"]
          BY <1>1, <3>2, Parts, Sides DEF ReaderOK
      <3> QED BY <3>1, <3>2 DEF AwaitConfirm
    <2> QED BY <1>2, <2>1, <2>2 DEF Same, ends
  <1>6. /\ Pipes("edge")' /\ h \in Msg /\ Near("edge", r)' \subseteq Near("edge", r)
        /\ Fly("edge", r) = Fly("edge", r)' \cup {h} /\ Ahead({h}, Fly("edge", r)')
        /\ \A x \in Req : x # r => Fly("edge", x)' = Fly("edge", x) /\ Near("edge", x)' = Near("edge", x)
    <2>1. Take("edge", r)
        BY DEF AwaitConfirm
    <2> QED BY <1>1, <1>2, <1>3, <2>1, Sides, TakeStep
  <1>7. /\ Pipes("cloud")'
        /\ \A x \in Req : Fly("cloud", x)' = Fly("cloud", x) /\ Near("cloud", x)' = Near("cloud", x)
      BY <1>1, <1>2, <1>4, Sides, Idle
  <1>8. InRange("cloud", r)' /\ (Complete("cloud", r) => Complete("cloud", r)')
      BY <1>1, <1>2, <1>7, Sides, Steady DEF ends
  <1>9. h.type # "CONNECTING" /\ serve[r] # "wait" /\ serve[r] # "idle"
      BY <1>1, <1>2, <1>6 DEF Flow, ToEdge, HasType
  <1>10. ~HasType(Fly("edge", r)', "CONNECTED")
      BY <1>6, <1>9 DEF HasType, Ahead, Follows
  <1>11. InRange("edge", r)'
      BY <1>1, <1>2, <1>6, Sides, Dropped DEF ends
  <1>12. r \in Upgrade /\ r \in open["edge"] /\ h.type = "CONNECTED" => Complete("edge", r)'
    <2>1. SUFFICES ASSUME r \in Upgrade, r \in open["edge"], h.type = "CONNECTED" PROVE Complete("edge", r)'
        OBVIOUS
    <2>2. Complete("edge", r) /\ h.data = 0
        BY <1>1, <1>6, <2>1 DEF Flow, ToEdge, HasType, Bare
    <2> QED BY <1>1, <1>2, <1>6, <2>2, Sides, Skipped DEF ends
  <1>13. Control(r)'
      BY <1>1, <1>2, <1>4, Sides DEF Flow, Control, Young, ends
  <1>14. ToCloud(r)'
      BY <1>1, <1>2, <1>4, <1>7, <1>8, <1>9, Sides, OverOf
        DEF Flow, ToCloud, HasType, Bare, Young, ends
  <1>15. ToEdge(r)'
      BY <1>1, <1>2, <1>4, <1>6, <1>9, <1>10, <1>12, Sides
        DEF Flow, ToEdge, HasType, Bare, Young, ends
  <1>16. ASSUME NEW x \in Req, x # r PROVE Flow(x)'
      BY <1>5, <1>6, <1>7, <1>16, Untouched DEF FInv
  <1> QED BY <1>6, <1>7, <1>8, <1>11, <1>13, <1>14, <1>15, <1>16 DEF Flow

LEMMA ClientHttpClosedFlow ==
    ASSUME FInv, NEW r \in Req, ClientHttpClosed(r)
    PROVE  Pipes("cloud")' /\ Pipes("edge")' /\ \A x \in Req : Flow(x)'
  <1>1. /\ TypeOK /\ Known /\ Pipes("cloud") /\ Pipes("edge") /\ Flow(r)
        /\ InRange("cloud", r) /\ InRange("edge", r)
      BY Here
  <1>2. /\ UNCHANGED <<serve, reader, writer, conns, wire, hand, stop, readCh, left, said, heard>>
        /\ request[r] = "http"
      BY DEF ClientHttpClosed
  <1>3. PICK h : h = Head(ch["edge"][r])
      OBVIOUS
  <1>4. /\ ch'["cloud"] = ch["cloud"] /\ open'["cloud"] = open["cloud"]
        /\ request'[r] \in {"http", "abort"} /\ open'["edge"] \subseteq open["edge"]
    <2>1. ch'["cloud"] = ch["cloud"]
        BY <1>1, Parts, Sides DEF ClientHttpClosed, Take, ChOK
    <2>2. request'[r] \in {"http", "abort"}
        BY <1>1, Parts DEF ClientHttpClosed, RequestOK
    <2>3. open'["cloud"] = open["cloud"] /\ open'["edge"] \subseteq open["edge"]
        BY <1>1, Parts, Sides DEF ClientHttpClosed, Close, OpenOK
    <2> QED BY <2>1, <2>2, <2>3
  <1>5. \A x \in Req : x # r => Same(x)
    <2>1. \A x \in Req : x # r => request'[x] = request[x]
        BY <1>1, Parts DEF ClientHttpClosed, RequestOK
    <2>2. \A x \in Req : x # r => \A s \in Side : x \in open'[s] <=> x \in open[s]
        BY <1>1, Parts, Sides DEF ClientHttpClosed, Close, OpenOK
    <2> QED BY <1>2, <2>1, <2>2 DEF Same
  <1>6. /\ Pipes("edge")' /\ h \in Msg /\ Near("edge", r)' \subseteq Near("edge", r)
        /\ Fly("edge", r) = Fly("edge", r)' \cup {h} /\ Ahead({h}, Fly("edge", r)')
        /\ \A x \in Req : x # r => Fly("edge", x)' = Fly("edge", x) /\ Near("edge", x)' = Near("edge", x)
    <2>1. Take("edge", r)
        BY DEF ClientHttpClosed
    <2> QED BY <1>1, <1>2, <1>3, <2>1, Sides, TakeStep
  <1>7. /\ Pipes("cloud")'
        /\ \A x \in Req : Fly("cloud", x)' = Fly("cloud", x) /\ Near("cloud", x)' = Near("cloud", x)
      BY <1>1, <1>2, <1>4, Sides, Idle
  <1>8. InRange("cloud", r)' /\ (Complete("cloud", r) => Complete("cloud", r)')
      BY <1>1, <1>2, <1>7, Sides, Steady
  <1>9. InRange("edge", r)'
      BY <1>1, <1>2, <1>6, Sides, Dropped
  <1>10. Control(r)'
      BY <1>1, <1>2, <1>4, Sides DEF Flow, Control, Young
  <1>11. ToCloud(r)'
      BY <1>1, <1>2, <1>4, <1>7, <1>8, Sides, OverOf DEF Flow, ToCloud, HasType, Bare, Young
  <1>12. ToEdge(r)'
      BY <1>1, <1>2, <1>4, <1>6, Sides DEF Flow, ToEdge, HasType, Bare, Young
  <1>13. ASSUME NEW x \in Req, x # r PROVE Flow(x)'
      BY <1>5, <1>6, <1>7, <1>13, Untouched DEF FInv
  <1> QED BY <1>6, <1>7, <1>8, <1>9, <1>10, <1>11, <1>12, <1>13 DEF Flow

LEMMA StopReaderFlow ==
    ASSUME FInv, NEW r \in Req, StopReader(r)
    PROVE  Pipes("cloud")' /\ Pipes("edge")' /\ \A x \in Req : Flow(x)'
  <1>1. /\ TypeOK /\ Known /\ Pipes("cloud") /\ Pipes("edge") /\ Flow(r)
        /\ InRange("cloud", r) /\ InRange("edge", r)
      BY Here
  <1>2. /\ UNCHANGED <<serve, writer, ch, wire, hand, stop, readCh, ends>>
        /\ request[r] \in {"abort", "last"} /\ reader["edge"][r] = "ended"
      BY DEF StopReader
  <1>3. /\ reader'["cloud"] = reader["cloud"] /\ reader'["edge"][r] = "done"
        /\ request'[r] \in {"http", "done"} /\ r \notin Upgrade
        /\ conns'["cloud"] = conns["cloud"] /\ conns'["edge"] \subseteq conns["edge"]
        /\ reader["cloud"][r] = "off"
    <2>1. reader'["cloud"] = reader["cloud"] /\ reader'["edge"][r] = "done"
        BY <1>1, Parts, Sides DEF StopReader, ReaderOK
    <2>2. request'[r] \in {"http", "done"}
        BY <1>1, Parts DEF StopReader, RequestOK
    <2>3. conns'["cloud"] = conns["cloud"] /\ conns'["edge"] \subseteq conns["edge"]
        BY <1>1, Parts, Sides DEF StopReader, Remove, ConnsOK
    <2>4. r \notin Upgrade /\ reader["cloud"][r] = "off"
        BY <1>1, <1>2 DEF Flow, Control
    <2> QED BY <2>1, <2>2, <2>3, <2>4
  <1>4. \A x \in Req : x # r => Same(x)
    <2>1. \A x \in Req : x # r => request'[x] = request[x]
        BY <1>1, Parts DEF StopReader, RequestOK
    <2>2. \A x \in Req : x # r => \A s \in Side : reader'[s][x] = reader[s][x]
        BY <1>1, Parts, Sides DEF StopReader, ReaderOK
    <2>3. \A x \in Req : x # r => \A s \in Side : x \in conns'[s] <=> x \in conns[s]
        BY <1>1, Parts, Sides DEF StopReader, Remove, ConnsOK
    <2> QED BY <1>2, <2>1, <2>2, <2>3 DEF Same, ends
  <1>5. /\ Pipes("cloud")' /\ Pipes("edge")'
        /\ \A x \in Req : /\ Fly("cloud", x)' = Fly("cloud", x) /\ Fly("edge", x)' = Fly("edge", x)
                          /\ Near("edge", x)' = Near("edge", x)
      BY <1>1, <1>2, Sides, Idle
  <1>6. /\ InRange("cloud", r)' /\ (Complete("cloud", r) => Complete("cloud", r)')
        /\ InRange("edge", r)'
      BY <1>1, <1>2, <1>5, Sides, Steady DEF ends
  <1>7. Control(r)'
      BY <1>1, <1>2, <1>3, Sides DEF Flow, Control, Young, ends
  <1>8. ToCloud(r)'
      BY <1>1, <1>2, <1>3, <1>5, <1>6, Sides, OverOf
        DEF Flow, ToCloud, HasType, Bare, Young, ends
  <1>9. ToEdge(r)'
      BY <1>1, <1>2, <1>3, <1>5, <1>6, Sides DEF Flow, ToEdge, HasType, Bare, Young, ends
  <1>10. ASSUME NEW x \in Req, x # r PROVE Flow(x)'
      BY <1>4, <1>5, <1>10, Untouched DEF FInv
  <1> QED BY <1>5, <1>6, <1>7, <1>8, <1>9, <1>10 DEF Flow

LEMMA SwitchProtocolsFlow ==
    ASSUME FInv, NEW r \in Req, SwitchProtocols(r)
    PROVE  Pipes("cloud")' /\ Pipes("edge")' /\ \A x \in Req : Flow(x)'
  <1>1. /\ TypeOK /\ Known /\ Pipes("cloud") /\ Pipes("edge") /\ Flow(r)
        /\ InRange("cloud", r) /\ InRange("edge", r)
      BY Here
  <1>2. UNCHANGED <<serve, conns, ch, hand, stop, readCh, open, left, heard>> /\ request[r] = "raw"
      BY DEF SwitchProtocols
  <1>3. PICK d \in Nat : /\ d = said["edge"][r] + 1
                         /\ Send2Node("edge", M(r, "TRANSNMISSION", d)) /\ Says("edge", r, d)
    <2>1. said["edge"][r] \in Nat
        BY Here, Sides
    <2> QED BY <2>1 DEF SwitchProtocols, Unread
  <1>4. /\ reader'["cloud"] = reader["cloud"] /\ writer'["cloud"] = writer["cloud"]
        /\ reader'["edge"][r] = "run" /\ writer'["edge"][r] = "run" /\ request'[r] = "done"
        /\ wire'["cloud"] = wire["cloud"] /\ Other("cloud") = "edge" /\ Other("edge") = "cloud"
    <2>1. /\ reader'["cloud"] = reader["cloud"] /\ writer'["cloud"] = writer["cloud"]
          /\ reader'["edge"][r] = "run" /\ writer'["edge"][r] = "run" /\ request'[r] = "done"
        BY <1>1, Parts, Sides DEF SwitchProtocols, RequestOK, ReaderOK, WriterOK
    <2>2. wire'["cloud"] = wire["cloud"]
        BY <1>1, <1>3, Parts, Sides DEF Send2Node, WireOK
    <2> QED BY <2>1, <2>2 DEF Other
  <1>5. /\ said'["edge"][r] = d /\ said'["cloud"][r] = said["cloud"][r] /\ d # 0
        /\ \A x \in Req : x # r => \A s \in Side : said'[s][x] = said[s][x]
    <2>1. d # 0
        BY <1>3, Here, Sides
    <2> QED BY <1>1, <1>3, <2>1, Sides, SaysNext
  <1>6. \A x \in Req : x # r => Same(x)
    <2>1. \A x \in Req : x # r => request'[x] = request[x]
        BY <1>1, Parts DEF SwitchProtocols, RequestOK
    <2>2. \A x \in Req : x # r => \A s \in Side : reader'[s][x] = reader[s][x]
        BY <1>1, Parts, Sides DEF SwitchProtocols, ReaderOK
    <2>3. \A x \in Req : x # r => \A s \in Side : writer'[s][x] = writer[s][x]
        BY <1>1, Parts, Sides DEF SwitchProtocols, WriterOK
    <2> QED BY <1>2, <1>5, <2>1, <2>2, <2>3 DEF Same
  <1>7. /\ Pipes("edge")'
        /\ \A x \in Req : Fly("edge", x)' = Fly("edge", x) /\ Near("edge", x)' = Near("edge", x)
      BY <1>1, <1>2, <1>4, Sides, Idle
  <1>8. /\ r \in Upgrade /\ reader["edge"][r] = "off" /\ writer["edge"][r] = "off"
        /\ r \in conns["edge"] /\ readCh[r] = <<>> /\ ~HasType(Fly("cloud", r), "CLOSED")
        /\ ~(r \in Over \ left)
      BY <1>1, <1>2 DEF Flow, Control, ToCloud
  <1>9. PICK m \in Msg : m = M(r, "TRANSNMISSION", d)
      BY MsgTyped
  <1>10. m.topic = r /\ m.type = "TRANSNMISSION" /\ m.data = d
      BY <1>9, MsgIs
  <1>11. /\ Pipes("cloud")' /\ Fly("cloud", r)' = Fly("cloud", r) \cup {m}
         /\ \A x \in Req : x # r => Fly("cloud", x)' = Fly("cloud", x)
    <2>1. Send2Node(Other("cloud"), m) /\ ReadChOf("cloud", r) = <<>>
        BY <1>3, <1>4, <1>8, <1>9 DEF ReadChOf
    <2>2. Ahead(Fly("cloud", r), {m})
        BY <1>1, <1>3, <1>4, <1>8, <1>10, Sides, Fresh
    <2> QED BY <1>1, <1>2, <1>10, <2>1, <2>2, Sides, SendStep
  <1>12. /\ InRange("cloud", r)' /\ (Complete("cloud", r) => Complete("cloud", r)')
         /\ InRange("edge", r)' /\ (Complete("edge", r) => Complete("edge", r)')
    <2>1. InRange("cloud", r)' /\ (Complete("cloud", r) => Complete("cloud", r)')
        BY <1>1, <1>2, <1>3, <1>4, <1>5, <1>10, <1>11, Sides, Spoken
    <2>2. InRange("edge", r)' /\ (Complete("edge", r) => Complete("edge", r)')
        BY <1>1, <1>2, <1>4, <1>5, <1>7, Sides, Steady
    <2> QED BY <2>1, <2>2
  <1>13. Control(r)'
      BY <1>1, <1>2, <1>4, <1>8, Sides DEF Flow, Control, Young
  <1>14. ToCloud(r)'
      BY <1>1, <1>2, <1>4, <1>8, <1>10, <1>11, <1>12, Sides, OverOf
        DEF Flow, ToCloud, HasType, Bare, Young
  <1>15. ToEdge(r)'
      BY <1>1, <1>2, <1>4, <1>5, <1>7, <1>12, Sides DEF Flow, ToEdge, HasType, Bare, Young
  <1>16. ASSUME NEW x \in Req, x # r PROVE Flow(x)'
      BY <1>6, <1>7, <1>11, <1>16, Untouched DEF FInv
  <1> QED BY <1>7, <1>11, <1>12, <1>13, <1>14, <1>15, <1>16 DEF Flow

LEMMA ReadBodyFlow ==
    ASSUME FInv, NEW r \in Req, ReadBody(r)
    PROVE  Pipes("cloud")' /\ Pipes("edge")' /\ \A x \in Req : Flow(x)'
  <1>1. /\ TypeOK /\ Known /\ Pipes("cloud") /\ Pipes("edge") /\ Flow(r)
        /\ InRange("cloud", r) /\ InRange("edge", r)
      BY Here
  <1>2. /\ UNCHANGED <<serve, request, writer, conns, ch, wire, hand, stop, open, left, heard>>
        /\ r \notin Upgrade /\ reader["edge"][r] = "run"
      BY DEF ReadBody
  <1>3. PICK d \in Nat, m \in Msg :
              /\ d = 0 \/ d = said["edge"][r] + 1
              /\ m.topic = r /\ m.data = d /\ Says("edge", r, d)
              /\ readCh' = [readCh EXCEPT ![r] = Append(@, m)]
              /\ \/ m.type = "TRANSNMISSION" /\ reader' = reader
                 \/ m.type = "CLOSED" /\ reader' = [reader EXCEPT !["edge"][r] = "ended"]
    <2>1. said["edge"][r] \in Nat
        BY Here, Sides
    <2>2. \A d \in Unread("edge", r) \cup {0} : d \in Nat /\ (d = 0 \/ d = said["edge"][r] + 1)
        BY <2>1 DEF Unread
    <2>3. CASE \E d \in Unread("edge", r) :
                  /\ readCh' = [readCh EXCEPT ![r] = Append(@, M(r, "TRANSNMISSION", d))]
                  /\ Says("edge", r, d)
                  /\ UNCHANGED reader
      <3>1. PICK d \in Nat : /\ d = 0 \/ d = said["edge"][r] + 1
                             /\ readCh' = [readCh EXCEPT ![r] = Append(@, M(r, "TRANSNMISSION", d))]
                             /\ Says("edge", r, d) /\ reader' = reader
          BY <2>2, <2>3
      <3>2. PICK m \in Msg : m = M(r, "TRANSNMISSION", d)
          BY MsgTyped
      <3>3. m.topic = r /\ m.data = d /\ m.type = "TRANSNMISSION"
          BY <3>2, MsgIs
      <3> QED BY <3>1, <3>2, <3>3
    <2>4. CASE \E d \in Unread("edge", r) \cup {0} :
                  /\ readCh' = [readCh EXCEPT ![r] = Append(@, EndOf(r, d))]
                  /\ Says("edge", r, d)
                  /\ reader' = [reader EXCEPT !["edge"][r] = "ended"]
      <3>1. PICK d \in Nat : /\ d = 0 \/ d = said["edge"][r] + 1
                             /\ readCh' = [readCh EXCEPT ![r] = Append(@, EndOf(r, d))]
                             /\ Says("edge", r, d)
                             /\ reader' = [reader EXCEPT !["edge"][r] = "ended"]
          BY <2>2, <2>4
      <3>2. PICK m \in Msg : m = EndOf(r, d)
          BY MsgTyped
      <3>3. m.topic = r /\ m.data = d /\ m.type = "CLOSED"
          BY <3>2, MsgIs
      <3> QED BY <3>1, <3>2, <3>3
    <2> QED BY <2>3, <2>4 DEF ReadBody
  <1>4. /\ reader'["cloud"] = reader["cloud"] /\ Other("cloud") = "edge"
        /\ reader'["edge"][r] = IF m.type = "CLOSED" THEN "ended" ELSE "run"
      BY <1>1, <1>2, <1>3, Parts, Sides DEF ReaderOK, Other
  <1>5. /\ said'["edge"][r] = IF m.data = 0 THEN said["edge"][r] ELSE m.data
        /\ said'["cloud"][r] = said["cloud"][r]
        /\ \A x \in Req : x # r => \A s \in Side : said'[s][x] = said[s][x]
      BY <1>1, <1>3, Sides, SaysNext
  <1>6. \A x \in Req : x # r => Same(x)
    <2>1. \A x \in Req : x # r => readCh'[x] = readCh[x]
        BY <1>1, <1>3, Parts DEF ReadChOK
    <2>2. \A x \in Req : x # r => \A s \in Side : reader'[s][x] = reader[s][x]
      <3>1. CASE reader' = reader
          BY <3>1
      <3>2. CASE reader' = [reader EXCEPT !["edge"][r] = "ended"]
          BY <1>1, <3>2, Parts, Sides DEF ReaderOK
      <3> QED BY <1>3, <3>1, <3>2
    <2> QED BY <1>2, <1>5, <2>1, <2>2 DEF Same
  <1>7. /\ Pipes("edge")'
        /\ \A x \in Req : Fly("edge", x)' = Fly("edge", x) /\ Near("edge", x)' = Near("edge", x)
      BY <1>1, <1>2, Sides, Idle
  <1>8. /\ request[r] \notin Young \cup {"register", "confirm"} /\ request[r] # "raw"
        /\ ~HasType(Fly("cloud", r), "CLOSED") /\ ~(r \in Over \ left)
      BY <1>1, <1>2 DEF Flow, Control, ToCloud
  <1>9. /\ Pipes("cloud")' /\ Fly("cloud", r)' = Fly("cloud", r) \cup {m}
        /\ \A x \in Req : x # r => Fly("cloud", x)' = Fly("cloud", x)
    <2>1. Ahead(Fly("cloud", r), {m})
        BY <1>1, <1>3, <1>4, <1>8, Sides, Fresh
    <2> QED BY <1>1, <1>2, <1>3, <2>1, ReadStep
  <1>10. /\ InRange("cloud", r)' /\ (Complete("cloud", r) => Complete("cloud", r)')
         /\ InRange("edge", r)' /\ (Complete("edge", r) => Complete("edge", r)')
    <2>1. InRange("cloud", r)' /\ (Complete("cloud", r) => Complete("cloud", r)')
      <3>1. m.data = 0 \/ m.data = said[Other("cloud")][r] + 1
          BY <1>3, <1>4
      <3>2. said'[Other("cloud")][r] = IF m.data = 0 THEN said[Other("cloud")][r] ELSE m.data
          BY <1>4, <1>5
      <3> QED BY <1>1, <1>2, <1>9, <3>1, <3>2, Sides, Spoken
    <2>2. InRange("edge", r)' /\ (Complete("edge", r) => Complete("edge", r)')
      <3>1. Other("edge") = "cloud"
          BY DEF Other
      <3> QED BY <1>1, <1>2, <1>5, <1>7, <3>1, Sides, Steady
    <2> QED BY <2>1, <2>2
  <1>11. Control(r)'
      BY <1>1, <1>2, <1>4, <1>8, Sides DEF Flow, Control, Young
  <1>12. ToCloud(r)'
      BY <1>1, <1>2, <1>3, <1>4, <1>8, <1>9, <1>10, Sides, OverOf
        DEF Flow, ToCloud, HasType, Bare, Young
  <1>13. ToEdge(r)'
      BY <1>1, <1>2, <1>4, <1>5, <1>7, <1>8, <1>10, Sides
        DEF Flow, ToEdge, HasType, Bare, Young
  <1>14. ASSUME NEW x \in Req, x # r PROVE Flow(x)'
      BY <1>6, <1>7, <1>9, <1>14, Untouched DEF FInv
  <1> QED BY <1>7, <1>9, <1>10, <1>11, <1>12, <1>13, <1>14 DEF Flow

LEMMA ClientHttpSendFlow ==
    ASSUME FInv, NEW r \in Req, ClientHttpSend(r)
    PROVE  Pipes("cloud")' /\ Pipes("edge")' /\ \A x \in Req : Flow(x)'
  <1>1. /\ TypeOK /\ Known /\ Pipes("cloud") /\ Pipes("edge") /\ Flow(r)
        /\ InRange("cloud", r) /\ InRange("edge", r)
      BY Here
  <1>2. UNCHANGED <<serve, reader, writer, ch, hand, stop, ends>> /\ request[r] = "http"
      BY DEF ClientHttpSend
  <1>3. /\ request'[r] \in {"http", "last", "done"} /\ r \notin Upgrade
        /\ request'[r] = "done" => reader["edge"][r] = "done"
        /\ conns'["cloud"] = conns["cloud"] /\ conns'["edge"] \subseteq conns["edge"]
        /\ wire'["cloud"] = wire["cloud"] /\ Other("edge") = "cloud"
    <2>1. request'[r] \in {"http", "last", "done"}
        BY <1>1, <1>2, Parts DEF ClientHttpSend, RequestOK
    <2>2. request'[r] = "done" => reader["edge"][r] = "done"
        BY <1>1, <1>2, Parts DEF ClientHttpSend, RequestOK
    <2>3. conns'["cloud"] = conns["cloud"] /\ conns'["edge"] \subseteq conns["edge"]
        BY <1>1, Parts, Sides DEF ClientHttpSend, Remove, ConnsOK
    <2>4. r \notin Upgrade
        BY <1>1, <1>2 DEF Flow, Control
    <2>5. wire'["cloud"] = wire["cloud"]
        BY <1>1, Parts, Sides DEF ClientHttpSend, Send2Node, WireOK
    <2> QED BY <2>1, <2>2, <2>3, <2>4, <2>5 DEF Other
  <1>4. \A x \in Req : x # r => Same(x)
    <2>1. \A x \in Req : x # r => request'[x] = request[x]
        BY <1>1, Parts DEF ClientHttpSend, RequestOK
    <2>2. \A x \in Req : x # r => readCh'[x] = readCh[x]
        BY <1>1, Parts DEF ClientHttpSend, ReadChOK
    <2>3. \A x \in Req : x # r => \A s \in Side : x \in conns'[s] <=> x \in conns[s]
        BY <1>1, Parts, Sides DEF ClientHttpSend, Remove, ConnsOK
    <2> QED BY <1>2, <2>1, <2>2, <2>3 DEF Same, ends
  <1>5. /\ Pipes("edge")'
        /\ \A x \in Req : Fly("edge", x)' = Fly("edge", x) /\ Near("edge", x)' = Near("edge", x)
      BY <1>1, <1>2, <1>3, Sides, Idle
  <1>6. /\ Pipes("cloud")'
        /\ \A x \in Req : Fly("cloud", x)' = Fly("cloud", x)
    <2>1. CASE readCh[r] = <<>>
      <3>1. readCh' = readCh /\ wire' = wire
          BY <2>1 DEF ClientHttpSend
      <3> QED BY <1>1, <1>2, <3>1, Sides, Idle
    <2>2. CASE readCh[r] # <<>>
      <3>1. Send2Node("edge", Head(readCh[r])) /\ readCh' = [readCh EXCEPT ![r] = Tail(@)]
          BY <2>2 DEF ClientHttpSend
      <3>2. \A i \in DOMAIN readCh[r] : readCh[r][i].topic = r
          BY <1>1 DEF Known, ReadChIsOwn
      <3> QED BY <1>1, <1>2, <2>2, <3>1, <3>2, ForwardStep
    <2> QED BY <2>1, <2>2
  <1>7. /\ InRange("cloud", r)' /\ (Complete("cloud", r) => Complete("cloud", r)')
        /\ InRange("edge", r)'
    <2>1. InRange("cloud", r)' /\ (Complete("cloud", r) => Complete("cloud", r)')
        BY <1>1, <1>2, <1>6, Sides, Steady DEF ends
    <2> QED BY <1>1, <1>2, <1>5, <2>1, Sides, Steady DEF ends
  <1>8. Control(r)'
      BY <1>1, <1>2, <1>3, Sides DEF Flow, Control, Young, ends
  <1>9. ToCloud(r)'
      BY <1>1, <1>2, <1>3, <1>6, <1>7, Sides, OverOf
        DEF Flow, ToCloud, HasType, Bare, Young, ends
  <1>10. ToEdge(r)'
      BY <1>1, <1>2, <1>3, <1>5, <1>7, Sides DEF Flow, ToEdge, HasType, Bare, Young, ends
  <1>11. ASSUME NEW x \in Req, x # r PROVE Flow(x)'
      BY <1>4, <1>5, <1>6, <1>11, Untouched DEF FInv
  <1> QED BY <1>5, <1>6, <1>7, <1>8, <1>9, <1>10, <1>11 DEF Flow

(* What the reader of a hijacked connection sends.                         *)
LEMMA NetReadSends ==
    ASSUME TypeOK, NEW s \in Side, NEW r \in Req, NetRead(s, r)
    PROVE  \E m \in Msg :
              /\ m.topic = r
              /\ m.data = 0 \/ m.data = said[s][r] + 1
              /\ Send2Node(s, m) /\ Says(s, r, m.data)
              /\ r \notin open[s] => m.data = 0
              /\ \/ m.type = "TRANSNMISSION" /\ UNCHANGED <<reader, stop, open, conns>>
                 \/ /\ m.type = "CLOSED" /\ ReaderDone(s, r)
                    /\ s = "edge" \/ r \notin open[s]
  <1>1. said[s][r] \in Nat
      BY Parts DEF SaidOK
  <1>2. \A d \in Unread(s, r) \cup {0} : /\ d \in Nat /\ (d = 0 \/ d = said[s][r] + 1)
                                         /\ r \notin open[s] => d = 0
      BY <1>1 DEF Unread
  <1>3. CASE \E d \in Unread(s, r) :
                /\ Send2Node(s, M(r, "TRANSNMISSION", d)) /\ Says(s, r, d)
                /\ UNCHANGED <<reader, stop, open, conns>>
    <2>1. PICK d \in Nat : /\ d = 0 \/ d = said[s][r] + 1
                           /\ r \notin open[s] => d = 0
                           /\ Send2Node(s, M(r, "TRANSNMISSION", d)) /\ Says(s, r, d)
                           /\ UNCHANGED <<reader, stop, open, conns>>
        BY <1>2, <1>3
    <2>2. PICK m \in Msg : m = M(r, "TRANSNMISSION", d)
        BY MsgTyped
    <2>3. m.topic = r /\ m.data = d /\ m.type = "TRANSNMISSION"
        BY <2>2, MsgIs
    <2> QED BY <2>1, <2>2, <2>3
  <1>4. CASE \E d \in Unread(s, r) \cup {0} :
                /\ Send2Node(s, EndOf(r, d)) /\ Says(s, r, d)
                /\ s = "edge" \/ r \notin open[s]
                /\ ReaderDone(s, r)
    <2>1. PICK d \in Nat : /\ d = 0 \/ d = said[s][r] + 1
                           /\ r \notin open[s] => d = 0
                           /\ Send2Node(s, EndOf(r, d)) /\ Says(s, r, d)
                           /\ s = "edge" \/ r \notin open[s]
                           /\ ReaderDone(s, r)
        BY <1>2, <1>4
    <2>2. PICK m \in Msg : m = EndOf(r, d)
        BY MsgTyped
    <2>3. m.topic = r /\ m.data = d /\ m.type = "CLOSED"
        BY <2>2, MsgIs
    <2> QED BY <2>1, <2>2, <2>3
  <1> QED BY <1>3, <1>4 DEF NetRead

LEMMA NetReadFlow ==
    ASSUME FInv, NEW s \in Side, NEW r \in Req, NetRead(s, r)
    PROVE  Pipes("cloud")' /\ Pipes("edge")' /\ \A x \in Req : Flow(x)'
  <1>1. /\ TypeOK /\ Known /\ Pipes("cloud") /\ Pipes("edge") /\ Flow(r)
        /\ InRange("cloud", r) /\ InRange("edge", r)
      BY Here
  <1>2. /\ UNCHANGED <<serve, request, writer, ch, hand, readCh, left, heard>>
        /\ r \in Upgrade /\ reader[s][r] = "run"
      BY DEF NetRead
  <1>3. PICK t \in Side : t = Other(s) /\ Other(t) = s /\ t # s
      BY DEF Side, Other
  <1>4. PICK m \in Msg :
              /\ m.topic = r
              /\ m.data = 0 \/ m.data = said[s][r] + 1
              /\ Send2Node(s, m) /\ Says(s, r, m.data)
              /\ r \notin open[s] => m.data = 0
              /\ \/ m.type = "TRANSNMISSION" /\ UNCHANGED <<reader, stop, open, conns>>
                 \/ /\ m.type = "CLOSED" /\ ReaderDone(s, r)
                    /\ s = "edge" \/ r \notin open[s]
      BY <1>1, NetReadSends
  <1>5. /\ conns' = conns /\ reader'[t] = reader[t] /\ open'[t] = open[t]
        /\ reader'[s][r] = IF m.type = "CLOSED" THEN "done" ELSE "run"
        /\ open'[s] \subseteq open[s] /\ (s = "cloud" => open'[s] = open[s])
        /\ <<t, r>> \in stop' <=> <<t, r>> \in stop
        /\ <<s, r>> \in stop' => <<s, r>> \in stop \/ m.type = "CLOSED"
    <2>1. CASE m.type = "TRANSNMISSION"
        BY <1>2, <1>4, <2>1
    <2>2. CASE m.type = "CLOSED"
      <3>1. ReaderDone(s, r)
          BY <1>4, <2>2
      <3>2. conns' = conns /\ stop' = stop \cup {<<s, r>>}
          BY <3>1 DEF ReaderDone
      <3>3. reader'[t] = reader[t] /\ reader'[s][r] = "done"
          BY <1>1, <1>3, <3>1, Parts DEF ReaderDone, ReaderOK
      <3>4. open'[t] = open[t] /\ open'[s] = open[s] \ {r}
          BY <1>1, <1>3, <3>1, Parts DEF ReaderDone, Close, OpenOK
      <3> QED BY <1>3, <1>4, <2>2, <3>2, <3>3, <3>4
    <2> QED BY <1>4, <2>1, <2>2
  <1>6. /\ said'[s][r] = IF m.data = 0 THEN said[s][r] ELSE m.data
        /\ said'[t][r] = said[t][r]
        /\ \A x \in Req : x # r => \A u \in Side : said'[u][x] = said[u][x]
    <2>1. m.data \in Nat
        BY MsgParts
    <2> QED BY <1>1, <1>3, <1>4, <2>1, SaysNext
  <1>7. \A x \in Req : x # r => Same(x)
    <2> SUFFICES ASSUME NEW x \in Req, x # r PROVE Same(x)
        OBVIOUS
    <2>1. \A u \in Side : reader'[u][x] = reader[u][x]
      <3>1. CASE reader' = reader
          BY <3>1
      <3>2. CASE ReaderDone(s, r)
          BY <1>1, <3>2, Parts DEF ReaderDone, ReaderOK
      <3> QED BY <1>4, <3>1, <3>2
    <2>2. \A u \in Side : x \in open'[u] <=> x \in open[u]
      <3>1. CASE open' = open
          BY <3>1
      <3>2. CASE ReaderDone(s, r)
          BY <1>1, <3>2, Parts DEF ReaderDone, Close, OpenOK
      <3> QED BY <1>4, <3>1, <3>2
    <2>3. \A u \in Side : <<u, x>> \in stop' <=> <<u, x>> \in stop
        BY <1>4 DEF ReaderDone
    <2> QED BY <1>2, <1>5, <1>6, <2>1, <2>2, <2>3 DEF Same
  <1>8. wire'[t] = wire[t]
      BY <1>1, <1>3, <1>4, Parts DEF Send2Node, WireOK
  <1>9. /\ Pipes(s)'
        /\ \A x \in Req : Fly(s, x)' = Fly(s, x) /\ Near(s, x)' = Near(s, x)
      BY <1>1, <1>2, <1>3, <1>8, Sides, Idle DEF Side
  <1>10. ~HasType(Fly(t, r), "CLOSED") /\ (s = "cloud" => serve[r] = "raw")
    <2>1. CASE s = "cloud"
      <3>1. serve[r] = "raw" /\ t = "edge"
          BY <1>1, <1>2, <1>3, <2>1 DEF Known, Hijacked, Side
      <3> QED BY <1>1, <1>2, <2>1, <3>1 DEF Flow, ToEdge
    <2>2. CASE s = "edge"
      <3>1. t = "cloud"
          BY <1>3, <2>2 DEF Side
      <3> QED BY <1>1, <1>2, <2>2, <3>1 DEF Flow, ToCloud
    <2> QED BY <2>1, <2>2 DEF Side
  <1>11. /\ Pipes(t)' /\ Fly(t, r)' = Fly(t, r) \cup {m}
         /\ \A x \in Req : x # r => Fly(t, x)' = Fly(t, x)
         /\ \A x \in Req : Near(t, x)' = Near(t, x)
    <2>1. Send2Node(Other(t), m) /\ ReadChOf(t, r) = <<>> /\ Pipes(t) /\ InRange(t, r)
        BY <1>1, <1>2, <1>3, <1>4 DEF ReadChOf, Flow, Control, Side
    <2>2. Ahead(Fly(t, r), {m})
        BY <1>1, <1>3, <1>4, <1>10, <2>1, Fresh
    <2> QED BY <1>1, <1>2, <1>4, <2>1, <2>2, SendStep
  <1>12. /\ InRange(t, r)' /\ (Complete(t, r) => Complete(t, r)')
         /\ InRange(s, r)' /\ (Complete(s, r) => Complete(s, r)')
    <2>1. InRange(s, r) /\ InRange(t, r)
        BY <1>1 DEF Side
    <2>2. InRange(t, r)' /\ (Complete(t, r) => Complete(t, r)')
      <3>1. m.data = 0 \/ m.data = said[Other(t)][r] + 1
          BY <1>3, <1>4
      <3>2. said'[Other(t)][r] = IF m.data = 0 THEN said[Other(t)][r] ELSE m.data
          BY <1>3, <1>6
      <3> QED BY <1>1, <1>2, <1>11, <2>1, <3>1, <3>2, Spoken
    <2>3. InRange(s, r)' /\ (Complete(s, r) => Complete(s, r)')
        BY <1>1, <1>2, <1>3, <1>6, <1>9, <2>1, Steady
    <2> QED BY <2>2, <2>3
  <1>13. Control(r)' /\ ToCloud(r)' /\ ToEdge(r)'
    <2>1. CASE s = "cloud"
      <3>1. t = "edge"
          BY <1>3, <2>1 DEF Side
      <3>2. Control(r)'
          BY <1>1, <1>2, <1>4, <1>5, <2>1, <3>1, Sides DEF Flow, Control, Young
      <3>3. ToCloud(r)'
          BY <1>1, <1>2, <1>5, <1>6, <1>9, <1>12, <2>1, <3>1, Sides, OverOf
            DEF Flow, ToCloud, HasType, Bare, Young
      <3>4. ToEdge(r)'
          BY <1>1, <1>2, <1>4, <1>5, <1>6, <1>10, <1>11, <1>12, <2>1, <3>1, Sides
            DEF Flow, ToEdge, HasType, Bare, Young
      <3> QED BY <3>2, <3>3, <3>4
    <2>2. CASE s = "edge"
      <3>1. t = "cloud" /\ request[r] \notin Young \cup {"register", "confirm"} /\ request[r] # "raw"
            /\ ~(r \in Over \ left)
          BY <1>1, <1>2, <1>3, <2>2 DEF Flow, Control, ToCloud, Side
      <3>2. Control(r)'
          BY <1>1, <1>2, <1>4, <1>5, <2>2, <3>1, Sides DEF Flow, Control, Young
      <3>3. ToCloud(r)'
          BY <1>1, <1>2, <1>4, <1>5, <1>6, <1>11, <1>12, <2>2, <3>1, Sides, OverOf
            DEF Flow, ToCloud, HasType, Bare, Young
      <3>4. ToEdge(r)'
          BY <1>1, <1>2, <1>5, <1>6, <1>9, <1>12, <2>2, <3>1, Sides
            DEF Flow, ToEdge, HasType, Bare, Young
      <3> QED BY <3>2, <3>3, <3>4
    <2> QED BY <2>1, <2>2 DEF Side
  <1>14. Pipes("cloud")' /\ Pipes("edge")' /\ InRange("cloud", r)' /\ InRange("edge", r)'
      BY <1>3, <1>9, <1>11, <1>12 DEF Side
  <1>15. ASSUME NEW x \in Req, x # r PROVE Flow(x)'
    <2>1. /\ Fly("cloud", x)' = Fly("cloud", x) /\ Fly("edge", x)' = Fly("edge", x)
          /\ Near("edge", x)' \subseteq Near("edge", x)
        BY <1>3, <1>9, <1>11, <1>15 DEF Side
    <2> QED BY <1>7, <1>15, <2>1, Untouched DEF FInv
  <1> QED BY <1>13, <1>14, <1>15 DEF Flow

(* A NetWrite loop takes a message, or the reader stops it.                *)
LEMMA NetWriteCases ==
    ASSUME TypeOK, NEW s \in Side, NEW r \in Req, NetWrite(s, r)
    PROVE  \/ /\ Take(s, r)
              /\ \E m \in Msg :
                    /\ m = Head(ch[s][r])
                    /\ Hears(s, r, IF m.data # 0 /\ r \notin open[s] THEN 0 ELSE m.data)
                    /\ \/ UNCHANGED <<writer, conns, open>>
                       \/ (m.type = "CLOSED" \/ (m.data # 0 /\ r \notin open[s])) /\ WriterDone(s, r)
           \/ <<s, r>> \in stop /\ WriterDone(s, r) /\ UNCHANGED <<ch, heard>>
  <1>1. ASSUME Take(s, r) PROVE Head(ch[s][r]) \in Msg
      BY <1>1, TakeTyped
  <1> QED BY <1>1 DEF NetWrite

(* What a NetWrite loop takes, and whether it goes on.                     *)
LEMMA NetWriteTakes ==
    ASSUME TypeOK, NEW s \in Side, NEW r \in Req, NetWrite(s, r), Pipes(s), InRange(s, r),
           r \in open[s] => Complete(s, r)
    PROVE  /\ Pipes(s)'
           /\ \A x \in Req : x # r => Fly(s, x)' = Fly(s, x) /\ Near(s, x)' = Near(s, x)
           /\ Fly(s, r)' \subseteq Fly(s, r) /\ Near(s, r)' \subseteq Near(s, r)
           /\ InRange(s, r)' /\ (r \in open[s] => Complete(s, r)')
           /\ \/ UNCHANGED <<writer, conns, open>>
              \/ /\ WriterDone(s, r)
                 /\ \/ HasType(Fly(s, r), "CLOSED") \/ r \notin open[s] \/ <<s, r>> \in stop
  <1>1. UNCHANGED <<serve, request, reader, wire, hand, readCh, left, said>>
      BY DEF NetWrite
  <1>2. ASSUME Take(s, r), NEW m \in Msg, m = Head(ch[s][r]),
               Hears(s, r, IF m.data # 0 /\ r \notin open[s] THEN 0 ELSE m.data),
               \/ UNCHANGED <<writer, conns, open>>
               \/ (m.type = "CLOSED" \/ (m.data # 0 /\ r \notin open[s])) /\ WriterDone(s, r)
        PROVE  /\ Pipes(s)'
               /\ \A x \in Req : x # r => Fly(s, x)' = Fly(s, x) /\ Near(s, x)' = Near(s, x)
               /\ Fly(s, r)' \subseteq Fly(s, r) /\ Near(s, r)' \subseteq Near(s, r)
               /\ InRange(s, r)' /\ (r \in open[s] => Complete(s, r)')
               /\ \/ UNCHANGED <<writer, conns, open>>
                  \/ /\ WriterDone(s, r)
                     /\ HasType(Fly(s, r), "CLOSED") \/ r \notin open[s]
    <2>1. /\ Pipes(s)' /\ Near(s, r)' \subseteq Near(s, r)
          /\ Fly(s, r) = Fly(s, r)' \cup {m} /\ Ahead({m}, Fly(s, r)')
          /\ \A x \in Req : x # r => Fly(s, x)' = Fly(s, x) /\ Near(s, x)' = Near(s, x)
        BY <1>1, <1>2, TakeStep
    <2>2. heard'[s][r] = IF m.data = 0 \/ r \notin open[s] THEN heard[s][r]
                         ELSE Append(heard[s][r], m.data)
        BY <1>2, Parts DEF Hears, HeardOK
    <2>3. InRange(s, r)' /\ (r \in open[s] => Complete(s, r)')
      <3>1. CASE m.data = 0
          BY <1>1, <2>1, <2>2, <3>1, Sides, Skipped
      <3>2. CASE m.data # 0 /\ r \notin open[s]
          BY <1>1, <2>1, <2>2, <3>2, Sides, Dropped
      <3>3. CASE m.data # 0 /\ r \in open[s]
          BY <1>1, <2>1, <2>2, <3>3, Sides, Heard
      <3> QED BY <3>1, <3>2, <3>3
    <2>4. m.type = "CLOSED" => HasType(Fly(s, r), "CLOSED")
        BY <2>1 DEF HasType
    <2> QED BY <1>2, <2>1, <2>3, <2>4
  <1>3. CASE <<s, r>> \in stop /\ WriterDone(s, r) /\ UNCHANGED <<ch, heard>>
    <2>1. Pipes(s)' /\ \A x : Fly(s, x)' = Fly(s, x) /\ Near(s, x)' = Near(s, x)
        BY <1>1, <1>3, Idle
    <2>2. InRange(s, r)' /\ (Complete(s, r) => Complete(s, r)')
        BY <1>1, <1>3, <2>1, Steady
    <2> QED BY <1>3, <2>1, <2>2
  <1> QED BY <1>2, <1>3, NetWriteCases

LEMMA Writing ==
    ASSUME FInv, NEW s \in Side, NEW r \in Req, NetWrite(s, r)
    PROVE  /\ s = "cloud" => serve[r] = "raw" /\ r \notin Over /\ (r \in left <=> r \notin open["cloud"])
           /\ s = "edge" => request[r] = "done" /\ r \in Upgrade
           /\ r \in open[s] => Complete(s, r)
  <1>1. TypeOK /\ Known /\ Flow(r) /\ writer[s][r] = "run"
      BY Here DEF NetWrite
  <1>2. CASE s = "cloud"
    <2>1. serve[r] = "raw"
        BY <1>1, <1>2 DEF Known, Hijacked
    <2>2. r \notin Over
        BY <1>1, <1>2, <2>1, OverOf
    <2>3. r \in left <=> r \notin open["cloud"]
        BY <1>1, <1>2 DEF Flow, Control
    <2> QED BY <1>1, <1>2, <2>1, <2>2, <2>3 DEF Flow, ToCloud
  <1>3. CASE s = "edge"
    <2>1. request[r] = "done" /\ r \in Upgrade
        BY <1>1, <1>3 DEF Flow, Control
    <2> QED BY <1>1, <1>3, <2>1 DEF Flow, ToEdge
  <1> QED BY <1>2, <1>3 DEF Side

LEMMA NetWriteFlow ==
    ASSUME FInv, NEW s \in Side, NEW r \in Req, NetWrite(s, r)
    PROVE  Pipes("cloud")' /\ Pipes("edge")' /\ \A x \in Req : Flow(x)'
  <1>1. /\ TypeOK /\ Known /\ Pipes("cloud") /\ Pipes("edge") /\ Flow(r)
        /\ InRange("cloud", r) /\ InRange("edge", r)
      BY Here
  <1>2. UNCHANGED <<serve, request, reader, wire, hand, readCh, left, said>> /\ writer[s][r] = "run"
      BY DEF NetWrite
  <1>3. PICK t \in Side : t = Other(s) /\ Other(t) = s /\ t # s
      BY DEF Side, Other
  <1>4. /\ s = "cloud" => serve[r] = "raw" /\ r \notin Over /\ (r \in left <=> r \notin open["cloud"])
        /\ s = "edge" => request[r] = "done"
        /\ r \in open[s] => Complete(s, r)
      BY Writing
  <1>5. /\ Pipes(s)'
        /\ \A x \in Req : x # r => Fly(s, x)' = Fly(s, x) /\ Near(s, x)' = Near(s, x)
        /\ Fly(s, r)' \subseteq Fly(s, r) /\ Near(s, r)' \subseteq Near(s, r)
        /\ InRange(s, r)' /\ (r \in open[s] => Complete(s, r)')
        /\ \/ UNCHANGED <<writer, conns, open>>
           \/ /\ WriterDone(s, r)
              /\ \/ HasType(Fly(s, r), "CLOSED") \/ r \notin open[s] \/ <<s, r>> \in stop
    <2>1. Pipes(s) /\ InRange(s, r)
        BY <1>1 DEF Side
    <2> QED BY <1>1, <1>4, <2>1, NetWriteTakes
  <1>6. /\ ch'[t] = ch[t] /\ heard'[t] = heard[t]
        /\ \A x \in Req : x # r => heard'[s][x] = heard[s][x]
        /\ stop' \subseteq stop /\ \A y : y # <<s, r>> => (y \in stop' <=> y \in stop)
    <2>1. ch'[t] = ch[t]
      <3>1. CASE ch' = ch
          BY <3>1
      <3>2. CASE Take(s, r)
          BY <1>1, <1>3, <3>2, Parts DEF Take, ChOK
      <3> QED BY <3>1, <3>2 DEF NetWrite
    <2>2. heard'[t] = heard[t] /\ \A x \in Req : x # r => heard'[s][x] = heard[s][x]
      <3>1. CASE heard' = heard
          BY <3>1
      <3>2. CASE \E d : Hears(s, r, d)
          BY <1>1, <1>3, <3>2, Parts DEF Hears, HeardOK
      <3> QED BY <3>1, <3>2 DEF NetWrite
    <2>3. stop' \subseteq stop /\ \A y : y # <<s, r>> => (y \in stop' <=> y \in stop)
        BY DEF NetWrite
    <2> QED BY <2>1, <2>2, <2>3
  <1>7. /\ writer'[t] = writer[t] /\ conns'[t] = conns[t] /\ open'[t] = open[t]
        /\ \A x \in Req : x # r => /\ writer'[s][x] = writer[s][x]
                                   /\ x \in conns'[s] <=> x \in conns[s]
                                   /\ x \in open'[s] <=> x \in open[s]
        /\ \/ writer'[s][r] = "run" /\ conns'[s] = conns[s] /\ open'[s] = open[s]
           \/ /\ writer'[s][r] = "done" /\ r \notin open'[s]
              /\ \/ HasType(Fly(s, r), "CLOSED") \/ r \notin open[s] \/ <<s, r>> \in stop
    <2>1. CASE UNCHANGED <<writer, conns, open>>
        BY <1>2, <2>1
    <2>2. CASE /\ WriterDone(s, r)
               /\ \/ HasType(Fly(s, r), "CLOSED") \/ r \notin open[s] \/ <<s, r>> \in stop
      <3>1. /\ writer'[t] = writer[t] /\ writer'[s][r] = "done"
            /\ \A x \in Req : x # r => writer'[s][x] = writer[s][x]
          BY <1>1, <1>3, <2>2, Parts DEF WriterDone, WriterOK
      <3>2. conns'[t] = conns[t] /\ conns'[s] = conns[s] \ {r}
          BY <1>1, <1>3, <2>2, Parts DEF WriterDone, Remove, ConnsOK
      <3>3. open'[t] = open[t] /\ open'[s] = open[s] \ {r}
          BY <1>1, <1>3, <2>2, Parts DEF WriterDone, Close, OpenOK
      <3> QED BY <2>2, <3>1, <3>2, <3>3
    <2> QED BY <1>5, <2>1, <2>2
  <1>8. ASSUME NEW x \in Req, x # r PROVE Same(x)
    <2>1. \A u \in Side : u = s \/ u = t
        BY <1>3 DEF Side
    <2>2. \A u \in Side : <<u, x>> # <<s, r>>
        BY <1>8
    <2>3. \A u \in Side : /\ writer'[u][x] = writer[u][x] /\ heard'[u][x] = heard[u][x]
                          /\ x \in conns'[u] <=> x \in conns[u]
                          /\ x \in open'[u] <=> x \in open[u]
        BY <1>6, <1>7, <1>8, <2>1
    <2> QED BY <1>2, <1>6, <2>2, <2>3 DEF Same
  <1>9. /\ Pipes(t)'
        /\ \A x \in Req : Fly(t, x)' = Fly(t, x) /\ Near(t, x)' = Near(t, x)
    <2>1. Pipes(t)
        BY <1>1 DEF Side
    <2> QED BY <1>2, <1>6, <2>1, Idle
  <1>10. InRange(t, r)' /\ (Complete(t, r) => Complete(t, r)')
    <2>1. InRange(t, r)
        BY <1>1 DEF Side
    <2> QED BY <1>1, <1>2, <1>3, <1>6, <1>9, <2>1, Steady
  <1>11. Control(r)' /\ ToCloud(r)' /\ ToEdge(r)'
    <2>1. CASE s = "cloud"
      <3>1. t = "edge" /\ (<<"cloud", r>> \in stop => r \in left)
          BY <1>1, <1>3, <1>4, <2>1 DEF Flow, Control, Side
      <3>2. Control(r)'
          BY <1>1, <1>2, <1>4, <1>6, <1>7, <2>1, <3>1, Sides DEF Flow, Control, Young
      <3>3. ToCloud(r)'
        <4>1. HasType(Fly("cloud", r), "CLOSED") => reader["edge"][r] \in {"ended", "done"}
            BY <1>1 DEF Flow, ToCloud
        <4>2. r \in Over' \ left' => reader["edge"][r] \in {"ended", "done"}
            BY <1>2, <1>4, <1>7, <2>1, <3>1, <4>1, OverOf
        <4> QED BY <1>1, <1>2, <1>4, <1>5, <2>1, <4>1, <4>2
                 DEF Flow, ToCloud, HasType, Bare, Young
      <3>4. ToEdge(r)'
          BY <1>1, <1>2, <1>7, <1>9, <1>10, <2>1, <3>1, Sides
            DEF Flow, ToEdge, HasType, Bare, Young
      <3> QED BY <3>2, <3>3, <3>4
    <2>2. CASE s = "edge"
      <3>1. t = "cloud"
          BY <1>3, <2>2 DEF Side
      <3>2. Control(r)'
          BY <1>1, <1>2, <1>4, <1>6, <1>7, <2>2, <3>1, Sides DEF Flow, Control, Young
      <3>3. ToCloud(r)'
          BY <1>1, <1>2, <1>4, <1>7, <1>9, <1>10, <2>2, <3>1, Sides, OverOf
            DEF Flow, ToCloud, HasType, Bare, Young
      <3>4. ToEdge(r)'
          BY <1>1, <1>2, <1>4, <1>5, <1>7, <2>2, <3>1, Sides
            DEF Flow, ToEdge, HasType, Bare, Young
      <3> QED BY <3>2, <3>3, <3>4
    <2> QED BY <2>1, <2>2 DEF Side
  <1>12. Pipes("cloud")' /\ Pipes("edge")' /\ InRange("cloud", r)' /\ InRange("edge", r)'
      BY <1>3, <1>5, <1>9, <1>10 DEF Side
  <1>13. ASSUME NEW x \in Req, x # r PROVE Flow(x)'
    <2>1. /\ Fly("cloud", x)' = Fly("cloud", x) /\ Fly("edge", x)' = Fly("edge", x)
          /\ Near("edge", x)' \subseteq Near("edge", x)
        BY <1>3, <1>5, <1>9, <1>13 DEF Side
    <2> QED BY <1>8, <1>13, <2>1, Untouched DEF FInv
  <1> QED BY <1>11, <1>12, <1>13 DEF Flow

LEMMA RecvMsgFlow ==
    ASSUME FInv, NEW s \in Side, RecvMsg(s)
    PROVE  Pipes("cloud")' /\ Pipes("edge")' /\ \A x \in Req : Flow(x)'
  <1>1. TypeOK /\ Known /\ Pipes("cloud") /\ Pipes("edge")
      BY DEF FInv, IInv
  <1>2. UNCHANGED <<serve, reader, writer, conns, stop, readCh, ends>>
      BY DEF RecvMsg
  <1>3. PICK u \in Side : u = Other(s) /\ Other(u) = s /\ u # s
      BY DEF Side, Other
  <1>4. PICK m \in Msg, t \in Req :
              /\ m = Head(wire[Other(s)]) /\ t = m.topic /\ Pipes(s)'
              /\ \A x \in Req : x # t => Fly(s, x)' = Fly(s, x) /\ Near(s, x)' \subseteq Near(s, x)
              /\ m \in Fly(s, t)
              /\ \/ /\ m.type # "CONNECTING" /\ t \in conns[s]
                    /\ Fly(s, t)' = Fly(s, t)
                 \/ /\ m.type = "CONNECTING" \/ t \notin conns[s]
                    /\ Fly(s, t) = Fly(s, t)' \cup {m}
                    /\ Near(s, t)' \subseteq Near(s, t)
                    /\ \A y \in Fly(s, t)' : Follows(m, y) \/ y \in Near(s, t)
    <2>1. Pipes(s)
        BY <1>1 DEF Side
    <2> QED BY <1>1, <2>1, RecvStep
  <1>5. Flow(t) /\ InRange("cloud", t) /\ InRange("edge", t)
      BY Here
  <1>6. IF m.type = "CONNECTING" THEN request' = [request EXCEPT ![t] = "dial"] ELSE request' = request
    <2>1. CASE m.type = "CONNECTING"
        BY <1>4, <2>1 DEF RecvMsg
    <2>2. CASE m.type # "CONNECTING" /\ t \notin conns[s]
        BY <1>4, <2>2 DEF RecvMsg
    <2>3. CASE m.type # "CONNECTING" /\ t \in conns[s] /\ Len(ch[s][t]) < Cap
        BY <1>4, <2>3 DEF RecvMsg
    <2>4. CASE m.type # "CONNECTING" /\ t \in conns[s] /\ ~(Len(ch[s][t]) < Cap)
        BY <1>4, <2>4 DEF RecvMsg
    <2> QED BY <2>1, <2>2, <2>3, <2>4
  <1>7. ASSUME NEW x \in Req, x # t \/ m.type # "CONNECTING" PROVE Same(x)
    <2>1. request'[x] = request[x]
        BY <1>1, <1>6, <1>7, Parts DEF RequestOK
    <2> QED BY <1>2, <2>1 DEF Same, ends
  <1>8. ch'[u] = ch[u] /\ hand'[u] = hand[u] /\ wire'[s] = wire[s]
    <2>1. wire'[s] = wire[s]
        BY <1>1, <1>3, Parts DEF RecvMsg, WireOK
    <2>2. ch' = ch \/ ch' = [ch EXCEPT ![s][t] = Append(@, m)]
      <3>1. CASE m.type = "CONNECTING"
          BY <1>4, <3>1 DEF RecvMsg
      <3>2. CASE m.type # "CONNECTING" /\ t \notin conns[s]
          BY <1>4, <3>2 DEF RecvMsg
      <3>3. CASE m.type # "CONNECTING" /\ t \in conns[s] /\ Len(ch[s][t]) < Cap
          BY <1>4, <3>3 DEF RecvMsg
      <3>4. CASE m.type # "CONNECTING" /\ t \in conns[s] /\ ~(Len(ch[s][t]) < Cap)
          BY <1>4, <3>4 DEF RecvMsg
      <3> QED BY <3>1, <3>2, <3>3, <3>4
    <2>3. hand' = hand \/ hand' = [hand EXCEPT ![s] = {m}]
      <3>1. CASE m.type = "CONNECTING"
          BY <1>4, <3>1 DEF RecvMsg
      <3>2. CASE m.type # "CONNECTING" /\ t \notin conns[s]
          BY <1>4, <3>2 DEF RecvMsg
      <3>3. CASE m.type # "CONNECTING" /\ t \in conns[s] /\ Len(ch[s][t]) < Cap
          BY <1>4, <3>3 DEF RecvMsg
      <3>4. CASE m.type # "CONNECTING" /\ t \in conns[s] /\ ~(Len(ch[s][t]) < Cap)
          BY <1>4, <3>4 DEF RecvMsg
      <3> QED BY <3>1, <3>2, <3>3, <3>4
    <2>4. ch'[u] = ch[u]
      <3>1. CASE ch' = ch
          BY <3>1
      <3>2. CASE ch' = [ch EXCEPT ![s][t] = Append(@, m)]
          BY <1>1, <1>3, <3>2, Parts DEF ChOK
      <3> QED BY <2>2, <3>1, <3>2
    <2>5. hand'[u] = hand[u]
      <3>1. CASE hand' = hand
          BY <3>1
      <3>2. CASE hand' = [hand EXCEPT ![s] = {m}]
          BY <1>1, <1>3, <3>2, Parts DEF HandOK
      <3> QED BY <2>3, <3>1, <3>2
    <2> QED BY <2>1, <2>4, <2>5
  <1>9. /\ Pipes(u)'
        /\ \A x : Fly(u, x)' = Fly(u, x) /\ Near(u, x)' = Near(u, x)
    <2>1. Pipes(u)
        BY <1>1 DEF Side
    <2> QED BY <1>2, <1>3, <1>8, <2>1, Idle
  <1>10. InRange(u, t)' /\ (Complete(u, t) => Complete(u, t)')
    <2>1. InRange(u, t)
        BY <1>5 DEF Side
    <2> QED BY <1>2, <1>9, <2>1, Sides, Steady DEF ends
  <1>11. InRange(s, t)'
    <2>1. InRange(s, t) /\ Fly(s, t)' \subseteq Fly(s, t)
        BY <1>4, <1>5 DEF Side
    <2> QED BY <1>2, <2>1, Sides, Dropped DEF ends
  <1>12. ASSUME NEW x \in Req, x # t PROVE Flow(x)'
    <2>1. /\ Fly("cloud", x)' = Fly("cloud", x) /\ Fly("edge", x)' = Fly("edge", x)
          /\ Near("edge", x)' \subseteq Near("edge", x)
        BY <1>3, <1>4, <1>9, <1>12 DEF Side
    <2> QED BY <1>7, <1>12, <2>1, Untouched DEF FInv
  <1>13. Control(t)' /\ ToCloud(t)' /\ ToEdge(t)'
    <2>1. CASE s = "cloud"
      <3>1. u = "edge" /\ m.type # "CONNECTING" /\ request' = request
          BY <1>3, <1>4, <1>5, <1>6, <2>1 DEF Flow, ToCloud, HasType, Side
      <3>2. CASE Fly("cloud", t)' = Fly("cloud", t)
        <4>1. Flow(t)'
            BY <1>5, <1>7, <1>9, <3>1, <3>2, Untouched
        <4> QED BY <4>1 DEF Flow
      <3>3. CASE t \notin conns["cloud"] /\ Fly("cloud", t) = Fly("cloud", t)' \cup {m}
        <4>1. t \in Over /\ serve[t] # "wait"
          <5>1. request[t] # "off"
              BY <1>4, <1>5, <2>1 DEF Flow, ToCloud, Young
          <5>2. t \in Over
              BY <1>1, <3>3, <5>1 DEF Known, EdgeWasAsked, Registered
          <5> QED BY <1>1, <5>2, OverOf DEF Known, Hijacked
        <4>2. Control(t)'
            BY <1>2, <1>5, <3>1, Sides DEF Flow, Control, Young, ends
        <4>3. ToCloud(t)'
            BY <1>2, <1>5, <3>1, <3>3, <4>1, Sides, OverOf
              DEF Flow, ToCloud, HasType, Bare, Young, ends
        <4>4. ToEdge(t)'
            BY <1>2, <1>5, <1>9, <1>10, <3>1, Sides
              DEF Flow, ToEdge, HasType, Bare, Young, ends
        <4> QED BY <4>2, <4>3, <4>4
      <3> QED BY <1>4, <2>1, <3>1, <3>2, <3>3
    <2>2. CASE s = "edge" /\ m.type # "CONNECTING"
      <3>1. u = "cloud" /\ request' = request
          BY <1>3, <1>6, <2>2 DEF Side
      <3>2. Control(t)'
          BY <1>2, <1>5, <3>1, Sides DEF Flow, Control, Young, ends
      <3>3. ToCloud(t)'
          BY <1>2, <1>5, <1>9, <1>10, <3>1, Sides, OverOf
            DEF Flow, ToCloud, HasType, Bare, Young, ends
      <3>4. CASE t \in conns["edge"] /\ Fly("edge", t)' = Fly("edge", t)
        <4>1. Complete("edge", t) => Complete("edge", t)'
            BY <1>2, <3>4, Sides, Steady DEF ends
        <4>2. request[t] \notin Young \cup {"register"}
            BY <1>5, <3>4 DEF Flow, Control
        <4>3. ToEdge(t)'
            BY <1>2, <1>5, <3>1, <3>4, <4>1, <4>2, Sides
              DEF Flow, ToEdge, HasType, Bare, Young, ends
        <4> QED BY <3>2, <3>3, <4>3
      <3>5. CASE /\ t \notin conns["edge"] /\ Fly("edge", t) = Fly("edge", t)' \cup {m}
                 /\ Near("edge", t)' \subseteq Near("edge", t)
                 /\ \A y \in Fly("edge", t)' : Follows(m, y) \/ y \in Near("edge", t)
        <4>1. request[t] \notin {"confirm", "raw"} /\ writer["edge"][t] # "run"
            BY <1>5, <3>5 DEF Flow, Control
        <4>2. ~HasType(Fly("edge", t)', "CONNECTED")
          <5> SUFFICES ASSUME NEW y \in Fly("edge", t)', y.type = "CONNECTED" PROVE FALSE
              BY DEF HasType
          <5>1. request[t] = "register"
              BY <1>5, <3>5, <4>1 DEF Flow, ToEdge, HasType
          <5>2. y \in Near("edge", t)
              BY <2>2, <3>5 DEF Follows
          <5> QED BY <1>5, <5>1, <5>2 DEF Flow, ToEdge
        <4>3. ~(t \in Upgrade /\ t \in open["edge"] /\ request[t] \in {"raw", "done"})
          <5> SUFFICES ASSUME t \in Upgrade, t \in open["edge"], request[t] = "done" PROVE FALSE
              BY <4>1
          <5>1. writer["edge"][t] = "done"
              BY <1>1, <1>5, <4>1, Sides, Parts DEF Flow, Control, WriterOK
          <5> QED BY <1>5, <5>1 DEF Flow, Control
        <4>4. ToEdge(t)'
            BY <1>2, <1>5, <3>1, <3>5, <4>2, <4>3, Sides
              DEF Flow, ToEdge, HasType, Bare, Young, ends
        <4> QED BY <3>2, <3>3, <4>4
      <3> QED BY <1>4, <2>2, <3>4, <3>5
    <2>3. CASE s = "edge" /\ m.type = "CONNECTING"
      <3>1. u = "cloud" /\ request'[t] = "dial"
          BY <1>1, <1>3, <1>6, <2>3, Parts DEF Side, RequestOK
      <3>2. serve[t] = "wait" /\ request[t] = "off"
          BY <1>4, <1>5, <2>3 DEF Flow, ToEdge, HasType
      <3>3. Near("edge", t) = {} /\ \A y \in Fly("edge", t) : y.type = "CONNECTING"
          BY <1>5, <3>2 DEF Flow, ToEdge, Young
      <3>4. Near("edge", t)' = {} /\ Fly("edge", t)' = {}
        <4>1. /\ Fly("edge", t) = Fly("edge", t)' \cup {m} /\ Near("edge", t)' \subseteq Near("edge", t)
              /\ \A y \in Fly("edge", t)' : Follows(m, y) \/ y \in Near("edge", t)
            BY <1>4, <2>3
        <4> QED BY <3>3, <4>1 DEF Follows
      <3>5. Control(t)'
          BY <1>2, <1>5, <3>1, <3>2, Sides DEF Flow, Control, Young, ends
      <3>6. ToCloud(t)'
          BY <1>2, <1>5, <1>9, <1>10, <3>1, <3>2, Sides, OverOf
            DEF Flow, ToCloud, HasType, Bare, Young, ends
      <3>7. ToEdge(t)'
          BY <1>2, <1>5, <3>1, <3>2, <3>4, Sides
            DEF Flow, ToEdge, HasType, Bare, Young, ends
      <3> QED BY <3>5, <3>6, <3>7
    <2> QED BY <2>1, <2>2, <2>3 DEF Side
  <1>14. Pipes("cloud")' /\ Pipes("edge")' /\ InRange("cloud", t)' /\ InRange("edge", t)'
      BY <1>3, <1>4, <1>9, <1>10, <1>11 DEF Side
  <1> QED BY <1>12, <1>13, <1>14 DEF Flow
-----------------------------------------------------------------------------
LEMMA NothingUnderWay ==
    ASSUME Init, NEW s \in Side, NEW r \in Req
    PROVE  Ord(s, r) /\ Own(s, r) /\ Fly(s, r) = {} /\ Near(s, r) = {}
  <1>1. ch[s][r] = <<>> /\ hand[s] = {} /\ wire[Other(s)] = <<>> /\ ReadChOf(s, r) = <<>>
      BY Sides DEF Init, ReadChOf
  <1>2. Ordered(r, <<>>, {}, <<>>, <<>>) /\ Flying(r, <<>>, {}, <<>>, <<>>) = {}
      BY ElemsEmpty DEF Ordered, Flying, Sorted, Ahead, Of
  <1>3. Own(s, r)
      BY <1>1 DEF Own
  <1>4. Near(s, r) = {}
      BY <1>1, ElemsEmpty DEF Near, Of
  <1> QED BY <1>1, <1>2, <1>3, <1>4, OrdNow, FlyNext

LEMMA InitFlow == Init => FInv
  <1> SUFFICES ASSUME Init PROVE FInv
      OBVIOUS
  <1>1. IInv
      BY InitInv
  <1>2. Pipes("cloud") /\ Pipes("edge")
      BY NothingUnderWay, Sides DEF Pipes
  <1>3. ASSUME NEW r \in Req PROVE Flow(r)
    <2>1. Fly("cloud", r) = {} /\ Fly("edge", r) = {} /\ Near("edge", r) = {}
        BY NothingUnderWay, Sides
    <2>2. /\ serve[r] = "idle" /\ request[r] = "off" /\ r \notin left
          /\ \A s \in Side : /\ reader[s][r] = "off" /\ writer[s][r] = "off"
                             /\ conns[s] = {} /\ said[s][r] = 0 /\ heard[s][r] = <<>>
          /\ stop = {} /\ readCh[r] = <<>> /\ open["edge"] = {} /\ r \in open["cloud"]
        BY Sides DEF Init
    <2>3. InRange("cloud", r) /\ InRange("edge", r) /\ Complete("cloud", r)
      <3>1. /\ \A s \in Side : Len(heard[s][r]) = 0 /\ said[s][r] = 0
            /\ Other("cloud") \in Side /\ Other("edge") \in Side
          BY <2>2, Sides
      <3>2. Within({}, 0, 0) /\ Whole({}, 0, 0)
          BY DEF Within, Whole
      <3> QED BY <2>1, <3>1, <3>2, Sides DEF InRange, Complete
    <2>4. Control(r)
        BY <2>2, Sides DEF Control, Young
    <2>5. ToCloud(r)
        BY <2>1, <2>2, <2>3, Sides, OverOf DEF ToCloud, HasType, Bare, Young
    <2>6. ToEdge(r)
        BY <2>1, <2>2, Sides DEF ToEdge, HasType, Bare, Young
    <2> QED BY <2>3, <2>4, <2>5, <2>6 DEF Flow
  <1> QED BY <1>1, <1>2, <1>3 DEF FInv

LEMMA NextFlow == ASSUME FInv, Next PROVE Pipes("cloud")' /\ Pipes("edge")' /\ \A x \in Req : Flow(x)'
  <1> DEFINE Good == Pipes("cloud")' /\ Pipes("edge")' /\ \A x \in Req : Flow(x)'
  <1>1. ASSUME NEW s \in Side, RecvMsg(s) PROVE Good
      BY <1>1, RecvMsgFlow
  <1>2. ASSUME NEW s \in Side, Send2Conn(s) PROVE Good
      BY <1>2, Send2ConnFlow
  <1>3. ASSUME NEW r \in Req, Leave(r) PROVE Good
      BY <1>3, LeaveFlow
  <1>4. ASSUME NEW r \in Req, Cloud(r) PROVE Good
      BY <1>4, ConfirmFlow, ServerHttpRecvFlow, ServerHttpLeaveFlow DEF Cloud
  <1>5. ASSUME NEW r \in Req, Edge(r) PROVE Good
      BY <1>5, ReplyFlow, RegisterFlow, AwaitConfirmFlow, SwitchProtocolsFlow,
         ClientHttpClosedFlow, ClientHttpSendFlow, StopReaderFlow DEF Edge
  <1>6. ASSUME NEW r \in Req, ReadBody(r) PROVE Good
      BY <1>6, ReadBodyFlow
  <1>7. ASSUME NEW s \in Side, NEW r \in Req, NetRead(s, r) PROVE Good
      BY <1>7, NetReadFlow
  <1>8. ASSUME NEW s \in Side, NEW r \in Req, NetWrite(s, r) PROVE Good
      BY <1>8, NetWriteFlow
  <1>9. ASSUME NEW r \in Req, ServeHTTP(r) PROVE Good
      BY <1>9, ServeHTTPFlow
  <1>10. ASSUME NEW r \in Req, Dial(r) PROVE Good
      BY <1>10, DialFlow
  <1> HIDE DEF Good
  <1> SUFFICES Good BY DEF Good
  <1> QED BY <1>1, <1>2, <1>3, <1>4, <1>5, <1>6, <1>7, <1>8, <1>9, <1>10 DEF Next

LEMMA StutterFlow ==
    ASSUME FInv, UNCHANGED vars
    PROVE  Pipes("cloud")' /\ Pipes("edge")' /\ \A x \in Req : Flow(x)'
  <1>1. UNCHANGED <<serve, request, reader, writer, conns, ch, wire, hand, stop, readCh, ends>>
      BY DEF vars, procs, links
  <1>2. /\ Pipes("cloud") /\ Pipes("edge") /\ \A x \in Req : Flow(x) /\ Same(x)
      BY <1>1 DEF FInv, Same, ends
  <1>3. /\ Pipes("cloud")' /\ Pipes("edge")'
        /\ \A x \in Req : /\ Fly("cloud", x)' = Fly("cloud", x) /\ Fly("edge", x)' = Fly("edge", x)
                          /\ Near("edge", x)' = Near("edge", x)
      BY <1>1, <1>2, Sides, Idle
  <1> QED BY <1>2, <1>3, Untouched

LEMMA FlowInductive == Spec => []FInv
  <1>1. FInv /\ [Next]_vars => FInv'
    <2> SUFFICES ASSUME FInv, [Next]_vars PROVE FInv'
        OBVIOUS
    <2>1. IInv'
        BY NextInv, StutterInv DEF FInv
    <2>2. Pipes("cloud")' /\ Pipes("edge")' /\ \A x \in Req : Flow(x)'
        BY NextFlow, StutterFlow
    <2> QED BY <2>1, <2>2 DEF FInv
  <1> QED BY InitFlow, <1>1, PTL DEF Spec
-----------------------------------------------------------------------------
(* TunnelHttps implements HttpsRelay: a step of the abstract relay for     *)
(* each of the two things that show at its ends, or none.                  *)
RelayStep == [Relay!Next]_(Relay!vars)

LEMMA RelayStutters ==
    ASSUME said' = said, heard' = heard, left' = left, Over' = Over
    PROVE  RelayStep
  BY DEF RelayStep, Relay!vars

LEMMA RelaySays ==
    ASSUME NEW s \in Side, NEW r \in Req, s = "edge" => r \notin Over \/ r \in left,
           said' = [said EXCEPT ![s][r] = @ + 1], heard' = heard, left' = left, Over' = Over
    PROVE  RelayStep
  <1>1. Relay!Say(s, r)
      BY DEF Relay!Say
  <1> QED BY <1>1 DEF RelayStep, Relay!Next, Relay!Side, Side

LEMMA RelayHears ==
    ASSUME NEW s \in Side, NEW r \in Req, s = "cloud" => r \notin Over, s = "edge" => r \in Upgrade,
           heard' = [heard EXCEPT ![s][r] = Append(@, Len(@) + 1)],
           Len(heard[s][r]) < said[Other(s)][r], said' = said, left' = left, Over' = Over
    PROVE  RelayStep
  <1>1. Relay!Hear(s, r)
      BY DEF Relay!Hear, Relay!Passed, Relay!Other, Other
  <1> QED BY <1>1 DEF RelayStep, Relay!Next, Relay!Side, Side

LEMMA RelayEnds ==
    ASSUME TypeOK, NEW r \in Req, r \notin Over, Over' = Over \cup {r},
           said' = said, left' = left,
           \/ heard' = heard
           \/ /\ heard' = [heard EXCEPT !["cloud"][r] = Append(@, Len(@) + 1)]
              /\ Len(heard["cloud"][r]) < said["edge"][r],
           r \in left \/ Len(heard'["cloud"][r]) = said["edge"][r]
    PROVE  RelayStep
  <1>1. Relay!Passed("cloud", r) \/ UNCHANGED heard
      BY DEF Relay!Passed, Relay!Other
  <1>2. Relay!End(r)
      BY <1>1 DEF Relay!End
  <1> QED BY <1>2 DEF RelayStep, Relay!Next

(* Whose goroutines stay where they are does not end.                      *)
LEMMA OverStays ==
    ASSUME serve' = serve, writer' = writer PROVE Over' = Over
  BY DEF Over

LEMMA NextPiece ==
    ASSUME TypeOK, NEW s \in Side, NEW r \in Req, NEW m, m.data # 0,
           Fly(s, r) = Fly(s, r)' \cup {m}, Ahead({m}, Fly(s, r)'), InRange(s, r), Complete(s, r)
    PROVE  m.data = Len(heard[s][r]) + 1 /\ Len(heard[s][r]) < said[Other(s)][r]
  <1>1. PICK h \in Nat, n \in Nat : h = Len(heard[s][r]) /\ n = said[Other(s)][r]
      BY Sides, Parts DEF HeardOK, SaidOK
  <1>2. PICK F, G : F = Fly(s, r) /\ G = Fly(s, r)' /\ F = G \cup {m} /\ Ahead({m}, G)
      OBVIOUS
  <1>3. F \subseteq Msg
      BY <1>2, PipeTypes
  <1>4. Within(F, h, n) /\ Whole(F, h, n)
      BY <1>1, <1>2 DEF InRange, Complete
  <1>5. m.data = h + 1 /\ h < n
      BY <1>2, <1>3, <1>4, HearOne
  <1> QED BY <1>1, <1>5

(* The first message in the channel of a conn, of which nothing is missing. *)
LEMMA Foremost ==
    ASSUME FInv, NEW s \in Side, NEW r \in Req, Take(s, r), hand' = hand, wire' = wire,
           readCh' = readCh, Complete(s, r), NEW m, m = Head(ch[s][r])
    PROVE  /\ m \in Msg /\ m \in Fly(s, r)
           /\ m.data # 0 => /\ m.data = Len(heard[s][r]) + 1
                            /\ Len(heard[s][r]) < said[Other(s)][r]
           /\ m.type = "CLOSED" => said[Other(s)][r] = IF m.data = 0 THEN Len(heard[s][r])
                                                       ELSE Len(heard[s][r]) + 1
  <1>1. TypeOK /\ Pipes(s) /\ InRange(s, r)
      BY Here DEF Side
  <1>2. m \in Msg /\ Fly(s, r) = Fly(s, r)' \cup {m} /\ Ahead({m}, Fly(s, r)')
      BY <1>1, Sides, TakeStep
  <1>3. m.data # 0 => m.data = Len(heard[s][r]) + 1 /\ Len(heard[s][r]) < said[Other(s)][r]
      BY <1>1, <1>2, NextPiece
  <1>4. m.type = "CLOSED" => said[Other(s)][r] = IF m.data = 0 THEN Len(heard[s][r])
                                                 ELSE Len(heard[s][r]) + 1
      BY <1>1, <1>2, Last
  <1> QED BY <1>2, <1>3, <1>4

LEMMA ConfirmRelays ==
    ASSUME FInv, NEW r \in Req, Confirm(r)
    PROVE  RelayStep
  <1>1. TypeOK /\ serve[r] = "wait" /\ writer["cloud"][r] = "off"
      BY Here, Sides, Parts DEF Confirm, Known, Hijacked, WriterOK
  <1>2. said' = said /\ heard' = heard /\ left' = left
      BY DEF Confirm, ends
  <1>3. \A x \in Req : /\ serve'[x] = "done" <=> serve[x] = "done"
                       /\ writer'["cloud"][x] = "done" <=> writer["cloud"][x] = "done"
    <2>1. CASE r \in Upgrade
        BY <1>1, <2>1, Parts, Sides DEF Confirm, ServeOK, WriterOK
    <2>2. CASE r \notin Upgrade
        BY <1>1, <2>2, Parts, Sides DEF Confirm, ServeOK, WriterOK
    <2> QED BY <2>1, <2>2
  <1>4. Over' = Over
      BY <1>3 DEF Over
  <1> QED BY <1>2, <1>4, RelayStutters

LEMMA ServerHttpRecvRelays ==
    ASSUME FInv, NEW r \in Req, ServerHttpRecv(r)
    PROVE  RelayStep
  <1>1. /\ TypeOK /\ serve[r] = "http" /\ writer["cloud"][r] = "off" /\ r \notin Over
        /\ Other("cloud") = "edge"
    <2>1. TypeOK /\ serve[r] = "http" /\ writer["cloud"][r] = "off"
        BY Here, Sides, Parts DEF ServerHttpRecv, Known, Hijacked, WriterOK
    <2> QED BY <2>1, OverOf DEF Other
  <1>2. /\ said' = said /\ left' = left /\ writer' = writer /\ Take("cloud", r)
        /\ hand' = hand /\ wire' = wire /\ readCh' = readCh
      BY DEF ServerHttpRecv
  <1>3. PICK h : h = Head(ch["cloud"][r])
      OBVIOUS
  <1>4. /\ Hears("cloud", r, IF r \in left THEN 0 ELSE h.data)
        /\ serve' = IF h.type = "CLOSED" THEN [serve EXCEPT ![r] = "done"] ELSE serve
      BY <1>3 DEF ServerHttpRecv, Writes
  <1>5. Over' = IF h.type = "CLOSED" THEN Over \cup {r} ELSE Over
      BY <1>1, <1>2, <1>4, Parts DEF Over, ServeOK
  <1>6. CASE r \in left
    <2>1. heard' = heard
        BY <1>1, <1>4, <1>6, Parts, Sides DEF Hears, HeardOK
    <2>2. CASE h.type = "CLOSED"
        BY <1>1, <1>2, <1>5, <1>6, <2>1, <2>2, RelayEnds
    <2>3. CASE h.type # "CLOSED"
        BY <1>2, <1>5, <2>1, <2>3, RelayStutters
    <2> QED BY <2>2, <2>3
  <1>7. CASE r \notin left
    <2>1. Complete("cloud", r)
        BY <1>1, <1>7, Here DEF Flow, ToCloud
    <2>2. /\ h.data # 0 => /\ h.data = Len(heard["cloud"][r]) + 1
                           /\ Len(heard["cloud"][r]) < said["edge"][r]
          /\ h.type = "CLOSED" => said["edge"][r] = IF h.data = 0 THEN Len(heard["cloud"][r])
                                                    ELSE Len(heard["cloud"][r]) + 1
        BY <1>1, <1>2, <1>3, <2>1, Sides, Foremost
    <2>3. CASE h.data = 0
      <3>1. heard' = heard
          BY <1>1, <1>4, <2>3, Parts, Sides DEF Hears, HeardOK
      <3>2. CASE h.type = "CLOSED"
          BY <1>1, <1>2, <1>5, <2>2, <2>3, <3>1, <3>2, RelayEnds
      <3>3. CASE h.type # "CLOSED"
          BY <1>2, <1>5, <3>1, <3>3, RelayStutters
      <3> QED BY <3>2, <3>3
    <2>4. CASE h.data # 0
      <3>1. heard' = [heard EXCEPT !["cloud"][r] = Append(@, Len(@) + 1)]
          BY <1>4, <1>7, <2>2, <2>4 DEF Hears
      <3>2. Len(heard'["cloud"][r]) = Len(heard["cloud"][r]) + 1
        <4>1. heard \in [Side -> [Req -> Seq(Nat)]]
            BY <1>1, Parts DEF HeardOK
        <4> QED BY <3>1, <4>1, Sides
      <3>3. CASE h.type = "CLOSED"
          BY <1>1, <1>2, <1>5, <2>2, <2>4, <3>1, <3>2, <3>3, RelayEnds
      <3>4. CASE h.type # "CLOSED"
          BY <1>1, <1>2, <1>5, <2>2, <2>4, <3>1, <3>4, Sides, RelayHears
      <3> QED BY <3>3, <3>4
    <2> QED BY <2>3, <2>4
  <1> QED BY <1>6, <1>7

LEMMA ServerHttpLeaveRelays ==
    ASSUME FInv, NEW r \in Req, ServerHttpLeave(r)
    PROVE  RelayStep
  <1>1. TypeOK /\ r \notin Over
    <2>1. TypeOK /\ serve[r] = "http" /\ writer["cloud"][r] = "off"
        BY Here, Sides, Parts DEF ServerHttpLeave, Known, Hijacked, WriterOK
    <2> QED BY <2>1, OverOf
  <1>2. /\ said' = said /\ heard' = heard /\ left' = left /\ writer' = writer
        /\ r \in left /\ serve' = [serve EXCEPT ![r] = "done"]
      BY DEF ServerHttpLeave, ends
  <1>3. Over' = Over \cup {r}
      BY <1>1, <1>2, Parts DEF Over, ServeOK
  <1> QED BY <1>1, <1>2, <1>3, RelayEnds

(* A goroutine that said the next piece, or nothing.                       *)
LEMMA SpeakerRelays ==
    ASSUME FInv, NEW s \in Side, NEW r \in Req, NEW d, d = 0 \/ d = said[s][r] + 1,
           Says(s, r, d), s = "edge" => ~(r \in Over \ left),
           heard' = heard, left' = left, Over' = Over
    PROVE  RelayStep
  <1>1. TypeOK /\ said \in [Side -> [Req -> Nat]]
      BY Here, Parts DEF SaidOK
  <1>2. CASE d = 0
    <2>1. said' = said
        BY <1>1, <1>2 DEF Says
    <2> QED BY <2>1, RelayStutters
  <1>3. CASE d # 0
    <2>1. said' = [said EXCEPT ![s][r] = @ + 1]
        BY <1>1, <1>3 DEF Says
    <2> QED BY <2>1, RelaySays
  <1> QED BY <1>2, <1>3

(* As long as the component may speak, its request is not over for a       *)
(* client that stayed.                                                     *)
LEMMA ComponentHeard ==
    ASSUME FInv, NEW r \in Req, reader["edge"][r] \in {"off", "run"}
    PROVE  ~(r \in Over \ left)
  BY Here DEF Flow, ToCloud

LEMMA ServeHTTPRelays ==
    ASSUME FInv, NEW r \in Req, ServeHTTP(r)
    PROVE  RelayStep
  <1>1. TypeOK /\ r \notin Over
    <2>1. TypeOK /\ serve[r] = "idle" /\ writer["cloud"][r] = "off"
        BY Here, Sides, Parts DEF ServeHTTP, Known, Hijacked, WriterOK
    <2> QED BY <2>1, OverOf
  <1>2. heard' = heard /\ left' = left /\ writer' = writer
      BY DEF ServeHTTP
  <1>3. CASE serve' = [serve EXCEPT ![r] = "wait"] /\ \E d \in Body(r) : Says("cloud", r, d)
    <2>1. Over' = Over
        BY <1>1, <1>2, <1>3, Parts DEF Over, ServeOK
    <2>2. \E d : (d = 0 \/ d = said["cloud"][r] + 1) /\ Says("cloud", r, d)
        BY <1>1, <1>3, BodyTyped
    <2> QED BY <1>2, <2>1, <2>2, Sides, SpeakerRelays
  <1>4. CASE r \in left /\ serve' = [serve EXCEPT ![r] = "done"] /\ said' = said
    <2>1. Over' = Over \cup {r}
        BY <1>1, <1>2, <1>4, Parts DEF Over, ServeOK
    <2> QED BY <1>1, <1>2, <1>4, <2>1, RelayEnds
  <1> QED BY <1>3, <1>4 DEF ServeHTTP

LEMMA SwitchProtocolsRelays ==
    ASSUME FInv, NEW r \in Req, SwitchProtocols(r)
    PROVE  RelayStep
  <1>1. TypeOK /\ reader["edge"][r] = "off"
      BY Here DEF SwitchProtocols, Flow, Control
  <1>2. heard' = heard /\ left' = left /\ serve' = serve /\ writer'["cloud"] = writer["cloud"]
      BY <1>1, Parts, Sides DEF SwitchProtocols, WriterOK
  <1>3. Over' = Over
      BY <1>2 DEF Over
  <1>4. \E d : d = said["edge"][r] + 1 /\ Says("edge", r, d)
      BY DEF SwitchProtocols, Unread
  <1> QED BY <1>1, <1>2, <1>3, <1>4, Sides, ComponentHeard, SpeakerRelays

LEMMA ReadBodyRelays ==
    ASSUME FInv, NEW r \in Req, ReadBody(r)
    PROVE  RelayStep
  <1>1. /\ heard' = heard /\ left' = left /\ serve' = serve /\ writer' = writer
        /\ reader["edge"][r] = "run"
      BY DEF ReadBody
  <1>2. \E d : (d = 0 \/ d = said["edge"][r] + 1) /\ Says("edge", r, d)
      BY DEF ReadBody, Unread
  <1> QED BY <1>1, <1>2, Sides, OverStays, ComponentHeard, SpeakerRelays

LEMMA NetReadRelays ==
    ASSUME FInv, NEW s \in Side, NEW r \in Req, NetRead(s, r)
    PROVE  RelayStep
  <1>1. /\ heard' = heard /\ left' = left /\ serve' = serve /\ writer' = writer
        /\ reader[s][r] = "run"
      BY DEF NetRead
  <1>2. \E d : (d = 0 \/ d = said[s][r] + 1) /\ Says(s, r, d)
      BY DEF NetRead, Unread
  <1>3. s = "edge" => ~(r \in Over \ left)
      BY <1>1, ComponentHeard
  <1> QED BY <1>1, <1>2, <1>3, OverStays, SpeakerRelays

LEMMA NetWriteRelays ==
    ASSUME FInv, NEW s \in Side, NEW r \in Req, NetWrite(s, r)
    PROVE  RelayStep
  <1>1. /\ TypeOK /\ Other("cloud") = "edge"
        /\ serve' = serve /\ said' = said /\ left' = left /\ hand' = hand /\ wire' = wire
        /\ readCh' = readCh
      BY Here DEF NetWrite, Other
  <1>2. /\ s = "cloud" => r \notin Over /\ (r \in left <=> r \notin open["cloud"])
        /\ s = "edge" => r \in Upgrade
        /\ r \in open[s] => Complete(s, r)
      BY Writing
  <1>3. UNCHANGED writer => Over' = Over
      BY <1>1, OverStays
  <1>4. WriterDone(s, r) => Over' = IF s = "cloud" THEN Over \cup {r} ELSE Over
    <2>1. CASE s = "cloud"
        BY <1>1, <2>1, Parts, Sides DEF WriterDone, Over, WriterOK
    <2>2. CASE s = "edge"
        BY <1>1, <2>2, Parts, Sides DEF WriterDone, Over, WriterOK
    <2> QED BY <2>1, <2>2 DEF Side
  <1>5. ASSUME Take(s, r), NEW m \in Msg, m = Head(ch[s][r]),
               Hears(s, r, IF m.data # 0 /\ r \notin open[s] THEN 0 ELSE m.data),
               \/ UNCHANGED <<writer, conns, open>>
               \/ (m.type = "CLOSED" \/ (m.data # 0 /\ r \notin open[s])) /\ WriterDone(s, r)
        PROVE  RelayStep
    <2>1. r \in open[s] =>
             /\ m.data # 0 => /\ m.data = Len(heard[s][r]) + 1
                              /\ Len(heard[s][r]) < said[Other(s)][r]
             /\ m.type = "CLOSED" => said[Other(s)][r] = IF m.data = 0 THEN Len(heard[s][r])
                                                         ELSE Len(heard[s][r]) + 1
        BY <1>1, <1>2, <1>5, Foremost
    <2>2. \/ Over' = Over
          \/ /\ s = "cloud" /\ Over' = Over \cup {r}
             /\ m.type = "CLOSED" \/ r \notin open[s]
        BY <1>3, <1>4, <1>5
    <2>3. CASE m.data = 0 \/ r \notin open[s]
      <3>1. heard' = heard
          BY <1>1, <1>5, <2>3, Parts DEF Hears, HeardOK
      <3>2. CASE Over' = Over
          BY <1>1, <3>1, <3>2, RelayStutters
      <3>3. CASE /\ s = "cloud" /\ Over' = Over \cup {r}
                 /\ m.type = "CLOSED" \/ r \notin open[s]
        <4>1. r \in left \/ Len(heard'["cloud"][r]) = said["edge"][r]
            BY <1>1, <1>2, <2>1, <2>3, <3>1, <3>3
        <4> QED BY <1>1, <1>2, <3>1, <3>3, <4>1, RelayEnds
      <3> QED BY <2>2, <3>2, <3>3
    <2>4. CASE m.data # 0 /\ r \in open[s]
      <3>1. heard' = [heard EXCEPT ![s][r] = Append(@, Len(@) + 1)]
          BY <1>5, <2>1, <2>4 DEF Hears
      <3>2. Len(heard'[s][r]) = Len(heard[s][r]) + 1
        <4>1. heard \in [Side -> [Req -> Seq(Nat)]]
            BY <1>1, Parts DEF HeardOK
        <4> QED BY <3>1, <4>1
      <3>3. CASE Over' = Over
          BY <1>1, <1>2, <2>1, <2>4, <3>1, <3>3, RelayHears
      <3>4. CASE /\ s = "cloud" /\ Over' = Over \cup {r}
                 /\ m.type = "CLOSED" \/ r \notin open[s]
        <4>1. /\ Len(heard["cloud"][r]) < said["edge"][r]
              /\ Len(heard'["cloud"][r]) = said["edge"][r]
            BY <1>1, <2>1, <2>4, <3>2, <3>4
        <4> QED BY <1>1, <1>2, <3>1, <3>4, <4>1, RelayEnds
      <3> QED BY <2>2, <3>3, <3>4
    <2> QED BY <2>3, <2>4
  <1>6. CASE <<s, r>> \in stop /\ WriterDone(s, r) /\ UNCHANGED <<ch, heard>>
    <2>1. CASE s = "cloud"
      <3>1. r \in left
          BY <1>2, <1>6, <2>1, Here DEF Flow, Control
      <3> QED BY <1>1, <1>2, <1>4, <1>6, <2>1, <3>1, RelayEnds
    <2>2. CASE s = "edge"
        BY <1>1, <1>4, <1>6, <2>2, RelayStutters
    <2> QED BY <2>1, <2>2 DEF Side
  <1> QED BY <1>1, <1>5, <1>6, NetWriteCases

LEMMA InitRelays == Init => Relay!Init
  BY DEF Init, Relay!Init, Relay!Side, Side, Over

LEMMA NextRelays == ASSUME FInv, [Next]_vars PROVE RelayStep
  <1>1. ASSUME NEW s \in Side, RecvMsg(s) PROVE RelayStep
      BY <1>1, OverStays, RelayStutters DEF RecvMsg, ends
  <1>2. ASSUME NEW s \in Side, Send2Conn(s) PROVE RelayStep
      BY <1>2, OverStays, RelayStutters DEF Send2Conn, procs, ends
  <1>3. ASSUME NEW r \in Req, Leave(r) PROVE RelayStep
    <2>1. Over' = Over
        BY <1>3, OverStays DEF Leave, procs
    <2>2. Relay!Leave(r)
        BY <1>3, <2>1 DEF Leave, Relay!Leave
    <2> QED BY <2>2 DEF RelayStep, Relay!Next
  <1>4. ASSUME NEW r \in Req, Cloud(r) PROVE RelayStep
      BY <1>4, ConfirmRelays, ServerHttpRecvRelays, ServerHttpLeaveRelays
        DEF Cloud
  <1>5. ASSUME NEW r \in Req, Edge(r) PROVE RelayStep
    <2>1. CASE SwitchProtocols(r)
        BY <2>1, SwitchProtocolsRelays
    <2>2. CASE ~SwitchProtocols(r)
      <3>1. serve' = serve /\ writer' = writer /\ said' = said /\ heard' = heard /\ left' = left
          BY <1>5, <2>2 DEF Edge, Reply, Register, AwaitConfirm, ClientHttpClosed,
             ClientHttpSend, StopReader, ends
      <3> QED BY <3>1, OverStays, RelayStutters
    <2> QED BY <2>1, <2>2
  <1>6. ASSUME NEW r \in Req, ReadBody(r) PROVE RelayStep
      BY <1>6, ReadBodyRelays
  <1>7. ASSUME NEW s \in Side, NEW r \in Req, NetRead(s, r) PROVE RelayStep
      BY <1>7, NetReadRelays
  <1>8. ASSUME NEW s \in Side, NEW r \in Req, NetWrite(s, r) PROVE RelayStep
      BY <1>8, NetWriteRelays
  <1>9. ASSUME UNCHANGED vars PROVE RelayStep
      BY <1>9, OverStays, RelayStutters DEF vars, procs, ends
  <1>10. ASSUME NEW r \in Req, ServeHTTP(r) PROVE RelayStep
      BY <1>10, ServeHTTPRelays
  <1>11. ASSUME NEW r \in Req, Dial(r) PROVE RelayStep
      BY <1>11, OverStays, RelayStutters DEF Dial
  <1> QED BY <1>1, <1>2, <1>3, <1>4, <1>5, <1>6, <1>7, <1>8, <1>9, <1>10, <1>11 DEF Next

(* The tunnel implements the abstract relay: a client hears what the        *)
(* component said, and the component of an upgraded request what the client *)
(* said, piece by piece and in order, and a request is over only when a     *)
(* client that stayed has heard everything, for any requests, capacities of *)
(* the channels and numbers of pieces, in every interleaving of the         *)
(* goroutines of both processes.                                           *)
THEOREM TunnelImplementsRelay == Spec => RelaysFaithfully
  <1>1. FInv /\ [Next]_vars => [Relay!Next]_(Relay!vars)
      BY NextRelays DEF RelayStep
  <1> QED BY InitRelays, FlowInductive, <1>1, PTL DEF Spec, RelaysFaithfully, Relay!Spec
=============================================================================
