------------------------- MODULE TunnelStreamProofs -------------------------
(* Proofs about TunnelStream, for any requests, streams and faults: however   *)
(* the clean-up of old streams meets new ones, a disturbance costs at most    *)
(* two reconnections.                                                       *)
EXTENDS TunnelStream, FiniteSetTheorems, TLAPS

USE StreamAssumption

Has(q, m) == \E i \in DOMAIN q : q[i] = m

(* The types the argument needs.                                           *)
NetOK ==
    /\ net \in {"up", "down"} /\ faults \in Nat
    /\ used \in 0 .. MaxStreams /\ cur \in {0, used}
    /\ over \subseteq 1 .. used /\ closed \subseteq 1 .. used
LoopsOK ==
    /\ send \in [Side -> [Stream -> {"off", "run", "stuck", "done"}]]
    /\ recv \in [Side -> [Stream -> {"off", "run", "stuck", "done"}]]
    /\ remove \in [Side -> [Stream -> {"off", "look", "delete", "done"}]]
    /\ wire \in [Side -> [Stream -> Seq(Msg)]]
    /\ restart \in [Stream -> BOOLEAN] /\ count \in [Stream -> {0, 1}] /\ sent \subseteq Stream
NodesOK == reg \in [Side -> Obj \cup {0}] /\ ch \in [Side -> [Obj -> Seq(Msg)]]

(* What is true of a stream in every state.                                *)
Sends(s, k) == send[s][k] \in {"run", "stuck"}
StreamOK(k) ==
    /\ \A s \in Side : ~Sends(s, k) => ch[s][k] = <<>>
    /\ send["cloud"][k] # "stuck" /\ recv["edge"][k] # "stuck"
    /\ send["cloud"][k] = "off" => remove["cloud"][k] = "off"
    /\ send["cloud"][k] = "off" <=> recv["cloud"][k] = "off"
    /\ k > used => /\ send["cloud"][k] = "off" /\ send["edge"][k] = "off"
                   /\ remove["edge"][k] = "off" /\ ~restart[k] /\ count[k] = 0
                   /\ k \notin sent
    /\ k <= used => send["edge"][k] # "off" /\ recv["edge"][k] # "off"
    /\ k <= used /\ k # cur => k \in closed \cup over
    /\ k <= used /\ net = "down" => k \in over
    /\ k \in closed \ over => ~Sends("edge", k)
    /\ recv["edge"][k] = "done" => k \in over
    /\ Sends("edge", k) => remove["edge"][k] = "off"
    /\ send["edge"][k] = "stuck" => recv["cloud"][k] = "stuck"
    /\ count[k] = 1 /\ send["edge"][k] = "run" => Has(ch["edge"][k], "closed")

Basic == NetOK /\ LoopsOK /\ NodesOK /\ \A k \in Stream : StreamOK(k)

(* An end of a stream that is under way, and may take the newest stream with *)
(* it: by the time the next one is opened it is through, unless that was too *)
(* soon.                                                                    *)
Pending(k) ==
    \/ remove["cloud"][k] \in {"look", "delete"}
    \/ remove["cloud"][k] = "off" /\ "done" \in {send["cloud"][k], recv["cloud"][k]}
    \/ remove["cloud"][k] = "done" /\ recv["cloud"][k] = "run"
    \/ k \in over /\ recv["edge"][k] = "run"
    \/ k \in closed \ over /\ recv["cloud"][k] = "run"
    \/ k < used /\ k \notin over /\ send["cloud"][k] = "off"

(* Debris: the streams whose end has not begun in the cloud, though it has no  *)
(* reason to wait for.                                                      *)
Alive(k) ==
    /\ send["cloud"][k] = "run" /\ recv["cloud"][k] \in {"run", "stuck"}
    /\ remove["cloud"][k] = "off"
Unaccepted(k) == send["cloud"][k] = "off" /\ k \notin over
Debris ==
    {k \in 1 .. used : IF k < used THEN Alive(k) \/ Unaccepted(k)
                       ELSE Alive(k) /\ (k \in over \/ recv["cloud"][k] = "stuck")}

(* Nothing but debris can end the newest stream.                            *)
BeatUnderway ==
    \/ Has(ch["edge"][used], "beat") \/ Has(wire["edge"][used], "beat")
    \/ Has(ch["cloud"][used], "beat") \/ Has(wire["cloud"][used], "beat")
EdgeServes ==
    /\ cur = used /\ used # 0 /\ used \notin over \cup closed
    /\ send["edge"][used] = "run" /\ recv["edge"][used] = "run"
    /\ ~Has(ch["edge"][used], "closed")
CloudServes ==
    \/ send["cloud"][used] = "off"
    \/ /\ send["cloud"][used] = "run" /\ recv["cloud"][used] = "run"
       /\ remove["cloud"][used] = "off" /\ reg["cloud"] = used
       /\ ~Has(ch["cloud"][used], "closed")
Beating == count[used] = 0 /\ (restart[used] \/ used \in sent => BeatUnderway)
Calm == EdgeServes /\ CloudServes /\ Beating /\ \A k \in Stream : ~Pending(k)

Costs == IF Calm THEN 0 ELSE 1
Paid == used + Cardinality(Debris) + Costs <= 1 + 2 * faults

IInv == Basic /\ Paid
-----------------------------------------------------------------------------
(* Counting.                                                               *)
LEMMA DebrisFinite == ASSUME NetOK PROVE IsFiniteSet(Debris) /\ Cardinality(Debris) \in Nat
  <1>1. Debris \subseteq 1 .. used  BY DEF Debris
  <1>2. IsFiniteSet(1 .. used)  BY FS_Interval DEF NetOK
  <1>3. QED  BY <1>1, <1>2, FS_Subset, FS_CardinalityType

\* Of finite sets: fewer elements, or at most one more.
LEMMA Fewer ==
    ASSUME NEW S, IsFiniteSet(S), NEW T, T \subseteq S
    PROVE  /\ IsFiniteSet(T) /\ Cardinality(T) \in Nat /\ Cardinality(T) <= Cardinality(S)
           /\ T # S => Cardinality(T) < Cardinality(S)
  BY FS_Subset, FS_CardinalityType

LEMMA OneMore ==
    ASSUME NEW S, IsFiniteSet(S), NEW T, NEW x, T \subseteq S \cup {x}
    PROVE  Cardinality(T) <= Cardinality(S) + 1
  <1>0. Cardinality(S) \in Nat  BY FS_CardinalityType
  <1>1. IsFiniteSet(S \cup {x}) /\ Cardinality(S \cup {x}) <= Cardinality(S) + 1
    <2>1. IsFiniteSet(S \cup {x})
          /\ Cardinality(S \cup {x}) = IF x \in S THEN Cardinality(S) ELSE Cardinality(S) + 1
      BY FS_AddElement
    <2>2. QED  BY <1>0, <2>1
  <1>2. Cardinality(T) \in Nat /\ Cardinality(T) <= Cardinality(S \cup {x})  BY <1>1, Fewer
  <1>3. Cardinality(S) \in Nat /\ Cardinality(S \cup {x}) \in Nat  BY <1>1, FS_CardinalityType
  <1>4. QED  BY <1>1, <1>2, <1>3

LEMMA NoDearer ==
    ASSUME NEW u \in Nat, NEW d \in Nat, NEW e \in Nat, NEW f \in Nat,
           NEW c \in {0, 1}, NEW c2 \in {0, 1},
           u + d + c <= 1 + 2 * f, e <= d, c = 1 \/ c2 = 0 \/ e < d
    PROVE  u + e + c2 <= 1 + 2 * f
  <1>1. CASE c = 1  BY <1>1
  <1>2. CASE c = 0 /\ c2 = 0  BY <1>2
  <1>3. CASE c = 0 /\ e < d  BY <1>3
  <1>4. QED  BY <1>1, <1>2, <1>3

\* What a step does to the account: nothing is lost without a reason; a new stream
\* that nothing pending can end; a disturbance.
Keeps ==
    /\ used' = used /\ faults' = faults /\ Debris' \subseteq Debris
    /\ Calm => Calm' \/ Debris' # Debris
Renews ==
    /\ used' = used + 1 /\ faults' = faults /\ Debris' \subseteq Debris
    /\ ~Calm /\ Calm'
Disturbs ==
    /\ faults' = faults + 1 /\ Debris' \subseteq Debris \cup {used}
    /\ used' = used \/ (used' = used + 1 /\ ~Calm)

LEMMA Account ==
    ASSUME IInv, NetOK', Keeps \/ Renews \/ Disturbs
    PROVE  Paid'
  <1> DEFINE d == Cardinality(Debris)
             e == Cardinality(Debris')
  <1>1. IsFiniteSet(Debris) /\ d \in Nat  BY DebrisFinite DEF IInv, Basic
  <1>2. IsFiniteSet(Debris') /\ e \in Nat
    <2>1. Debris' \subseteq 1 .. used'  BY DEF Debris
    <2>2. IsFiniteSet(1 .. used')  BY FS_Interval DEF NetOK
    <2>3. QED  BY <2>1, <2>2, FS_Subset, FS_CardinalityType
  <1>3. used \in Nat /\ faults \in Nat  BY DEF IInv, Basic, NetOK
  <1>4. used + d + Costs <= 1 + 2 * faults  BY DEF IInv, Paid
  <1>5. Costs \in {0, 1} /\ Costs' \in {0, 1} /\ (~Calm => Costs = 1) /\ (Calm' => Costs' = 0)
    BY DEF Costs
  <1> SUFFICES used' + e + Costs' <= 1 + 2 * faults'  BY DEF Paid
  <1>6. CASE Keeps
    <2>1. e <= d /\ (Debris' # Debris => e < d)  BY <1>1, <1>6, Fewer DEF Keeps
    <2>2. used' = used /\ faults' = faults  BY <1>6 DEF Keeps
    <2> HIDE DEF d, e
    <2>3. Costs = 1 \/ Costs' = 0 \/ e < d  BY <1>5, <1>6, <2>1 DEF Keeps
    <2>4. d \in Nat /\ e \in Nat /\ used \in Nat /\ faults \in Nat /\ Costs \in {0, 1} /\ Costs' \in {0, 1}
      BY <1>1, <1>2, <1>3, <1>5
    <2>5. used + e + Costs' <= 1 + 2 * faults  BY <1>4, <2>1, <2>3, <2>4, NoDearer
    <2>6. QED  BY <2>2, <2>5
  <1>7. CASE Renews
    <2>1. e <= d  BY <1>1, <1>7, Fewer DEF Renews
    <2>2. used' = used + 1 /\ faults' = faults /\ Costs = 1 /\ Costs' = 0  BY <1>5, <1>7 DEF Renews
    <2> HIDE DEF d, e
    <2>3. QED  BY <1>1, <1>2, <1>3, <1>4, <2>1, <2>2
  <1>8. CASE Disturbs
    <2>1. e <= d + 1  BY <1>1, <1>8, OneMore DEF Disturbs
    <2>2. /\ faults' = faults + 1
          /\ used' = used \/ (used' = used + 1 /\ Costs = 1)  BY <1>5, <1>8 DEF Disturbs
    <2> HIDE DEF d, e
    <2>3. QED  BY <1>1, <1>2, <1>3, <1>4, <1>5, <2>1, <2>2
  <1>9. QED  BY <1>6, <1>7, <1>8
-----------------------------------------------------------------------------
(* Channels.                                                               *)
LEMMA Messages == {"beat", "closed"} \cup Req \subseteq Msg /\ \A r \in Req : r # "beat" /\ r # "closed"
  BY DEF Msg, Conn

LEMMA HasAppend ==
    ASSUME NEW q \in Seq(Msg), NEW m \in Msg, NEW x
    PROVE  /\ Append(q, m) \in Seq(Msg) /\ Append(q, m) # <<>>
           /\ Has(Append(q, m), x) <=> Has(q, x) \/ x = m
  <1>1. Len(q) \in Nat /\ DOMAIN q = 1 .. Len(q)  OBVIOUS
  <1>2. Append(q, m) \in Seq(Msg) /\ DOMAIN Append(q, m) = 1 .. Len(q) + 1  OBVIOUS
  <1>3. \A i \in 1 .. Len(q) : Append(q, m)[i] = q[i]  OBVIOUS
  <1>4. Append(q, m)[Len(q) + 1] = m  OBVIOUS
  <1>5. QED  BY <1>1, <1>2, <1>3, <1>4 DEF Has

LEMMA HasTail ==
    ASSUME NEW q \in Seq(Msg), q # <<>>, NEW x
    PROVE  /\ Head(q) \in Msg /\ Tail(q) \in Seq(Msg) /\ Has(q, Head(q))
           /\ Has(q, x) <=> x = Head(q) \/ Has(Tail(q), x)
  <1>1. Len(q) \in Nat \ {0} /\ DOMAIN q = 1 .. Len(q)  OBVIOUS
  <1>2. Tail(q) \in Seq(Msg) /\ DOMAIN Tail(q) = 1 .. Len(q) - 1 /\ Head(q) = q[1] /\ q[1] \in Msg
    OBVIOUS
  <1>3. \A i \in 1 .. Len(q) - 1 : Tail(q)[i] = q[i + 1]  OBVIOUS
  <1>4. ASSUME Has(q, x) PROVE x = Head(q) \/ Has(Tail(q), x)
    <2>1. PICK i \in 1 .. Len(q) : q[i] = x  BY <1>1, <1>4 DEF Has
    <2>2. CASE i = 1  BY <1>2, <2>1, <2>2
    <2>3. CASE i # 1
      <3>1. i - 1 \in 1 .. Len(q) - 1 /\ Tail(q)[i - 1] = q[i]  BY <1>1, <1>3, <2>3
      <3>2. QED  BY <1>2, <2>1, <3>1 DEF Has
    <2>4. QED  BY <2>2, <2>3
  <1>5. ASSUME Has(Tail(q), x) PROVE Has(q, x)
    <2>1. PICK i \in 1 .. Len(q) - 1 : Tail(q)[i] = x  BY <1>2, <1>5 DEF Has
    <2>2. i + 1 \in 1 .. Len(q) /\ q[i + 1] = x  BY <1>1, <1>3, <2>1
    <2>3. QED  BY <1>1, <2>2 DEF Has
  <1>6. Has(q, Head(q))
    <2>1. 1 \in DOMAIN q  BY <1>1
    <2>2. QED  BY <1>2, <2>1 DEF Has
  <1>7. QED  BY <1>2, <1>4, <1>5, <1>6

LEMMA HasEmpty == \A x : ~Has(<<>>, x)
  BY DEF Has
\* Send2Node appends to the channel of one object, if somebody takes from it.
LEMMA Sent ==
    ASSUME LoopsOK, NodesOK, NEW s \in Side, NEW o, NEW m \in Msg, Send2Node(s, o, m)
    PROVE  /\ ch' \in [Side -> [Obj -> Seq(Msg)]]
           /\ \A t \in Side, p \in Stream :
                /\ ~Sends(t, p) => ch'[t][p] = ch[t][p]
                /\ \A x : Has(ch'[t][p], x) <=>
                            Has(ch[t][p], x) \/ (x = m /\ t = s /\ p = o /\ Sends(s, p))
  <1>1. Stream \subseteq Obj  BY DEF Obj
  <1>2. CASE Drained(s, o)
    <2>1. o \in Stream /\ o \in Obj /\ Sends(s, o)  BY <1>1, <1>2 DEF Drained, Sends
    <2>2. ch[s][o] \in Seq(Msg)  BY <2>1 DEF NodesOK
    <2>3. ch' = [ch EXCEPT ![s][o] = Append(@, m)]  BY <1>2 DEF Send2Node
    <2>4. Append(ch[s][o], m) \in Seq(Msg)  BY <2>2, HasAppend
    <2>5. ch' \in [Side -> [Obj -> Seq(Msg)]]  BY <2>1, <2>3, <2>4 DEF NodesOK
    <2>6. ch'[s][o] = Append(ch[s][o], m)  BY <2>1, <2>3 DEF NodesOK
    <2>7. \A t \in Side, p \in Stream : (t # s \/ p # o) => ch'[t][p] = ch[t][p]
      BY <1>1, <2>1, <2>3 DEF NodesOK
    <2>8. \A x : Has(ch'[s][o], x) <=> Has(ch[s][o], x) \/ x = m  BY <2>2, <2>6, HasAppend
    <2>9. QED  BY <2>1, <2>5, <2>7, <2>8
  <1>3. CASE ~Drained(s, o)
    <2>1. ch' = ch  BY <1>3 DEF Send2Node
    <2>2. \A p \in Stream : p = o => ~Sends(s, p)  BY <1>3 DEF Drained, Sends
    <2>3. QED  BY <2>1, <2>2 DEF NodesOK
  <1>4. QED  BY <1>2, <1>3
-----------------------------------------------------------------------------
(* What each step does to Basic and to the account.                         *)
LEMMA Elsewhere ==
    ASSUME Basic, UNCHANGED <<netVars, loopVars, reg, ch>>
    PROVE  Basic' /\ Keeps
  <1>1. Basic'
    BY DEF Basic, NetOK, LoopsOK, NodesOK, StreamOK, Sends, netVars, loopVars
  <1>2. Debris' = Debris  BY DEF Debris, Alive, Unaccepted, netVars, loopVars
  <1>3. Calm' = Calm
    BY DEF Calm, EdgeServes, CloudServes, Beating, BeatUnderway, Pending, netVars, loopVars
  <1>4. QED  BY <1>1, <1>2, <1>3 DEF Keeps, netVars

LEMMA ElsewhereSteps ==
    ASSUME Basic,
           \/ TcpClientLeaves \/ TcpRead
           \/ \E r \in Req : FindNode(r) \/ Bind(r) \/ Hear(r)
           \/ \E c \in Tcp : TcpWrite(c)
    PROVE  Basic' /\ Keeps
  <1>1. UNCHANGED <<netVars, loopVars, reg, ch>>
    BY DEF TcpClientLeaves, TcpRead, FindNode, Bind, Hear, TcpWrite, nodeVars
  <1>2. QED  BY <1>1, Elsewhere

LEMMA NetUpStep ==
    ASSUME Basic, NetUp
    PROVE  Basic' /\ Keeps
  <1>1. UNCHANGED <<faults, used, cur, over, closed, loopVars, reg, ch>> /\ net' = "up"
    BY DEF NetUp, nodeVars
  <1>2. Basic'
    BY <1>1 DEF Basic, NetOK, LoopsOK, NodesOK, StreamOK, Sends, loopVars
  <1>3. Debris' = Debris  BY <1>1 DEF Debris, Alive, Unaccepted, loopVars
  <1>4. Calm' = Calm
    BY <1>1 DEF Calm, EdgeServes, CloudServes, Beating, BeatUnderway, Pending, loopVars
  <1>5. QED  BY <1>1, <1>2, <1>3, <1>4 DEF Keeps

\* A stream that stream.Send has given up is closed, or broken.
LEMMA SendReturnsStep ==
    ASSUME Basic, SendReturns
    PROVE  Basic' /\ Keeps
  <1>1. /\ UNCHANGED <<net, faults, used, over, loopVars, reg, ch>>
        /\ closed' = closed \cup {cur} /\ cur' = 0 /\ cur = used /\ cur \in Stream
    BY DEF SendReturns, nodeVars, Basic, NetOK, Stream
  <1>2. NetOK' /\ LoopsOK' /\ NodesOK'
    <2>1. cur \in 1 .. used  BY <1>1 DEF Basic, NetOK, Stream
    <2>2. NetOK'  BY <1>1, <2>1 DEF Basic, NetOK
    <2>3. QED  BY <1>1, <2>2 DEF Basic, LoopsOK, NodesOK, loopVars
  <1>3. cur \in over \/ ~Sends("edge", cur)  BY <1>1 DEF SendReturns, Basic, StreamOK
  <1>4. ASSUME NEW j \in Stream PROVE StreamOK(j)'
    <2>1. StreamOK(j)  BY DEF Basic
    <2>2. QED  BY <1>1, <1>3, <2>1 DEF StreamOK, Sends, loopVars
  <1>5. Debris' = Debris  BY <1>1 DEF Debris, Alive, Unaccepted, loopVars
  <1>6. ~Calm
    BY <1>1, <1>3 DEF Calm, EdgeServes, SendReturns, Sends, Basic, StreamOK
  <1>7. QED  BY <1>1, <1>2, <1>4, <1>5, <1>6 DEF Keeps, Basic
LEMMA HandlerReturnsStep ==
    ASSUME Basic, NEW k \in Stream, HandlerReturns(k)
    PROVE  Basic' /\ Keeps
  <1>1. /\ UNCHANGED <<netVars, send, recv, wire, restart, count, sent, reg, ch>>
        /\ remove["cloud"][k] = "off" /\ "done" \in {send["cloud"][k], recv["cloud"][k]}
        /\ remove' = [remove EXCEPT !["cloud"][k] = "look"]
    BY DEF HandlerReturns, nodeVars
  <1>2. /\ remove' \in [Side -> [Stream -> {"off", "look", "delete", "done"}]]
        /\ remove'["edge"] = remove["edge"]
        /\ \A j \in Stream : remove'["cloud"][j] = IF j = k THEN "look" ELSE remove["cloud"][j]
    BY <1>1 DEF Basic, LoopsOK, Side
  <1>3. NetOK' /\ LoopsOK' /\ NodesOK'
    BY <1>1, <1>2 DEF Basic, NetOK, LoopsOK, NodesOK, netVars
  <1>4. ASSUME NEW j \in Stream PROVE StreamOK(j)'
    <2>1. StreamOK(j)  BY DEF Basic
    <2>2. QED  BY <1>1, <1>2, <2>1 DEF StreamOK, Sends, netVars
  <1>5. \A j \in Stream : Alive(j)' => Alive(j)  BY <1>1, <1>2 DEF Alive
  <1>6. Debris' \subseteq Debris
    <2>1. 1 .. used \subseteq Stream  BY DEF Basic, NetOK, Stream
    <2>2. QED  BY <1>1, <1>5, <2>1 DEF Debris, Unaccepted, netVars
  <1>7. ~Calm  BY <1>1 DEF Calm, Pending
  <1>8. QED  BY <1>1, <1>3, <1>4, <1>6, <1>7 DEF Keeps, Basic, netVars

\* The steps of RemoveNode: those of an old edge stream end no stream.
LEMMA RemoveStep ==
    ASSUME Basic, NEW s \in Side, NEW k \in Stream, LookUp(s, k) \/ Delete(s, k)
    PROVE  Basic' /\ Keeps
  <1>1. /\ UNCHANGED <<net, faults, used, cur, closed, send, recv, wire, restart, count, sent, ch>>
        /\ remove[s][k] \in {"look", "delete"}
        /\ \E x \in {"delete", "done"} : remove' = [remove EXCEPT ![s][k] = x]
        /\ over' = over \/ (s = "cloud" /\ over' = over \cup {k})
        /\ reg' = reg \/ reg' = [reg EXCEPT ![s] = 0]
    BY DEF LookUp, Delete, nodeVars
  <1>2. /\ remove' \in [Side -> [Stream -> {"off", "look", "delete", "done"}]]
        /\ \A t \in Side, j \in Stream :
             IF t = s /\ j = k THEN remove'[t][j] \in {"delete", "done"}
                               ELSE remove'[t][j] = remove[t][j]
    BY <1>1 DEF Basic, LoopsOK
  <1>3. k \in 1 .. used
    BY <1>1 DEF Basic, StreamOK, NetOK, Stream, Side
  <1>4. NetOK'  BY <1>1, <1>3 DEF Basic, NetOK
  <1>5. LoopsOK' /\ NodesOK'
    BY <1>1, <1>2 DEF Basic, LoopsOK, NodesOK
  <1>6. ASSUME NEW j \in Stream PROVE StreamOK(j)'
    <2>1. StreamOK(j)  BY DEF Basic
    <2>2. "edge" \in Side /\ "cloud" \in Side  BY DEF Side
    <2>3. QED  BY <1>1, <1>2, <1>3, <2>1, <2>2 DEF StreamOK, Sends
  <1>7. 1 .. used \subseteq Stream  BY DEF Basic, NetOK, Stream
  <1>8. s = "cloud" => ~Alive(k) /\ ~Unaccepted(k)
    BY <1>1 DEF Alive, Unaccepted, Basic, StreamOK
  <1>9. \A j \in Stream : /\ Alive(j)' <=> Alive(j)
                          /\ Unaccepted(j)' => Unaccepted(j)
    BY <1>1, <1>2, <1>8 DEF Alive, Unaccepted, Side
  <1>10. Debris' \subseteq Debris
    BY <1>1, <1>7, <1>8, <1>9 DEF Debris
  <1>11. CASE s = "cloud"
    <2>1. ~Calm  BY <1>1, <1>11 DEF Calm, Pending
    <2>2. QED  BY <1>1, <1>4, <1>5, <1>6, <1>10, <2>1 DEF Keeps, Basic
  <1>12. CASE s = "edge"
    <2>1. over' = over /\ reg'["cloud"] = reg["cloud"]
      BY <1>1, <1>12 DEF Basic, NodesOK, Side
    <2>2. \A j \in Stream : remove'["cloud"][j] = remove["cloud"][j]
      BY <1>2, <1>12 DEF Side
    <2>3. Calm => used \in Stream  BY <1>7 DEF Calm, EdgeServes, Basic, NetOK, Stream
    <2>4. Calm => Calm'
      BY <1>1, <2>1, <2>2, <2>3 DEF Calm, EdgeServes, CloudServes, Beating, BeatUnderway, Pending
    <2>5. QED  BY <1>1, <1>4, <1>5, <1>6, <1>10, <2>4 DEF Keeps, Basic
  <1>13. QED  BY <1>11, <1>12 DEF Side

\* The newest stream is let in; an older one that would be is debris.
LEMMA AcceptStep ==
    ASSUME Basic, NEW k \in Stream, Accept(k)
    PROVE  Basic' /\ Keeps
  <1>1. /\ UNCHANGED <<netVars, remove, wire, restart, count, sent, ch>>
        /\ k <= used /\ k \notin over /\ send["cloud"][k] = "off"
        /\ send' = [send EXCEPT !["cloud"][k] = "run"]
        /\ recv' = [recv EXCEPT !["cloud"][k] = "run"]
        /\ reg' = [reg EXCEPT !["cloud"] = k]
    BY DEF Accept, Starts, AddNode
  <1>2. /\ send' \in [Side -> [Stream -> {"off", "run", "stuck", "done"}]]
        /\ recv' \in [Side -> [Stream -> {"off", "run", "stuck", "done"}]]
        /\ send'["edge"] = send["edge"] /\ recv'["edge"] = recv["edge"]
        /\ \A j \in Stream : /\ send'["cloud"][j] = IF j = k THEN "run" ELSE send["cloud"][j]
                             /\ recv'["cloud"][j] = IF j = k THEN "run" ELSE recv["cloud"][j]
    BY <1>1 DEF Basic, LoopsOK, Side
  <1>3. reg' \in [Side -> Obj \cup {0}] /\ reg'["cloud"] = k
    BY <1>1 DEF Basic, NodesOK, Side, Obj
  <1>4. NetOK' /\ LoopsOK' /\ NodesOK'
    BY <1>1, <1>2, <1>3 DEF Basic, NetOK, LoopsOK, NodesOK, netVars
  <1>5. "edge" \in Side /\ "cloud" \in Side /\ k \in 1 .. used
    BY <1>1 DEF Side, Stream, Basic, NetOK
  <1>6. StreamOK(k)  BY DEF Basic
  <1>7. ch["cloud"][k] = <<>> /\ remove["cloud"][k] = "off" /\ recv["cloud"][k] = "off"
    BY <1>1, <1>5, <1>6 DEF StreamOK, Sends
  <1>8. ASSUME NEW j \in Stream PROVE StreamOK(j)'
    <2>1. StreamOK(j)  BY DEF Basic
    <2>2. \A t \in Side : ~Sends(t, j)' => ~Sends(t, j)  BY <1>1, <1>2 DEF Sends, Side
    <2>3. send["edge"][k] # "stuck"  BY <1>6, <1>7 DEF StreamOK
    <2>4. QED  BY <1>1, <1>2, <1>5, <1>7, <2>1, <2>2, <2>3 DEF StreamOK, Sends, netVars
  <1>9. 1 .. used \subseteq Stream  BY DEF Basic, NetOK, Stream
  <1>10. Debris' \subseteq Debris
    <2>1. ASSUME NEW j \in Debris' PROVE j \in Debris
      <3>1. j \in 1 .. used /\ j \in Stream  BY <1>1, <1>9 DEF Debris, netVars
      <3>2. CASE j = k
        BY <1>1, <1>2, <1>5, <3>1, <3>2 DEF Debris, Alive, Unaccepted, netVars
      <3>3. CASE j # k
        BY <1>1, <1>2, <3>1, <3>3 DEF Debris, Alive, Unaccepted, netVars
      <3>4. QED  BY <3>2, <3>3
    <2>2. QED  BY <2>1
  <1>11. ASSUME Calm PROVE Calm'
    <2>1. k = used
      <3>1. ~Pending(k)  BY <1>11 DEF Calm
      <3>2. ~(k < used)  BY <1>1, <3>1 DEF Pending
      <3>3. QED  BY <1>1, <1>5, <3>2 DEF Basic, NetOK
    <2>2. EdgeServes'  BY <1>1, <1>2, <1>11 DEF Calm, EdgeServes, netVars
    <2>3. CloudServes'
      <3>1. send'["cloud"][used'] = "run" /\ recv'["cloud"][used'] = "run"
        BY <1>1, <1>2, <2>1 DEF netVars
      <3>2. QED  BY <1>1, <1>3, <1>7, <2>1, <3>1, HasEmpty DEF CloudServes, netVars
    <2>4. Beating'  BY <1>1, <1>11 DEF Calm, Beating, BeatUnderway, netVars
    <2>5. ASSUME NEW j \in Stream PROVE ~Pending(j)'
      <3>1. ~Pending(j)  BY <1>11 DEF Calm
      <3>2. k \notin closed  BY <1>11, <2>1 DEF Calm, EdgeServes
      <3>3. QED  BY <1>1, <1>2, <1>7, <3>1, <3>2 DEF Pending, netVars
    <2>6. QED  BY <2>2, <2>3, <2>4, <2>5 DEF Calm
  <1>12. QED  BY <1>1, <1>4, <1>8, <1>10, <1>11 DEF Keeps, Basic, netVars
\* The disturbances: each adds at most the newest stream to the debris.
LEMMA NetDownStep ==
    ASSUME Basic, NetDown
    PROVE  Basic' /\ Disturbs
  <1>1. /\ UNCHANGED <<used, cur, closed, loopVars, reg, ch>>
        /\ net' = "down" /\ faults' = faults + 1 /\ over' = over \cup 1 .. used
    BY DEF NetDown, nodeVars
  <1>2. NetOK' /\ LoopsOK' /\ NodesOK'
    BY <1>1 DEF Basic, NetOK, LoopsOK, NodesOK, loopVars
  <1>3. ASSUME NEW j \in Stream PROVE StreamOK(j)'
    <2>1. StreamOK(j)  BY DEF Basic
    <2>2. j <= used => j \in 1 .. used  BY DEF Stream, Basic, NetOK
    <2>3. QED  BY <1>1, <2>1, <2>2 DEF StreamOK, Sends, loopVars
  <1>4. Debris' \subseteq Debris \cup {used}
    <2>1. ASSUME NEW j \in Debris', j # used PROVE j \in Debris
      BY <1>1, <2>1 DEF Debris, Alive, Unaccepted, loopVars, Basic, NetOK
    <2>2. QED  BY <2>1
  <1>5. QED  BY <1>1, <1>2, <1>3, <1>4 DEF Disturbs, Basic

LEMMA ClogStep ==
    ASSUME Basic, NEW k \in Stream, Clog(k)
    PROVE  Basic' /\ Disturbs
  <1>1. /\ UNCHANGED <<net, used, cur, over, closed, send, remove, wire, restart, count, sent, reg, ch>>
        /\ recv["cloud"][k] = "run" /\ faults' = faults + 1
        /\ recv' = [recv EXCEPT !["cloud"][k] = "stuck"]
    BY DEF Clog, nodeVars
  <1>2. /\ recv' \in [Side -> [Stream -> {"off", "run", "stuck", "done"}]]
        /\ recv'["edge"] = recv["edge"]
        /\ \A j \in Stream : recv'["cloud"][j] = IF j = k THEN "stuck" ELSE recv["cloud"][j]
    BY <1>1 DEF Basic, LoopsOK, Side
  <1>3. NetOK' /\ LoopsOK' /\ NodesOK'
    BY <1>1, <1>2 DEF Basic, NetOK, LoopsOK, NodesOK
  <1>4. ASSUME NEW j \in Stream PROVE StreamOK(j)'
    <2>1. StreamOK(j)  BY DEF Basic
    <2>2. QED  BY <1>1, <1>2, <2>1 DEF StreamOK, Sends
  <1>5. Debris' \subseteq Debris \cup {used}
    <2>1. 1 .. used \subseteq Stream  BY DEF Basic, NetOK, Stream
    <2>2. \A j \in Stream : Alive(j)' => Alive(j)  BY <1>1, <1>2 DEF Alive
    <2>3. ASSUME NEW j \in Debris', j # used PROVE j \in Debris
      BY <1>1, <2>1, <2>2, <2>3 DEF Debris, Unaccepted, Basic, NetOK
    <2>4. QED  BY <2>3
  <1>6. QED  BY <1>1, <1>3, <1>4, <1>5 DEF Disturbs, Basic

LEMMA TcpAcceptStep ==
    ASSUME Basic, NEW c \in Tcp, TcpAccept(c)
    PROVE  Basic' /\ Disturbs
  <1>1. /\ UNCHANGED <<net, used, cur, over, closed, loopVars, ch>>
        /\ faults' = faults + 1 /\ reg' = [reg EXCEPT !["cloud"] = TcpObj]
    BY DEF TcpAccept, AddNode
  <1>2. NetOK' /\ LoopsOK' /\ NodesOK'
    <2>1. TcpObj \in Obj  BY DEF Obj
    <2>2. reg' \in [Side -> Obj \cup {0}]  BY <1>1, <2>1 DEF Basic, NodesOK
    <2>3. QED  BY <1>1, <2>2 DEF Basic, NetOK, LoopsOK, NodesOK, loopVars
  <1>3. ASSUME NEW j \in Stream PROVE StreamOK(j)'
    <2>1. StreamOK(j)  BY DEF Basic
    <2>2. QED  BY <1>1, <2>1 DEF StreamOK, Sends, loopVars
  <1>4. Debris' = Debris  BY <1>1 DEF Debris, Alive, Unaccepted, loopVars
  <1>5. QED  BY <1>1, <1>2, <1>3, <1>4 DEF Disturbs, Basic

\* A new stream, with what was pending before it settled or not.
LEMMA OpensStep ==
    ASSUME Basic, Opens
    PROVE  /\ Basic' \/ faults' \notin Nat
           /\ used' = used + 1 /\ ~Calm
           /\ Debris' \subseteq Debris \cup {used}
           /\ ~Settling => Debris' \subseteq Debris /\ Calm'
  <1> DEFINE n == used + 1
  <1>1. /\ UNCHANGED <<net, over, closed, remove, wire, restart, count, sent, ch>>
        /\ cur = 0 /\ net = "up" /\ used < MaxStreams
        /\ used' = n /\ cur' = n
        /\ send' = [send EXCEPT !["edge"][n] = "run"]
        /\ recv' = [recv EXCEPT !["edge"][n] = "run"]
        /\ reg' = [reg EXCEPT !["edge"] = n]
    BY DEF Opens, Starts, AddNode
  <1>2. n \in Stream /\ n \in Obj /\ used \in Nat /\ 1 .. used \subseteq Stream /\ n \notin over \cup closed
    BY <1>1, StreamAssumption DEF Basic, NetOK, Stream, Obj
  <1> HIDE DEF n
  <1>3. /\ send' \in [Side -> [Stream -> {"off", "run", "stuck", "done"}]]
        /\ recv' \in [Side -> [Stream -> {"off", "run", "stuck", "done"}]]
        /\ send'["cloud"] = send["cloud"] /\ recv'["cloud"] = recv["cloud"]
        /\ \A j \in Stream : /\ send'["edge"][j] = IF j = n THEN "run" ELSE send["edge"][j]
                             /\ recv'["edge"][j] = IF j = n THEN "run" ELSE recv["edge"][j]
    BY <1>1, <1>2 DEF Basic, LoopsOK, Side
  <1>4. reg' \in [Side -> Obj \cup {0}] /\ reg'["cloud"] = reg["cloud"]
    BY <1>1, <1>2 DEF Basic, NodesOK, Side
  <1>5. StreamOK(n) /\ n > used  BY <1>2 DEF Basic, n
  <1>6. /\ send["cloud"][n] = "off" /\ recv["cloud"][n] = "off" /\ remove["cloud"][n] = "off"
        /\ remove["edge"][n] = "off" /\ ~restart[n] /\ count[n] = 0 /\ n \notin sent
        /\ send["edge"][n] = "off" /\ ch["edge"][n] = <<>> /\ ch["cloud"][n] = <<>>
    BY <1>2, <1>5 DEF StreamOK, Sends, Side
  <1>7. Basic' \/ faults' \notin Nat
    <2>1. SUFFICES ASSUME faults' \in Nat PROVE Basic'  OBVIOUS
    <2>2. NetOK'
      BY <1>1, <1>2, <2>1 DEF Basic, NetOK, n
    <2>3. LoopsOK' /\ NodesOK'  BY <1>1, <1>3, <1>4 DEF Basic, LoopsOK, NodesOK
    <2>4. ASSUME NEW j \in Stream PROVE StreamOK(j)'
      <3>1. StreamOK(j)  BY DEF Basic
      <3>2. j <= n <=> j <= used \/ j = n  BY <1>2 DEF Stream, n
      <3>3. j > n <=> j > used /\ j # n  BY <1>2 DEF Stream, n
      <3>4. \A t \in Side : ~Sends(t, j)' => ~Sends(t, j)
        BY <1>3, <1>6 DEF Sends, Side
      <3>5. j <= used => j \in closed \cup over  BY <1>1, <1>2, <3>1 DEF StreamOK, Stream
      <3>6. CASE j = n
        BY <1>1, <1>2, <1>3, <1>5, <1>6, <3>1, <3>3, <3>4, <3>6 DEF StreamOK, Sends
      <3>7. CASE j # n
        BY <1>1, <1>2, <1>3, <3>1, <3>2, <3>3, <3>4, <3>5, <3>7 DEF StreamOK, Sends, Side
      <3>8. QED  BY <3>6, <3>7
    <2>5. QED  BY <2>2, <2>3, <2>4 DEF Basic
  <1>8. ~Calm  BY <1>1 DEF Calm, EdgeServes
  <1>9. \A j \in Stream : (Alive(j)' <=> Alive(j)) /\ (Unaccepted(j)' <=> Unaccepted(j))
    BY <1>1, <1>3 DEF Alive, Unaccepted
  <1>10. ~Alive(n)  BY <1>6 DEF Alive
  <1>11. 1 .. n = 1 .. used \cup {n}  BY <1>2 DEF n
  <1>12. Debris' \subseteq Debris \cup {used}
    <2>1. ASSUME NEW j \in Debris', j # used PROVE j \in Debris
      <3>1. j \in 1 .. n /\ j \in Stream  BY <1>1, <1>2, <1>11 DEF Debris
      <3>2. j # n  BY <1>1, <1>2, <1>9, <1>10 DEF Debris, n
      <3>3. j < used /\ j < n  BY <1>2, <1>11, <2>1, <3>1, <3>2 DEF n
      <3>4. Alive(j) \/ Unaccepted(j)  BY <1>1, <1>9, <3>1, <3>3 DEF Debris
      <3>5. QED  BY <1>11, <3>1, <3>2, <3>3, <3>4 DEF Debris
    <2>2. QED  BY <2>1
  <1>13. ASSUME ~Settling PROVE Debris' \subseteq Debris /\ Calm'
    <2>1. Debris' \subseteq Debris
      <3>1. SUFFICES ASSUME used \in Debris' PROVE used \in Debris  BY <1>12
      <3>2. used \in 1 .. used /\ used \in Stream
        <4>1. used \in 1 .. n  BY <1>1, <3>1 DEF Debris
        <4>2. QED  BY <1>2, <4>1
      <3>3. ~Unaccepted(used)  BY <1>2, <1>13, <3>2 DEF Settling, Unaccepted
      <3>4. Alive(used)  BY <1>1, <1>2, <1>9, <3>1, <3>2, <3>3 DEF Debris, n
      <3>5. used \in closed \cup over  BY <1>1, <3>2 DEF Basic, StreamOK
      <3>6. used \in over \/ recv["cloud"][used] = "stuck"
        BY <1>13, <3>2, <3>4, <3>5 DEF Settling, Alive
      <3>7. QED  BY <3>2, <3>4, <3>6 DEF Debris
    <2>2. EdgeServes'
      BY <1>1, <1>2, <1>3, <1>6, HasEmpty DEF EdgeServes, n
    <2>3. CloudServes'  BY <1>1, <1>3, <1>6 DEF CloudServes
    <2>4. Beating'  BY <1>1, <1>6 DEF Beating
    <2>5. ASSUME NEW j \in Stream PROVE ~Pending(j)'
      <3>1. CASE j = n
        BY <1>1, <1>2, <1>3, <1>6, <3>1 DEF Pending, n
      <3>2. CASE j # n
        <4>1. j < n => j <= used  BY <1>2 DEF Stream, n
        <4>2. QED  BY <1>1, <1>3, <1>13, <3>2, <4>1 DEF Pending, Settling, Side
      <3>3. QED  BY <3>1, <3>2
    <2>6. QED  BY <2>1, <2>2, <2>3, <2>4, <2>5 DEF Calm
  <1>14. QED  BY <1>1, <1>7, <1>8, <1>12, <1>13 DEF n

LEMMA OpenStep ==
    ASSUME Basic, Open
    PROVE  Basic' /\ Renews
  <1>1. Opens /\ ~Settling /\ faults' = faults  BY DEF Open
  <1>2. faults' \in Nat  BY <1>1 DEF Basic, NetOK
  <1>3. QED  BY <1>1, <1>2, OpensStep DEF Renews

LEMMA OpenTooSoonStep ==
    ASSUME Basic, OpenTooSoon
    PROVE  Basic' /\ Disturbs
  <1>1. Opens /\ faults' = faults + 1  BY DEF OpenTooSoon
  <1>2. faults' \in Nat  BY <1>1 DEF Basic, NetOK
  <1>3. QED  BY <1>1, <1>2, OpensStep DEF Disturbs
\* A SendMsg ends because it is told to or because the stream is broken: never the
\* newest one in a calm state.
LEMMA SendEndsStep ==
    ASSUME Basic, NEW s \in Side, NEW k \in Stream, Sends(s, k), SendEnds(s, k),
           Has(ch[s][k], "closed") \/ Broken(s, k),
           UNCHANGED <<netVars, recv, wire, reg>>
    PROVE  Basic' /\ Keeps
  <1>1. Stream \subseteq Obj /\ "cloud" \in Side /\ "edge" \in Side  BY DEF Obj, Side
  <1>2. /\ send' \in [Side -> [Stream -> {"off", "run", "stuck", "done"}]]
        /\ \A t \in Side, j \in Stream :
             send'[t][j] = IF t = s /\ j = k THEN "done" ELSE send[t][j]
    BY DEF SendEnds, Basic, LoopsOK
  <1>3. <<>> \in Seq(Msg)  OBVIOUS
  <1>4. /\ ch' \in [Side -> [Obj -> Seq(Msg)]]
        /\ \A t \in Side, j \in Stream :
             ch'[t][j] = IF t = s /\ j = k THEN <<>> ELSE ch[t][j]
    BY <1>1, <1>3 DEF SendEnds, Basic, NodesOK
  <1>5. /\ restart' \in [Stream -> BOOLEAN] /\ count' \in [Stream -> {0, 1}]
        /\ sent' \subseteq sent /\ sent \subseteq Stream
        /\ \A j \in Stream : /\ restart'[j] = IF s = "edge" /\ j = k THEN FALSE ELSE restart[j]
                             /\ count'[j] = IF s = "edge" /\ j = k THEN 0 ELSE count[j]
    BY DEF SendEnds, Basic, LoopsOK
  <1>6. /\ remove' \in [Side -> [Stream -> {"off", "look", "delete", "done"}]]
        /\ \A t \in Side, j \in Stream :
             remove'[t][j] = IF s = "edge" /\ t = s /\ j = k THEN "look" ELSE remove[t][j]
    BY DEF SendEnds, Basic, LoopsOK
  <1>7. NetOK' /\ LoopsOK' /\ NodesOK'
    BY <1>2, <1>4, <1>5, <1>6 DEF Basic, NetOK, LoopsOK, NodesOK, netVars
  <1>8. ASSUME NEW j \in Stream PROVE StreamOK(j)'
    <2>1. StreamOK(j) /\ StreamOK(k)  BY DEF Basic
    <2>2. send[s][k] # "off"  BY DEF Sends
    <2>3. \A t \in Side : ~Sends(t, j)' => ch'[t][j] = <<>>
      BY <1>2, <1>4, <2>1 DEF Sends, StreamOK
    <2>4. Sends("edge", j)' => Sends("edge", j) /\ ~(s = "edge" /\ j = k)
      BY <1>1, <1>2 DEF Sends
    <2>5. CASE s = "cloud"
      BY <1>1, <1>2, <1>4, <1>5, <1>6, <2>1, <2>2, <2>3, <2>4, <2>5 DEF StreamOK, netVars
    <2>6. CASE s = "edge" /\ j = k
      BY <1>1, <1>2, <1>4, <1>5, <1>6, <2>1, <2>2, <2>3, <2>4, <2>6 DEF StreamOK, netVars
    <2>7. CASE s = "edge" /\ j # k
      BY <1>1, <1>2, <1>4, <1>5, <1>6, <2>1, <2>3, <2>4, <2>7 DEF StreamOK, netVars
    <2>8. QED  BY <2>5, <2>6, <2>7 DEF Side
  <1>9. 1 .. used \subseteq Stream  BY DEF Basic, NetOK, Stream
  <1>10. \A j \in Stream : (Alive(j)' => Alive(j)) /\ (Unaccepted(j)' => Unaccepted(j))
    BY <1>1, <1>2, <1>6 DEF Alive, Unaccepted, netVars
  <1>11. Debris' \subseteq Debris  BY <1>9, <1>10 DEF Debris, netVars
  <1>12. ASSUME Calm PROVE Calm' \/ Debris' # Debris
    <2>1. used \in Stream /\ used \in 1 .. used
      BY <1>12 DEF Calm, EdgeServes, Basic, NetOK, Stream
    <2>2. k # used
      BY <1>12 DEF Calm, EdgeServes, CloudServes, Sends, Broken, Side
    <2>3. /\ \A t \in Side : send'[t][used] = send[t][used] /\ ch'[t][used] = ch[t][used]
          /\ restart'[used] = restart[used] /\ count'[used] = count[used]
          /\ (used \in sent' => used \in sent)
          /\ remove'["cloud"][used] = remove["cloud"][used]
      BY <1>1, <1>2, <1>4, <1>5, <1>6, <2>1, <2>2
    <2>4. EdgeServes' /\ CloudServes' /\ Beating'
      BY <1>1, <1>12, <2>3
      DEF Calm, EdgeServes, CloudServes, Beating, BeatUnderway, netVars
    <2>5. ASSUME NEW j \in Stream, j # k \/ s = "edge" PROVE ~Pending(j)'
      <3>1. ~Pending(j)  BY <1>12 DEF Calm
      <3>2. send'["cloud"][j] = send["cloud"][j] /\ remove'["cloud"][j] = remove["cloud"][j]
        BY <1>1, <1>2, <1>6, <2>5
      <3>3. QED  BY <3>1, <3>2 DEF Pending, netVars
    <2>6. CASE s = "edge"  BY <2>4, <2>5, <2>6 DEF Calm
    <2>7. CASE s = "cloud" /\ remove["cloud"][k] = "off"
      <3>1. ~Pending(k) /\ StreamOK(k)  BY <1>12 DEF Calm, Basic
      <3>2. send["cloud"][k] = "run" /\ recv["cloud"][k] \in {"run", "stuck"}
        BY <1>1, <2>7, <3>1 DEF Pending, StreamOK, Sends, Basic, LoopsOK
      <3>3. Alive(k)  BY <2>7, <3>2 DEF Alive
      <3>4. k \in 1 .. used /\ k < used
        BY <2>1, <2>2, <3>1, <3>2 DEF StreamOK, Stream
      <3>5. k \in Debris  BY <3>3, <3>4 DEF Debris
      <3>6. send'["cloud"][k] = "done"  BY <1>2, <2>7
      <3>7. k \notin Debris'  BY <2>2, <3>6 DEF Debris, Alive, Unaccepted, netVars
      <3>8. QED  BY <3>5, <3>7
    <2>8. CASE s = "cloud" /\ remove["cloud"][k] # "off"
      <3>1. ~Pending(k)  BY <1>12 DEF Calm
      <3>2. remove["cloud"][k] = "done" /\ remove'["cloud"][k] = "done" /\ send'["cloud"][k] = "done"
        BY <1>1, <1>2, <1>6, <2>8, <3>1 DEF Pending, Basic, LoopsOK
      <3>3. ~Pending(k)'  BY <3>1, <3>2 DEF Pending, netVars
      <3>4. QED  BY <2>4, <2>5, <3>3 DEF Calm
    <2>9. QED  BY <2>6, <2>7, <2>8 DEF Side
  <1>13. QED  BY <1>7, <1>8, <1>11, <1>12 DEF Keeps, Basic, netVars

LEMMA SendFailsStep ==
    ASSUME Basic, NEW s \in Side, NEW k \in Stream, SendFails(s, k)
    PROVE  Basic' /\ Keeps
  <1>1. Sends(s, k) /\ Broken(s, k) /\ SendEnds(s, k) /\ UNCHANGED <<netVars, recv, wire, reg>>
    BY DEF SendFails, Sends, Broken
  <1>2. QED  BY <1>1, SendEndsStep

\* A message that leaves the channel of the newest stream is on the wire.
LEMMA PassesOn ==
    ASSUME Basic, NEW s \in Side, NEW k \in Stream,
           send[s][k] = "run", ch[s][k] # <<>>, Head(ch[s][k]) # "closed",
           ch' = [ch EXCEPT ![s][k] = Tail(@)],
           wire' = IF Broken(s, k) \/ recv[Other(s)][k] \in {"done", "stuck"} THEN wire
                   ELSE [wire EXCEPT ![s][k] = Append(@, Head(ch[s][k]))],
           UNCHANGED <<netVars, send, recv, remove, restart, count, sent, reg>>
    PROVE  Basic' /\ Keeps
  <1> DEFINE m == Head(ch[s][k])
  <1>1. Stream \subseteq Obj /\ "cloud" \in Side /\ "edge" \in Side /\ s \in {"cloud", "edge"}
    BY DEF Obj, Side
  <1>2. ch[s][k] \in Seq(Msg) /\ wire[s][k] \in Seq(Msg)
    BY <1>1 DEF Basic, NodesOK, LoopsOK
  <1>3. m \in Msg /\ Tail(ch[s][k]) \in Seq(Msg)
    BY <1>2, HasTail
  <1>4. \A x : Has(ch[s][k], x) <=> x = m \/ Has(Tail(ch[s][k]), x)  BY <1>2, HasTail
  <1> HIDE DEF m
  <1>5. /\ ch' \in [Side -> [Obj -> Seq(Msg)]]
        /\ \A t \in Side, j \in Stream :
             ch'[t][j] = IF t = s /\ j = k THEN Tail(ch[s][k]) ELSE ch[t][j]
    BY <1>1, <1>3 DEF Basic, NodesOK
  <1>6. Append(wire[s][k], m) \in Seq(Msg)  BY <1>2, <1>3, HasAppend
  <1>7. wire' \in [Side -> [Stream -> Seq(Msg)]]
    BY <1>6 DEF Basic, LoopsOK, m
  <1>8. \A t \in Side, j \in Stream : \A x : Has(wire[t][j], x) => Has(wire'[t][j], x)
    <2>1. \A x : Has(Append(wire[s][k], m), x) <=> Has(wire[s][k], x) \/ x = m
      BY <1>2, <1>3, HasAppend
    <2>2. \A t \in Side, j \in Stream :
            wire'[t][j] = wire[t][j]
            \/ (t = s /\ j = k /\ wire'[t][j] = Append(wire[s][k], m))
      BY DEF Basic, LoopsOK, m
    <2>3. QED  BY <2>1, <2>2
  <1>9. NetOK' /\ LoopsOK' /\ NodesOK'
    BY <1>5, <1>7 DEF Basic, NetOK, LoopsOK, NodesOK, netVars
  <1>10. ASSUME NEW j \in Stream PROVE StreamOK(j)'
    <2>1. StreamOK(j)  BY DEF Basic
    <2>2. \A t \in Side : ~Sends(t, j) => ch'[t][j] = ch[t][j]  BY <1>5 DEF Sends
    <2>3. Has(ch["edge"][j], "closed") => Has(ch'["edge"][j], "closed")
      BY <1>1, <1>4, <1>5 DEF m
    <2>4. QED  BY <2>1, <2>2, <2>3 DEF StreamOK, Sends, netVars
  <1>11. Debris' = Debris  BY DEF Debris, Alive, Unaccepted, netVars
  <1>12. ASSUME Calm PROVE Calm'
    <2>1. used \in Stream  BY <1>12 DEF Calm, EdgeServes, Basic, NetOK, Stream
    <2>2. \A t \in Side : \A x : Has(ch'[t][used], x) => Has(ch[t][used], x)
      BY <1>4, <1>5, <2>1
    <2>3. EdgeServes' /\ CloudServes'
      BY <1>1, <1>12, <2>2 DEF Calm, EdgeServes, CloudServes, netVars
    <2>4. BeatUnderway => BeatUnderway'
      <3>1. CASE k = used /\ m = "beat"
        <4>1. ~Broken(s, k)  BY <1>12, <3>1 DEF Calm, EdgeServes, Broken
        <4>2. recv[Other(s)][k] \notin {"done", "stuck"}
          <5>1. CASE s = "cloud"
            BY <1>12, <3>1, <5>1 DEF Calm, EdgeServes, Other
          <5>2. CASE s = "edge"
            <6>1. StreamOK(k)  BY DEF Basic
            <6>2. recv["cloud"][k] \in {"off", "run"}
              BY <1>12, <3>1, <6>1 DEF Calm, CloudServes, StreamOK
            <6>3. QED  BY <5>2, <6>2 DEF Other
          <5>3. QED  BY <1>1, <5>1, <5>2
        <4>3. wire'[s][k] = Append(wire[s][k], m)
          BY <4>1, <4>2 DEF Basic, LoopsOK, m
        <4>4. Has(wire'[s][k], "beat")  BY <1>2, <1>3, <3>1, <4>3, HasAppend
        <4>5. QED  BY <1>1, <3>1, <4>4 DEF BeatUnderway, netVars
      <3>2. CASE ~(k = used /\ m = "beat")
        <4>1. \A t \in Side : Has(ch[t][used], "beat") => Has(ch'[t][used], "beat")
          BY <1>4, <1>5, <2>1, <3>2
        <4>2. QED  BY <1>1, <1>8, <2>1, <4>1 DEF BeatUnderway, netVars
      <3>3. QED  BY <3>1, <3>2
    <2>5. Beating'  BY <1>12, <2>4 DEF Calm, Beating, netVars
    <2>6. \A j \in Stream : ~Pending(j)'  BY <1>12 DEF Calm, Pending, netVars
    <2>7. QED  BY <2>3, <2>5, <2>6 DEF Calm
  <1>13. QED  BY <1>9, <1>10, <1>11, <1>12 DEF Keeps, Basic, netVars
\* A send that waits at a cloud that no longer receives: not the newest one's in a
\* calm state.
LEMMA SendWaits ==
    ASSUME Basic, NEW k \in Stream,
           send["edge"][k] = "run", ch["edge"][k] # <<>>, recv["cloud"][k] = "stuck",
           send' = [send EXCEPT !["edge"][k] = "stuck"],
           ch' = [ch EXCEPT !["edge"][k] = Tail(@)],
           UNCHANGED <<netVars, recv, remove, wire, restart, count, sent, reg>>
    PROVE  Basic' /\ Keeps
  <1>1. Stream \subseteq Obj /\ "cloud" \in Side /\ "edge" \in Side  BY DEF Obj, Side
  <1>2. ch["edge"][k] \in Seq(Msg)  BY <1>1 DEF Basic, NodesOK
  <1>3. Tail(ch["edge"][k]) \in Seq(Msg)  BY <1>2, HasTail
  <1>4. /\ ch' \in [Side -> [Obj -> Seq(Msg)]]
        /\ \A t \in Side, j \in Stream :
             ch'[t][j] = IF t = "edge" /\ j = k THEN Tail(ch["edge"][k]) ELSE ch[t][j]
    BY <1>1, <1>3 DEF Basic, NodesOK
  <1>5. /\ send' \in [Side -> [Stream -> {"off", "run", "stuck", "done"}]]
        /\ \A t \in Side, j \in Stream :
             send'[t][j] = IF t = "edge" /\ j = k THEN "stuck" ELSE send[t][j]
    BY <1>1 DEF Basic, LoopsOK
  <1>6. NetOK' /\ LoopsOK' /\ NodesOK'
    BY <1>4, <1>5 DEF Basic, NetOK, LoopsOK, NodesOK, netVars
  <1>7. ASSUME NEW j \in Stream PROVE StreamOK(j)'
    <2>1. StreamOK(j)  BY DEF Basic
    <2>2. \A t \in Side : /\ Sends(t, j)' <=> Sends(t, j)
                          /\ ~Sends(t, j) => ch'[t][j] = ch[t][j]
      BY <1>1, <1>4, <1>5 DEF Sends
    <2>3. CASE j = k
      BY <1>1, <1>4, <1>5, <2>1, <2>2, <2>3 DEF StreamOK, netVars
    <2>4. CASE j # k
      BY <1>1, <1>4, <1>5, <2>1, <2>2, <2>4 DEF StreamOK, netVars
    <2>5. QED  BY <2>3, <2>4
  <1>8. send'["cloud"] = send["cloud"]  BY <1>1 DEF Basic, LoopsOK
  <1>9. Debris' = Debris  BY <1>8 DEF Debris, Alive, Unaccepted, netVars
  <1>10. ASSUME Calm PROVE Calm'
    <2>1. used \in Stream  BY <1>10 DEF Calm, EdgeServes, Basic, NetOK, Stream
    <2>2. k # used
      <3>1. StreamOK(k)  BY DEF Basic
      <3>2. QED  BY <1>10, <3>1 DEF Calm, CloudServes, StreamOK
    <2>3. \A t \in Side : ch'[t][used] = ch[t][used] /\ send'[t][used] = send[t][used]
      BY <1>4, <1>5, <2>1, <2>2
    <2>4. EdgeServes' /\ CloudServes' /\ Beating'
      BY <1>1, <1>10, <2>3 DEF Calm, EdgeServes, CloudServes, Beating, BeatUnderway, netVars
    <2>5. \A j \in Stream : ~Pending(j)'  BY <1>8, <1>10 DEF Calm, Pending, netVars
    <2>6. QED  BY <2>4, <2>5 DEF Calm
  <1>11. QED  BY <1>6, <1>7, <1>9, <1>10 DEF Keeps, Basic, netVars

LEMMA DrainStep ==
    ASSUME Basic, NEW s \in Side, NEW k \in Stream, Drain(s, k)
    PROVE  Basic' /\ Keeps
  <1>1. /\ send[s][k] = "run" /\ ch[s][k] # <<>>
        /\ UNCHANGED <<netVars, recv, reg>>
    BY DEF Drain
  <1>2. CASE /\ Head(ch[s][k]) = "closed" \/ Broken(s, k)
             /\ SendEnds(s, k)
             /\ UNCHANGED wire
    <2>1. Sends(s, k)  BY <1>1 DEF Sends
    <2>2. ch[s][k] \in Seq(Msg)  BY DEF Basic, NodesOK, Obj
    <2>3. Has(ch[s][k], "closed") \/ Broken(s, k)  BY <1>1, <1>2, <2>2, HasTail
    <2>4. QED  BY <1>1, <1>2, <2>1, <2>3, SendEndsStep
  <1>3. CASE /\ Head(ch[s][k]) # "closed"
             /\ wire' = IF Broken(s, k) \/ recv[Other(s)][k] \in {"done", "stuck"} THEN wire
                        ELSE [wire EXCEPT ![s][k] = Append(@, Head(ch[s][k]))]
             /\ ch' = [ch EXCEPT ![s][k] = Tail(@)]
             /\ UNCHANGED <<send, remove, restart, count, sent>>
    BY <1>1, <1>3, PassesOn
  <1>4. CASE /\ Head(ch[s][k]) # "closed" /\ s = "edge" /\ recv["cloud"][k] = "stuck"
             /\ send' = [send EXCEPT ![s][k] = "stuck"]
             /\ ch' = [ch EXCEPT ![s][k] = Tail(@)]
             /\ UNCHANGED <<wire, remove, restart, count, sent>>
    BY <1>1, <1>4, SendWaits
  <1>5. QED  BY <1>2, <1>3, <1>4 DEF Drain

\* What is sent to an object, short of a STREAM/CLOSED, does no harm.
LEMMA SendingStep ==
    ASSUME Basic, NEW s \in Side, NEW o, NEW m \in Msg, m # "closed", Send2Node(s, o, m),
           UNCHANGED <<netVars, send, recv, remove, wire, restart, count, sent, reg>>
    PROVE  Basic' /\ Keeps
  <1>1. LoopsOK /\ NodesOK /\ "cloud" \in Side /\ "edge" \in Side  BY DEF Basic, Side
  <1>2. /\ ch' \in [Side -> [Obj -> Seq(Msg)]]
        /\ \A t \in Side, p \in Stream :
             /\ ~Sends(t, p) => ch'[t][p] = ch[t][p]
             /\ \A x : Has(ch[t][p], x) => Has(ch'[t][p], x)
             /\ Has(ch'[t][p], "closed") => Has(ch[t][p], "closed")
    <2>1. /\ ch' \in [Side -> [Obj -> Seq(Msg)]]
          /\ \A t \in Side, p \in Stream :
               /\ ~Sends(t, p) => ch'[t][p] = ch[t][p]
               /\ \A x : Has(ch'[t][p], x) <=>
                           Has(ch[t][p], x) \/ (x = m /\ t = s /\ p = o /\ Sends(s, p))
      BY <1>1, Sent
    <2>2. QED  BY <2>1
  <1>3. NetOK' /\ LoopsOK' /\ NodesOK'
    BY <1>2 DEF Basic, NetOK, LoopsOK, NodesOK, netVars
  <1>4. ASSUME NEW j \in Stream PROVE StreamOK(j)'
    <2>1. StreamOK(j)  BY DEF Basic
    <2>2. QED  BY <1>1, <1>2, <2>1 DEF StreamOK, Sends, netVars
  <1>5. Debris' = Debris  BY DEF Debris, Alive, Unaccepted, netVars
  <1>6. ASSUME Calm PROVE Calm'
    <2>1. used \in Stream  BY <1>6 DEF Calm, EdgeServes, Basic, NetOK, Stream
    <2>2. QED
      BY <1>1, <1>2, <1>6, <2>1
      DEF Calm, EdgeServes, CloudServes, Beating, BeatUnderway, Pending, netVars
  <1>7. QED  BY <1>3, <1>4, <1>5, <1>6 DEF Keeps, Basic, netVars

LEMMA RequestStep ==
    ASSUME Basic, NEW r \in Req, Ask(r) \/ Answer(r)
    PROVE  Basic' /\ Keeps
  <1>1. r \in Msg /\ r # "closed"  BY Messages
  <1>2. UNCHANGED <<netVars, send, recv, remove, wire, restart, count, sent, reg>>
    BY DEF Ask, Answer, loopVars
  <1>3. Send2Node("cloud", via[r], r) \/ Send2Node("edge", reg["edge"], r)
    BY DEF Ask, Answer, SendToName
  <1>4. "cloud" \in Side /\ "edge" \in Side  BY DEF Side
  <1>5. CASE Send2Node("cloud", via[r], r)  BY <1>1, <1>2, <1>4, <1>5, SendingStep
  <1>6. CASE Send2Node("edge", reg["edge"], r)  BY <1>1, <1>2, <1>4, <1>6, SendingStep
  <1>7. QED  BY <1>3, <1>5, <1>6
\* A heartbeat that the cloud receives goes back to the newest stream, when all is
\* calm; one that the edge receives clears restart.
LEMMA ReceiveCommon ==
    ASSUME Basic, NEW s \in Side, NEW k \in Stream, Receives(s, k)
    PROVE  LET m == Head(wire[Other(s)][k]) IN
           /\ UNCHANGED <<net, used, cur, over, closed, send, recv, remove, count, sent, reg>>
           /\ recv[s][k] = "run"
           /\ m \in Msg
           /\ wire' \in [Side -> [Stream -> Seq(Msg)]]
           /\ \A t \in Side, j \in Stream : \A x :
                /\ ~(t = Other(s) /\ j = k) => wire'[t][j] = wire[t][j]
                /\ Has(wire[t][j], x) /\ ~(t = Other(s) /\ j = k /\ x = m) => Has(wire'[t][j], x)
           /\ s = "cloud" => /\ restart' = restart
                             /\ ch' = ch \/ (m = "beat" /\ Send2Node("cloud", reg["cloud"], m))
                             /\ m = "beat" => Send2Node("cloud", reg["cloud"], m)
           /\ s = "edge" => /\ ch' = ch
                            /\ restart' = IF m = "beat" THEN [restart EXCEPT ![k] = FALSE] ELSE restart
  <1> DEFINE m == Head(wire[Other(s)][k])
  <1>1. Other(s) \in Side /\ "cloud" # "edge"  BY DEF Side, Other
  <1>2. wire[Other(s)][k] \in Seq(Msg) /\ wire[Other(s)][k] # <<>>
    BY <1>1 DEF Receives, Basic, LoopsOK
  <1>3. m \in Msg /\ Tail(wire[Other(s)][k]) \in Seq(Msg)
    BY <1>2, HasTail
  <1>4. \A x : Has(wire[Other(s)][k], x) <=> x = m \/ Has(Tail(wire[Other(s)][k]), x)
    BY <1>2, HasTail
  <1> HIDE DEF m
  <1>5. wire' = [wire EXCEPT ![Other(s)][k] = Tail(@)]  BY DEF Receives
  <1>6. /\ wire' \in [Side -> [Stream -> Seq(Msg)]]
        /\ \A t \in Side, j \in Stream :
             wire'[t][j] = IF t = Other(s) /\ j = k THEN Tail(wire[Other(s)][k]) ELSE wire[t][j]
    BY <1>1, <1>3, <1>5 DEF Basic, LoopsOK
  <1>7. /\ UNCHANGED <<net, used, cur, over, closed, send, recv, remove, count, sent, reg>>
        /\ recv[s][k] = "run"
    BY DEF Receives
  <1>8. s = "cloud" => /\ restart' = restart
                       /\ ch' = ch \/ (m = "beat" /\ Send2Node("cloud", reg["cloud"], m))
                       /\ m = "beat" => Send2Node("cloud", reg["cloud"], m)
    BY DEF Receives, CloudHandles, SendToName, m
  <1>9. s = "edge" => /\ ch' = ch
                      /\ restart' = IF m = "beat" THEN [restart EXCEPT ![k] = FALSE] ELSE restart
    BY <1>1 DEF Receives, EdgeHandles, m
  <1>10. QED  BY <1>3, <1>4, <1>6, <1>7, <1>8, <1>9 DEF m

LEMMA ReceivesStep ==
    ASSUME Basic, NEW s \in Side, NEW k \in Stream, Receives(s, k), faults' \in Nat
    PROVE  /\ Basic' /\ used' = used /\ Debris' = Debris
           /\ Calm /\ ~Early(s, k) => Calm'
  <1> DEFINE m == Head(wire[Other(s)][k])
  <1>1. /\ UNCHANGED <<net, used, cur, over, closed, send, recv, remove, count, sent, reg>>
        /\ recv[s][k] = "run"
        /\ m \in Msg
        /\ wire' \in [Side -> [Stream -> Seq(Msg)]]
        /\ \A t \in Side, j \in Stream : \A x :
             /\ ~(t = Other(s) /\ j = k) => wire'[t][j] = wire[t][j]
             /\ Has(wire[t][j], x) /\ ~(t = Other(s) /\ j = k /\ x = m) => Has(wire'[t][j], x)
        /\ s = "cloud" => /\ restart' = restart
                          /\ ch' = ch \/ (m = "beat" /\ Send2Node("cloud", reg["cloud"], m))
                          /\ m = "beat" => Send2Node("cloud", reg["cloud"], m)
        /\ s = "edge" => /\ ch' = ch
                         /\ restart' = IF m = "beat" THEN [restart EXCEPT ![k] = FALSE] ELSE restart
    BY ReceiveCommon
  <1> HIDE DEF m
  <1>2. "cloud" \in Side /\ "edge" \in Side /\ s \in {"cloud", "edge"} /\ LoopsOK /\ NodesOK
        /\ "beat" # "closed"
    BY DEF Side, Basic
  <1>3. /\ ch' \in [Side -> [Obj -> Seq(Msg)]]
        /\ \A t \in Side, p \in Stream :
             /\ ~Sends(t, p) => ch'[t][p] = ch[t][p]
             /\ \A x : Has(ch[t][p], x) => Has(ch'[t][p], x)
             /\ Has(ch'[t][p], "closed") => Has(ch[t][p], "closed")
             /\ s = "cloud" /\ m = "beat" /\ p = reg["cloud"] /\ Sends("cloud", p)
                  => Has(ch'["cloud"][p], "beat")
    <2>1. CASE s = "cloud" /\ m = "beat"
      <3>1. Send2Node("cloud", reg["cloud"], m)  BY <1>1, <2>1
      <3>2. /\ ch' \in [Side -> [Obj -> Seq(Msg)]]
            /\ \A t \in Side, p \in Stream :
                 /\ ~Sends(t, p) => ch'[t][p] = ch[t][p]
                 /\ \A x : Has(ch'[t][p], x) <=>
                             Has(ch[t][p], x)
                             \/ (x = m /\ t = "cloud" /\ p = reg["cloud"] /\ Sends("cloud", p))
        <4>1. m \in Msg  BY <1>1
        <4>2. QED  BY <1>2, <3>1, <4>1, Sent
      <3>3. QED  BY <1>2, <2>1, <3>2
    <2>2. CASE ~(s = "cloud" /\ m = "beat")
      <3>1. ch' = ch  BY <1>1, <1>2, <2>2
      <3>2. QED  BY <1>2, <2>2, <3>1 DEF NodesOK
    <2>3. QED  BY <2>1, <2>2
  <1>4. /\ restart' \in [Stream -> BOOLEAN]
        /\ \A j \in Stream : /\ restart'[j] => restart[j]
                             /\ s = "edge" /\ m = "beat" => ~restart'[k]
    <2>1. restart \in [Stream -> BOOLEAN]  BY <1>2 DEF LoopsOK
    <2>2. CASE s = "edge" /\ m = "beat"
      <3>1. restart' = [restart EXCEPT ![k] = FALSE]  BY <1>1, <2>2
      <3>2. QED  BY <2>1, <3>1
    <2>3. CASE ~(s = "edge" /\ m = "beat")
      <3>1. restart' = restart  BY <1>1, <1>2, <2>3
      <3>2. QED  BY <2>1, <2>3, <3>1
    <2>4. QED  BY <2>2, <2>3
  <1>5. NetOK' /\ LoopsOK' /\ NodesOK'
    BY <1>1, <1>3, <1>4 DEF Basic, NetOK, LoopsOK, NodesOK
  <1>6. ASSUME NEW j \in Stream PROVE StreamOK(j)'
    <2>1. StreamOK(j)  BY DEF Basic
    <2>2. \A t \in Side : Sends(t, j)' <=> Sends(t, j)  BY <1>1 DEF Sends
    <2>3. QED  BY <1>1, <1>2, <1>3, <1>4, <2>1, <2>2 DEF StreamOK
  <1>7. Debris' = Debris  BY <1>1 DEF Debris, Alive, Unaccepted
  <1>8. ASSUME Calm, ~Early(s, k) PROVE Calm'
    <2>1. used \in Stream  BY <1>8 DEF Calm, EdgeServes, Basic, NetOK, Stream
    <2>2. EdgeServes' /\ CloudServes'
      BY <1>1, <1>2, <1>3, <1>8, <2>1 DEF Calm, EdgeServes, CloudServes
    <2>3. ASSUME restart'[used] \/ used \in sent' PROVE BeatUnderway'
      <3>1. BeatUnderway  BY <1>1, <1>4, <1>8, <2>1, <2>3 DEF Calm, Beating
      <3>2. CASE k = used /\ m = "beat"
        <4>1. s = "cloud"
          <5>1. SUFFICES ASSUME s = "edge" PROVE FALSE  BY <1>2
          <5>2. ~restart'[used]  BY <1>4, <2>1, <3>2, <5>1
          <5>3. used \in sent  BY <1>1, <2>3, <5>2
          <5>4. m = Head(wire["cloud"][k])  BY <5>1 DEF m, Other
          <5>5. QED  BY <1>8, <3>2, <5>1, <5>3, <5>4 DEF Early
        <4>2. StreamOK(used)  BY <2>1 DEF Basic
        <4>3. reg["cloud"] = used /\ Sends("cloud", used)
          BY <1>1, <1>8, <3>2, <4>1, <4>2 DEF Calm, CloudServes, StreamOK, Sends
        <4>4. Has(ch'["cloud"][used], "beat")  BY <1>3, <2>1, <3>2, <4>1, <4>3
        <4>5. QED  BY <1>1, <4>4 DEF BeatUnderway
      <3>3. CASE ~(k = used /\ m = "beat")
        <4>1. \A t \in Side : /\ Has(wire[t][used], "beat") => Has(wire'[t][used], "beat")
                              /\ Has(ch[t][used], "beat") => Has(ch'[t][used], "beat")
          BY <1>1, <1>3, <2>1, <3>3
        <4>2. QED  BY <1>1, <1>2, <3>1, <4>1 DEF BeatUnderway
      <3>4. QED  BY <3>2, <3>3
    <2>4. Beating'  BY <1>1, <1>8, <2>3 DEF Calm, Beating
    <2>5. \A j \in Stream : ~Pending(j)'  BY <1>1, <1>8 DEF Calm, Pending
    <2>6. QED  BY <2>2, <2>4, <2>5 DEF Calm
  <1>9. QED  BY <1>1, <1>5, <1>6, <1>7, <1>8 DEF Basic

LEMMA ReceiveStep ==
    ASSUME Basic, NEW s \in Side, NEW k \in Stream, Receive(s, k)
    PROVE  Basic' /\ Keeps
  <1>1. Receives(s, k) /\ ~Early(s, k) /\ faults' = faults  BY DEF Receive
  <1>2. faults' \in Nat  BY <1>1 DEF Basic, NetOK
  <1>3. QED  BY <1>1, <1>2, ReceivesStep DEF Keeps

\* An answer that is there before its flag: the flag stays, and may end the stream.
LEMMA ReceiveEarlyStep ==
    ASSUME Basic, NEW k \in Stream, ReceiveEarly(k)
    PROVE  Basic' /\ Disturbs
  <1>1. Receives("edge", k) /\ faults' = faults + 1 /\ "edge" \in Side
    BY DEF ReceiveEarly, Side
  <1>2. faults' \in Nat  BY <1>1 DEF Basic, NetOK
  <1>3. QED  BY <1>1, <1>2, ReceivesStep DEF Disturbs


\* A RecvMsg that fails in the cloud is debris that goes: what it sends to the name of
\* the node may end the newest stream, and no other stream can do that for it again.
LEMMA ReceiveFailsStep ==
    ASSUME Basic, NEW s \in Side, NEW k \in Stream, ReceiveFails(s, k)
    PROVE  Basic' /\ Keeps
  <1>1. /\ UNCHANGED <<netVars, send, remove, restart, count, sent, reg>>
        /\ recv[s][k] = "run" /\ (k \in over \/ (s = "cloud" /\ k \in closed))
        /\ recv' = [recv EXCEPT ![s][k] = "done"]
        /\ wire' = [wire EXCEPT ![Other(s)][k] = <<>>]
        /\ Send2Node(s, reg[s], "closed")
    BY DEF ReceiveFails, SendToName
  <1>2. "cloud" \in Side /\ "edge" \in Side /\ s \in {"cloud", "edge"} /\ LoopsOK /\ NodesOK
        /\ "closed" \in Msg /\ Other(s) \in Side
    BY Messages DEF Side, Basic, Other
  <1>3. /\ ch' \in [Side -> [Obj -> Seq(Msg)]]
        /\ \A t \in Side, p \in Stream :
             /\ ~Sends(t, p) => ch'[t][p] = ch[t][p]
             /\ \A x : Has(ch[t][p], x) => Has(ch'[t][p], x)
    <2>1. /\ ch' \in [Side -> [Obj -> Seq(Msg)]]
          /\ \A t \in Side, p \in Stream :
               /\ ~Sends(t, p) => ch'[t][p] = ch[t][p]
               /\ \A x : Has(ch'[t][p], x) <=>
                           Has(ch[t][p], x) \/ (x = "closed" /\ t = s /\ p = reg[s] /\ Sends(s, p))
      BY <1>1, <1>2, Sent
    <2>2. QED  BY <2>1
  <1>4. /\ recv' \in [Side -> [Stream -> {"off", "run", "stuck", "done"}]]
        /\ \A t \in Side, j \in Stream :
             recv'[t][j] = IF t = s /\ j = k THEN "done" ELSE recv[t][j]
    BY <1>1, <1>2 DEF LoopsOK
  <1>5. wire' \in [Side -> [Stream -> Seq(Msg)]]
    <2>1. <<>> \in Seq(Msg)  OBVIOUS
    <2>2. QED  BY <1>1, <1>2, <2>1 DEF LoopsOK
  <1>6. NetOK' /\ LoopsOK' /\ NodesOK'
    BY <1>1, <1>3, <1>4, <1>5 DEF Basic, NetOK, LoopsOK, NodesOK, netVars
  <1>7. ASSUME NEW j \in Stream PROVE StreamOK(j)'
    <2>1. StreamOK(j)  BY DEF Basic
    <2>2. \A t \in Side : Sends(t, j)' <=> Sends(t, j)  BY <1>1 DEF Sends
    <2>3. QED  BY <1>1, <1>2, <1>3, <1>4, <2>1, <2>2 DEF StreamOK, netVars
  <1>8. 1 .. used \subseteq Stream  BY DEF Basic, NetOK, Stream
  <1>9. \A j \in Stream : (Alive(j)' => Alive(j)) /\ (recv'["cloud"][j] = "stuck" => recv["cloud"][j] = "stuck")
    BY <1>1, <1>2, <1>4 DEF Alive
  <1>10. Debris' \subseteq Debris
    <2>1. ASSUME NEW j \in Debris' PROVE j \in Debris
      <3>1. j \in Stream  BY <1>1, <1>8 DEF Debris, netVars
      <3>2. QED  BY <1>1, <1>9, <3>1 DEF Debris, Unaccepted, netVars
    <2>2. QED  BY <2>1
  <1>11. ASSUME Calm PROVE Debris' # Debris
    <2>1. ~Pending(k) /\ StreamOK(k) /\ EdgeServes  BY <1>11 DEF Calm, Basic
    <2>2. s = "cloud" /\ k \in over
      BY <1>1, <1>2, <2>1 DEF Pending
    <2>3. Alive(k)
      BY <1>1, <1>2, <2>1, <2>2 DEF Alive, Pending, StreamOK, LoopsOK
    <2>4. k # used  BY <1>1, <2>1, <2>2 DEF EdgeServes
    <2>5. k \in 1 .. used /\ k < used
      BY <2>2, <2>4 DEF Basic, NetOK
    <2>6. k \in Debris  BY <2>3, <2>5 DEF Debris
    <2>7. recv'["cloud"][k] = "done"  BY <1>4, <2>2
    <2>8. k \notin Debris'
      BY <1>1, <2>2, <2>7 DEF Debris, Alive, Unaccepted, netVars
    <2>9. QED  BY <2>6, <2>8
  <1>12. QED  BY <1>1, <1>6, <1>7, <1>10, <1>11 DEF Keeps, Basic, netVars
\* A minute without anything under way: the newest stream, when calm, has had its
\* heartbeat back.
LEMMA CalmNeedsNoRestart ==
    ASSUME Basic, Calm, ~Moving
    PROVE  restart[used] = FALSE /\ used \notin sent /\ count[used] = 0 /\ used \in Stream
  <1>1. used \in Stream /\ used <= used /\ used \notin over /\ used \in 1 .. used
    BY DEF Calm, EdgeServes, Basic, NetOK, Stream
  <1>2. \A s \in Side : ~(send[s][used] = "run" /\ ch[s][used] # <<>>)
                        /\ ~(recv[s][used] = "run" /\ wire[Other(s)][used] # <<>>)
    BY <1>1 DEF Moving
  <1>3. send["cloud"][used] # "off"  BY <1>1 DEF Moving
  <1>4. /\ send["cloud"][used] = "run" /\ recv["cloud"][used] = "run"
        /\ send["edge"][used] = "run" /\ recv["edge"][used] = "run"
    BY <1>3 DEF Calm, CloudServes, EdgeServes
  <1>5. /\ ch["cloud"][used] = <<>> /\ ch["edge"][used] = <<>>
        /\ wire["cloud"][used] = <<>> /\ wire["edge"][used] = <<>>
    BY <1>2, <1>4 DEF Side, Other
  <1>6. ~BeatUnderway  BY <1>5, HasEmpty DEF BeatUnderway
  <1>7. QED  BY <1>1, <1>6 DEF Calm, Beating, Basic, LoopsOK

LEMMA TickStep ==
    ASSUME Basic, NEW k \in Stream, Tick(k)
    PROVE  Basic' /\ Keeps
  <1>1. /\ UNCHANGED <<netVars, send, recv, remove, wire, reg>>
        /\ Sends("edge", k) /\ ~Moving
        /\ (restart[k] /\ Missed(k)) \/ (~restart[k] /\ Beats(k))
    BY DEF Tick, Sends
  <1>2. PICK m \in {"beat", "closed"} : Send2Node("edge", k, m) /\ (m = "beat" <=> ~restart[k])
    BY <1>1 DEF Missed, Beats
  <1>3. /\ restart' = restart /\ count' \in [Stream -> {0, 1}] /\ sent' \subseteq Stream
        /\ \A j \in Stream : j # k => count'[j] = count[j] /\ (j \in sent' => j \in sent)
        /\ m = "beat" => count' = count
    BY <1>1, <1>2 DEF Missed, Beats, Basic, LoopsOK
  <1>4. "cloud" \in Side /\ "edge" \in Side /\ LoopsOK /\ NodesOK /\ m \in Msg
    BY Messages DEF Side, Basic
  <1>5. /\ ch' \in [Side -> [Obj -> Seq(Msg)]]
        /\ \A t \in Side, p \in Stream :
             /\ ~Sends(t, p) => ch'[t][p] = ch[t][p]
             /\ \A x : Has(ch'[t][p], x) <=>
                         Has(ch[t][p], x) \/ (x = m /\ t = "edge" /\ p = k /\ Sends("edge", p))
    BY <1>2, <1>4, Sent
  <1>6. NetOK' /\ LoopsOK' /\ NodesOK'
    BY <1>1, <1>3, <1>5 DEF Basic, NetOK, LoopsOK, NodesOK, netVars
  <1>7. ASSUME NEW j \in Stream PROVE StreamOK(j)'
    <2>1. StreamOK(j)  BY DEF Basic
    <2>2. \A t \in Side : Sends(t, j)' <=> Sends(t, j)  BY <1>1 DEF Sends
    <2>3. \A t \in Side : ~Sends(t, j) => ch'[t][j] = ch[t][j]  BY <1>5
    <2>4. Has(ch["edge"][j], "closed") => Has(ch'["edge"][j], "closed")  BY <1>4, <1>5
    <2>5. CASE j # k
      BY <1>1, <1>3, <1>4, <2>1, <2>2, <2>3, <2>4, <2>5 DEF StreamOK, netVars
    <2>6. CASE j = k
      <3>1. ~(k > used)  BY <1>1, <2>1, <2>6 DEF StreamOK, Sends
      <3>2. m = "closed" => Has(ch'["edge"][k], "closed")  BY <1>1, <1>4, <1>5
      <3>3. count'[k] = 1 /\ send["edge"][k] = "run" => Has(ch'["edge"][k], "closed")
        <4>1. m = "beat" \/ m = "closed"  BY <1>2
        <4>2. CASE m = "beat"
          <5>1. count'[k] = count[k]  BY <1>3, <4>2
          <5>2. QED  BY <2>1, <2>4, <2>6, <5>1 DEF StreamOK
        <4>3. QED  BY <3>2, <4>1, <4>2
      <3>4. QED  BY <1>1, <1>4, <2>1, <2>2, <2>3, <2>6, <3>1, <3>3 DEF StreamOK, netVars
    <2>7. QED  BY <2>5, <2>6
  <1>8. Debris' = Debris  BY <1>1 DEF Debris, Alive, Unaccepted, netVars
  <1>9. ASSUME Calm PROVE Calm'
    <2>1. restart[used] = FALSE /\ used \notin sent /\ count[used] = 0 /\ used \in Stream
      BY <1>1, <1>9, CalmNeedsNoRestart
    <2>2. k = used => m = "beat"  BY <1>2, <2>1
    <2>3. \A t \in Side : Has(ch'[t][used], "closed") => Has(ch[t][used], "closed")
      <3>1. k = used => m # "closed"  BY <2>2
      <3>2. QED  BY <1>5, <2>1, <3>1
    <2>4. EdgeServes' /\ CloudServes'
      BY <1>1, <1>4, <1>9, <2>3 DEF Calm, EdgeServes, CloudServes, netVars
    <2>5. k = used => Has(ch'["edge"][used], "beat")
      BY <1>1, <1>4, <1>5, <2>1, <2>2
    <2>6. Beating'
      BY <1>1, <1>3, <2>1, <2>2, <2>5 DEF Beating, BeatUnderway, netVars
    <2>7. \A j \in Stream : ~Pending(j)'  BY <1>1, <1>9 DEF Calm, Pending, netVars
    <2>8. QED  BY <2>4, <2>6, <2>7 DEF Calm
  <1>10. QED  BY <1>1, <1>6, <1>7, <1>8, <1>9 DEF Keeps, Basic, netVars

\* The flag is set after the heartbeat has been sent.
LEMMA SetsRestartStep ==
    ASSUME Basic, NEW k \in Stream, SetsRestart(k)
    PROVE  Basic' /\ Keeps
  <1>1. /\ UNCHANGED <<netVars, send, recv, remove, wire, reg, ch>>
        /\ k \in sent /\ sent' = sent \ {k}
    BY DEF SetsRestart, nodeVars
  <1>2. /\ restart' \in [Stream -> BOOLEAN] /\ count' \in [Stream -> {0, 1}]
        /\ \A j \in Stream : /\ restart'[j] = IF j = k THEN TRUE ELSE restart[j]
                             /\ count'[j] = IF j = k THEN 0 ELSE count[j]
    BY DEF SetsRestart, Basic, LoopsOK
  <1>3. NetOK' /\ LoopsOK' /\ NodesOK'
    BY <1>1, <1>2 DEF Basic, NetOK, LoopsOK, NodesOK, netVars
  <1>4. ASSUME NEW j \in Stream PROVE StreamOK(j)'
    <2>1. StreamOK(j)  BY DEF Basic
    <2>2. \A t \in Side : (Sends(t, j)' <=> Sends(t, j)) /\ ch'[t][j] = ch[t][j]
      BY <1>1 DEF Sends
    <2>3. CASE j # k
      BY <1>1, <1>2, <2>1, <2>2, <2>3 DEF StreamOK, Side, netVars
    <2>4. CASE j = k
      <3>0. StreamOK(k) /\ k \in sent  BY <1>1, <2>1, <2>4
      <3>1. ~(k > used) /\ count'[k] = 0  BY <1>2, <3>0 DEF StreamOK
      <3>2. QED  BY <1>1, <2>1, <2>2, <2>4, <3>1 DEF StreamOK, Side, netVars
    <2>5. QED  BY <2>3, <2>4
  <1>5. Debris' = Debris  BY <1>1 DEF Debris, Alive, Unaccepted, netVars
  <1>6. ASSUME Calm PROVE Calm'
    <2>1. used \in Stream  BY <1>6 DEF Calm, EdgeServes, Basic, NetOK, Stream
    <2>2. EdgeServes' /\ CloudServes' /\ (BeatUnderway' <=> BeatUnderway)
      BY <1>1, <1>6 DEF Calm, EdgeServes, CloudServes, BeatUnderway, netVars
    <2>3. Beating'  BY <1>1, <1>2, <1>6, <2>1, <2>2 DEF Calm, Beating, netVars
    <2>4. \A j \in Stream : ~Pending(j)'  BY <1>1, <1>6 DEF Calm, Pending, netVars
    <2>5. QED  BY <2>2, <2>3, <2>4 DEF Calm
  <1>7. QED  BY <1>1, <1>3, <1>4, <1>5, <1>6 DEF Keeps, Basic, netVars

\* The process at the edge ends only when the newest stream has been lost already.
LEMMA ExitsStep ==
    ASSUME Basic, Exits, ~Calm,
           Alive(used) => used \in over \/ recv["cloud"][used] = "stuck"
    PROVE  Basic' /\ Keeps
  <1>1. /\ UNCHANGED <<net, faults, used, closed>>
        /\ cur' = 0 /\ over' = over \cup 1 .. used
    BY DEF Exits
  <1>2. /\ send' \in [Side -> [Stream -> {"off", "run", "stuck", "done"}]]
        /\ recv' \in [Side -> [Stream -> {"off", "run", "stuck", "done"}]]
        /\ remove' \in [Side -> [Stream -> {"off", "look", "delete", "done"}]]
        /\ send'["cloud"] = send["cloud"] /\ recv'["cloud"] = recv["cloud"]
        /\ remove'["cloud"] = remove["cloud"]
        /\ \A j \in Stream : /\ send'["edge"][j] = IF j <= used THEN "done" ELSE "off"
                             /\ recv'["edge"][j] = IF j <= used THEN "done" ELSE "off"
                             /\ remove'["edge"][j] = "off"
    BY DEF Exits, Basic, LoopsOK, Side
  <1>3. <<>> \in Seq(Msg)  OBVIOUS
  <1>4. wire' \in [Side -> [Stream -> Seq(Msg)]]
    BY <1>3 DEF Exits, Both
  <1>5. restart' = [j \in Stream |-> FALSE] /\ count' = [j \in Stream |-> 0] /\ sent' = {}
    BY DEF Exits
  <1>6. reg' \in [Side -> Obj \cup {0}]
    BY DEF Exits, Basic, NodesOK, Side
  <1>7. Stream \subseteq Obj  BY DEF Obj
  <1>8. /\ ch' \in [Side -> [Obj -> Seq(Msg)]] /\ ch'["cloud"] = ch["cloud"]
        /\ \A j \in Stream : ch'["edge"][j] = <<>>
    BY <1>3, <1>7 DEF Exits, Basic, NodesOK, Side
  <1>9. NetOK'  BY <1>1 DEF Basic, NetOK
  <1>10. LoopsOK' /\ NodesOK'
    BY <1>2, <1>4, <1>5, <1>6, <1>8 DEF LoopsOK, NodesOK
  <1>11. ASSUME NEW j \in Stream PROVE StreamOK(j)'
    <2>1. StreamOK(j)  BY DEF Basic
    <2>2. j <= used <=> j \in 1 .. used  BY DEF Basic, NetOK, Stream
    <2>3. ~Sends("edge", j)'  BY <1>2 DEF Sends
    <2>4. \A t \in Side : ~Sends(t, j)' => ch'[t][j] = <<>>
      BY <1>2, <1>8, <2>1 DEF StreamOK, Sends, Side
    <2>5. j <= used <=> ~(j > used)  BY DEF Basic, NetOK, Stream
    <2>6. QED
      BY <1>1, <1>2, <1>5, <1>8, <2>1, <2>2, <2>3, <2>4, <2>5 DEF StreamOK
  <1>12. Debris' \subseteq Debris
    <2>1. ASSUME NEW j \in Debris' PROVE j \in Debris
      <3>1. j \in 1 .. used  BY <1>1 DEF Debris
      <3>2. Alive(j)' => Alive(j)  BY <1>2 DEF Alive
      <3>3. ~Unaccepted(j)'  BY <1>1, <3>1 DEF Unaccepted
      <3>4. Alive(j)  BY <1>1, <2>1, <3>2, <3>3 DEF Debris
      <3>5. QED  BY <3>1, <3>4, used \in Nat DEF Debris, Basic, NetOK
    <2>2. QED  BY <2>1
  <1>13. QED  BY <1>1, <1>9, <1>10, <1>11, <1>12 DEF Keeps, Basic

LEMMA TickExitsStep ==
    ASSUME Basic, NEW k \in Stream, TickExits(k)
    PROVE  Basic' /\ Keeps
  <1>1. send["edge"][k] \in {"run", "stuck"} /\ ~Moving /\ restart[k] /\ count[k] = 1 /\ Exits
    BY DEF TickExits
  <1>2. "edge" \in Side /\ StreamOK(k)  BY DEF Side, Basic
  <1>3. send["edge"][k] = "stuck"
    <2>1. SUFFICES ASSUME send["edge"][k] = "run" PROVE FALSE  BY <1>1
    <2>2. Has(ch["edge"][k], "closed")  BY <1>1, <1>2, <2>1 DEF StreamOK
    <2>3. ch["edge"][k] # <<>>  BY <2>2, HasEmpty
    <2>4. QED  BY <1>1, <1>2, <2>1, <2>3 DEF Moving
  <1>4. k \notin over  BY <1>1, <1>2, <1>3 DEF Moving
  <1>5. recv["cloud"][k] = "stuck" /\ k <= used
    BY <1>2, <1>3 DEF StreamOK, Basic, NetOK, Stream
  <1>6. k = used
    <2>1. k = cur  BY <1>2, <1>3, <1>4, <1>5 DEF StreamOK, Sends
    <2>2. k # 0 /\ cur \in {0, used}  BY DEF Basic, NetOK, Stream
    <2>3. QED  BY <2>1, <2>2
  <1>7. ~Calm  BY <1>1, <1>6 DEF Calm, Beating
  <1>8. QED  BY <1>1, <1>5, <1>6, <1>7, ExitsStep

LEMMA MonitorExitsStep ==
    ASSUME Basic, MonitorExits
    PROVE  Basic' /\ Keeps
  <1>1. net = "down" /\ Exits  BY DEF MonitorExits
  <1>2. used \in Stream => used \in over
    BY <1>1 DEF Basic, StreamOK, NetOK
  <1>3. ~Calm
    BY <1>2 DEF Calm, EdgeServes, Basic, NetOK, Stream
  <1>4. Alive(used) => used \in over \/ recv["cloud"][used] = "stuck"
    <2>1. PICK k \in Stream : Sends("edge", k)  BY DEF MonitorExits, Sends
    <2>2. StreamOK(k)  BY DEF Basic
    <2>3. ~(k > used)  BY <2>1, <2>2 DEF StreamOK, Sends
    <2>4. used \in Stream  BY <2>3 DEF Basic, NetOK, Stream
    <2>5. QED  BY <1>2, <2>4
  <1>5. QED  BY <1>1, <1>3, <1>4, ExitsStep
-----------------------------------------------------------------------------
LEMMA Initially == Init => IInv
  <1> SUFFICES ASSUME Init PROVE IInv  OBVIOUS
  <1>1. used = 0 /\ cur = 0 /\ over = {} /\ closed = {} /\ net = "up" /\ faults = 0
    BY DEF Init
  <1>2. NetOK  BY <1>1 DEF NetOK
  <1>3. <<>> \in Seq(Msg)  OBVIOUS
  <1>4. LoopsOK  BY <1>3 DEF Init, LoopsOK, Both
  <1>5. NodesOK  BY <1>3 DEF Init, NodesOK, Both, Obj
  <1>6. ASSUME NEW k \in Stream PROVE StreamOK(k)
    <2>1. k > 0 /\ ~(k <= 0) /\ k \in Obj  BY DEF Stream, Obj
    <2>2. \A s \in Side : /\ send[s][k] = "off" /\ recv[s][k] = "off" /\ remove[s][k] = "off"
                          /\ ch[s][k] = <<>>
      BY <2>1 DEF Init, Both
    <2>3. ~restart[k] /\ count[k] = 0 /\ k \notin sent  BY DEF Init
    <2>4. QED  BY <1>1, <2>1, <2>2, <2>3 DEF StreamOK, Sends, Side
  <1>7. Debris = {}
    <2>1. 1 .. used = {}  BY <1>1
    <2>2. QED  BY <2>1 DEF Debris
  <1>8. Cardinality(Debris) = 0  BY <1>7, FS_EmptySet
  <1>9. Paid  BY <1>1, <1>8 DEF Paid, Costs
  <1>10. QED  BY <1>2, <1>4, <1>5, <1>6, <1>9 DEF IInv, Basic

\* Every step is paid for.
LEMMA Accounted == ASSUME Basic, Next PROVE Basic' /\ (Keeps \/ Renews \/ Disturbs)
  <1>1. CASE Open  BY <1>1, OpenStep
  <1>2. CASE SendReturns  BY <1>2, SendReturnsStep
  <1>3. CASE Environment
    <2>1. CASE NetDown  BY <2>1, NetDownStep
    <2>2. CASE NetUp  BY <2>2, NetUpStep
    <2>3. CASE MonitorExits  BY <2>3, MonitorExitsStep
    <2>4. CASE OpenTooSoon  BY <2>4, OpenTooSoonStep
    <2>5. CASE TcpClientLeaves  BY <2>5, ElsewhereSteps
    <2>6. CASE \E k \in Stream : Clog(k) \/ ReceiveEarly(k)  BY <2>6, ClogStep, ReceiveEarlyStep
    <2>7. QED  BY <1>3, <2>1, <2>2, <2>3, <2>4, <2>5, <2>6 DEF Environment
  <1>4. CASE TcpRead  BY <1>4, ElsewhereSteps
  <1>5. CASE \E k \in Stream : Accept(k) \/ HandlerReturns(k) \/ Heart(k)
    BY <1>5, AcceptStep, HandlerReturnsStep, TickStep, TickExitsStep, SetsRestartStep DEF Heart
  <1>6. CASE \E k \in Stream, s \in Side : Sender(s, k) \/ Loop(s, k)
    BY <1>6, DrainStep, SendFailsStep, ReceiveStep, ReceiveFailsStep DEF Sender, Loop
  <1>7. CASE \E k \in Stream, s \in Side : LookUp(s, k) \/ Delete(s, k)
    BY <1>7, RemoveStep
  <1>8. CASE \E r \in Req : FindNode(r) \/ Bind(r) \/ Ask(r) \/ Hear(r) \/ Answer(r)
    BY <1>8, ElsewhereSteps, RequestStep
  <1>9. CASE \E c \in Tcp : TcpAccept(c) \/ TcpWrite(c)
    BY <1>9, TcpAcceptStep, ElsewhereSteps
  <1>10. QED  BY <1>1, <1>2, <1>3, <1>4, <1>5, <1>6, <1>7, <1>8, <1>9 DEF Next

LEMMA Inductive == IInv /\ [Next]_vars => IInv'
  <1> SUFFICES ASSUME IInv, [Next]_vars PROVE IInv'  OBVIOUS
  <1>1. Basic  BY DEF IInv
  <1>2. Basic' /\ (Keeps \/ Renews \/ Disturbs)
    <2>1. CASE Next  BY <1>1, <2>1, Accounted
    <2>2. CASE UNCHANGED vars
      <3>1. UNCHANGED <<netVars, loopVars, reg, ch>>
        BY <2>2 DEF vars, nodeVars
      <3>2. QED  BY <1>1, <3>1, Elsewhere
    <2>3. QED  BY <2>1, <2>2
  <1>3. Paid'  BY <1>2, Account DEF Basic
  <1>4. QED  BY <1>2, <1>3 DEF IInv

\* However the clean-up of old streams, in either process, falls between the steps of
\* new ones, a break of the network, a clogged loop, a TCP connection, a link that is
\* slow at a reconnection or a heartbeat whose answer comes before its flag is set costs
\* two reconnections at most, and without any the first stream stays (streaminterceptor.go RecvMsg and SendMsg, context_factory.go
\* RemoveNode, grpcclient.go StartSendClient).
THEOREM FewReconnectionsAlways == Spec => []FewReconnections
  <1>1. IInv => FewReconnections
    <2> SUFFICES ASSUME IInv PROVE FewReconnections  OBVIOUS
    <2>1. Cardinality(Debris) \in Nat /\ used \in Nat /\ faults \in Nat
      BY DebrisFinite DEF IInv, Basic, NetOK
    <2>2. used + Cardinality(Debris) + Costs <= 1 + 2 * faults /\ Costs \in {0, 1}
      BY DEF IInv, Paid, Costs
    <2>3. QED  BY <2>1, <2>2 DEF FewReconnections
  <1>2. QED  BY <1>1, Initially, Inductive, PTL DEF Spec
-----------------------------------------------------------------------------
(* Types: what Basic leaves out, the users of the stream.                   *)
AtMostOne(S) == \A c, d \in S : c = d
BindingsOK ==
    /\ names \in [Side -> [Stream -> SUBSET Conn]]
    /\ bound \in [Side -> [Obj -> SUBSET Conn]] /\ hasConns \in [Side -> SUBSET Obj]
    /\ \A s \in Side, o \in Obj : AtMostOne(bound[s][o])
ConnsOK ==
    /\ conns \subseteq Conn /\ inbox \in [Conn -> {"none", "answer", "closed"}]
    /\ asked \subseteq Req /\ lost \subseteq Req
ServesOK ==
    /\ serve \in [Req -> {"idle", "bind", "ask", "wait", "done"}]
    /\ via \in [Req -> Obj \cup {0}]
    /\ \A r \in Req : serve[r] \in {"bind", "ask", "wait"} => via[r] # 0
TcpOK == tcp \in [reader : {"off", "select", "put", "done"},
                  writer : {"off", "select", "put", "done"},
                  stop : BOOLEAN, client : BOOLEAN, socket : BOOLEAN]
UsersOK == faults <= MaxFaults /\ BindingsOK /\ ConnsOK /\ ServesOK /\ TcpOK

LEMMA UnheardIsReq == \A C : Unheard(C) \subseteq Req
  BY DEF Unheard

LEMMA TellOK ==
    ASSUME ConnsOK, NEW C, NEW m \in {"none", "answer", "closed"}, Tell(C, m)
    PROVE  inbox' \in [Conn -> {"none", "answer", "closed"}]
  BY DEF ConnsOK, Tell

LEMMA BindNodeOK ==
    ASSUME BindingsOK, NEW s \in Side, NEW o \in Obj, NEW c \in Conn, BindNode(s, o, c),
           names' = names
    PROVE  BindingsOK'
  <1>1. hasConns' \in [Side -> SUBSET Obj]  BY DEF BindingsOK, BindNode
  <1>2. CASE bound' = bound  BY <1>1, <1>2 DEF BindingsOK
  <1>3. CASE bound' = [bound EXCEPT ![s][o] = {c}]
    <2>1. bound' \in [Side -> [Obj -> SUBSET Conn]]  BY <1>3 DEF BindingsOK
    <2>2. \A t \in Side, p \in Obj : bound'[t][p] = IF t = s /\ p = o THEN {c} ELSE bound[t][p]
      BY <1>3 DEF BindingsOK
    <2>3. QED  BY <1>1, <2>1, <2>2 DEF BindingsOK, AtMostOne
  <1>4. QED  BY <1>2, <1>3 DEF BindNode

\* The steps of the streams, but for RemoveNode, a message received and an exit.
LEMMA StreamTypes ==
    ASSUME NetOK, UsersOK, NEW s \in Side, NEW k \in Stream,
           \/ Open \/ SendReturns \/ NetDown \/ NetUp \/ OpenTooSoon \/ Clog(k)
           \/ Accept(k) \/ HandlerReturns(k) \/ Tick(k) \/ SetsRestart(k)
           \/ Sender(s, k) \/ ReceiveFails(s, k)
    PROVE  UsersOK'
  <1>1. UNCHANGED <<names, bound, hasConns, conns, inbox, serve, via, asked, tcp>>
    BY DEF Open, Opens, SendReturns, NetDown, NetUp, OpenTooSoon, Clog, Accept, HandlerReturns,
           Tick, SetsRestart, Sender, Drain, SendFails, ReceiveFails, connVars, nodeVars, loopVars
  <1>2. faults' = faults \/ (faults < MaxFaults /\ faults' = faults + 1)
    BY DEF Open, Opens, SendReturns, NetDown, NetUp, OpenTooSoon, Clog, Accept, HandlerReturns,
           Tick, SetsRestart, Sender, Drain, SendFails, ReceiveFails, netVars
  <1>3. faults' <= MaxFaults
    BY <1>2, StreamAssumption DEF NetOK, UsersOK
  <1>4. lost' = lost \/ lost' = lost \cup Unheard(Bound)
    BY DEF Open, Opens, Starts, AddNode, SendReturns, NetDown, NetUp, OpenTooSoon, Clog, Accept,
           HandlerReturns, Tick, SetsRestart, Sender, Drain, SendFails, ReceiveFails, connVars
  <1>5. lost' \subseteq Req  BY <1>4, UnheardIsReq DEF UsersOK, ConnsOK
  <1>6. QED  BY <1>1, <1>3, <1>5 DEF UsersOK, BindingsOK, ConnsOK, ServesOK, TcpOK

LEMMA RemoveTypes ==
    ASSUME NodesOK, UsersOK, NEW s \in Side, NEW k \in Stream, LookUp(s, k) \/ Delete(s, k)
    PROVE  UsersOK'
  <1>1. UNCHANGED <<faults, bound, hasConns, conns, serve, via, asked, tcp>>
    BY DEF LookUp, Delete, nodeVars
  <1>2. inbox' = inbox \/ Tell(Bound \cap conns, "closed")  BY DEF LookUp, Delete
  <1>3. inbox' \in [Conn -> {"none", "answer", "closed"}]
    BY <1>2, TellOK DEF UsersOK, ConnsOK
  <1>4. \E C : lost' = lost \/ lost' = lost \cup (Unheard(Bound) \ C)
    BY DEF LookUp, Delete
  <1>5. lost' \subseteq Req  BY <1>4, UnheardIsReq DEF UsersOK, ConnsOK
  <1>6. reg[s] \in Obj \cup {0} /\ hasConns[s] \subseteq Obj
    BY DEF NodesOK, UsersOK, BindingsOK
  <1>7. \/ names' = names
        \/ \E N \in SUBSET Conn : names' = [names EXCEPT ![s][k] = N]
    <2>1. CASE Delete(s, k)  BY <2>1 DEF Delete
    <2>2. CASE LookUp(s, k)
      <3>1. CASE reg[s] = 0 \/ reg[s] \notin hasConns[s]  BY <2>2, <3>1 DEF LookUp
      <3>2. CASE ~(reg[s] = 0 \/ reg[s] \notin hasConns[s])
        <4>1. names' = [names EXCEPT ![s][k] = bound[s][reg[s]]]  BY <2>2, <3>2 DEF LookUp
        <4>2. bound[s][reg[s]] \in SUBSET Conn  BY <1>6, <3>2 DEF UsersOK, BindingsOK
        <4>3. QED  BY <4>1, <4>2
      <3>3. QED  BY <3>1, <3>2
    <2>3. QED  BY <2>1, <2>2
  <1>8. names' \in [Side -> [Stream -> SUBSET Conn]]
    <2>1. names \in [Side -> [Stream -> SUBSET Conn]]  BY DEF UsersOK, BindingsOK
    <2>2. CASE names' = names  BY <2>1, <2>2
    <2>3. ASSUME NEW N \in SUBSET Conn, names' = [names EXCEPT ![s][k] = N]
          PROVE  names' \in [Side -> [Stream -> SUBSET Conn]]
      BY <2>1, <2>3
    <2>4. QED  BY <1>7, <2>2, <2>3
  <1>9. QED  BY <1>1, <1>3, <1>5, <1>8 DEF UsersOK, BindingsOK, ConnsOK, ServesOK, TcpOK

LEMMA ReceiveTypes ==
    ASSUME NetOK, UsersOK, NEW s \in Side, NEW k \in Stream, Receive(s, k) \/ ReceiveEarly(k)
    PROVE  UsersOK'
  <1>0. Receives(s, k) \/ Receives("edge", k)  BY DEF Receive, ReceiveEarly
  <1>1. UNCHANGED <<names, bound, hasConns, conns, serve, via, tcp, lost>> /\ faults' <= MaxFaults
    BY <1>0, StreamAssumption DEF Receive, ReceiveEarly, Receives, NetOK, UsersOK
  <1>2. \E C : inbox' = inbox \/ Tell(C, "answer")
    BY <1>0 DEF Receives, CloudHandles, EdgeHandles
  <1>3. inbox' \in [Conn -> {"none", "answer", "closed"}]
    BY <1>2, TellOK DEF UsersOK, ConnsOK
  <1>4. \E m : asked' = asked \/ asked' = asked \cup ({m} \cap Req)
    BY <1>0 DEF Receives, CloudHandles, EdgeHandles
  <1>5. QED  BY <1>1, <1>3, <1>4 DEF UsersOK, BindingsOK, ConnsOK, ServesOK, TcpOK

LEMMA ExitsTypes ==
    ASSUME UsersOK, Exits
    PROVE  UsersOK'
  <1>1. /\ UNCHANGED <<faults, conns, inbox, serve, via, tcp, lost>> /\ asked' = {}
        /\ names' = [names EXCEPT !["edge"] = [k \in Stream |-> {}]]
        /\ bound' = [bound EXCEPT !["edge"] = [o \in Obj |-> {}]]
        /\ hasConns' = [hasConns EXCEPT !["edge"] = {}]
    BY DEF Exits
  <1>2. /\ names' \in [Side -> [Stream -> SUBSET Conn]]
        /\ bound' \in [Side -> [Obj -> SUBSET Conn]]
        /\ hasConns' \in [Side -> SUBSET Obj]
    BY <1>1 DEF UsersOK, BindingsOK
  <1>3. \A s \in Side, o \in Obj : bound'[s][o] = bound[s][o] \/ bound'[s][o] = {}
    BY <1>1 DEF UsersOK, BindingsOK
  <1>4. \A s \in Side, o \in Obj : AtMostOne(bound'[s][o])
    BY <1>3 DEF UsersOK, BindingsOK, AtMostOne
  <1>5. QED  BY <1>1, <1>2, <1>4 DEF UsersOK, BindingsOK, ConnsOK, ServesOK, TcpOK

LEMMA RequestTypes ==
    ASSUME NodesOK, UsersOK, NEW r \in Req,
           FindNode(r) \/ Bind(r) \/ Ask(r) \/ Hear(r) \/ Answer(r)
    PROVE  UsersOK'
  <1>1. UNCHANGED <<faults, names, tcp, inbox>>
    BY DEF FindNode, Bind, Ask, Hear, Answer, netVars, loopVars
  <1>2. conns' \subseteq Conn /\ asked' \subseteq Req /\ lost' \subseteq Req /\ r \in Conn
    BY DEF FindNode, Bind, Ask, Hear, Answer, nodeVars, UsersOK, ConnsOK, Conn
  <1>3. ServesOK'
    <2>1. CASE FindNode(r)
      <3>1. reg["cloud"] \in Obj \cup {0}  BY DEF NodesOK, Side
      <3>2. QED  BY <2>1, <3>1 DEF FindNode, Goes, UsersOK, ServesOK
    <2>2. CASE ~FindNode(r)
      <3>1. /\ via' = via
            /\ \/ serve' = serve
               \/ /\ serve[r] \in {"bind", "ask", "wait"}
                  /\ \E pc \in {"ask", "wait", "done"} : serve' = [serve EXCEPT ![r] = pc]
        BY <2>2 DEF Bind, Ask, Hear, Answer, Goes
      <3>2. QED  BY <3>1 DEF UsersOK, ServesOK
    <2>3. QED  BY <2>1, <2>2
  <1>4. BindingsOK'
    <2>1. CASE Bind(r)
      <3>1. via[r] \in Obj /\ "cloud" \in Side
        BY <2>1 DEF Bind, UsersOK, ServesOK, Side
      <3>2. BindNode("cloud", via[r], r)  BY <2>1 DEF Bind
      <3>3. QED  BY <1>1, <1>2, <3>1, <3>2, BindNodeOK DEF UsersOK
    <2>2. CASE Answer(r) /\ reg["edge"] # 0
      <3>1. reg["edge"] \in Obj /\ "edge" \in Side  BY <2>2 DEF NodesOK, Side
      <3>2. BindNode("edge", reg["edge"], r)  BY <2>2 DEF Answer
      <3>3. QED  BY <1>1, <1>2, <3>1, <3>2, BindNodeOK DEF UsersOK
    <2>3. CASE UNCHANGED <<bound, hasConns>>
      BY <1>1, <2>3 DEF UsersOK, BindingsOK
    <2>4. QED  BY <2>1, <2>2, <2>3 DEF FindNode, Ask, Hear, Answer, nodeVars
  <1>5. QED  BY <1>1, <1>2, <1>3, <1>4 DEF UsersOK, ConnsOK, TcpOK

LEMMA TcpTypes ==
    ASSUME NetOK, UsersOK, NEW c, TcpClientLeaves \/ TcpRead \/ (c \in Tcp /\ (TcpAccept(c) \/ TcpWrite(c)))
    PROVE  UsersOK'
  <1>1. TcpOK'
    <2>1. TcpOK  BY DEF UsersOK
    <2>2. CASE TcpClientLeaves  BY <2>1, <2>2 DEF TcpClientLeaves, TcpOK
    <2>3. CASE TcpRead  BY <2>1, <2>3 DEF TcpRead, TcpOK
    <2>4. CASE TcpAccept(c)  BY <2>1, <2>4 DEF TcpAccept, TcpOK
    <2>5. CASE TcpWrite(c)  BY <2>1, <2>5 DEF TcpWrite, TcpOK
    <2>6. QED  BY <2>2, <2>3, <2>4, <2>5
  <1>2. CASE TcpClientLeaves \/ TcpRead
    <2>1. UNCHANGED <<faults, names, bound, hasConns, conns, inbox, serve, via, asked, lost>>
      BY <1>2 DEF TcpClientLeaves, TcpRead, netVars, loopVars, nodeVars
    <2>2. QED  BY <1>1, <2>1 DEF UsersOK, BindingsOK, ConnsOK, ServesOK
  <1>3. ASSUME c \in Tcp, TcpAccept(c) PROVE UsersOK'
    <2>1. /\ UNCHANGED <<names, inbox, serve, via, asked>> /\ conns' = conns \cup {c}
          /\ faults < MaxFaults /\ faults' = faults + 1 /\ lost' = lost \cup Unheard(Bound)
          /\ BindNode("cloud", TcpObj, c)
      BY <1>3 DEF TcpAccept, AddNode, loopVars
    <2>2. c \in Conn /\ TcpObj \in Obj /\ "cloud" \in Side  BY <1>3 DEF Conn, Obj, Side
    <2>3. BindingsOK'  BY <2>1, <2>2, BindNodeOK DEF UsersOK
    <2>4. lost' \subseteq Req  BY <2>1, UnheardIsReq DEF UsersOK, ConnsOK
    <2>5. faults' <= MaxFaults  BY <2>1, StreamAssumption DEF NetOK
    <2>6. QED  BY <1>1, <2>1, <2>2, <2>3, <2>4, <2>5 DEF UsersOK, ConnsOK, ServesOK
  <1>4. ASSUME c \in Tcp, TcpWrite(c) PROVE UsersOK'
    <2>1. /\ UNCHANGED <<faults, names, hasConns, serve, via, asked, lost>>
          /\ conns' = conns \/ conns' = conns \ {c}
          /\ inbox' = inbox \/ inbox' = [inbox EXCEPT ![c] = "none"]
          /\ bound' = bound \/ bound' = [bound EXCEPT !["cloud"][TcpObj] = @ \ {c}]
      BY <1>4 DEF TcpWrite, netVars, loopVars
    <2>2. /\ bound' \in [Side -> [Obj -> SUBSET Conn]]
          /\ \A s \in Side, o \in Obj : bound'[s][o] \subseteq bound[s][o]
      <3>1. bound \in [Side -> [Obj -> SUBSET Conn]]  BY DEF UsersOK, BindingsOK
      <3>2. CASE bound' = bound  BY <3>1, <3>2
      <3>3. CASE bound' = [bound EXCEPT !["cloud"][TcpObj] = @ \ {c}]
        <4>1. TcpObj \in Obj /\ "cloud" \in Side  BY DEF Obj, Side
        <4>2. bound["cloud"][TcpObj] \ {c} \in SUBSET Conn  BY <3>1, <4>1
        <4>3. bound' \in [Side -> [Obj -> SUBSET Conn]]  BY <3>1, <3>3, <4>1, <4>2
        <4>4. \A s \in Side, o \in Obj :
                bound'[s][o] = IF s = "cloud" /\ o = TcpObj THEN bound[s][o] \ {c} ELSE bound[s][o]
          BY <3>1, <3>3
        <4>5. QED  BY <4>3, <4>4
      <3>4. QED  BY <2>1, <3>2, <3>3
    <2>3. BindingsOK'  BY <2>1, <2>2 DEF UsersOK, BindingsOK, AtMostOne
    <2>4. ConnsOK'  BY <2>1 DEF UsersOK, ConnsOK
    <2>5. QED  BY <1>1, <2>1, <2>3, <2>4 DEF UsersOK, ServesOK
  <1>5. QED  BY <1>2, <1>3, <1>4

LEMMA UsersInductive ==
    ASSUME Basic, UsersOK, [Next]_vars
    PROVE  UsersOK'
  <1>1. NetOK /\ NodesOK  BY DEF Basic
  <1>2. 1 \in Stream /\ "edge" \in Side  BY StreamAssumption DEF Stream, Side
  <1>3. CASE Open \/ SendReturns \/ NetDown \/ NetUp \/ OpenTooSoon
    BY <1>1, <1>2, <1>3, StreamTypes
  <1>4. CASE MonitorExits  BY <1>4, ExitsTypes DEF MonitorExits
  <1>5. CASE TcpClientLeaves \/ TcpRead  BY <1>1, <1>5, TcpTypes
  <1>6. CASE \E k \in Stream : \/ Clog(k) \/ Accept(k) \/ HandlerReturns(k)
                               \/ Tick(k) \/ SetsRestart(k)
    BY <1>1, <1>2, <1>6, StreamTypes
  <1>7. CASE \E k \in Stream : TickExits(k) \/ ReceiveEarly(k)
    BY <1>1, <1>2, <1>7, ExitsTypes, ReceiveTypes DEF TickExits
  <1>8. CASE \E k \in Stream, s \in Side : Sender(s, k) \/ Loop(s, k)
    BY <1>1, <1>8, StreamTypes, ReceiveTypes DEF Loop
  <1>9. CASE \E k \in Stream, s \in Side : LookUp(s, k) \/ Delete(s, k)
    BY <1>1, <1>9, RemoveTypes
  <1>10. CASE \E r \in Req : FindNode(r) \/ Bind(r) \/ Ask(r) \/ Hear(r) \/ Answer(r)
    BY <1>1, <1>10, RequestTypes
  <1>11. CASE \E c \in Tcp : TcpAccept(c) \/ TcpWrite(c)
    BY <1>1, <1>11, TcpTypes
  <1>12. CASE UNCHANGED vars
    BY <1>12 DEF vars, netVars, loopVars, nodeVars, connVars,
                 UsersOK, BindingsOK, ConnsOK, ServesOK, TcpOK
  <1>13. QED
    BY <1>3, <1>4, <1>5, <1>6, <1>7, <1>8, <1>9, <1>10, <1>11, <1>12 DEF Next, Environment, Heart

LEMMA UsersInitially == Init => UsersOK
  <1> SUFFICES ASSUME Init PROVE UsersOK  OBVIOUS
  <1>1. BindingsOK  BY DEF Init, Both, BindingsOK, AtMostOne
  <1>2. ConnsOK /\ ServesOK /\ TcpOK  BY DEF Init, ConnsOK, ServesOK, TcpOK
  <1>3. faults <= MaxFaults  BY StreamAssumption DEF Init
  <1>4. QED  BY <1>1, <1>2, <1>3 DEF UsersOK

\* Every object has at most one conn bound, every name leads to an object or nowhere,
\* and every goroutine is at one of its places (context_factory.go, node.go).
THEOREM TypeCorrect == Spec => []TypeOK
  <1>1. Init => UsersOK  BY UsersInitially
  <1>2. Basic /\ UsersOK => TypeOK
    <2> SUFFICES ASSUME Basic, UsersOK PROVE TypeOK  OBVIOUS
    <2>1. \A s \in Side, o \in Obj : Cardinality(bound[s][o]) <= 1
      <3> SUFFICES ASSUME NEW s \in Side, NEW o \in Obj PROVE Cardinality(bound[s][o]) <= 1
        OBVIOUS
      <3>1. AtMostOne(bound[s][o])  BY DEF UsersOK, BindingsOK
      <3>2. CASE bound[s][o] = {}  BY <3>2, FS_EmptySet
      <3>3. CASE bound[s][o] # {}
        <4>1. PICK c : bound[s][o] = {c}  BY <3>1, <3>3 DEF AtMostOne
        <4>2. QED  BY <4>1, FS_Singleton
      <3>4. QED  BY <3>2, <3>3
    <2>2. /\ faults \in 0 .. MaxFaults /\ used \in 0 .. MaxStreams /\ cur \in 0 .. used
          /\ over \subseteq Stream /\ closed \subseteq Stream /\ net \in {"up", "down"}
      BY StreamAssumption DEF Basic, NetOK, UsersOK, Stream
    <2>3. /\ tcp.client \in BOOLEAN /\ tcp.socket \in BOOLEAN /\ tcp.stop \in BOOLEAN
          /\ tcp.reader \in {"off", "select", "put", "done"}
          /\ tcp.writer \in {"off", "select", "put", "done"}
      BY DEF UsersOK, TcpOK
    <2>4. QED
      BY <2>1, <2>2, <2>3
      DEF TypeOK, Basic, LoopsOK, NodesOK, UsersOK, BindingsOK, ConnsOK, ServesOK
  <1>3. IInv => Basic  BY DEF IInv
  <1>4. QED  BY <1>1, <1>2, <1>3, Initially, Inductive, UsersInductive, PTL DEF Spec
-----------------------------------------------------------------------------
(* Whoever waits is known to whom the end of the stream is told to.          *)

\* ServeHTTP has asked for r, which has heard nothing yet.
Waits(r) == serve[r] \in {"ask", "wait"} /\ inbox[r] = "none"

Registered == \A r \in Req : serve[r] = "wait" => r \in conns
Named ==
    \A r \in Req : Waits(r) /\ r \in bound["cloud"][via[r]] => r \in lost \/ via[r] = reg["cloud"]

\* A bound request has asked through that object, and what a RemoveNode has read
\* has been told, or was lost.
BoundVia ==
    \A o \in Obj, r \in Req : r \in bound["cloud"][o] =>
        via[r] = o /\ serve[r] \notin {"idle", "bind"}
Read == \A k \in Stream, r \in Req : r \in names["cloud"][k] =>
            serve[r] \notin {"idle", "bind"} /\ (Waits(r) => r \in lost)

WInv == Registered /\ Named /\ BoundVia /\ Read

\* No request takes a step, nothing is bound, and the name stays.
Quiet ==
    /\ UNCHANGED <<serve, via>> /\ lost \subseteq lost'
    /\ \A k \in Stream : names'["cloud"][k] = names["cloud"][k]
    /\ \A r \in Req : /\ inbox'[r] = "none" => inbox[r] = "none"
                      /\ r \in conns => r \in conns'
                      /\ \A o \in Obj : r \in bound'["cloud"][o] => r \in bound["cloud"][o]

LEMMA QuietWaits ==
    ASSUME WInv, UsersOK, Quiet
    PROVE  /\ Registered' /\ BoundVia' /\ Read'
           /\ \A r \in Req : Waits(r)' => Waits(r)
           /\ reg'["cloud"] = reg["cloud"] => Named'
  <1>1. \A r \in Req : Waits(r)' => Waits(r)  BY DEF Quiet, Waits
  <1>2. Registered' /\ BoundVia'  BY DEF Quiet, WInv, Registered, BoundVia
  <1>3. Read'  BY <1>1 DEF Quiet, WInv, Read
  <1>4. \A r \in Req : Waits(r) => via[r] \in Obj
    BY DEF UsersOK, ServesOK, Waits
  <1>5. ASSUME reg'["cloud"] = reg["cloud"] PROVE Named'
    BY <1>1, <1>4, <1>5 DEF Quiet, WInv, Named
  <1>6. QED  BY <1>1, <1>2, <1>3, <1>5

\* The name leads elsewhere: all who waited for the old object have lost.
LEMMA RenamedWaits ==
    ASSUME WInv, UsersOK, Quiet, \A r \in Unheard(Bound) : r \in lost'
    PROVE  WInv'
  <1>1. /\ Registered' /\ BoundVia' /\ Read'
        /\ \A r \in Req : Waits(r)' => Waits(r)
    BY QuietWaits
  <1>2. ASSUME NEW r \in Req, Waits(r)', r \in bound'["cloud"][via'[r]] PROVE r \in lost'
    <2>1. Waits(r) /\ via'[r] = via[r]  BY <1>1, <1>2 DEF Quiet
    <2>2. via[r] \in Obj /\ via[r] # 0  BY <2>1 DEF UsersOK, ServesOK, Waits
    <2>3. r \in bound["cloud"][via[r]]  BY <1>2, <2>1, <2>2 DEF Quiet
    <2>4. r \in lost \/ via[r] = reg["cloud"]  BY <2>1, <2>3 DEF WInv, Named
    <2>5. CASE via[r] = reg["cloud"]
      <3>1. r \in Unheard(Bound)  BY <2>1, <2>2, <2>3, <2>5 DEF Unheard, Bound, Waits
      <3>2. QED  BY <3>1
    <2>6. QED  BY <2>4, <2>5 DEF Quiet
  <1>3. Named'  BY <1>2 DEF Named
  <1>4. QED  BY <1>1, <1>3 DEF WInv

\* The loops of the streams, TCP and the edge.
LEMMA StreamWaits ==
    ASSUME WInv, Basic, UsersOK, NEW s \in Side, NEW k \in Stream,
           \/ Open \/ SendReturns \/ NetDown \/ NetUp \/ OpenTooSoon \/ Clog(k) \/ Accept(k)
           \/ HandlerReturns(k) \/ Tick(k) \/ SetsRestart(k) \/ Sender(s, k) \/ ReceiveFails(s, k)
    PROVE  WInv'
  <1>1. UNCHANGED <<names, bound, conns, inbox, serve, via>>
    BY DEF Open, Opens, SendReturns, NetDown, NetUp, OpenTooSoon, Clog, Accept, HandlerReturns,
           Tick, SetsRestart, Sender, Drain, SendFails, ReceiveFails, connVars, nodeVars, loopVars
  <1>2. \/ reg' = reg /\ lost' = lost
        \/ \E o \in Obj : AddNode("edge", o)
        \/ \E o \in Obj : AddNode("cloud", o)
    <2>1. CASE Open \/ OpenTooSoon
      <3>1. used + 1 \in Obj
        BY <2>1 DEF Open, OpenTooSoon, Opens, Basic, NetOK, Obj, Stream
      <3>2. QED  BY <2>1, <3>1 DEF Open, OpenTooSoon, Opens, Starts
    <2>2. CASE Accept(k)
      <3>1. k \in Obj  BY DEF Obj
      <3>2. QED  BY <2>2, <3>1 DEF Accept, Starts
    <2>3. CASE ~(Open \/ OpenTooSoon \/ Accept(k))
      BY <2>3 DEF SendReturns, NetDown, NetUp, Clog, HandlerReturns,
                  Tick, SetsRestart, Sender, Drain, SendFails, ReceiveFails, connVars, nodeVars
    <2>4. QED  BY <2>1, <2>2, <2>3
  <1>3. lost \subseteq lost'  BY <1>2 DEF AddNode
  <1>4. Quiet  BY <1>1, <1>3 DEF Quiet
  <1>5. CASE \E o \in Obj : AddNode("cloud", o)
    <2>1. lost' = lost \cup Unheard(Bound)  BY <1>5 DEF AddNode
    <2>2. QED  BY <1>4, <2>1, RenamedWaits
  <1>6. CASE \/ reg' = reg /\ lost' = lost
             \/ \E o \in Obj : AddNode("edge", o)
    <2>1. reg'["cloud"] = reg["cloud"]
      BY <1>6 DEF AddNode, Basic, NodesOK, Side
    <2>2. QED  BY <1>4, <2>1, QuietWaits DEF WInv
  <1>7. QED  BY <1>2, <1>5, <1>6

LEMMA ElsewhereWaits ==
    ASSUME WInv, Basic, UsersOK, NEW s \in Side, NEW k \in Stream, NEW r \in Req, NEW c,
           \/ Receives(s, k) \/ Exits \/ Answer(r) \/ TcpClientLeaves \/ TcpRead
           \/ c \in Tcp /\ TcpWrite(c)
    PROVE  WInv'
  <1>1. UNCHANGED <<serve, via, lost>> /\ reg'["cloud"] = reg["cloud"]
    BY DEF Receives, Exits, Answer, TcpClientLeaves, TcpRead, TcpWrite, nodeVars, Basic, NodesOK, Side
  <1>2. \A j \in Stream : names'["cloud"][j] = names["cloud"][j]
    BY DEF Receives, Exits, Answer, TcpClientLeaves, TcpRead, TcpWrite, loopVars,
           UsersOK, BindingsOK, Side
  <1>3. \A q \in Req : /\ q \in Conn /\ q \notin Tcp
                       /\ inbox'[q] = "none" => inbox[q] = "none"
                       /\ q \in conns => q \in conns'
    <2>1. \A q \in Req : q \in Conn /\ q \notin Tcp  BY StreamAssumption DEF Conn
    <2>2. CASE Receives(s, k)
      <3>1. \E C : inbox' = inbox \/ Tell(C, "answer")
        BY <2>2 DEF Receives, CloudHandles, EdgeHandles
      <3>2. conns' = conns  BY <2>2 DEF Receives
      <3>3. QED  BY <2>1, <3>1, <3>2 DEF Tell
    <2>3. CASE c \in Tcp /\ TcpWrite(c)
      <3>1. /\ inbox' = inbox \/ inbox' = [inbox EXCEPT ![c] = "none"]
            /\ conns' = conns \/ conns' = conns \ {c}
        BY <2>3 DEF TcpWrite
      <3>2. QED  BY <2>1, <2>3, <3>1 DEF UsersOK, ConnsOK
    <2>4. CASE Exits \/ Answer(r) \/ TcpClientLeaves \/ TcpRead
      BY <2>1, <2>4 DEF Exits, Answer, TcpClientLeaves, TcpRead
    <2>5. QED  BY <2>2, <2>3, <2>4
  <1>4. \A q \in Req, o \in Obj : q \in bound'["cloud"][o] => q \in bound["cloud"][o]
    <2>1. bound \in [Side -> [Obj -> SUBSET Conn]] /\ "cloud" \in Side  BY DEF UsersOK, BindingsOK, Side
    <2>2. CASE c \in Tcp /\ TcpWrite(c)
      <3>1. bound' = bound \/ bound' = [bound EXCEPT !["cloud"][TcpObj] = @ \ {c}]
        BY <2>2 DEF TcpWrite
      <3>2. QED  BY <2>1, <3>1
    <2>3. CASE Answer(r)
      <3>1. bound' = bound \/ bound' = [bound EXCEPT !["edge"][reg["edge"]] = {r}]
        BY <2>3 DEF Answer, BindNode
      <3>2. QED  BY <2>1, <3>1
    <2>4. CASE Exits \/ Receives(s, k) \/ TcpClientLeaves \/ TcpRead
      BY <2>1, <2>4 DEF Exits, Receives, TcpClientLeaves, TcpRead, nodeVars
    <2>5. QED  BY <2>2, <2>3, <2>4
  <1>5. Quiet  BY <1>1, <1>2, <1>3, <1>4 DEF Quiet
  <1>6. QED  BY <1>1, <1>5, QuietWaits DEF WInv

LEMMA TcpAcceptWaits ==
    ASSUME WInv, Basic, UsersOK, NEW c \in Tcp, TcpAccept(c)
    PROVE  WInv'
  <1>1. /\ UNCHANGED <<names, inbox, serve, via>> /\ conns' = conns \cup {c}
        /\ lost' = lost \cup Unheard(Bound) /\ BindNode("cloud", TcpObj, c)
    BY DEF TcpAccept, AddNode, loopVars
  <1>2. \A q \in Req, o \in Obj : q \in bound'["cloud"][o] => q \in bound["cloud"][o]
    <2>1. bound \in [Side -> [Obj -> SUBSET Conn]] /\ "cloud" \in Side  BY DEF UsersOK, BindingsOK, Side
    <2>2. bound' = bound \/ bound' = [bound EXCEPT !["cloud"][TcpObj] = {c}]
      BY <1>1 DEF BindNode
    <2>3. \A q \in Req : q # c  BY StreamAssumption
    <2>4. QED  BY <2>1, <2>2, <2>3
  <1>3. Quiet  BY <1>1, <1>2 DEF Quiet
  <1>4. QED  BY <1>1, <1>3, RenamedWaits

\* RemoveNode first tells those it has read.
LEMMA LookUpWaits ==
    ASSUME WInv, Basic, UsersOK, NEW s \in Side, NEW k \in Stream, LookUp(s, k)
    PROVE  WInv'
  <1>1. UNCHANGED <<reg, bound, conns, serve, via>>  BY DEF LookUp, nodeVars
  <1>2. lost \subseteq lost'  BY DEF LookUp
  <1>3. \A r \in Req : r \in Conn /\ (inbox'[r] = "none" => inbox[r] = "none")
    <2>1. \E C : inbox' = inbox \/ Tell(C, "closed")  BY DEF LookUp
    <2>2. QED  BY <2>1 DEF Tell, Conn
  <1>4. CASE \A j \in Stream : names'["cloud"][j] = names["cloud"][j]
    <2>1. Quiet  BY <1>1, <1>2, <1>3, <1>4 DEF Quiet
    <2>2. QED  BY <1>1, <2>1, QuietWaits DEF WInv
  <1>5. CASE ~\A j \in Stream : names'["cloud"][j] = names["cloud"][j]
    <2>1. names \in [Side -> [Stream -> SUBSET Conn]]  BY DEF UsersOK, BindingsOK
    <2>2. /\ s = "cloud" /\ reg["cloud"] # 0
          /\ names' = [names EXCEPT !["cloud"][k] = bound["cloud"][reg["cloud"]]]
          /\ Tell(Bound \cap conns, "closed") /\ lost' = lost \cup (Unheard(Bound) \ conns)
      BY <1>5, <2>1 DEF LookUp, Side
    <2>3. /\ names'["cloud"][k] = Bound
          /\ \A j \in Stream : j # k => names'["cloud"][j] = names["cloud"][j]
      BY <2>1, <2>2 DEF Bound, Side
    <2>4. \A r \in Req : Waits(r)' => Waits(r)  BY <1>1, <1>3 DEF Waits
    <2>5. Registered' /\ BoundVia'  BY <1>1 DEF WInv, Registered, BoundVia
    <2>6. Named'  BY <1>1, <1>2, <2>4 DEF WInv, Named
    <2>7. ASSUME NEW r \in Req, r \in Bound
          PROVE  serve[r] \notin {"idle", "bind"} /\ (Waits(r)' => r \in lost')
      <3>1. reg["cloud"] \in Obj  BY <2>2 DEF Basic, NodesOK, Side
      <3>2. serve[r] \notin {"idle", "bind"}  BY <2>2, <2>7, <3>1 DEF WInv, BoundVia, Bound
      <3>3. ASSUME Waits(r)' PROVE r \in lost'
        <4>1. Waits(r)  BY <2>4, <3>3
        <4>2. r \notin conns
          BY <1>3, <2>2, <2>7, <3>3, <4>1 DEF Tell, Waits
        <4>3. r \in Unheard(Bound)  BY <2>7, <4>1 DEF Unheard, Waits
        <4>4. QED  BY <2>2, <4>2, <4>3
      <3>4. QED  BY <3>2, <3>3
    <2>8. Read'  BY <1>1, <1>2, <2>3, <2>4, <2>7 DEF WInv, Read
    <2>9. QED  BY <2>5, <2>6, <2>8 DEF WInv
  <1>6. QED  BY <1>4, <1>5

\* Then it removes the name, whatever it leads to: who is bound there by now and was
\* not read has lost.
LEMMA DeleteWaits ==
    ASSUME WInv, Basic, UsersOK, NEW s \in Side, NEW k \in Stream, Delete(s, k)
    PROVE  WInv'
  <1>1. /\ UNCHANGED <<bound, conns, inbox, serve, via>> /\ reg' = [reg EXCEPT ![s] = 0]
        /\ names' = [names EXCEPT ![s][k] = {}]
        /\ lost' = IF s = "cloud" THEN lost \cup (Unheard(Bound) \ names[s][k]) ELSE lost
    BY DEF Delete
  <1>2. names \in [Side -> [Stream -> SUBSET Conn]]  BY DEF UsersOK, BindingsOK
  <1>3. \A j \in Stream : names'["cloud"][j] = names["cloud"][j] \/ names'["cloud"][j] = {}
    BY <1>1, <1>2 DEF Side
  <1>4. Registered' /\ BoundVia'  BY <1>1 DEF WInv, Registered, BoundVia
  <1>5. Read'  BY <1>1, <1>3 DEF WInv, Read, Waits
  <1>6. CASE s = "edge"
    <2>1. reg'["cloud"] = reg["cloud"] /\ lost' = lost
      BY <1>1, <1>6 DEF Basic, NodesOK, Side
    <2>2. Named'  BY <1>1, <2>1 DEF WInv, Named, Waits
    <2>3. QED  BY <1>4, <1>5, <2>2 DEF WInv
  <1>7. CASE s = "cloud"
    <2>1. ASSUME NEW r \in Req, Waits(r), r \in bound["cloud"][via[r]] PROVE r \in lost'
      <3>1. r \in lost \/ via[r] = reg["cloud"]  BY <2>1 DEF WInv, Named
      <3>2. CASE via[r] = reg["cloud"]
        <4>1. via[r] # 0  BY <2>1 DEF UsersOK, ServesOK, Waits
        <4>2. r \in Unheard(Bound)  BY <2>1, <3>2, <4>1 DEF Unheard, Bound, Waits
        <4>3. r \in names["cloud"][k] => r \in lost  BY <2>1 DEF WInv, Read
        <4>4. QED  BY <1>1, <1>7, <4>2, <4>3
      <3>3. QED  BY <1>1, <3>1, <3>2
    <2>2. Named'  BY <1>1, <2>1 DEF Named, Waits
    <2>3. QED  BY <1>4, <1>5, <2>2 DEF WInv
  <1>8. QED  BY <1>6, <1>7 DEF Side

\* ServeHTTP finds the object, is bound to it, and asks.
LEMMA RequestWaits ==
    ASSUME WInv, Basic, UsersOK, NEW r \in Req, FindNode(r) \/ Bind(r) \/ Ask(r) \/ Hear(r)
    PROVE  WInv'
  <1>1. serve \in [Req -> {"idle", "bind", "ask", "wait", "done"}] /\ via \in [Req -> Obj \cup {0}]
    BY DEF UsersOK, ServesOK
  <1>2. UNCHANGED <<names, inbox>> /\ lost \subseteq lost'
        /\ \A q \in Req : q # r => serve'[q] = serve[q] /\ via'[q] = via[q]
                                   /\ (q \in conns => q \in conns')
    BY <1>1 DEF FindNode, Bind, Ask, Hear, Goes, loopVars
  <1>3. CASE FindNode(r)
    <2>1. /\ serve[r] = "idle" /\ serve'[r] \in {"bind", "done"} /\ UNCHANGED <<reg, bound, conns, lost>>
      BY <1>1, <1>3 DEF FindNode, Goes, nodeVars
    <2>2. \A o \in Obj : r \notin bound["cloud"][o]  BY <2>1 DEF WInv, BoundVia
    <2>3. \A k \in Stream : r \notin names["cloud"][k]  BY <2>1 DEF WInv, Read
    <2>4. QED
      BY <1>2, <2>1, <2>2, <2>3 DEF WInv, Registered, Named, BoundVia, Read, Waits
  <1>4. CASE Bind(r)
    <2>1. /\ serve[r] = "bind" /\ serve'[r] = "ask" /\ via' = via /\ via[r] \in Obj
          /\ UNCHANGED <<reg, conns>>
          /\ lost' = IF via[r] = reg["cloud"] THEN lost ELSE lost \cup {r}
          /\ BindNode("cloud", via[r], r)
      BY <1>1, <1>4 DEF Bind, Goes, UsersOK, ServesOK
    <2>2. \A o \in Obj, q \in Req : q \in bound'["cloud"][o] =>
              q \in bound["cloud"][o] \/ (q = r /\ o = via[r])
      BY <2>1 DEF BindNode, UsersOK, BindingsOK, Side
    <2>3. \A k \in Stream : r \notin names["cloud"][k]  BY <2>1 DEF WInv, Read
    <2>4. \A q \in Req : Waits(q) => via[q] \in Obj  BY <1>1 DEF UsersOK, ServesOK, Waits
    <2>5. Registered'  BY <1>2, <2>1 DEF WInv, Registered
    <2>6. Named'
      <3>1. ASSUME NEW q \in Req, q # r, Waits(q)', q \in bound'["cloud"][via[q]]
            PROVE  q \in lost' \/ via[q] = reg["cloud"]
        BY <1>2, <2>2, <2>4, <3>1 DEF WInv, Named, Waits
      <3>2. r \in lost' \/ via[r] = reg["cloud"]  BY <2>1
      <3>3. QED  BY <2>1, <3>1, <3>2 DEF Named
    <2>7. BoundVia'  BY <1>2, <2>1, <2>2 DEF WInv, BoundVia
    <2>8. Read'  BY <1>2, <2>3 DEF WInv, Read, Waits
    <2>9. QED  BY <2>5, <2>6, <2>7, <2>8 DEF WInv
  <1>5. CASE Ask(r)
    <2>1. /\ serve[r] = "ask" /\ serve'[r] = "wait" /\ conns' = conns \cup {r}
          /\ UNCHANGED <<reg, bound, via, lost>>
      BY <1>1, <1>5 DEF Ask, Goes
    <2>2. QED  BY <1>2, <2>1 DEF WInv, Registered, Named, BoundVia, Read, Waits
  <1>6. CASE Hear(r)
    <2>1. serve[r] = "wait" /\ serve'[r] = "done" /\ UNCHANGED <<reg, bound, via, lost>>
      BY <1>1, <1>6 DEF Hear, Goes, nodeVars
    <2>2. QED  BY <1>2, <2>1 DEF WInv, Registered, Named, BoundVia, Read, Waits
  <1>7. QED  BY <1>3, <1>4, <1>5, <1>6

LEMMA WaitsInductive ==
    ASSUME WInv, Basic, UsersOK, [Next]_vars
    PROVE  WInv'
  <1>1. 1 \in Stream /\ "edge" \in Side  BY StreamAssumption DEF Stream, Side
  <1>2. CASE Open \/ SendReturns \/ NetDown \/ NetUp \/ OpenTooSoon  BY <1>1, <1>2, StreamWaits
  <1>3. CASE UNCHANGED vars
    <2>1. Quiet /\ reg' = reg
      BY <1>3 DEF vars, loopVars, nodeVars, connVars, Quiet
    <2>2. QED  BY <2>1, QuietWaits DEF WInv
  <1>4. CASE MonitorExits \/ TcpClientLeaves \/ TcpRead \/ \E k \in Stream : TickExits(k)
    <2>1. CASE Req = {}  BY <2>1 DEF WInv, Registered, Named, BoundVia, Read
    <2>2. CASE Req # {}  BY <1>1, <1>4, <2>2, ElsewhereWaits DEF MonitorExits, TickExits
    <2>3. QED  BY <2>1, <2>2
  <1>5. CASE \E k \in Stream : \/ Clog(k) \/ Accept(k) \/ HandlerReturns(k)
                               \/ Tick(k) \/ SetsRestart(k)
    BY <1>1, <1>5, StreamWaits
  <1>6. CASE \E k \in Stream, s \in Side : Sender(s, k) \/ ReceiveFails(s, k)
    BY <1>6, StreamWaits
  <1>7. CASE \E k \in Stream : ReceiveEarly(k) \/ \E s \in Side : Receive(s, k)
    <2>0. \E k \in Stream, s \in Side : Receives(s, k)
      BY <1>1, <1>7 DEF Receive, ReceiveEarly
    <2>1. CASE Req = {}  BY <2>1 DEF WInv, Registered, Named, BoundVia, Read
    <2>2. CASE Req # {}  BY <2>0, <2>2, ElsewhereWaits
    <2>3. QED  BY <2>1, <2>2
  <1>8. CASE \E k \in Stream, s \in Side : LookUp(s, k) \/ Delete(s, k)
    BY <1>8, LookUpWaits, DeleteWaits
  <1>9. CASE \E r \in Req : FindNode(r) \/ Bind(r) \/ Ask(r) \/ Hear(r)
    BY <1>9, RequestWaits
  <1>10. CASE \E r \in Req : Answer(r)  BY <1>1, <1>10, ElsewhereWaits
  <1>11. CASE \E c \in Tcp : TcpAccept(c)  BY <1>11, TcpAcceptWaits
  <1>12. CASE \E c \in Tcp : TcpWrite(c)
    <2>1. CASE Req = {}  BY <2>1 DEF WInv, Registered, Named, BoundVia, Read
    <2>2. CASE Req # {}  BY <1>1, <1>12, <2>2, ElsewhereWaits
    <2>3. QED  BY <2>1, <2>2
  <1>13. QED
    BY <1>2, <1>3, <1>4, <1>5, <1>6, <1>7, <1>8, <1>9, <1>10, <1>11, <1>12
    DEF Next, Environment, Loop, Heart

\* A request that waits, is bound, and lost no race with a registration, is found by
\* whoever removes the node: the name leads to the object it is bound to, and its conn
\* is registered.  This is why it is told when the stream breaks, whichever streams
\* come and go in between (context_factory.go RemoveNode, httpsserver.go ServeHTTP).
NobodyIsForgotten ==
    \A r \in Req : serve[r] = "wait" /\ inbox[r] = "none" /\ r \in bound["cloud"][via[r]] =>
        r \in lost \/ (reg["cloud"] = via[r] /\ r \in conns)
THEOREM WaitersAreFound == Spec => []NobodyIsForgotten
  <1>1. Init => WInv
    <2> SUFFICES ASSUME Init PROVE WInv  OBVIOUS
    <2>1. \A r \in Req : serve[r] = "idle"  BY DEF Init
    <2>2. \A o \in Obj : bound["cloud"][o] = {}  BY DEF Init, Both, Side
    <2>3. \A k \in Stream : names["cloud"][k] = {}  BY DEF Init, Both, Side
    <2>4. QED  BY <2>1, <2>2, <2>3 DEF WInv, Registered, Named, BoundVia, Read, Waits
  <1>2. WInv => NobodyIsForgotten
    BY DEF WInv, Registered, Named, Waits, NobodyIsForgotten
  <1>3. IInv => Basic  BY DEF IInv
  <1>4. QED
    BY <1>1, <1>2, <1>3, Initially, Inductive, UsersInitially, UsersInductive, WaitsInductive, PTL
    DEF Spec
=============================================================================
