--------------------------- MODULE AdmissionProofs ---------------------------
(* Proofs about Admission, for any nodes, any service and any number of    *)
(* failures: first the node half (nodeTaint), then the Endpoints half      *)
(* (endPoint and the patch it writes).                                     *)
EXTENDS Admission, SequenceTheorems, FiniteSetTheorems, TLAPS

USE AdmissionAssumption

(* No taint is listed twice: without it the one removal that nodeTaint     *)
(* writes would not be enough.                                             *)
Once(ts) == \A i, j \in DOMAIN ts : ts[i] = ts[j] => i = j

NodesOK ==
    /\ ready \in [Node -> {"True", "Unknown"}]
    /\ annot \in [Node -> BOOLEAN]
    /\ taints \in [Node -> Seq(Taint)]

IInv == NodesOK /\ \A n \in Node : Once(taints[n])

-----------------------------------------------------------------------------
(* A list without the element at position i.                               *)
LEMMA RemoveAny ==
    ASSUME NEW S, NEW ts \in Seq(S), NEW i \in DOMAIN ts
    PROVE  /\ RemoveAt(ts, i) \in Seq(S)
           /\ Len(RemoveAt(ts, i)) = Len(ts) - 1
           /\ \A j \in 1..Len(RemoveAt(ts, i)) :
                 RemoveAt(ts, i)[j] = ts[IF j < i THEN j ELSE j + 1]
  <1> DEFINE new == RemoveAt(ts, i)
             at(j) == IF j < i THEN j ELSE j + 1
  <1>0. i \in 1..Len(ts) /\ Len(ts) \in Nat /\ DOMAIN ts = 1..Len(ts)
      OBVIOUS
  <1> DEFINE left == SubSeq(ts, 1, i - 1)
             right == SubSeq(ts, i + 1, Len(ts))
  <1>1. /\ left \in Seq(S) /\ Len(left) = i - 1
        /\ \A j \in 1..(i - 1) : left[j] = ts[j]
      BY <1>0, SubSeqProperties
  <1>2. /\ right \in Seq(S) /\ Len(right) = Len(ts) - i
        /\ \A j \in 1..(Len(ts) - i) : right[j] = ts[i + j]
    <2>1. right \in Seq(S)
        BY <1>0, SubSeqProperties
    <2>2. Len(right) = Len(ts) - i
        BY <1>0, SubSeqProperties
    <2>3. \A j \in 1..(Len(ts) - i) : right[j] = ts[i + 1 + j - 1]
        BY <1>0, <2>2, SubSeqProperties
    <2> QED BY <1>0, <2>1, <2>2, <2>3
  <1>3. new = left \o right
      BY DEF RemoveAt
  <1> HIDE DEF left, right, new
  <1>4. /\ new \in Seq(S) /\ Len(new) = Len(left) + Len(right)
        /\ \A j \in 1..(Len(left) + Len(right)) :
              new[j] = IF j <= Len(left) THEN left[j] ELSE right[j - Len(left)]
    <2>1. left \in Seq(S) /\ right \in Seq(S)
        BY <1>1, <1>2
    <2> QED BY <1>3, <2>1, ConcatProperties
  <1>5. Len(new) = Len(ts) - 1
      BY <1>0, <1>1, <1>2, <1>4
  <1>6. ASSUME NEW j \in 1..Len(new) PROVE new[j] = ts[at(j)]
    <2>1. CASE j < i
        BY <1>0, <1>1, <1>4, <2>1
    <2>2. CASE j >= i
      <3>1. /\ j - Len(left) \in 1..(Len(ts) - i) /\ i + (j - Len(left)) = j + 1
            /\ ~(j <= Len(left)) /\ j \in 1..(Len(left) + Len(right))
          BY <1>0, <1>1, <1>2, <1>5, <2>2
      <3>2. new[j] = right[j - Len(left)]
          BY <1>4, <3>1
      <3>3. right[j - Len(left)] = ts[j + 1]
          BY <1>2, <3>1
      <3> QED BY <1>0, <2>2, <3>2, <3>3
    <2> QED BY <1>0, <2>1, <2>2
  <1> QED BY <1>4, <1>5, <1>6 DEF new

(* If it had no repetitions, it has none, and only that element is gone.   *)
LEMMA RemoveOne ==
    ASSUME NEW S, NEW ts \in Seq(S), Once(ts), NEW i \in DOMAIN ts
    PROVE  /\ RemoveAt(ts, i) \in Seq(S)
           /\ Once(RemoveAt(ts, i))
           /\ Len(RemoveAt(ts, i)) = Len(ts) - 1
           /\ ToSet(RemoveAt(ts, i)) = ToSet(ts) \ {ts[i]}
  <1> DEFINE new == RemoveAt(ts, i)
             at(j) == IF j < i THEN j ELSE j + 1
  <1>1. i \in 1..Len(ts) /\ Len(ts) \in Nat /\ DOMAIN ts = 1..Len(ts)
      OBVIOUS
  <1>2. /\ new \in Seq(S)
        /\ Len(new) = Len(ts) - 1
        /\ \A j \in 1..Len(new) : new[j] = ts[at(j)]
      BY RemoveAny
  <1> HIDE DEF new
  <1>3. DOMAIN new = 1..Len(new) /\ Len(new) = Len(ts) - 1
      BY <1>2
  <1>4. \A j \in 1..Len(new) : at(j) \in 1..Len(ts) /\ at(j) # i
      BY <1>1, <1>3
  <1>5. \A k \in 1..Len(ts) : k # i => \E j \in 1..Len(new) : at(j) = k
    <2> SUFFICES ASSUME NEW k \in 1..Len(ts), k # i
                 PROVE  \E j \in 1..Len(new) : at(j) = k
        OBVIOUS
    <2>1. CASE k < i
        BY <1>1, <1>3, <2>1
    <2>2. CASE k > i
      <3>1. k - 1 \in 1..Len(new) /\ at(k - 1) = k
          BY <1>1, <1>3, <2>2
      <3> QED BY <3>1
    <2> QED BY <1>1, <2>1, <2>2
  <1>6. Once(new)
    <2> SUFFICES ASSUME NEW j \in 1..Len(new), NEW k \in 1..Len(new), new[j] = new[k]
                 PROVE  j = k
        BY <1>3 DEF Once
    <2>1. at(j) = at(k)
        BY <1>1, <1>2, <1>4 DEF Once
    <2> QED BY <2>1, <1>1, <1>3
  <1>7. ToSet(new) = ToSet(ts) \ {ts[i]}
    <2> HIDE DEF at
    <2>1. \A j \in 1..Len(new) : new[j] \in ToSet(ts) \ {ts[i]}
        BY <1>1, <1>2, <1>4 DEF Once, ToSet
    <2>2. \A k \in 1..Len(ts) : ts[k] # ts[i] => \E j \in 1..Len(new) : new[j] = ts[k]
        BY <1>2, <1>5
    <2>3. ToSet(new) = {new[j] : j \in 1..Len(new)} /\ ToSet(ts) = {ts[k] : k \in 1..Len(ts)}
        BY <1>1, <1>3 DEF ToSet
    <2>4. ToSet(new) \subseteq ToSet(ts) \ {ts[i]}
        BY <2>1, <2>3
    <2>5. ToSet(ts) \ {ts[i]} \subseteq ToSet(new)
      <3> SUFFICES ASSUME NEW k \in 1..Len(ts), ts[k] # ts[i]
                   PROVE  ts[k] \in ToSet(new)
          BY <2>3
      <3> QED BY <2>2, <2>3
    <2> QED BY <2>4, <2>5
  <1> QED BY <1>2, <1>6, <1>7 DEF new

(* A list with one more element, put in at position i.                     *)
LEMMA InsertOne ==
    ASSUME NEW S, NEW ts \in Seq(S), NEW i \in 1..(Len(ts) + 1), NEW e \in S
    PROVE  /\ InsertAt(ts, i, e) \in Seq(S)
           /\ Len(InsertAt(ts, i, e)) = Len(ts) + 1
           /\ ToSet(InsertAt(ts, i, e)) = ToSet(ts) \cup {e}
  <1> DEFINE new == InsertAt(ts, i, e)
             left == SubSeq(ts, 1, i - 1)
             right == SubSeq(ts, i, Len(ts))
             most == left \o <<e>>
  <1>1. Len(ts) \in Nat /\ DOMAIN ts = 1..Len(ts) /\ i \in Nat /\ i >= 1
      OBVIOUS
  <1>2. /\ left \in Seq(S) /\ Len(left) = i - 1
        /\ \A j \in 1..(i - 1) : left[j] = ts[j]
      BY <1>1, SubSeqProperties
  <1>3. /\ right \in Seq(S) /\ Len(right) = Len(ts) - i + 1
        /\ \A j \in 1..(Len(ts) - i + 1) : right[j] = ts[i + j - 1]
      BY <1>1, SubSeqProperties
  <1>4. new = most \o right
      BY DEF InsertAt
  <1> HIDE DEF left, right, new
  <1>5. /\ most \in Seq(S) /\ Len(most) = i
        /\ most[i] = e
        /\ \A j \in 1..(i - 1) : most[j] = ts[j]
      BY <1>1, <1>2
  <1> HIDE DEF most
  <1>6. /\ new \in Seq(S) /\ Len(new) = Len(ts) + 1
        /\ new[i] = e
        /\ \A j \in 1..(i - 1) : new[j] = ts[j]
        /\ \A j \in (i + 1)..(Len(ts) + 1) : new[j] = ts[j - 1]
    <2>1. /\ new \in Seq(S) /\ Len(new) = Len(most) + Len(right)
          /\ \A j \in 1..(Len(most) + Len(right)) :
                new[j] = IF j <= Len(most) THEN most[j] ELSE right[j - Len(most)]
        BY <1>3, <1>4, <1>5, ConcatProperties
    <2>2. new[i] = e /\ \A j \in 1..(i - 1) : new[j] = ts[j]
        BY <1>1, <1>3, <1>5, <2>1
    <2>3. ASSUME NEW j \in (i + 1)..(Len(ts) + 1) PROVE new[j] = ts[j - 1]
      <3>1. /\ j - i \in 1..(Len(ts) - i + 1) /\ i + (j - i) - 1 = j - 1
            /\ ~(j <= i) /\ j \in 1..(i + (Len(ts) - i + 1))
          BY <1>1
      <3>2. new[j] = right[j - i]
          BY <1>3, <1>5, <2>1, <3>1
      <3> QED BY <1>3, <3>1, <3>2
    <2>4. Len(new) = Len(ts) + 1
        BY <1>1, <1>3, <1>5, <2>1
    <2> QED BY <2>1, <2>2, <2>3, <2>4
  <1>7. ASSUME NEW j \in 1..(Len(ts) + 1)
        PROVE  new[j] = e \/ \E k \in 1..Len(ts) : new[j] = ts[k]
    <2>1. CASE j < i
      <3>1. j \in 1..(i - 1) /\ j \in 1..Len(ts)
          BY <1>1, <2>1
      <3>2. new[j] = ts[j]
          BY <1>6, <3>1
      <3> QED BY <3>1, <3>2
    <2>2. CASE j = i
        BY <1>6, <2>2
    <2>3. CASE j > i
      <3>1. j - 1 \in 1..Len(ts) /\ j \in (i + 1)..(Len(ts) + 1)
          BY <1>1, <2>3
      <3> QED BY <1>6, <3>1
    <2> QED BY <1>1, <2>1, <2>2, <2>3
  <1>8. ASSUME NEW k \in 1..Len(ts)
        PROVE  \E j \in 1..(Len(ts) + 1) : new[j] = ts[k]
    <2>1. CASE k < i
        BY <1>1, <1>6, <2>1
    <2>2. CASE k >= i
      <3>1. k + 1 \in (i + 1)..(Len(ts) + 1) /\ (k + 1) - 1 = k
            /\ k + 1 \in 1..(Len(ts) + 1)
          BY <1>1, <2>2
      <3>2. new[k + 1] = ts[k]
          BY <1>6, <3>1
      <3> QED BY <3>1, <3>2
    <2> QED BY <1>1, <2>1, <2>2
  <1>9. ToSet(new) = ToSet(ts) \cup {e}
    <2>1. /\ ToSet(new) = {new[j] : j \in 1..(Len(ts) + 1)}
          /\ ToSet(ts) = {ts[k] : k \in 1..Len(ts)}
      <3>1. DOMAIN new = 1..(Len(ts) + 1)
          BY <1>6
      <3> QED BY <1>1, <3>1 DEF ToSet
    <2>2. e \in ToSet(new)
        BY <1>1, <1>6, <2>1
    <2>3. ToSet(new) \subseteq ToSet(ts) \cup {e}
        BY <1>7, <2>1
    <2>4. ToSet(ts) \subseteq ToSet(new)
        BY <1>8, <2>1
    <2> QED BY <2>2, <2>3, <2>4
  <1> QED BY <1>6, <1>9 DEF new

LEMMA AddOne ==
    ASSUME NEW ts \in Seq(Taint), Once(ts), NEW t \in Taint \ ToSet(ts)
    PROVE  /\ Append(ts, t) \in Seq(Taint)
           /\ Once(Append(ts, t))
           /\ ToSet(ts) \subseteq ToSet(Append(ts, t))
  <1>1. /\ DOMAIN ts = 1..Len(ts) /\ Len(ts) \in Nat
        /\ DOMAIN Append(ts, t) = 1..(Len(ts) + 1)
        /\ \A i \in 1..Len(ts) : Append(ts, t)[i] = ts[i] /\ ts[i] # t
        /\ Append(ts, t)[Len(ts) + 1] = t
      BY DEF ToSet
  <1> QED BY <1>1 DEF Once, ToSet

LEMMA PositionExists ==
    ASSUME NEW ts \in Seq(Taint), Once(ts), NoExecute \in ToSet(ts)
    PROVE  /\ TaintExistsPosition(ts) \in DOMAIN ts
           /\ ts[TaintExistsPosition(ts)] = NoExecute
  <1>1. PICK i \in DOMAIN ts : ts[i] = NoExecute
      BY DEF ToSet
  <1>2. \A j \in 1..(i - 1) : ts[j] # NoExecute
      BY <1>1 DEF Once
  <1> QED BY <1>1, <1>2 DEF TaintExistsPosition

(* nodeTaint takes NoExecute and nothing else, and takes it whenever the   *)
(* node is Unknown and not marked.                                         *)
LEMMA NodeTaintStrips ==
    ASSUME NEW n \in Node, NEW healthy \in BOOLEAN, NEW ts \in Seq(Taint), Once(ts)
    PROVE  /\ nodeTaint(n, healthy, ts) \in Seq(Taint)
           /\ Once(nodeTaint(n, healthy, ts))
           /\ ToSet(ts) \ ToSet(nodeTaint(n, healthy, ts)) \subseteq {NoExecute}
           /\ ready[n] = "Unknown" /\ healthy =>
                  NoExecute \notin ToSet(nodeTaint(n, healthy, ts))
  <1>1. CASE ready[n] = "Unknown" /\ healthy /\ NoExecute \in ToSet(ts)
    <2>1. nodeTaint(n, healthy, ts) = RemoveAt(ts, TaintExistsPosition(ts))
        BY <1>1 DEF nodeTaint
    <2>2. PICK i \in DOMAIN ts : i = TaintExistsPosition(ts) /\ ts[i] = NoExecute
        BY <1>1, PositionExists
    <2>3. nodeTaint(n, healthy, ts) = RemoveAt(ts, i)
        BY <2>1, <2>2
    <2>4. /\ RemoveAt(ts, i) \in Seq(Taint) /\ Once(RemoveAt(ts, i))
          /\ ToSet(RemoveAt(ts, i)) = ToSet(ts) \ {NoExecute}
        BY <2>2, RemoveOne
    <2> QED BY <2>3, <2>4
  <1>2. CASE ~(ready[n] = "Unknown" /\ healthy /\ NoExecute \in ToSet(ts))
    <2>1. nodeTaint(n, healthy, ts) = ts
        BY <1>2 DEF nodeTaint
    <2> QED BY <1>2, <2>1
  <1> QED BY <1>1, <1>2

-----------------------------------------------------------------------------
(* What OfflineIsNotEvicted says of one step and one node.                 *)
Kept(m) ==
    (webhook /\ ready[m] = "Unknown" /\ <<annot[m], taints[m]>>' # <<annot[m], taints[m]>>) =>
        /\ ~annot'[m] => NoExecute \notin ToSet(taints'[m])
        /\ ToSet(taints[m]) \ ToSet(taints'[m]) \subseteq {NoExecute}

LEMMA UpdateStep ==
    ASSUME IInv, NEW n \in Node, NEW a \in BOOLEAN, NEW ts \in Seq(Taint), Once(ts),
           ready[n] = "Unknown" => ToSet(taints[n]) \ ToSet(ts) \subseteq {NoExecute},
           UpdateNode(n, a, ts)
    PROVE  IInv' /\ \A m \in Node : Kept(m)
  <1> DEFINE new == IF webhook THEN nodeTaint(n, ~a, ts) ELSE ts
  <1>1. /\ new \in Seq(Taint) /\ Once(new)
        /\ ToSet(ts) \ ToSet(new) \subseteq {NoExecute}
        /\ webhook /\ ready[n] = "Unknown" /\ ~a => NoExecute \notin ToSet(new)
      BY NodeTaintStrips
  <1> HIDE DEF new
  <1>2. /\ annot' = [annot EXCEPT ![n] = a]
        /\ taints' = [taints EXCEPT ![n] = new]
        /\ ready' = ready
      BY DEF UpdateNode, new
  <1>3. NodesOK'
      BY <1>1, <1>2 DEF IInv, NodesOK
  <1>4. /\ taints'[n] = new /\ annot'[n] = a
        /\ \A m \in Node : m # n => taints'[m] = taints[m] /\ annot'[m] = annot[m]
      BY <1>2 DEF IInv, NodesOK
  <1>5. \A m \in Node : Once(taints[m])'
    <2> TAKE m \in Node
    <2>1. CASE m = n
        BY <1>1, <1>4, <2>1 DEF Once
    <2>2. CASE m # n
        BY <1>4, <2>2 DEF IInv, Once
    <2> QED BY <2>1, <2>2
  <1>6. \A m \in Node : Kept(m)
    <2> TAKE m \in Node
    <2>1. CASE m = n
      <3> SUFFICES ASSUME webhook, ready[n] = "Unknown"
                   PROVE  /\ ~annot'[n] => NoExecute \notin ToSet(taints'[n])
                          /\ ToSet(taints[n]) \ ToSet(taints'[n]) \subseteq {NoExecute}
          BY <2>1 DEF Kept
      <3>1. ~annot'[n] => NoExecute \notin ToSet(taints'[n])
          BY <1>1, <1>4
      <3>2. ToSet(taints[n]) \ ToSet(taints'[n]) \subseteq {NoExecute}
          BY <1>1, <1>4
      <3> QED BY <3>1, <3>2
    <2>2. CASE m # n
        BY <1>4, <2>2 DEF Kept
    <2> QED BY <2>1, <2>2
  <1> QED BY <1>3, <1>5, <1>6 DEF IInv

(* A step that leaves the annotations and the taints alone.                *)
LEMMA OtherStep ==
    ASSUME IInv, UNCHANGED <<annot, taints>>,
           ready' \in [Node -> {"True", "Unknown"}]
    PROVE  IInv' /\ \A m \in Node : Kept(m)
  BY DEF IInv, NodesOK, Kept, Once

LEMMA ControllerStep ==
    ASSUME IInv, NEW n \in Node, NodeController(n)
    PROVE  IInv' /\ \A m \in Node : Kept(m)
  <1>1. annot[n] \in BOOLEAN /\ taints[n] \in Seq(Taint) /\ Once(taints[n])
      BY DEF IInv, NodesOK
  <1>2. CASE \E t \in Taint \ ToSet(taints[n]) :
               ready[n] = "Unknown" /\ UpdateNode(n, annot[n], Append(taints[n], t))
    <2>1. PICK t \in Taint \ ToSet(taints[n]) :
                 UpdateNode(n, annot[n], Append(taints[n], t))
        BY <1>2
    <2>2. /\ Append(taints[n], t) \in Seq(Taint) /\ Once(Append(taints[n], t))
          /\ ToSet(taints[n]) \subseteq ToSet(Append(taints[n], t))
        BY <1>1, AddOne
    <2> QED BY <1>1, <2>1, <2>2, UpdateStep
  <1>3. CASE ready[n] = "True" /\ UpdateNode(n, annot[n], << >>)
    <2>1. << >> \in Seq(Taint) /\ Once(<< >>)
        BY DEF Once
    <2> QED BY <1>1, <1>3, <2>1, UpdateStep
  <1> QED BY <1>2, <1>3 DEF NodeController

LEMMA VoteStep ==
    ASSUME IInv, NEW n \in Node, VoteUpdate(n)
    PROVE  IInv' /\ \A m \in Node : Kept(m)
  <1>1. taints[n] \in Seq(Taint) /\ Once(taints[n])
      BY DEF IInv, NodesOK
  <1>2. CASE \E a \in BOOLEAN : UpdateNode(n, a, taints[n])
      BY <1>1, <1>2, UpdateStep
  <1>3. CASE /\ NoExecute \in ToSet(taints[n])
             /\ UpdateNode(n, FALSE, RemoveAt(taints[n], TaintExistsPosition(taints[n])))
    <2> DEFINE ts == RemoveAt(taints[n], TaintExistsPosition(taints[n]))
    <2>1. /\ ts \in Seq(Taint) /\ Once(ts)
          /\ ToSet(taints[n]) \ ToSet(ts) \subseteq {NoExecute}
        BY <1>1, <1>3, PositionExists, RemoveOne
    <2>2. UpdateNode(n, FALSE, ts)
        BY <1>3
    <2> HIDE DEF ts
    <2> QED BY <2>1, <2>2, UpdateStep
  <1> QED BY <1>2, <1>3 DEF VoteUpdate

LEMMA Step == IInv /\ [Next]_vars => IInv' /\ \A m \in Node : Kept(m)
  <1> SUFFICES ASSUME IInv, [Next]_vars PROVE IInv' /\ \A m \in Node : Kept(m)
      OBVIOUS
  <1>1. CASE \E n \in Node : NodeController(n) \/ VoteUpdate(n)
      BY <1>1, ControllerStep, VoteStep
  <1>2. CASE \E n \in Flaky : Connection(n)
    <2>1. ready' \in [Node -> {"True", "Unknown"}] /\ UNCHANGED <<annot, taints>>
        BY <1>2 DEF Connection, IInv, NodesOK
    <2> QED BY <2>1, OtherStep
  <1>3. CASE EndpointsController \/ Touch \/ Admit \/ Environment \/ WebhookChanges \/ GiveUp
             \/ Look(TRUE) \/ UNCHANGED vars
    <2>1. UNCHANGED nodeVars
        BY <1>3 DEF EndpointsController, Touch, SendUpdate, Admit, Environment, WebhookChanges, GiveUp,
                    Look, NextSubset, ApplyPatch, Store, nodeVars, vars
    <2> QED BY <2>1, OtherStep DEF nodeVars, IInv, NodesOK
  <1> QED BY <1>1, <1>2, <1>3 DEF Next, Faulty

LEMMA Start == Init => IInv
  BY DEF Init, IInv, NodesOK, Once

(* The node objects keep their types and never list a taint twice.         *)
THEOREM NodesStayWellFormed == Spec => []IInv
  <1>1. IInv /\ [Next]_vars => IInv'
      BY Step
  <1> QED BY <1>1, Start, PTL DEF Spec

(* Whoever updates the node, nodeTaint leaves no NoExecute taint on a node *)
(* that is only off line, and costs it no other taint.                     *)
THEOREM NotEvicted == Spec => OfflineIsNotEvicted
  <1>1. IInv /\ [Next]_vars =>
          [\A n \in Node :
             (webhook /\ ready[n] = "Unknown" /\ <<annot[n], taints[n]>>' # <<annot[n], taints[n]>>) =>
                 /\ ~annot'[n] => NoExecute \notin ToSet(taints'[n])
                 /\ ToSet(taints[n]) \ ToSet(taints'[n]) \subseteq {NoExecute}]_vars
      BY Step DEF Kept
  <1> QED BY <1>1, NodesStayWellFormed, PTL DEF Spec, OfflineIsNotEvicted
-----------------------------------------------------------------------------
(* The request in admission.  Away(i): the addresses of subset i that were *)
(* vouched for; Of(i): the operations on subset i still to be applied.     *)
NotReady(i) == req.asked[i].notReadyAddresses
Away(i)     == {a \in Address : <<i, a>> \in req.moved}
Of(i)       == {m \in DOMAIN req.patches : req.patches[m].subset = i}

Operation(o, i, j, a) == [op |-> o, subset |-> i, index |-> j, value |-> a]
Without(s, j) == [s EXCEPT !.notReadyAddresses = RemoveAt(@, j)]

(* Nothing was done to subset i, and nothing is to be done.                *)
Untouched(i) == Of(i) = {} /\ req.subsets[i] = req.asked[i]

(* The two operations on the address a at position j of subset i are both  *)
(* to be applied, only the second one is, or none is left.                 *)
Whole(i, j, a) ==
    /\ req.subsets[i] = req.asked[i]
    /\ \E k \in Nat : /\ Of(i) = {k, k + 1}
                      /\ req.patches[k] = Operation("remove", i, j, a)
                      /\ req.patches[k + 1] = Operation("add", i, j, a)
Half(i, j, a) ==
    /\ req.phase = "patch"
    /\ req.subsets[i] = Without(req.asked[i], j)
    /\ Of(i) = {1}
    /\ req.patches[1] = Operation("add", i, j, a)
Done(i, a) ==
    /\ req.phase = "patch"
    /\ Of(i) = {}
    /\ Means(req.asked[i], {a}, req.subsets[i])

(* The loop has passed position j of subset i.                             *)
Passed(i, j) == i < req.i1 \/ (i = req.i1 /\ j < req.i2)

(* Only addresses the loop has passed were vouched for, none twice.        *)
Looked ==
    /\ req.i1 # 0 /\ req.i2 # 0
    /\ \A i \in Nat : IsFiniteSet(Away(i))
    /\ \A i \in Nat, a \in Address : <<i, a>> \in req.moved =>
           /\ i \in DOMAIN req.asked
           /\ \E j \in DOMAIN NotReady(i) : NotReady(i)[j] = a /\ Passed(i, j)

(* The lists are of the same subsets, an address is in one of them once,   *)
(* and operations are on positions of subsets that exist.                  *)
Shaped ==
    /\ DOMAIN req.subsets = DOMAIN req.asked
    /\ \A i \in DOMAIN req.asked : Once(NotReady(i))
    /\ \A m \in DOMAIN req.patches :
           req.patches[m].subset \in DOMAIN req.asked /\ req.patches[m].index # 0

OnItsWay(i, a) ==
    \E j \in DOMAIN NotReady(i) :
        NotReady(i)[j] = a /\ (Whole(i, j, a) \/ Half(i, j, a) \/ Done(i, a))
Moves(i) ==
    /\ Away(i) = {} => Untouched(i)
    /\ \A a \in Address : Away(i) = {a} => OnItsWay(i, a)

RequestOK == Looked /\ Shaped /\ \A i \in DOMAIN req.asked : Moves(i)
-----------------------------------------------------------------------------
(* What the invariant says is kept by every step: where a subset is left   *)
(* alone, and where the request is.                                        *)
LEMMA Frame ==
    ASSUME NEW i, Moves(i), req'.asked = req.asked, req'.subsets[i] = req.subsets[i],
           req.phase = "patch" => req'.phase = "patch",
           Away(i)' = Away(i), Of(i)' = Of(i),
           \A m \in Of(i) : req'.patches[m] = req.patches[m]
    PROVE  Moves(i)'
  <1>1. Untouched(i) => Untouched(i)'
      BY DEF Untouched
  <1>2. ASSUME NEW a \in Address, Away(i) = {a}
        PROVE  OnItsWay(i, a)'
    <2>1. PICK j \in DOMAIN NotReady(i) :
              NotReady(i)[j] = a /\ (Whole(i, j, a) \/ Half(i, j, a) \/ Done(i, a))
        BY <1>2 DEF Moves, OnItsWay
    <2>2. Whole(i, j, a) => Whole(i, j, a)'
        BY DEF Whole
    <2>3. Half(i, j, a) => Half(i, j, a)'
        BY DEF Half
    <2>4. Done(i, a) => Done(i, a)'
        BY DEF Done
    <2>5. NotReady(i)' = NotReady(i)
        BY DEF NotReady
    <2> QED BY <2>1, <2>2, <2>3, <2>4, <2>5 DEF OnItsWay
  <1> QED BY <1>1, <1>2 DEF Moves

LEMMA SameRequest ==
    ASSUME RequestOK, UNCHANGED req
    PROVE  RequestOK'
  <1>1. \A i : Away(i)' = Away(i) /\ Of(i)' = Of(i) /\ NotReady(i)' = NotReady(i)
      BY DEF Away, Of, NotReady
  <1>2. Looked'
      BY <1>1 DEF RequestOK, Looked, Passed
  <1>3. Shaped'
      BY <1>1 DEF RequestOK, Shaped
  <1>4. ASSUME NEW i \in DOMAIN req.asked PROVE Moves(i)'
    <2>1. Moves(i)
        BY DEF RequestOK
    <2> QED BY <1>1, <2>1, Frame
  <1> QED BY <1>2, <1>3, <1>4 DEF RequestOK

(* A request that has just entered, or none.                               *)
New(r) ==
    /\ r.phase \in {"none", "look"} /\ r.asked \in Seq(Subset)
    /\ \A i \in DOMAIN r.asked : Once(r.asked[i].notReadyAddresses)
    /\ r = [phase |-> r.phase, asked |-> r.asked, subsets |-> r.asked, i1 |-> 1,
            i2 |-> 1, patches |-> << >>, moved |-> {}]

LEMMA NewRequest == New(req) => req \in Request /\ RequestOK
  <1> SUFFICES ASSUME New(req) PROVE req \in Request /\ RequestOK
      OBVIOUS
  <1>1. PICK p \in {"none", "look"}, w \in Seq(Subset) :
            /\ req = [phase |-> p, asked |-> w, subsets |-> w, i1 |-> 1,
                      i2 |-> 1, patches |-> << >>, moved |-> {}]
            /\ \A i \in DOMAIN w : Once(w[i].notReadyAddresses)
      BY DEF New
  <1>2. /\ req.asked = w /\ req.subsets = w /\ req.patches = << >> /\ req.moved = {}
        /\ req.i1 = 1 /\ req.i2 = 1
      BY <1>1
  <1>3. \A i : Away(i) = {} /\ Of(i) = {}
      BY <1>2 DEF Away, Of
  <1>4. Looked
    <2>1. IsFiniteSet({})
        BY FS_EmptySet
    <2>2. \A i \in Nat : IsFiniteSet(Away(i))
        BY <1>3, <2>1
    <2> QED BY <1>2, <2>2 DEF Looked
  <1>5. Shaped
      BY <1>1, <1>2 DEF Shaped, NotReady
  <1>6. ASSUME NEW i \in DOMAIN req.asked PROVE Moves(i)
    <2>1. Untouched(i)
        BY <1>2, <1>3 DEF Untouched
    <2>2. \A a \in Address : Away(i) # {a}
        BY <1>3
    <2> QED BY <2>1, <2>2 DEF Moves
  <1>7. req \in Request
      BY <1>1 DEF Request
  <1> QED BY <1>4, <1>5, <1>6, <1>7 DEF RequestOK

(* What the endpoints controller writes is a list of subsets in which each *)
(* address is once.                                                        *)
LEMMA WantedOK ==
    /\ Wanted \in Seq(Subset)
    /\ \A i \in DOMAIN Wanted : Once(Wanted[i].notReadyAddresses)
  <1>1. Len(Pods) \in Nat /\ DOMAIN Pods = 1..Len(Pods)
      OBVIOUS
  <1>2. ASSUME NEW i \in DOMAIN Pods
        PROVE  /\ Split(Pods[i]) \in Subset
               /\ Once(Split(Pods[i]).notReadyAddresses)
    <2> DEFINE up == {a \in Pods[i] : PodReady(a)}
               down == {a \in Pods[i] : ~PodReady(a)}
    <2>1. Pods[i] \in SUBSET Address
        BY <1>1
    <2>2. up \in SUBSET Address /\ down \in SUBSET Address
        BY <2>1
    <2>3. Split(Pods[i]) = [addresses |-> Order[up], notReadyAddresses |-> Order[down]]
        BY DEF Split
    <2> HIDE DEF up, down
    <2>4. Order[up] \in Seq(Address) /\ Order[down] \in Seq(Address)
        BY <2>2
    <2>5. Once(Order[down])
        BY <2>2 DEF Once, IsInjective
    <2> QED BY <2>3, <2>4, <2>5 DEF Subset
  <1> QED BY <1>1, <1>2 DEF Wanted

LEMMA SendUpdateStep ==
    ASSUME req \in Request, RequestOK, endpoints \in Seq(Subset), SendUpdate
    PROVE  req' \in Request /\ RequestOK' /\ endpoints' \in Seq(Subset)
  <1>1. CASE webhook
    <2> DEFINE w == Wanted
    <2>1. w \in Seq(Subset) /\ \A i \in DOMAIN w : Once(w[i].notReadyAddresses)
        BY WantedOK
    <2>2. req' = [NoRequest EXCEPT !.phase = "look", !.asked = w, !.subsets = w]
        BY <1>1 DEF SendUpdate
    <2> HIDE DEF w
    <2>3. req' = [phase |-> "look", asked |-> w, subsets |-> w, i1 |-> 1,
                  i2 |-> 1, patches |-> << >>, moved |-> {}]
        BY <2>2 DEF NoRequest
    <2>4. New(req)'
        BY <2>1, <2>3 DEF New
    <2>5. New(req)' => (req \in Request /\ RequestOK)'
        BY NewRequest, PTL
    <2> QED BY <1>1, <2>4, <2>5 DEF SendUpdate
  <1>2. CASE ~webhook
      BY <1>2, WantedOK, SameRequest DEF SendUpdate
  <1> QED BY <1>1, <1>2

LEMMA NoRequestOK ==
    ASSUME req' = NoRequest
    PROVE  req' \in Request /\ RequestOK'
  <1>1. New(req)'
      BY DEF New, NoRequest
  <1>2. New(req)' => (req \in Request /\ RequestOK)'
      BY NewRequest, PTL
  <1> QED BY <1>1, <1>2

LEMMA RequestTypes ==
    ASSUME req \in Request
    PROVE  /\ req.phase \in {"none", "look", "patch"} /\ req.asked \in Seq(Subset)
           /\ req.subsets \in Seq(Subset) /\ req.patches \in Seq(Patch)
           /\ req.i1 \in Nat /\ req.i2 \in Nat /\ req.moved \in SUBSET (Nat \X Address)
  BY DEF Request

LEMMA NotReadyType ==
    ASSUME req \in Request, NEW i \in DOMAIN req.asked
    PROVE  /\ i \in Nat /\ req.asked[i] \in Subset
           /\ NotReady(i) \in Seq(Address) /\ DOMAIN NotReady(i) \subseteq Nat
  <1>1. i \in Nat /\ req.asked[i] \in Subset
      BY RequestTypes
  <1>2. NotReady(i) \in Seq(Address)
      BY <1>1 DEF Subset, NotReady
  <1> QED BY <1>1, <1>2

LEMMA PassedGrows ==
    ASSUME RequestOK, req'.asked = req.asked, req'.moved = req.moved,
           req'.i1 # 0, req'.i2 # 0,
           \A i, j \in Nat : Passed(i, j) => Passed(i, j)', req \in Request
    PROVE  Looked'
  <1>1. \A i : Away(i)' = Away(i)
      BY DEF Away
  <1>2. \A i : NotReady(i)' = NotReady(i)
      BY DEF NotReady
  <1>3. \A i \in DOMAIN req.asked : DOMAIN NotReady(i) \subseteq Nat
      BY NotReadyType
  <1> QED BY <1>1, <1>2, <1>3 DEF RequestOK, Looked

(* One address looked at: the next position, and, if its node is only off  *)
(* line, the two operations.                                               *)
LEMMA LookStep ==
    ASSUME req \in Request, RequestOK, NEW failed \in BOOLEAN, Look(failed)
    PROVE  req' \in Request /\ RequestOK'
  <1>a. PICK s \in Nat, k \in Nat, n \in Nat :
            s = req.i1 /\ k = req.i2 /\ n = Len(req.patches)
    <2>1. req.i1 \in Nat /\ req.i2 \in Nat /\ req.patches \in Seq(Patch)
        BY RequestTypes
    <2>2. Len(req.patches) \in Nat
        BY <2>1
    <2> QED BY <2>1, <2>2
  <1>b. PICK b : b = req.asked[s].notReadyAddresses[k]
      OBVIOUS
  <1>0. /\ s = req.i1 /\ k = req.i2 /\ n = Len(req.patches)
        /\ b = req.asked[s].notReadyAddresses[k]
      BY <1>a, <1>b
  <1>1. /\ s \in DOMAIN req.asked /\ k # 0 /\ s # 0
        /\ k \in DOMAIN NotReady(s) /\ NotReady(s)[k] = b
        /\ req.phase = "look"
    <2>1. s # 0 /\ k # 0
        BY <1>0 DEF RequestOK, Looked
    <2>2. s \in DOMAIN req.asked
        BY <1>0, <2>1, RequestTypes DEF Look
    <2>4. NotReady(s) \in Seq(Address)
        BY <2>2, NotReadyType
    <2>5. k \in DOMAIN NotReady(s)
        BY <1>0, <2>1, <2>4, RequestTypes DEF Look, NotReady
    <2> QED BY <1>0, <2>1, <2>2, <2>5 DEF Look, NotReady
  <1>2. b \in Address
    <2>1. NotReady(s) \in Seq(Address)
        BY <1>1, NotReadyType
    <2> QED BY <1>1, <2>1
  <1>3. CASE req' = [req EXCEPT !.i2 = @ + 1]
    <2>1. /\ req'.asked = req.asked /\ req'.subsets = req.subsets /\ req'.moved = req.moved
          /\ req'.patches = req.patches /\ req'.i1 = s /\ req'.i2 = k + 1
          /\ req'.phase = "look"
        BY <1>0, <1>1, <1>3 DEF Request
    <2>2. req' \in Request
      <3>1. req' = [req EXCEPT !.i2 = k + 1] /\ k + 1 \in Nat
          BY <1>0, <1>3
      <3> QED BY <3>1 DEF Request
    <2>3. Looked'
      <3>a. req.i1 = s /\ req.i2 = k /\ req'.i1 = s /\ req'.i2 = k + 1 /\ s # 0
          BY <1>0, <1>1, <2>1
      <3>1. req'.i1 # 0 /\ req'.i2 # 0 /\ \A i, j \in Nat : Passed(i, j) => Passed(i, j)'
          BY <3>a DEF Passed
      <3> QED BY <2>1, <3>1, PassedGrows
    <2>4. Shaped'
        BY <2>1 DEF RequestOK, Shaped, NotReady
    <2>5. ASSUME NEW i \in DOMAIN req.asked PROVE Moves(i)'
      <3>1. Away(i)' = Away(i) /\ Of(i)' = Of(i) /\ Moves(i)
          BY <2>1 DEF Away, Of, RequestOK
      <3> QED BY <1>1, <2>1, <3>1, Frame
    <2> QED BY <2>1, <2>2, <2>3, <2>4, <2>5 DEF RequestOK
  <1>4. CASE req' = [req EXCEPT !.i2 = @ + 1, !.patches = @ \o MovePatches(s, k, b),
                               !.moved = @ \cup {<<s, b>>}]
    <2> DEFINE new == req'.patches
               rem == Operation("remove", s, k, b)
               add == Operation("add", s, k, b)
    <2>1. /\ req'.asked = req.asked /\ req'.subsets = req.subsets
          /\ req'.moved = req.moved \cup {<<s, b>>}
          /\ req'.patches = req.patches \o MovePatches(s, k, b)
          /\ req'.i1 = s /\ req'.i2 = k + 1 /\ req'.phase = "look"
        BY <1>0, <1>1, <1>4 DEF Request
    <2>2. rem \in Patch /\ add \in Patch /\ MovePatches(s, k, b) = <<rem, add>>
        BY <1>1, <1>2 DEF Patch, Operation, MovePatches
    <2>3. /\ new \in Seq(Patch) /\ DOMAIN new = 1..(n + 2)
          /\ \A m \in 1..n : new[m] = req.patches[m]
          /\ new[n + 1] = rem /\ new[n + 2] = add
          /\ DOMAIN req.patches = 1..n
      <3> HIDE DEF rem, add
      <3>1. req.patches \in Seq(Patch) /\ new = req.patches \o <<rem, add>>
          BY <2>1, <2>2, RequestTypes
      <3>2. <<rem, add>> \in Seq(Patch)
          BY <2>2
      <3> QED BY <1>0, <3>1, <3>2
    <2>4. req' \in Request
      <3>1. <<s, b>> \in Nat \X Address
          BY <1>1, <1>2
      <3>2. req.moved \cup {<<s, b>>} \in SUBSET (Nat \X Address)
          BY <3>1, RequestTypes
      <3>3. k + 1 \in Nat
          BY <1>1
      <3>4. req' = [req EXCEPT !.i2 = k + 1, !.patches = new, !.moved = req.moved \cup {<<s, b>>}]
          BY <1>0, <1>4, <2>1
      <3> HIDE DEF new
      <3> QED BY <2>3, <3>2, <3>3, <3>4 DEF Request
    <2>5. ASSUME NEW i, NEW a PROVE <<i, a>> \in req'.moved <=> <<i, a>> \in req.moved \/ (i = s /\ a = b)
        BY <2>1
    <2>6. <<s, b>> \notin req.moved
      <3> SUFFICES ASSUME <<s, b>> \in req.moved PROVE FALSE
          OBVIOUS
      <3>1. PICK j \in DOMAIN NotReady(s) : NotReady(s)[j] = b /\ Passed(s, j)
          BY <1>1, <1>2 DEF RequestOK, Looked
      <3>2. j = k
          BY <1>1, <3>1 DEF RequestOK, Shaped, Once
      <3> QED BY <1>0, <1>1, <3>1, <3>2 DEF Passed
    <2>7. Away(s)' = Away(s) \cup {b} /\ b \notin Away(s)
        BY <1>2, <2>5, <2>6 DEF Away
    <2>8. \A i : i # s => Away(i)' = Away(i)
        BY <2>5 DEF Away
    <2> HIDE DEF new, rem, add
    <2>9. Looked'
      <3>a. req.i1 = s /\ req.i2 = k /\ req'.i1 = s /\ req'.i2 = k + 1 /\ s # 0
          BY <1>0, <1>1, <2>1
      <3>1. req'.i1 # 0 /\ req'.i2 # 0 /\ \A i, j \in Nat : Passed(i, j) => Passed(i, j)'
          BY <3>a DEF Passed
      <3>2. \A i \in Nat : IsFiniteSet(Away(i)')
        <4> TAKE i \in Nat
        <4>1. IsFiniteSet(Away(i))
            BY DEF RequestOK, Looked
        <4> QED BY <2>7, <2>8, <4>1, FS_AddElement
      <3>3. \A i : NotReady(i)' = NotReady(i)
          BY <2>1 DEF NotReady
      <3>4. ASSUME NEW i \in Nat, NEW a \in Address, <<i, a>> \in req'.moved
            PROVE  /\ i \in DOMAIN req'.asked
                   /\ \E j \in DOMAIN NotReady(i)' : NotReady(i)'[j] = a /\ Passed(i, j)'
        <4>1. CASE i = s /\ a = b
          <5>1. Passed(s, k)'
              BY <3>a DEF Passed
          <5>2. s \in DOMAIN req'.asked /\ k \in DOMAIN NotReady(s)' /\ NotReady(s)'[k] = b
              BY <1>1, <2>1, <3>3
          <5> QED BY <4>1, <5>1, <5>2
        <4>2. CASE <<i, a>> \in req.moved
          <5>1. i \in DOMAIN req.asked
              BY <4>2 DEF RequestOK, Looked
          <5>2. PICK j \in DOMAIN NotReady(i) : NotReady(i)[j] = a /\ Passed(i, j)
              BY <4>2 DEF RequestOK, Looked
          <5>3. j \in Nat
              BY <5>1, NotReadyType
          <5>4. Passed(i, j)'
              BY <3>1, <5>2, <5>3
          <5> QED BY <2>1, <3>3, <5>1, <5>2, <5>4
        <4> QED BY <2>5, <3>4, <4>1, <4>2
      <3> QED BY <3>1, <3>2, <3>4 DEF Looked
    <2>10. Shaped'
      <3>1. ASSUME NEW m \in DOMAIN new
            PROVE  new[m].subset \in DOMAIN req.asked /\ new[m].index # 0
        <4>1. rem.subset = s /\ rem.index = k /\ add.subset = s /\ add.index = k
            BY DEF rem, add, Operation
        <4>2. CASE m \in 1..n
            BY <2>3, <4>2 DEF RequestOK, Shaped
        <4>3. CASE m = n + 1 \/ m = n + 2
            BY <1>1, <2>3, <4>1, <4>3
        <4> QED BY <1>1, <2>3, <4>2, <4>3
      <3> QED BY <2>1, <3>1 DEF RequestOK, Shaped, NotReady, new
    <2>11. ASSUME NEW i \in DOMAIN req.asked, i # s PROVE Moves(i)'
      <3>1. rem.subset = s /\ add.subset = s
          BY DEF rem, add, Operation
      <3>2. Of(i)' = Of(i)
        <4>1. Of(i) = {m \in 1..n : new[m].subset = i}
            BY <2>3 DEF Of
        <4>2. Of(i)' = {m \in 1..(n + 2) : new[m].subset = i}
            BY <2>3 DEF Of, new
        <4>3. \A m \in 1..(n + 2) : new[m].subset = i => m \in 1..n
          <5> TAKE m \in 1..(n + 2)
          <5>1. m = n + 1 \/ m = n + 2 => new[m].subset = s
              BY <2>3, <3>1
          <5> QED BY <2>11, <5>1
        <4> QED BY <1>1, <4>1, <4>2, <4>3
      <3>3. \A m \in Of(i) : req'.patches[m] = req.patches[m]
          BY <2>3 DEF Of, new
      <3>4. Away(i)' = Away(i) /\ Moves(i)
          BY <2>8, <2>11 DEF RequestOK
      <3> QED BY <1>1, <2>1, <3>2, <3>3, <3>4, Frame
    <2>12. Moves(s)'
      <3> SUFFICES ASSUME Away(s) = {} PROVE OnItsWay(s, b)'
        <4>1. Away(s)' # {}
            BY <2>7
        <4>2. ASSUME NEW a \in Address, Away(s)' = {a} PROVE Away(s) = {} /\ a = b
            BY <2>7, <4>2
        <4> QED BY <4>1, <4>2 DEF Moves
      <3>1. Of(s) = {} /\ req.subsets[s] = req.asked[s]
          BY <1>1 DEF RequestOK, Moves, Untouched
      <3>2. Of(s)' = {n + 1, (n + 1) + 1}
        <4>1. Of(s)' = {m \in 1..(n + 2) : new[m].subset = s}
            BY <2>3 DEF Of, new
        <4>2. \A m \in 1..n : new[m].subset # s
            BY <2>3, <3>1 DEF Of
        <4>3. new[n + 1].subset = s /\ new[n + 2].subset = s
            BY <2>3 DEF rem, add, Operation
        <4> QED BY <1>1, <4>1, <4>2, <4>3
      <3>3. Whole(s, k, b)'
        <4>1. req'.subsets[s] = req'.asked[s]
            BY <2>1, <3>1
        <4>2. /\ n + 1 \in Nat
              /\ req'.patches[n + 1] = Operation("remove", s, k, b)
              /\ req'.patches[(n + 1) + 1] = Operation("add", s, k, b)
            BY <1>1, <2>3 DEF new, rem, add
        <4> QED BY <3>2, <4>1, <4>2 DEF Whole
      <3>4. NotReady(s)' = NotReady(s)
          BY <2>1 DEF NotReady
      <3> QED BY <1>1, <3>3, <3>4 DEF OnItsWay
    <2> QED BY <2>1, <2>4, <2>9, <2>10, <2>11, <2>12 DEF RequestOK
  <1> QED BY <1>0, <1>3, <1>4 DEF Look

(* The next subset, or the answer: the loop is at its end.                 *)
LEMMA NextSubsetStep ==
    ASSUME req \in Request, RequestOK, NextSubset
    PROVE  req' \in Request /\ RequestOK'
  <1>1. req.i1 \in Nat /\ req.i2 \in Nat /\ req.i1 # 0 /\ req.i2 # 0 /\ req.phase = "look"
      BY RequestTypes DEF RequestOK, Looked, NextSubset
  <1>2. /\ req' \in Request
        /\ req'.asked = req.asked /\ req'.subsets = req.subsets /\ req'.moved = req.moved
        /\ req'.patches = req.patches
        /\ \/ req'.i1 = req.i1 + 1 /\ req'.i2 = 1
           \/ req'.i1 = req.i1 /\ req'.i2 = req.i2
    <2>1. CASE req' = [req EXCEPT !.i1 = @ + 1, !.i2 = 1]
      <3>1. req' = [req EXCEPT !.i1 = req.i1 + 1, !.i2 = 1] /\ req.i1 + 1 \in Nat
          BY <1>1, <2>1
      <3> QED BY <3>1 DEF Request
    <2>2. CASE req' = [req EXCEPT !.phase = "patch"]
        BY <2>2 DEF Request
    <2> QED BY <2>1, <2>2 DEF NextSubset
  <1>3. Looked'
    <2>1. req'.i1 # 0 /\ req'.i2 # 0 /\ \A i, j \in Nat : Passed(i, j) => Passed(i, j)'
        BY <1>1, <1>2 DEF Passed
    <2> QED BY <1>2, <2>1, PassedGrows
  <1>4. Shaped'
      BY <1>2 DEF RequestOK, Shaped, NotReady
  <1>5. ASSUME NEW i \in DOMAIN req.asked PROVE Moves(i)'
    <2>1. Away(i)' = Away(i) /\ Of(i)' = Of(i) /\ Moves(i)
        BY <1>2 DEF Away, Of, RequestOK
    <2> QED BY <1>1, <1>2, <2>1, Frame
  <1> QED BY <1>2, <1>3, <1>4, <1>5 DEF RequestOK

(* An operation that applies is done on the list it is meant for.          *)
LEMMA AppliedOK ==
    ASSUME NEW p \in Patch, NEW s \in Subset, p.index # 0, Applies(p, s)
    PROVE  Applied(p, s) \in Subset
  <1>1. /\ s.addresses \in Seq(Address) /\ s.notReadyAddresses \in Seq(Address)
        /\ p.index \in Nat /\ p.value \in Address /\ p.op \in {"remove", "add"}
      BY DEF Subset, Patch
  <1>2. CASE p.op = "remove"
    <2>1. p.index \in DOMAIN s.notReadyAddresses
        BY <1>1, <1>2 DEF Applies
    <2>2. RemoveAt(s.notReadyAddresses, p.index) \in Seq(Address)
        BY <1>1, <2>1, RemoveAny
    <2> QED BY <1>2, <2>2 DEF Applied, Subset
  <1>3. CASE p.op = "add"
    <2>1. p.index \in 1..(Len(s.addresses) + 1)
        BY <1>1, <1>3 DEF Applies
    <2>2. InsertAt(s.addresses, p.index, p.value) \in Seq(Address)
        BY <1>1, <2>1, InsertOne
    <2>3. Applied(p, s) = [s EXCEPT !.addresses = InsertAt(s.addresses, p.index, p.value)]
        BY <1>3 DEF Applied
    <2> QED BY <2>2, <2>3 DEF Subset
  <1> QED BY <1>1, <1>2, <1>3

(* The operations left after the first one.                                *)
LEMMA OfTail ==
    ASSUME NEW P \in Seq(Patch), P # << >>, NEW i
    PROVE  /\ Tail(P) \in Seq(Patch) /\ Head(P) = P[1] /\ P[1] \in Patch
           /\ DOMAIN Tail(P) = 1..(Len(P) - 1) /\ DOMAIN P = 1..Len(P)
           /\ \A m \in 1..(Len(P) - 1) : Tail(P)[m] = P[m + 1]
           /\ Len(P) \in Nat \ {0}
  OBVIOUS

(* The apiserver applies the first operation.                              *)
LEMMA ApplyPatchStep ==
    ASSUME req \in Request, RequestOK, ApplyPatch
    PROVE  req' \in Request /\ RequestOK'
  <1>1. req.patches \in Seq(Patch) /\ req.patches # << >> /\ req.phase = "patch"
      BY RequestTypes DEF ApplyPatch
  <1>2. PICK n \in Nat \ {0}, p \in Patch : n = Len(req.patches) /\ p = req.patches[1]
      BY <1>1
  <1>3. /\ Tail(req.patches) \in Seq(Patch) /\ Head(req.patches) = p
        /\ DOMAIN Tail(req.patches) = 1..(n - 1) /\ DOMAIN req.patches = 1..n
        /\ \A m \in 1..(n - 1) : Tail(req.patches)[m] = req.patches[m + 1]
      BY <1>1, <1>2, OfTail
  <1>4. CASE ~Applies(p, req.subsets[p.subset])
    <2>1. req' = NoRequest
        BY <1>3, <1>4 DEF ApplyPatch
    <2> QED BY <2>1, NoRequestOK
  <1>5. CASE Applies(p, req.subsets[p.subset])
    <2>1. PICK s \in DOMAIN req.asked : s = p.subset /\ p.index # 0
        BY <1>2, <1>3 DEF RequestOK, Shaped
    <2>2. s \in DOMAIN req.subsets /\ req.subsets[s] \in Subset /\ req.subsets \in Seq(Subset)
      <3>1. s \in DOMAIN req.subsets
          BY DEF RequestOK, Shaped
      <3> QED BY <3>1, RequestTypes
    <2>3. PICK new \in Subset : new = Applied(p, req.subsets[s])
        BY <1>5, <2>1, <2>2, AppliedOK
    <2>4. req' = [req EXCEPT !.patches = Tail(@), !.subsets[p.subset] = Applied(p, @)]
        BY <1>3, <1>5 DEF ApplyPatch
    <2>5. req' = [req EXCEPT !.patches = Tail(req.patches),
                             !.subsets = [req.subsets EXCEPT ![s] = new]]
        BY <2>1, <2>3, <2>4 DEF Request
    <2>6. [req.subsets EXCEPT ![s] = new] \in Seq(Subset)
        BY <2>2
    <2>7. req' \in Request
        BY <1>3, <2>5, <2>6 DEF Request
    <2>8. /\ req'.asked = req.asked /\ req'.moved = req.moved /\ req'.phase = "patch"
          /\ req'.i1 = req.i1 /\ req'.i2 = req.i2
          /\ req'.patches = Tail(req.patches)
          /\ DOMAIN req'.subsets = DOMAIN req.subsets /\ req'.subsets[s] = new
          /\ \A i : i # s => req'.subsets[i] = req.subsets[i]
      <3> DEFINE w == [req.subsets EXCEPT ![s] = new]
      <3>1. /\ req'.asked = req.asked /\ req'.moved = req.moved /\ req'.phase = "patch"
            /\ req'.i1 = req.i1 /\ req'.i2 = req.i2
            /\ req'.patches = Tail(req.patches) /\ req'.subsets = w
          BY <1>1, <2>5 DEF Request
      <3>2. DOMAIN w = DOMAIN req.subsets /\ w[s] = new /\ \A i : i # s => w[i] = req.subsets[i]
          BY <2>2
      <3> QED BY <3>1, <3>2
    <2>9. \A i : Away(i)' = Away(i) /\ NotReady(i)' = NotReady(i)
        BY <2>8 DEF Away, NotReady
    <2>10. Looked'
      <3>1. \A i, j \in Nat : Passed(i, j) => Passed(i, j)'
          BY <2>8 DEF Passed
      <3>2. req'.i1 # 0 /\ req'.i2 # 0
          BY <2>8 DEF RequestOK, Looked
      <3> QED BY <2>8, <3>1, <3>2, PassedGrows
    <2>11. Shaped'
      <3>1. ASSUME NEW m \in 1..(n - 1)
            PROVE  /\ req'.patches[m].subset \in DOMAIN req.asked
                   /\ req'.patches[m].index # 0
        <4>1. req'.patches[m] = req.patches[m + 1] /\ m + 1 \in DOMAIN req.patches
            BY <1>3, <2>8
        <4> QED BY <4>1 DEF RequestOK, Shaped
      <3> QED BY <1>3, <2>8, <2>9, <3>1 DEF RequestOK, Shaped
    <2>12. \A i : Of(i)' = {m \in 1..(n - 1) : req.patches[m + 1].subset = i}
      <3>1. \A m \in 1..(n - 1) : req'.patches[m] = req.patches[m + 1]
          BY <1>3, <2>8
      <3>2. DOMAIN req'.patches = 1..(n - 1)
          BY <1>3, <2>8
      <3> QED BY <3>1, <3>2 DEF Of
    <2>13. \A i : Of(i) = {m \in 1..n : req.patches[m].subset = i}
        BY <1>3 DEF Of
    <2>14. ASSUME NEW i
           PROVE  /\ \A m \in 1..(n - 1) : m \in Of(i)' <=> m + 1 \in Of(i)
                  /\ Of(i)' \subseteq 1..(n - 1) /\ Of(i) \subseteq 1..n
      <3>1. Of(i)' = {m \in 1..(n - 1) : req.patches[m + 1].subset = i}
          BY <2>12
      <3>2. Of(i) = {m \in 1..n : req.patches[m].subset = i}
          BY <2>13
      <3>3. \A m \in 1..(n - 1) : m + 1 \in 1..n
          BY <1>2
      <3> QED BY <3>1, <3>2, <3>3
    <2>15. 1 \in Of(s) /\ \A i : i # s => 1 \notin Of(i)
        BY <1>2, <2>1, <2>13
    <2>16. ASSUME NEW i \in DOMAIN req.asked, i # s PROVE Moves(i)'
      <3>1. Untouched(i) => Untouched(i)'
        <4>1. Of(i) = {} => Of(i)' = {}
            BY <2>14
        <4> QED BY <2>8, <2>16, <4>1 DEF Untouched
      <3>2. ASSUME NEW a \in Address, OnItsWay(i, a) PROVE OnItsWay(i, a)'
        <4>1. PICK j \in DOMAIN NotReady(i) :
                  NotReady(i)[j] = a /\ (Whole(i, j, a) \/ Half(i, j, a) \/ Done(i, a))
            BY <3>2 DEF OnItsWay
        <4>2. ~Half(i, j, a)
            BY <2>15, <2>16 DEF Half
        <4>3. Done(i, a) => Done(i, a)'
          <5>1. Of(i) = {} => Of(i)' = {}
              BY <2>14
          <5> QED BY <2>8, <2>16, <5>1 DEF Done
        <4>4. ASSUME Whole(i, j, a) PROVE Whole(i, j, a)'
          <5>1. PICK k \in Nat : /\ Of(i) = {k, k + 1}
                                 /\ req.patches[k] = Operation("remove", i, j, a)
                                 /\ req.patches[k + 1] = Operation("add", i, j, a)
              BY <4>4 DEF Whole
          <5>2. k \in 2..(n - 1) /\ k + 1 \in 1..n
            <6>1. k \in 1..n /\ k + 1 \in 1..n
                BY <2>14, <5>1
            <6>2. k # 1
                BY <2>15, <2>16, <5>1
            <6> QED BY <1>2, <6>1, <6>2
          <5>3. Of(i)' = {k - 1, (k - 1) + 1}
            <6>1. \A m \in 1..(n - 1) : m + 1 \in {k, k + 1} <=> m \in {k - 1, k}
                BY <1>2, <5>2
            <6>2. \A m \in 1..(n - 1) : m \in Of(i)' <=> m + 1 \in Of(i)
                BY <2>14
            <6>3. Of(i)' \subseteq 1..(n - 1) /\ k - 1 \in 1..(n - 1) /\ k \in 1..(n - 1)
                BY <1>2, <2>14, <5>2
            <6> QED BY <5>1, <5>2, <6>1, <6>2, <6>3
          <5>4. /\ req'.patches[k - 1] = Operation("remove", i, j, a)
                /\ req'.patches[(k - 1) + 1] = Operation("add", i, j, a)
              BY <1>2, <1>3, <2>8, <5>1, <5>2
          <5>5. req'.subsets[i] = req'.asked[i]
              BY <2>8, <2>16, <4>4 DEF Whole
          <5>6. k - 1 \in Nat
              BY <5>2
          <5> QED BY <5>3, <5>4, <5>5, <5>6 DEF Whole
        <4> QED BY <2>9, <4>1, <4>2, <4>3, <4>4 DEF OnItsWay
      <3>3. Moves(i)
          BY DEF RequestOK
      <3> QED BY <2>9, <3>1, <3>2, <3>3 DEF Moves
    <2>17. Moves(s)'
      <3>1. Moves(s)
          BY DEF RequestOK
      <3>2. Away(s) # {}
          BY <2>15, <3>1 DEF Moves, Untouched
      <3>3. ASSUME NEW a \in Address, Away(s) = {a} PROVE OnItsWay(s, a)'
        <4>1. OnItsWay(s, a)
            BY <3>1, <3>3 DEF Moves
        <4>2. PICK j \in DOMAIN NotReady(s) :
                  NotReady(s)[j] = a /\ (Whole(s, j, a) \/ Half(s, j, a) \/ Done(s, a))
            BY <4>1 DEF OnItsWay
        <4>3. CASE Whole(s, j, a)
          <5>1. PICK k \in Nat : /\ Of(s) = {k, k + 1}
                                 /\ req.patches[k] = Operation("remove", s, j, a)
                                 /\ req.patches[k + 1] = Operation("add", s, j, a)
              BY <4>3 DEF Whole
          <5>2. k = 1 /\ 2 \in 1..n
            <6>1. k \in 1..n /\ k + 1 \in 1..n
                BY <2>14, <5>1
            <6>2. 1 = k \/ 1 = k + 1
                BY <2>15, <5>1
            <6> QED BY <1>2, <6>1, <6>2
          <5>3. Of(s)' = {1}
            <6>1. \A m \in 1..(n - 1) : m \in Of(s)' <=> m + 1 \in Of(s)
                BY <2>14
            <6>2. Of(s)' \subseteq 1..(n - 1) /\ 1 \in 1..(n - 1)
                BY <1>2, <2>14, <5>2
            <6>3. \A m \in 1..(n - 1) : m + 1 \in {1, 2} <=> m = 1
                BY <1>2
            <6> QED BY <5>1, <5>2, <6>1, <6>2, <6>3
          <5>4. req'.patches[1] = Operation("add", s, j, a)
              BY <1>2, <1>3, <2>8, <5>1, <5>2
          <5>5. p = Operation("remove", s, j, a)
              BY <1>2, <5>1, <5>2
          <5>6. new = Without(req.asked[s], j)
              BY <2>3, <4>3, <5>5 DEF Applied, Operation, Without, Whole
          <5>7. Half(s, j, a)'
              BY <2>8, <5>3, <5>4, <5>6 DEF Half
          <5> QED BY <2>9, <4>2, <5>7 DEF OnItsWay
        <4>4. CASE Half(s, j, a)
          <5>1. Of(s)' = {}
            <6>1. \A m \in 1..(n - 1) : m \in Of(s)' <=> m + 1 \in Of(s)
                BY <2>14
            <6>2. Of(s)' \subseteq 1..(n - 1) /\ Of(s) = {1}
                BY <2>14, <4>4 DEF Half
            <6>3. \A m \in 1..(n - 1) : m + 1 # 1
                BY <1>2
            <6> QED BY <6>1, <6>2, <6>3
          <5>2. p = Operation("add", s, j, a)
              BY <1>2, <4>4 DEF Half
          <5>3. req.asked[s] \in Subset /\ NotReady(s) \in Seq(Address) /\ Once(NotReady(s))
              BY NotReadyType DEF RequestOK, Shaped
          <5>4. PICK up \in Seq(Address), down \in Seq(Address) :
                    req.asked[s] = [addresses |-> up, notReadyAddresses |-> down]
              BY <5>3 DEF Subset
          <5>5. down = NotReady(s) /\ j \in DOMAIN down /\ down[j] = a /\ Once(down)
              BY <4>2, <5>3, <5>4 DEF NotReady
          <5>6. req.subsets[s] = [addresses |-> up, notReadyAddresses |-> RemoveAt(down, j)]
              BY <4>4, <5>4 DEF Half, Without
          <5>7. j \in 1..(Len(up) + 1)
              BY <1>5, <2>1, <5>2, <5>5, <5>6 DEF Applies, Operation
          <5>8. new = [addresses |-> InsertAt(up, j, a), notReadyAddresses |-> RemoveAt(down, j)]
              BY <2>3, <5>2, <5>6 DEF Applied, Operation
          <5>9. /\ ToSet(InsertAt(up, j, a)) = ToSet(up) \cup {a}
                /\ Len(InsertAt(up, j, a)) = Len(up) + 1
              BY <5>7, InsertOne
          <5>10. /\ ToSet(RemoveAt(down, j)) = ToSet(down) \ {a}
                 /\ Len(RemoveAt(down, j)) = Len(down) - 1
              BY <5>5, RemoveOne
          <5>11. Len(up) \in Nat /\ Len(down) \in Nat
              OBVIOUS
          <5>12. Means(req.asked[s], {a}, new)
            <6>1. /\ req.asked[s].addresses = up /\ req.asked[s].notReadyAddresses = down
                  /\ new.addresses = InsertAt(up, j, a)
                  /\ new.notReadyAddresses = RemoveAt(down, j)
                BY <5>4, <5>8
            <6>2. Len(InsertAt(up, j, a)) + Len(RemoveAt(down, j)) = Len(up) + Len(down)
                BY <5>9, <5>10, <5>11
            <6> QED BY <5>9, <5>10, <6>1, <6>2 DEF Means
          <5>13. Done(s, a)'
              BY <2>8, <5>1, <5>12 DEF Done
          <5> QED BY <2>9, <4>2, <5>13 DEF OnItsWay
        <4>5. ~Done(s, a)
            BY <2>15 DEF Done
        <4> QED BY <4>2, <4>3, <4>4, <4>5
      <3> QED BY <2>9, <3>2, <3>3 DEF Moves
    <2> QED BY <2>7, <2>8, <2>10, <2>11, <2>16, <2>17 DEF RequestOK
  <1> QED BY <1>4, <1>5

-----------------------------------------------------------------------------
RInv == IInv /\ TypeOK /\ RequestOK

LEMMA RequestStart == Init => RInv
  <1> SUFFICES ASSUME Init PROVE RInv
      OBVIOUS
  <1>1. IInv
      BY Start
  <1>2. New(req)
      BY DEF Init, New, NoRequest
  <1>3. req \in Request /\ RequestOK
      BY <1>2, NewRequest
  <1>4. endpoints \in Seq(Subset)
      BY WantedOK DEF Init
  <1>5. verdict \in [Node -> {"yes", "no"}] /\ unready \in SUBSET Address
      BY DEF Init
  <1>6. faults \in 0..MaxFaults /\ misses \in 0..MaxMisses
      BY DEF Init
  <1>7. webhook \in BOOLEAN
      BY DEF Init
  <1> QED BY <1>1, <1>3, <1>4, <1>5, <1>6, <1>7 DEF RInv, IInv, NodesOK, TypeOK

(* The Endpoints half of a step.                                           *)
LEMMA EndpointsStep ==
    ASSUME RInv, [Next]_vars
    PROVE  req' \in Request /\ RequestOK' /\ endpoints' \in Seq(Subset)
  <1>1. req \in Request /\ RequestOK /\ endpoints \in Seq(Subset)
      BY DEF RInv, TypeOK
  <1>2. CASE UNCHANGED <<req, endpoints>>
      BY <1>1, <1>2, SameRequest
  <1>3. CASE SendUpdate
      BY <1>1, <1>3, SendUpdateStep
  <1>4. CASE \E failed \in BOOLEAN : Look(failed)
    <2>1. endpoints' = endpoints
        BY <1>4 DEF Look
    <2> QED BY <1>1, <1>4, <2>1, LookStep
  <1>5. CASE NextSubset
      BY <1>1, <1>5, NextSubsetStep DEF NextSubset
  <1>6. CASE ApplyPatch
      BY <1>1, <1>6, ApplyPatchStep DEF ApplyPatch
  <1>7. CASE GiveUp
      BY <1>1, <1>7, RequestTypes, NoRequestOK DEF GiveUp
  <1>8. CASE Store
      BY <1>1, <1>8, RequestTypes, NoRequestOK DEF Store
  <1>9. \/ UNCHANGED <<req, endpoints>> \/ SendUpdate
        \/ (\E failed \in BOOLEAN : Look(failed))
        \/ NextSubset \/ ApplyPatch \/ GiveUp \/ Store
    <2>1. CASE \E n \in Node : NodeController(n) \/ VoteUpdate(n)
        BY <2>1 DEF NodeController, VoteUpdate, UpdateNode
    <2>2. CASE \E n \in Flaky : Connection(n)
        BY <2>2 DEF Connection
    <2>3. CASE Environment \/ WebhookChanges \/ UNCHANGED vars
        BY <2>3 DEF Environment, WebhookChanges, vars
    <2>4. CASE EndpointsController \/ Touch \/ Admit \/ GiveUp \/ Look(TRUE)
        BY <2>4 DEF EndpointsController, Touch, Admit
    <2> QED BY <2>1, <2>2, <2>3, <2>4 DEF Next, Faulty
  <1> QED BY <1>2, <1>3, <1>4, <1>5, <1>6, <1>7, <1>8, <1>9

(* The variables of the environment.                                       *)
LEMMA EnvironmentStep ==
    ASSUME RInv, [Next]_vars
    PROVE  /\ verdict' \in [Node -> {"yes", "no"}] /\ unready' \in SUBSET Address
           /\ webhook' \in BOOLEAN
           /\ faults' \in 0..MaxFaults /\ misses' \in 0..MaxMisses
  <1>1. /\ verdict \in [Node -> {"yes", "no"}] /\ unready \in SUBSET Address
        /\ faults \in 0..MaxFaults /\ misses \in 0..MaxMisses
      BY DEF RInv, TypeOK
  <1>2. webhook \in BOOLEAN
      BY DEF RInv, TypeOK
  <1>3. CASE UNCHANGED envVars
      BY <1>1, <1>2, <1>3 DEF envVars
  <1>4. CASE \E n \in Flaky : Connection(n)
    <2>1. faults' = faults + 1 /\ faults < MaxFaults /\ UNCHANGED <<verdict, unready, webhook, misses>>
        BY <1>4 DEF Connection
    <2> QED BY <1>1, <1>2, <2>1
  <1>5. CASE Environment
    <2>1. faults' = faults + 1 /\ faults < MaxFaults /\ UNCHANGED <<webhook, misses>>
        BY <1>5 DEF Environment
    <2>2. verdict' \in [Node -> {"yes", "no"}] /\ unready' \in SUBSET Address
        BY <1>1, <1>5 DEF Environment
    <2> QED BY <1>1, <1>2, <2>1, <2>2
  <1>6. CASE WebhookChanges
    <2>1. /\ misses' = misses + 1 /\ misses < MaxMisses /\ UNCHANGED <<verdict, unready, faults>>
          /\ webhook' = ~webhook
        BY <1>6 DEF WebhookChanges
    <2>2. webhook' \in BOOLEAN
        BY <2>1
    <2> QED BY <1>1, <2>1, <2>2
  <1>7. CASE GiveUp \/ \E failed \in BOOLEAN : Look(failed)
    <2>1. /\ \/ misses' = misses + 1 /\ misses < MaxMisses
             \/ misses' = misses
          /\ UNCHANGED <<verdict, unready, webhook, faults>>
        BY <1>7 DEF GiveUp, Look
    <2> QED BY <1>1, <1>2, <2>1
  <1>8. \/ UNCHANGED envVars \/ (\E n \in Flaky : Connection(n)) \/ Environment
        \/ WebhookChanges \/ GiveUp \/ \E failed \in BOOLEAN : Look(failed)
    <2>1. CASE \E n \in Node : NodeController(n) \/ VoteUpdate(n)
        BY <2>1 DEF NodeController, VoteUpdate, UpdateNode
    <2>2. CASE EndpointsController \/ Touch \/ NextSubset \/ ApplyPatch \/ Store \/ UNCHANGED vars
        BY <2>2 DEF EndpointsController, Touch, SendUpdate, NextSubset, ApplyPatch, Store, envVars, vars
    <2> QED BY <2>1, <2>2 DEF Next, Faulty, Admit
  <1> QED BY <1>3, <1>4, <1>5, <1>6, <1>7, <1>8

LEMMA RequestStep == RInv /\ [Next]_vars => RInv'
  <1> SUFFICES ASSUME RInv, [Next]_vars PROVE RInv'
      OBVIOUS
  <1>1. IInv'
      BY Step DEF RInv
  <1>2. req' \in Request /\ RequestOK' /\ endpoints' \in Seq(Subset)
      BY EndpointsStep
  <1>3. /\ verdict' \in [Node -> {"yes", "no"}] /\ unready' \in SUBSET Address
        /\ webhook' \in BOOLEAN
        /\ faults' \in 0..MaxFaults /\ misses' \in 0..MaxMisses
      BY EnvironmentStep
  <1>4. TypeOK'
      BY <1>1, <1>2, <1>3 DEF IInv, NodesOK, TypeOK
  <1> QED BY <1>1, <1>2, <1>4 DEF RInv

(* No operation is left: what was to be moved of a subset was moved.       *)
LEMMA AllMoved == RInv => PatchMovesTheVouched
  <1> SUFFICES ASSUME RInv, req.patches = << >>,
                      NEW i \in DOMAIN req.asked, Cardinality(Away(i)) <= 1
               PROVE  Means(req.asked[i], Away(i), req.subsets[i])
      BY DEF PatchMovesTheVouched, Away
  <1>1. IsFiniteSet(Away(i)) /\ Moves(i)
    <2>1. i \in Nat
        BY NotReadyType DEF RInv, TypeOK
    <2> QED BY <2>1 DEF RInv, RequestOK, Looked
  <1>2. Of(i) = {}
      BY DEF Of
  <1>3. CASE Away(i) = {}
    <2>1. req.subsets[i] = req.asked[i]
        BY <1>1, <1>3 DEF Moves, Untouched
    <2> QED BY <1>3, <2>1 DEF Means
  <1>4. CASE \E a \in Address : Away(i) = {a}
    <2>1. PICK a \in Address : Away(i) = {a}
        BY <1>4
    <2>2. PICK j : Whole(i, j, a) \/ Half(i, j, a) \/ Done(i, a)
        BY <1>1, <2>1 DEF Moves, OnItsWay
    <2>3. ~Whole(i, j, a) /\ ~Half(i, j, a)
        BY <1>2 DEF Whole, Half
    <2> QED BY <2>1, <2>2, <2>3 DEF Done
  <1>5. Away(i) = {} \/ \E a \in Address : Away(i) = {a}
    <2>1. Cardinality(Away(i)) \in Nat
        BY <1>1, FS_CardinalityType
    <2>2. CASE Cardinality(Away(i)) = 0
        BY <1>1, <2>2, FS_EmptySet
    <2>3. CASE Cardinality(Away(i)) = 1
      <3>1. \E a : Away(i) = {a}
          BY <1>1, <2>3, FS_Singleton
      <3> QED BY <3>1 DEF Away
    <2> QED BY <2>1, <2>2, <2>3
  <1> QED BY <1>3, <1>4, <1>5

(* The whole state keeps its types, the request in admission among it.     *)
THEOREM TypeCorrect == Spec => []TypeOK
  <1>1. RInv => TypeOK
      BY DEF RInv
  <1> QED BY <1>1, RequestStart, RequestStep, PTL DEF Spec

(* When the patch of endPoint has been applied, a subset of which one      *)
(* address was vouched for has it in addresses, and every other address    *)
(* where it was (endpoint.go:73-101).                                      *)
THEOREM MovesTheVouched == Spec => []PatchMovesTheVouched
  <1> QED BY AllMoved, RequestStart, RequestStep, PTL DEF Spec
=============================================================================
