------------------------------ MODULE Admission ------------------------------
(***************************************************************************)
(* edge-health-admission (pkg/edge-health-admission): the webhook through  *)
(* which the apiserver passes every UPDATE of a Node and of an Endpoints.  *)
(* While a node has merely lost the cloud (its Ready condition is Unknown  *)
(* and the vote has not put nodeunhealth on it) nodeTaint strips the       *)
(* unreachable:NoExecute taint from the update, and endPoint moves the     *)
(* addresses on that node back from notReadyAddresses to addresses.        *)
(*                                                                         *)
(* The module has the webhook's two handlers and, external to the code,    *)
(* what calls them: the node controller, the endpoints controller, the     *)
(* apiserver that applies the answer's JSON patch (RFC 6902) operation by  *)
(* operation, and the updates of edge-health's vote (module HealthVote).   *)
(* One Endpoints object is followed; its subsets are those of the service, *)
(* in each of which the endpoints controller lists a pod once.             *)
(***************************************************************************)
EXTENDS Integers, Sequences, SequencesExt

CONSTANTS
    Node,       \* the nodes
    Flaky,      \* the nodes that may lose the cloud
    Address,    \* the addresses (pods) of the service
    Host,       \* EndpointAddress.NodeName
    Pods,       \* the addresses of each subset
    Order,      \* how the endpoints controller lists a set of addresses
    Unsteady,   \* the pods that may become unready by themselves
    MaxFaults,  \* bound on the changes of the environment
    MaxMisses   \* bound on the failures of the webhook

ASSUME AdmissionAssumption ==
    /\ Flaky \subseteq Node
    /\ Host \in [Address -> Node]
    /\ Pods \in Seq(SUBSET Address)
    /\ Order \in [SUBSET Address -> Seq(Address)]
    /\ \A S \in SUBSET Address : ToSet(Order[S]) = S /\ IsInjective(Order[S])
    /\ Unsteady \subseteq Address
    /\ MaxFaults \in Nat
    /\ MaxMisses \in Nat

VARIABLES
    ready,      \* status of the Ready condition of each node
    annot,      \* whether it has the annotation nodeunhealth
    taints,     \* its list of taints
    verdict,    \* what the majority of edge-health daemons says of it
    unready,    \* the pods whose readiness probe fails
    endpoints,  \* the stored Endpoints: its list of subsets
    req,        \* the UPDATE of the Endpoints that is in admission
    webhook,    \* whether the webhook answers
    faults,     \* environment changes so far
    misses      \* failures of the webhook so far

nodeVars == <<ready, annot, taints>>
envVars  == <<verdict, unready, webhook, faults, misses>>
vars     == <<ready, annot, taints, verdict, unready, endpoints, req, webhook,
              faults, misses>>

-----------------------------------------------------------------------------
NoExecute  == "unreachable:NoExecute"
NoSchedule == "unreachable:NoSchedule"
Taint      == {NoExecute, NoSchedule}

Subset == [addresses : Seq(Address), notReadyAddresses : Seq(Address)]
Patch  == [op : {"remove", "add"}, subset : Nat, index : Nat, value : Address]
NoRequest == [phase |-> "none", asked |-> << >>, subsets |-> << >>, i1 |-> 1,
              i2 |-> 1, patches |-> << >>, moved |-> {}]
Request == [phase : {"none", "look", "patch"}, asked : Seq(Subset),
            subsets : Seq(Subset), i1 : Nat, i2 : Nat, patches : Seq(Patch),
            moved : SUBSET (Nat \X Address)]

(* The node has only lost the cloud: its Ready condition is Unknown and it  *)
(* has no annotation nodeunhealth.                                         *)
OnlyOffline(n) == ready[n] = "Unknown" /\ ~annot[n]

-----------------------------------------------------------------------------
(* util.TaintExistsPosition: the first position of the NoExecute taint.    *)
TaintExistsPosition(ts) ==
    CHOOSE i \in DOMAIN ts : ts[i] = NoExecute /\ \A j \in 1..(i - 1) : ts[j] # NoExecute

(* Mutants of nodeTaint: the index of the taint among the added ones, not  *)
(* in the object; nothing is stripped.                                     *)
WrongIndex(n, healthy, ts) ==
    IF ready[n] = "Unknown" /\ healthy /\ NoExecute \in ToSet(ts)
      THEN RemoveAt(ts, 1)
      ELSE ts
StripsNothing(n, healthy, ts) == ts

(* nodeTaint: the taints of an UPDATE of node n after the webhook's patch. *)
(* Its two branches, the taint being new or there before, do the same.     *)
nodeTaint(n, healthy, ts) ==
    IF ready[n] = "Unknown" /\ healthy /\ NoExecute \in ToSet(ts)
      THEN RemoveAt(ts, TaintExistsPosition(ts))
      ELSE ts

(* An UPDATE of node n with the annotation a and the taints ts.  The       *)
(* webhook's failurePolicy is Ignore: without an answer it goes in as it   *)
(* is.                                                                     *)
UpdateNode(n, a, ts) ==
    /\ annot' = [annot EXCEPT ![n] = a]
    /\ taints' = [taints EXCEPT ![n] = IF webhook THEN nodeTaint(n, ~a, ts) ELSE ts]
    /\ UNCHANGED <<ready, endpoints, req, envVars>>

(* The node controller keeps on adding what a node that is Unknown lacks,  *)
(* and takes it off once the node is back.                                 *)
NodeController(n) ==
    \/ \E t \in Taint \ ToSet(taints[n]) :
           ready[n] = "Unknown" /\ UpdateNode(n, annot[n], Append(taints[n], t))
    \/ /\ ready[n] = "True" /\ taints[n] # << >>
       /\ UpdateNode(n, annot[n], << >>)

(* edge-health's Vote: no puts the annotation on; yes takes it off, or     *)
(* else the taint (VoteNo and VoteYes of HealthVote).                      *)
VoteUpdate(n) ==
    \/ verdict[n] = "no" /\ ~annot[n] /\ UpdateNode(n, TRUE, taints[n])
    \/ verdict[n] = "yes" /\ annot[n] /\ UpdateNode(n, FALSE, taints[n])
    \/ /\ verdict[n] = "yes" /\ ~annot[n] /\ NoExecute \in ToSet(taints[n])
       /\ UpdateNode(n, FALSE, RemoveAt(taints[n], TaintExistsPosition(taints[n])))

(* The node loses the cloud or is back: the Ready condition is written     *)
(* through nodes/status, which the webhook is not registered for.          *)
Connection(n) ==
    /\ faults < MaxFaults
    /\ faults' = faults + 1
    /\ ready' = [ready EXCEPT ![n] = IF @ = "True" THEN "Unknown" ELSE "True"]
    /\ UNCHANGED <<annot, taints, verdict, unready, webhook, misses, endpoints, req>>

(* The vote comes out otherwise, or the probe of a pod does.               *)
Environment ==
    /\ faults < MaxFaults
    /\ faults' = faults + 1
    /\ \/ \E n \in Flaky, v \in {"yes", "no"} :
              verdict' = [verdict EXCEPT ![n] = v] /\ UNCHANGED unready
       \/ \E a \in Unsteady :
              /\ unready' = IF a \in unready THEN unready \ {a} ELSE unready \cup {a}
              /\ UNCHANGED verdict
    /\ UNCHANGED <<nodeVars, webhook, misses, endpoints, req>>

(* The webhook's pod stops or starts answering.                            *)
WebhookChanges ==
    /\ misses < MaxMisses
    /\ misses' = misses + 1
    /\ webhook' = ~webhook
    /\ UNCHANGED <<nodeVars, verdict, unready, faults, endpoints, req>>

-----------------------------------------------------------------------------
(* What the endpoints controller wants: the pods of each subset, those     *)
(* that are not ready or on a node that is not ready apart.                *)
PodReady(a) == a \notin unready /\ ready[Host[a]] = "True"
Split(pods) ==
    [addresses |-> Order[{a \in pods : PodReady(a)}],
     notReadyAddresses |-> Order[{a \in pods : ~PodReady(a)}]]
Wanted == [i \in DOMAIN Pods |-> Split(Pods[i])]

(* An UPDATE of the Endpoints enters admission; a webhook that does not     *)
(* answer is left out.                                                     *)
SendUpdate ==
    /\ req.phase = "none"
    /\ IF webhook
         THEN /\ req' = [NoRequest EXCEPT !.phase = "look", !.asked = Wanted,
                                         !.subsets = Wanted]
              /\ UNCHANGED endpoints
         ELSE endpoints' = Wanted /\ UNCHANGED req
    /\ UNCHANGED <<nodeVars, envVars>>

(* A sync of the service: an UPDATE if the stored object is not as wanted. *)
EndpointsController == endpoints # Wanted /\ SendUpdate

(* An UPDATE for another reason: its labels, or a pod that comes or goes.  *)
Touch == endpoints = Wanted /\ webhook /\ SendUpdate

(* Mutant of MovePatches: no removal.                                      *)
AddsOnly(i1, i2, a) ==
    <<[op |-> "add", subset |-> i1, index |-> i2, value |-> a]>>

(* The two operations endPoint writes for the address a at index i2 of     *)
(* notReadyAddresses of subset i1, with the indices of the loop.  (Here    *)
(* the indices of lists start at 1.)                                       *)
MovePatches(i1, i2, a) ==
    <<[op |-> "remove", subset |-> i1, index |-> i2, value |-> a],
      [op |-> "add", subset |-> i1, index |-> i2, value |-> a]>>

(* Mutants: an annotated node is vouched for; no node is.                  *)
AnyOffline(n) == ready[n] = "Unknown"
NeverHealthy(n) == FALSE

(* The test endPoint makes on the node it has just read.                   *)
Healthy(n) == OnlyOffline(n)

(* endPoint's loop, one not ready address per step: the node is read from  *)
(* the apiserver, and may change before the next one is.  If it cannot be  *)
(* read the address is skipped.                                            *)
Look(failed) ==
    LET notReady == req.asked[req.i1].notReadyAddresses
        a == notReady[req.i2]
    IN /\ req.phase = "look"
       /\ req.i1 <= Len(req.asked)
       /\ req.i2 <= Len(notReady)
       /\ IF failed THEN misses < MaxMisses /\ misses' = misses + 1
                    ELSE UNCHANGED misses
       /\ req' = IF ~failed /\ Healthy(Host[a])
                   THEN [req EXCEPT !.i2 = @ + 1,
                                    !.patches = @ \o MovePatches(req.i1, req.i2, a),
                                    !.moved = @ \cup {<<req.i1, a>>}]
                   ELSE [req EXCEPT !.i2 = @ + 1]
       /\ UNCHANGED <<nodeVars, verdict, unready, webhook, faults, endpoints>>

(* The outer loop: the next subset, or the answer, always allowed.         *)
NextSubset ==
    /\ req.phase = "look"
    /\ req.i1 <= Len(req.asked) => req.i2 > Len(req.asked[req.i1].notReadyAddresses)
    /\ req' = IF req.i1 <= Len(req.asked)
                THEN [req EXCEPT !.i1 = @ + 1, !.i2 = 1]
                ELSE [req EXCEPT !.phase = "patch"]
    /\ UNCHANGED <<nodeVars, envVars, endpoints>>

(* The webhook fails or takes longer than timeoutSeconds: the apiserver    *)
(* goes on without it.                                                     *)
GiveUp ==
    /\ req.phase = "look"
    /\ misses < MaxMisses
    /\ misses' = misses + 1
    /\ endpoints' = req.asked
    /\ req' = NoRequest
    /\ UNCHANGED <<nodeVars, verdict, unready, webhook, faults>>

(* The apiserver applies the operations in order.  A list that is empty is *)
(* not in the JSON object (omitempty), and an index must be one of the     *)
(* list, or just past its end for an add.                                  *)
Applies(p, s) ==
    IF p.op = "remove" THEN p.index <= Len(s.notReadyAddresses)
    ELSE s.addresses # << >> /\ p.index <= Len(s.addresses) + 1

Applied(p, s) ==
    IF p.op = "remove" THEN [s EXCEPT !.notReadyAddresses = RemoveAt(@, p.index)]
    ELSE [s EXCEPT !.addresses = InsertAt(@, p.index, p.value)]

(* An operation that does not apply fails the request, whatever the        *)
(* failurePolicy; the controller will try again.                           *)
ApplyPatch ==
    LET p == Head(req.patches)
    IN /\ req.phase = "patch" /\ req.patches # << >>
       /\ req' = IF Applies(p, req.subsets[p.subset])
                   THEN [req EXCEPT !.patches = Tail(@),
                                    !.subsets[p.subset] = Applied(p, @)]
                   ELSE NoRequest
       /\ UNCHANGED <<nodeVars, envVars, endpoints>>

Store ==
    /\ req.phase = "patch" /\ req.patches = << >>
    /\ endpoints' = req.subsets
    /\ req' = NoRequest
    /\ UNCHANGED <<nodeVars, envVars>>

-----------------------------------------------------------------------------
Init ==
    /\ ready = [n \in Node |-> "True"]
    /\ annot = [n \in Node |-> FALSE]
    /\ taints = [n \in Node |-> << >>]
    /\ verdict = [n \in Node |-> "yes"]
    /\ unready = {}
    /\ endpoints = Wanted
    /\ req = NoRequest
    /\ webhook = TRUE
    /\ faults = 0
    /\ misses = 0

Admit  == Look(FALSE) \/ NextSubset \/ ApplyPatch \/ Store
Faulty == (\E n \in Flaky : Connection(n)) \/ Environment
          \/ WebhookChanges \/ GiveUp \/ Look(TRUE)

Next ==
    \/ \E n \in Node : NodeController(n) \/ VoteUpdate(n)
    \/ EndpointsController \/ Touch \/ Admit \/ Faulty

Spec == Init /\ [][Next]_vars

(* The controllers and the vote never stop trying, and a request that has  *)
(* entered the admission chain comes out of it.                            *)
FairSpec ==
    /\ Spec
    /\ WF_vars(EndpointsController)
    /\ WF_vars(Admit)
    /\ \A n \in Node : WF_vars(VoteUpdate(n)) /\ WF_vars(NodeController(n))

-----------------------------------------------------------------------------
(* Type invariant.                                                         *)
TypeOK ==
    /\ ready \in [Node -> {"True", "Unknown"}]
    /\ annot \in [Node -> BOOLEAN]
    /\ taints \in [Node -> Seq(Taint)]
    /\ verdict \in [Node -> {"yes", "no"}]
    /\ unready \in SUBSET Address
    /\ endpoints \in Seq(Subset)
    /\ req \in Request
    /\ webhook \in BOOLEAN
    /\ faults \in 0..MaxFaults
    /\ misses \in 0..MaxMisses

(* Whoever sends the update and whatever taint it is about: with the       *)
(* webhook answering, the NoExecute taint neither appears on a node that   *)
(* is only off line nor survives an update of it, and no update of that    *)
(* kind takes another taint with it.                                       *)
OfflineIsNotEvicted ==
    [][ \A n \in Node :
          (webhook /\ ready[n] = "Unknown" /\ <<annot[n], taints[n]>>' # <<annot[n], taints[n]>>) =>
              /\ ~annot'[n] => NoExecute \notin ToSet(taints'[n])
              /\ ToSet(taints[n]) \ ToSet(taints'[n]) \subseteq {NoExecute}
      ]_vars

(* What endPoint means by its patch: the vouched addresses are in           *)
(* addresses, every other one is in the list it was in, once.              *)
Means(old, away, new) ==
    /\ ToSet(new.addresses) = ToSet(old.addresses) \cup away
    /\ ToSet(new.notReadyAddresses) = ToSet(old.notReadyAddresses) \ away
    /\ Len(new.addresses) + Len(new.notReadyAddresses)
           = Len(old.addresses) + Len(old.notReadyAddresses)

(* The patched object is the object with those addresses moved             *)
(* (endpoint.go:73), although the operations carry the indices of the      *)
(* lists before any of them is applied: true of one address of a subset    *)
(* (the second removal of two takes a wrong one, see the README).          *)
PatchMovesTheVouched ==
    (req.phase = "patch" /\ req.patches = << >>) =>
        \A i \in DOMAIN req.asked :
            LET away == {a \in Address : <<i, a>> \in req.moved}
            IN Cardinality(away) <= 1 => Means(req.asked[i], away, req.subsets[i])

Serves(a) == \A i \in DOMAIN Pods :
                 a \in Pods[i] => a \in ToSet(endpoints[i].addresses)

StaysOffline(n) == <>[](OnlyOffline(n) /\ verdict[n] = "yes" /\ webhook)

(* A node that stays only off line is in the end without the NoExecute     *)
(* taint for good.                                                         *)
OfflineGetsUntainted ==
    \A n \in Flaky :
        StaysOffline(n) => <>[](NoExecute \notin ToSet(taints[n]))

(* The pods of a node that stays only off line are in the end served for   *)
(* good, as long as updates of the Endpoints keep coming.                  *)
IsServed(n) == \A a \in Address : Host[a] = n => Serves(a)
TouchedKeepsServing ==
    \A n \in Flaky : StaysOffline(n) /\ []<>(req.phase = "look") => <>[]IsServed(n)

(* The pods of an off line node that stays marked are in the end not       *)
(* served, whatever an answer under way still vouches for.                 *)
MarkedStopsServing ==
    \A n \in Flaky :
        <>[](ready[n] = "Unknown" /\ annot[n]) =>
            <>[](\A a \in Address : Host[a] = n =>
                   \A i \in DOMAIN Pods : a \notin ToSet(endpoints[i].addresses))
=============================================================================
