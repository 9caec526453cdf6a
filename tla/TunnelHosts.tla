---------------------------- MODULE TunnelHosts ----------------------------
(***************************************************************************)
(* The hosts file that leads the names of edge nodes to the pods of           *)
(* tunnel-cloud they are connected to (pkg/tunnel/proxy/stream/streammng/      *)
(* connect/coredns.go).  Each pod checks every minute the file as it is        *)
(* mounted, and overwrites the ConfigMap it is mounted from when the file      *)
(* does not fit the nodes it has: pods undo each other's lines with what an    *)
(* old file told them.                                                      *)
(***************************************************************************)
EXTENDS Naturals, FiniteSets

CONSTANTS Pod, Node, None,
          MaxMoves,   \* how often a node connects, or goes to another pod
          MaxFaults   \* calls that fail, pods that restart, leave or are not ready

ASSUME TunnelHostsAssumption ==
    /\ None \notin Pod /\ IsFiniteSet(Pod) /\ MaxMoves \in Nat /\ MaxFaults \in Nat

VARIABLES
    running, ready,    \* pods there are, and those among the addresses of the service
    at, here,          \* the pod a node is connected to, the nodes a pod has registered
    hosts, file,       \* the ConfigMap, and what of it is mounted in each pod
    pc, wants,         \* a pod's checkHosts: what it is to write
    fresh,             \* pods that have got the ConfigMap as it is
    moves, faults

cluster == <<running, ready, at, here>>
check == <<pc, wants, fresh>>
vars == <<cluster, hosts, file, check, moves, faults>>

Hosts == [Node -> Pod \cup {None}]
Empty == [n \in Node |-> None]

TypeOK ==
    /\ ready \subseteq running /\ running \subseteq Pod /\ fresh \subseteq Pod
    /\ at \in Hosts /\ here \in [Pod -> SUBSET Node]
    /\ hosts \in Hosts /\ file \in [Pod -> Hosts]
    /\ pc \in [Pod -> {"sleep", "get", "update"}]
    /\ wants \in [Pod -> Hosts]
    /\ moves \in 0 .. MaxMoves /\ faults \in 0 .. MaxFaults

-----------------------------------------------------------------------------
(* Nodes and pods.                                                         *)

Connect(n, p) ==
    /\ p \in running /\ at[n] # p /\ moves < MaxMoves /\ moves' = moves + 1
    /\ at' = [at EXCEPT ![n] = p] /\ here' = [here EXCEPT ![p] = @ \cup {n}]
    /\ UNCHANGED <<running, ready, hosts, file, check, faults>>

\* The pod a node has left finds its stream broken later.
Notice(n, p) ==
    /\ n \in here[p] /\ at[n] # p
    /\ here' = [here EXCEPT ![p] = @ \ {n}]
    /\ UNCHANGED <<running, ready, at, hosts, file, check, moves, faults>>

Goes(p) ==
    /\ here' = [here EXCEPT ![p] = {}]
    /\ at' = [n \in Node |-> IF at[n] = p THEN None ELSE at[n]]

Fault == faults < MaxFaults /\ faults' = faults + 1 /\ UNCHANGED moves

Sleep(p) ==
    /\ pc' = [pc EXCEPT ![p] = "sleep"] /\ fresh' = fresh \ {p}
    /\ wants' = [wants EXCEPT ![p] = Empty]

Restart(p) ==
    /\ Fault /\ p \in running /\ Goes(p) /\ Sleep(p)
    /\ UNCHANGED <<running, ready, hosts, file>>

\* The last pod stays.
Leave(p) ==
    /\ Fault /\ p \in running /\ running # {p} /\ Goes(p) /\ Sleep(p)
    /\ running' = running \ {p} /\ ready' = ready \ {p}
    /\ UNCHANGED <<hosts, file>>

Unready(p) ==
    /\ Fault /\ ready' = ready \ {p} /\ p \in ready
    /\ UNCHANGED <<running, at, here, hosts, file, check>>

Ready(p) ==
    /\ p \in running \ ready /\ ready' = ready \cup {p}
    /\ UNCHANGED <<running, at, here, hosts, file, check, moves, faults>>

\* The kubelet brings the mounted file up to date.
Mount(p) ==
    /\ p \in running /\ file[p] # hosts /\ file' = [file EXCEPT ![p] = hosts]
    /\ UNCHANGED <<cluster, hosts, check, moves, faults>>

-----------------------------------------------------------------------------
(* SynCorefile, checkHosts, parseHosts.                                     *)

\* Lines of other pods in the service are kept, except for nodes that are here.
Kept(p, n) == file[p][n] \in ready \ {p} /\ n \notin here[p]

\* Some line is of a pod that is gone, or of a node that is here.
Update(p) == \E n \in Node : file[p][n] \notin {None, p} /\ ~Kept(p, n)

\* existCount and disconnectCount: the lines of this pod against its nodes.
\* Mutant: NodesMissing does not look for lines of nodes that have gone.
NodesMissing(p) == ~(here[p] \subseteq {n \in Node : file[p][n] = p})
CountsDiffer(p) == {n \in Node : file[p][n] = p} # here[p]

\* Without any address Subsets[0] may not be there, which ends the process at
\* the first line of another pod; with addresses that are not ready it is empty.
NoSubset(p) ==
    /\ ready = {} /\ \E n \in Node : file[p][n] \notin {None, p}
    /\ Goes(p) /\ UNCHANGED check

ParseHosts(p) ==
    /\ p \in running /\ pc[p] = "sleep"
    /\ \/ NoSubset(p)
       \/ /\ Update(p) \/ CountsDiffer(p)
          /\ pc' = [pc EXCEPT ![p] = "get"]
          /\ wants' = [wants EXCEPT ![p] = [n \in Node |->
                 IF n \in here[p] THEN p ELSE IF Kept(p, n) THEN file[p][n] ELSE None]]
          /\ UNCHANGED <<at, here, fresh>>
    /\ UNCHANGED <<running, ready, hosts, file, moves, faults>>

GetConfigMap(p) ==
    /\ pc[p] = "get" /\ pc' = [pc EXCEPT ![p] = "update"] /\ fresh' = fresh \cup {p}
    /\ UNCHANGED <<cluster, hosts, file, wants, moves, faults>>

\* Whoever has got it before this version meets a conflict, and tries in a minute.
UpdateConfigMap(p) ==
    /\ pc[p] = "update"
    /\ pc' = [pc EXCEPT ![p] = "sleep"] /\ wants' = [wants EXCEPT ![p] = Empty]
    /\ hosts' = IF p \in fresh THEN wants[p] ELSE hosts
    /\ fresh' = IF hosts' = hosts THEN fresh \ {p} ELSE {}
    /\ UNCHANGED <<cluster, file, moves, faults>>

CallFails(p) ==
    /\ Fault /\ pc[p] # "sleep" /\ Sleep(p)
    /\ UNCHANGED <<cluster, hosts, file>>

-----------------------------------------------------------------------------
Init ==
    /\ running = Pod /\ ready = Pod /\ at \in Hosts
    /\ here = [p \in Pod |-> {n \in Node : at[n] = p}]
    /\ hosts = Empty /\ file = [p \in Pod |-> Empty]
    /\ pc = [p \in Pod |-> "sleep"] /\ fresh = {}
    /\ wants = [p \in Pod |-> Empty]
    /\ moves = 0 /\ faults = 0

CheckHosts(p) == ParseHosts(p) \/ GetConfigMap(p) \/ UpdateConfigMap(p)

Next ==
    \E p \in Pod :
        \/ Restart(p) \/ Leave(p) \/ Unready(p) \/ Ready(p) \/ Mount(p)
        \/ CheckHosts(p) \/ CallFails(p)
        \/ \E n \in Node : Connect(n, p) \/ Notice(n, p)

HostsSpec == Init /\ [][Next]_vars

\* Pods check again and again, kubelets mount, broken streams are found.
Fairness ==
    /\ \A p \in Pod : WF_vars(CheckHosts(p)) /\ WF_vars(Mount(p))
    /\ WF_vars(\E p \in Pod : Ready(p) \/ \E n \in Node : Notice(n, p))

FairSpec == HostsSpec /\ Fairness

-----------------------------------------------------------------------------
\* Once nodes and pods stay where they are, the file leads each node that is
\* connected to its pod and knows no other (the comment at coredns.go:114-117),
\* though every pod writes the whole file from an old copy of it, and the names
\* of pods that left, restarted or were not ready for a while went wrong.
HostsSettle == <>[](hosts = at)
=============================================================================
