---------------------------- MODULE HealthCheck ----------------------------
(***************************************************************************)
(* The goroutines of one edge-health daemon that decide what it checks and *)
(* what it finds: the node informer, GetNodeList and Check with its        *)
(* plugins.  They share data.NodeList, data.CheckInfoResult and            *)
(* data.Result, each under a mutex that is held for one access only; an    *)
(* action is such an access.  A node and its InternalIP are one value.     *)
(***************************************************************************)
EXTENDS Integers, Sequences, FiniteSets

CONSTANTS
    Node,       \* nodes of the cluster
    Master,     \* ... those with the master label
    Host,       \* the node this daemon runs on
    ZoneOf,     \* value of the label superedgehealth/topology-zone of a node
    NoZone,     \* ... "has no such label"
    Plugin,     \* the configured check plugins
    Shared,     \* ... whose probes of all nodes share one err (PingCheck)
    Passing,    \* the sets of plugins whose weights reach the score line
    Clusters,   \* the sets of nodes there may be at first
    Links,      \* the sets of nodes that may be those whose probes succeed
    FirstLinks, \* ... and those of them there may be at first
    Configs,    \* the settings of the zone config map there may be at first
    MaxEvents   \* bound on the events of the environment

\* Multi-region detection: closed without the config map or when it says "false".
Config == {"closed", "open"}

ASSUME CheckAssumption ==
    /\ IsFiniteSet(Node)
    /\ Master \subseteq Node
    /\ Host \in Node \ Master
    /\ Shared \subseteq Plugin
    /\ Passing \subseteq SUBSET Plugin
    /\ {} \notin Passing
    /\ \A s \in Passing, t \in SUBSET Plugin : s \subseteq t => t \in Passing
    /\ \A nodes \in Clusters : Host \in nodes /\ nodes \subseteq Node
    /\ FirstLinks \subseteq Links /\ Links \subseteq SUBSET Node
    /\ Configs \subseteq Config
    /\ MaxEvents \in Nat

VARIABLES
    cluster,    \* the nodes in the apiserver
    config,     \* what the config map of zones says
    up,         \* the nodes whose probes succeed
    count,      \* events of the environment so far
    lister,     \* the informer's store
    queue,      \* notifications the node handler has not had yet
    nodeList,   \* data.NodeList
    listed,     \* keys of data.CheckInfoResult
    score,      \* its entries
    own,        \* data.Result[LocalIp]
    heard,      \* the other keys of data.Result
    list,       \* GetNodeList: where it is, its iplist, what its loop has left,
                \*   and (history) whether no round of Check ran in this pass
    round,      \* Check: where it is, the nodes normal by its copy of the scores,
                \*   and those its loop has left
    exec        \* CheckExecute of each plugin: where it is, its WaitGroup, the
                \*   goroutines that still run, those past their dial, err

envVars   == <<cluster, config, up, count>>
storeVars == <<lister, queue, nodeList>>
dataVars  == <<listed, score>>
vars == <<envVars, storeVars, dataVars, own, heard, list, round, exec>>

-----------------------------------------------------------------------------
Score    == {"none", "full", "zero"}
Unscored == [p \in Plugin |-> "none"]
ListIdle == [at |-> "idle", ips |-> {}, todo |-> {}, calm |-> FALSE]
RoundIdle == [at |-> "idle", normal |-> {}, todo |-> {}]
ExecIdle == [at |-> "idle", wg |-> 0, probes |-> {}, judging |-> {}, err |-> FALSE]

(* The nodes GetNodeList selects from the lister.                          *)
Selected ==
    IF config = "closed" THEN lister \ Master
    ELSE IF ZoneOf[Host] = NoZone THEN {Host}
    ELSE {n \in lister \ Master : ZoneOf[n] = ZoneOf[Host]}

(* A full score of the plugins that succeeded reaches the score line.      *)
Normal(scores) == {p \in Plugin : scores[p] = "full"} \in Passing

(* data.Result[LocalIp] is a key of data.Result once it has an entry.      *)
Checkers == heard \cup {n \in {Host} : \E m \in Node : own[m] # "none"}

-----------------------------------------------------------------------------
(* The environment: nodes come and go, the zone config map changes, links  *)
(* fail, other daemons send results.                                       *)
Event == count < MaxEvents /\ count' = count + 1

ClusterChanges ==
    /\ Event
    /\ \E n \in Node \ {Host} :
           cluster' = IF n \in cluster THEN cluster \ {n} ELSE cluster \cup {n}
    /\ UNCHANGED <<config, up, storeVars, dataVars, own, heard, list, round, exec>>

ConfigChanges ==
    /\ Event
    /\ config' \in Config \ {config}
    /\ UNCHANGED <<cluster, up, storeVars, dataVars, own, heard, list, round, exec>>

LinkChanges ==
    /\ Event
    /\ up' \in Links \ {up}
    /\ UNCHANGED <<cluster, config, storeVars, dataVars, own, heard, list, round, exec>>

(* A node is updated (kubelet's heartbeat) or the informer resyncs: the    *)
(* handler is told of a node again.                                        *)
NodeUpdated ==
    /\ Event
    /\ \E n \in lister : queue' = Append(queue, [node |-> n, present |-> TRUE])
    /\ UNCHANGED <<cluster, config, up, lister, nodeList, dataVars, own, heard,
                   list, round, exec>>

(* communicate.Server stores the results of another daemon.                *)
SetResult ==
    /\ Event
    /\ \E n \in Node \ {Host} : heard' = heard \cup {n}
    /\ UNCHANGED <<cluster, config, up, storeVars, dataVars, own, list, round, exec>>

-----------------------------------------------------------------------------
(* The informer brings its store up to date with one node and queues the   *)
(* notification of the handler.                                            *)
Inform(n) ==
    /\ (n \in lister) # (n \in cluster)
    /\ lister' = IF n \in cluster THEN lister \cup {n} ELSE lister \ {n}
    /\ queue' = Append(queue, [node |-> n, present |-> n \in cluster])
    /\ UNCHANGED <<envVars, nodeList, dataVars, own, heard, list, round, exec>>

(* handleNodeAddUpdate, handleNodeDelete: of any node, master or not, of   *)
(* any zone.                                                               *)
HandleNode ==
    /\ queue # <<>>
    /\ nodeList' = IF Head(queue).present THEN nodeList \cup {Head(queue).node}
                                          ELSE nodeList \ {Head(queue).node}
    /\ queue' = Tail(queue)
    /\ UNCHANGED <<envVars, lister, dataVars, own, heard, list, round, exec>>

-----------------------------------------------------------------------------
(* GetNodeList.  It needs the host in the lister, selects its nodes ...    *)
ListNodes ==
    /\ list.at = "idle"
    /\ Host \in lister
    /\ list' = [list EXCEPT !.at = "set", !.ips = Selected, !.calm = round.at = "idle"]
    /\ UNCHANGED <<envVars, storeVars, dataVars, own, heard, round, exec>>

(* ... puts them into data.NodeList ...                                    *)
SetNodeList ==
    /\ list.at = "set"
    /\ nodeList' = list.ips
    /\ list' = [list EXCEPT !.at = "copy", !.ips = {}]
    /\ UNCHANGED <<envVars, lister, queue, dataVars, own, heard, round, exec>>

(* ... and copies that list again, in another critical section.            *)
CopyNodeList ==
    /\ list.at = "copy"
    /\ list' = [list EXCEPT !.at = "allocate", !.ips = nodeList, !.todo = nodeList]
    /\ UNCHANGED <<envVars, storeVars, dataVars, own, heard, round, exec>>

(* SetCheckedIpCheckInfo for every ip.                                     *)
Allocate(n) ==
    /\ list.at = "allocate"
    /\ n \in list.todo
    /\ listed' = listed \cup {n}
    /\ list' = [list EXCEPT !.todo = @ \ {n}]
    /\ UNCHANGED <<envVars, storeVars, score, own, heard, round, exec>>

(* Mutant: the ips of other periods stay.                                  *)
TraverseNothing ==
    /\ list.at = "allocate"
    /\ list.todo = {}
    /\ list' = [list EXCEPT !.at = "prune", !.todo = {}]
    /\ UNCHANGED <<envVars, storeVars, dataVars, own, heard, round, exec>>

(* TraverseCheckedIpCheckInfo: the ips that are not in iplist must go.     *)
Traverse ==
    /\ list.at = "allocate"
    /\ list.todo = {}
    /\ list' = [list EXCEPT !.at = "prune", !.todo = listed \ list.ips]
    /\ UNCHANGED <<envVars, storeVars, dataVars, own, heard, round, exec>>

DeleteCheckedIp(n) ==
    /\ list.at = "prune"
    /\ n \in list.todo
    /\ listed' = listed \ {n}
    /\ score' = [score EXCEPT ![n] = Unscored]
    /\ list' = [list EXCEPT !.todo = @ \ {n}]
    /\ UNCHANGED <<envVars, storeVars, own, heard, round, exec>>

CopyResultData ==
    /\ list.at = "prune"
    /\ list.todo = {}
    /\ list' = [list EXCEPT !.at = "drop", !.ips = {}, !.todo = Checkers \ list.ips]
    /\ UNCHANGED <<envVars, storeVars, dataVars, own, heard, round, exec>>

(* DeleteResultData: the results of the checker k, and those about it.     *)
DeleteResultData(k) ==
    /\ list.at = "drop"
    /\ k \in list.todo
    /\ own' = IF k = Host THEN [n \in Node |-> "none"] ELSE [own EXCEPT ![k] = "none"]
    /\ heard' = heard \ {k}
    /\ list' = [list EXCEPT !.todo = @ \ {k}]
    /\ UNCHANGED <<envVars, storeVars, dataVars, round, exec>>

GetNodeListReturns ==
    /\ list.at = "drop"
    /\ list.todo = {}
    /\ list' = ListIdle
    /\ UNCHANGED <<envVars, storeVars, dataVars, own, heard, round, exec>>

-----------------------------------------------------------------------------
(* Check starts every plugin and waits for all of them.                    *)
CheckStarts ==
    /\ round.at = "idle"
    /\ round' = [round EXCEPT !.at = "probing"]
    /\ exec' = [p \in Plugin |-> [ExecIdle EXCEPT !.at = "start"]]
    /\ list' = [list EXCEPT !.calm = FALSE]
    /\ UNCHANGED <<envVars, storeVars, dataVars, own, heard>>

(* CheckExecute: execwg.Add(len(CheckInfo)), without the lock ...          *)
AddWaitGroup(p) ==
    /\ exec[p].at = "start"
    /\ exec' = [exec EXCEPT ![p].at = "counted", ![p].wg = Cardinality(listed)]
    /\ UNCHANGED <<envVars, storeVars, dataVars, own, heard, list, round>>

(* ... and one goroutine for each key of a copy of CheckInfo.              *)
StartProbes(p) ==
    /\ exec[p].at = "counted"
    /\ exec' = [exec EXCEPT ![p].at = "probing", ![p].probes = listed]
    /\ UNCHANGED <<envVars, storeVars, dataVars, own, heard, list, round>>

(* A dial ends.  PingCheck keeps its outcome in the err of CheckExecute,   *)
(* one for the probes of all nodes; the others have an err each.           *)
Dial(p, n) ==
    /\ p \in Shared
    /\ n \in exec[p].probes \ exec[p].judging
    /\ exec' = [exec EXCEPT ![p].err = n \notin up, ![p].judging = @ \cup {n}]
    /\ UNCHANGED <<envVars, storeVars, dataVars, own, heard, list, round>>

Outcome(p, n) == IF p \in Shared THEN ~exec[p].err ELSE n \in up

(* Mutant: a failed probe leaves the old score.                            *)
SetCheckInfoOnSuccess(p, n) ==
    /\ IF p \in Shared THEN n \in exec[p].judging ELSE n \in exec[p].probes
    /\ exec[p].wg > 0
    /\ listed' = listed \cup {n}
    /\ score' = [score EXCEPT ![n][p] = IF Outcome(p, n) THEN "full" ELSE @]
    /\ exec' = [exec EXCEPT ![p].wg = @ - 1, ![p].probes = @ \ {n},
                            ![p].judging = @ \ {n}]
    /\ UNCHANGED <<envVars, storeVars, own, heard, list, round>>

(* SetCheckInfo with the outcome, which makes the entry if it is gone, and *)
(* execwg.Done; the counter of a WaitGroup must not become negative.       *)
SetCheckInfo(p, n) ==
    /\ IF p \in Shared THEN n \in exec[p].judging ELSE n \in exec[p].probes
    /\ exec[p].wg > 0
    /\ listed' = listed \cup {n}
    /\ score' = [score EXCEPT ![n][p] = IF Outcome(p, n) THEN "full" ELSE "zero"]
    /\ exec' = [exec EXCEPT ![p].wg = @ - 1, ![p].probes = @ \ {n},
                            ![p].judging = @ \ {n}]
    /\ UNCHANGED <<envVars, storeVars, own, heard, list, round>>

(* execwg.Wait returns; wg.Done of Check's own WaitGroup.  With goroutines  *)
(* left the process is bound to panic, and as that leaves nothing of what  *)
(* Check does until then, it is not followed.                              *)
ExecReturns(p) ==
    /\ exec[p].at = "probing"
    /\ exec[p].wg = 0
    /\ exec[p].probes = {}
    /\ exec' = [exec EXCEPT ![p] = [ExecIdle EXCEPT !.at = "done"]]
    /\ UNCHANGED <<envVars, storeVars, dataVars, own, heard, list, round>>

(* CopyCheckInfo once all plugins are done ...                             *)
CopyCheckInfo ==
    /\ round.at = "probing"
    /\ \A p \in Plugin : exec[p].at = "done"
    /\ round' = [at |-> "judging", normal |-> {n \in listed : Normal(score[n])},
                  todo |-> listed]
    /\ UNCHANGED <<envVars, storeVars, dataVars, own, heard, list, exec>>

(* ... and SetResultFromCheckInfo for every ip of the copy.                *)
SetOwnResult(n) ==
    /\ round.at = "judging"
    /\ n \in round.todo
    /\ own' = [own EXCEPT ![n] = IF n \in round.normal THEN "yes" ELSE "no"]
    /\ round' = [round EXCEPT !.normal = @ \ {n}, !.todo = @ \ {n}]
    /\ UNCHANGED <<envVars, storeVars, dataVars, heard, list, exec>>

CheckReturns ==
    /\ round.at = "judging"
    /\ round.todo = {}
    /\ round' = RoundIdle
    /\ UNCHANGED <<envVars, storeVars, dataVars, own, heard, list, exec>>

(* A goroutine calls Done on a WaitGroup that is at zero, or the error that *)
(* a goroutine of PingCheck found is nil by the time it asks for its text: *)
(* the process dies and is started again with nothing in memory.           *)
Panic ==
    /\ \E p \in Plugin : \/ (exec[p].wg = 0 /\ exec[p].probes # {})
                         \/ (exec[p].judging \ up # {} /\ ~exec[p].err)
    /\ lister' = {}
    /\ queue' = <<>>
    /\ nodeList' = {}
    /\ listed' = {}
    /\ score' = [n \in Node |-> Unscored]
    /\ own' = [n \in Node |-> "none"]
    /\ heard' = {}
    /\ list' = ListIdle
    /\ round' = RoundIdle
    /\ exec' = [p \in Plugin |-> ExecIdle]
    /\ UNCHANGED envVars

-----------------------------------------------------------------------------
Init ==
    /\ cluster \in Clusters
    /\ config \in Configs
    /\ up \in FirstLinks
    /\ count = 0
    /\ lister = {}
    /\ queue = <<>>
    /\ nodeList = {}
    /\ listed = {}
    /\ score = [n \in Node |-> Unscored]
    /\ own = [n \in Node |-> "none"]
    /\ heard = {}
    /\ list = ListIdle
    /\ round = RoundIdle
    /\ exec = [p \in Plugin |-> ExecIdle]

Environment ==
    ClusterChanges \/ ConfigChanges \/ LinkChanges \/ NodeUpdated \/ SetResult

Informer == HandleNode \/ \E n \in Node : Inform(n)

GetNodeList ==
    \/ ListNodes \/ SetNodeList \/ CopyNodeList \/ Traverse \/ CopyResultData
    \/ GetNodeListReturns
    \/ \E n \in Node : Allocate(n) \/ DeleteCheckedIp(n) \/ DeleteResultData(n)

CheckExecute(p) ==
    \/ AddWaitGroup(p) \/ StartProbes(p) \/ ExecReturns(p)
    \/ \E n \in Node : Dial(p, n) \/ SetCheckInfo(p, n)

Check ==
    \/ CheckStarts \/ CopyCheckInfo \/ CheckReturns
    \/ \E n \in Node : SetOwnResult(n)

Next ==
    \/ Environment \/ Informer \/ GetNodeList \/ Check \/ Panic
    \/ \E p \in Plugin : CheckExecute(p)

Spec == Init /\ [][Next]_vars

(* Every goroutine runs on; a probe ends, its dial has a timeout.          *)
FairSpec ==
    /\ Spec
    /\ WF_vars(Informer) /\ WF_vars(GetNodeList) /\ WF_vars(Check) /\ WF_vars(Panic)
    /\ \A p \in Plugin : WF_vars(CheckExecute(p))

-----------------------------------------------------------------------------
(* Type invariant.                                                         *)
TypeOK ==
    /\ cluster \subseteq Node /\ lister \subseteq Node /\ nodeList \subseteq Node
    /\ config \in Config
    /\ up \subseteq Node
    /\ count \in 0..MaxEvents
    /\ queue \in Seq([node : Node, present : BOOLEAN])
    /\ listed \subseteq Node
    /\ score \in [Node -> [Plugin -> Score]]
    /\ own \in [Node -> {"none", "yes", "no"}]
    /\ heard \subseteq Node
    /\ list \in [at : {"idle", "set", "copy", "allocate", "prune", "drop"},
                 ips : SUBSET Node, todo : SUBSET Node, calm : BOOLEAN]
    /\ round \in [at : {"idle", "probing", "judging"},
                  normal : SUBSET Node, todo : SUBSET Node]
    /\ exec \in [Plugin -> [at : {"idle", "start", "counted", "probing", "done"},
                            wg : 0..Cardinality(Node), probes : SUBSET Node,
                            judging : SUBSET Node, err : BOOLEAN]]

(* The scope the zone rules ask for, once the lister has the whole cluster. *)
Wanted ==
    IF config = "closed" THEN cluster \ Master
    ELSE IF ZoneOf[Host] = NoZone THEN {Host}
    ELSE {n \in cluster \ Master : ZoneOf[n] = ZoneOf[Host]}

NoMorePanics == <>[][~Panic]_vars

(* Every CheckExecute starts as many goroutines as it told its WaitGroup    *)
(* of, or more: CheckInfo does not lose a key between the two reads of it. *)
EnoughProbes ==
    [](\A p \in Plugin :
           exec[p].at = "probing" => exec[p].wg <= Cardinality(exec[p].probes))

(* Both tasks have the period HealthCheckPeriod, counted from the end of   *)
(* one run to the start of the next, and a pass of GetNodeList takes no    *)
(* time: as long as rounds of Check end again and again, one falls between *)
(* two of them again and again.                                            *)
PassesInBetween ==
    []<>(round.at = "idle") => []<>(list.calm /\ list.at = "drop" /\ list.todo = {})

(* Whatever the informer's handler and late probes put into the shared maps *)
(* between the steps of GetNodeList, the daemon ends up checking the nodes *)
(* of its zone and no others, once the cluster stops changing.  (Without a *)
(* pass in between, each round of Check brings back by a late SetCheckInfo *)
(* what the pass during the round before deleted.)                         *)
ScopeSettles == NoMorePanics /\ PassesInBetween => <>[](listed = Wanted)

(* The plugins that find n up whatever the order of the probes, and those  *)
(* that may: PingCheck's err tells n from the others in scope only if they *)
(* are all alike.                                                          *)
Surely(n)  == {p \in Plugin : IF p \in Shared THEN Wanted \subseteq up ELSE n \in up}
Perhaps(n) == {p \in Plugin : IF p \in Shared THEN Wanted \cap up # {} ELSE n \in up}

(* As long as no WaitGroup waits for more probes than there are, rounds of *)
(* checks go on, and the local results of the nodes in scope end up saying *)
(* what the links are like, whatever races they began with.  Nothing holds *)
(* of a node whose verdict hangs on a PingCheck that finds some nodes in   *)
(* scope up and others down: its race may recur in every round.            *)
VerdictsSettle ==
    NoMorePanics /\ PassesInBetween /\ EnoughProbes =>
        <>[](\A n \in Wanted : /\ Surely(n) \in Passing => own[n] = "yes"
                               /\ Perhaps(n) \notin Passing => own[n] = "no")
=============================================================================
