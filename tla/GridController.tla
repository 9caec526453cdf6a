--------------------------- MODULE GridController ---------------------------
(***************************************************************************)
(* application-grid-controller: the DeploymentGrid and the ServiceGrid        *)
(* controller (pkg/application-grid-controller/controller), which are built   *)
(* alike.  "kind" says which of the two a behaviour is of.  The objects of    *)
(* one grid are named by the values its nodes have for the grid's key (a      *)
(* deployment each) or by ServiceName (the one service).                     *)
(*                                                                         *)
(* Resource versions and uids are not numbered: for each object the listers  *)
(* and a running sync each know whether their copy is still the current one. *)
(***************************************************************************)
EXTENDS Naturals

CONSTANTS Node, Value, ServiceName,
          Part,            \* what a part of a template may be
          Spec, Keyless,   \* what a grid may ask for; those with no GridUniqKey
          Foreign,         \* what a user may make an object with
          Steady,          \* nodes whose value is never changed
          None,
          MaxRetries,      \* 15 in common/vars.go
          First, Start,    \* the grid's first spec; what may be served with which values of nodes
          MaxUid, MaxEdits, MaxFaults

\* The template of a grid, and the spec of an object: what every update carries over
\* (the ports and the topology key of a service; the replicas, the pods' template and
\* the key of a deployment), the selector, and the rest (the type of a service, ...).
Template == [carried : Part, selector : Part, other : Part]

ASSUME GridControllerAssumption ==
    /\ Spec \cup Foreign \subseteq Template
    /\ Keyless \subseteq Spec /\ Steady \subseteq Node
    /\ ServiceName \notin Value /\ "grid" \notin Value \cup {ServiceName} /\ None \notin Value \cup Spec
    /\ First \in Spec /\ Start \subseteq BOOLEAN \X [Node -> Value \cup {None}]
    /\ {MaxRetries, MaxEdits, MaxFaults} \subseteq Nat /\ MaxUid \in Nat \ {0}

VARIABLES
    kind, served,        \* which controller; whether the CRD serves /status
    grid, status, uids,  \* the grid, the keys of its Status.States, uids given
    objs, nodes,         \* by name; the value of each node
    view, synced, copy,  \* the listers, which have synced, how old copies are
    events,              \* what the watch of objects has still to report
    queued, retries,     \* the workqueue's one key
    sync,                \* the worker
    gaveUp,              \* history: the last sync failed and is not retried
    shed,                \* history: the objects that have lost the grid's label
    edits, faults

server == <<kind, served, grid, status, uids, objs, nodes>>
queue == <<queued, retries, gaveUp>>
budget == <<shed, edits, faults>>
informers == <<view, synced, copy, events>>
vars == <<server, informers, queue, sync, budget>>

Name == Value \cup {ServiceName}
Thing == Name \cup {"grid"}
Uid == 1 .. MaxUid
NoUid == 0
Grid == [uid : Uid, spec : Spec, deleting : BOOLEAN]
Object == [owner : Uid \cup {NoUid}, spec : Template, labelled : BOOLEAN]
ASSUME NoneAssumption == None \notin Object \cup Grid

Lister == {"grids", "objects", "nodes"}
Fault == {"none", "refused", "lost"}
Call == [op : {"create", "update", "delete"}, name : Name, node : Node \cup {None}]

NoObject == [x \in Name |-> None]
NoView == [grid |-> None, objs |-> NoObject, nodes |-> [n \in Node |-> None]]
AllCurrent == [t \in Thing |-> "current"]
Idle == [pc |-> "idle", grid |-> None, adopt |-> {}, release |-> {}, claimed |-> {},
         recheck |-> "not yet", todo |-> {}, failed |-> FALSE]

\* A worker has work and a grid together, and an object has an owner or none.
TypeOK ==
    /\ kind \in {"deployment", "service"} /\ served \in BOOLEAN
    /\ grid \in Grid \cup {None} /\ view.grid \in Grid \cup {None}
    /\ \A x \in Name : {objs[x], view.objs[x]} \subseteq Object \cup {None}
    /\ {nodes, view.nodes} \subseteq [Node -> Value \cup {None}]
    /\ \A x \in Name : (events[x] = {}) = (copy.lister[x] = "current")
    /\ status \subseteq Name /\ uids \in Uid /\ synced \subseteq Lister
    /\ \A w \in {"lister", "sync"}, t \in Thing : copy[w][t] \in {"current", "stale", "replaced"}
    /\ sync.pc \in {"idle", "claim", "write", "status"}
    /\ sync.pc = "idle" <=> sync = Idle
    /\ sync.pc # "idle" => sync.grid \in Grid
    /\ sync.adopt \cup sync.release \cup sync.claimed \subseteq Name
    /\ sync.todo \subseteq Call
    /\ queued \in BOOLEAN /\ retries \in 0 .. MaxRetries /\ gaveUp \in BOOLEAN /\ shed \subseteq Name
    /\ edits \in 0 .. MaxEdits /\ faults \in 0 .. MaxFaults

-----------------------------------------------------------------------------
(* The apiserver.                                                          *)

\* Objects with the grid's label, and those owned by the grid g.
Matches(o) == o # None /\ o.labelled
Owns(g, o) == o # None /\ o.owner = g.uid

\* A copy of t is outdated by a change, and of another object after a deletion.
Outdated(t, how) ==
    [w \in {"lister", "sync"} |->
        IF w = "sync" /\ sync.pc = "idle" THEN copy[w]
        ELSE [copy[w] EXCEPT ![t] = IF @ = "replaced" THEN @ ELSE how]]

\* Storing what is there already makes no new version.
Store(x, o) ==
    /\ objs' = [objs EXCEPT ![x] = o]
    /\ IF o = objs[x] THEN UNCHANGED <<copy, events>>
       ELSE /\ copy' = Outdated(x, IF None \in {o, objs[x]} THEN "replaced" ELSE "stale")
            /\ events' = [events EXCEPT ![x] = @ \cup {<<objs[x], o>>}]

StoreGrid(g) == grid' = g /\ copy' = Outdated("grid", "stale")

\* A call is refused, or takes effect and its answer is lost.
Answered(f) ==
    /\ f # "none" => faults < MaxFaults
    /\ faults' = IF f = "none" THEN faults ELSE faults + 1
    /\ UNCHANGED <<shed, edits>>

-----------------------------------------------------------------------------
(* The users, and the garbage collector.                                   *)

\* An edit, and the objects it takes the label from.
Edit(names) ==
    edits < MaxEdits /\ edits' = edits + 1 /\ shed' = shed \cup names /\ UNCHANGED faults

Others == UNCHANGED <<kind, served, view, synced, queue, sync>>

\* A grid that was deleted is made again, with a new uid, as it was first.
CreateGrid ==
    /\ grid = None /\ uids < MaxUid /\ UNCHANGED budget
    /\ StoreGrid([uid |-> uids + 1, spec |-> First, deleting |-> FALSE])
    /\ uids' = uids + 1 /\ status' = {}
    /\ UNCHANGED <<objs, nodes, events>> /\ Others

EditGrid(s) ==
    /\ Edit({}) /\ grid # None /\ grid.spec # s
    /\ StoreGrid([grid EXCEPT !.spec = s])
    /\ UNCHANGED <<status, uids, objs, nodes, events>> /\ Others

\* In the background, or in the foreground after its objects.
DeleteGrid ==
    /\ Edit({}) /\ grid # None
    /\ \/ StoreGrid(None)
       \/ ~grid.deleting /\ StoreGrid([grid EXCEPT !.deleting = TRUE])
    /\ UNCHANGED <<status, uids, objs, nodes, events>> /\ Others

RelabelNode(n, v) ==
    /\ Edit({}) /\ kind = "deployment" /\ n \notin Steady /\ nodes[n] # v
    /\ nodes' = [nodes EXCEPT ![n] = v]
    /\ UNCHANGED <<grid, status, uids, objs, copy, events>> /\ Others

\* An object is removed, loses the grid's label, or is made with that label.
EditObject(x) ==
    /\ \/ objs[x] # None /\ Store(x, None) /\ Edit({})
       \/ objs[x] # None /\ objs[x].labelled /\ Store(x, [objs[x] EXCEPT !.labelled = FALSE]) /\ Edit({x})
       \/ /\ objs[x] = None /\ Edit({})
          /\ \E s \in Foreign : Store(x, [owner |-> NoUid, spec |-> s, labelled |-> TRUE])
    /\ UNCHANGED <<grid, status, uids, nodes>> /\ Others

Collect(x) ==
    /\ objs[x] # None /\ objs[x].owner # NoUid
    /\ (grid # None => grid.uid # objs[x].owner \/ grid.deleting)
    /\ Store(x, None)
    /\ UNCHANGED <<grid, status, uids, nodes, budget>> /\ Others

CollectGrid ==
    /\ grid # None /\ grid.deleting
    /\ ~ \E x \in Name : Owns(grid, objs[x])
    /\ StoreGrid(None)
    /\ UNCHANGED <<status, uids, objs, nodes, events, budget>> /\ Others

-----------------------------------------------------------------------------
(* Informers and handlers.  Those of nodes do nothing.                      *)

\* By name, and then by uid.
ResolveControllerRef(o) == view.grid # None /\ view.grid.uid = o.owner

\* Mutant: OwnedAdded takes no notice of orphans.
OwnedAdded(o) == o.labelled /\ o.owner # NoUid /\ ResolveControllerRef(o)
AddObject(o) ==
    /\ o.labelled
    /\ IF o.owner # NoUid THEN ResolveControllerRef(o) ELSE view.grid # None

UpdateObject(old, new) ==
    /\ new.labelled
    /\ \/ old.owner # new.owner /\ ResolveControllerRef(old)
       \/ new.owner # NoUid /\ ResolveControllerRef(new)
       \/ /\ new.owner = NoUid /\ view.grid # None
          /\ old.labelled # new.labelled \/ old.owner # new.owner

DeleteObject(o) == o.labelled /\ o.owner # NoUid /\ ResolveControllerRef(o)

\* Whether the grid's key is added to the queue.
Handled(old, new) ==
    \/ old = None /\ AddObject(new)
    \/ new = None /\ DeleteObject(old)
    \/ None \notin {old, new} /\ UpdateObject(old, new)

Enqueue(b) == queued' = (queued \/ b) /\ UNCHANGED <<retries, gaveUp>>

\* The first list of each informer.
ListGrids ==
    /\ "grids" \notin synced /\ synced' = synced \cup {"grids"}
    /\ view' = [view EXCEPT !.grid = grid]
    /\ copy' = [copy EXCEPT !.lister["grid"] = "current"]
    /\ Enqueue(grid # None)
    /\ UNCHANGED <<server, events, sync, budget>>

ListObjects ==
    /\ "objects" \notin synced /\ synced' = synced \cup {"objects"}
    /\ view' = [view EXCEPT !.objs = objs]
    /\ copy' = [copy EXCEPT !.lister = [AllCurrent EXCEPT !["grid"] = copy.lister["grid"]]]
    /\ events' = [x \in Name |-> {}]
    /\ Enqueue(\E x \in Name : objs[x] # None /\ AddObject(objs[x]))
    /\ UNCHANGED <<server, sync, budget>>

ListNodes ==
    /\ "nodes" \notin synced /\ synced' = synced \cup {"nodes"}
    /\ view' = [view EXCEPT !.nodes = nodes]
    /\ UNCHANGED <<server, copy, events, queue, sync, budget>>

AddUpdateDeleteGrid ==
    /\ "grids" \in synced /\ copy.lister["grid"] # "current"
    /\ view' = [view EXCEPT !.grid = grid]
    /\ copy' = [copy EXCEPT !.lister["grid"] = "current"]
    /\ Enqueue({view.grid, grid} # {None})
    /\ UNCHANGED <<server, synced, events, sync, budget>>

\* What has happened to x since is reported change by change.
ObjectEvents(x) ==
    /\ "objects" \in synced /\ events[x] # {}
    /\ view' = [view EXCEPT !.objs[x] = objs[x]]
    /\ copy' = [copy EXCEPT !.lister[x] = "current"]
    /\ events' = [events EXCEPT ![x] = {}]
    /\ Enqueue(\E e \in events[x] : Handled(e[1], e[2]))
    /\ UNCHANGED <<server, synced, sync, budget>>

NodeEvent(n) ==
    /\ "nodes" \in synced /\ view.nodes[n] # nodes[n]
    /\ view' = [view EXCEPT !.nodes[n] = nodes[n]]
    /\ UNCHANGED <<server, synced, copy, events, queue, sync, budget>>

\* Every SyncPeriod the update handlers see all objects again.
Resync ==
    /\ ~queued /\ view.grid # None /\ Enqueue(TRUE)
    /\ UNCHANGED <<server, informers, sync, budget>>

-----------------------------------------------------------------------------
(* A sync: claim the objects, read the nodes, write all at once, report.     *)

\* handleErr.  The copies the sync held are of no more use.
HandleErr(err, listers) ==
    /\ sync' = Idle /\ copy' = [lister |-> listers, sync |-> AllCurrent]
    /\ queued' = (queued \/ (err /\ retries < MaxRetries))
    /\ retries' = IF err /\ retries < MaxRetries THEN retries + 1 ELSE 0
    /\ gaveUp' = (err /\ retries = MaxRetries /\ (served \/ sync.pc # "status"))

\* Run starts the workers when all three listers have synced.
\* Mutant: NodesMayLag does not wait for the nodes.
NodesMayLag == {"grids", "objects"} \subseteq synced
Started == synced = Lister

\* Objects of the label without an owner are claimed, owned ones without it let go.
Begin ==
    /\ Started /\ queued /\ sync.pc = "idle"
    /\ queued' = FALSE /\ gaveUp' = FALSE
    /\ LET g == view.grid  seen == view.objs IN
       IF g # None => g.spec \in Keyless
       THEN retries' = 0 /\ UNCHANGED <<sync, copy>>
       ELSE /\ sync' = [Idle EXCEPT !.pc = "claim", !.grid = g,
                !.claimed = {x \in Name : Owns(g, seen[x]) /\ Matches(seen[x])},
                !.adopt = {x \in Name : ~g.deleting /\ Matches(seen[x]) /\ seen[x].owner = NoUid},
                !.release = {x \in Name : ~g.deleting /\ Owns(g, seen[x]) /\ ~Matches(seen[x])}]
            /\ copy' = [copy EXCEPT !.sync = copy.lister]
            /\ UNCHANGED retries
    /\ UNCHANGED <<server, view, synced, events, budget>>

\* Once in a sync, before its first adoption, the grid is read from the apiserver.
CanAdopt(f) ==
    /\ sync.pc = "claim" /\ sync.adopt # {} /\ sync.recheck = "not yet" /\ Answered(f)
    /\ sync' = IF f = "none" /\ grid # None /\ grid.uid = sync.grid.uid /\ ~grid.deleting
               THEN [sync EXCEPT !.recheck = "yes"]
               ELSE [sync EXCEPT !.recheck = "no", !.adopt = {}, !.failed = TRUE]
    /\ UNCHANGED <<server, informers, queue>>

\* A patch that holds for this uid of the object only; no second controller is accepted.
PatchObject(x, owner, f) ==
    IF f = "refused" \/ objs[x] = None \/ copy.sync[x] = "replaced"
                     \/ objs[x].owner \notin {NoUid, sync.grid.uid}
    THEN UNCHANGED <<objs, copy, events>>
    ELSE Store(x, [objs[x] EXCEPT !.owner = owner])

Patched(x, f) == f = "none" /\ objs[x] # None /\ copy.sync[x] # "replaced"

Adopt(x, f) ==
    /\ sync.recheck = "yes" /\ x \in sync.adopt /\ Answered(f)
    /\ PatchObject(x, sync.grid.uid, f)
    /\ LET done == [sync EXCEPT !.adopt = @ \ {x}] IN
       sync' = CASE f = "none" /\ objs[x] = None -> done
                 [] Patched(x, f) /\ objs[x].owner \in {NoUid, sync.grid.uid}
                        -> [done EXCEPT !.claimed = @ \cup {x}]
                 [] OTHER -> [done EXCEPT !.failed = TRUE]
    /\ UNCHANGED <<kind, served, grid, status, uids, nodes, view, synced, queue>>

Release(x, f) ==
    /\ sync.pc = "claim" /\ x \in sync.release /\ Answered(f)
    /\ PatchObject(x, NoUid, f)
    /\ sync' = [sync EXCEPT !.release = @ \ {x},
                            !.failed = @ \/ f # "none" \/ (objs[x] # None /\ copy.sync[x] = "replaced")]
    /\ UNCHANGED <<kind, served, grid, status, uids, nodes, view, synced, queue>>

\* Each node with a value stands for one deployment, whichever nodes share it.
DeploymentsWanted ==
    {[op |-> IF view.nodes[n] \in sync.claimed THEN "update" ELSE "create",
      name |-> view.nodes[n], node |-> n] : n \in {m \in Node : view.nodes[m] # None}}

ServiceWanted ==
    {[op |-> IF ServiceName \in sync.claimed THEN "update" ELSE "create",
      name |-> ServiceName, node |-> None]}

Reconcile(wanted) ==
    wanted \cup {[op |-> "delete", name |-> x, node |-> None] :
                    x \in sync.claimed \ {c.name : c \in wanted}}

\* What syncStatus will report are the claimed objects that are wanted.
SyncGrid(wanted) ==
    /\ sync.pc = "claim" /\ sync.adopt = {} /\ sync.release = {}
    /\ CASE sync.failed -> HandleErr(TRUE, copy.lister)
         [] ~sync.failed /\ sync.grid.deleting /\ kind = "service" -> HandleErr(FALSE, copy.lister)
         [] OTHER ->
              /\ sync' = [sync EXCEPT
                     !.pc = IF sync.grid.deleting THEN "status" ELSE "write",
                     !.todo = IF sync.grid.deleting THEN {} ELSE Reconcile(wanted),
                     !.claimed = @ \cap {c.name : c \in wanted}, !.recheck = "not yet"]
              /\ UNCHANGED <<queue, copy>>
    /\ UNCHANGED <<server, view, synced, events, budget>>

SyncDeploymentGrid == kind = "deployment" /\ SyncGrid(DeploymentsWanted)
SyncServiceGrid == kind = "service" /\ SyncGrid(ServiceWanted)

\* A new object has no owner yet; KeepConsistence works on the copy that was read.
Created == [owner |-> NoUid, spec |-> sync.grid.spec, labelled |-> TRUE]
\* Mutant: KeepsSpec corrects the label only.
KeepsSpec(o) == [o EXCEPT !.labelled = TRUE]
KeepConsistence(o) ==
    [o EXCEPT !.labelled = TRUE,
              !.spec = IF kind = "service" THEN [@ EXCEPT !.carried = sync.grid.spec.carried]
                                           ELSE [sync.grid.spec EXCEPT !.other = o.spec.other]]

\* The selector of a deployment is immutable.
Refused(o, g) == kind = "deployment" /\ o.spec.selector # g.spec.selector

\* What the apiserver answers to c.  It looks at the version before the content.
Answer(c) ==
    CASE c.op = "create" /\ objs[c.name] # None -> "exists"
      [] c.op # "create" /\ objs[c.name] = None -> "not found"
      [] c.op = "update" /\ objs[c.name] # None /\ copy.sync[c.name] # "current" -> "conflict"
      [] c.op = "update" /\ objs[c.name] # None /\ Refused(objs[c.name], sync.grid) -> "invalid"
      [] OTHER -> "ok"

Result(c) ==
    CASE c.op = "create" -> Created
      [] c.op = "update" -> KeepConsistence(objs[c.name])
      [] c.op = "delete" -> None

\* A conflict is no error to the controller of deployments.
IsError(a) == a \notin {"ok"} \cup (IF kind = "deployment" THEN {"conflict"} ELSE {})

SyncObject(c, f) ==
    /\ sync.pc = "write" /\ c \in sync.todo /\ Answered(f)
    /\ IF f # "refused" /\ Answer(c) = "ok" THEN Store(c.name, Result(c)) ELSE UNCHANGED <<objs, copy, events>>
    /\ sync' = [sync EXCEPT !.todo = @ \ {c}, !.failed = @ \/ f # "none" \/ IsError(Answer(c))]
    /\ UNCHANGED <<kind, served, grid, status, uids, nodes, view, synced, queue>>

Written ==
    /\ sync.pc = "write" /\ sync.todo = {}
    /\ IF sync.failed \/ kind = "service" THEN HandleErr(sync.failed, copy.lister)
       ELSE sync' = [sync EXCEPT !.pc = "status"] /\ UNCHANGED <<queue, copy>>
    /\ UNCHANGED <<server, view, synced, events, budget>>

\* Not found is an error, of the grid as of the path; a conflict is none.
SyncStatus(f) ==
    /\ sync.pc = "status" /\ Answered(f)
    /\ LET found == served /\ grid # None
           fits == found /\ grid.uid = sync.grid.uid /\ copy.sync["grid"] = "current"
           stored == f # "refused" /\ fits /\ status # sync.claimed
       IN /\ status' = IF stored THEN sync.claimed ELSE status
          /\ HandleErr(f # "none" \/ ~found,
                       IF stored THEN Outdated("grid", "stale").lister ELSE copy.lister)
    /\ UNCHANGED <<kind, served, grid, uids, objs, nodes, view, synced, events>>

\* The controller restarts with nothing listed.
Crash ==
    /\ faults < MaxFaults /\ faults' = faults + 1
    /\ view' = NoView /\ synced' = {} /\ sync' = Idle
    /\ copy' = [w \in {"lister", "sync"} |-> AllCurrent]
    /\ events' = [x \in Name |-> {}]
    /\ queued' = FALSE /\ retries' = 0 /\ gaveUp' = FALSE
    /\ UNCHANGED <<server, shed, edits>>

-----------------------------------------------------------------------------
\* The controller has listed a grid that is new.  The CRD this version makes has
\* no status; one that was there before may have.
Init ==
    /\ kind \in {"deployment", "service"}
    /\ \E s \in IF kind = "service" THEN {<<FALSE, NoView.nodes>>} ELSE Start :
          served = s[1] /\ nodes = s[2]
    /\ grid = [uid |-> 1, spec |-> First, deleting |-> FALSE]
    /\ status = {} /\ uids = 1 /\ objs = NoObject
    /\ view = [grid |-> grid, objs |-> objs, nodes |-> nodes] /\ synced = Lister
    /\ copy = [w \in {"lister", "sync"} |-> AllCurrent]
    /\ events = [x \in Name |-> {}]
    /\ queued = TRUE /\ retries = 0 /\ gaveUp = FALSE /\ sync = Idle
    /\ shed = {} /\ edits = 0 /\ faults = 0

User ==
    \/ CreateGrid \/ DeleteGrid
    \/ \E s \in Spec : EditGrid(s)
    \/ \E n \in Node, v \in Value \cup {None} : RelabelNode(n, v)
    \/ \E x \in IF kind = "service" THEN Name ELSE Value : EditObject(x)

GarbageCollector == CollectGrid \/ \E x \in Name : Collect(x)

Worker ==
    \/ Begin \/ SyncDeploymentGrid \/ SyncServiceGrid \/ Written
    \/ \E f \in Fault :
         \/ CanAdopt(f) \/ SyncStatus(f)
         \/ \E x \in Name : Adopt(x, f) \/ Release(x, f)
         \/ \E c \in sync.todo : SyncObject(c, f)

Next ==
    \/ User \/ GarbageCollector \/ ListGrids \/ ListObjects \/ ListNodes
    \/ AddUpdateDeleteGrid \/ Resync \/ Worker \/ Crash
    \/ \E x \in Name : ObjectEvents(x)
    \/ \E n \in Node : NodeEvent(n)

GridSpec == Init /\ [][Next]_vars

\* Each informer, the collector and the worker go on; Resync comes every 30 seconds.
Fairness ==
    /\ WF_vars(ListGrids \/ AddUpdateDeleteGrid)
    /\ WF_vars(ListObjects \/ \E x \in Name : ObjectEvents(x))
    /\ WF_vars(ListNodes \/ \E n \in Node : NodeEvent(n))
    /\ WF_vars(Resync) /\ WF_vars(Worker) /\ WF_vars(GarbageCollector)

FairSpec == GridSpec /\ Fairness

-----------------------------------------------------------------------------
(* Properties.                                                             *)

Wanted == IF kind = "service" THEN {ServiceName} ELSE {nodes[n] : n \in Node} \ {None}

\* The handlers (deployment.go, deployment_grid.go), handleErr and the errors
\* syncDeployment ignores leave no change behind: when the queue is empty, the
\* listers are current and no sync was given up, no object with the grid's label
\* is without an owner, the grid's objects follow its present spec in all that an
\* update carries over, and a status that can be stored names, of the objects with the
\* label, just those the grid owns, and no other, except where an object has lost its
\* label: no handler takes notice of what becomes of it (deployment.go:138).  A sync
\* whose update is refused for the selector ends in being given up.
Quiet ==
    /\ synced = Lister /\ sync.pc = "idle" /\ ~queued /\ ~gaveUp
    /\ view.grid = grid /\ copy.lister = AllCurrent
    /\ grid # None /\ ~grid.deleting /\ grid.spec \notin Keyless

Follows(o) ==
    /\ o.spec.carried = grid.spec.carried
    /\ kind = "deployment" => o.spec.selector = grid.spec.selector

NothingIsLeftBehind ==
    Quiet =>
        /\ \A x \in Name : Matches(objs[x]) =>
             /\ objs[x].owner # NoUid
             /\ Owns(grid, objs[x]) => Follows(objs[x])
        /\ served => \A x \in Name :
             IF Matches(objs[x]) THEN x \in status <=> Owns(grid, objs[x])
                                 ELSE x \in status => x \in shed

\* Run waits for all three listers (controller.go:137), so that no restart, no
\* lagging lister and no retry makes the controller delete the deployment of a
\* value that a node has had all along.
SteadyIsNeverDeleted ==
    [][sync' # sync => \A n \in Steady :
          LET v == nodes[n] IN v # None /\ objs[v] # None => objs'[v] # None]_vars

\* After the last edit, fault and crash the objects come to be those the grid and the
\* nodes ask for and stay so, though no node event starts a sync (node.go:19-29) and a
\* sync is dropped after MaxRetries.  An object without the label may be in the way of
\* its name; one that was made before an edit of the grid keeps what no update carries
\* over (service_util.go:63, deployment_util.go:57), and a deployment the apiserver
\* refuses to give another selector stays as it is.
Blocked(x) == objs[x] # None /\ ~objs[x].labelled

Served(o) ==
    /\ o # None /\ o.owner = grid.uid /\ o.labelled
    /\ Follows(o) \/ Refused(o, grid)

Settled ==
    grid # None /\ grid.spec \notin Keyless =>
        \A x \in Name : Blocked(x) \/ IF x \in Wanted THEN Served(objs[x]) ELSE objs[x] = None

Converges == <>[]Settled
=============================================================================
