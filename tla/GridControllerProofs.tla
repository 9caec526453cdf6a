------------------------ MODULE GridControllerProofs ------------------------
(* Proofs about GridController, for any nodes, values, specs, retries, edits   *)
(* and faults: the controller never deletes the deployment of a steady value,  *)
(* and once it rests it has left no change behind.                          *)
EXTENDS GridController, TLAPS

USE GridControllerAssumption, NoneAssumption

Objects == [Name -> Object \cup {None}]
Values == [Node -> Value \cup {None}]
Grids == Grid \cup {None}
Views == [grid : Grids, objs : Objects, nodes : Values]
Syncs == [pc : {"idle", "claim", "write", "status"}, grid : Grids,
          adopt : SUBSET Name, release : SUBSET Name, claimed : SUBSET Name,
          recheck : {"not yet", "yes", "no"}, todo : SUBSET Call, failed : BOOLEAN]

(* The types the argument needs.                                           *)
ServerOK == grid \in Grids /\ uids \in Nat /\ objs \in Objects
NodesOK == nodes \in Values
ViewOK == view \in Views
SyncOK == /\ sync \in Syncs
          /\ sync.pc # "idle" => sync.grid \in Grid
          /\ sync.recheck = "yes" => sync.pc # "idle"

\* The controller of services has no nodes with a value; once nodes are listed,
\* what is seen of a steady node is right; and a sync begins after that.
NodesKnown ==
    /\ kind \in {"deployment", "service"}
    /\ kind = "service" => \A n \in Node : nodes[n] = None
    /\ "nodes" \in synced => \A n \in Steady : view.nodes[n] = nodes[n]
    /\ sync.pc = "claim" => "nodes" \in synced

\* No delete that is still to be sent names the value of a steady node.
Spares(todo) == \A c \in todo : c.op = "delete" =>
                    \A n \in Steady : nodes[n] # None => c.name # nodes[n]
DeletesSpare == Spares(sync.todo)

IInv == ServerOK /\ NodesOK /\ ViewOK /\ SyncOK /\ NodesKnown /\ DeletesSpare
-----------------------------------------------------------------------------
LEMMA StoreOK ==
    ASSUME objs \in Objects, NEW x \in Name, NEW o \in Object \cup {None}, Store(x, o)
    PROVE  /\ objs' \in Objects /\ objs'[x] = o
           /\ \A y \in Name : y # x => objs'[y] = objs[y]
  BY DEF Store, Objects

LEMMA OwnerSet ==
    ASSUME NEW o \in Object, NEW u \in Uid \cup {NoUid}
    PROVE  [o EXCEPT !.owner = u] \in Object
  BY DEF Object

LEMMA Unlabelled ==
    ASSUME NEW o \in Object PROVE [o EXCEPT !.labelled = FALSE] \in Object
  BY DEF Object

LEMMA SpecIsTemplate == ASSUME sync.grid \in Grid PROVE sync.grid.spec \in Template
  BY GridControllerAssumption DEF Grid

LEMMA KeptConsistent ==
    ASSUME NEW o \in Object, sync.grid \in Grid
    PROVE  /\ KeepConsistence(o) \in Object
           /\ KeepConsistence(o).spec.carried = sync.grid.spec.carried
           /\ kind # "service" => KeepConsistence(o).spec.selector = sync.grid.spec.selector
<1> DEFINE g == sync.grid.spec
           s == IF kind = "service" THEN [o.spec EXCEPT !.carried = g.carried] ELSE [g EXCEPT !.other = o.spec.other]
<1>1. g \in Template /\ o.spec \in Template
  BY SpecIsTemplate DEF Object
<1>2. s \in Template /\ s.carried = g.carried /\ (kind # "service" => s.selector = g.selector)
  BY <1>1 DEF Template
<1>3. KeepConsistence(o) = [o EXCEPT !.labelled = TRUE, !.spec = s]
  BY DEF KeepConsistence, Object
<1> HIDE DEF s
<1> QED BY <1>2, <1>3 DEF Object

LEMMA CreatedOK == ASSUME sync.grid \in Grid PROVE Created \in Object
  BY SpecIsTemplate DEF Created, Object

LEMMA PatchOK ==
    ASSUME objs \in Objects, NEW x \in Name, NEW u \in Uid \cup {NoUid}, NEW f, PatchObject(x, u, f)
    PROVE  /\ objs' \in Objects
           /\ \A y \in Name : objs[y] # None => objs'[y] # None
<1>1. CASE f = "refused" \/ objs[x] = None \/ copy.sync[x] = "replaced" \/ objs[x].owner \notin {NoUid, sync.grid.uid}
  BY <1>1 DEF PatchObject
<1>2. CASE ~(f = "refused" \/ objs[x] = None \/ copy.sync[x] = "replaced" \/ objs[x].owner \notin {NoUid, sync.grid.uid})
  <2>1. Store(x, [objs[x] EXCEPT !.owner = u]) /\ objs[x] \in Object
    BY <1>2 DEF PatchObject, Objects
  <2>2. [objs[x] EXCEPT !.owner = u] \in Object
    BY <2>1, OwnerSet
  <2> HIDE DEF Store
  <2> QED BY <2>1, <2>2, StoreOK
<1> QED BY <1>1, <1>2

\* What a call of a sync does to the objects.
LEMMA CallOK ==
    ASSUME objs \in Objects, sync.grid \in Grid, NEW c \in Call, Answer(c) = "ok",
           Store(c.name, Result(c))
    PROVE  /\ objs' \in Objects
           /\ \A y \in Name : objs[y] # None /\ objs'[y] = None => c.op = "delete" /\ c.name = y
<1>1. c.name \in Name /\ c.op \in {"create", "update", "delete"}
  BY DEF Call
<1>2. CASE c.op = "create"
  <2>1. Result(c) \in Object
    BY <1>2, CreatedOK DEF Result
  <2> QED BY <1>1, <2>1, StoreOK
<1>3. CASE c.op = "update"
  <2>1. objs[c.name] # None
    BY <1>3 DEF Answer
  <2>2. objs[c.name] \in Object
    BY <1>1, <2>1 DEF Objects
  <2>3. Result(c) \in Object
    BY <1>3, <2>2, KeptConsistent DEF Result
  <2> QED BY <1>1, <2>3, StoreOK
<1>4. CASE c.op = "delete"
  <2>1. Result(c) = None
    BY <1>4 DEF Result
  <2> QED BY <1>1, <1>4, <2>1, StoreOK
<1> QED BY <1>1, <1>2, <1>3, <1>4
-----------------------------------------------------------------------------
(* The controller's writes of a sync.                                       *)

LEMMA WantedOK ==
    ASSUME ViewOK
    PROVE  /\ DeploymentsWanted \subseteq Call /\ ServiceWanted \subseteq Call
           /\ \A c \in DeploymentsWanted \cup ServiceWanted : c.op # "delete"
           /\ \A n \in Node : view.nodes[n] # None => \E c \in DeploymentsWanted : c.name = view.nodes[n]
<1>1. \A n \in Node : view.nodes[n] \in Value \cup {None}
  BY DEF ViewOK, Views, Values
<1>2. ASSUME NEW n \in Node, view.nodes[n] # None,
             NEW c, c = [op |-> IF view.nodes[n] \in sync.claimed THEN "update" ELSE "create",
                         name |-> view.nodes[n], node |-> n]
      PROVE  c \in Call /\ c.op # "delete" /\ c.name = view.nodes[n]
  <2>1. c.op \in {"create", "update"} /\ c.name \in Name
    BY <1>1, <1>2 DEF Name
  <2> QED BY <1>2, <2>1 DEF Call
<1>3. /\ DeploymentsWanted \subseteq Call /\ \A c \in DeploymentsWanted : c.op # "delete"
      /\ \A n \in Node : view.nodes[n] # None => \E c \in DeploymentsWanted : c.name = view.nodes[n]
  <2>1. \A c : c \in DeploymentsWanted <=> \E n \in Node : /\ view.nodes[n] # None
            /\ c = [op |-> IF view.nodes[n] \in sync.claimed THEN "update" ELSE "create",
                    name |-> view.nodes[n], node |-> n]
    BY DEF DeploymentsWanted
  <2> HIDE DEF DeploymentsWanted
  <2>2. \A c \in DeploymentsWanted : c \in Call /\ c.op # "delete"
    BY <1>2, <2>1
  <2>3. ASSUME NEW n \in Node, view.nodes[n] # None
        PROVE  \E c \in DeploymentsWanted : c.name = view.nodes[n]
    BY <1>2, <2>1, <2>3
  <2> QED BY <2>2, <2>3
<1>4. ServiceWanted \subseteq Call /\ \A c \in ServiceWanted : c.op # "delete"
  BY DEF ServiceWanted, Call, Name
<1> QED BY <1>3, <1>4

LEMMA ReconcileOK ==
    ASSUME SyncOK, NEW wanted \in SUBSET Call, \A c \in wanted : c.op # "delete"
    PROVE  /\ Reconcile(wanted) \subseteq Call
           /\ \A c \in Reconcile(wanted) : c.op = "delete" => \A d \in wanted : d.name # c.name
<1>1. sync.claimed \subseteq Name
  BY DEF SyncOK, Syncs
<1> QED BY <1>1 DEF Reconcile, Call

LEMMA SyncSpares ==
    ASSUME IInv, sync.pc = "claim", kind = "deployment"
    PROVE  Spares(Reconcile(DeploymentsWanted))
<1>1. /\ DeploymentsWanted \in SUBSET Call /\ \A c \in DeploymentsWanted : c.op # "delete"
      /\ \A n \in Node : view.nodes[n] # None => \E c \in DeploymentsWanted : c.name = view.nodes[n]
  BY WantedOK DEF IInv
<1>2. \A c \in Reconcile(DeploymentsWanted) : c.op = "delete" => \A d \in DeploymentsWanted : d.name # c.name
  BY <1>1, ReconcileOK DEF IInv
<1>3. \A n \in Steady : n \in Node /\ view.nodes[n] = nodes[n]
  BY DEF IInv, NodesKnown
<1> QED BY <1>1, <1>2, <1>3 DEF Spares

LEMMA ServiceSpares ==
    ASSUME IInv, kind = "service", NEW todo
    PROVE  Spares(todo)
<1>1. \A n \in Steady : nodes[n] = None
  BY DEF IInv, NodesKnown
<1> QED BY <1>1 DEF Spares
-----------------------------------------------------------------------------
(* The users, the garbage collector and the informers leave the sync alone.  *)

LEMMA OthersKeep ==
    ASSUME IInv, UNCHANGED <<kind, view, synced, sync>>, ServerOK', NodesOK',
           \A n \in Steady : nodes'[n] = nodes[n],
           kind = "service" => nodes' = nodes
    PROVE  IInv'
  BY DEF IInv, ViewOK, SyncOK, NodesKnown, DeletesSpare, Spares

LEMMA UserKeeps == ASSUME IInv, User PROVE IInv'
<1>0. ServerOK /\ NodesOK
  BY DEF IInv
<1>1. CASE DeleteGrid
  <2>1. grid' = None \/ (grid # None /\ grid' = [grid EXCEPT !.deleting = TRUE])
    BY <1>1 DEF DeleteGrid, StoreGrid
  <2>2. grid' \in Grids
    BY <1>0, <2>1 DEF ServerOK, Grids, Grid
  <2>3. ServerOK' /\ NodesOK'
    BY <1>0, <1>1, <2>2 DEF DeleteGrid, ServerOK, NodesOK
  <2> QED BY <1>1, <2>3, OthersKeep DEF DeleteGrid, Others
<1>2. CASE CreateGrid
  <2>1. grid' \in Grids /\ uids' \in Nat
    BY <1>0, <1>2 DEF CreateGrid, StoreGrid, ServerOK, Grids, Grid, Uid
  <2>2. ServerOK' /\ NodesOK'
    BY <1>0, <1>2, <2>1 DEF CreateGrid, ServerOK, NodesOK
  <2> QED BY <1>2, <2>2, OthersKeep DEF CreateGrid, Others
<1>3. ASSUME NEW s \in Spec, EditGrid(s) PROVE IInv'
  <2>1. grid' \in Grids
    BY <1>0, <1>3 DEF EditGrid, StoreGrid, ServerOK, Grids, Grid
  <2>2. ServerOK' /\ NodesOK'
    BY <1>0, <1>3, <2>1 DEF EditGrid, ServerOK, NodesOK
  <2> QED BY <1>3, <2>2, OthersKeep DEF EditGrid, Others
<1>4. ASSUME NEW n \in Node, NEW v \in Value \cup {None}, RelabelNode(n, v) PROVE IInv'
  <2>1. NodesOK' /\ \A m \in Steady : nodes'[m] = nodes[m]
    BY <1>0, <1>4 DEF RelabelNode, NodesOK, Values
  <2>2. ServerOK' /\ kind # "service"
    BY <1>0, <1>4 DEF RelabelNode, ServerOK
  <2> QED BY <1>4, <2>1, <2>2, OthersKeep DEF RelabelNode, Others
<1>5. ASSUME NEW x \in Name, EditObject(x) PROVE IInv'
  <2>1. objs \in Objects
    BY <1>0 DEF ServerOK
  <2>2. ASSUME Store(x, None) PROVE objs' \in Objects
    BY <2>1, <2>2, StoreOK
  <2>3. ASSUME objs[x] # None, Store(x, [objs[x] EXCEPT !.labelled = FALSE])
        PROVE  objs' \in Objects
    <3>1. objs[x] \in Object
      BY <2>1, <2>3 DEF Objects
    <3>2. [objs[x] EXCEPT !.labelled = FALSE] \in Object
      BY <3>1, Unlabelled
    <3> QED BY <2>1, <2>3, <3>2, StoreOK
  <2>4. ASSUME NEW s \in Foreign, Store(x, [owner |-> NoUid, spec |-> s, labelled |-> TRUE])
        PROVE  objs' \in Objects
    <3>1. [owner |-> NoUid, spec |-> s, labelled |-> TRUE] \in Object
      BY DEF Object
    <3> QED BY <2>1, <2>4, <3>1, StoreOK
  <2>5. objs' \in Objects
    BY <1>5, <2>2, <2>3, <2>4 DEF EditObject
  <2>6. ServerOK' /\ NodesOK'
    BY <1>0, <1>5, <2>5 DEF EditObject, ServerOK, NodesOK
  <2> QED BY <1>5, <2>6, OthersKeep DEF EditObject, Others
<1> QED BY <1>1, <1>2, <1>3, <1>4, <1>5 DEF User, Name

LEMMA GarbageCollectorKeeps == ASSUME IInv, GarbageCollector PROVE IInv'
<1>0. ServerOK /\ NodesOK
  BY DEF IInv
<1>1. CASE CollectGrid
  <2>1. ServerOK' /\ NodesOK'
    BY <1>0, <1>1 DEF CollectGrid, StoreGrid, ServerOK, Grids, NodesOK
  <2> QED BY <1>1, <2>1, OthersKeep DEF CollectGrid, Others
<1>2. ASSUME NEW x \in Name, Collect(x) PROVE IInv'
  <2>1. objs' \in Objects
    BY <1>0, <1>2, StoreOK DEF Collect, ServerOK
  <2>2. ServerOK' /\ NodesOK'
    BY <1>0, <1>2, <2>1 DEF Collect, ServerOK, NodesOK
  <2> QED BY <1>2, <2>2, OthersKeep DEF Collect, Others
<1> QED BY <1>1, <1>2 DEF GarbageCollector

LEMMA InformerKeeps ==
    ASSUME IInv, UNCHANGED <<server, sync>>, ViewOK',
           synced' \in {synced, synced \cup {"grids"}, synced \cup {"objects"}},
           view'.nodes = view.nodes
    PROVE  IInv'
  BY DEF IInv, server, ServerOK, NodesOK, SyncOK, NodesKnown, DeletesSpare, Spares

LEMMA InformersKeep ==
    ASSUME IInv,
           \/ ListGrids \/ ListObjects \/ ListNodes \/ AddUpdateDeleteGrid \/ Resync
           \/ \E x \in Name : ObjectEvents(x) \/ \E n \in Node : NodeEvent(n)
    PROVE  IInv'
<1>0. view \in Views /\ grid \in Grids /\ objs \in Objects /\ nodes \in Values
  BY DEF IInv, ViewOK, ServerOK, NodesOK
<1>1. CASE ListGrids \/ AddUpdateDeleteGrid
  <2>1. /\ view' = [view EXCEPT !.grid = grid] /\ UNCHANGED <<server, sync>>
        /\ synced' \in {synced, synced \cup {"grids"}}
    BY <1>1 DEF ListGrids, AddUpdateDeleteGrid
  <2>2. ViewOK' /\ view'.nodes = view.nodes
    BY <1>0, <2>1 DEF ViewOK, Views
  <2> QED BY <2>1, <2>2, InformerKeeps
<1>2. CASE ListObjects
  <2>1. /\ view' = [view EXCEPT !.objs = objs] /\ UNCHANGED <<server, sync>>
        /\ synced' = synced \cup {"objects"}
    BY <1>2 DEF ListObjects
  <2>2. ViewOK' /\ view'.nodes = view.nodes
    BY <1>0, <2>1 DEF ViewOK, Views
  <2> QED BY <2>1, <2>2, InformerKeeps
<1>3. ASSUME NEW x \in Name, ObjectEvents(x) PROVE IInv'
  <2>1. view' = [view EXCEPT !.objs[x] = objs[x]] /\ UNCHANGED <<server, sync, synced>>
    BY <1>3 DEF ObjectEvents
  <2>2. [view.objs EXCEPT ![x] = objs[x]] \in Objects
    BY <1>0 DEF Views, Objects
  <2>3. ViewOK' /\ view'.nodes = view.nodes
    BY <1>0, <2>1, <2>2 DEF ViewOK, Views
  <2> QED BY <2>1, <2>3, InformerKeeps
<1>4. CASE Resync
  BY <1>4, InformerKeeps DEF Resync, informers, IInv, ViewOK
<1>5. CASE ListNodes
  <2>1. view' = [view EXCEPT !.nodes = nodes] /\ UNCHANGED <<server, sync>> /\ synced' = synced \cup {"nodes"}
    BY <1>5 DEF ListNodes
  <2>2. ViewOK' /\ view'.nodes = nodes
    BY <1>0, <2>1 DEF ViewOK, Views
  <2> QED BY <2>1, <2>2 DEF IInv, server, ServerOK, NodesOK, SyncOK, NodesKnown, DeletesSpare, Spares
<1>6. ASSUME NEW n \in Node, NodeEvent(n) PROVE IInv'
  <2>1. view' = [view EXCEPT !.nodes[n] = nodes[n]] /\ UNCHANGED <<server, sync, synced>>
    BY <1>6 DEF NodeEvent
  <2>2. [view.nodes EXCEPT ![n] = nodes[n]] \in Values
    BY <1>0 DEF Views, Values
  <2>3. ViewOK' /\ view'.nodes = [view.nodes EXCEPT ![n] = nodes[n]]
    BY <1>0, <2>1, <2>2 DEF ViewOK, Views
  <2>4. \A m \in Node : view.nodes[m] = nodes[m] => view'.nodes[m] = nodes[m]
    BY <1>0, <2>3 DEF Views, Values
  <2> QED BY <2>1, <2>3, <2>4 DEF IInv, server, ServerOK, NodesOK, SyncOK, NodesKnown, DeletesSpare, Spares
<1> QED BY <1>1, <1>2, <1>3, <1>4, <1>5, <1>6
-----------------------------------------------------------------------------
(* The worker.                                                             *)

LEMMA WorkerKeeps ==
    ASSUME IInv, UNCHANGED <<kind, nodes, view, synced>>, ServerOK', SyncOK',
           sync'.pc = "claim" => "nodes" \in synced, Spares(sync'.todo)
    PROVE  IInv'
  BY DEF IInv, NodesOK, ViewOK, NodesKnown, DeletesSpare, Spares

LEMMA IdleOK == Idle \in Syncs /\ Idle.pc = "idle" /\ Idle.todo = {} /\ Idle.recheck = "not yet"
  BY DEF Idle, Syncs, Grids

\* The end of a sync.
LEMMA EndKeeps ==
    ASSUME IInv, UNCHANGED <<kind, nodes, view, synced>>, ServerOK', sync' = Idle
    PROVE  IInv'
<1>1. SyncOK' /\ sync'.pc = "idle" /\ sync'.todo = {}
  BY IdleOK DEF SyncOK
<1>2. Spares(sync'.todo)
  BY <1>1 DEF Spares
<1> QED BY <1>1, <1>2, WorkerKeeps

LEMMA BeginKeeps == ASSUME IInv, Begin PROVE IInv'
<1>1. UNCHANGED <<kind, grid, uids, objs, nodes, view, synced>> /\ sync.pc = "idle" /\ synced = Lister
  BY DEF Begin, Started, server
<1>2. ServerOK'
  BY <1>1 DEF IInv, ServerOK
<1>3. CASE view.grid # None => view.grid.spec \in Keyless
  <2>1. sync' = sync
    BY <1>3 DEF Begin
  <2>2. SyncOK' /\ Spares(sync'.todo) /\ sync'.pc = "idle"
    BY <1>1, <2>1 DEF IInv, SyncOK, DeletesSpare
  <2> QED BY <1>1, <1>2, <2>2, WorkerKeeps
<1>4. CASE ~(view.grid # None => view.grid.spec \in Keyless)
  <2>1. PICK c \in SUBSET Name, a \in SUBSET Name, r \in SUBSET Name :
            sync' = [Idle EXCEPT !.pc = "claim", !.grid = view.grid,
                                 !.claimed = c, !.adopt = a, !.release = r]
    BY <1>4 DEF Begin
  <2>2. view.grid \in Grid
    BY <1>4 DEF IInv, ViewOK, Views, Grids
  <2>3. sync' = [pc |-> "claim", grid |-> view.grid, adopt |-> a, release |-> r, claimed |-> c,
                 recheck |-> "not yet", todo |-> {}, failed |-> FALSE]
    BY <2>1 DEF Idle
  <2>4. SyncOK' /\ sync'.todo = {} /\ sync'.pc = "claim"
    BY <2>2, <2>3 DEF SyncOK, Syncs, Grids
  <2>5. Spares(sync'.todo) /\ "nodes" \in synced
    BY <1>1, <2>4 DEF Spares, Lister
  <2> QED BY <1>1, <1>2, <2>4, <2>5, WorkerKeeps
<1> QED BY <1>3, <1>4

\* Steps that claim, write or report leave the grid and the rest of the work alone.
Onward == /\ sync'.pc = sync.pc /\ sync'.grid = sync.grid /\ sync'.todo \subseteq sync.todo
          /\ sync'.recheck = sync.recheck \/ sync.pc = "claim"

LEMMA OnwardKeeps ==
    ASSUME IInv, UNCHANGED <<kind, grid, uids, nodes, view, synced>>, objs' \in Objects,
           sync' \in Syncs, Onward
    PROVE  IInv'
<1>1. ServerOK' /\ SyncOK'
  BY DEF IInv, ServerOK, SyncOK, Onward
<1>2. Spares(sync'.todo) /\ (sync'.pc = "claim" => "nodes" \in synced)
  BY DEF IInv, DeletesSpare, Spares, Onward, NodesKnown
<1> QED BY <1>1, <1>2, WorkerKeeps

LEMMA CanAdoptKeeps == ASSUME IInv, NEW f, CanAdopt(f) PROVE IInv'
<1>1. UNCHANGED <<kind, grid, uids, objs, nodes, view, synced>> /\ sync \in Syncs /\ objs \in Objects
  BY DEF CanAdopt, server, informers, IInv, SyncOK, ServerOK
<1>2. \/ sync' = [sync EXCEPT !.recheck = "yes"]
      \/ sync' = [sync EXCEPT !.recheck = "no", !.adopt = {}, !.failed = TRUE]
  BY DEF CanAdopt
<1>3. sync' \in Syncs /\ Onward
  BY <1>1, <1>2 DEF Syncs, Onward, CanAdopt
<1> QED BY <1>1, <1>3, OnwardKeeps

LEMMA AdoptKeeps ==
    ASSUME IInv, NEW x \in Name, NEW f, Adopt(x, f)
    PROVE  IInv' /\ \A y \in Name : objs[y] # None => objs'[y] # None
<1>1. /\ UNCHANGED <<kind, grid, uids, nodes, view, synced>> /\ sync \in Syncs /\ objs \in Objects
      /\ PatchObject(x, sync.grid.uid, f)
  BY DEF Adopt, IInv, SyncOK, ServerOK
<1>2. /\ sync.adopt \subseteq Name /\ sync.claimed \subseteq Name /\ sync.failed \in BOOLEAN
  BY <1>1 DEF Syncs
<1>3. \/ sync' = [sync EXCEPT !.adopt = @ \ {x}]
      \/ sync' = [[sync EXCEPT !.adopt = @ \ {x}] EXCEPT !.claimed = @ \cup {x}]
      \/ sync' = [[sync EXCEPT !.adopt = @ \ {x}] EXCEPT !.failed = TRUE]
  BY DEF Adopt
<1>4. [sync EXCEPT !.adopt = @ \ {x}] \in Syncs
  BY <1>1, <1>2 DEF Syncs
<1>5. sync' \in Syncs
  <2>1. ASSUME NEW d \in Syncs
        PROVE  [d EXCEPT !.claimed = @ \cup {x}] \in Syncs /\ [d EXCEPT !.failed = TRUE] \in Syncs
    BY DEF Syncs
  <2> QED BY <1>3, <1>4, <2>1
<1>6. Onward
  BY <1>1, <1>3 DEF Syncs, Onward
<1>7. sync.grid.uid \in Uid \cup {NoUid}
  BY DEF IInv, SyncOK, Adopt, Grid
<1>8. objs' \in Objects /\ \A y \in Name : objs[y] # None => objs'[y] # None
  BY <1>1, <1>7, PatchOK
<1> QED BY <1>1, <1>5, <1>6, <1>8, OnwardKeeps

LEMMA ReleaseKeeps ==
    ASSUME IInv, NEW x \in Name, NEW f, Release(x, f)
    PROVE  IInv' /\ \A y \in Name : objs[y] # None => objs'[y] # None
<1>1. /\ UNCHANGED <<kind, grid, uids, nodes, view, synced>> /\ sync \in Syncs /\ objs \in Objects
      /\ PatchObject(x, NoUid, f)
  BY DEF Release, IInv, SyncOK, ServerOK
<1>2. PICK b : sync' = [sync EXCEPT !.release = @ \ {x}, !.failed = b] /\ b \in BOOLEAN
  <2>1. sync.failed \in BOOLEAN
    BY <1>1 DEF Syncs
  <2> QED BY <2>1 DEF Release
<1>3. sync' \in Syncs /\ Onward
  BY <1>1, <1>2 DEF Syncs, Onward
<1>4. objs' \in Objects /\ \A y \in Name : objs[y] # None => objs'[y] # None
  BY <1>1, PatchOK
<1> QED BY <1>1, <1>3, <1>4, OnwardKeeps

LEMMA SyncObjectKeeps ==
    ASSUME IInv, NEW c \in sync.todo, NEW f, SyncObject(c, f)
    PROVE  IInv' /\ \A y \in Name : objs[y] # None /\ objs'[y] = None => c.op = "delete" /\ c.name = y
<1>1. /\ UNCHANGED <<kind, grid, uids, nodes, view, synced>> /\ sync \in Syncs /\ objs \in Objects
      /\ sync.grid \in Grid /\ c \in Call
  BY DEF SyncObject, IInv, SyncOK, ServerOK, Syncs
<1>2. objs' \in Objects /\ \A y \in Name : objs[y] # None /\ objs'[y] = None => c.op = "delete" /\ c.name = y
  <2>1. CASE f # "refused" /\ Answer(c) = "ok"
    <3>1. Store(c.name, Result(c))
      BY <2>1 DEF SyncObject
    <3> QED BY <1>1, <2>1, <3>1, CallOK
  <2>2. CASE ~(f # "refused" /\ Answer(c) = "ok")
    BY <1>1, <2>2 DEF SyncObject
  <2> QED BY <2>1, <2>2
<1>3. PICK b : sync' = [sync EXCEPT !.todo = @ \ {c}, !.failed = b] /\ b \in BOOLEAN
  <2>1. sync.failed \in BOOLEAN
    BY <1>1 DEF Syncs
  <2>2. sync' = [sync EXCEPT !.todo = @ \ {c}, !.failed = @ \/ f # "none" \/ IsError(Answer(c))]
    BY DEF SyncObject
  <2> QED BY <2>1, <2>2
<1>4. sync' \in Syncs /\ Onward
  BY <1>1, <1>3 DEF Syncs, Onward
<1> QED BY <1>1, <1>2, <1>4, OnwardKeeps

LEMMA SyncGridKeeps ==
    ASSUME IInv, NEW wanted \in SUBSET Call, \A c \in wanted : c.op # "delete",
           sync.pc = "claim" => Spares(Reconcile(wanted)), SyncGrid(wanted)
    PROVE  IInv'
<1>1. /\ UNCHANGED <<kind, grid, uids, objs, nodes, view, synced>> /\ sync \in Syncs
      /\ sync.pc = "claim" /\ sync.grid \in Grid
  BY DEF SyncGrid, server, IInv, SyncOK
<1>2. ServerOK'
  BY <1>1 DEF IInv, ServerOK
<1>3. CASE sync' = Idle
  BY <1>1, <1>2, <1>3, EndKeeps
<1>4. CASE sync' # Idle
  <2>1. sync' = [sync EXCEPT
                     !.pc = IF sync.grid.deleting THEN "status" ELSE "write",
                     !.todo = IF sync.grid.deleting THEN {} ELSE Reconcile(wanted),
                     !.claimed = @ \cap {c.name : c \in wanted}, !.recheck = "not yet"]
    BY <1>4 DEF SyncGrid, HandleErr
  <2>2. PICK p \in {"status", "write"}, t \in {{}, Reconcile(wanted)} :
            sync' = [sync EXCEPT !.pc = p, !.todo = t,
                                 !.claimed = @ \cap {c.name : c \in wanted}, !.recheck = "not yet"]
    BY <2>1
  <2>3. t \subseteq Call /\ Spares(t)
    BY <1>1, ReconcileOK DEF IInv, Spares
  <2>4. /\ sync' \in Syncs /\ sync'.pc = p /\ sync'.todo = t /\ sync'.grid = sync.grid
        /\ sync'.recheck = "not yet"
    BY <1>1, <2>2, <2>3 DEF Syncs
  <2>5. SyncOK'
    BY <1>1, <2>4 DEF SyncOK
  <2> QED BY <1>1, <1>2, <2>3, <2>4, <2>5, WorkerKeeps
<1> QED BY <1>3, <1>4

LEMMA WrittenKeeps == ASSUME IInv, Written PROVE IInv'
<1>1. /\ UNCHANGED <<kind, grid, uids, objs, nodes, view, synced>> /\ sync \in Syncs
      /\ sync.pc = "write" /\ sync.grid \in Grid
  BY DEF Written, server, IInv, SyncOK
<1>2. ServerOK'
  BY <1>1 DEF IInv, ServerOK
<1>3. CASE sync' = Idle
  BY <1>1, <1>2, <1>3, EndKeeps
<1>4. CASE sync' # Idle
  <2>1. sync' = [sync EXCEPT !.pc = "status"]
    BY <1>4 DEF Written, HandleErr
  <2>2. /\ sync' \in Syncs /\ sync'.pc = "status" /\ sync'.todo = sync.todo
        /\ sync'.grid = sync.grid
    BY <1>1, <2>1 DEF Syncs
  <2>3. SyncOK' /\ Spares(sync'.todo)
    BY <1>1, <2>2 DEF SyncOK, IInv, DeletesSpare
  <2> QED BY <1>1, <1>2, <2>2, <2>3, WorkerKeeps
<1> QED BY <1>3, <1>4

LEMMA SyncStatusKeeps == ASSUME IInv, NEW f, SyncStatus(f) PROVE IInv'
<1>1. UNCHANGED <<kind, grid, uids, objs, nodes, view, synced>> /\ sync' = Idle
  BY DEF SyncStatus, HandleErr
<1>2. ServerOK'
  BY <1>1 DEF IInv, ServerOK
<1> QED BY <1>1, <1>2, EndKeeps

LEMMA CrashKeeps == ASSUME IInv, Crash PROVE IInv'
<1>1. UNCHANGED server /\ view' = NoView /\ synced' = {} /\ sync' = Idle
  BY DEF Crash
<1>2. ViewOK'
  BY <1>1 DEF ViewOK, Views, NoView, NoObject, Objects, Values, Grids
<1>3. SyncOK' /\ DeletesSpare' /\ NodesKnown'
  BY <1>1, IdleOK DEF IInv, server, SyncOK, DeletesSpare, Spares, NodesKnown
<1> QED BY <1>1, <1>2, <1>3 DEF IInv, server, ServerOK, NodesOK
-----------------------------------------------------------------------------
LEMMA StartOK ==
    ASSUME Init
    PROVE  /\ served \in BOOLEAN /\ (served => kind = "deployment")
           /\ nodes \in [Node -> Value \cup {None}] \/ nodes = NoView.nodes
           /\ kind = "service" => nodes = NoView.nodes
<1>1. PICK s \in IF kind = "service" THEN {<<FALSE, NoView.nodes>>} ELSE Start :
            served = s[1] /\ nodes = s[2]
  BY DEF Init
<1>2. kind \in {"deployment", "service"}
  BY DEF Init
<1>3. CASE kind = "service"
  <2>1. s = <<FALSE, NoView.nodes>>
    BY <1>1, <1>3
  <2> QED BY <1>1, <1>3, <2>1
<1>4. CASE kind = "deployment"
  <2>1. s \in BOOLEAN \X [Node -> Value \cup {None}]
    BY <1>1, <1>4, GridControllerAssumption
  <2> QED BY <1>1, <1>4, <2>1
<1> QED BY <1>2, <1>3, <1>4

LEMMA Initially == Init => IInv
<1> SUFFICES ASSUME Init PROVE IInv
  OBVIOUS
<1>1. grid \in Grid
  BY DEF Init, Grid, Uid
<1>2. ServerOK
  BY <1>1 DEF Init, ServerOK, Grids, NoObject, Objects
<1>3. NoView.nodes \in Values /\ \A n \in Node : NoView.nodes[n] = None
  BY DEF NoView, Values
<1>4. NodesOK /\ kind \in {"deployment", "service"} /\ (kind = "service" => nodes = NoView.nodes)
  BY <1>3, StartOK DEF Init, NodesOK, Values
<1>5. view = [grid |-> grid, objs |-> objs, nodes |-> nodes] /\ sync = Idle
  BY DEF Init
<1>6. ViewOK /\ view.nodes = nodes
  BY <1>2, <1>4, <1>5 DEF ViewOK, Views, ServerOK, NodesOK
<1>7. SyncOK /\ DeletesSpare /\ sync.pc = "idle"
  BY <1>5, IdleOK DEF SyncOK, DeletesSpare, Spares
<1> QED BY <1>2, <1>3, <1>4, <1>6, <1>7 DEF IInv, NodesKnown

LEMMA WorkerStep ==
    ASSUME IInv, Worker
    PROVE  /\ IInv'
           /\ \A y \in Name : objs[y] # None /\ objs'[y] = None =>
                \E c \in sync.todo : c.op = "delete" /\ c.name = y
<1>1. CASE Begin \/ Written
  <2>1. objs' = objs
    BY <1>1 DEF Begin, Written, server
  <2> QED BY <1>1, <2>1, BeginKeeps, WrittenKeeps
<1>2. CASE SyncDeploymentGrid \/ SyncServiceGrid
  <2>1. /\ DeploymentsWanted \in SUBSET Call /\ ServiceWanted \in SUBSET Call
        /\ \A c \in DeploymentsWanted \cup ServiceWanted : c.op # "delete"
    BY WantedOK DEF IInv
  <2>2. CASE SyncDeploymentGrid
    <3>1. kind = "deployment" /\ SyncGrid(DeploymentsWanted) /\ objs' = objs
      BY <2>2 DEF SyncDeploymentGrid, SyncGrid, server
    <3> QED BY <2>1, <3>1, SyncSpares, SyncGridKeeps
  <2>3. CASE SyncServiceGrid
    <3>1. kind = "service" /\ SyncGrid(ServiceWanted) /\ objs' = objs
      BY <2>3 DEF SyncServiceGrid, SyncGrid, server
    <3> QED BY <2>1, <3>1, ServiceSpares, SyncGridKeeps
  <2> QED BY <1>2, <2>2, <2>3
<1>3. ASSUME NEW f \in Fault, CanAdopt(f) \/ SyncStatus(f) PROVE IInv' /\ objs' = objs
  BY <1>3, CanAdoptKeeps, SyncStatusKeeps DEF CanAdopt, SyncStatus, server
<1>4. ASSUME NEW f \in Fault, NEW x \in Name, Adopt(x, f) \/ Release(x, f)
      PROVE  IInv' /\ \A y \in Name : objs[y] # None => objs'[y] # None
  BY <1>4, AdoptKeeps, ReleaseKeeps
<1>5. ASSUME NEW f \in Fault, NEW c \in sync.todo, SyncObject(c, f)
      PROVE  IInv' /\ \A y \in Name : objs[y] # None /\ objs'[y] = None => c.op = "delete" /\ c.name = y
  BY <1>5, SyncObjectKeeps
<1> QED BY <1>1, <1>2, <1>3, <1>4, <1>5 DEF Worker

LEMMA NextKeeps == IInv /\ [Next]_vars => IInv'
<1> SUFFICES ASSUME IInv, [Next]_vars PROVE IInv'
  OBVIOUS
<1>1. CASE User
  BY <1>1, UserKeeps
<1>2. CASE GarbageCollector
  BY <1>2, GarbageCollectorKeeps
<1>3. CASE \/ ListGrids \/ ListObjects \/ ListNodes \/ AddUpdateDeleteGrid \/ Resync
           \/ \E x \in Name : ObjectEvents(x) \/ \E n \in Node : NodeEvent(n)
  BY <1>3, InformersKeep
<1>4. CASE Worker
  BY <1>4, WorkerStep
<1>5. CASE Crash
  BY <1>5, CrashKeeps
<1>6. CASE UNCHANGED vars
  BY <1>6 DEF vars, server, informers, IInv, ServerOK, NodesOK, ViewOK, SyncOK, NodesKnown,
              DeletesSpare, Spares
<1>7. (\E n \in Node : NodeEvent(n)) => (\E x \in Name : ObjectEvents(x) \/ \E n \in Node : NodeEvent(n))
  BY DEF Name
<1> QED BY <1>1, <1>2, <1>3, <1>4, <1>5, <1>6, <1>7 DEF Next

THEOREM Inductive == GridSpec => []IInv
  BY Initially, NextKeeps, PTL DEF GridSpec

LEMMA SyncUnmoved ==
    ASSUME \/ User \/ GarbageCollector \/ ListGrids \/ ListObjects \/ ListNodes
           \/ AddUpdateDeleteGrid \/ Resync \/ UNCHANGED vars
           \/ (\E x \in Name : ObjectEvents(x)) \/ (\E n \in Node : NodeEvent(n))
    PROVE  sync' = sync
  BY DEF User, DeleteGrid, CreateGrid, EditGrid, RelabelNode, EditObject, GarbageCollector,
         Collect, CollectGrid, Others, ListGrids, ListObjects, ListNodes, AddUpdateDeleteGrid,
         Resync, ObjectEvents, NodeEvent, vars

LEMMA StepSpares ==
    ASSUME IInv, [Next]_vars, sync' # sync, NEW n \in Steady, nodes[n] # None, objs[nodes[n]] # None
    PROVE  objs'[nodes[n]] # None
<1>1. nodes[n] \in Name
  BY DEF IInv, NodesOK, Values, Name
<1>2. CASE Worker
  <2>1. ~ \E c \in sync.todo : c.op = "delete" /\ c.name = nodes[n]
    BY DEF IInv, DeletesSpare, Spares
  <2> QED BY <1>1, <1>2, <2>1, WorkerStep
<1>3. CASE Crash
  BY <1>3 DEF Crash, server
<1> QED BY <1>2, <1>3, SyncUnmoved DEF Next

\* Whatever restarts, lagging listers, lost answers and retries there are, the
\* controller never deletes the deployment of a value that a steady node has
\* (controller.go:137, deployment/sync.go reconcile).
THEOREM SteadyIsSafe == GridSpec => SteadyIsNeverDeleted
<1>1. IInv /\ [Next]_vars =>
        [sync' # sync => \A n \in Steady : LET v == nodes[n] IN
             v # None /\ objs[v] # None => objs'[v] # None]_vars
  BY StepSpares
<1> QED BY <1>1, Inductive, PTL DEF GridSpec, SteadyIsNeverDeleted
-----------------------------------------------------------------------------
(* Nothing is left behind.  Of each object, what is owed is done, or the sync *)
(* under way will do it, or an event that will start a sync is still to come.  *)

\* Objects nobody owns, objects of an owner, and those that do not follow the grid in
\* what an update carries over.
Orphan(o) == Matches(o) /\ o.owner = NoUid
OwnedBy(u, o) == o # None /\ o.owner = u
Wrong(g, o) ==
    /\ Matches(o) /\ OwnedBy(g.uid, o)
    /\ \/ o.spec.carried # g.spec.carried
       \/ kind = "deployment" /\ o.spec.selector # g.spec.selector

\* The handlers enqueue the grid with the uid u if the lister has it; an event of x
\* that will do so is still to come.
Noticed(u, old, new) ==
    \/ old = None /\ new # None /\ new.labelled /\ new.owner \in {NoUid, u}
    \/ new = None /\ old # None /\ old.labelled /\ old.owner = u
    \/ /\ None \notin {old, new} /\ new.labelled
       /\ \/ old.owner = u /\ new.owner # u
          \/ new.owner = u
          \/ new.owner = NoUid /\ (old.labelled # new.labelled \/ old.owner # new.owner)
Due(u, x) == \E e \in events[x] : Noticed(u, e[1], e[2])

\* What a change from a to b that the handlers take no notice of leaves as it was;
\* "lost" says that the object has lost its label.
Alike(lost, u, a, b) ==
    /\ Orphan(b) => Orphan(a)
    /\ Matches(b) => Matches(a) /\ (OwnedBy(u, a) <=> OwnedBy(u, b))
    /\ ~lost /\ Matches(a) /\ OwnedBy(u, a) => Matches(b)

\* Events are there until the lister is current, the last of them led to the object
\* as it is, and what all of them leave unnoticed is alike.
EventsOf(x) ==
    /\ events[x] \subseteq (Object \cup {None}) \X (Object \cup {None})
    /\ events[x] = {} <=> copy.lister[x] = "current"
    /\ events[x] # {} => \E e \in events[x] : e[2] = objs[x]
    /\ objs[x] # None /\ ~objs[x].labelled => x \in shed
    /\ "objects" \in synced =>
         /\ events[x] = {} => view.objs[x] = objs[x]
         /\ \A u \in Uid : Due(u, x) \/ Alike(x \in shed, u, view.objs[x], objs[x])

Copies == [{"lister", "sync"} -> [Thing -> {"current", "stale", "replaced"}]]
EventsOK == /\ copy \in Copies /\ events \in [Name -> SUBSET ((Object \cup {None}) \X (Object \cup {None}))]
            /\ shed \subseteq Name /\ \A x \in Name : EventsOf(x)

\* Whoever has not listed yet is going to; while nothing is queued, a sync is about
\* the grid of the lister.
GridSeen ==
    /\ synced \subseteq Lister
    /\ "grids" \notin synced => view.grid = None
    /\ synced # Lister => sync.pc = "idle" /\ (view.grid # None => queued)
    /\ "grids" \in synced /\ copy.lister["grid"] = "current" => view.grid = grid
    /\ sync.pc # "idle" /\ ~queued =>
         /\ view.grid = sync.grid
         /\ copy.lister["grid"] = "current" => copy.sync["grid"] = "current"

\* What a sync knows of the objects of which it has the current copy, and its calls.
ClaimsOK ==
    /\ \A x \in sync.adopt : copy.sync[x] = "current" => Orphan(objs[x])
    /\ sync.pc # "idle" => \A x \in sync.claimed : copy.sync[x] = "current" => Matches(objs[x])
    /\ \A c \in sync.todo : /\ c.op = "update" => c.name \in sync.claimed
                            /\ c.op = "delete" => c.name \notin sync.claimed
    /\ sync.todo # {} => sync.pc = "write"
    /\ sync.adopt # {} => sync.pc = "claim"
    /\ sync.pc = "status" => ~sync.failed

CountersOK == /\ retries \in 0 .. MaxRetries /\ {queued, gaveUp, served} \subseteq BOOLEAN
              /\ served => kind = "deployment"

\* The grid of the lister is owed something that no sync but the present one is sure
\* to do.
Owing ==
    /\ view.grid # None /\ view.grid.spec \notin Keyless /\ ~view.grid.deleting
    /\ ~queued
    /\ IF sync.pc = "idle" THEN ~gaveUp ELSE ~sync.failed

\* An orphan is going to be adopted.
Adopted(x) == Orphan(objs[x]) => x \in sync.adopt

\* A wrong spec is going to be overwritten.
Listed(x, op) == \E c \in sync.todo : c.name = x /\ c.op \in op
Updated(x) ==
    Wrong(view.grid, objs[x]) =>
        /\ copy.sync[x] = "current"
        /\ \/ sync.pc = "claim" /\ x \in sync.claimed
           \/ Listed(x, {"update", "delete"})

\* The status names what it should, or the sync is going to store one that does.
Names(S, lost, u, x, o) == IF Matches(o) THEN x \in S <=> OwnedBy(u, o) ELSE x \in S => lost
Reported(x) ==
    IF sync.pc = "idle"
      THEN served /\ copy.lister["grid"] = "current" => Names(status, x \in shed, view.grid.uid, x, objs[x])
      ELSE Listed(x, {"delete"}) \/ Names(sync.claimed, x \in shed, view.grid.uid, x, objs[x])

CaredFor(x) == Due(view.grid.uid, x) \/ (Adopted(x) /\ Updated(x) /\ Reported(x))
NothingIsForgotten == Owing => \A x \in Name : CaredFor(x)

Ledger == EventsOK /\ GridSeen /\ ClaimsOK /\ CountersOK /\ NothingIsForgotten
-----------------------------------------------------------------------------
(* Changes that are noticed, and changes that are not.                       *)

LEMMA NoticedIsHandled ==
    ASSUME view.grid \in Grid, NEW a \in Object \cup {None}, NEW b \in Object \cup {None},
           Noticed(view.grid.uid, a, b)
    PROVE  Handled(a, b)
<1>1. view.grid # None /\ view.grid.uid \in Uid /\ NoUid \notin Uid
  BY DEF Grid, Uid, NoUid
<1> QED BY <1>1 DEF Noticed, Handled, AddObject, UpdateObject, DeleteObject, ResolveControllerRef

LEMMA Unnoticed ==
    ASSUME NEW u \in Uid, NEW a \in Object \cup {None}, NEW b \in Object \cup {None}, NEW lost,
           a # b, ~Noticed(u, a, b),
           Matches(b) => Matches(a) \/ (a = None /\ b.owner = NoUid),
           b # None /\ ~b.labelled => lost
    PROVE  Alike(lost, u, a, b) /\ ~(Matches(b) /\ OwnedBy(u, b))
<1>1. u # NoUid
  BY DEF Uid, NoUid
<1>2. CASE b = None
  BY <1>2 DEF Noticed, Alike, Orphan, Matches, OwnedBy
<1>3. CASE b # None /\ ~b.labelled
  BY <1>3 DEF Noticed, Alike, Orphan, Matches, OwnedBy
<1>4. CASE b # None /\ b.labelled
  <2>1. a # None /\ a.labelled
    BY <1>4 DEF Noticed, Matches
  <2>2. b.owner # u /\ a.owner # u
    BY <1>4, <2>1 DEF Noticed
  <2>3. b.owner = NoUid => a.owner = NoUid
    BY <1>4, <2>1 DEF Noticed
  <2> QED BY <1>4, <2>1, <2>2, <2>3 DEF Alike, Orphan, Matches, OwnedBy
<1> QED BY <1>2, <1>3, <1>4

LEMMA AlikeGoesOn ==
    ASSUME NEW u, NEW a, NEW b, NEW c, NEW l, NEW m, Alike(l, u, a, b), Alike(m, u, b, c), l => m
    PROVE  Alike(m, u, a, c)
  BY DEF Alike

LEMMA NamesGoOn ==
    ASSUME NEW S, NEW x, NEW u, NEW a, NEW b, NEW l, NEW m,
           Names(S, l, u, x, a), Alike(m, u, a, b), l => m
    PROVE  Names(S, m, u, x, b)
  BY DEF Alike, Names

\* What a step does to the objects is in the events, or is not noticed; and a sync
\* that has the current copy of an object afterwards has it unchanged.
Traced ==
    /\ shed \subseteq shed'
    /\ \A x \in Name :
        /\ \A u \in Uid : Due(u, x) => Due(u, x)'
        /\ \A u \in Uid : \/ Due(u, x)'
                          \/ /\ Alike(x \in shed', u, objs[x], objs'[x])
                             /\ objs'[x] = objs[x] \/ ~(Matches(objs'[x]) /\ OwnedBy(u, objs'[x]))
        /\ sync.pc # "idle" /\ copy'.sync[x] = "current" =>
             copy.sync[x] = "current" /\ objs'[x] = objs[x]
        /\ sync.pc # "idle" /\ objs'[x] = objs[x] => copy'.sync[x] = copy.sync[x]

LEMMA SameIsAlike == \A l, u, a : Alike(l, u, a, a)
  BY DEF Alike

LEMMA OutdatedOK ==
    ASSUME copy \in Copies, NEW t \in Thing, NEW how \in {"stale", "replaced"}
    PROVE  /\ Outdated(t, how) \in Copies
           /\ Outdated(t, how).lister[t] # "current"
           /\ \A y \in Thing : y # t => Outdated(t, how).lister[y] = copy.lister[y]
           /\ sync.pc # "idle" => /\ Outdated(t, how).sync[t] # "current"
                                  /\ \A y \in Thing : y # t => Outdated(t, how).sync[y] = copy.sync[y]
<1>1. /\ copy.lister \in [Thing -> {"current", "stale", "replaced"}]
      /\ copy.sync \in [Thing -> {"current", "stale", "replaced"}]
  BY DEF Copies
<1>2. ASSUME NEW f \in [Thing -> {"current", "stale", "replaced"}]
      PROVE  LET g == [f EXCEPT ![t] = IF @ = "replaced" THEN @ ELSE how] IN
             /\ g \in [Thing -> {"current", "stale", "replaced"}] /\ g[t] # "current"
             /\ \A y \in Thing : y # t => g[y] = f[y]
  OBVIOUS
<1>3. /\ Outdated(t, how).lister = [copy.lister EXCEPT ![t] = IF @ = "replaced" THEN @ ELSE how]
      /\ Outdated(t, how).sync = IF sync.pc = "idle" THEN copy.sync
             ELSE [copy.sync EXCEPT ![t] = IF @ = "replaced" THEN @ ELSE how]
      /\ Outdated(t, how) = [w \in {"lister", "sync"} |->
             IF w = "lister" THEN Outdated(t, how).lister ELSE Outdated(t, how).sync]
  BY DEF Outdated
<1>4. Outdated(t, how).lister \in [Thing -> {"current", "stale", "replaced"}]
  BY <1>1, <1>2, <1>3
<1>5. Outdated(t, how).sync \in [Thing -> {"current", "stale", "replaced"}]
  BY <1>1, <1>2, <1>3
<1>6. Outdated(t, how) \in Copies
  BY <1>3, <1>4, <1>5 DEF Copies
<1> QED BY <1>1, <1>2, <1>3, <1>6

\* Labels come only with new objects, which nobody owns, and go only with "shed".
Legit(x, o) ==
    /\ Matches(o) => Matches(objs[x]) \/ (objs[x] = None /\ o.owner = NoUid)
    /\ o # None /\ ~o.labelled => x \in shed'

LEMMA StoreIsTraced ==
    ASSUME IInv, EventsOK, NEW x \in Name, NEW o \in Object \cup {None}, Store(x, o), Legit(x, o),
           shed \subseteq shed', shed' \subseteq Name, UNCHANGED <<view, synced>>
    PROVE  /\ EventsOK' /\ Traced
           /\ copy'.lister["grid"] = copy.lister["grid"] /\ copy' \in Copies
           /\ sync.pc # "idle" => copy'.sync["grid"] = copy.sync["grid"]
<1>0. /\ objs \in Objects /\ copy \in Copies /\ x \in Thing /\ "grid" \in Thing
      /\ objs[x] \in Object \cup {None}
      /\ events \in [Name -> SUBSET ((Object \cup {None}) \X (Object \cup {None}))]
  BY DEF IInv, ServerOK, EventsOK, Thing, Objects
<1>1. objs' \in Objects /\ objs'[x] = o /\ \A y \in Name : y # x => objs'[y] = objs[y]
  BY <1>0, StoreOK
<1>2. CASE o = objs[x]
  <2>1. UNCHANGED <<copy, events>>
    BY <1>2 DEF Store
  <2>2. \A y \in Name : objs'[y] = objs[y]
    BY <1>1, <1>2
  <2>3. Traced
    BY <2>1, <2>2, SameIsAlike DEF Traced, Due
  <2>4. ASSUME NEW y \in Name PROVE EventsOf(y)'
    <3>1. EventsOf(y) /\ objs'[y] = objs[y]
      BY <2>2 DEF EventsOK
    <3>2. \A u \in Uid : Due(u, y) <=> Due(u, y)'
      BY <2>1 DEF Due
    <3>3. \A u : Alike(y \in shed, u, view.objs[y], objs[y]) =>
                    Alike(y \in shed', u, view.objs[y], objs[y])
      BY DEF Alike
    <3> QED BY <2>1, <3>1, <3>2, <3>3 DEF EventsOf
  <2> QED BY <1>0, <2>1, <2>3, <2>4 DEF EventsOK
<1>3. CASE o # objs[x]
  <2>1. PICK how \in {"stale", "replaced"} : copy' = Outdated(x, how)
    BY <1>3 DEF Store
  <2>2. events' = [events EXCEPT ![x] = @ \cup {<<objs[x], o>>}]
    BY <1>3 DEF Store
  <2>3. /\ copy' \in Copies /\ copy'.lister[x] # "current"
        /\ \A y \in Thing : y # x => copy'.lister[y] = copy.lister[y]
        /\ sync.pc # "idle" => /\ copy'.sync[x] # "current"
                               /\ \A y \in Thing : y # x => copy'.sync[y] = copy.sync[y]
    BY <1>0, <2>1, OutdatedOK
  <2>4. /\ events'[x] = events[x] \cup {<<objs[x], o>>}
        /\ \A y \in Name : y # x => events'[y] = events[y]
    BY <1>0, <2>2
  <2>5. events' \in [Name -> SUBSET ((Object \cup {None}) \X (Object \cup {None}))]
    <3>1. <<objs[x], o>> \in (Object \cup {None}) \X (Object \cup {None})
      BY <1>0
    <3> QED BY <1>0, <2>2, <3>1
  <2>6. x # "grid"
    BY DEF Name
  <2>7. ASSUME NEW u \in Uid
        PROVE  \/ Due(u, x)'
               \/ Alike(x \in shed', u, objs[x], o) /\ ~(Matches(o) /\ OwnedBy(u, o))
    <3>1. CASE Noticed(u, objs[x], o)
      <4>1. <<objs[x], o>> \in events'[x]
        BY <2>4
      <4> QED BY <3>1, <4>1 DEF Due
    <3>2. CASE ~Noticed(u, objs[x], o)
      BY <1>0, <1>3, <3>2, Unnoticed DEF Legit
    <3> QED BY <3>1, <3>2
  <2>8. \A u \in Uid, y \in Name : Due(u, y) => Due(u, y)'
    BY <2>4 DEF Due
  <2>9. Traced
    BY <1>0, <1>1, <1>3, <2>3, <2>7, <2>8, SameIsAlike DEF Traced, Thing
  <2>10. EventsOf(x)'
    <3>1. EventsOf(x)
      BY DEF EventsOK
    <3>2. events'[x] # {} /\ \E e \in events'[x] : e[2] = objs'[x]
      <4>1. <<objs[x], o>> \in events'[x] /\ <<objs[x], o>>[2] = objs'[x]
        BY <1>1, <2>4
      <4> QED BY <4>1
    <3>3. objs'[x] # None /\ ~objs'[x].labelled => x \in shed'
      BY <1>1 DEF Legit
    <3>4. ASSUME "objects" \in synced, NEW u \in Uid
          PROVE  Due(u, x)' \/ Alike(x \in shed', u, view.objs[x], objs'[x])
      <4>1. Due(u, x) \/ Alike(x \in shed, u, view.objs[x], objs[x])
        BY <3>1, <3>4 DEF EventsOf
      <4>2. Due(u, x)' \/ Alike(x \in shed', u, objs[x], objs'[x])
        BY <1>1, <2>7
      <4>3. (x \in shed) => (x \in shed')
        OBVIOUS
      <4>4. CASE Alike(x \in shed, u, view.objs[x], objs[x]) /\ Alike(x \in shed', u, objs[x], objs'[x])
        BY <4>3, <4>4, AlikeGoesOn
      <4> QED BY <2>8, <4>1, <4>2, <4>4
    <3>5. events'[x] \subseteq (Object \cup {None}) \X (Object \cup {None})
      BY <2>5
    <3> QED BY <2>3, <3>2, <3>3, <3>4, <3>5 DEF EventsOf
  <2>11. ASSUME NEW y \in Name, y # x PROVE EventsOf(y)'
    <3>1. EventsOf(y) /\ objs'[y] = objs[y] /\ events'[y] = events[y] /\ copy'.lister[y] = copy.lister[y]
      BY <1>1, <2>3, <2>4, <2>11 DEF EventsOK, Thing
    <3>2. \A u \in Uid : Due(u, y) <=> Due(u, y)'
      BY <3>1 DEF Due
    <3>3. \A u : Alike(y \in shed, u, view.objs[y], objs[y]) =>
                    Alike(y \in shed', u, view.objs[y], objs[y])
      BY DEF Alike
    <3> QED BY <3>1, <3>2, <3>3 DEF EventsOf
  <2> QED BY <1>0, <2>3, <2>5, <2>6, <2>9, <2>10, <2>11 DEF EventsOK
<1> QED BY <1>2, <1>3
-----------------------------------------------------------------------------
(* What is owed of an object that a step of the sync, or of another, is not about. *)

LEMMA GridUid == ASSUME IInv, view.grid # None PROVE view.grid \in Grid /\ view.grid.uid \in Uid
  BY DEF IInv, ViewOK, Views, Grids, Grid

\* A step that leaves the work on x as it is.
Unmoved(x) ==
    /\ sync'.pc = sync.pc
    /\ x \in sync.adopt /\ Orphan(objs'[x]) => x \in sync'.adopt
    /\ x \in sync'.claimed <=> x \in sync.claimed
    /\ \A c \in sync.todo : c.name = x => c \in sync'.todo

LEMMA CareGoesOn ==
    ASSUME IInv, Ledger, Traced, UNCHANGED <<kind, view, served>>, NEW x \in Name, Owing, Unmoved(x),
           sync.pc = "idle" /\ copy'.lister["grid"] = "current" =>
               copy.lister["grid"] = "current" /\ status' = status
    PROVE  CaredFor(x)'
<1> DEFINE u == view.grid.uid
           l == x \in shed
           m == x \in shed'
<1>1. u \in Uid /\ view'.grid = view.grid
  BY GridUid DEF Owing
<1>2. CaredFor(x) /\ (l => m)
  BY DEF Ledger, NothingIsForgotten, Traced
<1>3. CASE Due(u, x)'
  BY <1>1, <1>3 DEF CaredFor
<1>4. CASE ~Due(u, x)'
  <2>1. Alike(m, u, objs[x], objs'[x]) /\ (objs'[x] = objs[x] \/ ~(Matches(objs'[x]) /\ OwnedBy(u, objs'[x])))
    BY <1>1, <1>4 DEF Traced
  <2>2. Adopted(x) /\ Updated(x) /\ Reported(x)
    BY <1>1, <1>2, <1>4 DEF CaredFor, Traced
  <2>3. Adopted(x)'
    BY <2>1, <2>2 DEF Adopted, Alike, Unmoved
  <2>4. ASSUME NEW op, Listed(x, op) PROVE Listed(x, op)'
    BY <2>4 DEF Listed, Unmoved
  <2>5. Updated(x)'
    <3>1. SUFFICES ASSUME Wrong(view.grid, objs'[x])
                   PROVE  /\ copy'.sync[x] = "current"
                          /\ \/ sync'.pc = "claim" /\ x \in sync'.claimed
                             \/ Listed(x, {"update", "delete"})'
      BY <1>1 DEF Updated, Wrong
    <3>2. objs'[x] = objs[x]
      BY <2>1, <3>1 DEF Wrong
    <3>3. /\ copy.sync[x] = "current"
          /\ \/ sync.pc = "claim" /\ x \in sync.claimed
             \/ Listed(x, {"update", "delete"})
      BY <2>2, <3>1, <3>2 DEF Updated
    <3>4. sync.pc # "idle"
      BY <3>3 DEF Listed, Ledger, ClaimsOK
    <3>5. copy'.sync[x] = "current"
      BY <3>2, <3>3, <3>4 DEF Traced
    <3> QED BY <2>4, <3>3, <3>5 DEF Unmoved
  <2>6. Reported(x)'
    <3>1. CASE sync.pc = "idle"
      <4>1. SUFFICES ASSUME served, copy'.lister["grid"] = "current"
                     PROVE  Names(status, m, u, x, objs'[x])
        BY <1>1, <3>1 DEF Reported, Unmoved
      <4>2. Names(status, l, u, x, objs[x])
        BY <2>2, <3>1, <4>1 DEF Reported
      <4> QED BY <1>2, <2>1, <4>2, NamesGoOn
    <3>2. CASE sync.pc # "idle"
      <4>1. CASE Listed(x, {"delete"})
        BY <2>4, <3>2, <4>1 DEF Reported, Unmoved
      <4>2. CASE Names(sync.claimed, l, u, x, objs[x])
        <5>1. Names(sync.claimed, m, u, x, objs'[x])
          BY <1>2, <2>1, <4>2, NamesGoOn
        <5>2. Names(sync'.claimed, m, u, x, objs'[x])
          BY <5>1 DEF Names, Unmoved
        <5> QED BY <1>1, <3>2, <5>2 DEF Reported, Unmoved
      <4> QED BY <2>2, <3>2, <4>1, <4>2 DEF Reported
    <3> QED BY <3>1, <3>2
  <2> QED BY <2>3, <2>5, <2>6 DEF CaredFor
<1> QED BY <1>3, <1>4

\* A step of the users and the collector, or of nobody.
LEMMA OthersKeepLedger ==
    ASSUME IInv, Ledger, EventsOK', Traced, UNCHANGED <<kind, served, view, synced, queue, sync>>,
           copy'.lister["grid"] = "current" =>
               copy.lister["grid"] = "current" /\ UNCHANGED <<grid, status>>,
           sync.pc # "idle" => copy'.sync["grid"] = copy.sync["grid"] \/ copy'.lister["grid"] # "current"
    PROVE  Ledger'
<1>1. UNCHANGED <<queued, retries, gaveUp>>
  BY DEF queue
<1>2. GridSeen'
  BY <1>1 DEF Ledger, GridSeen
<1>3. CountersOK'
  BY <1>1 DEF Ledger, CountersOK
<1>4. ClaimsOK'
  <2>1. sync.claimed \subseteq Name /\ sync.adopt \subseteq Name
    BY DEF IInv, SyncOK, Syncs
  <2>2. ASSUME NEW x \in Name, sync.pc # "idle", copy'.sync[x] = "current"
        PROVE  copy.sync[x] = "current" /\ objs'[x] = objs[x]
    BY <2>2 DEF Traced
  <2>3. sync.adopt # {} => sync.pc # "idle"
    BY DEF Ledger, ClaimsOK
  <2> QED BY <2>1, <2>2, <2>3 DEF Ledger, ClaimsOK
<1>5. NothingIsForgotten'
  <2>1. SUFFICES ASSUME Owing', NEW x \in Name PROVE CaredFor(x)'
    BY DEF NothingIsForgotten
  <2>2. Owing
    BY <1>1, <2>1 DEF Owing
  <2>3. Unmoved(x)
    BY DEF Unmoved
  <2> QED BY <2>2, <2>3, CareGoesOn
<1> QED BY <1>2, <1>3, <1>4, <1>5 DEF Ledger

\* A step that leaves the objects and their events alone.
LEMMA NothingIsTraced ==
    ASSUME UNCHANGED <<objs, events, shed>>,
           \A x \in Name : sync.pc # "idle" => copy'.sync[x] = copy.sync[x]
    PROVE  Traced
  BY SameIsAlike DEF Traced, Due
-----------------------------------------------------------------------------
(* The users, the garbage collector and the informers.                      *)

LEMMA EventsStay ==
    ASSUME EventsOK, copy' \in Copies, UNCHANGED <<objs, events, shed, view, synced>>,
           \A x \in Name : copy'.lister[x] = copy.lister[x]
    PROVE  EventsOK'
  BY DEF EventsOK, EventsOf, Due

LEMMA StoreGridKeepsLedger ==
    ASSUME IInv, Ledger, NEW g, StoreGrid(g),
           UNCHANGED <<kind, served, view, synced, queue, sync, objs, events, shed>>
    PROVE  Ledger'
<1>1. copy' = Outdated("grid", "stale") /\ copy \in Copies /\ "grid" \in Thing
  BY DEF StoreGrid, Ledger, EventsOK, Thing
<1>2. \A x \in Name : x \in Thing /\ x # "grid"
  BY DEF Thing, Name
<1>3. /\ copy' \in Copies /\ copy'.lister["grid"] # "current"
      /\ \A x \in Name : copy'.lister[x] = copy.lister[x]
      /\ \A x \in Name : sync.pc # "idle" => copy'.sync[x] = copy.sync[x]
  BY <1>1, <1>2, OutdatedOK
<1>4. EventsOK' /\ Traced
  BY <1>3, EventsStay, NothingIsTraced DEF Ledger
<1> QED BY <1>3, <1>4, OthersKeepLedger

LEMMA StoreKeepsLedger ==
    ASSUME IInv, Ledger, NEW x \in Name, NEW o \in Object \cup {None}, Store(x, o), Legit(x, o),
           shed \subseteq shed', shed' \subseteq Name,
           UNCHANGED <<kind, served, grid, status, view, synced, queue, sync>>
    PROVE  Ledger'
<1>1. /\ EventsOK' /\ Traced /\ copy'.lister["grid"] = copy.lister["grid"]
      /\ sync.pc # "idle" => copy'.sync["grid"] = copy.sync["grid"]
  BY StoreIsTraced DEF Ledger
<1> QED BY <1>1, OthersKeepLedger

LEMMA LegitNone == \A x : Legit(x, None)
  BY DEF Legit, Matches

LEMMA UserKeepsLedger == ASSUME IInv, Ledger, User PROVE Ledger'
<1>0. /\ objs \in Objects /\ shed \subseteq Name /\ copy \in Copies
      /\ Edit({}) => shed' = shed
  BY DEF IInv, ServerOK, Ledger, EventsOK, Edit
<1>1. CASE CreateGrid
  BY <1>1, StoreGridKeepsLedger DEF CreateGrid, Others, budget
<1>2. CASE DeleteGrid
  BY <1>0, <1>2, StoreGridKeepsLedger DEF DeleteGrid, Others
<1>3. ASSUME NEW s \in Spec, EditGrid(s) PROVE Ledger'
  BY <1>0, <1>3, StoreGridKeepsLedger DEF EditGrid, Others
<1>4. ASSUME NEW n \in Node, NEW v \in Value \cup {None}, RelabelNode(n, v) PROVE Ledger'
  <2>1. /\ UNCHANGED <<kind, served, grid, status, view, synced, queue, sync, objs, copy, events>>
        /\ shed' = shed
    BY <1>0, <1>4 DEF RelabelNode, Others
  <2>2. EventsOK' /\ Traced
    BY <1>0, <2>1, EventsStay, NothingIsTraced DEF Ledger
  <2> QED BY <2>1, <2>2, OthersKeepLedger
<1>5. ASSUME NEW x \in Name, EditObject(x) PROVE Ledger'
  <2>1. UNCHANGED <<kind, served, grid, status, view, synced, queue, sync>>
    BY <1>5 DEF EditObject, Others
  <2>2. CASE Store(x, None) /\ Edit({})
    BY <1>0, <2>1, <2>2, LegitNone, StoreKeepsLedger
  <2>3. CASE objs[x] # None /\ Store(x, [objs[x] EXCEPT !.labelled = FALSE]) /\ Edit({x})
    <3>1. objs[x] \in Object /\ shed' = shed \cup {x}
      BY <1>0, <2>3 DEF Objects, Edit
    <3> DEFINE o == [objs[x] EXCEPT !.labelled = FALSE]
    <3>2. o \in Object /\ ~o.labelled
      BY <3>1, Unlabelled DEF Object
    <3>3. Legit(x, o)
      BY <3>1, <3>2 DEF Legit, Matches
    <3> HIDE DEF o
    <3> QED BY <1>0, <2>1, <2>3, <3>1, <3>2, <3>3, StoreKeepsLedger DEF o
  <2>4. ASSUME objs[x] = None, Edit({}), NEW s \in Foreign,
               Store(x, [owner |-> NoUid, spec |-> s, labelled |-> TRUE])
        PROVE  Ledger'
    <3> DEFINE o == [owner |-> NoUid, spec |-> s, labelled |-> TRUE]
    <3>1. o \in Object /\ Legit(x, o)
      BY <2>4, GridControllerAssumption DEF Object, Legit
    <3> HIDE DEF o
    <3> QED BY <1>0, <2>1, <2>4, <3>1, StoreKeepsLedger DEF o
  <2> QED BY <1>5, <2>2, <2>3, <2>4 DEF EditObject
<1> QED BY <1>1, <1>2, <1>3, <1>4, <1>5 DEF User, Name

LEMMA GarbageCollectorKeepsLedger == ASSUME IInv, Ledger, GarbageCollector PROVE Ledger'
<1>1. CASE CollectGrid
  BY <1>1, StoreGridKeepsLedger DEF CollectGrid, Others, budget
<1>2. ASSUME NEW x \in Name, Collect(x) PROVE Ledger'
  <2>1. /\ Store(x, None) /\ shed' = shed /\ shed \subseteq Name
        /\ UNCHANGED <<kind, served, grid, status, view, synced, queue, sync>>
    BY <1>2 DEF Collect, Others, budget, Ledger, EventsOK
  <2> QED BY <2>1, LegitNone, StoreKeepsLedger
<1> QED BY <1>1, <1>2 DEF GarbageCollector

LEMMA GridListerKeepsLedger ==
    ASSUME IInv, Ledger, ListGrids \/ AddUpdateDeleteGrid
    PROVE  Ledger'
<1>1. /\ UNCHANGED <<server, events, sync, budget, retries, gaveUp>>
      /\ view' = [view EXCEPT !.grid = grid] /\ copy' = [copy EXCEPT !.lister["grid"] = "current"]
      /\ "grids" \in synced' /\ synced' \subseteq Lister
      /\ "objects" \in synced' <=> "objects" \in synced
      /\ "grids" \in synced => synced' = synced
      /\ queued' \in BOOLEAN /\ (queued => queued')
  BY DEF ListGrids, AddUpdateDeleteGrid, Enqueue, Ledger, GridSeen, CountersOK, Lister
<1>2. grid # None => queued'
  BY DEF ListGrids, AddUpdateDeleteGrid, Enqueue
<1>3. copy \in Copies /\ view \in Views /\ grid \in Grids /\ "grid" \in Thing
  BY DEF Ledger, EventsOK, IInv, ViewOK, ServerOK, Thing
<1>4. view'.grid = grid /\ view'.objs = view.objs
  BY <1>1, <1>3 DEF Views
<1>5. /\ copy' \in Copies /\ copy'.sync = copy.sync /\ copy'.lister["grid"] = "current"
      /\ \A x \in Name : copy'.lister[x] = copy.lister[x]
  <2>1. \A x \in Name : x \in Thing /\ x # "grid"
    BY DEF Thing, Name
  <2> QED BY <1>1, <1>3, <2>1 DEF Copies
<1>6. EventsOK'
  BY <1>1, <1>4, <1>5 DEF Ledger, EventsOK, EventsOf, Due, server, budget
<1>7. ~Owing'
  BY <1>2, <1>4 DEF Owing
<1>8. GridSeen'
  <2>1. synced' # Lister => sync'.pc = "idle"
    BY <1>1 DEF ListGrids, AddUpdateDeleteGrid, Ledger, GridSeen, Lister
  <2>2. ASSUME sync.pc # "idle", ~queued' PROVE FALSE
    <3>1. "grids" \in synced /\ AddUpdateDeleteGrid
      BY <2>2 DEF ListGrids, Ledger, GridSeen, Lister
    <3>2. view.grid # None
      BY <1>1, <2>2 DEF Ledger, GridSeen, IInv, SyncOK
    <3> QED BY <2>2, <3>1, <3>2 DEF AddUpdateDeleteGrid, Enqueue
  <2> QED BY <1>1, <1>2, <1>4, <2>1, <2>2 DEF GridSeen, server
<1>9. ClaimsOK' /\ CountersOK'
  BY <1>1, <1>5 DEF Ledger, ClaimsOK, CountersOK, server
<1> QED BY <1>6, <1>7, <1>8, <1>9 DEF Ledger, NothingIsForgotten

LEMMA ListObjectsKeepsLedger == ASSUME IInv, Ledger, ListObjects PROVE Ledger'
<1>1. /\ UNCHANGED <<server, sync, budget, retries, gaveUp>> /\ synced' = synced \cup {"objects"}
      /\ "objects" \notin synced /\ view' = [view EXCEPT !.objs = objs]
      /\ copy' = [copy EXCEPT !.lister = [AllCurrent EXCEPT !["grid"] = copy.lister["grid"]]]
      /\ events' = [x \in Name |-> {}] /\ queued' \in BOOLEAN /\ (queued => queued')
  BY DEF ListObjects, Enqueue, Ledger, CountersOK
<1>2. copy \in Copies /\ view \in Views /\ objs \in Objects /\ "grid" \in Thing
  BY DEF Ledger, EventsOK, IInv, ViewOK, ServerOK, Thing
<1>3. view'.grid = view.grid /\ view'.objs = objs
  BY <1>1, <1>2 DEF Views
<1>4. /\ copy' \in Copies /\ copy'.sync = copy.sync /\ copy'.lister["grid"] = copy.lister["grid"]
      /\ \A x \in Name : copy'.lister[x] = "current"
  <2>1. \A x \in Name : x \in Thing /\ x # "grid"
    BY DEF Thing, Name
  <2>2. copy.lister["grid"] \in {"current", "stale", "replaced"}
    BY <1>2 DEF Copies
  <2> QED BY <1>1, <1>2, <2>1, <2>2 DEF Copies, AllCurrent
<1>5. EventsOK'
  <2>1. ASSUME NEW x \in Name PROVE EventsOf(x)'
    <3>1. events'[x] = {} /\ view'.objs[x] = objs'[x] /\ copy'.lister[x] = "current"
      BY <1>1, <1>3, <1>4 DEF server
    <3>2. objs'[x] # None /\ ~objs'[x].labelled => x \in shed'
      BY <1>1 DEF Ledger, EventsOK, EventsOf, server, budget
    <3> QED BY <3>1, <3>2, SameIsAlike DEF EventsOf
  <2> QED BY <1>1, <1>4, <2>1 DEF Ledger, EventsOK, budget
<1>6. sync.pc = "idle" /\ (view.grid # None => queued)
  BY <1>1 DEF Ledger, GridSeen, Lister
<1>7. ~Owing'
  BY <1>1, <1>3, <1>6 DEF Owing
<1>8. GridSeen'
  BY <1>1, <1>3, <1>4, <1>6 DEF Ledger, GridSeen, Lister, server
<1>9. ClaimsOK'
  BY <1>1, <1>6 DEF Ledger, ClaimsOK
<1>10. CountersOK'
  BY <1>1 DEF Ledger, CountersOK, server
<1> QED BY <1>5, <1>7, <1>8, <1>9, <1>10 DEF Ledger, NothingIsForgotten

LEMMA ObjectEventsKeepsLedger == ASSUME IInv, Ledger, NEW x \in Name, ObjectEvents(x) PROVE Ledger'
<1>1. /\ UNCHANGED <<server, sync, budget, retries, gaveUp, synced>>
      /\ view' = [view EXCEPT !.objs[x] = objs[x]]
      /\ copy' = [copy EXCEPT !.lister[x] = "current"]
      /\ events' = [events EXCEPT ![x] = {}] /\ queued' \in BOOLEAN /\ (queued => queued')
  BY DEF ObjectEvents, Enqueue, Ledger, CountersOK
<1>2. /\ copy \in Copies /\ view \in Views /\ objs \in Objects
      /\ events \in [Name -> SUBSET ((Object \cup {None}) \X (Object \cup {None}))]
      /\ x \in Thing /\ x # "grid" /\ "grid" \in Thing
  BY DEF Ledger, EventsOK, IInv, ViewOK, ServerOK, Thing, Name
<1>3. /\ view'.grid = view.grid /\ view'.objs[x] = objs[x]
      /\ \A y \in Name : y # x => view'.objs[y] = view.objs[y]
  BY <1>1, <1>2 DEF Views, Objects
<1>4. /\ copy' \in Copies /\ copy'.sync = copy.sync /\ copy'.lister["grid"] = copy.lister["grid"]
      /\ copy'.lister[x] = "current" /\ \A y \in Name : y # x => copy'.lister[y] = copy.lister[y]
  <2>1. \A y \in Name : y \in Thing
    BY DEF Thing
  <2> QED BY <1>1, <1>2, <2>1 DEF Copies
<1>5. events'[x] = {} /\ \A y \in Name : y # x => events'[y] = events[y]
  BY <1>1, <1>2
<1>6. UNCHANGED <<objs, shed, grid, status, kind, served>>
  BY <1>1 DEF server, budget
<1>7. EventsOK'
  <2>1. EventsOf(x)'
    BY <1>3, <1>4, <1>5, <1>6, SameIsAlike DEF Ledger, EventsOK, EventsOf
  <2>2. ASSUME NEW y \in Name, y # x PROVE EventsOf(y)'
    <3>1. \A u : Due(u, y) <=> Due(u, y)'
      BY <1>5, <2>2 DEF Due
    <3> QED BY <1>1, <1>3, <1>4, <1>5, <1>6, <2>2, <3>1 DEF Ledger, EventsOK, EventsOf
  <2>3. events' \in [Name -> SUBSET ((Object \cup {None}) \X (Object \cup {None}))]
    BY <1>1, <1>2
  <2> QED BY <1>4, <1>6, <2>1, <2>2, <2>3 DEF Ledger, EventsOK
<1>8. GridSeen' /\ ClaimsOK' /\ CountersOK'
  BY <1>1, <1>3, <1>4, <1>6 DEF Ledger, GridSeen, ClaimsOK, CountersOK
<1>9. NothingIsForgotten'
  <2>1. SUFFICES ASSUME Owing', NEW y \in Name PROVE CaredFor(y)'
    BY DEF NothingIsForgotten
  <2>2. Owing /\ ~queued'
    BY <1>1, <1>3, <2>1 DEF Owing
  <2>3. view.grid \in Grid /\ CaredFor(y)
    BY <2>2, GridUid DEF Owing, Ledger, NothingIsForgotten
  <2>4. ~Due(view.grid.uid, x)
    <3>1. SUFFICES ASSUME NEW e \in events[x], Noticed(view.grid.uid, e[1], e[2]) PROVE FALSE
      BY DEF Due
    <3>2. e[1] \in Object \cup {None} /\ e[2] \in Object \cup {None}
      BY <1>2
    <3>3. Handled(e[1], e[2])
      BY <2>3, <3>1, <3>2, NoticedIsHandled
    <3> QED BY <2>2, <3>3 DEF ObjectEvents, Enqueue
  <2>5. Due(view.grid.uid, y) => Due(view.grid.uid, y)'
    BY <1>3, <1>5, <2>4 DEF Due
  <2>6. Adopted(y) /\ Updated(y) /\ Reported(y) => (Adopted(y) /\ Updated(y) /\ Reported(y))'
    BY <1>1, <1>3, <1>4, <1>6 DEF Adopted, Updated, Wrong, Reported, Listed
  <2> QED BY <1>3, <2>3, <2>5, <2>6 DEF CaredFor
<1> QED BY <1>7, <1>8, <1>9 DEF Ledger

LEMMA NodeListerKeepsLedger ==
    ASSUME IInv, Ledger, ListNodes \/ \E n \in Node : NodeEvent(n)
    PROVE  Ledger'
<1>1. /\ UNCHANGED <<server, copy, events, queue, sync, budget>> /\ synced' \in {synced, synced \cup {"nodes"}}
      /\ "nodes" \in synced => synced' = synced
      /\ \E f : view' = [view EXCEPT !.nodes = f]
  BY DEF ListNodes, NodeEvent
<1>2. view'.grid = view.grid /\ view'.objs = view.objs
  BY <1>1 DEF IInv, ViewOK, Views
<1>3. UNCHANGED <<kind, served, grid, status, objs, queued, retries, gaveUp, shed>>
  BY <1>1 DEF server, queue, budget
<1>4. EventsOK'
  BY <1>1, <1>2, <1>3 DEF Ledger, EventsOK, EventsOf, Due
<1>5. GridSeen' /\ ClaimsOK' /\ CountersOK'
  BY <1>1, <1>2, <1>3 DEF Ledger, GridSeen, ClaimsOK, CountersOK, Lister
<1>6. NothingIsForgotten'
  BY <1>1, <1>2, <1>3 DEF Ledger, NothingIsForgotten, Owing, CaredFor, Due, Adopted, Updated, Wrong, Reported, Listed
<1> QED BY <1>4, <1>5, <1>6 DEF Ledger

LEMMA ResyncKeepsLedger == ASSUME IInv, Ledger, Resync PROVE Ledger'
<1>1. /\ UNCHANGED <<server, view, synced, copy, events, sync, budget, retries, gaveUp>> /\ queued' = TRUE
  BY DEF Resync, Enqueue, informers, Ledger, CountersOK
<1>2. EventsOK'
  BY <1>1 DEF Ledger, EventsOK, EventsOf, Due, server, budget
<1>3. GridSeen' /\ ClaimsOK' /\ CountersOK'
  BY <1>1 DEF Ledger, GridSeen, ClaimsOK, CountersOK, server
<1> QED BY <1>1, <1>2, <1>3 DEF Ledger, NothingIsForgotten, Owing
-----------------------------------------------------------------------------
(* The worker.                                                             *)

\* A step in the middle of a sync.
LEMMA SyncGoesOn ==
    ASSUME IInv, Ledger, EventsOK', Traced, UNCHANGED <<kind, served, grid, view, synced, queue>>,
           sync.pc # "idle", sync'.pc = sync.pc, sync'.grid = sync.grid,
           copy'.lister["grid"] = copy.lister["grid"], copy'.sync["grid"] = copy.sync["grid"],
           sync'.adopt \subseteq sync.adopt, sync'.todo \subseteq sync.todo,
           sync.failed => sync'.failed, sync.pc = "status" => ~sync'.failed,
           sync'.claimed = sync.claimed \/ (sync.pc = "claim" /\ sync'.claimed \subseteq Name),
           \A x \in sync'.claimed \ sync.claimed : copy'.sync[x] = "current" => Matches(objs'[x]),
           Owing /\ ~sync'.failed => \A x \in Name : CaredFor(x)'
    PROVE  Ledger'
<1>1. UNCHANGED <<queued, retries, gaveUp>>
  BY DEF queue
<1>2. sync.claimed \subseteq Name /\ sync.adopt \subseteq Name /\ sync.todo \subseteq Call
  BY DEF IInv, SyncOK, Syncs
<1>3. GridSeen' /\ CountersOK'
  BY <1>1 DEF Ledger, GridSeen, CountersOK
<1>4. ASSUME NEW x \in Name, copy'.sync[x] = "current" PROVE copy.sync[x] = "current" /\ objs'[x] = objs[x]
  BY <1>4 DEF Traced
<1>5. ClaimsOK'
  <2>1. sync.pc = "claim" => sync'.todo = {}
    BY DEF Ledger, ClaimsOK
  <2> QED BY <1>2, <1>4, <2>1 DEF Ledger, ClaimsOK
<1>6. NothingIsForgotten'
  <2>1. Owing' => Owing /\ ~sync'.failed
    BY <1>1 DEF Owing
  <2> QED BY <2>1 DEF NothingIsForgotten
<1> QED BY <1>3, <1>5, <1>6 DEF Ledger

\* What Adopt and Release do to the object.
LEMMA PatchIsTraced ==
    ASSUME IInv, Ledger, NEW x \in Name, NEW v \in Uid \cup {NoUid}, NEW f, PatchObject(x, v, f),
           UNCHANGED <<view, synced, shed>>, sync.pc # "idle"
    PROVE  /\ EventsOK' /\ Traced
           /\ copy'.lister["grid"] = copy.lister["grid"] /\ copy'.sync["grid"] = copy.sync["grid"]
           /\ objs' \in Objects
           /\ objs'[x] = objs[x] \/ (objs[x] \in Object /\ objs'[x] = [objs[x] EXCEPT !.owner = v])
<1>0. objs \in Objects /\ EventsOK /\ EventsOf(x) /\ shed' = shed /\ shed \subseteq Name /\ copy \in Copies
  BY DEF IInv, ServerOK, Ledger, EventsOK
<1>1. CASE UNCHANGED <<objs, copy, events>>
  BY <1>0, <1>1, EventsStay, NothingIsTraced
<1>2. CASE ~UNCHANGED <<objs, copy, events>>
  <2> DEFINE o == [objs[x] EXCEPT !.owner = v]
  <2>1. Store(x, o) /\ objs[x] # None
    BY <1>2 DEF PatchObject
  <2>2. objs[x] \in Object
    BY <1>0, <2>1 DEF Objects
  <2>3. o \in Object /\ o.labelled = objs[x].labelled
    BY <2>2, OwnerSet DEF Object
  <2>4. Legit(x, o)
    BY <1>0, <2>1, <2>3 DEF Legit, Matches, EventsOf
  <2> HIDE DEF o
  <2>5. objs' \in Objects /\ objs'[x] = o
    BY <1>0, <2>1, <2>3, StoreOK
  <2>6. /\ EventsOK' /\ Traced /\ copy'.lister["grid"] = copy.lister["grid"]
        /\ copy'.sync["grid"] = copy.sync["grid"]
    BY <1>0, <2>1, <2>3, <2>4, StoreIsTraced
  <2> QED BY <2>2, <2>5, <2>6 DEF o
<1> QED BY <1>1, <1>2

LEMMA CanAdoptKeepsLedger == ASSUME IInv, Ledger, NEW f, CanAdopt(f) PROVE Ledger'
<1>1. UNCHANGED <<server, informers, queue, shed>> /\ sync \in Syncs /\ sync.pc = "claim"
  BY DEF CanAdopt, Answered, IInv, SyncOK
<1>2. UNCHANGED <<kind, served, grid, status, objs, view, synced, copy, events>>
  BY <1>1 DEF server, informers
<1>3. EventsOK' /\ Traced
  BY <1>1, <1>2, EventsStay, NothingIsTraced DEF Ledger, EventsOK
<1>4. \/ sync' = [sync EXCEPT !.recheck = "yes"]
      \/ sync' = [sync EXCEPT !.recheck = "no", !.adopt = {}, !.failed = TRUE]
  BY DEF CanAdopt
<1>5. /\ sync'.pc = sync.pc /\ sync'.grid = sync.grid /\ sync'.claimed = sync.claimed
      /\ sync'.todo = sync.todo /\ sync'.adopt \subseteq sync.adopt /\ (sync.failed => sync'.failed)
      /\ sync'.failed \/ sync'.adopt = sync.adopt
  BY <1>1, <1>4 DEF Syncs
<1>6. ASSUME Owing, ~sync'.failed, NEW x \in Name PROVE CaredFor(x)'
  <2>1. Unmoved(x)
    BY <1>5, <1>6 DEF Unmoved
  <2> QED BY <1>1, <1>2, <1>3, <1>6, <2>1, CareGoesOn
<1> QED BY <1>1, <1>2, <1>3, <1>5, <1>6, SyncGoesOn

LEMMA ReleaseKeepsLedger == ASSUME IInv, Ledger, NEW y \in Name, NEW f, Release(y, f) PROVE Ledger'
<1>1. /\ UNCHANGED <<kind, served, grid, status, view, synced, queue, shed>> /\ sync \in Syncs
      /\ sync.pc = "claim" /\ PatchObject(y, NoUid, f)
  BY DEF Release, Answered, IInv, SyncOK
<1>2. /\ EventsOK' /\ Traced
      /\ copy'.lister["grid"] = copy.lister["grid"] /\ copy'.sync["grid"] = copy.sync["grid"]
  BY <1>1, PatchIsTraced
<1>3. PICK b : sync' = [sync EXCEPT !.release = @ \ {y}, !.failed = b] /\ (sync.failed => b)
  BY DEF Release
<1>4. /\ sync'.pc = sync.pc /\ sync'.grid = sync.grid /\ sync'.claimed = sync.claimed
      /\ sync'.todo = sync.todo /\ sync'.adopt = sync.adopt /\ (sync.failed => sync'.failed)
  BY <1>1, <1>3 DEF Syncs
<1>5. ASSUME Owing, ~sync'.failed, NEW x \in Name PROVE CaredFor(x)'
  <2>1. Unmoved(x)
    BY <1>4 DEF Unmoved
  <2> QED BY <1>1, <1>2, <1>5, <2>1, CareGoesOn
<1> QED BY <1>1, <1>2, <1>4, <1>5, SyncGoesOn

LEMMA AdoptKeepsLedger == ASSUME IInv, Ledger, NEW y \in Name, NEW f, Adopt(y, f) PROVE Ledger'
<1>1. /\ UNCHANGED <<kind, served, grid, status, view, synced, queue, shed>> /\ sync \in Syncs
      /\ sync.pc = "claim" /\ PatchObject(y, sync.grid.uid, f) /\ y \in sync.adopt /\ sync.grid \in Grid
  <2>1. sync.pc = "claim"
    BY DEF Adopt, Ledger, ClaimsOK
  <2> QED BY <2>1 DEF Adopt, Answered, IInv, SyncOK
<1>2. sync.grid.uid \in Uid \cup {NoUid} /\ sync.grid.uid \in Uid
  BY <1>1 DEF Grid
<1>3. /\ EventsOK' /\ Traced /\ objs' \in Objects
      /\ copy'.lister["grid"] = copy.lister["grid"] /\ copy'.sync["grid"] = copy.sync["grid"]
      /\ objs'[y] = objs[y] \/ (objs[y] \in Object /\ objs'[y] = [objs[y] EXCEPT !.owner = sync.grid.uid])
  BY <1>1, <1>2, PatchIsTraced
<1>4. \/ sync' = [sync EXCEPT !.adopt = @ \ {y}] /\ objs[y] = None
      \/ /\ sync' = [[sync EXCEPT !.adopt = @ \ {y}] EXCEPT !.claimed = @ \cup {y}]
         /\ Patched(y, f) /\ objs[y] # None /\ objs[y].owner \in {NoUid, sync.grid.uid}
      \/ sync' = [[sync EXCEPT !.adopt = @ \ {y}] EXCEPT !.failed = TRUE]
  <2> DEFINE gone == f = "none" /\ objs[y] = None
             good == Patched(y, f) /\ objs[y].owner \in {NoUid, sync.grid.uid}
  <2>1. ~(gone /\ good)
    BY DEF Patched
  <2>2. CASE gone
    BY <2>1, <2>2 DEF Adopt
  <2>3. CASE good
    BY <2>1, <2>3 DEF Adopt, Patched
  <2>4. CASE ~gone /\ ~good
    BY <2>4 DEF Adopt
  <2> QED BY <2>2, <2>3, <2>4
<1>5. /\ sync'.pc = sync.pc /\ sync'.grid = sync.grid /\ sync'.todo = sync.todo
      /\ sync'.adopt = sync.adopt \ {y} /\ (sync.failed => sync'.failed)
      /\ sync'.claimed = sync.claimed \/ sync'.claimed = sync.claimed \cup {y}
      /\ sync.claimed \subseteq Name
  BY <1>1, <1>4 DEF Syncs
<1>6. CASE sync'.failed
  <2>1. ASSUME y \in sync'.claimed \ sync.claimed PROVE copy'.sync[y] = "current" => Matches(objs'[y])
    <3>1. copy'.sync[y] = "current" => copy.sync[y] = "current" /\ objs'[y] = objs[y]
      BY <1>1, <1>3 DEF Traced
    <3> QED BY <1>1, <3>1 DEF Ledger, ClaimsOK, Orphan
  <2> QED BY <1>1, <1>3, <1>5, <1>6, <2>1, SyncGoesOn
<1>7. CASE ~sync'.failed
  <2>1. ASSUME y \in sync'.claimed \ sync.claimed PROVE copy'.sync[y] = "current" => Matches(objs'[y])
    <3>1. copy'.sync[y] = "current" => copy.sync[y] = "current" /\ objs'[y] = objs[y]
      BY <1>1, <1>3 DEF Traced
    <3> QED BY <1>1, <3>1 DEF Ledger, ClaimsOK, Orphan
  <2>2. ASSUME Owing, NEW x \in Name, x # y PROVE CaredFor(x)'
    <3>1. Unmoved(x)
      BY <1>5, <2>2 DEF Unmoved
    <3> QED BY <1>1, <1>3, <2>2, <3>1, CareGoesOn
  <2>3. ASSUME Owing PROVE CaredFor(y)'
    <3>0. PICK u \in Uid : u = sync.grid.uid
      BY <1>2
    <3>1. view.grid = sync.grid /\ CaredFor(y) /\ view'.grid = view.grid
      BY <1>1, <2>3 DEF Owing, Ledger, GridSeen, NothingIsForgotten
    <3>2. CASE sync' = [sync EXCEPT !.adopt = @ \ {y}] /\ objs[y] = None
      <4>1. objs'[y] = objs[y] /\ ~Orphan(objs'[y])
        BY <1>1, <3>2 DEF PatchObject, Orphan, Matches
      <4>2. sync'.claimed = sync.claimed
        BY <1>1, <3>2 DEF Syncs
      <4>3. Unmoved(y)
        BY <1>5, <4>1, <4>2 DEF Unmoved
      <4> QED BY <1>1, <1>3, <2>3, <4>3, CareGoesOn
    <3>3. CASE /\ sync' = [[sync EXCEPT !.adopt = @ \ {y}] EXCEPT !.claimed = @ \cup {y}]
               /\ Patched(y, f) /\ objs[y] # None /\ objs[y].owner \in {NoUid, sync.grid.uid}
      <4>1. y \in sync'.claimed
        BY <1>1, <3>3 DEF Syncs
      <4>2. objs[y] \in Object
        BY <3>3 DEF IInv, ServerOK, Objects
      <4>3. objs'[y] \in Object /\ objs'[y].owner = u
        <5>1. f # "refused" /\ copy.sync[y] # "replaced"
          BY <3>3 DEF Patched
        <5>2. Store(y, [objs[y] EXCEPT !.owner = u])
          BY <1>1, <3>0, <3>3, <5>1 DEF PatchObject
        <5>3. [objs[y] EXCEPT !.owner = u] \in Object /\ [objs[y] EXCEPT !.owner = u].owner = u
          BY <3>0, <4>2 DEF Object
        <5> QED BY <5>2, <5>3, StoreOK DEF IInv, ServerOK
      <4>4. u # NoUid /\ objs'[y] # None
        BY <3>0, <4>3 DEF Uid, NoUid
      <4>5. CASE Due(u, y)'
        BY <3>0, <3>1, <4>5 DEF CaredFor
      <4>6. CASE ~Due(u, y)'
        <5>1. objs'[y] = objs[y] \/ ~(Matches(objs'[y]) /\ OwnedBy(u, objs'[y]))
          BY <1>3, <4>6 DEF Traced
        <5>2. Adopted(y)'
          BY <4>3, <4>4 DEF Adopted, Orphan
        <5>3. Names(sync'.claimed, y \in shed', u, y, objs'[y])
          <6>1. objs'[y].labelled \/ y \in shed'
            BY <1>3, <4>4 DEF EventsOK, EventsOf
          <6> QED BY <4>1, <4>3, <4>4, <6>1 DEF Names, Matches, OwnedBy
        <5>4. Reported(y)'
          BY <1>1, <1>5, <3>0, <3>1, <5>3 DEF Reported
        <5>5. Updated(y)'
          <6>1. SUFFICES ASSUME Wrong(view.grid, objs'[y])
                         PROVE  copy'.sync[y] = "current" /\ sync'.pc = "claim" /\ y \in sync'.claimed
            BY <1>1, <3>1 DEF Updated, Wrong
          <6>2. objs'[y] = objs[y]
            BY <3>0, <3>1, <5>1, <6>1 DEF Wrong
          <6>3. ~Due(u, y)
            BY <1>3, <4>6 DEF Traced
          <6>4. copy.sync[y] = "current"
            BY <3>0, <3>1, <6>1, <6>2, <6>3 DEF CaredFor, Updated
          <6> QED BY <1>1, <1>3, <1>5, <4>1, <6>2, <6>4 DEF Traced
        <5> QED BY <5>2, <5>4, <5>5 DEF CaredFor
      <4> QED BY <4>5, <4>6
    <3>4. CASE sync' = [[sync EXCEPT !.adopt = @ \ {y}] EXCEPT !.failed = TRUE]
      BY <1>1, <1>7, <3>4 DEF Syncs
    <3> QED BY <1>4, <3>2, <3>3, <3>4
  <2> QED BY <1>1, <1>3, <1>5, <2>1, <2>2, <2>3, SyncGoesOn
<1> QED BY <1>6, <1>7

\* What a call does to its object.
LEMMA CallIsTraced ==
    ASSUME IInv, Ledger, NEW c \in sync.todo, NEW f, SyncObject(c, f)
    PROVE  /\ EventsOK' /\ Traced /\ c.name \in Name
           /\ copy'.lister["grid"] = copy.lister["grid"] /\ copy'.sync["grid"] = copy.sync["grid"]
           /\ \/ f # "refused" /\ Answer(c) = "ok" /\ objs'[c.name] = Result(c)
              \/ (f = "refused" \/ Answer(c) # "ok") /\ objs' = objs
<1>1. /\ sync.pc = "write" /\ sync \in Syncs /\ sync.grid \in Grid /\ c \in Call
      /\ UNCHANGED <<view, synced, shed>>
  BY DEF SyncObject, Answered, IInv, SyncOK, Syncs
<1>2. /\ objs \in Objects /\ EventsOK /\ shed \subseteq Name /\ copy \in Copies
      /\ c.name \in Name /\ c.op \in {"create", "update", "delete"}
  BY <1>1 DEF IInv, ServerOK, Ledger, EventsOK, Call
<1>3. CASE ~(f # "refused" /\ Answer(c) = "ok")
  <2>1. UNCHANGED <<objs, copy, events>>
    BY <1>3 DEF SyncObject
  <2> QED BY <1>1, <1>2, <1>3, <2>1, EventsStay, NothingIsTraced
<1>4. CASE f # "refused" /\ Answer(c) = "ok"
  <2>1. Store(c.name, Result(c))
    BY <1>4 DEF SyncObject
  <2>2. Result(c) \in Object \cup {None} /\ Legit(c.name, Result(c))
    <3>1. CASE c.op = "create"
      <4>1. objs[c.name] = None
        BY <1>4, <3>1 DEF Answer
      <4>2. Result(c) = Created /\ Created \in Object
        BY <1>1, <3>1, CreatedOK DEF Result
      <4> QED BY <4>1, <4>2 DEF Legit, Created
    <3>2. CASE c.op = "update"
      <4>1. objs[c.name] # None /\ copy.sync[c.name] = "current"
        BY <1>4, <3>2 DEF Answer
      <4>2. objs[c.name] \in Object
        BY <1>2, <4>1 DEF Objects
      <4>3. Result(c) = KeepConsistence(objs[c.name]) /\ Result(c) \in Object
        BY <1>1, <3>2, <4>2, KeptConsistent DEF Result
      <4>4. Result(c).labelled
        BY <4>2, <4>3 DEF KeepConsistence, Object
      <4>5. Matches(objs[c.name])
        BY <1>1, <3>2, <4>1 DEF Ledger, ClaimsOK
      <4> QED BY <4>3, <4>4, <4>5 DEF Legit
    <3>3. CASE c.op = "delete"
      BY <3>3, LegitNone DEF Result
    <3> QED BY <1>2, <3>1, <3>2, <3>3
  <2>3. objs'[c.name] = Result(c)
    BY <1>2, <2>1, <2>2, StoreOK
  <2> QED BY <1>1, <1>2, <1>4, <2>1, <2>2, <2>3, StoreIsTraced
<1> QED BY <1>3, <1>4

LEMMA SyncObjectKeepsLedger ==
    ASSUME IInv, Ledger, NEW c \in sync.todo, NEW f, SyncObject(c, f)
    PROVE  Ledger'
<1>1. /\ UNCHANGED <<kind, served, grid, status, view, synced, queue, shed>> /\ sync \in Syncs
      /\ sync.pc = "write" /\ sync.grid \in Grid /\ c \in Call /\ c.op \in {"create", "update", "delete"}
  BY DEF SyncObject, Answered, IInv, SyncOK, Syncs, Call
<1>2. /\ EventsOK' /\ Traced /\ c.name \in Name
      /\ copy'.lister["grid"] = copy.lister["grid"] /\ copy'.sync["grid"] = copy.sync["grid"]
      /\ \/ f # "refused" /\ Answer(c) = "ok" /\ objs'[c.name] = Result(c)
         \/ (f = "refused" \/ Answer(c) # "ok") /\ objs' = objs
  BY CallIsTraced
<1>3. /\ sync'.pc = sync.pc /\ sync'.grid = sync.grid /\ sync'.claimed = sync.claimed
      /\ sync'.adopt = sync.adopt /\ sync'.todo = sync.todo \ {c} /\ (sync.failed => sync'.failed)
      /\ ~sync'.failed => f = "none" /\ ~IsError(Answer(c))
  <2>1. sync' = [sync EXCEPT !.todo = @ \ {c}, !.failed = @ \/ f # "none" \/ IsError(Answer(c))]
    BY DEF SyncObject
  <2> QED BY <1>1, <2>1 DEF Syncs
<1>4. ASSUME Owing, ~sync'.failed, NEW x \in Name, x # c.name PROVE CaredFor(x)'
  <2>1. Unmoved(x)
    BY <1>3, <1>4 DEF Unmoved
  <2> QED BY <1>1, <1>2, <1>4, <2>1, CareGoesOn
<1>5. ASSUME Owing, ~sync'.failed PROVE CaredFor(c.name)'
  <2>0. PICK x \in Name : x = c.name
    BY <1>2
  <2>1. PICK u \in Uid : u = sync.grid.uid
    BY <1>1 DEF Grid
  <2>2. /\ view.grid = sync.grid /\ CaredFor(x) /\ view'.grid = view.grid
    BY <1>1, <1>5 DEF Owing, Ledger, GridSeen, NothingIsForgotten
  <2>3. SUFFICES ASSUME ~Due(u, x)' PROVE Adopted(x)' /\ Updated(x)' /\ Reported(x)'
    BY <2>0, <2>1, <2>2 DEF CaredFor
  <2>4. /\ Alike(x \in shed', u, objs[x], objs'[x])
        /\ objs'[x] = objs[x] \/ ~(Matches(objs'[x]) /\ OwnedBy(u, objs'[x]))
        /\ sync.pc # "idle" /\ copy'.sync[x] = "current" => copy.sync[x] = "current"
        /\ objs'[x] = objs[x] => copy'.sync[x] = copy.sync[x]
    BY <1>1, <1>2, <2>3 DEF Traced
  <2>5. Adopted(x) /\ Updated(x) /\ Reported(x)
    BY <1>2, <2>1, <2>2, <2>3 DEF CaredFor, Traced
  <2>6. Adopted(x)'
    BY <1>3, <2>4, <2>5 DEF Adopted, Alike
  <2>7. ~IsError(Answer(c)) /\ f # "refused"
    BY <1>3, <1>5
  <2>8. c.op # "create"
    <3>1. SUFFICES ASSUME c.op = "create" PROVE FALSE
      OBVIOUS
    <3>2. Answer(c) = "ok" /\ objs[x] = None
      BY <2>0, <2>7, <3>1 DEF Answer, IsError
    <3>3. objs'[x] = Created
      BY <1>2, <2>0, <2>7, <3>1, <3>2 DEF Result
    <3>4. Created \in Object /\ Created.labelled /\ Created.owner = NoUid
      BY <1>1, CreatedOK DEF Created
    <3> QED BY <2>4, <3>2, <3>3, <3>4 DEF Alike, Orphan, Matches
  <2>9. Updated(x)'
    <3>1. SUFFICES ASSUME Wrong(view.grid, objs'[x]) PROVE FALSE
      BY <1>1, <2>2 DEF Updated, Wrong
    <3>2. objs'[x] = objs[x] /\ objs'[x] # None
      BY <2>1, <2>2, <2>4, <3>1 DEF Wrong, OwnedBy
    <3>3. copy.sync[x] = "current"
      BY <2>5, <3>1, <3>2 DEF Updated
    <3>4. Answer(c) = "ok"
      BY <1>1, <2>0, <2>7, <2>8, <3>2, <3>3 DEF Answer, IsError
    <3>5. CASE c.op = "update"
      <4>1. objs'[x] = KeepConsistence(objs[x]) /\ objs[x] \in Object
        BY <1>2, <2>0, <2>7, <3>2, <3>4, <3>5 DEF Result, IInv, ServerOK, Objects
      <4>2. /\ objs'[x].spec.carried = sync.grid.spec.carried
            /\ kind # "service" => objs'[x].spec.selector = sync.grid.spec.selector
        BY <1>1, <4>1, KeptConsistent
      <4> QED BY <2>2, <3>1, <4>2 DEF Wrong
    <3>6. CASE c.op = "delete"
      BY <1>2, <2>0, <2>7, <3>2, <3>4, <3>6 DEF Result
    <3> QED BY <1>1, <2>8, <3>5, <3>6
  <2>10. Reported(x)'
    <3>1. SUFFICES Listed(x, {"delete"})' \/ Names(sync.claimed, x \in shed', u, x, objs'[x])
      BY <1>1, <1>3, <2>1, <2>2 DEF Reported
    <3>2. CASE c.op = "delete"
      <4>1. Answer(c) = "ok"
        BY <2>7, <3>2 DEF Answer, IsError
      <4>2. objs'[x] = None /\ x \notin sync.claimed
        BY <1>2, <2>0, <2>7, <3>2, <4>1 DEF Result, Ledger, ClaimsOK
      <4> QED BY <4>2 DEF Names, Matches
    <3>3. CASE c.op # "delete"
      <4>1. Listed(x, {"delete"}) => Listed(x, {"delete"})'
        BY <1>3, <3>3 DEF Listed
      <4>2. Listed(x, {"delete"}) \/ Names(sync.claimed, x \in shed, u, x, objs[x])
        BY <1>1, <2>1, <2>2, <2>5 DEF Reported
      <4> QED BY <1>1, <2>4, <4>1, <4>2, NamesGoOn
    <3> QED BY <3>2, <3>3
  <2> QED BY <2>6, <2>9, <2>10
<1>6. Owing /\ ~sync'.failed => \A x \in Name : CaredFor(x)'
  BY <1>4, <1>5
<1> QED BY <1>1, <1>2, <1>3, <1>6, SyncGoesOn

\* The end of a sync.
LEMMA EndKeepsLedger ==
    ASSUME IInv, Ledger, NEW err \in BOOLEAN, NEW l \in [Thing -> {"current", "stale", "replaced"}],
           HandleErr(err, l), sync.pc # "idle",
           UNCHANGED <<kind, served, grid, objs, view, synced, events, shed>>,
           \A x \in Name : l[x] = copy.lister[x],
           l["grid"] = "current" => copy.lister["grid"] = "current",
           Owing' => Owing /\ sync.adopt = {} /\ sync.todo = {} /\ sync.pc # "claim",
           Owing' => \A x \in Name : Due(view.grid.uid, x) \/ Reported(x)'
    PROVE  Ledger'
<1>1. /\ sync' = Idle /\ Idle.pc = "idle" /\ Idle.todo = {} /\ Idle.adopt = {} /\ Idle.claimed = {}
      /\ copy' = [lister |-> l, sync |-> AllCurrent]
  BY DEF HandleErr, Idle
<1>2. copy' \in Copies /\ copy'.lister = l
  <2>1. /\ AllCurrent \in [Thing -> {"current", "stale", "replaced"}]
        /\ copy' = [w \in {"lister", "sync"} |-> IF w = "lister" THEN l ELSE AllCurrent]
    BY <1>1 DEF AllCurrent
  <2>2. copy'.lister = l
    BY <1>1
  <2> QED BY <2>1, <2>2 DEF Copies
<1>3. EventsOK'
  BY <1>2, EventsStay DEF Ledger
<1>4. queued \in BOOLEAN /\ retries \in 0 .. MaxRetries /\ (queued => queued')
  BY DEF HandleErr, Ledger, CountersOK
<1>5. CountersOK'
  BY <1>4 DEF HandleErr, Ledger, CountersOK
<1>6. GridSeen'
  BY <1>1, <1>2 DEF Ledger, GridSeen
<1>7. ClaimsOK'
  BY <1>1 DEF ClaimsOK
<1>8. NothingIsForgotten'
  <2>1. SUFFICES ASSUME Owing', NEW x \in Name, ~Due(view.grid.uid, x)' PROVE (Adopted(x) /\ Updated(x))' /\ Reported(x)'
    BY DEF NothingIsForgotten, CaredFor
  <2>2. ~Due(view.grid.uid, x)
    BY <2>1 DEF Due
  <2>3. CaredFor(x)
    BY <2>1 DEF Ledger, NothingIsForgotten
  <2>4. Adopted(x) /\ Updated(x)
    BY <2>2, <2>3 DEF CaredFor
  <2>5. ~Orphan(objs[x]) /\ ~Wrong(view.grid, objs[x])
    BY <2>1, <2>4 DEF Adopted, Updated, Listed
  <2>6. Adopted(x)' /\ Updated(x)'
    BY <2>5 DEF Adopted, Updated, Wrong
  <2> QED BY <2>1, <2>2, <2>6
<1> QED BY <1>3, <1>5, <1>6, <1>7, <1>8 DEF Ledger

\* A sync that failed is begun again, or given up.
LEMMA FailureIsKnown ==
    ASSUME Ledger, NEW l, HandleErr(TRUE, l), served \/ sync.pc # "status", view' = view
    PROVE  ~Owing' /\ sync'.pc = "idle"
<1>1. sync'.pc = "idle" /\ retries \in 0 .. MaxRetries
  BY DEF HandleErr, Idle, Ledger, CountersOK
<1>2. CASE retries < MaxRetries
  BY <1>1, <1>2 DEF HandleErr, Owing
<1>3. CASE retries = MaxRetries
  <2>1. gaveUp' = (TRUE /\ retries = MaxRetries /\ (served \/ sync.pc # "status"))
    BY DEF HandleErr
  <2>2. gaveUp'
    BY <1>3, <2>1, Zenon
  <2> QED BY <1>1, <2>2 DEF Owing
<1> QED BY <1>1, <1>2, <1>3

LEMMA ListerCopies == ASSUME Ledger PROVE copy.lister \in [Thing -> {"current", "stale", "replaced"}]
  BY DEF Ledger, EventsOK, Copies

\* The claims, once they are complete, become calls.
LEMMA SyncGridKeepsLedger ==
    ASSUME IInv, Ledger, NEW wanted \in SUBSET Call, SyncGrid(wanted),
           \A c \in wanted : c.op = IF c.name \in sync.claimed THEN "update" ELSE "create"
    PROVE  Ledger'
<1>1. /\ UNCHANGED <<kind, served, grid, status, objs, view, synced, events, shed>>
      /\ sync \in Syncs /\ sync.pc = "claim" /\ sync.adopt = {} /\ sync.grid \in Grid
      /\ sync.claimed \subseteq Name /\ sync.todo = {}
  BY DEF SyncGrid, server, budget, IInv, SyncOK, Syncs, Ledger, ClaimsOK
<1>2. CASE sync.failed
  <2>1. HandleErr(TRUE, copy.lister)
    BY <1>2 DEF SyncGrid
  <2>2. ~Owing'
    BY <1>1, <2>1, FailureIsKnown
  <2> QED BY <1>1, <2>1, <2>2, ListerCopies, EndKeepsLedger
<1>3. CASE ~sync.failed /\ sync.grid.deleting /\ kind = "service"
  <2>1. HandleErr(FALSE, copy.lister)
    BY <1>3 DEF SyncGrid
  <2>2. ~Owing'
    <3>1. queued => queued'
      BY <2>1 DEF HandleErr
    <3> QED BY <1>1, <1>3, <3>1 DEF Owing, Ledger, GridSeen
  <2> QED BY <1>1, <2>1, <2>2, ListerCopies, EndKeepsLedger
<1>4. CASE ~sync.failed /\ ~(sync.grid.deleting /\ kind = "service")
  <2> DEFINE names == {c.name : c \in wanted}
             p == IF sync.grid.deleting THEN "status" ELSE "write"
             t == IF sync.grid.deleting THEN {} ELSE Reconcile(wanted)
  <2>1. /\ sync' = [sync EXCEPT !.pc = p, !.todo = t, !.claimed = @ \cap names, !.recheck = "not yet"]
        /\ UNCHANGED <<queue, copy>>
    BY <1>4 DEF SyncGrid
  <2>2. UNCHANGED <<queued, retries, gaveUp>>
    BY <2>1 DEF queue
  <2>3. t \subseteq Call
    BY <1>1, ReconcileOK DEF IInv, SyncOK, Reconcile, Call
  <2>4. /\ sync'.pc = p /\ sync'.todo = t /\ sync'.claimed = sync.claimed \cap names /\ sync'.adopt = {}
        /\ sync'.grid = sync.grid /\ sync'.failed = sync.failed
    BY <1>1, <2>1 DEF Syncs
  <2>5. \A c \in t : \/ c \in wanted /\ c.op = IF c.name \in sync.claimed THEN "update" ELSE "create"
                     \/ c.op = "delete" /\ c.name \in sync.claimed \ names
    BY DEF Reconcile
  <2>6. EventsOK'
    BY <1>1, <2>1, EventsStay DEF Ledger, EventsOK
  <2>7. GridSeen' /\ CountersOK'
    BY <1>1, <2>1, <2>2, <2>4 DEF Ledger, GridSeen, CountersOK
  <2>8. ClaimsOK'
    <3>1. \A c \in t : /\ c.op = "update" => c.name \in sync.claimed \cap names
                       /\ c.op = "delete" => c.name \notin sync.claimed \cap names
      BY <2>5
    <3> QED BY <1>1, <1>4, <2>1, <2>4, <3>1 DEF Ledger, ClaimsOK
  <2>9. NothingIsForgotten'
    <3>1. SUFFICES ASSUME Owing', NEW x \in Name, ~Due(view.grid.uid, x)'
                   PROVE  Adopted(x)' /\ Updated(x)' /\ Reported(x)'
      BY DEF NothingIsForgotten, CaredFor
    <3>2. Owing /\ ~Due(view.grid.uid, x) /\ view.grid = sync.grid
      BY <1>1, <1>4, <2>2, <3>1 DEF Owing, Due, Ledger, GridSeen
    <3>3. Adopted(x) /\ Updated(x) /\ Reported(x)
      BY <3>2 DEF Ledger, NothingIsForgotten, CaredFor
    <3>4. ~sync.grid.deleting
      BY <3>2 DEF Owing
    <3>5. ASSUME x \in sync.claimed PROVE Listed(x, {"update", "delete"})' /\ (x \notin names => Listed(x, {"delete"})')
      <4>1. CASE x \in names
        <5>1. PICK c \in wanted : c.name = x
          BY <4>1
        <5>2. c \in t /\ c.op = "update"
          BY <3>4, <3>5, <5>1 DEF Reconcile
        <5> QED BY <2>4, <4>1, <5>1, <5>2 DEF Listed
      <4>2. CASE x \notin names
        <5> DEFINE d == [op |-> "delete", name |-> x, node |-> None]
        <5>1. d \in t
          BY <3>4, <3>5, <4>2 DEF Reconcile
        <5>2. d.name = x /\ d.op = "delete"
          OBVIOUS
        <5> HIDE DEF d
        <5> QED BY <2>4, <5>1, <5>2 DEF Listed
      <4> QED BY <4>1, <4>2
    <3>6. Adopted(x)'
      BY <1>1, <2>4, <3>3 DEF Adopted
    <3>7. Updated(x)'
      BY <1>1, <2>1, <3>3, <3>5 DEF Updated, Wrong, Listed
    <3>8. Reported(x)'
      <4>1. Names(sync.claimed, x \in shed, view.grid.uid, x, objs[x])
        BY <1>1, <3>3 DEF Reported, Listed
      <4>2. CASE x \in sync.claimed \ names
        BY <1>1, <2>4, <3>5, <4>2 DEF Reported
      <4>3. CASE x \notin sync.claimed \ names
        <5>1. Names(sync'.claimed, x \in shed, view.grid.uid, x, objs[x])
          BY <2>4, <4>1, <4>3 DEF Names
        <5> QED BY <1>1, <2>4, <5>1 DEF Reported
      <4> QED BY <4>2, <4>3
    <3> QED BY <3>6, <3>7, <3>8
  <2> QED BY <2>6, <2>7, <2>8, <2>9 DEF Ledger
<1> QED BY <1>2, <1>3, <1>4

LEMMA SyncGridsKeepLedger == ASSUME IInv, Ledger, SyncDeploymentGrid \/ SyncServiceGrid PROVE Ledger'
<1>1. DeploymentsWanted \in SUBSET Call /\ ServiceWanted \in SUBSET Call
  BY WantedOK DEF IInv
<1>2. \A c \in DeploymentsWanted : c.op = IF c.name \in sync.claimed THEN "update" ELSE "create"
  BY DEF DeploymentsWanted
<1>3. \A c \in ServiceWanted : c.op = IF c.name \in sync.claimed THEN "update" ELSE "create"
  BY DEF ServiceWanted
<1> QED BY <1>1, <1>2, <1>3, SyncGridKeepsLedger DEF SyncDeploymentGrid, SyncServiceGrid

LEMMA WrittenKeepsLedger == ASSUME IInv, Ledger, Written PROVE Ledger'
<1>1. /\ UNCHANGED <<kind, served, grid, status, objs, view, synced, events, shed>>
      /\ sync \in Syncs /\ sync.pc = "write" /\ sync.adopt = {} /\ sync.todo = {} /\ sync.failed \in BOOLEAN
  BY DEF Written, server, budget, IInv, SyncOK, Syncs, Ledger, ClaimsOK
<1>2. CASE sync.failed
  <2>1. HandleErr(TRUE, copy.lister)
    BY <1>1, <1>2 DEF Written
  <2>2. ~Owing'
    BY <1>1, <2>1, FailureIsKnown
  <2> QED BY <1>1, <2>1, <2>2, ListerCopies, EndKeepsLedger
<1>3. CASE ~sync.failed /\ kind = "service"
  <2>1. HandleErr(FALSE, copy.lister) /\ ~served
    BY <1>1, <1>3 DEF Written, Ledger, CountersOK
  <2>2. Owing' => Owing
    BY <1>1, <1>3, <2>1 DEF Owing, HandleErr
  <2>3. \A x \in Name : Reported(x)'
    BY <1>1, <2>1 DEF Reported, HandleErr, Idle
  <2> QED BY <1>1, <2>1, <2>2, <2>3, ListerCopies, EndKeepsLedger
<1>4. CASE ~sync.failed /\ kind # "service"
  <2>1. sync' = [sync EXCEPT !.pc = "status"] /\ UNCHANGED <<queue, copy>>
    BY <1>4 DEF Written
  <2>2. UNCHANGED <<queued, retries, gaveUp>>
    BY <2>1 DEF queue
  <2>3. /\ sync'.pc = "status" /\ sync'.todo = {} /\ sync'.claimed = sync.claimed /\ sync'.adopt = {}
        /\ sync'.grid = sync.grid /\ sync'.failed = sync.failed
    BY <1>1, <2>1 DEF Syncs
  <2>4. EventsOK'
    BY <1>1, <2>1, EventsStay DEF Ledger, EventsOK
  <2>5. GridSeen' /\ CountersOK' /\ ClaimsOK'
    BY <1>1, <1>4, <2>1, <2>2, <2>3 DEF Ledger, GridSeen, CountersOK, ClaimsOK
  <2>6. NothingIsForgotten'
    <3>1. SUFFICES ASSUME Owing', NEW x \in Name PROVE CaredFor(x)'
      BY DEF NothingIsForgotten
    <3>2. Owing /\ CaredFor(x)
      BY <1>1, <1>4, <2>2, <3>1 DEF Owing, Ledger, NothingIsForgotten
    <3>3. Due(view.grid.uid, x) => Due(view.grid.uid, x)'
      BY <1>1 DEF Due
    <3>4. Adopted(x) => Adopted(x)'
      BY <1>1, <2>3 DEF Adopted
    <3>5. Updated(x) => Updated(x)'
      BY <1>1, <2>1, <2>3 DEF Updated, Wrong, Listed
    <3>6. Reported(x) => Reported(x)'
      BY <1>1, <2>3 DEF Reported, Listed
    <3> QED BY <1>1, <3>2, <3>3, <3>4, <3>5, <3>6 DEF CaredFor
  <2> QED BY <2>4, <2>5, <2>6 DEF Ledger
<1> QED BY <1>2, <1>3, <1>4

LEMMA SyncStatusKeepsLedger == ASSUME IInv, Ledger, NEW f, SyncStatus(f) PROVE Ledger'
<1> DEFINE found == served /\ grid # None
           fits == found /\ grid.uid = sync.grid.uid /\ copy.sync["grid"] = "current"
           stored == f # "refused" /\ fits /\ status # sync.claimed
           l == IF stored THEN Outdated("grid", "stale").lister ELSE copy.lister
           err == f # "none" \/ ~found
<1>1. /\ UNCHANGED <<kind, served, grid, objs, view, synced, events, shed>>
      /\ sync.pc = "status" /\ sync.adopt = {} /\ sync.todo = {} /\ ~sync.failed
  BY DEF SyncStatus, Answered, Ledger, ClaimsOK
<1>2. HandleErr(err, l) /\ status' = IF stored THEN sync.claimed ELSE status
  BY DEF SyncStatus
<1>3. /\ l \in [Thing -> {"current", "stale", "replaced"}] /\ \A x \in Name : l[x] = copy.lister[x]
      /\ stored => l["grid"] # "current"
      /\ ~stored => l = copy.lister
  <2>1. copy \in Copies /\ "grid" \in Thing /\ \A x \in Name : x \in Thing /\ x # "grid"
    BY DEF Ledger, EventsOK, Thing, Name
  <2>2. CASE stored
    <3>1. l = Outdated("grid", "stale").lister
      BY <2>2
    <3>2. Outdated("grid", "stale") \in Copies
      BY <2>1, OutdatedOK
    <3> HIDE DEF l, stored
    <3> QED BY <2>1, <2>2, <3>1, <3>2, OutdatedOK DEF Copies
  <2>3. CASE ~stored
    <3>1. l = copy.lister
      BY <2>3
    <3> HIDE DEF l, stored
    <3> QED BY <2>3, <3>1, ListerCopies
  <2> QED BY <2>2, <2>3
<1>4. Owing' => Owing
  <2>1. queued => queued'
    BY <1>2 DEF HandleErr
  <2> QED BY <1>1, <2>1 DEF Owing
<1>5. sync'.pc = "idle" /\ copy'.lister = l
  BY <1>2 DEF HandleErr, Idle
<1>6. Owing' => \A x \in Name : Due(view.grid.uid, x) \/ Reported(x)'
  <2>1. CASE ~served
    BY <1>1, <1>5, <2>1 DEF Reported
  <2>2. CASE served /\ err
    <3>1. HandleErr(TRUE, l)
      <4>1. HandleErr(err, l) <=> HandleErr(TRUE, l)
        <5>1. err = TRUE
          BY <2>2
        <5> HIDE DEF err
        <5> QED BY <5>1
      <4> QED BY <1>2, <4>1
    <3> HIDE DEF l
    <3> QED BY <1>1, <2>2, <3>1, FailureIsKnown
  <2>3. CASE served /\ ~err
    <3>1. SUFFICES ASSUME Owing', NEW x \in Name, ~Due(view.grid.uid, x), l["grid"] = "current"
                   PROVE  Names(status', x \in shed, view.grid.uid, x, objs[x])
      BY <1>1, <1>5 DEF Reported
    <3>2. l = copy.lister /\ ~stored
      BY <1>3, <3>1
    <3>3. Owing /\ CaredFor(x)
      BY <1>4, <3>1 DEF Ledger, NothingIsForgotten
    <3>4. Names(sync.claimed, x \in shed, view.grid.uid, x, objs[x])
      BY <1>1, <3>1, <3>3 DEF CaredFor, Reported, Listed
    <3>5. view.grid = sync.grid /\ copy.sync["grid"] = "current" /\ "grids" \in synced
      BY <1>1, <3>1, <3>2, <3>3 DEF Owing, Ledger, GridSeen, Lister
    <3>6. view.grid = grid
      BY <3>1, <3>2, <3>5 DEF Ledger, GridSeen
    <3>7. status' = sync.claimed
      BY <1>2, <2>3, <3>2, <3>5, <3>6
    <3> QED BY <3>4, <3>7
  <2> QED BY <2>1, <2>2, <2>3
<1>7. err \in BOOLEAN /\ sync.pc # "idle" /\ sync.pc # "claim"
  BY <1>1
<1>8. l["grid"] = "current" => copy.lister["grid"] = "current"
  BY <1>3
<1> HIDE DEF l, err
<1> QED BY <1>1, <1>2, <1>3, <1>4, <1>6, <1>7, <1>8, EndKeepsLedger

\* What a sync sees when it begins is the objects, or the events of their changes
\* that are still to come start another.
LEMMA BeginKeepsLedger == ASSUME IInv, Ledger, Begin PROVE Ledger'
<1>1. /\ UNCHANGED <<kind, served, grid, status, objs, view, synced, events, shed>>
      /\ synced = Lister /\ sync.pc = "idle" /\ queued' = FALSE /\ gaveUp' = FALSE
  BY DEF Begin, Started, server, budget
<1>2. retries' \in 0 .. MaxRetries
  BY DEF Begin, Ledger, CountersOK
<1>3. CountersOK'
  BY <1>1, <1>2 DEF Ledger, CountersOK
<1>4. CASE view.grid # None => view.grid.spec \in Keyless
  <2>1. UNCHANGED <<sync, copy>>
    BY <1>4 DEF Begin
  <2>2. EventsOK'
    BY <1>1, <2>1, EventsStay DEF Ledger, EventsOK
  <2>3. GridSeen' /\ ClaimsOK'
    BY <1>1, <2>1 DEF Ledger, GridSeen, ClaimsOK
  <2>4. ~Owing'
    BY <1>1, <1>4 DEF Owing
  <2> QED BY <1>3, <2>2, <2>3, <2>4 DEF Ledger, NothingIsForgotten
<1>5. CASE view.grid # None /\ view.grid.spec \notin Keyless
  <2> DEFINE g == view.grid
             seen == view.objs
             claimed == {x \in Name : Owns(g, seen[x]) /\ Matches(seen[x])}
             adopt == {x \in Name : ~g.deleting /\ Matches(seen[x]) /\ seen[x].owner = NoUid}
             release == {x \in Name : ~g.deleting /\ Owns(g, seen[x]) /\ ~Matches(seen[x])}
  <2>1. /\ sync' = [Idle EXCEPT !.pc = "claim", !.grid = g, !.claimed = claimed,
                                !.adopt = adopt, !.release = release]
        /\ copy' = [copy EXCEPT !.sync = copy.lister]
    BY <1>5 DEF Begin
  <2>2. /\ sync'.pc = "claim" /\ sync'.grid = g /\ sync'.claimed = claimed /\ sync'.adopt = adopt
        /\ sync'.todo = {} /\ sync'.failed = FALSE
    BY <2>1 DEF Idle
  <2>3. copy' \in Copies /\ copy'.lister = copy.lister /\ copy'.sync = copy.lister
    <3>1. copy \in Copies
      BY DEF Ledger, EventsOK
    <3> QED BY <2>1, <3>1 DEF Copies
  <2>4. EventsOK'
    BY <1>1, <2>3, EventsStay DEF Ledger
  <2>5. GridSeen'
    BY <1>1, <2>2, <2>3 DEF Ledger, GridSeen
  <2>6. ASSUME NEW x \in Name, copy.lister[x] = "current" PROVE seen[x] = objs[x]
    BY <1>1, <2>6 DEF Ledger, EventsOK, EventsOf, Lister
  <2>7. ClaimsOK'
    BY <1>1, <2>2, <2>3, <2>6 DEF ClaimsOK, Orphan
  <2>8. NothingIsForgotten'
    <3>1. SUFFICES ASSUME Owing', NEW x \in Name, ~Due(g.uid, x)
                   PROVE  Adopted(x)' /\ Updated(x)' /\ Reported(x)'
      BY <1>1 DEF NothingIsForgotten, CaredFor, Due
    <3>2. g.uid \in Uid /\ g.uid # NoUid /\ ~g.deleting
      BY <1>1, <1>5, <3>1, GridUid DEF Owing, Uid, NoUid
    <3>3. Alike(x \in shed, g.uid, seen[x], objs[x])
      BY <1>1, <3>1, <3>2 DEF Ledger, EventsOK, EventsOf, Lister
    <3>4. x \in claimed <=> Matches(seen[x]) /\ OwnedBy(g.uid, seen[x])
      BY DEF Owns, OwnedBy
    <3>5. Adopted(x)'
      BY <1>1, <2>2, <3>2, <3>3 DEF Adopted, Alike, Orphan
    <3>6. Updated(x)'
      <4>1. SUFFICES ASSUME Wrong(g, objs[x]) PROVE copy.lister[x] = "current" /\ x \in claimed
        BY <1>1, <2>2, <2>3 DEF Updated, Wrong
      <4>2. events[x] = {}
        <5>1. SUFFICES ASSUME events[x] # {} PROVE FALSE
          OBVIOUS
        <5>2. PICK e \in events[x] : e[2] = objs[x]
          BY <5>1 DEF Ledger, EventsOK, EventsOf
        <5>3. ~Noticed(g.uid, e[1], e[2])
          BY <3>1 DEF Due
        <5> QED BY <4>1, <5>2, <5>3 DEF Wrong, Matches, OwnedBy, Noticed
      <4>3. copy.lister[x] = "current"
        BY <4>2 DEF Ledger, EventsOK, EventsOf
      <4> QED BY <2>6, <3>4, <4>1, <4>3 DEF Wrong
    <3>7. Names(claimed, x \in shed, g.uid, x, objs[x])
      BY <3>3, <3>4 DEF Names, Alike
    <3>8. Reported(x)'
      BY <1>1, <2>2, <3>7 DEF Reported
    <3> QED BY <3>5, <3>6, <3>8
  <2> QED BY <1>3, <2>4, <2>5, <2>7, <2>8 DEF Ledger
<1> QED BY <1>4, <1>5

LEMMA CrashKeepsLedger == ASSUME IInv, Ledger, Crash PROVE Ledger'
<1>1. /\ UNCHANGED <<kind, served, objs, shed>> /\ view' = NoView /\ synced' = {} /\ sync' = Idle
      /\ copy' = [w \in {"lister", "sync"} |-> AllCurrent] /\ events' = [x \in Name |-> {}]
      /\ queued' = FALSE /\ retries' = 0 /\ gaveUp' = FALSE
  BY DEF Crash, server
<1>2. copy' \in Copies /\ \A x \in Name : copy'.lister[x] = "current"
  BY <1>1 DEF Copies, AllCurrent, Thing
<1>3. view'.grid = None /\ sync'.pc = "idle" /\ sync'.adopt = {} /\ sync'.todo = {}
  BY <1>1 DEF NoView, Idle
<1>4. EventsOK'
  BY <1>1, <1>2 DEF Ledger, EventsOK, EventsOf
<1>5. GridSeen' /\ ClaimsOK'
  BY <1>1, <1>3 DEF GridSeen, ClaimsOK
<1>6. CountersOK'
  <2>1. 0 \in 0 .. MaxRetries
    OBVIOUS
  <2>2. queued' \in BOOLEAN /\ gaveUp' \in BOOLEAN /\ served' \in BOOLEAN
    BY <1>1, Zenon DEF Ledger, CountersOK
  <2> QED BY <1>1, <2>1, <2>2 DEF Ledger, CountersOK
<1>7. ~Owing'
  BY <1>3 DEF Owing
<1> QED BY <1>4, <1>5, <1>6, <1>7 DEF Ledger, NothingIsForgotten

LEMMA InitiallyLedger == Init => Ledger
<1> SUFFICES ASSUME Init PROVE Ledger
  OBVIOUS
<1>1. /\ view.grid = grid /\ view.objs = objs /\ objs = NoObject /\ synced = Lister /\ sync = Idle
      /\ copy = [w \in {"lister", "sync"} |-> AllCurrent] /\ events = [x \in Name |-> {}]
      /\ queued = TRUE /\ retries = 0 /\ gaveUp = FALSE /\ shed = {}
      /\ served \in BOOLEAN /\ (served => kind = "deployment")
  BY StartOK DEF Init
<1>2. copy \in Copies /\ \A x \in Name : copy.lister[x] = "current"
  BY <1>1 DEF Copies, AllCurrent, Thing
<1>3. sync.pc = "idle" /\ sync.adopt = {} /\ sync.todo = {}
  BY <1>1 DEF Idle
<1>4. \A x \in Name : objs[x] = None
  BY <1>1 DEF NoObject
<1>5. EventsOK
  BY <1>1, <1>2, <1>4, SameIsAlike DEF EventsOK, EventsOf
<1>6. GridSeen /\ ClaimsOK
  BY <1>1, <1>3 DEF GridSeen, ClaimsOK, Lister
<1>8. CountersOK
  <2>1. 0 \in 0 .. MaxRetries
    OBVIOUS
  <2>2. queued \in BOOLEAN /\ gaveUp \in BOOLEAN /\ served \in BOOLEAN
    BY <1>1, Zenon
  <2> QED BY <1>1, <2>1, <2>2 DEF CountersOK
<1>7. ~Owing
  BY <1>1 DEF Owing
<1> QED BY <1>5, <1>6, <1>7, <1>8 DEF Ledger, NothingIsForgotten

LEMMA NextKeepsLedger == IInv /\ Ledger /\ [Next]_vars => Ledger'
<1> SUFFICES ASSUME IInv, Ledger, [Next]_vars PROVE Ledger'
  OBVIOUS
<1>1. CASE User
  BY <1>1, UserKeepsLedger
<1>2. CASE GarbageCollector
  BY <1>2, GarbageCollectorKeepsLedger
<1>3. CASE ListGrids \/ AddUpdateDeleteGrid
  BY <1>3, GridListerKeepsLedger
<1>4. CASE ListObjects
  BY <1>4, ListObjectsKeepsLedger
<1>5. ASSUME NEW x \in Name, ObjectEvents(x) PROVE Ledger'
  BY <1>5, ObjectEventsKeepsLedger
<1>6. CASE ListNodes \/ \E n \in Node : NodeEvent(n)
  BY <1>6, NodeListerKeepsLedger
<1>7. CASE Resync
  BY <1>7, ResyncKeepsLedger
<1>8. CASE Worker
  <2>1. CASE Begin \/ Written
    BY <2>1, BeginKeepsLedger, WrittenKeepsLedger
  <2>2. CASE SyncDeploymentGrid \/ SyncServiceGrid
    BY <2>2, SyncGridsKeepLedger
  <2>3. ASSUME NEW f \in Fault, CanAdopt(f) \/ SyncStatus(f) PROVE Ledger'
    BY <2>3, CanAdoptKeepsLedger, SyncStatusKeepsLedger
  <2>4. ASSUME NEW f \in Fault, NEW x \in Name, Adopt(x, f) \/ Release(x, f) PROVE Ledger'
    BY <2>4, AdoptKeepsLedger, ReleaseKeepsLedger
  <2>5. ASSUME NEW f \in Fault, NEW c \in sync.todo, SyncObject(c, f) PROVE Ledger'
    BY <2>5, SyncObjectKeepsLedger
  <2> QED BY <1>8, <2>1, <2>2, <2>3, <2>4, <2>5 DEF Worker
<1>9. CASE Crash
  BY <1>9, CrashKeepsLedger
<1>10. CASE UNCHANGED vars
  <2>1. /\ UNCHANGED <<kind, served, grid, status, objs, view, synced, copy, events, queue, sync, shed>>
    BY <1>10 DEF vars, server, informers, budget
  <2>2. EventsOK' /\ Traced
    BY <2>1, EventsStay, NothingIsTraced DEF Ledger, EventsOK
  <2> QED BY <2>1, <2>2, OthersKeepLedger
<1> QED BY <1>1, <1>2, <1>3, <1>4, <1>5, <1>6, <1>7, <1>8, <1>9, <1>10 DEF Next

LEMMA AtRest == ASSUME IInv, Ledger PROVE NothingIsLeftBehind
<1>1. SUFFICES ASSUME Quiet, NEW x \in Name
      PROVE  /\ Matches(objs[x]) => /\ objs[x].owner # NoUid
                                    /\ Owns(grid, objs[x]) => Follows(objs[x])
             /\ served => IF Matches(objs[x]) THEN x \in status <=> Owns(grid, objs[x])
                                              ELSE x \in status => x \in shed
  BY DEF NothingIsLeftBehind
<1>2. view.grid = grid /\ sync.pc = "idle" /\ copy.lister = AllCurrent
  BY <1>1 DEF Quiet
<1>3. copy.lister[x] = "current" /\ copy.lister["grid"] = "current"
  BY <1>2 DEF AllCurrent, Thing
<1>4. Owing
  BY <1>1 DEF Quiet, Owing
<1>5. ~Due(view.grid.uid, x)
  BY <1>3 DEF Due, Ledger, EventsOK, EventsOf
<1>6. Adopted(x) /\ Updated(x) /\ Reported(x)
  BY <1>4, <1>5 DEF Ledger, NothingIsForgotten, CaredFor
<1>7. sync.adopt = {} /\ sync.todo = {}
  BY <1>2 DEF Ledger, ClaimsOK
<1> QED BY <1>2, <1>3, <1>6, <1>7 DEF Adopted, Updated, Listed, Orphan, Wrong, Reported, Names,
           Owns, OwnedBy, Follows

\* However changes of the grid, of its objects, syncs, retries and restarts interleave, a
\* controller of deployments or services that rests with its listers current, and has
\* not given the grid up, has adopted all orphans and brought all it owns up to what an
\* update carries over, and the status names what it should, objects that lost their
\* label aside: the handlers, handleErr and the errors that syncDeployment ignores are
\* enough (deployment.go, deployment_grid.go, controller.go:208, deployment/sync.go).
THEOREM NothingStaysUndone == GridSpec => []NothingIsLeftBehind
<1>1. IInv /\ Ledger => NothingIsLeftBehind
  BY AtRest
<1>2. GridSpec => [](IInv /\ Ledger)
  BY Initially, NextKeeps, InitiallyLedger, NextKeepsLedger, PTL DEF GridSpec
<1> QED BY <1>1, <1>2, PTL
=============================================================================
