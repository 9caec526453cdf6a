----------------------------- MODULE GridWrapper -----------------------------
(***************************************************************************)
(* application-grid-wrapper, pkg/application-grid-wrapper: three informers  *)
(* tell it of services, endpoints and nodes; it keeps the endpoints pruned  *)
(* to its grid, and answers the lists and watches of one kube-proxy.        *)
(*                                                                         *)
(* Each informer calls its handler with one event after another.  A         *)
(* handler's critical section is one step, except that the service handler  *)
(* may be waiting in it for room in serviceChan (`held').  The events of    *)
(* changed endpoints are sent after the unlock (`pend').                    *)
(***************************************************************************)
EXTENDS GridTopology, Sequences

CONSTANTS ChannelSize,  \* NotifyChannelSize
          MaxEvents,    \* how many events the informers tell of
          MaxRestarts,  \* how many times kube-proxy starts again
          Services0, Endpoints0, Nodes0  \* what the informers listed first

ASSUME WrapperAssumption ==
    /\ ChannelSize \in Nat \ {0} /\ MaxEvents \in Nat /\ MaxRestarts \in Nat
    /\ Services0 \in Map(Svc, SUBSET Key) /\ Nodes0 \in Map(Node, Labels)
    /\ Endpoints0 \in Map(Svc, EndpointsObject)

Informer == {"services", "endpoints", "nodes"}
Watched == {"services", "endpoints"}
Named(h) == IF h = "nodes" THEN Node ELSE Svc

VARIABLES
    known,         \* known[h]: the names of the objects the informer has in its store
    toldServices, toldEndpoints, toldNodes,  \* the objects the handlers were told last
    servicesMap, endpointsMap, nodesMap,
    held,          \* the event the service handler sends with the lock held
    pend,          \* pend[h]: the events handler h has still to send
    chan,          \* chan[r]: serviceChan and endpointsChan
    phase,         \* phase[r]: kube-proxy lists r, or watches it
    store,         \* store[r]: kube-proxy's copy of r
    old,           \* the watches whose client has gone, and that have not noticed
    stolen,        \* stolen[r]: the event such a watch of r took
    events, restarts

told == <<toldServices, toldEndpoints, toldNodes>>
cache == <<servicesMap, endpointsMap, nodesMap>>
sends == <<held, pend>>
proxy == <<phase, store, old, stolen, restarts>>
vars == <<known, told, cache, sends, chan, proxy, events>>

Object(r) == IF r = "services" THEN SUBSET Key ELSE SUBSET Address
Event(r) == [type : {"ADDED", "MODIFIED", "DELETED"}, key : Svc, object : Object(r)]
Evt(type, k, o) == [type |-> type, key |-> k, object |-> o]

\* The channels hold what they were made for, one event at a time is sent under
\* the lock, and the maps hold objects of their kind (cache.go storageCache).
TypeOK ==
    /\ known \in [Informer -> SUBSET (Svc \cup Node)]
    /\ \A h \in Informer : known[h] \subseteq Named(h)
    /\ toldServices \in Map(Svc, SUBSET Key) /\ toldNodes \in Map(Node, Labels)
    /\ toldEndpoints \in Map(Svc, EndpointsObject)
    /\ servicesMap \in Map(Svc, SUBSET Key) /\ nodesMap \in Map(Node, Labels)
    /\ endpointsMap \in Map(Svc, [c : EndpointsObject, modified : SUBSET Address])
    /\ held \subseteq Event("services") /\ \A e, f \in held : e = f
    /\ pend \in [Informer -> SUBSET Event("endpoints")]
    /\ DOMAIN chan = Watched /\ DOMAIN store = Watched /\ DOMAIN stolen = Watched
    /\ \A r \in Watched : /\ chan[r] \in Seq(Event(r)) /\ Len(chan[r]) <= ChannelSize
                          /\ store[r] \in Map(Svc, Object(r))
                          /\ stolen[r] \subseteq Event(r)
    /\ phase \in [Watched -> {"list", "watch"}] /\ old \subseteq Watched
    /\ events \in 0..MaxEvents /\ restarts \in 0..MaxRestarts

\* The handlers have been told of the first lists, and a kube-proxy that has gone
\* has taken their events.  With three empty maps this is the start of the program.
Init ==
    /\ known = [h \in Informer |-> IF h = "services" THEN DOMAIN Services0
                 ELSE IF h = "endpoints" THEN DOMAIN Endpoints0 ELSE DOMAIN Nodes0]
    /\ toldServices = Services0 /\ toldEndpoints = Endpoints0 /\ toldNodes = Nodes0
    /\ servicesMap = Services0 /\ nodesMap = Nodes0
    /\ endpointsMap = [k \in DOMAIN Endpoints0 |->
            [c |-> Endpoints0[k],
             modified |-> pruneEndpoints(k, Endpoints0[k], Services0, Nodes0)]]
    /\ held = {} /\ pend = [h \in Informer |-> {}]
    /\ chan = [r \in Watched |-> <<>>]
    /\ phase = [r \in Watched |-> "list"] /\ store = [r \in Watched |-> NoMap]
    /\ old = {} /\ stolen = [r \in Watched |-> {}]
    /\ events = 0 /\ restarts = 0
-----------------------------------------------------------------------------
\* sc.mu is free.
UnlockedWhenSent == held = {} /\ \A h \in Informer : pend[h] = {}
Unlocked == held = {}

\* A send waits for room in the channel.
Send(r, e) == Len(chan[r]) < ChannelSize /\ chan' = [chan EXCEPT ![r] = Append(@, e)]

\* The informer of h tells of k: an addition, an update or a resync, or a deletion.
Tells(h, type, k) ==
    /\ events < MaxEvents /\ events' = events + 1
    /\ pend[h] = {} /\ Unlocked
    /\ (k \in known[h]) = (type # "ADDED")
    /\ known' = [known EXCEPT ![h] = IF type = "DELETED" THEN @ \ {k} ELSE @ \cup {k}]

\* A deletion the informer's watch has missed comes as a DeletedFinalStateUnknown,
\* which is no object of the handler's kind.
OnTombstone(h, k) ==
    /\ Tells(h, "DELETED", k)
    /\ UNCHANGED <<told, cache, sends, chan, proxy>>

\* The endpoints as they are pruned now, and the events of those that changed.
rebuildEndpointsMap(services, nodes) ==
    [k \in DOMAIN endpointsMap |->
        [endpointsMap[k] EXCEPT !.modified =
            pruneEndpoints(k, endpointsMap[k].c, services, nodes)]]

changedUnlessEmpty(new) ==
    {Evt("MODIFIED", k, new[k].modified) :
        k \in {x \in DOMAIN new : new[x].modified \notin {{}, endpointsMap[x].modified}}}
changedEps(new) ==
    {Evt("MODIFIED", k, new[k].modified) :
        k \in {x \in DOMAIN new : new[x].modified # endpointsMap[x].modified}}

Rebuild(h, services, nodes) ==
    /\ endpointsMap' = rebuildEndpointsMap(services, nodes)
    /\ pend' = [pend EXCEPT ![h] = changedEps(rebuildEndpointsMap(services, nodes))]

\* serviceHandler: the lock is taken, and the event is to be sent first.
OnService(e) ==
    /\ Tells("services", e.type, e.key)
    /\ held' = IF e.type = "MODIFIED" /\ e.key \notin DOMAIN servicesMap THEN {} ELSE {e}
    /\ UNCHANGED <<told, cache, pend, chan, proxy>>

\* The rest of the critical section.  An update that leaves the keys as they were
\* need not rebuild anything.
SameKeys(e) == /\ e.type = "MODIFIED" /\ e.object # {}
               /\ servicesMap[e.key] = e.object

NotifyOfLiving(e) == IF e.type = "DELETED" THEN UNCHANGED chan ELSE Send("services", e)
Notify(e) == Send("services", e)

SendService ==
    \E e \in held :
        /\ Notify(e)
        /\ held' = {}
        /\ toldServices' = IF e.type = "DELETED" THEN Delete(toldServices, e.key)
                           ELSE Put(toldServices, e.key, e.object)
        /\ IF SameKeys(e) THEN UNCHANGED <<servicesMap, endpointsMap, pend>>
           ELSE /\ servicesMap' = IF e.type = "DELETED" THEN Delete(servicesMap, e.key)
                                  ELSE Put(servicesMap, e.key, e.object)
                /\ Rebuild("services", servicesMap', nodesMap)
        /\ UNCHANGED <<known, toldEndpoints, toldNodes, nodesMap, proxy, events>>

\* nodeHandler
SameLabelNames(k, labels) == DOMAIN labels # {} /\ DOMAIN nodesMap[k] = DOMAIN labels
SameLabels(k, labels) == DOMAIN labels # {} /\ nodesMap[k] = labels

SetNode(type, k, labels) ==
    /\ Tells("nodes", type, k)
    /\ toldNodes' = Put(toldNodes, k, labels)
    /\ IF type = "MODIFIED" /\ (k \notin DOMAIN nodesMap \/ SameLabels(k, labels))
         THEN UNCHANGED <<nodesMap, endpointsMap, pend>>
         ELSE /\ nodesMap' = Put(nodesMap, k, labels)
              /\ Rebuild("nodes", servicesMap, nodesMap')
    /\ UNCHANGED <<toldServices, toldEndpoints, servicesMap, held, chan, proxy>>

DeleteNode(k) ==
    /\ Tells("nodes", "DELETED", k)
    /\ toldNodes' = Delete(toldNodes, k)
    /\ nodesMap' = Delete(nodesMap, k)
    /\ Rebuild("nodes", servicesMap, nodesMap')
    /\ UNCHANGED <<toldServices, toldEndpoints, servicesMap, held, chan, proxy>>

\* endpointsHandler
SetEndpoints(type, k, eps) ==
    /\ Tells("endpoints", type, k)
    /\ toldEndpoints' = Put(toldEndpoints, k, eps)
    /\ LET new == pruneEndpoints(k, eps, servicesMap, nodesMap)
       IN IF type = "MODIFIED" /\ k \notin DOMAIN endpointsMap
            THEN UNCHANGED <<endpointsMap, pend>>
            ELSE /\ endpointsMap' = Put(endpointsMap, k, [c |-> eps, modified |-> new])
                 /\ pend' = [pend EXCEPT !["endpoints"] =
                        IF type = "MODIFIED" /\ endpointsMap[k].modified = new THEN {}
                        ELSE {Evt(type, k, new)}]
    /\ UNCHANGED <<toldServices, toldNodes, servicesMap, nodesMap, held, chan, proxy>>

DeleteEndpoints(k) ==
    /\ Tells("endpoints", "DELETED", k)
    /\ toldEndpoints' = Delete(toldEndpoints, k)
    /\ IF k \notin DOMAIN endpointsMap
         THEN UNCHANGED <<endpointsMap, pend>>
         ELSE /\ endpointsMap' = Delete(endpointsMap, k)
              /\ pend' = [pend EXCEPT !["endpoints"] =
                              {Evt("DELETED", k, endpointsMap[k].modified)}]
    /\ UNCHANGED <<toldServices, toldNodes, servicesMap, nodesMap, held, chan, proxy>>

\* A handler sends one of its events, in whatever order the map gave them.
SendEndpoints(h) ==
    \E e \in pend[h] :
        /\ Send("endpoints", e)
        /\ pend' = [pend EXCEPT ![h] = @ \ {e}]
        /\ UNCHANGED <<known, told, cache, held, proxy, events>>
-----------------------------------------------------------------------------
View(r) == IF r = "services" THEN servicesMap
           ELSE [k \in DOMAIN endpointsMap |-> endpointsMap[k].modified]

\* GetServices and GetEndpoints need the lock.  A watch follows the list.
List(r) ==
    /\ phase[r] = "list" /\ Unlocked
    /\ store' = [store EXCEPT ![r] = View(r)]
    /\ phase' = [phase EXCEPT ![r] = "watch"]
    /\ UNCHANGED <<known, told, cache, sends, chan, old, stolen, restarts, events>>

Apply(m, e) == IF e.type = "DELETED" THEN Delete(m, e.key) ELSE Put(m, e.key, e.object)

\* A watch that times out is followed by another, which goes on with the channel.
Watch(r) ==
    /\ phase[r] = "watch" /\ chan[r] # <<>>
    /\ store' = [store EXCEPT ![r] = Apply(@, Head(chan[r]))]
    /\ chan' = [chan EXCEPT ![r] = Tail(@)]
    /\ UNCHANGED <<known, told, cache, sends, phase, old, stolen, restarts, events>>

\* kube-proxy starts again.  Its watches here have not noticed yet.
Restart ==
    /\ restarts < MaxRestarts /\ restarts' = restarts + 1
    /\ phase' = [r \in Watched |-> "list"]
    /\ store' = [r \in Watched |-> NoMap]
    /\ old' = old \cup {r \in Watched : phase[r] = "watch"}
    /\ UNCHANGED <<known, told, cache, sends, chan, stolen, events>>

\* Such a watch may take an event from the one channel there is, for nobody.
Steal(r) ==
    /\ r \in old /\ stolen[r] = {} /\ chan[r] # <<>>
    /\ stolen' = [stolen EXCEPT ![r] = {Head(chan[r])}]
    /\ chan' = [chan EXCEPT ![r] = Tail(@)]
    /\ UNCHANGED <<known, told, cache, sends, phase, store, old, restarts, events>>

\* It ends when its context is done, or the encoding fails.
OldEnds(r) ==
    /\ r \in old
    /\ old' = old \ {r}
    /\ stolen' = [stolen EXCEPT ![r] = {}]
    /\ UNCHANGED <<known, told, cache, sends, chan, phase, store, restarts, events>>
-----------------------------------------------------------------------------
Informed ==
    \/ \E h \in Informer : \E k \in Named(h) : OnTombstone(h, k)
    \/ \E e \in Event("services") : OnService(e)
    \/ \E type \in {"ADDED", "MODIFIED"} :
          \/ \E k \in Node : \E labels \in Labels : SetNode(type, k, labels)
          \/ \E k \in Svc : \E eps \in EndpointsObject : SetEndpoints(type, k, eps)
    \/ \E k \in Node : DeleteNode(k)
    \/ \E k \in Svc : DeleteEndpoints(k)

Next == \/ Informed \/ SendService \/ Restart
        \/ \E h \in Informer : SendEndpoints(h)
        \/ \E r \in Watched : List(r) \/ Watch(r) \/ Steal(r) \/ OldEnds(r)

\* The handlers go on when they can; kube-proxy lists, then watches again and
\* again; a watch whose client has gone ends.
Fairness ==
    /\ WF_vars(SendService)
    /\ \A h \in Informer : WF_vars(SendEndpoints(h))
    /\ \A r \in Watched : WF_vars(List(r)) /\ WF_vars(Watch(r)) /\ WF_vars(OldEnds(r))

Spec == Init /\ [][Next]_vars
FairSpec == Spec /\ Fairness
-----------------------------------------------------------------------------
Grid == INSTANCE GridView WITH
            services <- toldServices, endpoints <- toldEndpoints, nodes <- toldNodes,
            view <- View("endpoints")

\* A list of endpoints is always the pruning of the latest endpoints by the latest
\* services and labels, in whatever order the three came and whichever rebuild was
\* skipped (cache.go rebuildEndpointsMap and the handlers' early returns).  A deletion
\* learnt only by its tombstone is left out: the handlers ignore it
\* (endpoints_handler.go:121), and the pruning keeps the object, as what was told does.
ListsAreCurrent == Grid!Spec

\* Two handlers have an event of one Endpoints object to send; or it was taken by
\* a watch without a client.
Contended(k) == \E g, h \in Informer : /\ g # h
                                       /\ \E e \in pend[g] : e.key = k
                                       /\ \E e \in pend[h] : e.key = k
Stolen(r, k) == \E e \in stolen[r] : e.key = k

\* The service handler holds the lock until somebody watches the services, and who
\* would, has to list them first.
Jammed == held # {} /\ phase["services"] = "list" /\ Len(chan["services"]) = ChannelSize

Agree(r, k) == /\ phase[r] = "watch" /\ (k \in DOMAIN store[r]) = (k \in DOMAIN View(r))
               /\ k \in DOMAIN View(r) => store[r][k] = View(r)[k]

\* kube-proxy ends up with the endpoints of its grid, if no two handlers have sent
\* events of the same object at a time, no event was stolen and the lock is not
\* jammed (endpoints_handler.go, rebuildEndpointsMap, handler.go).
EndpointsSettle ==
    \A k \in Svc : []~(Contended(k) \/ Stolen("endpoints", k) \/ Jammed)
                      => <>[]Agree("endpoints", k)

\* The events of services are sent under the lock, so that they keep the order of
\* the changes whatever else goes on (service_handler.go).
ServicesSettle ==
    \A k \in Svc : []~(Stolen("services", k) \/ Jammed) => <>[]Agree("services", k)

\* A list is answered, unless the lock is jammed (handler.go, cache.go).
ListsAreAnswered == \A r \in Watched : phase[r] = "list" ~> phase[r] = "watch" \/ Jammed
=============================================================================
