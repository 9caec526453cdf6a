-------------------------- MODULE GridWrapperProofs --------------------------
(* Proofs about GridWrapper, for any services, nodes, labels, channel sizes  *)
(* and first lists: the types, and that the lists it answers are current.    *)
EXTENDS GridWrapper, TLAPS

USE GridAssumption, WrapperAssumption

Pruning(k) == pruneEndpoints(k, endpointsMap[k].c, servicesMap, nodesMap)

(* The cache holds what the handlers were told, and its pruning.             *)
Faithful ==
    /\ servicesMap = toldServices /\ nodesMap = toldNodes
    /\ DOMAIN endpointsMap = DOMAIN toldEndpoints
    /\ \A k \in DOMAIN endpointsMap : /\ endpointsMap[k].c = toldEndpoints[k]
                                      /\ endpointsMap[k].modified = Pruning(k)

(* An update finds its object there.                                         *)
Stored == /\ known["nodes"] \subseteq DOMAIN nodesMap
          /\ known["endpoints"] \subseteq DOMAIN endpointsMap
          /\ \A e \in held : e.type = "MODIFIED" => e.key \in DOMAIN servicesMap

IInv == TypeOK /\ Faithful /\ Stored
-----------------------------------------------------------------------------
Container == [c : EndpointsObject, modified : SUBSET Address]

(* The parts of TypeOK.                                                      *)
KnownOK == /\ known \in [Informer -> SUBSET (Svc \cup Node)]
           /\ \A h \in Informer : known[h] \subseteq Named(h)
ToldOK == /\ toldServices \in Map(Svc, SUBSET Key) /\ toldNodes \in Map(Node, Labels)
          /\ toldEndpoints \in Map(Svc, EndpointsObject)
ServicesOK == servicesMap \in Map(Svc, SUBSET Key)
NodesOK == nodesMap \in Map(Node, Labels)
EndpointsOK == endpointsMap \in Map(Svc, Container)
HeldOK == held \subseteq Event("services") /\ \A e, f \in held : e = f
PendOK == pend \in [Informer -> SUBSET Event("endpoints")]
ChanOK == /\ DOMAIN chan = Watched
          /\ \A r \in Watched : chan[r] \in Seq(Event(r)) /\ Len(chan[r]) <= ChannelSize
StoreOK == DOMAIN store = Watched /\ \A r \in Watched : store[r] \in Map(Svc, Object(r))
StolenOK == DOMAIN stolen = Watched /\ \A r \in Watched : stolen[r] \subseteq Event(r)
PhaseOK == phase \in [Watched -> {"list", "watch"}] /\ old \subseteq Watched
CountsOK == events \in 0..MaxEvents /\ restarts \in 0..MaxRestarts

LEMMA Parts ==
    TypeOK <=> /\ KnownOK /\ ToldOK /\ ServicesOK /\ NodesOK /\ EndpointsOK /\ HeldOK
               /\ PendOK /\ ChanOK /\ StoreOK /\ StolenOK /\ PhaseOK /\ CountsOK
  BY DEF TypeOK, KnownOK, ToldOK, ServicesOK, NodesOK, EndpointsOK, Container, HeldOK,
         PendOK, ChanOK, StoreOK, StolenOK, PhaseOK, CountsOK

LEMMA PartsNext ==
    ASSUME KnownOK', ToldOK', ServicesOK', NodesOK', EndpointsOK', HeldOK', PendOK',
           ChanOK', StoreOK', StolenOK', PhaseOK', CountsOK'
    PROVE  TypeOK'
  BY DEF TypeOK, KnownOK, ToldOK, ServicesOK, NodesOK, EndpointsOK, Container, HeldOK,
         PendOK, ChanOK, StoreOK, StolenOK, PhaseOK, CountsOK

LEMMA Kept ==
    ASSUME TypeOK
    PROVE  /\ known' = known => KnownOK'
           /\ told' = told => ToldOK'
           /\ servicesMap' = servicesMap => ServicesOK'
           /\ nodesMap' = nodesMap => NodesOK'
           /\ endpointsMap' = endpointsMap => EndpointsOK'
           /\ held' = held => HeldOK'
           /\ pend' = pend => PendOK'
           /\ chan' = chan => ChanOK'
           /\ store' = store => StoreOK'
           /\ stolen' = stolen => StolenOK'
           /\ phase' = phase /\ old' = old => PhaseOK'
           /\ events' = events /\ restarts' = restarts => CountsOK'
  BY Parts DEF KnownOK, told, ToldOK, ServicesOK, NodesOK, EndpointsOK, HeldOK, PendOK,
         ChanOK, StoreOK, StolenOK, PhaseOK, CountsOK

LEMMA FaithfulKept ==
    ASSUME Faithful, told' = told, cache' = cache
    PROVE  Faithful'
  BY DEF Faithful, Pruning, told, cache
-----------------------------------------------------------------------------
LEMMA Names == /\ "services" \in Informer /\ "endpoints" \in Informer /\ "nodes" \in Informer
               /\ "services" \in Watched /\ "endpoints" \in Watched
  BY DEF Informer, Watched

(* What it is to be a map.                                                   *)
LEMMA MapParts ==
    ASSUME NEW K, NEW V, NEW m \in Map(K, V)
    PROVE  /\ DOMAIN m \subseteq K /\ m = [x \in DOMAIN m |-> m[x]]
           /\ \A x \in DOMAIN m : m[x] \in V
  BY DEF Map

LEMMA IsMap ==
    ASSUME NEW K, NEW V, NEW D \in SUBSET K, NEW m \in [D -> V]
    PROVE  m \in Map(K, V)
  BY DEF Map

LEMMA PutTyped ==
    ASSUME NEW K, NEW V, NEW m \in Map(K, V), NEW k \in K, NEW v \in V
    PROVE  /\ Put(m, k, v) \in Map(K, V) /\ DOMAIN Put(m, k, v) = DOMAIN m \cup {k}
           /\ Put(m, k, v)[k] = v
           /\ \A x \in DOMAIN m \ {k} : Put(m, k, v)[x] = m[x]
  <1>1. Put(m, k, v) \in [DOMAIN m \cup {k} -> V]
      BY MapParts DEF Put
  <1>2. DOMAIN m \cup {k} \in SUBSET K
      BY MapParts
  <1>3. Put(m, k, v) \in Map(K, V)
      BY <1>1, <1>2, IsMap
  <1> QED BY <1>3 DEF Put

LEMMA DeleteTyped ==
    ASSUME NEW K, NEW V, NEW m \in Map(K, V), NEW k
    PROVE  /\ Delete(m, k) \in Map(K, V) /\ DOMAIN Delete(m, k) = DOMAIN m \ {k}
           /\ \A x \in DOMAIN m \ {k} : Delete(m, k)[x] = m[x]
  <1>1. Delete(m, k) \in [DOMAIN m \ {k} -> V]
      BY MapParts DEF Delete
  <1>2. DOMAIN m \ {k} \in SUBSET K
      BY MapParts
  <1>3. Delete(m, k) \in Map(K, V)
      BY <1>1, <1>2, IsMap
  <1> QED BY <1>3 DEF Delete

LEMMA DeleteIs ==
    ASSUME NEW m, NEW k
    PROVE  /\ DOMAIN Delete(m, k) = DOMAIN m \ {k}
           /\ \A x \in DOMAIN m \ {k} : Delete(m, k)[x] = m[x]
  BY DEF Delete

LEMMA PruneTyped ==
    ASSUME NEW k, NEW eps \in EndpointsObject, NEW services, NEW nodes
    PROVE  pruneEndpoints(k, eps, services, nodes) \in SUBSET Address
  <1>1. eps.on \in SUBSET Address
      OBVIOUS
  <1>2. genLocalEndpoints(k, eps) \in SUBSET Address
      BY <1>1 DEF genLocalEndpoints, Address
  <1> QED BY <1>2 DEF pruneEndpoints, filterConcernedAddress

LEMMA EventTyped ==
    ASSUME NEW k \in Svc, NEW o \in SUBSET Address
    PROVE  /\ Evt("MODIFIED", k, o) \in Event("endpoints")
           /\ Evt("ADDED", k, o) \in Event("endpoints")
           /\ Evt("DELETED", k, o) \in Event("endpoints")
  BY DEF Evt, Event, Object

(* A rebuild prunes everything anew and tells of what became different.      *)
LEMMA RebuildTyped ==
    ASSUME TypeOK, NEW h \in Informer, NEW services, NEW nodes,
           Rebuild(h, services, nodes)
    PROVE  /\ EndpointsOK' /\ PendOK' /\ DOMAIN endpointsMap' = DOMAIN endpointsMap
           /\ \A k \in DOMAIN endpointsMap :
                 /\ endpointsMap'[k].c = endpointsMap[k].c
                 /\ endpointsMap'[k].modified =
                        pruneEndpoints(k, endpointsMap[k].c, services, nodes)
  <1> DEFINE new == rebuildEndpointsMap(services, nodes)
             D == DOMAIN endpointsMap
  <1>1. D \in SUBSET Svc /\ \A k \in D : endpointsMap[k] \in Container
      BY Parts, MapParts DEF EndpointsOK
  <1>2. \A k \in D : endpointsMap[k].c \in EndpointsObject
      BY <1>1 DEF Container
  <1>3. ASSUME NEW k \in D
        PROVE  /\ new[k] \in Container /\ new[k].c = endpointsMap[k].c
               /\ new[k].modified = pruneEndpoints(k, endpointsMap[k].c, services, nodes)
    <2> DEFINE p == pruneEndpoints(k, endpointsMap[k].c, services, nodes)
    <2>1. p \in SUBSET Address
        BY <1>2, PruneTyped
    <2>2. new[k] = [endpointsMap[k] EXCEPT !.modified = p]
        BY DEF rebuildEndpointsMap
    <2> HIDE DEF new, p
    <2>3. endpointsMap[k] \in Container
        BY <1>1
    <2> QED BY <2>1, <2>2, <2>3 DEF Container, p
  <1>4. DOMAIN new = D /\ new = [k \in D |-> new[k]]
      BY DEF rebuildEndpointsMap
  <1>5. endpointsMap' = new /\ pend' = [pend EXCEPT ![h] = changedEps(new)]
      BY DEF Rebuild
  <1> HIDE DEF new
  <1>6. new \in [D -> Container]
      BY <1>3, <1>4
  <1>7. EndpointsOK'
      BY <1>1, <1>5, <1>6, IsMap DEF EndpointsOK
  <1>8. changedEps(new) \in SUBSET Event("endpoints")
    <2>1. ASSUME NEW k \in D PROVE Evt("MODIFIED", k, new[k].modified) \in Event("endpoints")
      <3>1. k \in Svc /\ new[k].modified \in SUBSET Address
          BY <1>1, <1>3 DEF Container
      <3> QED BY <3>1, EventTyped
    <2> QED BY <2>1, <1>4 DEF changedEps
  <1>9. PendOK'
      BY <1>5, <1>8, Parts DEF PendOK
  <1> QED BY <1>3, <1>4, <1>5, <1>7, <1>9

(* What telling a handler changes.                                           *)
LEMMA TellsTyped ==
    ASSUME TypeOK, NEW h \in Informer, NEW type, NEW k \in Named(h), Tells(h, type, k),
           restarts' = restarts
    PROVE  /\ KnownOK' /\ CountsOK' /\ held = {}
           /\ \A x \in Informer \ {h} : known'[x] = known[x]
           /\ known'[h] \subseteq known[h] \cup {k}
           /\ type = "DELETED" => known'[h] = known[h] \ {k}
           /\ type \notin {"ADDED"} => k \in known[h]
  <1>1. known \in [Informer -> SUBSET (Svc \cup Node)]
      BY Parts DEF KnownOK
  <1>2. known' = [known EXCEPT ![h] = IF type = "DELETED" THEN @ \ {k} ELSE @ \cup {k}]
      BY DEF Tells
  <1>3. k \in Svc \cup Node
      BY DEF Named
  <1>4. CASE type = "DELETED"
    <2>1. known' = [known EXCEPT ![h] = @ \ {k}]
        BY <1>2, <1>4
    <2> QED BY <2>1, <1>1, <1>4, Parts DEF KnownOK, Tells, Unlocked, CountsOK
  <1>5. CASE type # "DELETED"
    <2>1. known' = [known EXCEPT ![h] = @ \cup {k}]
        BY <1>2, <1>5
    <2>2. known' \in [Informer -> SUBSET (Svc \cup Node)]
        BY <2>1, <1>1, <1>3
    <2>3. \A x \in Informer : known'[x] \subseteq Named(x)
        BY <2>1, <1>1, Parts DEF KnownOK
    <2> QED BY <2>1, <2>2, <2>3, <1>1, <1>5, Parts DEF KnownOK, Tells, Unlocked, CountsOK
  <1> QED BY <1>4, <1>5

LEMMA SendTyped ==
    ASSUME TypeOK, NEW r \in Watched, NEW e \in Event(r), Send(r, e)
    PROVE  ChanOK'
  <1>1. /\ DOMAIN chan = Watched /\ Len(chan[r]) < ChannelSize
        /\ \A x \in Watched : chan[x] \in Seq(Event(x)) /\ Len(chan[x]) <= ChannelSize
        /\ chan' = [chan EXCEPT ![r] = Append(@, e)]
      BY Parts DEF ChanOK, Send
  <1>2. /\ Append(chan[r], e) \in Seq(Event(r))
        /\ Len(Append(chan[r], e)) = Len(chan[r]) + 1 /\ Len(chan[r]) \in Nat
      BY <1>1
  <1>3. DOMAIN chan' = Watched /\ chan'[r] = Append(chan[r], e)
      BY <1>1
  <1>4. \A x \in Watched \ {r} : chan'[x] = chan[x]
      BY <1>1
  <1>5. Len(chan'[r]) <= ChannelSize
      BY <1>1, <1>2, <1>3
  <1> QED BY <1>1, <1>2, <1>3, <1>4, <1>5 DEF ChanOK

LEMMA TakeTyped ==
    ASSUME TypeOK, NEW r \in Watched, chan[r] # <<>>,
           chan' = [chan EXCEPT ![r] = Tail(@)]
    PROVE  ChanOK' /\ Head(chan[r]) \in Event(r)
  <1>1. /\ DOMAIN chan = Watched
        /\ \A x \in Watched : chan[x] \in Seq(Event(x)) /\ Len(chan[x]) <= ChannelSize
      BY Parts DEF ChanOK
  <1>2. /\ Tail(chan[r]) \in Seq(Event(r)) /\ Head(chan[r]) \in Event(r)
        /\ Len(Tail(chan[r])) = Len(chan[r]) - 1 /\ Len(chan[r]) \in Nat
      BY <1>1
  <1>3. DOMAIN chan' = Watched /\ chan'[r] = Tail(chan[r])
      BY <1>1
  <1>4. \A x \in Watched \ {r} : chan'[x] = chan[x]
      BY <1>1
  <1>5. Len(chan'[r]) <= ChannelSize
      BY <1>1, <1>2, <1>3
  <1> QED BY <1>1, <1>2, <1>3, <1>4, <1>5 DEF ChanOK
-----------------------------------------------------------------------------
(* What a step tells the handlers, in the terms of GridView.                 *)
ToldStep ==
    \/ told' = told
    \/ /\ Grid!Told(toldServices, toldServices', Svc, SUBSET Key)
       /\ toldEndpoints' = toldEndpoints /\ toldNodes' = toldNodes
    \/ /\ Grid!Told(toldEndpoints, toldEndpoints', Svc, EndpointsObject)
       /\ toldServices' = toldServices /\ toldNodes' = toldNodes
    \/ /\ Grid!Told(toldNodes, toldNodes', Node, Labels)
       /\ toldServices' = toldServices /\ toldEndpoints' = toldEndpoints

LEMMA OnTombstoneStep ==
    ASSUME IInv, NEW h \in Informer, NEW k \in Named(h), OnTombstone(h, k)
    PROVE  IInv' /\ ToldStep
  <1>1. TypeOK /\ Faithful /\ Stored
      BY DEF IInv
  <1>2. /\ Tells(h, "DELETED", k) /\ told' = told /\ cache' = cache
        /\ held' = held /\ pend' = pend /\ chan' = chan /\ phase' = phase /\ store' = store
        /\ old' = old /\ stolen' = stolen /\ restarts' = restarts
      BY DEF OnTombstone, told, cache, sends, proxy
  <1>3. /\ KnownOK' /\ CountsOK' /\ \A x \in Informer \ {h} : known'[x] = known[x]
        /\ known'[h] = known[h] \ {k}
      BY <1>1, <1>2, TellsTyped
  <1>4. TypeOK'
    <2>1. /\ servicesMap' = servicesMap /\ nodesMap' = nodesMap
          /\ endpointsMap' = endpointsMap
        BY <1>2 DEF cache
    <2> QED BY <1>1, <1>2, <1>3, <2>1, Kept, PartsNext
  <1>5. Stored'
      BY <1>1, <1>2, <1>3, Names DEF Stored, cache
  <1> QED BY <1>1, <1>2, <1>4, <1>5, FaithfulKept DEF IInv, ToldStep

LEMMA OnServiceStep ==
    ASSUME IInv, NEW e \in Event("services"), OnService(e)
    PROVE  IInv' /\ ToldStep
  <1>1. TypeOK /\ Faithful /\ Stored
      BY DEF IInv
  <1>2. /\ Tells("services", e.type, e.key) /\ told' = told /\ cache' = cache
        /\ pend' = pend /\ chan' = chan /\ phase' = phase /\ store' = store
        /\ old' = old /\ stolen' = stolen /\ restarts' = restarts
        /\ \/ held' = {}
           \/ held' = {e} /\ (e.type = "MODIFIED" => e.key \in DOMAIN servicesMap)
      BY DEF OnService, told, cache, proxy
  <1>3. e.key \in Named("services")
      BY DEF Event, Named
  <1>4. /\ KnownOK' /\ CountsOK'
        /\ known'["nodes"] = known["nodes"] /\ known'["endpoints"] = known["endpoints"]
      BY <1>1, <1>2, <1>3, TellsTyped, Names
  <1>5. HeldOK'
      BY <1>2 DEF HeldOK
  <1>6. TypeOK'
    <2>1. /\ servicesMap' = servicesMap /\ nodesMap' = nodesMap
          /\ endpointsMap' = endpointsMap
        BY <1>2 DEF cache
    <2> QED BY <1>1, <1>2, <1>4, <1>5, <2>1, Kept, PartsNext
  <1>7. Stored'
      BY <1>1, <1>2, <1>4 DEF Stored, cache
  <1> QED BY <1>1, <1>2, <1>6, <1>7, FaithfulKept DEF IInv, ToldStep

LEMMA SendServiceStep ==
    ASSUME IInv, SendService
    PROVE  IInv' /\ ToldStep
  <1>1. TypeOK /\ Faithful /\ Stored
      BY DEF IInv
  <1> PICK e \in held :
          /\ Notify(e) /\ held' = {}
          /\ toldServices' = IF e.type = "DELETED" THEN Delete(toldServices, e.key)
                             ELSE Put(toldServices, e.key, e.object)
          /\ IF SameKeys(e) THEN UNCHANGED <<servicesMap, endpointsMap, pend>>
             ELSE /\ servicesMap' = IF e.type = "DELETED" THEN Delete(servicesMap, e.key)
                                    ELSE Put(servicesMap, e.key, e.object)
                  /\ Rebuild("services", servicesMap', nodesMap)
          /\ UNCHANGED <<known, toldEndpoints, toldNodes, nodesMap, proxy, events>>
      BY DEF SendService
  <1>2. e \in Event("services") /\ e.key \in Svc /\ e.object \in SUBSET Key
      BY <1>1, Parts DEF HeldOK, Event, Object
  <1>3. ChanOK' /\ HeldOK'
      BY <1>1, <1>2, SendTyped, Names DEF Notify, HeldOK
  <1>4. /\ toldServices \in Map(Svc, SUBSET Key) /\ toldEndpoints \in Map(Svc, EndpointsObject)
        /\ toldNodes \in Map(Node, Labels) /\ servicesMap = toldServices
      BY <1>1, Parts DEF ToldOK, Faithful
  <1>5. toldServices' \in Map(Svc, SUBSET Key)
      BY <1>2, <1>4, PutTyped, DeleteTyped
  <1>6. ToldOK' /\ ToldStep
    <2>1. ToldOK'
        BY <1>4, <1>5 DEF ToldOK
    <2>2. Grid!Told(toldServices, toldServices', Svc, SUBSET Key)
        BY <1>2 DEF Grid!Told, Put, Delete, Grid!Put, Grid!Delete
    <2> QED BY <2>1, <2>2 DEF ToldStep
  <1>7. /\ known' = known /\ nodesMap' = nodesMap /\ store' = store /\ stolen' = stolen
        /\ phase' = phase /\ old' = old /\ events' = events /\ restarts' = restarts
        /\ toldEndpoints' = toldEndpoints /\ toldNodes' = toldNodes
      BY DEF proxy
  <1>8. /\ KnownOK' /\ NodesOK' /\ StoreOK' /\ StolenOK' /\ PhaseOK' /\ CountsOK'
      BY <1>1, <1>7, Kept
  <1>9. CASE SameKeys(e)
    <2>1. servicesMap' = servicesMap /\ endpointsMap' = endpointsMap /\ pend' = pend
        BY <1>9
    <2>2. ServicesOK' /\ EndpointsOK' /\ PendOK'
        BY <1>1, <2>1, Kept
    <2>3. toldServices' = toldServices
      <3>1. e.key \in DOMAIN servicesMap /\ servicesMap[e.key] = e.object /\ e.type = "MODIFIED"
          BY <1>1, <1>9 DEF SameKeys, Stored
      <3> QED BY <3>1, <1>4, MapParts DEF Put
    <2>4. TypeOK'
        BY <1>3, <1>6, <1>8, <2>2, PartsNext
    <2>5. Faithful'
        BY <1>1, <1>7, <2>1, <2>3 DEF Faithful, Pruning
    <2>6. Stored'
        BY <1>1, <1>7, <2>1 DEF Stored
    <2> QED BY <1>6, <2>4, <2>5, <2>6 DEF IInv
  <1>10. CASE ~SameKeys(e)
    <2>1. servicesMap' = toldServices' /\ Rebuild("services", servicesMap', nodesMap)
        BY <1>10, <1>4
    <2>2. ServicesOK'
        BY <1>5, <2>1 DEF ServicesOK
    <2>3. /\ EndpointsOK' /\ PendOK' /\ DOMAIN endpointsMap' = DOMAIN endpointsMap
          /\ \A k \in DOMAIN endpointsMap :
                /\ endpointsMap'[k].c = endpointsMap[k].c
                /\ endpointsMap'[k].modified =
                       pruneEndpoints(k, endpointsMap[k].c, servicesMap', nodesMap)
        BY <1>1, <2>1, RebuildTyped, Names
    <2>4. TypeOK'
        BY <1>3, <1>6, <1>8, <2>2, <2>3, PartsNext
    <2>5. Faithful'
        BY <1>1, <1>7, <2>1, <2>3 DEF Faithful, Pruning
    <2>6. Stored'
        BY <1>1, <1>7, <2>3 DEF Stored
    <2> QED BY <1>6, <2>4, <2>5, <2>6 DEF IInv
  <1> QED BY <1>9, <1>10

LEMMA SetNodeStep ==
    ASSUME IInv, NEW type \in {"ADDED", "MODIFIED"}, NEW k \in Node, NEW labels \in Labels,
           SetNode(type, k, labels)
    PROVE  IInv' /\ ToldStep
  <1>1. TypeOK /\ Faithful /\ Stored
      BY DEF IInv
  <1>2. /\ Tells("nodes", type, k) /\ toldNodes' = Put(toldNodes, k, labels)
        /\ toldServices' = toldServices /\ toldEndpoints' = toldEndpoints
        /\ servicesMap' = servicesMap /\ held' = held /\ chan' = chan /\ phase' = phase
        /\ store' = store /\ old' = old /\ stolen' = stolen /\ restarts' = restarts
      BY DEF SetNode, proxy
  <1>3. k \in Named("nodes")
      BY DEF Named
  <1>4. /\ KnownOK' /\ CountsOK' /\ known'["endpoints"] = known["endpoints"]
        /\ known'["nodes"] \subseteq known["nodes"] \cup {k}
        /\ type = "MODIFIED" => k \in known["nodes"]
      BY <1>1, <1>2, <1>3, TellsTyped, Names
  <1>5. /\ toldServices \in Map(Svc, SUBSET Key) /\ toldEndpoints \in Map(Svc, EndpointsObject)
        /\ toldNodes \in Map(Node, Labels) /\ nodesMap = toldNodes
      BY <1>1, Parts DEF ToldOK, Faithful
  <1>6. /\ toldNodes' \in Map(Node, Labels) /\ DOMAIN toldNodes' = DOMAIN nodesMap \cup {k}
      BY <1>2, <1>5, PutTyped
  <1>7. ToldOK' /\ ToldStep
    <2>1. Grid!Told(toldNodes, toldNodes', Node, Labels)
        BY <1>2 DEF Grid!Told, Put, Grid!Put
    <2> QED BY <2>1, <1>2, <1>5, <1>6 DEF ToldOK, ToldStep
  <1>8. ServicesOK' /\ HeldOK' /\ ChanOK' /\ StoreOK' /\ StolenOK' /\ PhaseOK'
      BY <1>1, <1>2, Kept
  <1>9. CASE type = "MODIFIED" /\ (k \notin DOMAIN nodesMap \/ SameLabels(k, labels))
    <2>1. nodesMap' = nodesMap /\ endpointsMap' = endpointsMap /\ pend' = pend
        BY <1>9 DEF SetNode
    <2>2. NodesOK' /\ EndpointsOK' /\ PendOK'
        BY <1>1, <2>1, Kept
    <2>3. k \in DOMAIN nodesMap /\ nodesMap[k] = labels
        BY <1>1, <1>4, <1>9 DEF Stored, SameLabels
    <2>4. toldNodes' = toldNodes
        BY <1>2, <1>5, <2>3, MapParts DEF Put
    <2>5. TypeOK'
        BY <1>4, <1>7, <1>8, <2>2, PartsNext
    <2>6. Faithful'
        BY <1>1, <1>2, <2>1, <2>4 DEF Faithful, Pruning
    <2>7. Stored'
        BY <1>1, <1>2, <1>4, <2>1, <2>3 DEF Stored
    <2> QED BY <1>7, <2>5, <2>6, <2>7 DEF IInv
  <1>10. CASE ~(type = "MODIFIED" /\ (k \notin DOMAIN nodesMap \/ SameLabels(k, labels)))
    <2>1. nodesMap' = toldNodes' /\ Rebuild("nodes", servicesMap, nodesMap')
        BY <1>2, <1>5, <1>10 DEF SetNode
    <2>2. NodesOK'
        BY <1>6, <2>1 DEF NodesOK
    <2>3. /\ EndpointsOK' /\ PendOK' /\ DOMAIN endpointsMap' = DOMAIN endpointsMap
          /\ \A x \in DOMAIN endpointsMap :
                /\ endpointsMap'[x].c = endpointsMap[x].c
                /\ endpointsMap'[x].modified =
                       pruneEndpoints(x, endpointsMap[x].c, servicesMap, nodesMap')
        BY <1>1, <2>1, RebuildTyped, Names
    <2>4. TypeOK'
        BY <1>4, <1>7, <1>8, <2>2, <2>3, PartsNext
    <2>5. Faithful'
        BY <1>1, <1>2, <2>1, <2>3 DEF Faithful, Pruning
    <2>6. Stored'
        BY <1>1, <1>2, <1>4, <1>6, <2>1, <2>3 DEF Stored
    <2> QED BY <1>7, <2>4, <2>5, <2>6 DEF IInv
  <1> QED BY <1>9, <1>10

LEMMA DeleteNodeStep ==
    ASSUME IInv, NEW k \in Node, DeleteNode(k)
    PROVE  IInv' /\ ToldStep
  <1>1. TypeOK /\ Faithful /\ Stored
      BY DEF IInv
  <1>2. /\ Tells("nodes", "DELETED", k) /\ toldNodes' = Delete(toldNodes, k)
        /\ nodesMap' = Delete(nodesMap, k) /\ Rebuild("nodes", servicesMap, nodesMap')
        /\ toldServices' = toldServices /\ toldEndpoints' = toldEndpoints
        /\ servicesMap' = servicesMap /\ held' = held /\ chan' = chan /\ phase' = phase
        /\ store' = store /\ old' = old /\ stolen' = stolen /\ restarts' = restarts
      BY DEF DeleteNode, proxy
  <1>3. k \in Named("nodes")
      BY DEF Named
  <1>4. /\ KnownOK' /\ CountsOK' /\ known'["endpoints"] = known["endpoints"]
        /\ known'["nodes"] = known["nodes"] \ {k}
      BY <1>1, <1>2, <1>3, TellsTyped, Names
  <1>5. /\ toldServices \in Map(Svc, SUBSET Key) /\ toldEndpoints \in Map(Svc, EndpointsObject)
        /\ toldNodes \in Map(Node, Labels) /\ nodesMap = toldNodes
      BY <1>1, Parts DEF ToldOK, Faithful
  <1>6. /\ toldNodes' \in Map(Node, Labels) /\ DOMAIN toldNodes' = DOMAIN nodesMap \ {k}
        /\ nodesMap' = toldNodes'
    <2>1. nodesMap' = Delete(toldNodes, k) /\ toldNodes' = Delete(toldNodes, k)
        BY <1>2, <1>5
    <2>2. /\ Delete(toldNodes, k) \in Map(Node, Labels)
          /\ DOMAIN Delete(toldNodes, k) = DOMAIN toldNodes \ {k}
      <3>1. Delete(toldNodes, k) \in Map(Node, Labels)
          BY <1>5, DeleteTyped
      <3> QED BY <3>1, DeleteIs
    <2> QED BY <2>1, <2>2, <1>5
  <1>7. ToldOK' /\ ToldStep
    <2>1. Grid!Told(toldNodes, toldNodes', Node, Labels)
        BY <1>2 DEF Grid!Told, Delete, Grid!Delete
    <2> QED BY <2>1, <1>2, <1>5, <1>6 DEF ToldOK, ToldStep
  <1>8. /\ ServicesOK' /\ HeldOK' /\ ChanOK' /\ StoreOK' /\ StolenOK' /\ PhaseOK'
        /\ NodesOK'
      BY <1>1, <1>2, <1>6, Kept DEF NodesOK
  <1>9. /\ EndpointsOK' /\ PendOK' /\ DOMAIN endpointsMap' = DOMAIN endpointsMap
        /\ \A x \in DOMAIN endpointsMap :
              /\ endpointsMap'[x].c = endpointsMap[x].c
              /\ endpointsMap'[x].modified =
                     pruneEndpoints(x, endpointsMap[x].c, servicesMap, nodesMap')
      BY <1>1, <1>2, RebuildTyped, Names
  <1>10. TypeOK'
      BY <1>4, <1>7, <1>8, <1>9, PartsNext
  <1>11. Faithful'
      BY <1>1, <1>2, <1>6, <1>9 DEF Faithful, Pruning
  <1>12. Stored'
      BY <1>1, <1>2, <1>4, <1>6, <1>9 DEF Stored
  <1> QED BY <1>7, <1>10, <1>11, <1>12 DEF IInv

LEMMA SetEndpointsStep ==
    ASSUME IInv, NEW type \in {"ADDED", "MODIFIED"}, NEW k \in Svc,
           NEW eps \in EndpointsObject, SetEndpoints(type, k, eps)
    PROVE  IInv' /\ ToldStep
  <1> DEFINE new == pruneEndpoints(k, eps, servicesMap, nodesMap)
             box == [c |-> eps, modified |-> new]
  <1>1. TypeOK /\ Faithful /\ Stored
      BY DEF IInv
  <1>2. /\ Tells("endpoints", type, k) /\ toldEndpoints' = Put(toldEndpoints, k, eps)
        /\ toldServices' = toldServices /\ toldNodes' = toldNodes
        /\ servicesMap' = servicesMap /\ nodesMap' = nodesMap /\ held' = held /\ chan' = chan
        /\ phase' = phase /\ store' = store /\ old' = old /\ stolen' = stolen
        /\ restarts' = restarts
      BY DEF SetEndpoints, proxy
  <1>3. k \in Named("endpoints")
      BY DEF Named
  <1>4. /\ KnownOK' /\ CountsOK' /\ known'["nodes"] = known["nodes"]
        /\ known'["endpoints"] \subseteq known["endpoints"] \cup {k}
        /\ type = "MODIFIED" => k \in known["endpoints"]
      BY <1>1, <1>2, <1>3, TellsTyped, Names
  <1>5. /\ toldServices \in Map(Svc, SUBSET Key) /\ toldEndpoints \in Map(Svc, EndpointsObject)
        /\ toldNodes \in Map(Node, Labels)
      BY <1>1, Parts DEF ToldOK
  <1>6. /\ toldEndpoints' \in Map(Svc, EndpointsObject)
        /\ DOMAIN toldEndpoints' = DOMAIN toldEndpoints \cup {k}
        /\ toldEndpoints'[k] = eps
        /\ \A x \in DOMAIN toldEndpoints \ {k} : toldEndpoints'[x] = toldEndpoints[x]
      BY <1>2, <1>5, PutTyped
  <1>7. ToldOK' /\ ToldStep
    <2>1. Grid!Told(toldEndpoints, toldEndpoints', Svc, EndpointsObject)
        BY <1>2 DEF Grid!Told, Put, Grid!Put
    <2> QED BY <2>1, <1>2, <1>5, <1>6 DEF ToldOK, ToldStep
  <1>8. /\ ServicesOK' /\ NodesOK' /\ HeldOK' /\ ChanOK' /\ StoreOK' /\ StolenOK' /\ PhaseOK'
      BY <1>1, <1>2, Kept
  <1>9. new \in SUBSET Address /\ box \in Container
      BY PruneTyped DEF Container
  <1>10. ~(type = "MODIFIED" /\ k \notin DOMAIN endpointsMap)
      BY <1>1, <1>4 DEF Stored
  <1>11. /\ endpointsMap' = Put(endpointsMap, k, box)
         /\ \/ pend' = [pend EXCEPT !["endpoints"] = {}]
            \/ pend' = [pend EXCEPT !["endpoints"] = {Evt(type, k, new)}]
      BY <1>10 DEF SetEndpoints
  <1> HIDE DEF new, box
  <1>12. /\ endpointsMap' \in Map(Svc, Container)
         /\ DOMAIN endpointsMap' = DOMAIN endpointsMap \cup {k} /\ endpointsMap'[k] = box
         /\ \A x \in DOMAIN endpointsMap \ {k} : endpointsMap'[x] = endpointsMap[x]
    <2>1. endpointsMap \in Map(Svc, Container)
        BY <1>1, Parts DEF EndpointsOK
    <2>2. Put(endpointsMap, k, box) \in Map(Svc, Container)
        BY <1>9, <2>1, PutTyped
    <2>3. endpointsMap' = [x \in DOMAIN endpointsMap \cup {k} |->
                                IF x = k THEN box ELSE endpointsMap[x]]
        BY <1>11 DEF Put
    <2> QED BY <1>11, <2>2, <2>3
  <1>13. PendOK'
    <2>1. Evt(type, k, new) \in Event("endpoints")
        BY <1>9, EventTyped
    <2> QED BY <1>1, <1>11, <2>1, Parts DEF PendOK
  <1>14. TypeOK'
      BY <1>4, <1>7, <1>8, <1>12, <1>13, PartsNext DEF EndpointsOK
  <1>15. Faithful'
    <2>1. box.c = eps /\ box.modified = new
        BY DEF box
    <2>2. ASSUME NEW x \in DOMAIN endpointsMap'
          PROVE  /\ endpointsMap'[x].c = toldEndpoints'[x]
                 /\ endpointsMap'[x].modified =
                        pruneEndpoints(x, endpointsMap'[x].c, servicesMap, nodesMap)
      <3>1. CASE x = k
          BY <3>1, <1>6, <1>12, <2>1 DEF new
      <3>2. CASE x # k
          BY <3>2, <1>1, <1>6, <1>12 DEF Faithful, Pruning
      <3> QED BY <3>1, <3>2
    <2>3. DOMAIN endpointsMap' = DOMAIN toldEndpoints'
        BY <1>1, <1>6, <1>12 DEF Faithful
    <2> QED BY <1>1, <1>2, <2>2, <2>3 DEF Faithful, Pruning
  <1>16. Stored'
      BY <1>1, <1>2, <1>4, <1>12 DEF Stored
  <1> QED BY <1>7, <1>14, <1>15, <1>16 DEF IInv

LEMMA DeleteEndpointsStep ==
    ASSUME IInv, NEW k \in Svc, DeleteEndpoints(k)
    PROVE  IInv' /\ ToldStep
  <1>1. TypeOK /\ Faithful /\ Stored
      BY DEF IInv
  <1>2. /\ Tells("endpoints", "DELETED", k) /\ toldEndpoints' = Delete(toldEndpoints, k)
        /\ toldServices' = toldServices /\ toldNodes' = toldNodes
        /\ servicesMap' = servicesMap /\ nodesMap' = nodesMap /\ held' = held /\ chan' = chan
        /\ phase' = phase /\ store' = store /\ old' = old /\ stolen' = stolen
        /\ restarts' = restarts
      BY DEF DeleteEndpoints, proxy
  <1>3. k \in Named("endpoints")
      BY DEF Named
  <1>4. /\ KnownOK' /\ CountsOK' /\ known'["nodes"] = known["nodes"]
        /\ known'["endpoints"] = known["endpoints"] \ {k} /\ k \in known["endpoints"]
      BY <1>1, <1>2, <1>3, TellsTyped, Names
  <1>5. /\ toldServices \in Map(Svc, SUBSET Key) /\ toldEndpoints \in Map(Svc, EndpointsObject)
        /\ toldNodes \in Map(Node, Labels) /\ endpointsMap \in Map(Svc, Container)
      BY <1>1, Parts DEF ToldOK, EndpointsOK
  <1>6. /\ toldEndpoints' \in Map(Svc, EndpointsObject)
        /\ DOMAIN toldEndpoints' = DOMAIN toldEndpoints \ {k}
        /\ \A x \in DOMAIN toldEndpoints \ {k} : toldEndpoints'[x] = toldEndpoints[x]
    <2>1. toldEndpoints \in Map(Svc, EndpointsObject)
        BY <1>5
    <2>2. /\ Delete(toldEndpoints, k) \in Map(Svc, EndpointsObject)
          /\ DOMAIN Delete(toldEndpoints, k) = DOMAIN toldEndpoints \ {k}
          /\ \A x \in DOMAIN toldEndpoints \ {k} :
                Delete(toldEndpoints, k)[x] = toldEndpoints[x]
      <3>1. Delete(toldEndpoints, k) \in Map(Svc, EndpointsObject)
          BY <2>1, DeleteTyped
      <3> QED BY <3>1, DeleteIs
    <2> QED BY <1>2, <2>2
  <1>7. ToldOK' /\ ToldStep
    <2>1. Grid!Told(toldEndpoints, toldEndpoints', Svc, EndpointsObject)
        BY <1>2 DEF Grid!Told, Delete, Grid!Delete
    <2> QED BY <2>1, <1>2, <1>5, <1>6 DEF ToldOK, ToldStep
  <1>8. /\ ServicesOK' /\ NodesOK' /\ HeldOK' /\ ChanOK' /\ StoreOK' /\ StolenOK' /\ PhaseOK'
      BY <1>1, <1>2, Kept
  <1>9. k \in DOMAIN endpointsMap
      BY <1>1, <1>4 DEF Stored
  <1>10. /\ endpointsMap' = Delete(endpointsMap, k)
         /\ pend' = [pend EXCEPT !["endpoints"] =
                         {Evt("DELETED", k, endpointsMap[k].modified)}]
      BY <1>9 DEF DeleteEndpoints
  <1>11. /\ endpointsMap' \in Map(Svc, Container)
         /\ DOMAIN endpointsMap' = DOMAIN endpointsMap \ {k}
         /\ \A x \in DOMAIN endpointsMap \ {k} : endpointsMap'[x] = endpointsMap[x]
    <2>1. endpointsMap \in Map(Svc, Container)
        BY <1>5
    <2>2. /\ Delete(endpointsMap, k) \in Map(Svc, Container)
          /\ DOMAIN Delete(endpointsMap, k) = DOMAIN endpointsMap \ {k}
          /\ \A x \in DOMAIN endpointsMap \ {k} : Delete(endpointsMap, k)[x] = endpointsMap[x]
      <3>1. Delete(endpointsMap, k) \in Map(Svc, Container)
          BY <2>1, DeleteTyped
      <3> QED BY <3>1, DeleteIs
    <2> QED BY <1>10, <2>2
  <1>12. PendOK'
    <2>1. endpointsMap[k] \in Container
        BY <1>5, <1>9, MapParts
    <2>2. Evt("DELETED", k, endpointsMap[k].modified) \in Event("endpoints")
        BY <2>1, EventTyped DEF Container
    <2> QED BY <1>1, <1>10, <2>2, Parts DEF PendOK
  <1>13. TypeOK'
      BY <1>4, <1>7, <1>8, <1>11, <1>12, PartsNext DEF EndpointsOK
  <1>14. Faithful'
      BY <1>1, <1>2, <1>6, <1>11 DEF Faithful, Pruning
  <1>15. Stored'
      BY <1>1, <1>2, <1>4, <1>11 DEF Stored
  <1> QED BY <1>7, <1>13, <1>14, <1>15 DEF IInv

(* The sends, the lists and the watches leave the cache alone.               *)
LEMMA CacheKept ==
    ASSUME Faithful, Stored, told' = told, cache' = cache, known' = known, held' = held
    PROVE  Faithful' /\ Stored' /\ ToldStep
  BY FaithfulKept DEF Stored, ToldStep, cache

LEMMA SendEndpointsStep ==
    ASSUME IInv, NEW h \in Informer, SendEndpoints(h)
    PROVE  IInv' /\ ToldStep
  <1>1. TypeOK /\ Faithful /\ Stored
      BY DEF IInv
  <1> PICK e \in pend[h] :
          /\ Send("endpoints", e) /\ pend' = [pend EXCEPT ![h] = @ \ {e}]
          /\ UNCHANGED <<known, told, cache, held, proxy, events>>
      BY DEF SendEndpoints
  <1>2. pend \in [Informer -> SUBSET Event("endpoints")]
      BY <1>1, Parts DEF PendOK
  <1>3. ChanOK' /\ PendOK'
      BY <1>1, <1>2, SendTyped, Names DEF PendOK
  <1>4. TypeOK'
      BY <1>1, <1>3, Kept, PartsNext DEF cache, proxy
  <1> QED BY <1>1, <1>4, CacheKept DEF IInv

LEMMA ViewTyped ==
    ASSUME TypeOK, NEW r \in Watched
    PROVE  View(r) \in Map(Svc, Object(r))
  <1>1. CASE r = "services"
      BY <1>1, Parts DEF View, Object, ServicesOK
  <1>2. CASE r # "services"
    <2>1. endpointsMap \in Map(Svc, Container)
        BY Parts DEF EndpointsOK
    <2>2. DOMAIN endpointsMap \in SUBSET Svc
        BY <2>1, MapParts
    <2>3. \A k \in DOMAIN endpointsMap : endpointsMap[k].modified \in SUBSET Address
      <3>1. \A k \in DOMAIN endpointsMap : endpointsMap[k] \in Container
          BY ONLY <2>1, MapParts, Zenon
      <3> QED BY <3>1 DEF Container
    <2>4. View(r) \in [DOMAIN endpointsMap -> SUBSET Address]
        BY <1>2, <2>3 DEF View
    <2> QED BY <1>2, <2>2, <2>4, IsMap DEF Object
  <1> QED BY <1>1, <1>2

LEMMA StoreTyped ==
    ASSUME TypeOK, NEW r \in Watched, NEW m \in Map(Svc, Object(r)),
           store' = [store EXCEPT ![r] = m]
    PROVE  StoreOK'
  BY Parts DEF StoreOK

LEMMA ListStep ==
    ASSUME IInv, NEW r \in Watched, List(r)
    PROVE  IInv' /\ ToldStep
  <1>1. TypeOK /\ Faithful /\ Stored
      BY DEF IInv
  <1>2. StoreOK'
      BY <1>1, ViewTyped, StoreTyped DEF List
  <1>3. PhaseOK'
      BY <1>1, Parts DEF PhaseOK, List
  <1>4. TypeOK'
      BY <1>1, <1>2, <1>3, Kept, PartsNext DEF List, cache, sends
  <1> QED BY <1>1, <1>4, CacheKept DEF IInv, List, sends

LEMMA WatchStep ==
    ASSUME IInv, NEW r \in Watched, Watch(r)
    PROVE  IInv' /\ ToldStep
  <1>1. TypeOK /\ Faithful /\ Stored
      BY DEF IInv
  <1>2. ChanOK' /\ Head(chan[r]) \in Event(r)
      BY <1>1, TakeTyped DEF Watch
  <1>3. store[r] \in Map(Svc, Object(r))
      BY <1>1, Parts DEF StoreOK
  <1>4. Head(chan[r]).key \in Svc /\ Head(chan[r]).object \in Object(r)
      BY <1>2 DEF Event
  <1>5. Apply(store[r], Head(chan[r])) \in Map(Svc, Object(r))
      BY <1>3, <1>4, PutTyped, DeleteTyped DEF Apply
  <1>6. StoreOK'
      BY <1>1, <1>5, StoreTyped DEF Watch
  <1>7. TypeOK'
      BY <1>1, <1>2, <1>6, Kept, PartsNext DEF Watch, cache, sends
  <1> QED BY <1>1, <1>7, CacheKept DEF IInv, Watch, sends

LEMMA NoMapTyped == ASSUME NEW K, NEW V PROVE NoMap \in Map(K, V)
  <1>1. NoMap \in [{} -> V] /\ {} \in SUBSET K
      BY DEF NoMap
  <1> QED BY ONLY <1>1, IsMap, Zenon

LEMMA RestartStep ==
    ASSUME IInv, Restart
    PROVE  IInv' /\ ToldStep
  <1>1. TypeOK /\ Faithful /\ Stored
      BY DEF IInv
  <1>2. NoMap \in Map(Svc, SUBSET Key) /\ NoMap \in Map(Svc, SUBSET Address)
      BY NoMapTyped
  <1>3. StoreOK'
      BY <1>2 DEF Restart, StoreOK, Object
  <1>4. PhaseOK' /\ CountsOK'
      BY <1>1, Parts DEF Restart, PhaseOK, CountsOK
  <1>5. TypeOK'
      BY <1>1, <1>3, <1>4, Kept, PartsNext DEF Restart, cache, sends
  <1> QED BY <1>1, <1>5, CacheKept DEF IInv, Restart, sends

LEMMA StealStep ==
    ASSUME IInv, NEW r \in Watched, Steal(r)
    PROVE  IInv' /\ ToldStep
  <1>1. TypeOK /\ Faithful /\ Stored
      BY DEF IInv
  <1>2. ChanOK' /\ Head(chan[r]) \in Event(r)
      BY <1>1, TakeTyped DEF Steal
  <1>3. StolenOK'
      BY <1>1, <1>2, Parts DEF Steal, StolenOK
  <1>4. TypeOK'
      BY <1>1, <1>2, <1>3, Kept, PartsNext DEF Steal, cache, sends
  <1> QED BY <1>1, <1>4, CacheKept DEF IInv, Steal, sends

LEMMA OldEndsStep ==
    ASSUME IInv, NEW r \in Watched, OldEnds(r)
    PROVE  IInv' /\ ToldStep
  <1>1. TypeOK /\ Faithful /\ Stored
      BY DEF IInv
  <1>2. StolenOK' /\ PhaseOK'
      BY <1>1, Parts DEF OldEnds, StolenOK, PhaseOK
  <1>3. TypeOK'
      BY <1>1, <1>2, Kept, PartsNext DEF OldEnds, cache, sends
  <1> QED BY <1>1, <1>3, CacheKept DEF IInv, OldEnds, sends
-----------------------------------------------------------------------------
LEMMA Start == Init => IInv
  <1> SUFFICES ASSUME Init PROVE IInv
      OBVIOUS
  <1> DEFINE box(k) == [c |-> Endpoints0[k],
                        modified |-> pruneEndpoints(k, Endpoints0[k], Services0, Nodes0)]
  <1>1. \A k \in DOMAIN Endpoints0 : k \in Svc /\ Endpoints0[k] \in EndpointsObject
      BY MapParts
  <1>2. \A k \in DOMAIN Endpoints0 : box(k) \in Container
      BY <1>1, PruneTyped DEF Container
  <1>3. endpointsMap = [k \in DOMAIN Endpoints0 |-> box(k)]
      BY DEF Init
  <1>4. \A k \in DOMAIN Endpoints0 :
            /\ endpointsMap[k].c = Endpoints0[k]
            /\ endpointsMap[k].modified = pruneEndpoints(k, Endpoints0[k], Services0, Nodes0)
      BY <1>3
  <1> HIDE DEF box
  <1>5. EndpointsOK
    <2>1. DOMAIN Endpoints0 \in SUBSET Svc /\ endpointsMap \in [DOMAIN Endpoints0 -> Container]
        BY <1>1, <1>2, <1>3
    <2> QED BY <2>1, IsMap DEF EndpointsOK
  <1>6. KnownOK
    <2>1. DOMAIN Services0 \subseteq Svc /\ DOMAIN Nodes0 \subseteq Node
        BY MapParts
    <2> QED BY <2>1, <1>1 DEF Init, KnownOK, Named, Informer
  <1>7. \A V : NoMap \in Map(Svc, V)
      BY NoMapTyped
  <1>8. StoreOK
      BY <1>7 DEF Init, StoreOK
  <1>9. TypeOK
      BY <1>5, <1>6, <1>8, Parts DEF Init, ToldOK, ServicesOK, NodesOK, HeldOK, PendOK, ChanOK,
         StolenOK, PhaseOK, CountsOK
  <1>10. Faithful
      BY <1>3, <1>4 DEF Init, Faithful, Pruning
  <1>11. Stored
      BY <1>3, Names DEF Init, Stored
  <1> QED BY <1>9, <1>10, <1>11 DEF IInv

LEMMA Step == IInv /\ [Next]_vars => IInv' /\ ToldStep
  <1> SUFFICES ASSUME IInv, [Next]_vars PROVE IInv' /\ ToldStep
      OBVIOUS
  <1>1. CASE Informed
    <2>1. CASE \E h \in Informer : \E k \in Named(h) : OnTombstone(h, k)
        BY <2>1, OnTombstoneStep
    <2>2. CASE \E e \in Event("services") : OnService(e)
        BY <2>2, OnServiceStep
    <2>3. CASE \E type \in {"ADDED", "MODIFIED"} :
                   \E k \in Node : \E labels \in Labels : SetNode(type, k, labels)
        BY <2>3, SetNodeStep
    <2>4. CASE \E type \in {"ADDED", "MODIFIED"} :
                   \E k \in Svc : \E eps \in EndpointsObject : SetEndpoints(type, k, eps)
        BY <2>4, SetEndpointsStep
    <2>5. CASE \E k \in Node : DeleteNode(k)
        BY <2>5, DeleteNodeStep
    <2>6. CASE \E k \in Svc : DeleteEndpoints(k)
        BY <2>6, DeleteEndpointsStep
    <2> QED BY <1>1, <2>1, <2>2, <2>3, <2>4, <2>5, <2>6 DEF Informed
  <1>2. CASE SendService
      BY <1>2, SendServiceStep
  <1>3. CASE Restart
      BY <1>3, RestartStep
  <1>4. CASE \E h \in Informer : SendEndpoints(h)
      BY <1>4, SendEndpointsStep
  <1>5. CASE \E r \in Watched : List(r) \/ Watch(r) \/ Steal(r) \/ OldEnds(r)
      BY <1>5, ListStep, WatchStep, StealStep, OldEndsStep
  <1>6. CASE UNCHANGED vars
    <2>1. /\ told' = told /\ cache' = cache /\ known' = known /\ held' = held
          /\ pend' = pend /\ chan' = chan /\ phase' = phase /\ store' = store
          /\ old' = old /\ stolen' = stolen /\ restarts' = restarts /\ events' = events
        BY <1>6 DEF vars, sends, proxy
    <2>2. TypeOK'
        BY <2>1, Kept, PartsNext DEF IInv, cache
    <2> QED BY <2>1, <2>2, CacheKept DEF IInv
  <1> QED BY <1>1, <1>2, <1>3, <1>4, <1>5, <1>6 DEF Next

(* The variables keep their types and no channel holds more than it was made *)
(* for (cache.go storageCache).                                              *)
THEOREM TypeCorrect == Spec => []TypeOK
  <1>1. IInv => TypeOK
      BY DEF IInv
  <1> QED BY Start, Step, <1>1, PTL DEF Spec

(* GridView speaks of the same operators.                                    *)
LEMMA SameMaps == ASSUME NEW K, NEW V PROVE Grid!Map(K, V) = Map(K, V)
  BY DEF Map, Grid!Map

LEMMA SamePruning ==
    ASSUME NEW k, NEW eps, NEW services, NEW nodes
    PROVE  Grid!pruneEndpoints(k, eps, services, nodes) =
                pruneEndpoints(k, eps, services, nodes)
  <1>1. Grid!genLocalEndpoints(k, eps) = genLocalEndpoints(k, eps)
      BY DEF Grid!genLocalEndpoints, genLocalEndpoints
  <1>2. ASSUME NEW keys, NEW n1, NEW n2
        PROVE  Grid!hasIntersectionLabel(keys, n1, n2) = hasIntersectionLabel(keys, n1, n2)
      BY DEF Grid!hasIntersectionLabel, hasIntersectionLabel
  <1>3. ASSUME NEW keys, NEW address
        PROVE  Grid!filterConcernedAddress(keys, nodes, address) =
                    filterConcernedAddress(keys, nodes, address)
      BY <1>2 DEF Grid!filterConcernedAddress, filterConcernedAddress
  <1> QED BY <1>1, <1>3 DEF Grid!pruneEndpoints, pruneEndpoints

LEMMA ViewIsPruned ==
    ASSUME Faithful
    PROVE  View("endpoints") = Grid!Pruned(toldEndpoints, toldServices, toldNodes)
  <1>1. View("endpoints") = [k \in DOMAIN toldEndpoints |-> endpointsMap[k].modified]
      BY DEF View, Faithful
  <1>2. \A k \in DOMAIN toldEndpoints : endpointsMap[k].modified =
            Grid!pruneEndpoints(k, toldEndpoints[k], toldServices, toldNodes)
      BY SamePruning DEF Faithful, Pruning
  <1> QED BY <1>1, <1>2 DEF Grid!Pruned

(* A list of endpoints is at any time the pruning of what the handlers were   *)
(* told last, whichever rebuild they skipped (cache.go rebuildEndpointsMap).  *)
THEOREM Current == Spec => ListsAreCurrent
  <1>1. Init => Grid!Init
    <2>1. Init => IInv /\ Grid!Init
      <3> SUFFICES ASSUME Init PROVE IInv /\ Grid!Init
          OBVIOUS
      <3>1. IInv
          BY Start
      <3> QED BY <3>1, ViewIsPruned, Parts, SameMaps DEF IInv, ToldOK, Grid!Init
    <2> QED BY <2>1
  <1>2. ASSUME IInv, IInv', ToldStep
        PROVE  [Grid!Next]_<<toldServices, toldEndpoints, toldNodes, View("endpoints")>>
    <2>1. View("endpoints") = Grid!Pruned(toldEndpoints, toldServices, toldNodes)
        BY <1>2, ViewIsPruned DEF IInv
    <2>2. View("endpoints")' = Grid!Pruned(toldEndpoints', toldServices', toldNodes')
      <3>1. Faithful'
          BY <1>2 DEF IInv
      <3>2. View("endpoints")' = [k \in DOMAIN toldEndpoints' |-> endpointsMap'[k].modified]
          BY <3>1 DEF View, Faithful
      <3>3. \A k \in DOMAIN toldEndpoints' : endpointsMap'[k].modified =
                Grid!pruneEndpoints(k, toldEndpoints'[k], toldServices', toldNodes')
          BY <3>1, SamePruning DEF Faithful, Pruning
      <3> QED BY <3>2, <3>3 DEF Grid!Pruned
    <2>3. CASE told' = told
        BY <2>1, <2>2, <2>3 DEF told, Grid!Pruned
    <2> QED BY <1>2, <2>2, <2>3 DEF ToldStep, Grid!Next
  <1> QED BY <1>1, <1>2, Start, Step, PTL DEF Spec, ListsAreCurrent, Grid!Spec
=============================================================================
