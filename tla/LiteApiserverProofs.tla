------------------------- MODULE LiteApiserverProofs -------------------------
(* Proofs about lite-apiserver.  LiteCache, for any keys, watches and numbers  *)
(* of holders: no loop goes on unowned, and what is watched is repeated.      *)
(* LiteProxy, for any clients, salts, versions and faults: the cached file,    *)
(* once it can be read, can be read for good, whatever requests store into it  *)
(* at the same time.                                                        *)
EXTENDS LiteCache, LiteProxy, FiniteSetTheorems, TLAPS

USE LiteCacheAssumption DEF None, Holder

Loop == {"off", "select", "put"}
Holders == [Holder -> [key : Key \cup {None}, isStart : BOOLEAN, old : BOOLEAN, loop : Loop]]
Locks == [by : Watch \cup {"gc", "nobody"}, closing : Holder \cup {None}, todo : SUBSET Key]

MapsOK == /\ listRequestMap \in [Key -> Holder \cup {None}]
          /\ watchRequestMap \in [Key -> Watch \cup {None}]
          /\ made \in 0 .. MaxHolders
HolderOK == holder \in Holders
LockOK == lock \in Locks

\* A holder is under its key, and was made.
Keyed == \A k \in Key : listRequestMap[k] # None =>
             holder[listRequestMap[k]].key = k /\ listRequestMap[k] <= made

Looping == \A h \in Holder : /\ holder[h].isStart => holder[h].loop # "off"
                             /\ holder[h].loop # "off" => holder[h].key \in Key

\* Who waits for a loop has the lock, has marked the holder as not started, and the
\* loop has not ended.
Closing == lock.closing # None =>
               /\ lock.by # "nobody" /\ ~holder[lock.closing].isStart
               /\ holder[lock.closing].loop # "off"

\* DeleteRequest has closed the holder it is about to drop.
Deleting == lock.by \in Watch =>
                LET h == listRequestMap[KeyOf[lock.by]] IN h = None \/ ~holder[h].isStart

\* Only DeleteRequest leaves a key watched, for as long as it has the lock, whose
\* holder is not started.
Watched == \A k \in Key : watchRequestMap[k] # None =>
               LET h == listRequestMap[k]
               IN h # None /\ (holder[h].isStart \/ (lock.by \in Watch /\ KeyOf[lock.by] = k))

IInv == /\ MapsOK /\ HolderOK /\ LockOK /\ Keyed /\ LoopsAreOwned
        /\ Looping /\ Closing /\ Deleting /\ Watched
-----------------------------------------------------------------------------
(* The ways a holder changes.                                              *)

\* holder[h].loop gets v, and nothing else changes.
SetsLoop(h, v) ==
    \A g \in Holder :
        /\ holder'[g].key = holder[g].key /\ holder'[g].isStart = holder[g].isStart
        /\ holder'[g].loop = IF g = h THEN v ELSE holder[g].loop

LEMMA LoopSet ==
    ASSUME HolderOK, NEW h \in Holder, NEW v \in Loop,
           holder' = [holder EXCEPT ![h].loop = v]
    PROVE  HolderOK' /\ SetsLoop(h, v)
  BY DEF HolderOK, Holders, SetsLoop, Loop

LEMMA Started ==
    ASSUME HolderOK, NEW h \in Holder, holder' = Start(h)
    PROVE  /\ HolderOK'
           /\ \A g \in Holder :
                /\ holder'[g].key = holder[g].key
                /\ g # h => holder'[g].isStart = holder[g].isStart /\ holder'[g].loop = holder[g].loop
           /\ holder'[h].isStart
           /\ holder[h].isStart => holder'[h].loop = holder[h].loop
           /\ ~holder[h].isStart => holder'[h].loop = "select"
<1>1. CASE holder[h].isStart
  BY <1>1 DEF HolderOK, Holders, Loop, Start
<1>2. CASE ~holder[h].isStart
  <2>1. holder' = [holder EXCEPT ![h].isStart = TRUE, ![h].loop = "select"]
    BY <1>2 DEF Start
  <2>2. /\ holder'[h] = [holder[h] EXCEPT !.isStart = TRUE, !.loop = "select"]
        /\ \A g \in Holder : g # h => holder'[g] = holder[g]
    BY <2>1 DEF HolderOK, Holders
  <2>3. [holder[h] EXCEPT !.isStart = TRUE, !.loop = "select"]
            \in [key : Key \cup {None}, isStart : BOOLEAN, old : BOOLEAN, loop : Loop]
    BY DEF HolderOK, Holders, Loop
  <2>4. HolderOK'
    BY <2>1, <2>3 DEF HolderOK, Holders
  <2>5. /\ holder'[h].key = holder[h].key /\ holder'[h].isStart /\ holder'[h].loop = "select"
    BY <2>2 DEF HolderOK, Holders
  <2> QED BY <1>2, <2>2, <2>4, <2>5
<1> QED BY <1>1, <1>2

\* What close does to the holder h, if anything.
Closes(h) ==
    \A g \in Holder :
        /\ holder'[g].key = holder[g].key /\ holder'[g].loop = holder[g].loop
        /\ g # h => holder'[g].isStart = holder[g].isStart
        /\ g = h => ~holder'[g].isStart

LEMMA Closed ==
    ASSUME HolderOK, NEW h \in Holder \cup {None}, NEW l \in Locks, l.closing = None, Close(h, l)
    PROVE  /\ HolderOK' /\ LockOK' /\ Closes(h)
           /\ lock'.by = l.by /\ lock'.closing \in {None, h}
           /\ h # None /\ holder[h].isStart => lock'.closing = h
           /\ h = None \/ ~holder[h].isStart => lock'.closing = None
<1>1. CASE h # None /\ holder[h].isStart
  <2>1. holder' = [holder EXCEPT ![h].isStart = FALSE, ![h].old = FALSE]
    BY <1>1 DEF Close, Stop
  <2>2. HolderOK' /\ Closes(h)
    <3>1. /\ holder'[h] = [holder[h] EXCEPT !.isStart = FALSE, !.old = FALSE]
          /\ \A g \in Holder : g # h => holder'[g] = holder[g]
      BY <1>1, <2>1 DEF HolderOK, Holders
    <3>2. [holder[h] EXCEPT !.isStart = FALSE, !.old = FALSE]
              \in [key : Key \cup {None}, isStart : BOOLEAN, old : BOOLEAN, loop : Loop]
      BY <1>1 DEF HolderOK, Holders, Loop
    <3>3. HolderOK'
      BY <1>1, <2>1, <3>2 DEF HolderOK, Holders
    <3>4. holder'[h].key = holder[h].key /\ holder'[h].loop = holder[h].loop /\ ~holder'[h].isStart
      BY <1>1, <3>1 DEF HolderOK, Holders
    <3> QED BY <3>1, <3>3, <3>4 DEF Closes
  <2>3. lock' = [l EXCEPT !.closing = h]
    BY <1>1 DEF Close
  <2>4. LockOK' /\ lock'.by = l.by /\ lock'.closing = h
    BY <1>1, <2>3 DEF LockOK, Locks
  <2> QED BY <1>1, <2>2, <2>4
<1>2. CASE ~(h # None /\ holder[h].isStart)
  <2>1. holder' = holder /\ lock' = l
    BY <1>2 DEF Close
  <2>2. HolderOK' /\ LockOK'
    BY <2>1 DEF HolderOK, LockOK
  <2>3. Closes(h)
    BY <1>2, <2>1 DEF Closes, HolderOK, Holders
  <2> QED BY <1>2, <2>1, <2>2, <2>3
<1> QED BY <1>1, <1>2
-----------------------------------------------------------------------------
LEMMA Initially == Init => IInv
<1> SUFFICES ASSUME Init PROVE IInv
  OBVIOUS
<1>1. HolderOK /\ \A h \in Holder : holder[h].loop = "off" /\ ~holder[h].isStart
  BY DEF Init, HolderOK, Holders, Idle, Loop
<1>2. MapsOK /\ LockOK /\ lock.by = "nobody" /\ lock.closing = None
  BY DEF Init, MapsOK, LockOK, Locks, Free
<1> QED BY <1>1, <1>2 DEF Init, IInv, Keyed, LoopsAreOwned, Looping, Closing, Deleting, Watched

\* What a step that leaves all of this as it is does to the invariant.
LEMMA Unmoved ==
    ASSUME IInv, UNCHANGED <<listRequestMap, watchRequestMap, made, holder, lock>>
    PROVE  IInv'
  BY DEF IInv, MapsOK, HolderOK, LockOK, Keyed, LoopsAreOwned, Looping, Closing, Deleting, Watched

LEMMA ListKeeps ==
    ASSUME IInv, NEW k \in Key, List(k) PROVE IInv'
<1> DEFINE h == made + 1
<1>1. /\ listRequestMap[k] = None /\ h \in Holder /\ made' = h
      /\ holder' = [holder EXCEPT ![h] = Idle(k)]
      /\ listRequestMap' = [listRequestMap EXCEPT ![k] = h]
      /\ lock.by = "nobody" /\ lock' = lock /\ watchRequestMap' = watchRequestMap
  BY DEF List, AddList, Unlocked, IInv, MapsOK
<1>2. /\ HolderOK' /\ holder'[h].key = k /\ holder'[h].loop = "off" /\ ~holder'[h].isStart
      /\ \A g \in Holder : g # h => holder'[g] = holder[g]
  BY <1>1 DEF IInv, HolderOK, Holders, Loop, Idle
<1>3. MapsOK' /\ LockOK'
  BY <1>1 DEF IInv, MapsOK, LockOK
<1> HIDE DEF h
<1>4. /\ listRequestMap'[k] = h
      /\ \A j \in Key : j # k => listRequestMap'[j] = listRequestMap[j]
      /\ \A j \in Key : listRequestMap[j] # h
  BY <1>1 DEF IInv, MapsOK, Keyed, h
<1>5. Keyed'
  BY <1>1, <1>2, <1>4 DEF IInv, MapsOK, Keyed, h
<1>6. LoopsAreOwned' /\ Looping'
  BY <1>1, <1>2, <1>4 DEF IInv, MapsOK, LoopsAreOwned, Looping, HolderOK, Holders
<1>7. Closing' /\ Deleting' /\ Watched'
  BY <1>1, <1>2, <1>4 DEF IInv, MapsOK, Closing, Deleting, Watched
<1> QED BY <1>2, <1>3, <1>5, <1>6, <1>7 DEF IInv

LEMMA AddWatchKeeps ==
    ASSUME IInv, NEW w \in Watch, AddWatch(w) PROVE IInv'
<1> DEFINE k == KeyOf[w]
           h == listRequestMap[k]
<1>0. k \in Key /\ lock.by = "nobody" /\ UNCHANGED <<listRequestMap, made, lock>> /\ h \in Holder \cup {None}
  BY DEF AddWatch, Unlocked, IInv, MapsOK
<1>1. CASE h = None
  BY <1>0, <1>1, Unmoved DEF AddWatch
<1>2. CASE h # None
  <2>1. /\ h \in Holder /\ holder' = Start(h)
        /\ watchRequestMap' = [watchRequestMap EXCEPT ![k] = w]
    BY <1>0, <1>2 DEF AddWatch
  <2>2. MapsOK' /\ LockOK' /\ \A j \in Key : j # k => watchRequestMap'[j] = watchRequestMap[j]
    BY <1>0, <2>1 DEF IInv, MapsOK, LockOK
  <2> HIDE DEF k, h
  <2>3. HolderOK
    BY DEF IInv
  <2>4. /\ HolderOK' /\ \A g \in Holder : holder'[g].key = holder[g].key
        /\ \A g \in Holder : g # h => holder'[g].isStart = holder[g].isStart /\ holder'[g].loop = holder[g].loop
        /\ holder'[h].isStart
        /\ holder[h].isStart => holder'[h].loop = holder[h].loop
        /\ ~holder[h].isStart => holder'[h].loop = "select"
    BY <2>1, <2>3, Started
  <2>5. holder[h].key = k /\ listRequestMap[k] = h /\ lock.closing = None
    BY <1>0, <1>2 DEF IInv, Keyed, Closing, h
  <2>6. Keyed' /\ LoopsAreOwned' /\ Looping'
    BY <1>0, <2>1, <2>4, <2>5 DEF IInv, MapsOK, Keyed, LoopsAreOwned, Looping
  <2>7. Closing' /\ Deleting'
    BY <1>0, <2>5 DEF Closing, Deleting
  <2>8. Watched'
    BY <1>0, <2>1, <2>2, <2>4, <2>5 DEF IInv, MapsOK, Watched
  <2> QED BY <2>2, <2>4, <2>6, <2>7, <2>8 DEF IInv
<1> QED BY <1>1, <1>2

LEMMA StopReceivedKeeps ==
    ASSUME IInv, NEW h \in Holder, StopReceived(h) PROVE IInv'
<1>1. /\ UNCHANGED <<listRequestMap, watchRequestMap, made>>
      /\ holder' = [holder EXCEPT ![h].loop = "off"] /\ lock' = [lock EXCEPT !.closing = None]
      /\ lock.closing = h
  BY DEF StopReceived
<1>2. HolderOK' /\ SetsLoop(h, "off")
  BY <1>1, LoopSet DEF IInv, Loop
<1>3. LockOK' /\ lock'.by = lock.by /\ lock'.closing = None
  BY <1>1 DEF IInv, LockOK, Locks
<1>4. MapsOK' /\ Keyed'
  BY <1>1, <1>2 DEF IInv, MapsOK, Keyed, SetsLoop
<1>5. ~holder[h].isStart /\ lock.by # "nobody"
  BY <1>1 DEF IInv, Closing
<1>6. LoopsAreOwned' /\ Looping'
  BY <1>1, <1>2, <1>3, <1>5 DEF IInv, LoopsAreOwned, Looping, SetsLoop
<1>7. Closing' /\ Deleting' /\ Watched'
  BY <1>1, <1>2, <1>3 DEF IInv, MapsOK, Closing, Deleting, Watched, SetsLoop
<1> QED BY <1>2, <1>3, <1>4, <1>6, <1>7 DEF IInv

LEMMA DeleteRequestKeeps ==
    ASSUME IInv, NEW w \in Watch, DeleteRequest(w) PROVE IInv'
<1> DEFINE k == KeyOf[w]
           h == listRequestMap[k]
           l == [Free EXCEPT !.by = w]
<1>1. /\ UNCHANGED <<listRequestMap, watchRequestMap, made>> /\ lock.by = "nobody"
      /\ lock.closing = None /\ Close(h, l) /\ k \in Key /\ h \in Holder \cup {None}
  BY DEF DeleteRequest, Unlocked, IInv, Closing, MapsOK
<1>2. l \in Locks /\ l.closing = None /\ l.by = w
  BY DEF Free, Locks
<1> HIDE DEF k, h, l
<1>3. /\ HolderOK' /\ LockOK' /\ Closes(h) /\ lock'.by = w
      /\ h # None /\ holder[h].isStart => lock'.closing = h
      /\ lock'.closing \in {None, h}
      /\ lock'.closing # None => holder[h].isStart
  BY <1>1, <1>2, Closed DEF IInv
<1>4. MapsOK' /\ Keyed'
  BY <1>1, <1>3 DEF IInv, MapsOK, Keyed, Closes
<1>5. LoopsAreOwned' /\ Looping'
  BY <1>1, <1>3 DEF IInv, LoopsAreOwned, Looping, Closes
<1>6. Closing' /\ Deleting'
  BY <1>1, <1>3 DEF IInv, Looping, Closing, Deleting, Closes, h, k
<1>7. Watched'
  <2> SUFFICES ASSUME NEW j \in Key, watchRequestMap[j] # None
               PROVE  /\ listRequestMap[j] # None
                      /\ holder'[listRequestMap[j]].isStart \/ KeyOf[w] = j
    BY <1>1, <1>3 DEF Watched
  <2>1. listRequestMap[j] \in Holder /\ holder[listRequestMap[j]].isStart
    BY <1>1 DEF IInv, MapsOK, Watched
  <2>2. listRequestMap[j] = h => j = k
    BY <1>1, <2>1 DEF IInv, Keyed, h
  <2> QED BY <1>3, <2>1, <2>2 DEF Closes, k
<1> QED BY <1>3, <1>4, <1>5, <1>6, <1>7 DEF IInv

LEMMA DeletedKeeps ==
    ASSUME IInv, NEW w \in Watch, Deleted(w) PROVE IInv'
<1> DEFINE k == KeyOf[w]
<1>1. /\ UNCHANGED <<holder, made>> /\ lock.by = w /\ lock.closing = None /\ lock' = Free
      /\ listRequestMap' = [listRequestMap EXCEPT ![k] = None]
      /\ watchRequestMap' = [watchRequestMap EXCEPT ![k] = None] /\ k \in Key
  BY DEF Deleted
<1>2. /\ listRequestMap'[k] = None /\ watchRequestMap'[k] = None
      /\ \A j \in Key : j # k => listRequestMap'[j] = listRequestMap[j] /\ watchRequestMap'[j] = watchRequestMap[j]
      /\ MapsOK'
  BY <1>1 DEF IInv, MapsOK
<1>3. lock'.by = "nobody" /\ lock'.closing = None /\ LockOK' /\ HolderOK'
  BY <1>1 DEF Free, LockOK, Locks, IInv, HolderOK
<1>4. listRequestMap[k] = None \/ ~holder[listRequestMap[k]].isStart
  BY <1>1 DEF IInv, Deleting
<1> HIDE DEF k
<1>5. Keyed' /\ Looping' /\ Closing' /\ Deleting'
  BY <1>1, <1>2, <1>3 DEF IInv, Keyed, Looping, Closing, Deleting
<1>6. LoopsAreOwned'
  <2> SUFFICES ASSUME NEW h \in Holder, holder[h].loop # "off"
               PROVE  listRequestMap'[holder[h].key] = h /\ holder[h].isStart
    BY <1>1 DEF LoopsAreOwned
  <2>1. listRequestMap[holder[h].key] = h /\ holder[h].isStart
    BY <1>1 DEF IInv, LoopsAreOwned
  <2>2. holder[h].key # k
    BY <1>4, <2>1
  <2>3. holder[h].key \in Key
    BY DEF IInv, Looping
  <2> QED BY <1>2, <2>1, <2>2, <2>3
<1>7. Watched'
  <2> SUFFICES ASSUME NEW j \in Key, watchRequestMap'[j] # None
               PROVE  listRequestMap'[j] # None /\ holder[listRequestMap'[j]].isStart
    BY <1>1 DEF Watched
  <2>1. j # k
    BY <1>2
  <2> QED BY <1>1, <1>2, <2>1 DEF IInv, Watched, k
<1> QED BY <1>2, <1>3, <1>5, <1>6, <1>7 DEF IInv

LEMMA LoopStepKeeps ==
    ASSUME IInv, NEW h \in Holder, Tick(h) \/ Put(h) PROVE IInv'
<1> DEFINE v == IF holder[h].loop = "select" THEN "put" ELSE "select"
<1>1. /\ UNCHANGED <<listRequestMap, watchRequestMap, made, lock>> /\ holder[h].loop # "off"
      /\ v \in {"select", "put"} /\ holder' = [holder EXCEPT ![h].loop = v]
  BY DEF Tick, Put
<1> HIDE DEF v
<1>2. HolderOK' /\ SetsLoop(h, v)
  BY <1>1, LoopSet DEF IInv, Loop
<1>3. MapsOK' /\ LockOK' /\ Keyed' /\ Closing' /\ Deleting' /\ Watched'
  BY <1>1, <1>2 DEF IInv, MapsOK, LockOK, Locks, Keyed, Closing, Deleting, Watched, SetsLoop
<1>4. LoopsAreOwned' /\ Looping'
  BY <1>1, <1>2 DEF IInv, LoopsAreOwned, Looping, SetsLoop
<1> QED BY <1>2, <1>3, <1>4 DEF IInv

LEMMA AgesKeeps ==
    ASSUME IInv, NEW h \in Holder, Ages(h) PROVE IInv'
<1>1. UNCHANGED <<listRequestMap, watchRequestMap, made, lock>> /\ holder' = [holder EXCEPT ![h].old = TRUE]
  BY DEF Ages
<1>2. /\ HolderOK'
      /\ \A g \in Holder : /\ holder'[g].key = holder[g].key /\ holder'[g].isStart = holder[g].isStart
                          /\ holder'[g].loop = holder[g].loop
  BY <1>1 DEF IInv, HolderOK, Holders, Loop
<1>3. MapsOK' /\ LockOK' /\ Keyed' /\ Closing' /\ Deleting' /\ Watched'
  BY <1>1, <1>2 DEF IInv, MapsOK, LockOK, Locks, Keyed, Closing, Deleting, Watched
<1>4. LoopsAreOwned' /\ Looping'
  BY <1>1, <1>2 DEF IInv, LoopsAreOwned, Looping
<1> QED BY <1>2, <1>3, <1>4 DEF IInv

LEMMA CrashKeeps == ASSUME IInv, Crash PROVE IInv'
<1>1. /\ MapsOK' /\ \A k \in Key : listRequestMap'[k] = None /\ watchRequestMap'[k] = None
      /\ lock' = Free /\ holder' = [h \in Holder |-> Idle(holder[h].key)]
  BY DEF Crash, IInv, MapsOK
<1>2. \A h \in Holder : holder[h].key \in Key \cup {None}
  BY DEF IInv, HolderOK, Holders
<1>3. HolderOK' /\ \A h \in Holder : holder'[h].loop = "off" /\ ~holder'[h].isStart
  BY <1>1, <1>2 DEF HolderOK, Holders, Idle, Loop
<1>4. LockOK' /\ lock'.by = "nobody" /\ lock'.closing = None
  BY <1>1 DEF LockOK, Locks, Free
<1> QED BY <1>1, <1>3, <1>4 DEF IInv, Keyed, LoopsAreOwned, Looping, Closing, Deleting, Watched

LEMMA ListGCKeeps == ASSUME IInv, ListGC PROVE IInv'
<1>1. UNCHANGED <<watchRequestMap, made, holder, lock>> /\ lock.by = "nobody" /\ lock.closing = None
  BY DEF ListGC, Unlocked, IInv, Closing
<1>2. /\ MapsOK'
      /\ \A k \in Key : \/ listRequestMap'[k] = listRequestMap[k]
                        \/ /\ listRequestMap'[k] = None /\ watchRequestMap[k] = None
                           /\ listRequestMap[k] # None /\ ~holder[listRequestMap[k]].isStart
  BY <1>1 DEF ListGC, IInv, MapsOK, Expired
<1>3. HolderOK' /\ LockOK' /\ Keyed' /\ Looping' /\ Closing' /\ Deleting' /\ Watched'
  BY <1>1, <1>2 DEF IInv, HolderOK, LockOK, Keyed, Looping, Closing, Deleting, Watched
<1>4. LoopsAreOwned'
  <2> SUFFICES ASSUME NEW h \in Holder, holder[h].loop # "off"
               PROVE  listRequestMap'[holder[h].key] = h /\ holder[h].isStart
    BY <1>1 DEF LoopsAreOwned
  <2>1. holder[h].key \in Key /\ listRequestMap[holder[h].key] = h /\ holder[h].isStart
    BY <1>1 DEF IInv, Looping, LoopsAreOwned
  <2> QED BY <1>2, <2>1
<1> QED BY <1>2, <1>3, <1>4 DEF IInv

LEMMA LockKeeps == ASSUME IInv, WatchGC \/ Visited PROVE IInv'
<1>1. /\ UNCHANGED <<listRequestMap, watchRequestMap, made, holder>> /\ lock.by \in {"gc", "nobody"}
      /\ lock.closing = None /\ lock' \in {Free, [Free EXCEPT !.by = "gc", !.todo = Key]}
  BY DEF WatchGC, Visited, Unlocked, IInv, Closing
<1>2. LockOK' /\ lock'.by \in {"gc", "nobody"} /\ lock'.closing = None
  <2>1. CASE lock' = Free
    BY <2>1 DEF Free, LockOK, Locks
  <2>2. CASE lock' = [Free EXCEPT !.by = "gc", !.todo = Key]
    <3>1. lock' = [by |-> "gc", closing |-> None, todo |-> Key]
      BY <2>2 DEF Free
    <3> QED BY <3>1 DEF LockOK, Locks
  <2> QED BY <1>1, <2>1, <2>2
<1> QED BY <1>1, <1>2
      DEF IInv, MapsOK, HolderOK, Keyed, LoopsAreOwned, Looping, Closing, Deleting, Watched

LEMMA VisitKeeps ==
    ASSUME IInv, NEW k \in Key, Visit(k) PROVE IInv'
<1> DEFINE w == watchRequestMap[k]
           h == listRequestMap[k]
           rest == [lock EXCEPT !.todo = @ \ {k}]
<1>1. /\ UNCHANGED <<listRequestMap, made>> /\ lock.by = "gc" /\ lock.closing = None
      /\ h \in Holder \cup {None} /\ lock.by \notin Watch
  BY DEF Visit, IInv, MapsOK
<1>2. rest \in Locks /\ rest.closing = None /\ rest.by = "gc"
  BY <1>1 DEF IInv, LockOK, Locks
<1>3. CASE w # None /\ Done(w)
  <2>1. watchRequestMap' = [watchRequestMap EXCEPT ![k] = None] /\ Close(h, rest)
    BY <1>3 DEF Visit
  <2>2. /\ MapsOK' /\ watchRequestMap'[k] = None
        /\ \A j \in Key : j # k => watchRequestMap'[j] = watchRequestMap[j]
    BY <1>1, <2>1 DEF IInv, MapsOK
  <2> HIDE DEF h, w, rest
  <2>3. /\ HolderOK' /\ LockOK' /\ Closes(h) /\ lock'.by = "gc"
        /\ h # None /\ holder[h].isStart => lock'.closing = h
        /\ lock'.closing \in {None, h}
        /\ lock'.closing # None => holder[h].isStart
    BY <1>1, <1>2, <2>1, Closed DEF IInv
  <2>4. Keyed' /\ LoopsAreOwned' /\ Looping'
    BY <1>1, <2>3 DEF IInv, MapsOK, Keyed, LoopsAreOwned, Looping, Closes
  <2>5. Closing' /\ Deleting'
    BY <1>1, <2>3 DEF IInv, Looping, Closing, Deleting, Closes
  <2>6. Watched'
    <3> SUFFICES ASSUME NEW j \in Key, watchRequestMap'[j] # None
                 PROVE  listRequestMap[j] # None /\ holder'[listRequestMap[j]].isStart
      BY <1>1 DEF Watched
    <3>1. j # k /\ listRequestMap[j] \in Holder /\ holder[listRequestMap[j]].isStart
      BY <1>1, <2>2 DEF IInv, MapsOK, Watched
    <3>2. listRequestMap[j] # h
      BY <3>1 DEF IInv, Keyed, h
    <3> QED BY <2>3, <3>1, <3>2 DEF Closes
  <2> QED BY <2>2, <2>3, <2>4, <2>5, <2>6 DEF IInv
<1>4. CASE ~(w # None /\ Done(w))
  <2>1. UNCHANGED <<watchRequestMap, holder>> /\ lock' = rest
    BY <1>4 DEF Visit
  <2> HIDE DEF rest
  <2> QED BY <1>1, <1>2, <2>1
        DEF IInv, MapsOK, HolderOK, LockOK, Keyed, LoopsAreOwned, Looping, Closing, Deleting, Watched
<1> QED BY <1>3, <1>4

LEMMA NextKeeps == IInv /\ [Next]_vars => IInv'
<1> SUFFICES ASSUME IInv, [Next]_vars PROVE IInv'
  OBVIOUS
<1>1. CASE Run \/ UNCHANGED vars
  BY <1>1, Unmoved DEF Run, vars
<1>2. CASE Crash
  BY <1>2, CrashKeeps
<1>3. CASE ListGC
  BY <1>3, ListGCKeeps
<1>4. CASE WatchGC \/ Visited
  BY <1>4, LockKeeps
<1>5. ASSUME NEW k \in Key, List(k) \/ Visit(k) PROVE IInv'
  BY <1>5, ListKeeps, VisitKeeps
<1>6. ASSUME NEW w \in Watch, AddWatch(w) \/ DeleteRequest(w) \/ Deleted(w) PROVE IInv'
  BY <1>6, AddWatchKeeps, DeleteRequestKeeps, DeletedKeeps
<1>7. ASSUME NEW w \in Watch, Opens(w) \/ Ends(w) \/ Fails(w) \/ Leaves(w) PROVE IInv'
  BY <1>7, Unmoved DEF Opens, Ends, Fails, Leaves, Moves
<1>8. ASSUME NEW h \in Holder, StopReceived(h) \/ Tick(h) \/ Put(h) \/ Ages(h) PROVE IInv'
  BY <1>8, StopReceivedKeeps, LoopStepKeeps, AgesKeeps
<1>9. ASSUME NEW h \in Holder, DoRequest(h) PROVE IInv'
  BY <1>9, Unmoved DEF DoRequest
<1> QED BY <1>1, <1>2, <1>3, <1>4, <1>5, <1>6, <1>7, <1>8, <1>9 DEF Next

LEMMA Inductive == Spec => []IInv
  BY Initially, NextKeeps, PTL DEF Spec

\* No loop of a holder goes on unseen, though its tickers do: each is under its key, and
\* is started or being closed (controller.go addListRequest, DeleteRequest, runGC).
THEOREM NoLoopIsLost == Spec => []LoopsAreOwned
  BY Inductive, PTL DEF IInv

\* close never sends on stopCh, with the lock held, to a loop that is gone: a second
\* close of the same holder, by the collector and by DeleteRequest, is ruled out by
\* isStart (controller.go:79).
LoopIsThere == lock.closing # None =>
                   /\ holder[lock.closing].loop \in {"select", "put"}
                   /\ ~holder[lock.closing].isStart
THEOREM CloseFindsItsLoop == Spec => []LoopIsThere
<1>1. IInv => LoopIsThere
  BY DEF IInv, Closing, HolderOK, Holders, LockOK, Locks, Loop, LoopIsThere
<1> QED BY <1>1, Inductive, PTL

\* Whoever gets the lock finds a running loop under each key that is watched
\* (controller.go addWatchRequest, DeleteRequest, runGC).
THEOREM WatchedStaysRepeated == Spec => []WatchedIsRepeated
<1>1. IInv => WatchedIsRepeated
  BY DEF IInv, MapsOK, Looping, Watched, WatchedIsRepeated, Unlocked
<1> QED BY <1>1, Inductive, PTL
(* Types: what the invariant leaves out.                                    *)
QueueOK == requestCh \in Seq(Holder) /\ Len(requestCh) <= ChanCap
WatchesOK ==
    /\ watch \in [Watch -> {"new", "waiting", "open", "failing", "left", "gone"}]
    /\ doing \subseteq Holder /\ crashes \in 0 .. MaxCrashes
    /\ \A k \in Key : watchRequestMap[k] # None => KeyOf[watchRequestMap[k]] = k

LEMMA QueueKeeps ==
    ASSUME QueueOK, [Next]_vars
    PROVE  QueueOK' /\ (Run => Head(requestCh) \in Holder)
<1>1. CASE Run
  BY <1>1 DEF Run, QueueOK
<1>2. ASSUME NEW h \in Holder, Put(h) PROVE QueueOK'
  <2>1. requestCh' = Append(requestCh, h) /\ Len(requestCh) < ChanCap
    BY <1>2 DEF Put
  <2>2. requestCh' \in Seq(Holder) /\ Len(requestCh') = Len(requestCh) + 1 /\ Len(requestCh) \in Nat
    BY <2>1 DEF QueueOK
  <2> QED BY <2>1, <2>2 DEF QueueOK
<1>3. Crash => QueueOK'
  BY DEF Crash, QueueOK
<1>4. UNCHANGED requestCh => QueueOK'
  BY DEF QueueOK
<1>5. Run \/ (\E h \in Holder : Put(h)) \/ Crash \/ UNCHANGED requestCh
  BY DEF Next, ListGC, WatchGC, Visited, List, Visit, AddWatch, Opens, Ends, Fails, Leaves, Moves,
         DeleteRequest, Deleted, StopReceived, Tick, DoRequest, Ages, vars
<1>6. Run => Head(requestCh) \in Holder
  BY DEF Run, QueueOK
<1> QED BY <1>1, <1>2, <1>3, <1>4, <1>5, <1>6

LEMMA WatchesKeep ==
    ASSUME IInv, QueueOK, WatchesOK, [Next]_vars
    PROVE  WatchesOK'
<1>1. \/ watch' = watch
      \/ \E w \in Watch, v \in {"waiting", "open", "failing", "left", "gone"} :
             watch' = [watch EXCEPT ![w] = v]
      \/ watch' = [w \in Watch |-> IF watch[w] = "new" THEN "new" ELSE "gone"]
  BY DEF Next, Run, Crash, ListGC, WatchGC, Visited, List, Visit, AddWatch, Opens, Ends, Fails,
         Leaves, Moves, DeleteRequest, Deleted, StopReceived, Tick, Put, DoRequest, Ages, vars
<1>2. watch' \in [Watch -> {"new", "waiting", "open", "failing", "left", "gone"}]
  BY <1>1 DEF WatchesOK
<1>3. doing' \subseteq doing \/ (Run /\ doing' = doing \cup {Head(requestCh)})
  BY DEF Next, Run, Crash, ListGC, WatchGC, Visited, List, Visit, AddWatch, Opens, Ends, Fails,
         Leaves, Moves, DeleteRequest, Deleted, StopReceived, Tick, Put, DoRequest, Ages, vars
<1>4. doing' \subseteq Holder
  BY <1>3, QueueKeeps DEF WatchesOK
<1>5. crashes' = crashes \/ (crashes < MaxCrashes /\ crashes' = crashes + 1)
  BY DEF Next, Run, Crash, ListGC, WatchGC, Visited, List, Visit, AddWatch, Opens, Ends, Fails,
         Leaves, Moves, DeleteRequest, Deleted, StopReceived, Tick, Put, DoRequest, Ages, vars
<1>6. crashes' \in 0 .. MaxCrashes
  BY <1>5 DEF WatchesOK
<1>7. \/ watchRequestMap' = watchRequestMap
      \/ \E k \in Key : watchRequestMap' = [watchRequestMap EXCEPT ![k] = None]
      \/ \E w \in Watch : watchRequestMap' = [watchRequestMap EXCEPT ![KeyOf[w]] = w]
      \/ watchRequestMap' = [k \in Key |-> None]
  BY DEF Next, Run, Crash, ListGC, WatchGC, Visited, List, Visit, AddWatch, Opens, Ends, Fails,
         Leaves, Moves, DeleteRequest, Deleted, StopReceived, Tick, Put, DoRequest, Ages, vars
<1>8. \A k \in Key : watchRequestMap'[k] # None => KeyOf[watchRequestMap'[k]] = k
  BY <1>7 DEF WatchesOK, IInv, MapsOK
<1> QED BY <1>2, <1>4, <1>6, <1>8 DEF WatchesOK

\* The request channel never holds more than it has room for, each holder is under
\* its own key, and each watch under its own (controller.go).
THEOREM TypeCorrect == Spec => []TypeOK
<1>1. Init => QueueOK /\ WatchesOK
  BY DEF Init, QueueOK, WatchesOK
<1>2. IInv /\ QueueOK /\ WatchesOK => TypeOK
  BY DEF IInv, MapsOK, HolderOK, Holders, Loop, LockOK, Locks, Keyed, QueueOK, WatchesOK, TypeOK
<1> QED BY <1>1, <1>2, Initially, NextKeeps, QueueKeeps, WatchesKeep, PTL DEF Spec
-----------------------------------------------------------------------------
(* LiteProxy.                                                              *)
HIDE LiteCacheAssumption DEF None, Holder
USE LiteProxyAssumption

\* A request that has created a temporary file and has not renamed it yet.
Writing(r) == pc[r] \in {"write", "rename"}

(* The types, and what holds whatever fails: only a writer has a file open, and *)
(* a temporary file is there for as long as somebody writes it.              *)
Contents == Answer \cup {Scrap}
DataOK == data \in [Inode -> Contents]
FilesOK ==
    /\ \A r \in Request : IF Writing(r) THEN fd[r] # NoFile /\ temp[r] \in Salt ELSE fd[r] = NoFile
    /\ \A n \in Salt : dir[n] # NoFile => \E r \in Request : Writing(r) /\ temp[r] = n

(* As long as nothing was torn, each writer has a file of its own, with nothing *)
(* in it until all has been written.                                        *)
Apart ==
    /\ \A p, q \in Request : Writing(p) /\ Writing(q) /\ temp[p] = temp[q] => p = q
    /\ \A r \in Request : Writing(r) => dir[temp[r]] = fd[r]
    /\ \A r \in Request : pc[r] = "write" => data[fd[r]] = Scrap
    /\ \A r \in Request : pc[r] = "rename" => data[fd[r]] # Scrap

ProxyIInv == ProxyTypeOK /\ DataOK /\ FilesOK /\ (~torn => Apart)
-----------------------------------------------------------------------------
(* There is always an inode and a salt left.                                 *)

LEMMA ImageBound ==
    ASSUME NEW S, IsFiniteSet(S), NEW f
    PROVE  LET T == {f[x] : x \in S} IN IsFiniteSet(T) /\ Cardinality(T) <= Cardinality(S)
<1> DEFINE T == {f[x] : x \in S}
           g == [x \in S |-> f[x]]
<1>1. g \in Surjection(S, T)
  BY DEF Surjection
<1> QED BY <1>1, FS_Surjection

LEMMA Sizes ==
    /\ Cardinality(Request) \in Nat /\ Cardinality(Salt) \in Nat
    /\ IsFiniteSet(Inode) /\ Cardinality(Inode) = 2 * Cardinality(Request) + 1
    /\ NoFile \notin Inode
<1>1. Cardinality(Request) \in Nat /\ Cardinality(Salt) \in Nat
  BY FS_CardinalityType
<1>2. 2 * Cardinality(Request) + 1 \in Int /\ 1 \in Int /\ ~(1 > 2 * Cardinality(Request) + 1)
  BY <1>1
<1>3. IsFiniteSet(Inode) /\ Cardinality(Inode) = 2 * Cardinality(Request) + 1
  BY <1>1, <1>2, FS_Interval DEF Inode
<1> QED BY <1>1, <1>3 DEF Inode, NoFile

LEMMA OneLess ==
    ASSUME NEW r \in Request
    PROVE  /\ IsFiniteSet(Request \ {r})
           /\ Cardinality(Request \ {r}) = Cardinality(Request) - 1
  BY FS_RemoveElement

\* A request that does not write yet finds a salt that no writer has.
LEMMA SaltLeft ==
    ASSUME NEW r \in Request, ~Writing(r)
    PROVE  \E s \in Salt : s \notin {temp[q] : q \in {p \in Request : Writing(p)}}
<1> DEFINE S == Request \ {r}
           T == {temp[q] : q \in S}
<1>1. {temp[q] : q \in {p \in Request : Writing(p)}} \subseteq T
  OBVIOUS
<1>2. IsFiniteSet(T) /\ Cardinality(T) <= Cardinality(Request) - 1
  <2>1. IsFiniteSet(S) /\ Cardinality(S) = Cardinality(Request) - 1
    BY OneLess
  <2> HIDE DEF S
  <2> QED BY <2>1, ImageBound
<1> HIDE DEF T
<1>3. ~(Salt \subseteq T)
  <2>1. SUFFICES ASSUME Salt \subseteq T PROVE FALSE
    OBVIOUS
  <2>2. Cardinality(Salt) <= Cardinality(T)
    BY <1>2, <2>1, FS_Subset
  <2>3. Cardinality(T) \in Nat
    BY <1>2, FS_CardinalityType
  <2> QED BY <1>2, <2>2, <2>3, Sizes
<1> QED BY <1>1, <1>3

\* A request that does not write yet finds an inode with no name that nobody has open.
LEMMA InodeLeft ==
    ASSUME FilesOK, NEW r \in Request, ~Writing(r)
    PROVE  \E j \in Inode : Unused(j)
<1> DEFINE S == Request \ {r}
           opened == {fd[q] : q \in S}
           d == [q \in S |-> dir[temp[q]]]
           named == {d[q] : q \in S}
           all == (opened \cup named) \cup {dir["key"]}
<1>1. IsFiniteSet(S) /\ Cardinality(S) = Cardinality(Request) - 1
  BY OneLess
<1> HIDE DEF S
<1>2. IsFiniteSet(opened) /\ Cardinality(opened) <= Cardinality(Request) - 1
  BY <1>1, ImageBound
<1>3. IsFiniteSet(named) /\ Cardinality(named) <= Cardinality(Request) - 1
  <2> HIDE DEF d
  <2> QED BY <1>1, ImageBound
<1>4. IsFiniteSet(all) /\ Cardinality(all) <= 2 * Cardinality(Request) - 1
  <2> HIDE DEF opened, named
  <2>1. /\ IsFiniteSet(opened \cup named)
        /\ Cardinality(opened \cup named) = Cardinality(opened) + Cardinality(named) - Cardinality(opened \cap named)
    BY <1>2, <1>3, FS_Union
  <2>2. Cardinality(opened) \in Nat /\ Cardinality(named) \in Nat /\ Cardinality(opened \cap named) \in Nat
    BY <1>2, <1>3, FS_Intersection, FS_CardinalityType
  <2>3. /\ IsFiniteSet(all)
        /\ Cardinality(all) <= Cardinality(opened \cup named) + 1
    <3> DEFINE both == opened \cup named
    <3>1. IsFiniteSet(both) /\ Cardinality(both) \in Nat
      BY <2>1, FS_CardinalityType
    <3> HIDE DEF both
    <3>2. /\ IsFiniteSet(both \cup {dir["key"]})
          /\ Cardinality(both \cup {dir["key"]}) <= Cardinality(both) + 1
      <4>1. /\ IsFiniteSet(both \cup {dir["key"]})
            /\ Cardinality(both \cup {dir["key"]}) =
                 IF dir["key"] \in both THEN Cardinality(both) ELSE Cardinality(both) + 1
        BY <3>1, FS_AddElement
      <4>2. CASE dir["key"] \in both
        BY <3>1, <4>1, <4>2
      <4>3. CASE dir["key"] \notin both
        BY <3>1, <4>1, <4>3
      <4> QED BY <4>2, <4>3
    <3> QED BY <3>2 DEF both
  <2>4. Cardinality(all) \in Nat
    BY <2>3, FS_CardinalityType
  <2> HIDE DEF all
  <2> QED BY <1>2, <1>3, <2>1, <2>2, <2>3, <2>4, Sizes
<1>5. ~(Inode \subseteq all)
  <2> HIDE DEF all
  <2>1. SUFFICES ASSUME Inode \subseteq all PROVE FALSE
    OBVIOUS
  <2>2. Cardinality(Inode) <= Cardinality(all)
    BY <1>4, <2>1, FS_Subset
  <2>3. Cardinality(all) \in Nat
    BY <1>4, FS_CardinalityType
  <2> QED BY <1>4, <2>2, <2>3, Sizes
<1>6. PICK j \in Inode : j \notin all
  BY <1>5
<1>7. j # NoFile
  BY Sizes
<1>8. ASSUME NEW q \in Request PROVE j # fd[q]
  BY <1>6, <1>7 DEF FilesOK, S
<1>9. ASSUME NEW n \in Name PROVE j # dir[n]
  <2>1. CASE n = "key"
    BY <1>6, <2>1
  <2>2. CASE n \in Salt
    <3>1. SUFFICES ASSUME dir[n] # NoFile PROVE j # dir[n]
      BY <1>7
    <3>2. PICK q \in Request : Writing(q) /\ temp[q] = n
      BY <2>2, <3>1 DEF FilesOK
    <3>3. q \in S
      BY <3>2 DEF S
    <3> QED BY <1>6, <3>2, <3>3
  <2> QED BY <2>1, <2>2 DEF Name
<1> QED BY <1>8, <1>9 DEF Unused
-----------------------------------------------------------------------------
LEMMA ScrapIsNoAnswer == Scrap \notin Answer /\ Nothing \in Answer
<1>1. Scrap.version = MaxVersion + 1
  BY DEF Scrap, Nothing
<1> QED BY <1>1 DEF Answer, Nothing

\* What does not touch the files.
LEMMA FilesKept ==
    ASSUME ProxyIInv, ProxyTypeOK', UNCHANGED <<fd, temp, dir, data, torn>>,
           \A r \in Request : pc'[r] = pc[r] \/ (~Writing(r) /\ ~Writing(r)')
    PROVE  ProxyIInv' /\ Cached' = Cached
<1>1. DataOK' /\ Cached' = Cached
  BY DEF ProxyIInv, DataOK, Cached
<1>2. \A r \in Request : Writing(r)' <=> Writing(r)
  BY DEF Writing
<1>3. FilesOK'
  BY <1>2 DEF ProxyIInv, FilesOK
<1>4. ~torn' => Apart'
  <2>1. SUFFICES ASSUME ~torn PROVE Apart'
    OBVIOUS
  <2>2. Apart
    BY <2>1 DEF ProxyIInv
  <2>3. \A r \in Request : pc'[r] \in {"write", "rename"} => pc'[r] = pc[r]
    BY DEF Writing
  <2> QED BY <1>2, <2>2, <2>3 DEF Apart
<1> QED BY <1>1, <1>3, <1>4 DEF ProxyIInv

LEMMA CloudKeeps ==
    ASSUME ProxyIInv, Change \/ Sickens \/ Recovers \/ Breaks \/ Mends
    PROVE  ProxyIInv' /\ Cached' = Cached
<1>1. UNCHANGED requestVars
  BY DEF Change, Sickens, Recovers, Breaks, Mends
<1>2. /\ version' \in 0 .. MaxVersion /\ healthy' \in BOOLEAN
      /\ link' \in Down \cup {"up"} /\ faults' \in 0 .. MaxFaults
  <2>1. /\ version \in 0 .. MaxVersion /\ healthy \in BOOLEAN
        /\ link \in Down \cup {"up"} /\ faults \in 0 .. MaxFaults
    BY DEF ProxyIInv, ProxyTypeOK
  <2>2. CASE Change
    BY <2>1, <2>2 DEF Change
  <2>3. CASE Sickens
    <3>1. healthy' \in BOOLEAN
      BY <2>3, Zenon DEF Sickens
    <3> QED BY <2>1, <2>3, <3>1 DEF Sickens, Fault
  <2>4. CASE Recovers
    BY <2>1, <2>4 DEF Recovers
  <2>5. CASE Breaks
    BY <2>1, <2>5 DEF Breaks, Fault
  <2>6. CASE Mends
    BY <2>1, <2>6 DEF Mends
  <2> QED BY <2>2, <2>3, <2>4, <2>5, <2>6
<1>3. ProxyTypeOK'
  BY <1>1, <1>2 DEF ProxyIInv, ProxyTypeOK, requestVars
<1> QED BY <1>1, <1>3, FilesKept DEF requestVars

\* The steps of a request before it stores, and the answer after an error.
LEMMA ProxyKeeps ==
    ASSUME ProxyIInv, NEW r \in Request, Send(r) \/ ModifyResponse(r) \/ HandlerError(r)
    PROVE  ProxyIInv' /\ Cached' = Cached
<1>1. /\ UNCHANGED <<cloudVars, fd, temp, dir, data, torn>> /\ ~Writing(r)
      /\ \E l \in {"idle", "body", "create", "failed"} : pc' = [pc EXCEPT ![r] = l]
  BY DEF Send, ModifyResponse, HandlerError, Goes, Writing
<1>2. /\ pc \in [Request -> {"idle", "body", "create", "write", "rename", "failed"}]
      /\ answer \in [Request -> Answer] /\ err \in [Request -> Down \cup {"none"}]
      /\ version \in 0 .. MaxVersion /\ healthy \in BOOLEAN /\ link \in Down \cup {"up"}
  BY DEF ProxyIInv, ProxyTypeOK
<1>3. pc' \in [Request -> {"idle", "body", "create", "write", "rename", "failed"}]
  BY <1>1, <1>2
<1>4. answer' \in [Request -> Answer] /\ err' \in [Request -> Down \cup {"none"}]
  <2>1. CASE Send(r)
    <3>1. [ok |-> healthy, version |-> version, whole |-> TRUE] \in Answer
      BY <1>2 DEF Answer
    <3> QED BY <1>2, <2>1, <3>1 DEF Send
  <2>2. CASE ModifyResponse(r)
    <3>1. PICK whole \in BOOLEAN : answer' = [answer EXCEPT ![r].whole = whole]
      BY <2>2 DEF ModifyResponse
    <3>2. [answer[r] EXCEPT !.whole = whole] \in Answer
      BY <1>2 DEF Answer
    <3> QED BY <1>2, <2>2, <3>1, <3>2 DEF ModifyResponse
  <2>3. CASE HandlerError(r)
    BY <1>2, <2>3 DEF HandlerError
  <2> QED BY <2>1, <2>2, <2>3
<1>5. ProxyTypeOK'
  BY <1>1, <1>3, <1>4 DEF ProxyIInv, ProxyTypeOK, cloudVars
<1>6. \A q \in Request : pc'[q] = pc[q] \/ (~Writing(q) /\ ~Writing(q)')
  BY <1>1, <1>2 DEF Writing
<1> QED BY <1>1, <1>5, <1>6, FilesKept
-----------------------------------------------------------------------------
(* The storage.                                                            *)

\* A temporary file is a new one, unless another writes into one of that name.
LEMMA CreateKeeps ==
    ASSUME ProxyIInv, NEW r \in Request, ~Writing(r), Goes(r, "write"), NEW n \in Salt, Create(r, n),
           UNCHANGED <<version, healthy, link, answer, err>>, faults' \in 0 .. MaxFaults,
           torn' \in BOOLEAN, torn => torn',
           torn' \/ n \notin {temp[q] : q \in {p \in Request : Writing(p)}}
    PROVE  ProxyIInv' /\ (~torn' => Cached' = Cached)
<1>1. /\ pc \in [Request -> {"idle", "body", "create", "write", "rename", "failed"}]
      /\ fd \in [Request -> Inode \cup {NoFile}] /\ temp \in [Request -> Name]
      /\ dir \in [Name -> Inode \cup {NoFile}] /\ data \in [Inode -> Contents]
      /\ n \in Name /\ n # "key" /\ "key" \in Name
  BY DEF ProxyIInv, ProxyTypeOK, DataOK, Name
<1> DEFINE i == IF dir[n] # NoFile THEN dir[n] ELSE CHOOSE j \in Inode : Unused(j)
<1>2. /\ fd' = [fd EXCEPT ![r] = i] /\ temp' = [temp EXCEPT ![r] = n]
      /\ dir' = [dir EXCEPT ![n] = i] /\ data' = [data EXCEPT ![i] = Scrap]
  BY DEF Create
<1>3. /\ i \in Inode /\ i # NoFile
      /\ dir[n] # NoFile => i = dir[n]
      /\ dir[n] = NoFile => Unused(i)
  <2>1. CASE dir[n] # NoFile
    BY <1>1, <2>1
  <2>2. CASE dir[n] = NoFile
    <3>1. i \in Inode /\ Unused(i)
      BY <2>2, InodeLeft DEF ProxyIInv
    <3> QED BY <2>2, <3>1, Sizes
  <2> QED BY <2>1, <2>2
<1> HIDE DEF i
<1>4. /\ pc'[r] = "write" /\ fd'[r] = i /\ temp'[r] = n /\ dir'[n] = i /\ data'[i] = Scrap
      /\ \A q \in Request : q # r => pc'[q] = pc[q] /\ fd'[q] = fd[q] /\ temp'[q] = temp[q]
      /\ \A m \in Name : m # n => dir'[m] = dir[m]
      /\ \A j \in Inode : j # i => data'[j] = data[j]
  BY <1>1, <1>2, <1>3 DEF Goes
<1>5. ProxyTypeOK' /\ DataOK'
  <2>1. /\ pc' \in [Request -> {"idle", "body", "create", "write", "rename", "failed"}]
        /\ fd' \in [Request -> Inode \cup {NoFile}] /\ temp' \in [Request -> Name]
        /\ dir' \in [Name -> Inode \cup {NoFile}]
    BY <1>1, <1>2, <1>3 DEF Goes
  <2>2. data' \in [Inode -> Contents]
    BY <1>1, <1>2, <1>3 DEF Contents
  <2>3. \A j \in Inode : data'[j] \in Contents
    BY <2>2
  <2>4. \A m, k \in Name : dir'[m] = dir'[k] => m = k \/ dir'[m] = NoFile
    <3>1. \A m, k \in Name : dir[m] = dir[k] => m = k \/ dir[m] = NoFile
      BY DEF ProxyIInv, ProxyTypeOK
    <3>2. \A m \in Name : m # n => dir[m] # i
      <4>1. CASE dir[n] # NoFile
        BY <1>1, <1>3, <3>1, <4>1
      <4>2. CASE dir[n] = NoFile
        BY <1>3, <4>2 DEF Unused
      <4> QED BY <4>1, <4>2
    <3> QED BY <1>4, <3>1, <3>2
  <2> QED BY <2>1, <2>2, <2>3, <2>4 DEF ProxyIInv, ProxyTypeOK, DataOK, Contents
<1>6. \A q \in Request : Writing(q)' <=> q = r \/ Writing(q)
  BY <1>4 DEF Writing
<1>7. FilesOK'
  BY <1>1, <1>3, <1>4, <1>6 DEF ProxyIInv, FilesOK, Name
<1>8. ASSUME ~torn' PROVE Apart' /\ Cached' = Cached
  <2>1. Apart /\ \A q \in Request : Writing(q) => temp[q] # n
    BY <1>8 DEF ProxyIInv
  <2>2. dir[n] = NoFile
    BY <2>1 DEF ProxyIInv, FilesOK
  <2>3. (\A m \in Name : dir[m] # i) /\ (\A q \in Request : fd[q] # i)
    BY <1>3, <2>2 DEF Unused
  <2>4. \A q \in Request : Writing(q) => q # r /\ fd[q] \in Inode /\ temp[q] \in Name
    BY <1>1 DEF ProxyIInv, FilesOK
  <2>5. \A q \in Request : q # r /\ Writing(q) => data'[fd[q]] = data[fd[q]] /\ dir'[temp[q]] = dir[temp[q]]
    BY <1>4, <2>1, <2>3, <2>4
  <2>6. /\ \A p, q \in Request : (Writing(p) /\ Writing(q) /\ temp[p] = temp[q])' => p = q
        /\ \A q \in Request : (Writing(q) => dir[temp[q]] = fd[q])'
    BY <1>4, <1>6, <2>1, <2>5 DEF Apart
  <2>7. \A q \in Request : (pc'[q] = "write" => data'[fd'[q]] = Scrap) /\ (pc'[q] = "rename" => data'[fd'[q]] # Scrap)
    BY <1>4, <2>1, <2>5 DEF Apart, Writing
  <2>8. Cached' = Cached
    <3>1. dir'["key"] = dir["key"] /\ dir["key"] # i
      BY <1>1, <1>4, <2>3
    <3>2. dir["key"] # NoFile => data'[dir["key"]] = data[dir["key"]]
      BY <1>1, <1>4, <3>1
    <3> QED BY <3>1, <3>2 DEF Cached
  <2> QED BY <2>6, <2>7, <2>8 DEF Apart
<1> QED BY <1>5, <1>7, <1>8 DEF ProxyIInv

LEMMA WriteFileKeeps ==
    ASSUME ProxyIInv, NEW r \in Request, WriteFile(r)
    PROVE  ProxyIInv' /\ (~torn' => Cached' = Cached)
<1> DEFINE used == {temp[q] : q \in {p \in Request : Writing(p)}}
<1>1. /\ pc[r] = "create" /\ Goes(r, "write") /\ UNCHANGED <<version, healthy, link, answer, err>>
      /\ \/ Create(r, CHOOSE s \in Salt : s \notin used) /\ UNCHANGED <<faults, torn>>
         \/ Fault /\ torn' = TRUE /\ \E s \in used : Create(r, s)
  BY DEF WriteFile, TempName, Writing
<1>2. ~Writing(r) /\ faults \in 0 .. MaxFaults /\ torn \in BOOLEAN
  BY <1>1 DEF Writing, ProxyIInv, ProxyTypeOK
<1>3. CASE Create(r, CHOOSE s \in Salt : s \notin used) /\ UNCHANGED <<faults, torn>>
  <2>1. PICK n : n = CHOOSE s \in Salt : s \notin used
    OBVIOUS
  <2>2. n \in Salt /\ n \notin used
    BY <1>2, <2>1, SaltLeft
  <2>3. Create(r, n)
    BY <1>3, <2>1
  <2> QED BY <1>1, <1>2, <1>3, <2>2, <2>3, CreateKeeps
<1>4. ASSUME Fault, torn' = TRUE, NEW s \in used, Create(r, s) PROVE ProxyIInv' /\ (~torn' => Cached' = Cached)
  <2>1. faults' \in 0 .. MaxFaults
    BY <1>2, <1>4 DEF Fault
  <2>2. s \in Salt
    BY DEF ProxyIInv, FilesOK
  <2>3. torn' \in BOOLEAN /\ torn'
    BY <1>4
  <2> QED BY <1>1, <1>2, <1>4, <2>1, <2>2, <2>3, CreateKeeps
<1> QED BY <1>1, <1>3, <1>4

\* The content goes into the file that was created, which is not the cached one
\* while the writers are apart.
LEMMA WriteKeeps ==
    ASSUME ProxyIInv, NEW r \in Request, Write(r)
    PROVE  ProxyIInv' /\ (~torn' => Cached' = Cached)
<1>1. /\ pc \in [Request -> {"idle", "body", "create", "write", "rename", "failed"}]
      /\ answer \in [Request -> Answer] /\ fd \in [Request -> Inode \cup {NoFile}]
      /\ temp \in [Request -> Name] /\ dir \in [Name -> Inode \cup {NoFile}]
      /\ data \in [Inode -> Contents] /\ faults \in 0 .. MaxFaults /\ torn \in BOOLEAN
  BY DEF ProxyIInv, ProxyTypeOK, DataOK
<1>2. /\ pc[r] = "write" /\ pc' = [pc EXCEPT ![r] = "rename"]
      /\ UNCHANGED <<version, healthy, link, answer, err, fd, temp, dir>>
  BY DEF Write, Goes
<1>3. fd[r] \in Inode /\ answer[r] \in Answer /\ Writing(r) /\ temp[r] \in Salt
  BY <1>1, <1>2 DEF ProxyIInv, FilesOK, Writing
<1>4. PICK d \in Contents :
          /\ data' = [data EXCEPT ![fd[r]] = d] /\ faults' \in 0 .. MaxFaults
          /\ \/ UNCHANGED torn /\ (data[fd[r]] = Scrap => d = answer[r])
             \/ torn' = TRUE
  <2>1. CASE Fault /\ torn' = TRUE /\ data' = [data EXCEPT ![fd[r]] = Scrap]
    <3>1. faults' \in 0 .. MaxFaults
      BY <1>1, <2>1 DEF Fault
    <3>2. Scrap \in Contents
      BY DEF Contents
    <3> QED BY <2>1, <3>1, <3>2
  <2>2. CASE /\ \E d \in {answer[r], IF data[fd[r]] = Scrap THEN answer[r] ELSE Scrap} :
                    data' = [data EXCEPT ![fd[r]] = d]
             /\ UNCHANGED <<faults, torn>>
    BY <1>1, <1>3, <2>2 DEF Contents
  <2> QED BY <2>1, <2>2 DEF Write
<1>5. /\ pc'[r] = "rename" /\ data'[fd[r]] = d
      /\ \A q \in Request : q # r => pc'[q] = pc[q]
      /\ \A j \in Inode : j # fd[r] => data'[j] = data[j]
      /\ torn' \in BOOLEAN /\ (torn => torn')
  <2>1. torn' \in BOOLEAN /\ (torn => torn')
    <3>1. torn \in BOOLEAN
      BY <1>1
    <3>2. torn' = torn \/ torn' = TRUE
      BY <1>4
    <3> QED BY <3>1, <3>2, Zenon
  <2> QED BY <1>1, <1>2, <1>3, <1>4, <2>1
<1>6. ProxyTypeOK' /\ DataOK'
  <2>1. data' \in [Inode -> Contents]
    BY <1>1, <1>3, <1>4
  <2>2. \A j \in Inode : data'[j] \in Contents
    BY <2>1
  <2>3. pc' \in [Request -> {"idle", "body", "create", "write", "rename", "failed"}]
    BY <1>1, <1>2
  <2> QED BY <1>2, <1>4, <1>5, <2>1, <2>2, <2>3 DEF ProxyIInv, ProxyTypeOK, DataOK, Contents
<1>7. \A q \in Request : Writing(q)' <=> Writing(q)
  BY <1>2, <1>5 DEF Writing
<1>8. FilesOK'
  BY <1>2, <1>7 DEF ProxyIInv, FilesOK
<1>9. ASSUME ~torn' PROVE Apart' /\ Cached' = Cached
  <2>1. Apart /\ data[fd[r]] = Scrap /\ d = answer[r] /\ d # Scrap
    BY <1>2, <1>3, <1>4, <1>5, <1>9, ScrapIsNoAnswer DEF ProxyIInv, Apart
  <2>2. \A m, k \in Name : dir[m] = dir[k] => m = k \/ dir[m] = NoFile
    BY DEF ProxyIInv, ProxyTypeOK
  <2>3. dir[temp[r]] = fd[r] /\ fd[r] # NoFile
    BY <1>3, <2>1, Sizes DEF Apart
  <2>4. \A q \in Request : q # r /\ Writing(q) => fd[q] # fd[r] /\ fd[q] \in Inode
    <3>1. SUFFICES ASSUME NEW q \in Request, q # r, Writing(q) PROVE fd[q] # fd[r] /\ fd[q] \in Inode
      OBVIOUS
    <3>2. temp[q] # temp[r] /\ dir[temp[q]] = fd[q] /\ fd[q] # NoFile
      BY <1>3, <2>1, <3>1 DEF Apart, ProxyIInv, FilesOK
    <3> QED BY <1>1, <2>2, <2>3, <3>1, <3>2
  <2>5. \A q \in Request : q # r /\ Writing(q) => data'[fd[q]] = data[fd[q]]
    BY <1>5, <2>4
  <2>6. /\ \A q \in Request : pc'[q] = "write" => data'[fd[q]] = Scrap
        /\ \A q \in Request : pc'[q] = "rename" => data'[fd[q]] # Scrap
    BY <1>5, <2>1, <2>5 DEF Apart, Writing
  <2>7. Cached' = Cached
    <3>1. "key" \in Name /\ temp[r] \in Name /\ temp[r] # "key"
      BY <1>3 DEF Name
    <3>2. dir["key"] # fd[r]
      BY <2>2, <2>3, <3>1
    <3> QED BY <1>1, <1>2, <1>5, <3>1, <3>2 DEF Cached
  <2> QED BY <1>2, <1>7, <2>1, <2>6, <2>7 DEF Apart
<1> QED BY <1>6, <1>8, <1>9 DEF ProxyIInv

\* What is renamed into the cached file has been written.
LEMMA RenameKeeps ==
    ASSUME ProxyIInv, NEW r \in Request, Rename(r)
    PROVE  ProxyIInv' /\ (~torn' => Cached' # Scrap)
<1>1. /\ pc \in [Request -> {"idle", "body", "create", "write", "rename", "failed"}]
      /\ answer \in [Request -> Answer] /\ fd \in [Request -> Inode \cup {NoFile}]
      /\ temp \in [Request -> Name] /\ dir \in [Name -> Inode \cup {NoFile}]
      /\ \A m, k \in Name : dir[m] = dir[k] => m = k \/ dir[m] = NoFile
  BY DEF ProxyIInv, ProxyTypeOK
<1>2. /\ pc[r] = "rename" /\ pc' = [pc EXCEPT ![r] = "idle"] /\ fd' = [fd EXCEPT ![r] = NoFile]
      /\ answer' = [answer EXCEPT ![r] = Nothing] /\ UNCHANGED <<cloudVars, err, temp, data, torn>>
      /\ dir' = IF dir[temp[r]] = NoFile THEN dir ELSE Renamed(temp[r])
  BY DEF Rename, Goes
<1>3. PICK t \in Salt : t = temp[r]
  BY <1>2 DEF ProxyIInv, FilesOK, Writing
<1>4. t \in Name /\ "key" \in Name /\ t # "key"
  BY DEF Name
<1>5. /\ dir' \in [Name -> Inode \cup {NoFile}] /\ dir'[t] = NoFile
      /\ dir'["key"] = IF dir[t] = NoFile THEN dir["key"] ELSE dir[t]
      /\ \A m \in Name : m \notin {t, "key"} => dir'[m] = dir[m]
  <2>1. CASE dir[t] = NoFile
    BY <1>1, <1>2, <1>3, <2>1
  <2>2. CASE dir[t] # NoFile
    <3>1. dir' = [m \in Name |-> IF m = "key" THEN dir[t] ELSE IF m = t THEN NoFile ELSE dir[m]]
      BY <1>2, <1>3, <2>2 DEF Renamed
    <3> QED BY <1>1, <1>4, <2>2, <3>1
  <2> QED BY <2>1, <2>2
<1>6. /\ pc'[r] = "idle" /\ fd'[r] = NoFile
      /\ \A q \in Request : q # r => pc'[q] = pc[q] /\ fd'[q] = fd[q]
  BY <1>1, <1>2
<1>7. ProxyTypeOK' /\ DataOK'
  <2>1. /\ pc' \in [Request -> {"idle", "body", "create", "write", "rename", "failed"}]
        /\ answer' \in [Request -> Answer] /\ fd' \in [Request -> Inode \cup {NoFile}]
    BY <1>1, <1>2, ScrapIsNoAnswer
  <2>2. \A m, k \in Name : dir'[m] = dir'[k] => m = k \/ dir'[m] = NoFile
    <3>1. SUFFICES ASSUME NEW m \in Name, NEW k \in Name, dir'[m] = dir'[k], m # k, dir'[m] # NoFile PROVE FALSE
      OBVIOUS
    <3>2. m # t /\ k # t
      BY <1>5, <3>1
    <3> QED BY <1>1, <1>4, <1>5, <3>1, <3>2
  <2> QED BY <1>2, <1>5, <2>1, <2>2 DEF ProxyIInv, ProxyTypeOK, DataOK, cloudVars
<1>8. \A q \in Request : Writing(q)' <=> q # r /\ Writing(q)
  BY <1>2, <1>6 DEF Writing
<1>9. FilesOK'
  <2>1. \A q \in Request : IF Writing(q)' THEN fd'[q] # NoFile /\ temp'[q] \in Salt ELSE fd'[q] = NoFile
    BY <1>2, <1>6, <1>8 DEF ProxyIInv, FilesOK
  <2>2. ASSUME NEW n \in Salt, dir'[n] # NoFile PROVE \E q \in Request : Writing(q)' /\ temp'[q] = n
    <3>1. n # t /\ n # "key" /\ n \in Name
      BY <1>5, <2>2 DEF Name
    <3>2. dir[n] # NoFile
      BY <1>5, <2>2, <3>1
    <3>3. PICK q \in Request : Writing(q) /\ temp[q] = n
      BY <3>2 DEF ProxyIInv, FilesOK
    <3>4. q # r
      BY <1>3, <3>1, <3>3
    <3> QED BY <1>2, <1>8, <3>3, <3>4
  <2> QED BY <2>1, <2>2 DEF FilesOK
<1>10. ASSUME ~torn' PROVE Apart' /\ Cached' # Scrap
  <2>1. Apart /\ dir[t] = fd[r] /\ fd[r] # NoFile /\ data[fd[r]] # Scrap
    BY <1>2, <1>3, <1>10 DEF ProxyIInv, Apart, FilesOK, Writing
  <2>2. \A q \in Request : Writing(q)' => temp[q] # t /\ temp[q] \in Salt /\ temp[q] # "key"
    BY <1>2, <1>3, <1>8, <2>1 DEF Apart, ProxyIInv, FilesOK, Writing
  <2>3. \A q \in Request : Writing(q)' => dir'[temp[q]] = dir[temp[q]]
    BY <1>5, <2>2 DEF Name
  <2>4. /\ \A p, q \in Request : (Writing(p) /\ Writing(q) /\ temp[p] = temp[q])' => p = q
        /\ \A q \in Request : (Writing(q) => dir[temp[q]] = fd[q])'
    BY <1>2, <1>6, <1>8, <2>1, <2>3 DEF Apart
  <2>5. \A q \in Request : (pc'[q] = "write" => data'[fd'[q]] = Scrap) /\ (pc'[q] = "rename" => data'[fd'[q]] # Scrap)
    BY <1>2, <1>6, <2>1 DEF Apart
  <2>6. Cached' # Scrap
    BY <1>2, <1>5, <2>1 DEF Cached
  <2> QED BY <2>4, <2>5, <2>6 DEF Apart
<1> QED BY <1>7, <1>9, <1>10 DEF ProxyIInv
-----------------------------------------------------------------------------
LEMMA ProxyInitially == ProxyInit => ProxyIInv
<1> SUFFICES ASSUME ProxyInit PROVE ProxyIInv
  OBVIOUS
<1>1. Salt # {} \/ Request = {}
  <2>1. Cardinality({}) = 0 /\ (Cardinality(Request) = 0 => Request = {})
    BY FS_EmptySet
  <2> QED BY <2>1, Sizes
<1>2. temp \in [Request -> Name]
  <2>1. CASE Salt # {}
    <3>1. (CHOOSE s \in Salt : TRUE) \in Name
      BY <2>1 DEF Name
    <3> QED BY <3>1 DEF ProxyInit
  <2>2. CASE Request = {}
    BY <2>2 DEF ProxyInit
  <2> QED BY <1>1, <2>1, <2>2
<1>3. data = [j \in Inode |-> Scrap] /\ data \in [Inode -> Contents] /\ \A j \in Inode : data[j] \in Contents
  BY DEF ProxyInit, Contents
<1>4. \A r \in Request : pc[r] = "idle" /\ fd[r] = NoFile
  BY DEF ProxyInit
<1>5. \A n \in Name : dir[n] = NoFile
  BY DEF ProxyInit
<1>6. healthy \in BOOLEAN /\ torn \in BOOLEAN
  BY Zenon DEF ProxyInit
<1>7. ProxyTypeOK
  BY <1>2, <1>3, <1>5, <1>6, ScrapIsNoAnswer DEF ProxyInit, ProxyTypeOK, Contents
<1>8. FilesOK /\ Apart
  BY <1>4, <1>5 DEF FilesOK, Apart, Writing, Name
<1> QED BY <1>3, <1>7, <1>8 DEF ProxyIInv, DataOK

LEMMA ProxyNextKeeps ==
    ASSUME ProxyIInv, [ProxyNext]_proxyVars
    PROVE  ProxyIInv' /\ (Cached # Scrap /\ ~torn' => Cached' # Scrap)
<1>1. CASE Change \/ Sickens \/ Recovers \/ Breaks \/ Mends
  BY <1>1, CloudKeeps
<1>2. ASSUME NEW r \in Request, Send(r) \/ ModifyResponse(r) \/ HandlerError(r)
      PROVE  ProxyIInv' /\ Cached' = Cached
  BY <1>2, ProxyKeeps
<1>3. ASSUME NEW r \in Request, WriteFile(r) \/ Write(r) \/ Rename(r)
      PROVE  ProxyIInv' /\ (Cached # Scrap /\ ~torn' => Cached' # Scrap)
  BY <1>3, WriteFileKeeps, WriteKeeps, RenameKeeps
<1>4. CASE UNCHANGED proxyVars
  <2>1. ProxyTypeOK'
    BY <1>4 DEF proxyVars, ProxyIInv, ProxyTypeOK
  <2> QED BY <1>4, <2>1, FilesKept DEF proxyVars
<1> QED BY <1>1, <1>2, <1>3, <1>4 DEF ProxyNext, Goroutine

LEMMA ProxyInductive == ProxySpec => []ProxyIInv
  BY ProxyInitially, ProxyNextKeeps, PTL DEF ProxySpec

\* Names lead to inodes of their own, and a request that stores always finds a file
\* to write into (file_storage.go writeFile).
THEOREM ProxyTypeCorrect == ProxySpec => []ProxyTypeOK
<1>1. ProxyIInv => ProxyTypeOK
  BY DEF ProxyIInv
<1> QED BY <1>1, ProxyInductive, PTL

\* However many requests store at the same time, whatever of an answer they got and
\* whenever they go on, a cached answer that can be read is replaced by another that
\* can, if no write fails half-way and no two draw the same salt (file_storage.go writeFile).
THEOREM StaysReadable == ProxySpec => CacheStaysReadable
<1>1. ProxyIInv /\ [ProxyNext]_proxyVars => [Cached # Scrap /\ ~torn' => Cached' # Scrap]_proxyVars
  BY ProxyNextKeeps
<1> QED BY <1>1, ProxyInductive, PTL DEF ProxySpec, CacheStaysReadable
=============================================================================
