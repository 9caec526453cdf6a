----------------------------- MODULE LiteCache -----------------------------
(***************************************************************************)
(* The request cache controller of lite-apiserver                          *)
(* (pkg/lite-apiserver/proxy/controller.go): which lists it repeats in the   *)
(* background on behalf of the clients that watch, the holder loops that     *)
(* time them, the request channel, the garbage collector, and the lock that  *)
(* one of them keeps while it waits for another.  What a repeated list does  *)
(* to the cache is in LiteProxy.                                            *)
(*                                                                         *)
(* A key is a user agent and a path.  A watch is one HTTP request; a holder  *)
(* is numbered as it is made, and stays what it is when it has been dropped. *)
(***************************************************************************)
EXTENDS Naturals, Sequences, FiniteSets

CONSTANTS Key, Watch,
          KeyOf,       \* the key of each watch
          ChanCap,     \* room in requestCh (100 in the code)
          MaxHolders,  \* how many holders are made at most
          MaxCrashes   \* how often the process panics in doRequest

Holder == 1 .. MaxHolders
None == 0

ASSUME LiteCacheAssumption ==
    /\ KeyOf \in [Watch -> Key]
    /\ ChanCap \in Nat \ {0} /\ MaxHolders \in Nat /\ MaxCrashes \in Nat
    /\ "gc" \notin Watch /\ "nobody" \notin Watch /\ None \notin Watch \cup Key

VARIABLES
    listRequestMap,   \* the holder of each key, or None
    watchRequestMap,  \* the watch of each key, or None
    holder,           \* key, isStart, whether 30 seconds have passed, its loop
    made,             \* how many holders there were
    watch,            \* where each watch request is
    lock,             \* who has the controller's lock, and its work
    requestCh, doing, \* lists to repeat; those doRequest repeats
    crashes

vars == <<listRequestMap, watchRequestMap, holder, made, watch, lock,
          requestCh, doing, crashes>>

\* closing is the holder that close waits for; todo, what watchGC has not visited.
Free == [by |-> "nobody", closing |-> None, todo |-> {}]

\* Maps and channels hold what they are made for, and a holder is under its key.
TypeOK ==
    /\ listRequestMap \in [Key -> Holder \cup {None}]
    /\ watchRequestMap \in [Key -> Watch \cup {None}]
    /\ holder \in [Holder -> [key : Key \cup {None}, isStart : BOOLEAN, old : BOOLEAN,
                              loop : {"off", "select", "put"}]]
    /\ made \in 0 .. MaxHolders
    /\ watch \in [Watch -> {"new", "waiting", "open", "failing", "left", "gone"}]
    /\ lock \in [by : Watch \cup {"gc", "nobody"}, closing : Holder \cup {None}, todo : SUBSET Key]
    /\ requestCh \in Seq(Holder) /\ Len(requestCh) <= ChanCap
    /\ doing \subseteq Holder /\ crashes \in 0 .. MaxCrashes
    /\ \A k \in Key : /\ listRequestMap[k] # None => holder[listRequestMap[k]].key = k
                      /\ watchRequestMap[k] # None => KeyOf[watchRequestMap[k]] = k

Idle(k) == [key |-> k, isStart |-> FALSE, old |-> FALSE, loop |-> "off"]

Init ==
    /\ listRequestMap = [k \in Key |-> None] /\ watchRequestMap = [k \in Key |-> None]
    /\ holder = [h \in Holder |-> Idle(None)]
    /\ made = 0 /\ watch = [w \in Watch |-> "new"] /\ lock = Free
    /\ requestCh = <<>> /\ doing = {} /\ crashes = 0

Unlocked == lock.by = "nobody"
-----------------------------------------------------------------------------
(* AddRequest, called for every list and watch of a client before it is sent on. *)

ReplaceList(k) ==
    /\ made < MaxHolders /\ made' = made + 1
    /\ holder' = [holder EXCEPT ![made + 1] = Idle(k)]
    /\ listRequestMap' = [listRequestMap EXCEPT ![k] = made + 1]

\* addListRequest: the first list of a key is the one that will be repeated.
AddList(k) ==
    /\ listRequestMap[k] = None
    /\ made < MaxHolders /\ made' = made + 1
    /\ holder' = [holder EXCEPT ![made + 1] = Idle(k)]
    /\ listRequestMap' = [listRequestMap EXCEPT ![k] = made + 1]

List(k) ==
    /\ Unlocked /\ AddList(k)
    /\ UNCHANGED <<watchRequestMap, watch, lock, requestCh, doing, crashes>>

StartNoLoop(h) == [holder EXCEPT ![h].isStart = TRUE]

\* holder.start: nothing if it is started already.  Tickers are not modelled: each start
\* makes a new one, and close stops none.
Start(h) ==
    IF holder[h].isStart THEN holder
    ELSE [holder EXCEPT ![h].isStart = TRUE, ![h].loop = "select"]

\* addWatchRequest: a watch without a list before it is not registered.
AddWatch(w) ==
    LET k == KeyOf[w] IN
    /\ Unlocked /\ watch[w] = "new"
    /\ watch' = [watch EXCEPT ![w] = "waiting"]
    /\ IF listRequestMap[k] = None THEN UNCHANGED <<holder, watchRequestMap>>
       ELSE /\ holder' = Start(listRequestMap[k])
            /\ watchRequestMap' = [watchRequestMap EXCEPT ![k] = w]
    /\ UNCHANGED <<listRequestMap, made, lock, requestCh, doing, crashes>>
-----------------------------------------------------------------------------
(* The watch itself, in httputil.ReverseProxy.                             *)

Moves(w, from, to) ==
    /\ watch[w] = from /\ watch' = [watch EXCEPT ![w] = to]
    /\ UNCHANGED <<listRequestMap, watchRequestMap, holder, made, lock, requestCh, doing, crashes>>

\* The apiserver answers; the watch then ends with its connection.
Opens(w) == Moves(w, "waiting", "open")
Ends(w) == Moves(w, "open", "gone")

\* No answer, or the client goes away before there is one: handlerError, which
\* ends with DeleteRequest.
Fails(w) == Moves(w, "waiting", "failing")
Leaves(w) == Moves(w, "waiting", "left")

ClientGone(w) == watch[w] = "left"

\* The context of a request is done when its client or its handler has gone.
Done(w) == watch[w] \in {"left", "gone"}
-----------------------------------------------------------------------------
(* holder.close, called with the lock held: it sends on stopCh, which has no   *)
(* buffer, and so waits for the holder's loop to select.                     *)

StillStarted(h) == [holder EXCEPT ![h].old = FALSE]

Stop(h) == [holder EXCEPT ![h].isStart = FALSE, ![h].old = FALSE]

Close(h, l) ==
    IF h # None /\ holder[h].isStart
    THEN holder' = Stop(h) /\ lock' = [l EXCEPT !.closing = h]
    ELSE lock' = l /\ UNCHANGED holder

\* The two meet, and close returns.
StopReceived(h) ==
    /\ lock.closing = h /\ holder[h].loop = "select"
    /\ holder' = [holder EXCEPT ![h].loop = "off"]
    /\ lock' = [lock EXCEPT !.closing = None]
    /\ UNCHANGED <<listRequestMap, watchRequestMap, made, watch, requestCh, doing, crashes>>

\* DeleteRequest, by its key: it takes the lock, closes the holder, and forgets
\* the key's list and watch, whichever they are by now.
DeleteRequest(w) ==
    /\ watch[w] \in {"failing", "left"} /\ Unlocked
    /\ Close(listRequestMap[KeyOf[w]], [Free EXCEPT !.by = w])
    /\ UNCHANGED <<listRequestMap, watchRequestMap, made, watch, requestCh, doing, crashes>>

Deleted(w) ==
    /\ lock.by = w /\ lock.closing = None /\ lock' = Free
    /\ listRequestMap' = [listRequestMap EXCEPT ![KeyOf[w]] = None]
    /\ watchRequestMap' = [watchRequestMap EXCEPT ![KeyOf[w]] = None]
    /\ watch' = [watch EXCEPT ![w] = "gone"]
    /\ UNCHANGED <<holder, made, requestCh, doing, crashes>>
-----------------------------------------------------------------------------
(* The holder's loop, and the lists it has repeated.                        *)

Tick(h) ==
    /\ holder[h].loop = "select"
    /\ holder' = [holder EXCEPT ![h].loop = "put"]
    /\ UNCHANGED <<listRequestMap, watchRequestMap, made, watch, lock, requestCh, doing, crashes>>

Put(h) ==
    /\ holder[h].loop = "put" /\ Len(requestCh) < ChanCap
    /\ requestCh' = Append(requestCh, h)
    /\ holder' = [holder EXCEPT ![h].loop = "select"]
    /\ UNCHANGED <<listRequestMap, watchRequestMap, made, watch, lock, doing, crashes>>

\* Run starts a goroutine for each.
Run ==
    /\ requestCh # <<>>
    /\ requestCh' = Tail(requestCh) /\ doing' = doing \cup {Head(requestCh)}
    /\ UNCHANGED <<listRequestMap, watchRequestMap, holder, made, watch, lock, crashes>>

\* doRequest sends the list to lite-apiserver itself, marked so that it is not
\* added again.
DoRequest(h) ==
    /\ h \in doing /\ doing' = doing \ {h}
    /\ UNCHANGED <<listRequestMap, watchRequestMap, holder, made, watch, lock, requestCh, crashes>>

\* When that fails resp is nil, doRequest panics, and the process with it.
Crash ==
    /\ doing # {} /\ crashes < MaxCrashes /\ crashes' = crashes + 1
    /\ listRequestMap' = [k \in Key |-> None] /\ watchRequestMap' = [k \in Key |-> None]
    /\ holder' = [h \in Holder |-> Idle(holder[h].key)]
    /\ watch' = [w \in Watch |-> IF watch[w] = "new" THEN "new" ELSE "gone"]
    /\ lock' = Free /\ requestCh' = <<>> /\ doing' = {}
    /\ UNCHANGED made
-----------------------------------------------------------------------------
(* runGC.                                                                  *)

\* Thirty seconds after it was made or closed.
Ages(h) ==
    /\ h <= made /\ ~holder[h].isStart /\ ~holder[h].old
    /\ holder' = [holder EXCEPT ![h].old = TRUE]
    /\ UNCHANGED <<listRequestMap, watchRequestMap, made, watch, lock, requestCh, doing, crashes>>

Expired(h) == ~holder[h].isStart /\ holder[h].old

\* Every five seconds: holders without a watch that are not in use for long.
ListGC ==
    /\ Unlocked
    /\ listRequestMap' = [k \in Key |->
           IF listRequestMap[k] # None /\ watchRequestMap[k] = None /\ Expired(listRequestMap[k])
           THEN None ELSE listRequestMap[k]]
    /\ listRequestMap' # listRequestMap
    /\ UNCHANGED <<watchRequestMap, holder, made, watch, lock, requestCh, doing, crashes>>

\* Every second: keys whose watch is over, one after the other.
WatchGC ==
    /\ Unlocked
    /\ \E k \in Key : watchRequestMap[k] # None /\ Done(watchRequestMap[k])
    /\ lock' = [Free EXCEPT !.by = "gc", !.todo = Key]
    /\ UNCHANGED <<listRequestMap, watchRequestMap, holder, made, watch, requestCh, doing, crashes>>

Visit(k) ==
    LET w == watchRequestMap[k]
        rest == [lock EXCEPT !.todo = @ \ {k}]
    IN /\ lock.by = "gc" /\ lock.closing = None /\ k \in lock.todo
       /\ IF w # None /\ Done(w)
            THEN /\ watchRequestMap' = [watchRequestMap EXCEPT ![k] = None]
                 /\ Close(listRequestMap[k], rest)
            ELSE lock' = rest /\ UNCHANGED <<watchRequestMap, holder>>
       /\ UNCHANGED <<listRequestMap, made, watch, requestCh, doing, crashes>>

Visited ==
    /\ lock.by = "gc" /\ lock.closing = None /\ lock.todo = {} /\ lock' = Free
    /\ UNCHANGED <<listRequestMap, watchRequestMap, holder, made, watch, requestCh, doing, crashes>>
-----------------------------------------------------------------------------
Next ==
    \/ Run \/ Crash \/ ListGC \/ WatchGC \/ Visited
    \/ \E k \in Key : List(k) \/ Visit(k)
    \/ \E w \in Watch : \/ AddWatch(w) \/ Opens(w) \/ Ends(w) \/ Fails(w) \/ Leaves(w)
                        \/ DeleteRequest(w) \/ Deleted(w)
    \/ \E h \in Holder : StopReceived(h) \/ Tick(h) \/ Put(h) \/ DoRequest(h) \/ Ages(h)

\* Timers fire, loops go on, and a lock and a receiver that are there often enough
\* are got.  Clients need not do anything, and a watch may stay open for ever.
Fairness ==
    /\ WF_vars(Run) /\ SF_vars(ListGC) /\ SF_vars(WatchGC) /\ WF_vars(Visited)
    /\ WF_vars(\E k \in Key : Visit(k)) /\ WF_vars(\E w \in Watch : Deleted(w))
    /\ SF_vars(\E w \in Watch : DeleteRequest(w))
    /\ SF_vars(\E h \in Holder : StopReceived(h))
    /\ WF_vars(\E h \in Holder : Tick(h)) /\ WF_vars(\E h \in Holder : Put(h))
    /\ WF_vars(\E h \in Holder : DoRequest(h)) /\ WF_vars(\E h \in Holder : Ages(h))

Spec == Init /\ [][Next]_vars
FairSpec == Spec /\ Fairness
-----------------------------------------------------------------------------
\* A loop belongs to the holder that is under its key, which is marked as started,
\* unless somebody is closing it right now: no loop goes on unseen after
\* DeleteRequest, the garbage collector or a second list (controller.go
\* addListRequest, DeleteRequest, runGC).  Of the loops only: the ticker of a holder
\* is never stopped (close, :72), so each start leaves one behind.
LoopsAreOwned ==
    \A h \in Holder : holder[h].loop # "off" =>
        /\ listRequestMap[holder[h].key] = h
        /\ holder[h].isStart \/ lock.closing = h

\* What is registered as watched is repeated: whoever gets the lock finds a holder
\* with a running loop under every key that has a watch (addWatchRequest,
\* DeleteRequest and runGC change the two maps together).
WatchedIsRepeated ==
    Unlocked => \A k \in Key : watchRequestMap[k] # None =>
        LET h == listRequestMap[k]
        IN h # None /\ holder[h].isStart /\ holder[h].loop # "off"

\* close waits with the lock for a loop that may itself wait for room in
\* requestCh; nobody keeps the lock for ever (controller.go:79, :91, :135).
LockIsReleased == ~Unlocked ~> Unlocked

\* A list that is registered as watched is repeated again and again, whoever waits
\* for the lock or for room in requestCh (controller.go holder.run, Run).
RepeatsGoOn ==
    \A k \in Key :
        \/ []<>(watchRequestMap[k] = None)
        \/ []<>(\E h \in doing : holder[h].key = k)

\* When every watch is over and the clients list no more, the loops stop and the
\* holders are dropped (controller.go runGC).
AllIsDropped ==
    (\A w \in Watch : watch[w] = "gone") /\ made = MaxHolders ~>
        \A k \in Key : listRequestMap[k] = None
=============================================================================
