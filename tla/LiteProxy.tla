----------------------------- MODULE LiteProxy -----------------------------
(***************************************************************************)
(* The reverse proxy of lite-apiserver and its file cache                  *)
(* (pkg/lite-apiserver/proxy/proxy.go, response.go, storage/file_storage.go)  *)
(* for the GET requests of one user agent for one URL: requests of clients,  *)
(* and the same list repeated in the background (see LiteCache).  They share  *)
(* nothing but the directory of the cache, in which each writes a temporary   *)
(* file and renames it.                                                    *)
(*                                                                         *)
(* Files are inodes with a name, as a writer whose temporary file has been   *)
(* renamed by another goes on writing into the cached one.                  *)
(***************************************************************************)
EXTENDS Naturals, FiniteSets

CONSTANTS Client, Self,  \* goroutines that serve clients, and background updates
          Salt,          \* what randomString may return
          MaxVersion,    \* how often the resource changes
          MaxFaults      \* how often the link, the apiserver, the disk or the
                         \* random generator fails

Request == Client \cup Self
Inode == 1 .. 2 * Cardinality(Request) + 1
NoFile == 0

ASSUME LiteProxyAssumption ==
    /\ IsFiniteSet(Request) /\ IsFiniteSet(Salt) /\ Client \cap Self = {}
    /\ "key" \notin Salt /\ Cardinality(Salt) >= Cardinality(Request)
    /\ MaxVersion \in Nat /\ MaxFaults \in Nat

VARIABLES
    version, healthy,  \* of the resource; whether the apiserver answers with it
    link, faults,      \* "up", or how a dial fails
    pc, answer,        \* where a request is, and what it has received
    err, fd,           \* how its dial failed; the inode it writes into
    temp,              \* the name of that file when it was created
    dir, data,         \* the inode of each name, the content of each inode
    torn               \* history: a write failed, or two had the same salt

proxyVars == <<version, healthy, link, faults, pc, answer, err, fd, temp, dir, data, torn>>

\* A status, the version in the body, and whether the body is all there.
Answer == [ok : BOOLEAN, version : 0 .. MaxVersion, whole : BOOLEAN]
Nothing == [ok |-> FALSE, version |-> 0, whole |-> FALSE]

\* Content that does not parse: an empty file, a part, a mixture of two.
Scrap == [Nothing EXCEPT !.version = MaxVersion + 1]
Name == Salt \cup {"key"}
Down == {"refused", "timeout", "unreachable"}

\* Names lead to inodes, and no file has two names.
ProxyTypeOK ==
    /\ version \in 0 .. MaxVersion /\ healthy \in BOOLEAN
    /\ link \in Down \cup {"up"} /\ faults \in 0 .. MaxFaults
    /\ pc \in [Request -> {"idle", "body", "create", "write", "rename", "failed"}]
    /\ answer \in [Request -> Answer] /\ err \in [Request -> Down \cup {"none"}]
    /\ fd \in [Request -> Inode \cup {NoFile}] /\ temp \in [Request -> Name]
    /\ dir \in [Name -> Inode \cup {NoFile}]
    /\ \A i \in Inode : data[i] \in Answer \cup {Scrap}
    /\ \A m, n \in Name : dir[m] = dir[n] => m = n \/ dir[m] = NoFile
    /\ torn \in BOOLEAN

ProxyInit ==
    /\ version = 0 /\ healthy = TRUE /\ link = "up" /\ faults = 0
    /\ pc = [r \in Request |-> "idle"] /\ answer = [r \in Request |-> Nothing]
    /\ err = [r \in Request |-> "none"] /\ fd = [r \in Request |-> NoFile]
    /\ temp \in [Request -> {CHOOSE s \in Salt : TRUE}]
    /\ dir = [n \in Name |-> NoFile] /\ data = [i \in Inode |-> Scrap] /\ torn = FALSE

Goes(r, l) == pc' = [pc EXCEPT ![r] = l]
Fault == faults < MaxFaults /\ faults' = faults + 1
-----------------------------------------------------------------------------
(* The cloud and the link to it.                                           *)

cloudVars == <<version, healthy, link, faults>>
requestVars == <<pc, answer, err, fd, temp, dir, data, torn>>

Change ==
    /\ version < MaxVersion /\ version' = version + 1
    /\ UNCHANGED <<healthy, link, faults, requestVars>>

Sickens == Fault /\ healthy /\ healthy' = FALSE /\ UNCHANGED <<version, link, requestVars>>
Recovers == ~healthy /\ healthy' = TRUE /\ UNCHANGED <<version, link, faults, requestVars>>

Breaks ==
    /\ Fault /\ link = "up" /\ link' \in Down
    /\ UNCHANGED <<version, healthy, requestVars>>

Mends == link # "up" /\ link' = "up" /\ UNCHANGED <<version, healthy, faults, requestVars>>
-----------------------------------------------------------------------------
(* Storage: file_storage.go.                                               *)

\* os.Create: an empty file, the same one if the name is taken.
Unused(i) == i \notin {dir[n] : n \in Name} \cup {fd[r] : r \in Request}
Create(r, n) ==
    LET i == IF dir[n] # NoFile THEN dir[n] ELSE CHOOSE j \in Inode : Unused(j)
    IN /\ fd' = [fd EXCEPT ![r] = i] /\ temp' = [temp EXCEPT ![r] = n]
       /\ dir' = [dir EXCEPT ![n] = i] /\ data' = [data EXCEPT ![i] = Scrap]

InPlace(r, s) == "key"

\* The key with the salt.  rand.Rand is not made for several goroutines: two that
\* draw at a time may draw the same.
TempName(r, s) == s

WriteFile(r) ==
    LET used == {temp[q] : q \in {p \in Request : pc[p] \in {"write", "rename"}}}
    IN /\ pc[r] = "create" /\ Goes(r, "write")
       /\ \/ Create(r, TempName(r, CHOOSE s \in Salt : s \notin used)) /\ UNCHANGED <<faults, torn>>
          \/ Fault /\ torn' = TRUE /\ \E s \in used : Create(r, TempName(r, s))
       /\ UNCHANGED <<version, healthy, link, answer, err>>

\* Where another has written into the same file, something of it may remain.
\* The write may fail half-way.
Write(r) ==
    /\ pc[r] = "write" /\ Goes(r, "rename")
    /\ \/ \E d \in {answer[r], IF data[fd[r]] = Scrap THEN answer[r] ELSE Scrap} :
              data' = [data EXCEPT ![fd[r]] = d]
          /\ UNCHANGED <<faults, torn>>
       \/ Fault /\ torn' = TRUE /\ data' = [data EXCEPT ![fd[r]] = Scrap]
    /\ UNCHANGED <<version, healthy, link, answer, err, fd, temp, dir>>

LinkedIfNew(t) == IF dir["key"] = NoFile THEN [dir EXCEPT !["key"] = dir[t], ![t] = NoFile]
                                       ELSE [dir EXCEPT ![t] = NoFile]

Renamed(t) == [n \in Name |-> IF n = "key" THEN dir[t] ELSE IF n = t THEN NoFile ELSE dir[n]]

\* The rename is deferred, and comes whether the write failed or not.
Cached == IF dir["key"] = NoFile THEN Scrap ELSE data[dir["key"]]
Rename(r) ==
    /\ pc[r] = "rename" /\ Goes(r, "idle")
    /\ dir' = IF dir[temp[r]] = NoFile THEN dir ELSE Renamed(temp[r])
    /\ fd' = [fd EXCEPT ![r] = NoFile]
    /\ answer' = [answer EXCEPT ![r] = Nothing]
    /\ UNCHANGED <<cloudVars, err, temp, data, torn>>
-----------------------------------------------------------------------------
(* The proxy: proxy.go.                                                    *)

\* RoundTrip: an answer, whatever its status, or an error.
Send(r) ==
    /\ pc[r] = "idle"
    /\ IF link = "up"
         THEN /\ answer' = [answer EXCEPT ![r] = [ok |-> healthy, version |-> version, whole |-> TRUE]]
              /\ Goes(r, "body") /\ UNCHANGED err
         ELSE err' = [err EXCEPT ![r] = link] /\ Goes(r, "failed") /\ UNCHANGED answer
    /\ UNCHANGED <<cloudVars, fd, temp, dir, data, torn>>

\* modifyResponse reads the body and stores what it got of it, also when the
\* connection broke meanwhile.
ModifyResponse(r) ==
    /\ pc[r] = "body" /\ Goes(r, "create")
    /\ \E whole \in IF link = "up" THEN {TRUE} ELSE BOOLEAN :
          answer' = [answer EXCEPT ![r].whole = whole]
    /\ UNCHANGED <<cloudVars, err, fd, temp, dir, data, torn>>

\* handlerError reads the cache after some errors, and answers 502 after the others
\* or if what it reads does not parse.
FilterErrorToIgnore(e) == e \notin {"refused", "timeout"}

Served(r) == ~FilterErrorToIgnore(err[r]) /\ Cached # Scrap

HandlerError(r) ==
    /\ pc[r] = "failed" /\ Goes(r, "idle") /\ err' = [err EXCEPT ![r] = "none"]
    /\ UNCHANGED <<cloudVars, answer, fd, temp, dir, data, torn>>
-----------------------------------------------------------------------------
Goroutine(r) ==
    ModifyResponse(r) \/ WriteFile(r) \/ Write(r) \/ Rename(r) \/ HandlerError(r)

ProxyNext ==
    \/ Change \/ Sickens \/ Recovers \/ Breaks \/ Mends
    \/ \E r \in Request : Send(r) \/ Goroutine(r)

\* Requests go on, the background update comes again (LiteCache, RepeatsGoOn), and
\* the cloud comes back.
ProxyFairness ==
    /\ WF_proxyVars(Recovers) /\ WF_proxyVars(Mends)
    /\ \A r \in Request : WF_proxyVars(Goroutine(r))
    /\ \A r \in Self : WF_proxyVars(Send(r))

ProxySpec == ProxyInit /\ [][ProxyNext]_proxyVars
ProxyFairSpec == ProxySpec /\ ProxyFairness
-----------------------------------------------------------------------------
\* What can be read from the cache stays readable, whoever stores at the same time,
\* unless a write fails half-way or the random generator is caught out
\* (file_storage.go writeFile).
CacheStaysReadable == [][Cached # Scrap /\ ~torn' => Cached' # Scrap]_proxyVars

\* While the background update goes on and the cloud is well, the cache ends up
\* with the whole last version, whatever was stored out of order, in part, with an
\* error status or torn on the way (proxy.go writeCache).
Current == [ok |-> TRUE, version |-> version, whole |-> TRUE]
CacheCatchesUp == <>[](healthy /\ link = "up" => Cached = Current)
=============================================================================
