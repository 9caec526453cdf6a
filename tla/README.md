# SuperEdge 0.1.0 in TLA+

A formal model of the parts of SuperEdge that carry its own concurrent logic,
checked with TLC on small instances and, where marked, proved with TLAPS for
every instance. All paths are relative to the root of the repository (`src/`
in `PROJECT.json`).

## 1. The system

SuperEdge keeps a Kubernetes cluster usable when its nodes sit at the edge,
behind unreliable links. It is a set of separate programs:

| component | state it keeps | operations | what makes it correct |
|---|---|---|---|
| **edge-health** (`pkg/edge-health`), one daemon per edge node | `CheckInfoResult` (probe scores per checked ip), `Result` (verdicts per checker and checked ip), `NodeList`, the informers' caches; the annotation `nodeunhealth` and the taint on Node objects in the apiserver | `GetNodeList`, `Check` and its plugins, `Client`/`Server` (exchange of results), `Vote`, the informer's handlers | the annotation follows a majority of recent verdicts; nodes outside the zone are not judged; no round of checks blocks the next one |
| **edge-health-admission** (`pkg/edge-health-admission`) | none (a webhook over the apiserver's objects) | `nodeTaint`, `endPoint` | while the vote says healthy, a node that merely lost the cloud is neither evicted nor taken out of endpoints; a patch changes what it means to change |
| **tunnel** (`pkg/tunnel`) | the context registry (nodes, conns), per-connection channels, stream flags, coredns hosts | gRPC stream life cycle, TCP and HTTPS proxying, heartbeat, hosts file upkeep | bytes of a connection arrive in order and on the right connection; a closed end closes the other; a reconnected node is reachable |
| **lite-apiserver** (`pkg/lite-apiserver`) | request cache on disk, the set of cached list/watch holders | proxy, cache write and read, `Add`/`Delete`/`run` of holders, GC | what is served off line is something the apiserver once answered to that request; the cache manager never locks up |
| **application-grid-wrapper** (`pkg/application-grid-wrapper`) | caches of services, endpoints, nodes; event channels | informer handlers, list and watch handlers | kube-proxy sees of each grid service just the endpoints in the local node's grid |
| **application-grid-controller** (`pkg/application-grid-controller`) | work queues, Deployments and Services in the apiserver | sync of DeploymentGrid and ServiceGrid, adoption and release | one deployment per grid value, and no deployment of another owner is touched |
| **edgeadm, helper-job** (`pkg/edgeadm`, `pkg/helper-job`) | objects in the cluster; on a worker the edge label, the static manifest of lite-apiserver, the edge directory, the start environment of kubelet; on a master the manifest of kube-apiserver and a backup of it | `change` and `revert`, and the job either leaves to every machine | a label means what it says; the last command that succeeds prevails over what those before it have left, interrupted or not |

Interactions: edge-health marks Node objects that edge-health-admission reads
when it rewrites node and endpoint updates; the grid controller labels the
services that the grid wrapper prunes; lite-apiserver stands between the
node-local clients (kubelet, the wrapper, edge-health) and the apiserver; tunnel
carries the cloud's connections to the nodes; edgeadm puts all of them in place, and
takes them away.

The hard behaviours are: five periodic tasks and an informer in one edge-health
daemon that share maps under separate short critical sections; verdicts that
travel late, twice or not at all; daemons that restart empty; Node updates from
stale cached copies; in tunnel, goroutines per connection and per stream around
bounded channels, with reconnection racing with clean-up; in lite-apiserver and
the wrapper, channel sends under a lock; in edgeadm, commands that stop half-way and
jobs that outlive them, start over and find what an earlier one has left.

The hazards of each are listed, at their lines, in `PROJECT.json`.

## 2. Modules

| module | what it is |
|---|---|
| `HealthVote` | edge-health's exchange of results, their expiry, the vote and its updates, about one checked node |
| `HealthVoteProofs` | its types, the age of its evidence, what a change of the annotation rests on |
| `HealthCheck` | the inside of one edge-health daemon: `GetNodeList`, `Check`, the plugins' goroutines and the informer, one action per critical section |
| `Admission`, `AdmissionProofs` | the webhook's `nodeTaint` and `endPoint`, with the controllers and the apiserver around them |
| `HttpsRelay` | abstract: two ends of a request as if nothing stood between them |
| `TunnelHttps`, `TunnelHttpsProofs` | both processes of the tunnel that relay HTTPS requests and hijacked sessions over one stream |
| `TunnelStream`, `TunnelStreamProofs` | the stream between tunnel-cloud and one node: registry, interceptors, heartbeat, reconnection, and the requests and the TCP connection that depend on it |
| `TunnelHosts` | the periodic rewrite of coredns' hosts file by every pod of tunnel-cloud |
| `LiteCache` | which lists lite-apiserver repeats in the background: holders, their loops, the request channel, the collectors, the lock |
| `LiteProxy` | what lite-apiserver stores of the answers to one URL, as inodes and names |
| `LiteApiserverProofs` | the proofs about both |
| `GridController`, `GridControllerProofs` | the DeploymentGrid and the ServiceGrid controller with their informers, the collector of Kubernetes and the users around them |
| `GridTopology` | the pure part of the grid wrapper: which addresses of an Endpoints object are left for this node |
| `GridView` | abstract: a view that is always the pruning of what was told last |
| `EdgeChange`, `EdgeChangeProofs` | edgeadm's `change` and `revert`, and the helper jobs on workers and masters |
| `GridWrapper`, `GridWrapperProofs` | the wrapper's three handlers, its lock, its event channels, and a kube-proxy that lists and watches |
| `MC...` | instances of these for TLC |

Each definition that stands for code is listed with its lines in
`PROJECT.json` under `map`. A definition whose comment says *mutant*, or that
only a mutant names, is a changed copy of the one next to it; no specification
uses it. `TLC` puts it in place of the original to see that a property notices.

### edge-health: `HealthVote`

The nodes of a group send each other what they found (`Client`, `Receive`:
`communicate.go`), and every daemon counts what it holds (`VoteCount`,
`VoteSize`, `VoteYes`, `VoteNo`: `vote.go`). The code counts each checked ip on
its own, so the module follows the votes about one node, `Suspect`. `Vote` is
four steps because it copies the results, reads the size of `CheckInfo`, reads
the lister and updates the Node in separate critical sections. A request may be
lost, late, repeated after its answer was lost, and overtaken by a newer one; a
daemon restarts with empty maps (`Restart`); the Node's cached copy lags behind
(`HandleNodeAddUpdate`), and an update from a stale copy is refused, as the
apiserver does. Time is a tick; `lastSaid` is a history variable that remembers
when each node last said yes or no, and appears in no guard.

### edge-health: `HealthCheck`

One daemon. `GetNodeList` writes `data.NodeList`, copies it back, fills and
clears `CheckInfo` and drops results, all in separate locks (`ListNodes` to
`GetNodeListReturns`); `Check` starts the plugins, each of which sizes a
WaitGroup by one read of `CheckInfo` and starts goroutines by another
(`AddWaitGroup`, `StartProbes`); a probe's outcome may come late
(`SetCheckInfo`); `PingCheck`'s goroutines share one `err` (`Dial`), so that each may
judge its node by what another has found. A WaitGroup below zero ends the process, and
so does an `err` that has become nil when its text is asked for (`Panic`).

### edge-health-admission: `Admission`

An UPDATE of a Node is one step, since the apiserver repeats it on conflict:
`nodeTaint` of what the sender wants. An UPDATE of the Endpoints takes several
(`Look`, `NextSubset`, `ApplyPatch`, `Store`), during which nodes change; the
patch is applied operation by operation, as RFC 6902 has it. The webhook may
fail or be away (`WebhookChanges`, `GiveUp`; its failurePolicy lets the object
in unpatched). `Order` is the order in which the endpoints controller lists a set of
addresses, any one that is the same for the same set.

### tunnel: `TunnelHttps`

The cloud's `ServeHTTP` and the edge's `Request`, with their readers and
writers, are goroutines with a program counter each (`serve`, `request`,
`reader`, `writer`); `conns`, `ch`, `wire` and `hand` are the conn registry, the
conn channels, the stream of a side together with the node's channel, and the
message a `RecvMsg` loop is blocked on. Every send on a full channel waits.
`ServeHTTP` reads a plain request's body and sends it with CONNECTING; the edge builds
its request without one, so `Dial` drops it. `Dial` also reads the head of the answer,
without a deadline. Of the answer's status the cloud only looks for 101.
`HttpsRelay` therefore promises the pieces of an answer to every client, and those of a
client to the component of an upgraded request only: nothing of the body of a plain
request, and nothing of the status.
`RelaysFaithfully` states that the whole implements `HttpsRelay` (with
`over <- Over`): every step of it is a step of that module or a stutter. That is
proved for all instances.

### tunnel: `TunnelStream`

The edge opens streams one after another (`Open`, `SendReturns`:
`grpcclient.go`), numbered; `send[s][k]` and `recv[s][k]` are the `SendMsg` and
`RecvMsg` goroutines of stream k at each side, `wire[s][k]` what has been sent.
`reg`, `bound` and `ch` are the context registry: the node object registered
under the node's name, the conns bound to an object, its channel. Objects are
named by the stream that made them, because an old stream's defers look up the
*name* and may meet a newer object: `RemoveNode` is two steps (`LookUp`, which reads
the object and its conns, and `Delete`), called at `streaminterceptor.go:96` and `:232`; a
failed `RecvMsg` sends CLOSED to the name (`:173`, `:288`).
The edge waits a second before it opens the next stream. `Settling` is what the
goroutines of either side still have to do without waiting for anything, for which a
second is enough (`Open`) unless the link is slow at that moment (`OpenTooSoon`, a
fault). A send that waits for a cloud that no longer receives fails when the stream
breaks (`SendFails`).
`Tick` and `TickExits` are the ticker: `Missed` is its branch when `restart` is still set,
`Beats` its other one, which only sends; `SetsRestart` sets the flag afterwards, and `sent` has the
streams that are between the two. An answer received in between clears the old value of
the flag, and the new one survives it: `ReceiveEarly`, a fault. Requests
are those of `TunnelHttps`, reduced to one message each way, and `Answer` is the
edge's side of them. `Clog` is the fault of a `RecvMsg` loop that waits on a full
channel (what `TunnelHttps` calls `Clogged`). Of the TCP proxy the module has the cloud's
end (`TcpAccept`, `TcpRead`, `TcpWrite`).

### tunnel: `TunnelHosts`

A pod's `checkHosts` is `ParseHosts`, which decides from the file as mounted
(`file[p]`, which `Mount` brings up to date) and the nodes it has (`here[p]`),
then `GetConfigMap` and `UpdateConfigMap`, refused when another pod wrote in
between. `Notice` is the pod that finds out that a stream is broken, long after
the node went to another.

### lite-apiserver: `LiteCache`

A holder is numbered as it is made and keeps its record when it has been
dropped, so that a loop nobody knows of can be seen. `close` sends on an
unbuffered channel with the controller's lock held: `DeleteRequest` and `Visit`
put what remains to be done in `lock`, and the receiving loop (`StopReceived`)
completes it. `Put` is a tick that waits for room in `requestCh`, `Run` and
`DoRequest` empty it. A watch request takes its key's holder with `AddWatch` and
calls `DeleteRequest` by key when it ends, whichever watch is registered there then.

### lite-apiserver: `LiteProxy`

The requests for one URL, of clients and of the background update, share a
directory: `WriteFile` creates the temporary file `TempName` gives it, `Write`
fills or tears it, `Rename` puts it under the key. `HandlerError` reads the cache
when the dial failed with an error that `FilterErrorToIgnore` lets through.
Inodes are explicit, because a writer that draws the salt of another goes on
writing into a file that has been renamed.

### application-grid-controller: `GridController`

One module for both controllers, as their code is alike; `kind` says which. Each
informer lists (`ListGrids`, `ListObjects`, `ListNodes`) and then delivers events
(`ObjectEvents`, `NodeEvent`, `AddUpdateDeleteGrid`, `Resync`), which call the handlers
(`AddObject`, `UpdateObject`, `DeleteObject`); the worker takes the one key there
is (`Begin`), claims (`Adopt`, `Release`), computes the calls (`SyncGrid`), makes them
in any order as the goroutines do (`SyncObject`, each of which may be refused or
have its answer lost), stores the status (`SyncStatus`) and ends in `HandleErr`.
Resource versions are not numbered: `copy` says of each lister and of the running
sync whether its copy is still the current one, which is what decides between
success and conflict. The spec of a grid and of an object has three parts: what an
update carries over (`carried`), the selector, and the rest. `KeepConsistence` copies the
first into a service, and the first two into a deployment, of which the apiserver refuses
a changed selector (`Refused`); an object that is created gets all three. `shed` is a history variable: the objects a user has taken the
grid's label from, which appears in no guard. Users edit grids, objects and the labels of nodes; the
garbage collector removes what belongs to a deleted grid.

### application-grid-wrapper: `GridWrapper`

An informer calls its handler with one event after another (`Tells`). The
critical section of a handler is one step, except that a service's event is sent
on a bounded channel *inside* it: `OnService` takes the lock and leaves the
event in `held`, `SendService` is the rest. The events of changed endpoints are
sent after the unlock (`pend`, `SendEndpoints`), in any order. kube-proxy is
modelled from the requests the server answers: a list, then a watch, which is a
receive from the one channel there is; it may restart, leaving behind watches
that still receive until they notice (`Steal`, `OldEnds`). `ListsAreCurrent`
states that the wrapper implements `GridView`, with `View("endpoints")` for
`view` and what the handlers were told for the rest.

### edgeadm, helper-job: `EdgeChange`

A command is a record of where it stands: `cmd.at` is the step of `ChangeSteps` or
`RevertSteps`, `cmd.todo` what the step has left to do, since `kubeadm.go` ranges over a
Go map of manifests and over the nodes. It ends at its first error (`Interrupt`, or
`DeleteResource` of what is not there) and leaves the rest to nobody. `job[m]` is the
one helper job of a machine, at the file, command or call `job[m].at`; a job that
fails starts from its beginning (`Retry`, `JobFails`), until `backoffLimit` or the
deadline. A worker is five facts: whether it is labelled, has the manifest of
lite-apiserver, a pod of it, the config in the edge directory, and what the start
environment of its kubelet says; `kubelet` is what the kubelet took when it started
(`Loads`), "broken" where the environment names a config that is not there. The
kubelet starts and stops the pod by itself (`Sync`), and a worker reboots (`Reboot`).
`src` and `backup` of a master say which of the two manifests a file holds; the errors
of the writes of both are dropped, so that a write may fail and the job goes on (`BackupManifest`,
`EditManifest`). `missed` is a history variable, set by a failed write of the manifest
and reset by the next that succeeds, and appears in no guard.

## 3. Runs

| run | finds | bounds and why |
|---|---|---|
| `vote_safety` | the evidence the vote uses is recent, the annotation changes on a recent majority, no vote whose voters are nodes it checks has two verdicts | 3 nodes (the smallest group with a majority that is not everybody), the votes of one daemon (several are too many states for TLC: the theorems of `HealthVoteProofs` are about any number of them), delay, timeout and retries of 1 or 2 ticks so that messages do expire and overtake, 1 fault |
| `vote_live` | a node nobody reaches gets marked, one everybody reaches cleared, for good | the same without delays |
| `check_settle` | the daemon ends up checking its zone, with the verdicts of the links | the host and a node of another zone, the plugin with the shared `err`, so that its race is one between a node that answers and one that does not: the host is up and the other down at first; one change, of the cluster, the zones or the links (to both up, or both down); 312 697 states |
| `adm_quiet` | the patch moves what was vouched for when one address has to move, no eviction of a node that is only off line, untainting, service while updates come, no service of a marked node | two subsets, one flaky node, five changes, two failures of the webhook |
| `https_relay` | refinement of `HttpsRelay`, requests that were answered end, the cloud drops only what is over, ended requests are forgotten | one plain and one upgraded request on one stream, the plain one with a body, a stream with room for one message and conn channels for two, so that every send blocks somewhere; one client leaves, one component refuses; 398 859 states |
| `stream_life` | a disturbance costs few reconnections, the node is reachable again for good, bound requests end, an abandoned socket is closed | one request, one TCP connection, one fault of any kind, and a second one that is not another break of the connection while nobody uses the tunnel (`Budget`, `BreaksAgain`); while somebody uses it a heartbeat's flag is set at once (`FlagLater`), so that an early answer comes while nobody does. More are too many states for TLC, `TunnelStreamProofs` is about any number of them, without these limits. Five streams, one more than ever get opened (so that the bound hides no avalanche); 97 082 states |
| `hosts_settle` | the hosts file ends up with each node's pod and no other line | two pods and two nodes (so that one pod's rewrite can undo another's line), one move, one fault: a failed call, a restart, a pod that leaves or is not ready; 282 551 states |
| `lite_hold` | no loop goes on unowned, what is watched is repeated, the lock comes back, what nobody watches is dropped | one key with an old and a new watch, three holders, a channel of one place (so that a loop waits for room while it is being closed), one crash |
| `lite_cache` | what can be read stays readable, the cache catches up with the cloud | one client and one run of the background update, repeated again and again, three salts, one change of the resource, one fault of link, apiserver, disk or random generator |
| `grid_settle` | no change is left behind, a value in use keeps its deployment, the objects come to be what an update carries over of what is asked for | both controllers; two nodes that share a value or not where the CRD serves a status, and share one where it does not; four templates: the one a grid is made with, an edit of what updates carry over and of the rest, one of the selector, and one without a key; a user's objects are as the second; one edit besides the grid's recreation, one fault (a refused or lost call, a crash), one retry; 428 704 states |
| `wrapper_serve` | refinement of `GridView`, kube-proxy's copies settle, lists are answered | one service with two forms of Endpoints, two nodes, three labellings, channels of one event, two informer events of any kind, one restart |
| `edge_change` | no label lies, a change ends well only at a kubelet that is served, the last successful command prevails but for writes whose failure nobody notices | one worker, one master, one manifest that is applied in any order beside those with a place of their own; three commands (so that a change meets what a revert has left of a change), two faults of any kind (one may interrupt a command, one a job, and one may be a write that fails unnoticed), one retry; 454 876 states |

Deadlock is checked except where the system may really stop: the admission's
environment, the tunnel's requests, the moves of nodes and the watches of a
client are bounded and end, informers need never tell of anything again, and
nobody has to run another command.

### Fairness

* `HealthVote`, `HealthCheck`: the tasks are started with `wait.Until` and run
  for ever; a probe has a timeout. `HealthVote!FairSpec` assumes only that the
  system's own steps go on (a tick has finitely many of them) and that the
  informer's goroutine runs. `ScopeSettles` and `VerdictsSettle` say under which
  schedules they hold: panics do not go on for ever (`NoMorePanics`) and, if rounds of
  `Check` end again and again, so does a pass of `GetNodeList` between two of them
  (`PassesInBetween`; without it a late probe brings back what each pass
  deletes). `VerdictsSettle` also asks that no `WaitGroup` was told of more goroutines
  than were started (`EnoughProbes`; otherwise `Check` hangs, see `kubeletcheck.go:93`
  below): without that premise TLC finds the hang and a verdict that is never made. The
  verdicts it speaks of are those no race of the shared `err` can turn (`Surely`,
  `Perhaps`): with some nodes in scope up and others down for good, `PingCheck` may
  mistake either in every round, and nothing holds of a node whose verdict hangs on it.
* `Admission`: Kubernetes' controllers and the vote repeat what they want, and a
  request in admission comes out of it. That somebody updates the Endpoints is
  *not* assumed: it is the premise of `TouchedKeepsServing`.
* `TunnelHttps`: while some goroutine can go on, one does; as a request has finitely many
  messages, that says as much as fairness of each. A read from an end is sure
  to return only when its connection was closed: an end may stay silent for
  ever. Nothing forces `Dial`: a component may accept a request and never answer it
  (`Unanswered`, which `RequestsEnd` excepts).
* `TunnelStream`: every goroutine that can go on does, a minute passes and a flag is set
  after its heartbeat (the tickers, `Heart`, are weakly fair), a waiting send fails when its stream has broken (`Sender`),
  and the network returns. Nobody has to ask anything. There are `MaxFaults` faults;
  reconnecting too soon is one of them (`OpenTooSoon`), an answer that overtakes its flag
  another (`ReceiveEarly`).
* `TunnelHosts`: pods check every minute, kubelets mount the ConfigMap at last, and
  a pod finds out that a stream is broken (the keepalive of gRPC).
* `LiteCache`: timers and loops are weakly fair. Whoever waits for the lock, and a
  loop whose `select` offers both the tick and the stop, gets it when it is there
  again and again (strong fairness: Go's mutex is handed to the oldest waiter
  after a millisecond, and `select` chooses at random). Clients need do nothing.
* `LiteProxy` (its names are `ProxySpec`, `ProxyFairSpec` and so on, as
  `LiteApiserverProofs` extends both modules): a request that was begun goes on, the background update comes
  again and again (that is `RepeatsGoOn` of `LiteCache`), apiserver and link recover.
* `EdgeChange`: the calls of a command return, jobs go on where the kubelet runs, and the
  kubelet looks at its directory of manifests. Nobody has to run another command.
* `GridController`: informers (a goroutine each), worker and garbage collector go on, and the
  resync comes every 30 seconds. `Converges` needs the resync: nothing else starts
  a sync after a change of a node.
* `GridWrapper`: the handlers go on when they can, kube-proxy lists and then
  watches again and again, and a watch whose client has gone ends at last. Its
  properties name the cases in which they do not hold: `Contended`, `Stolen`,
  `Jammed`.

### Disagreements

These were met while modelling and are in the models; the properties name them where
they hold only up to one of them. In edge-health:

* `pingcheck.go:88`: one `err` for all goroutines; a node nobody reaches may
  score full, one that answers may score zero, and a goroutine that failed may find
  the error nil and end the process. While some nodes are up and others down that may
  come about in every round, so that the verdicts need not settle (`Surely`, `Perhaps`).
* `kubeletcheck.go:93`: the WaitGroup counts another map than the one whose
  goroutines serve it; `Check` may wait for ever (`EnoughProbes`).
* `vote.go:96`: the threshold is the size of `CheckInfo` at another moment than
  the count; with `CheckInfo` still empty, one "no" marks a node. (Hence
  `ChangedByRecentMajority` speaks of a majority by the acting daemon's own count, which
  after a restart may be one vote, and of the daemon whose step it is: that it does not
  undo what another daemon did with more votes is not said. `OneVerdictPerVote` has a
  premise for the same reason.)
* `check.go:159`: a node of another zone that is updated between the write of
  `data.NodeList` and its copy is checked and voted on until the next pass.
* `check.go:177`: the clean-up goes by checkers, so that the local row keeps
  entries about nodes that left the scope.
* `check.go:207`: an ip that is allocated after the plugins took their copy is
  judged without a score.

In edge-health-admission:

* `endpoint.go:79`: of two moves in a subset the second removes the wrong
  address, which is lost (the premise of `PatchMovesTheVouched`).
* `endpoint.go:72`: only an UPDATE brings the webhook in. Endpoints that were
  stored unpatched stay so, as they are what the controller wants.
* `endpoint.go:94`: when every address of a subset is not ready there is no
  `addresses` to add to, and the update is refused; `adm_quiet` keeps one
  address ready.

In tunnel:

* `httpsclient.go:79`: the confirmation may come before the conn is registered,
  and is dropped (`Missed`).
* `httpsclient.go:108`: `http.NewRequest` gets a nil body, and the `HttpBody` that the
  cloud reads and sends (`httpsserver.go:82`, `:92`) goes no further. `handleServerHttp`
  never writes the component's status, so that the client sees 200, and of a header with
  several values one is kept. The model loses the body as the code does; headers and
  status are not in it.
* `httpsclient.go:46`: the head of the answer is read without a deadline, and `ServeHTTP`
  waits for the first message without looking at its client: on a component that accepts
  and never answers both wait for ever, even when the client has left (`Unanswered`).
* `httpsclient.go:41`, `:47`: a component that cannot be reached is only logged,
  and the cloud's request waits for ever; `httpsclient.go:184`: after a CLOSED
  the reader of the body is told to stop twice, and the conn stays registered;
  `httpsprotocol.go:42`: the loop that serves a node's stream blocks on the full
  channel of a conn whose reader has gone (`Clogged`).
* `tcp.go:46`: `NewTcpConn` puts a node object of its own under the node's name,
  and no `SendMsg` drains its channel, so that the TCP proxy delivers nothing,
  other than the comment there says, and the messages of the node's requests
  get lost until its stream is made anew (`nodecontext.go:40`).
* `tcpmng.go:121`: `Read` may take its own stop token; `Write` and the conn's
  entry then stay. The socket is closed all the same.
* `node.go:34`: only the first conn of a node object is ever bound; the others
  are not told when the stream breaks (the exception in `BoundRequestsEnd`).
* `streaminterceptor.go:232`, `:288`: an old stream's clean-up goes by the name. At
  the edge it may remove the newer stream's entry (`EdgeForgot`): the node stays
  connected, is asked, and cannot answer until the next reconnection.
* `streaminterceptor.go:125`, `:132`, `:186`: the heartbeat is sent first, `restart` set
  afterwards, and cleared by `RecvMsg` without a lock. If the answer is received in
  between, the flag survives it, and the next minute ends a stream that works. Each time is a
  disturbance in the model (`ReceiveEarly`), but nothing in the code makes it cease: where it
  recurs, a working stream is ended again and again, and `FewReconnections` and
  `ReachableInTheEnd` say only what one of them costs.
* `grpcclient.go:117`: one second is all that keeps the end of an old stream from the next
  one. If each time the cloud accepts a stream, or an end gets through, only after the
  next stream was opened, the CLOSED of the old one (`streaminterceptor.go:173`, `:288`)
  ends the new one's sender, and so on without an end. TLC found that where the model had let
  the cloud accept a stream at any time; now each time is a disturbance (`OpenTooSoon`).
* `coredns.go:164`: `Subsets[0]` of a service without addresses ends the process
  (`NoSubset`); the file is not closed when the endpoints cannot be read.

In lite-apiserver:

* `proxy.go:251`: only a refused connection and a time-out lead to the cache. With an
  unreachable network or a name that does not resolve, the ways an edge node is
  usually off line, the client gets 502, other than
  `docs/components/lite-apiserver_CN.md:1` promises.
* `proxy.go:173`: an answer of any status is stored over a good one.
* `controller.go:187`: the failed request to itself has no response; reading its
  body ends the process (`Crash`).
* `controller.go:299`: a watch that fails late deletes the entry of the newer watch of its
  key, whose list is then no longer repeated; `:320`: a client that watches again without
  listing is ignored. Both are in the model, and `WatchedIsRepeated` is about the watches
  that are registered: it does not say that every open watch is.
* `controller.go:72`: `close` ends the loop and never stops the holder's ticker, and `start`
  makes a new one: each watch leaves a ticker behind. Tickers are not modelled;
  `LoopsAreOwned` is about loops only.

In application-grid-controller:

* `deploymentgrid-crd.go:7`: the CRD the controller itself creates has no status
  subresource, so that `UpdateStatus` is answered with NotFound and every sync of a
  DeploymentGrid ends with an error, after its writes; `util.go:48` and the test of a
  sync (`controller_test.go:295`) have it that the status is stored. In `grid_settle`
  the CRD is served either way (`served`), and the status is right where it is.
* An object of a wanted name without the grid's label is neither adopted nor
  replaced (`Blocked`): each creation fails with AlreadyExists.
* A deployment is created without an owner and adopted by a later sync. When the
  grid is deleted in between, it stays for good.
* `deployment.go:138`: the handler of deletions leaves alone what has lost the grid's
  label, though it may still be owned: when the label and then the object are taken away
  before a sync has run on the first, the status goes on naming it (the last conjunct of
  `NothingIsLeftBehind`).
* `node.go:19`: the handlers of nodes are empty; see `Converges`.
* `service_util.go:63`: of an edited grid a service that exists gets only the ports and the
  annotation with the topology key, never the type or the selector. `deployment_util.go:57`:
  a deployment gets replicas, selector and template; a changed selector is
  refused by the apiserver, since it is immutable, so that every sync fails until it is given up,
  and the rest of that update is refused with it. `NothingIsLeftBehind` and `Converges` ask
  for what an update carries over (`Follows`), and `Converges` lets a deployment whose
  selector is refused stay as it is (`Served`).

In application-grid-wrapper:

* `service_handler.go:39`: the cache's lock is held while an event waits for
  room in the channel; a kube-proxy that starts at that moment cannot list, and
  so never watches (`Jammed`).
* `endpoints_handler.go:121`: a deletion told as `DeletedFinalStateUnknown` is
  ignored; `ListsAreCurrent` is about what the handlers were told in any other way.
* `service_handler.go:52`: two handlers with events of one object send them in
  any order, and kube-proxy may end up with the older (`Contended`);
  `handler.go:271`: a watch whose client has gone takes an event from the next
  one (`Stolen`).

In edgeadm and helper-job:

* `change.go:263`: the manifest of kube-apiserver is copied to the backup whenever a
  change comes by, so that a job that is repeated copies the edited one. A revert then
  succeeds and restores the edited manifest, other than `revert.go:33` has it ("Revert
  edge cluster to your original cluster"); this is the last disjunct of `Reverted`. The
  error of the copy is dropped: the manifest may be edited with no copy of it at all, and a
  revert then fails.
* `change.go:286`, `:280`: the error of the write of the edited manifest is dropped, and one that cannot
  be marshalled is no error: job and command succeed with the manifest as it was
  (`missed`, which `Changed` excepts).
* `change.go:97`: a revert takes back the kubelet first and the label later. If its job
  ends in between, the next change finds a labelled worker with a pod, and leaves it:
  it succeeds with a kubelet that does not go through lite-apiserver (`EndsAtEdge`).
* `change.go:381`: a change that starts over removes the directory the kubelet's
  environment points into. A reboot before it has written the config leaves a kubelet
  that does not start, and no job can run there to repair it (`GivenUp`).
* `delete.go:233`: deleting what is not there is an error. A revert that failed half-way
  cannot be repeated: it ends at the first object it deleted the last time. A change
  makes everything anew, after which it can.
* `kubeadm.go:30` of revert deletes the coredns service while kube-apiserver still names
  it as its only name server, until the last step's job restores the manifest.
* `change.go:229`, `kubeadm.go:208` of change: waits without an end for a service.
* `file.go:57`: `WriteWithBufio` does not truncate, so that a shorter text leaves the end
  of the longer one. `revert.go:65` empties `/etc/sysconfig/kubelet`, whatever was in it
  before the change; `/etc/hosts` and the edge directory stay as the change made them.
* `kubeadm.go:186` of change: each change makes a new token for tunnel-cloud, and pods
  that are running keep the old one until they are replaced.

## 4. Proofs

Checked by TLAPS for all values of the constants that satisfy the named
assumptions (`NodeAssumption`, `TimeAssumption`, `AdmissionAssumption`,
`TunnelAssumption`, `StreamAssumption`, `GridAssumption`, `WrapperAssumption`, `LiteCacheAssumption`,
`LiteProxyAssumption`, `GridControllerAssumption`, `EdgeChangeAssumption`,
`NoneAssumption`), which say no more than that bounds are numbers, channels have room
for something, there is at most one TCP connection and its uuid is no request's, the sets of nodes, requests and salts are finite, None is not an object or
a job, no machine is worker and master at once, the endpoints controller lists each
address of a set once, there are at least as many salts as requests (the code draws one
of 36^12), and the instances' constants are of their kind.

* **`HealthVoteProofs`**: `TypeCorrect`, `EvidenceStaysRecent`,
  `TallyStaysBacked`, `ChangesAreBacked`, `OneVerdict`. `ChangesAreBacked` is about
  the daemon whose step changes the annotation (`Acts`), any number of them
  voting at once. The invariant is
  `IInv == TypeOK /\ EvidenceIsRecent /\ TallyIsBacked /\ OneVoteEach`. What a
  vote counted is recent because what the daemon *holds* is, and that because
  what is *under way* is: each conjunct is needed for the next.
  `OneVoteEach` (a checker is never counted for both verdicts, and only among
  the voters) is what turns two majorities into more voters than nodes.
* **`AdmissionProofs`**: `NodesStayWellFormed`, `NotEvicted`, `TypeCorrect`,
  `MovesTheVouched` (of `PatchMovesTheVouched`). `nodeTaint`
  removes one position of the list; that no taint is left is true because none
  is ever listed twice (`Once`), which is the invariant. Of the patch, each operation
  names a position of the list as it was *sent*, and is applied to the list the
  operations before have left. `RequestOK` follows a subset of which one address was
  vouched for through that: both its operations are still to be applied (`Whole`), the
  address has been removed and is the next to be added (`Half`), or the subset is what
  was meant (`Done`); a subset of which none was is as it was sent (`Untouched`). It
  needs `Looked`: what was vouched for lies behind the loop, so that no address can be
  vouched for twice. With two moves of one subset it fails, see `endpoint.go:79` above.
* **`TunnelHttpsProofs`**: `TypeCorrect`, `NothingWantedIsDropped` and
  `TunnelImplementsRelay` (of `RelaysFaithfully`, the refinement of `HttpsRelay`): clients
  hear their components, and the component of an upgraded request its client. A body that
  CONNECTING brings to the edge is no piece under way, as nobody is to hear it. The
  invariant `Known` says that the edge knows only of requests the cloud has
  asked for: whatever stands in a wire, a hand or a program counter at the edge
  has its conn at the cloud or is over.
  The refinement has to show that a piece that arrives is the next one, which is a
  statement about everything that is under way. What is under way for a request is cut
  over four places: the conn channel, the `RecvMsg` loop's hand, the wire and the channel
  of a plain body (`Flying`). The invariant `FInv` says that along them the messages
  are in order (`Ordered`), that they carry only pieces still to be heard (`InRange`),
  and all of them (`Complete`) until the request is over at the cloud or its connection
  is closed at the edge. The rest of it ties messages to program counters, because
  a goroutine that starts or ends would otherwise break one of these: `Control` (which
  goroutines of a request there are at a time), `ToCloud` and `ToEdge` (when a CONNECTING,
  CONNECTED or CLOSED may be under way, so that nothing is sent before the conn that is
  to hold it is made, and nothing after CLOSED). Each action then moves one message one
  place on, adds one at the end, or takes one from the front, and for those three
  there is a lemma each.
* **`GridWrapperProofs`**: `TypeCorrect` and `Current`, the refinement of
  `GridView`: initial states map to initial states and every step to a step of
  `GridView` or a stutter. The handlers skip a rebuild when labels or keys look
  the same, and drop an update whose object they do not find. The invariant is
  `Faithful` (the cache is what was told, and its pruning) with `Stored` (what
  an informer has in its store the cache has too, so that an update is never
  dropped): without `Stored` a dropped update would leave the cache behind.

* **`TunnelStreamProofs`**: `FewReconnectionsAlways` (of `FewReconnections`),
  `TypeCorrect`, `WaitersAreFound`. `used <= 1 + 2 * faults` is an account: a fault may cost two streams,
  and what it has not cost yet must still be visible somewhere. It is visible in two
  places. `Debris` are the old streams that stand in the cloud as if nothing had happened,
  with nothing under way that would end them, so that each may still end a newer
  stream some day. And the newest stream is `Calm` or not: when both its loops run, the
  names lead to it, no CLOSED waits for it, the answer to its heartbeat is under way
  and no older stream is `Pending`, nothing but debris or a fault can end it. `Paid` says that streams opened
  plus debris plus one, unless the newest is calm, are paid for by the faults; with `Basic`, the
  facts of each stream the steps rest on, it is the inductive invariant
  (`IInv == Basic /\ Paid`). Each step does one of three things (`Accounted`): it `Keeps`
  the account (no new debris, and calm is lost only for a piece of debris), `Renews` the
  stream (only when it was not calm, and the new one is), or `Disturbs` (a fault, an early
  answer to a heartbeat among them, which
  may add the newest stream to the debris and end the calm). `Renews` is why a second
  is needed: an `Open` while something is pending would not be calm. Of `Basic`,
  that the second flag of the heartbeat (`count[k] = 1`) is set only with a CLOSED under
  way to a sender that runs shows that the process ends only over a stream that had been
  lost before: otherwise `Exits` would end a calm one.
  `WaitersAreFound` is the safety part of `BoundRequestsEnd`: a bound request that waits
  and is not `lost` has its object under the name and its conn registered, so that a
  `RemoveNode` tells it. A removal takes two steps and a registration may fall between
  them, so the invariant (`WInv`) also follows what each removal has read: all of
  it has been told or was lost (`Read`), and a request is bound only to the object it has
  asked through (`BoundVia`).
* **`LiteApiserverProofs`**, of `LiteCache`: `NoLoopIsLost` (of `LoopsAreOwned`) and
  `WatchedStaysRepeated` (of `WatchedIsRepeated`), which need the same invariant.
  Its conjuncts: holders and keys fit (`Keyed`); a loop belongs to the holder under
  its key, which is started unless it is being closed; a started holder has a
  loop (`Looping`); who waits for a loop to end has the lock and has marked its
  holder (`Closing`), as `DeleteRequest` has the one it is about to drop
  (`Deleting`). `Watched`
  says why a key whose watch is registered can be found without a running loop
  at all: only between the two halves of a `DeleteRequest` of that key, and that
  has the lock. `TypeCorrect`: the request channel never holds more than it has room for,
  and each watch is registered under its own key. `CloseFindsItsLoop` is the safety part
  of `LockIsReleased`: whoever waits with the lock waits for a loop that has not ended.
* **`LiteApiserverProofs`**, of `LiteProxy`: `ProxyTypeCorrect`, `StaysReadable` (of
  `CacheStaysReadable`). There
  is always an inode and a salt left for the next writer, by counting: fewer requests than
  either have a file open. `Apart` says that, as long as no write was torn and no salt was
  drawn twice, each writer has a temporary file and an inode of its own, with nothing
  in it until all has been written, and that a writer about to rename has a full one: so
  that the file under the key is only ever replaced by one that can be read.
* **`GridControllerProofs`**: `SteadyIsSafe` (of `SteadyIsNeverDeleted`) and
  `NothingStaysUndone` (of `NothingIsLeftBehind`). For the first the invariant
  says that a sync claims only after the nodes were listed, that from then on the
  lister is right about nodes that never change (`NodesKnown`), and that no
  deletion a sync still has to make names the value of such a node
  (`DeletesSpare`). The first is what `Run` waits for at `controller.go:137`;
  without it the last cannot be kept. For the second, `Ledger` is a book of debts: unless
  a sync is queued, or has failed, each object is `CaredFor`. Either an event is still to
  be delivered that the handlers do not ignore (`Due`), or the running sync is going to
  adopt it (`Adopted`), to overwrite its spec with a copy that is still current
  (`Updated`, in what an update carries over, so that a conflict is a failure and not a loss) and to store a status that
  is right about it (`Reported`). Handlers compare old and new, so an event counts only
  where they differ; `EventsOf` says that what the lister has and what is there are alike
  to them unless an event in between is noticed. The debts are paid when the sync is
  idle and nothing is on its way. The theorem has two exceptions: an
  object that has lost its label (`shed`, without which the property is false with two
  edits, see `deployment.go:138` above), and a grid whose last sync was given up
  (`gaveUp`), as each one is whose selector the apiserver refuses.
* **`EdgeChangeProofs`**: `LabelIsTrue` (of `LabelledIsDeployed`), `ChangeServes` (of
  `ChangedIsServed`), `TypeCorrect`. The invariant says of each job what it has done so
  far (`Sofar`): from the check on no label is left, from the write on the manifest is
  there, and so on to the restart, after which the kubelet has the config. That is
  stable although jobs are taken away, start over and meet a reboot, because a machine
  never has two of them (`ClearJob` before `DeployHelperJob`) and each starts with the
  step that makes the first fact true. `TypeCorrect` adds that a job is always at a step of its
  own machine's role and of its own action (`StepsOf`), through clearing, retries and reboots
  (`OwnSteps`). `Kept` is `LabelledIsDeployed` with what
  `ChangeServes` needs besides: a labelled worker whose environment is the edge's has a
  kubelet that took it.

`TypeOK` is in no run: for `HealthVote`, `Admission`, `TunnelHttps`, `TunnelStream`,
`LiteCache`, `LiteProxy` (`ProxyTypeOK`), `GridWrapper` and `EdgeChange` it is proved. Those of
`HealthCheck`, `TunnelHosts` and `GridController` are documentation of their states. The deterministic choices of
the models are `IF`s or `CASE`s whose guards exclude each other, as TLAPS and TLC need not
take the same branch of one whose guards overlap.

Only model-checked: every liveness property (TLAPS has no rules for `ENABLED` here), and
the whole of `HealthCheck` and `TunnelHosts`, which promise only what comes in the end.
No invariant a run checks is left without a theorem.

## 5. Not modelled, and why

Hmac and TLS are modelled by their outcome or left out; logging, flags, metrics
and the parsing of configuration are left out. The mechanisms of Kubernetes
(informers, conflicts, controllers) are modelled from how the code uses them.

* **tunnel**: the token cache and the configuration are read at start and shared
  with nothing (`ParseLine` of the token cache panics on a line without ":" and
  its goroutine ends with a failed read). The edge's end of the TCP proxy
  (`tcpprotocol.go`) is reached by no message, see `tcp.go:46` above. `TunnelHttps`
  has one stream that stays up, `TunnelStream` streams that break and requests
  of one message; their product is too large for TLC.
* **lite-apiserver**: the server and the certificates are calls of libraries.
* **application-grid-controller**: a watch of an informer that breaks and lists
  anew; two grids whose names run together ("a" with the value "b-c", "a-b" with
  "c") and so want the same deployment; an edit of `GridUniqKey` to another key (only one
  to none), after which the nodes' values are others and the deployments of the old ones
  are deleted; the apiserver's refusal of ports that do not fit the type a service kept.
  The texts of the CRDs and the
  generated client carry no logic.
* **edgeadm, helper-job**: one command at a time; a manifest is one object, though it
  may be applied or deleted in part; an update is taken, as the code supposes (the
  apiserver refuses one without a resource version for some kinds, which the model has
  as a call that fails); a write of kube-apiserver's manifest that fails fails whole, and
  leaves the file as it was, not half-written; pods are gone within the three seconds `ClearJob` waits;
  `ttlSecondsAfterFinished`, the certificates, tokens, templates and `/etc/hosts`.
* **kubeclient, util, cmd**: helpers that nothing calls, decoding, parsing of options.

More than half of the repository's lines are of these kinds, generated code or texts of
resources (one CRD text alone has 6304 of 26 552), so the share of lines the models stand
for stays low though all components with state of their own are modelled.

## 6. Plan

What is left, in the order of what is most worth knowing:

1. Theorems about what is safe in `HealthCheck` and `TunnelHosts`, of which no run asks
   more than where they end up.
2. An abstract specification of the cloud's registry, a name that leads to its newest
   live stream *in the end*, and of lite-apiserver, a store of answers.
3. `LastCommandWins` without its exceptions, once the backup is made only where none is
   and a change looks at the kubelet besides the label: the two repairs the model asks for.
4. Larger instances: two requests and two breaks of the connection in `stream_life`, two keys in `lite_hold`, two
   faults in `grid_settle`, two workers in `edge_change`; each takes TLC more than five minutes now.
