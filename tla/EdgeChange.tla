----------------------------- MODULE EdgeChange -----------------------------
(***************************************************************************)
(* edgeadm change and edgeadm revert (pkg/edgeadm/cmd) and the helper jobs    *)
(* they leave to the machines (pkg/helper-job).  A command works off its       *)
(* steps, stops at the first error, and waits for none of the jobs it has       *)
(* created; a job is started again from its beginning when it fails.  What a    *)
(* command or a job cut short has left is what the next one starts from.       *)
(***************************************************************************)
EXTENDS Naturals, Sequences, FiniteSets

CONSTANTS Worker, Master,   \* machines without and with the label of a master
          App, None,        \* manifests that commands work off in no order
          MaxRuns,          \* commands somebody runs
          MaxFaults,        \* calls that fail, commands interrupted, reboots
          MaxTries          \* backoffLimit

ASSUME EdgeChangeAssumption ==
    /\ Worker # {} /\ Master # {} /\ App # {} /\ Worker \cap Master = {}
    /\ MaxRuns \in Nat /\ MaxFaults \in Nat /\ MaxTries \in Nat

VARIABLES
    objs,      \* what is in the cluster: manifests, cert, and the changed
               \* kube-proxy config and kubernetes endpoints
    cmd,       \* the command that runs: its step, and what is left of it
    last,      \* the last command that ended, and whether with success
    job,       \* the helper job of a machine, or None
    node,      \* files and kubelet of a worker
    master,    \* kube-apiserver's manifest on a master, and the backup of it
    runs, faults

cluster == <<objs, cmd, last, runs>>
vars == <<cluster, job, node, master, faults>>

Machine == Worker \cup Master
Op == {"change", "revert"}

\* The changes of what kubeadm has made, which can be taken back repeatedly.
Edited == {"proxy", "endpoint"}
Object == App \cup Edited \cup {"coredns", "tunnelCloud", "tunnelEdge", "cert", "health"}

\* One entry for each call; a set where the code ranges over a map or the nodes.
ChangeSteps == <<{"coredns"}, {"tunnelCloud"}, {"tunnelEdge"}, {"dropCert"}, {"cert"},
                 {"clear"}, Worker, App, {"health"}, {"proxy"}, {"endpoint"}, Master>>
RevertSteps == <<{"clear"}, Worker, {"tunnelEdge"}, App \cup {"coredns"}, {"health"},
                 {"endpoint"}, {"proxy"}, {"tunnelCloud"}, {"cert"}, Master>>
Call == Object \cup Machine \cup {"clear", "dropCert"}
Steps(op) == IF op = "change" THEN ChangeSteps ELSE RevertSteps

\* What a helper does on a machine, one file, command or call at a time.
NodeChange == {"check", "clear", "drop", "deploy", "config", "env", "restart", "wait", "label"}
NodeRevert == {"unset", "reload", "unlabel", "remove"}
MasterChange == {"backup", "edit", "hosts"}
MasterRevert == {"rename", "health"}
JobStep == NodeChange \cup NodeRevert \cup MasterChange \cup MasterRevert
StepsOf(m, op) == IF m \in Worker THEN IF op = "change" THEN NodeChange ELSE NodeRevert
                                  ELSE IF op = "change" THEN MasterChange ELSE MasterRevert
FirstStep(m, op) == IF m \in Worker
                    THEN IF op = "change" THEN "check" ELSE "unset"
                    ELSE IF op = "change" THEN "backup" ELSE "rename"

Job == [op : Op, at : JobStep \cup {"done", "failed"}, tries : 0 .. MaxTries]
ASSUME NoneAssumption == None \notin Job
Plain == [label |-> FALSE, manifest |-> FALSE, pod |-> FALSE, conf |-> FALSE,
          env |-> "plain", kubelet |-> "plain"]
Node == [label : BOOLEAN, manifest : BOOLEAN, pod : BOOLEAN, conf : BOOLEAN,
         env : {"plain", "edge"}, kubelet : {"plain", "edge", "broken"}]
\* "missed" is history: the last write of the manifest has failed without notice.
Manifests == [src : {"native", "edge"}, backup : {"native", "edge", "none"}, missed : BOOLEAN]

\* A job is at a step of its own machine's role and of its own action, or has ended.
TypeOK ==
    /\ objs \subseteq Object
    /\ \/ cmd = None
       \/ cmd \in [op : Op, at : Nat, todo : SUBSET Call] /\ cmd.at \in DOMAIN Steps(cmd.op)
    /\ last \in [op : Op, ok : BOOLEAN] \cup {None}
    /\ job \in [Machine -> Job \cup {None}]
    /\ \A m \in Machine :
         job[m] # None => job[m].at \in StepsOf(m, job[m].op) \cup {"done", "failed"}
    /\ node \in [Worker -> Node] /\ master \in [Master -> Manifests]
    /\ runs \in 0 .. MaxRuns /\ faults \in 0 .. MaxFaults

Fault == faults < MaxFaults /\ faults' = faults + 1

-----------------------------------------------------------------------------
(* runKubeamdChange, runKubeamdRevert.                                     *)

RunCommand(op) ==
    /\ cmd = None /\ runs < MaxRuns /\ runs' = runs + 1
    /\ cmd' = [op |-> op, at |-> 1, todo |-> Steps(op)[1]]
    /\ UNCHANGED <<objs, last, job, node, master, faults>>

Ends(ok) == cmd' = None /\ last' = [op |-> cmd.op, ok |-> ok]

\* On to what else the step has to do, to the next one, or to the end.
Goes(x) ==
    IF cmd.todo # {x} THEN cmd' = [cmd EXCEPT !.todo = @ \ {x}] /\ UNCHANGED last
    ELSE IF cmd.at = Len(Steps(cmd.op)) THEN Ends(TRUE)
    ELSE UNCHANGED last /\ cmd' = [op |-> cmd.op, at |-> cmd.at + 1,
                                   todo |-> Steps(cmd.op)[cmd.at + 1]]

\* What is there already is updated.
CreateOrUpdate(x) == objs' = objs \cup {x}
CreateResource(x) ==
    /\ cmd.op = "change" /\ x \in Object \ Edited
    /\ CreateOrUpdate(x) /\ Goes(x) /\ UNCHANGED job

\* What is not there is an error.
Delete(x) == objs' = objs \ {x}
DeleteResource(x) ==
    /\ cmd.op = "revert" /\ x \in Object \ Edited /\ Delete(x) /\ UNCHANGED job
    /\ IF x \in objs THEN Goes(x) ELSE Ends(FALSE)

\* kube-proxy's config and the endpoints take either edit again and again.
UpdateKubeProxyAndEndpoint(x) ==
    /\ cmd.op = "change" /\ x \in Edited /\ CreateOrUpdate(x) /\ Goes(x) /\ UNCHANGED job
RevertKubeProxyAndEndpoint(x) ==
    /\ cmd.op = "revert" /\ x \in Edited /\ Delete(x) /\ Goes(x) /\ UNCHANGED job

\* A change makes the certificate anew.
DropCert(x) == x = "dropCert" /\ Delete("cert") /\ Goes(x) /\ UNCHANGED job

EditObjects(x) ==
    \/ CreateResource(x) \/ UpdateKubeProxyAndEndpoint(x) \/ DropCert(x)
    \/ DeleteResource(x) \/ RevertKubeProxyAndEndpoint(x)

\* The jobs of all machines go, and what they are doing ends there.
ClearJob(x) ==
    /\ x = "clear" /\ job' = [m \in Machine |-> None] /\ Goes(x) /\ UNCHANGED objs

Fresh(m, op, tries) == [op |-> op, at |-> FirstStep(m, op), tries |-> tries]
DeployHelperJob(m) ==
    /\ m \in Machine /\ job' = [job EXCEPT ![m] = Fresh(m, cmd.op, 0)]
    /\ Goes(m) /\ UNCHANGED objs

Command ==
    /\ cmd # None /\ UNCHANGED <<runs, node, master, faults>>
    /\ \E x \in cmd.todo : EditObjects(x) \/ ClearJob(x) \/ DeployHelperJob(x)

Interrupt ==
    /\ cmd # None /\ Fault /\ Ends(FALSE)
    /\ UNCHANGED <<objs, runs, job, node, master>>

-----------------------------------------------------------------------------
(* The job of a machine.                                                   *)

Active(m) == job[m] # None /\ job[m].at \in JobStep
At(m, s) == job[m] # None /\ job[m].at = s
Then(m, s) == job' = [job EXCEPT ![m].at = s]
Retry(m) == job' = [job EXCEPT ![m] =
    IF @.tries = MaxTries THEN [@ EXCEPT !.at = "failed"] ELSE Fresh(m, @.op, @.tries + 1)]

\* The config that a kubelet takes when it starts.
Loads(n) == IF n.env = "plain" THEN "plain" ELSE IF n.conf THEN "edge" ELSE "broken"

\* Mutants: a check that leaves the label, one that is content with the pod, and a
\* revert that does not restart the kubelet.
KeepsLabel(w) ==
    /\ At(w, "check") /\ UNCHANGED node
    /\ \E isRunning \in {FALSE, node[w].pod} :
           Then(w, IF node[w].label /\ isRunning THEN "done" ELSE "clear")
PodIsEnough(w) ==
    /\ At(w, "check")
    /\ IF node[w].pod THEN Then(w, "done") /\ UNCHANGED node
       ELSE Then(w, "clear") /\ node' = [node EXCEPT ![w].label = FALSE]
NoReload(w) ==
    At(w, "unset") /\ Then(w, "unlabel") /\ node' = [node EXCEPT ![w].env = "plain"]

\* isDeployLiteAPIServer: a pod that runs may be missed.
CheckDeployed(w) ==
    /\ At(w, "check")
    /\ \E isRunning \in {FALSE, node[w].pod} :
           IF node[w].label /\ isRunning THEN Then(w, "done") /\ UNCHANGED node
           ELSE Then(w, "clear") /\ node' = [node EXCEPT ![w].label = FALSE]

\* completeLiteApiServer: the directory that has the kubelet's config goes.
ClearEdgeDir(w) ==
    /\ At(w, "clear")
    /\ IF "cert" \in objs THEN Then(w, "drop") /\ node' = [node EXCEPT ![w].conf = FALSE]
       ELSE Retry(w) /\ UNCHANGED node

\* writeStaticYaml
RemoveStatic(w) ==
    At(w, "drop") /\ Then(w, "deploy") /\ node' = [node EXCEPT ![w].manifest = FALSE]
WriteStatic(w) ==
    At(w, "deploy") /\ Then(w, "config") /\ node' = [node EXCEPT ![w].manifest = TRUE]

\* restartKubelet
UpdateKubeletConfig(w) ==
    At(w, "config") /\ Then(w, "env") /\ node' = [node EXCEPT ![w].conf = TRUE]
WriteStartEnv(w) ==
    At(w, "env") /\ Then(w, "restart") /\ node' = [node EXCEPT ![w].env = "edge"]
RestartKubelet(w) ==
    /\ At(w, "restart") /\ Then(w, "wait")
    /\ node' = [node EXCEPT ![w].kubelet = Loads(node[w])]
IsRunningKubelet(w) ==
    At(w, "wait") /\ node[w].pod /\ Then(w, "label") /\ UNCHANGED node
AddLiteFinishLabel(w) ==
    At(w, "label") /\ Then(w, "done") /\ node' = [node EXCEPT ![w].label = TRUE]

\* revertNodeJob
EmptyStartEnv(w) ==
    At(w, "unset") /\ Then(w, "reload") /\ node' = [node EXCEPT ![w].env = "plain"]
ReloadKubelet(w) ==
    /\ At(w, "reload") /\ Then(w, "unlabel")
    /\ node' = [node EXCEPT ![w].kubelet = Loads(node[w])]
DeleteLabel(w) ==
    At(w, "unlabel") /\ Then(w, "remove") /\ node' = [node EXCEPT ![w].label = FALSE]
RemoveManifest(w) ==
    At(w, "remove") /\ Then(w, "done") /\ node' = [node EXCEPT ![w].manifest = FALSE]

ChangeNodeJob(w) ==
    \/ CheckDeployed(w) \/ ClearEdgeDir(w) \/ RemoveStatic(w) \/ WriteStatic(w)
    \/ UpdateKubeletConfig(w) \/ WriteStartEnv(w) \/ RestartKubelet(w)
    \/ IsRunningKubelet(w) \/ AddLiteFinishLabel(w)
RevertNodeJob(w) ==
    EmptyStartEnv(w) \/ ReloadKubelet(w) \/ DeleteLabel(w) \/ RemoveManifest(w)

\* No pod starts where no kubelet does.
NodeJob(w) ==
    /\ node[w].kubelet # "broken"
    /\ ChangeNodeJob(w) \/ RevertNodeJob(w)
    /\ UNCHANGED <<cluster, master, faults>>

\* writeKubeAPIYaml: whatever is the manifest now is taken as the one to return to.  The
\* error of either write is dropped (change.go:263, :286), and a manifest that cannot be
\* marshalled is no error (:280): the job goes on with the file as it was.  addMasterHosts
\* asks the apiserver, which the kubelet starts anew meanwhile.
BackupManifest(m) ==
    /\ At(m, "backup") /\ Then(m, "edit")
    /\ \/ master' = [master EXCEPT ![m].backup = master[m].src] /\ UNCHANGED faults
       \/ Fault /\ UNCHANGED master
EditManifest(m) ==
    /\ At(m, "edit") /\ "coredns" \in objs /\ Then(m, "hosts")
    /\ \/ master' = [master EXCEPT ![m] = [@ EXCEPT !.src = "edge", !.missed = FALSE]] /\ UNCHANGED faults
       \/ Fault /\ master' = [master EXCEPT ![m].missed = TRUE]
AddMasterHosts(m) == At(m, "hosts") /\ Then(m, "done") /\ UNCHANGED <<master, faults>>
RestoreManifest(m) ==
    /\ At(m, "rename")
    /\ UNCHANGED faults
    /\ IF master[m].backup = "none" THEN Retry(m) /\ UNCHANGED master
       ELSE Then(m, "health")
            /\ master' = [master EXCEPT ![m] = [@ EXCEPT !.src = master[m].backup, !.backup = "none"]]
IsRunningMaster(m) == At(m, "health") /\ Then(m, "done") /\ UNCHANGED <<master, faults>>

MasterJob(m) ==
    /\ \/ BackupManifest(m) \/ EditManifest(m) \/ AddMasterHosts(m)
       \/ RestoreManifest(m) \/ IsRunningMaster(m)
    /\ UNCHANGED <<cluster, node>>

\* A call fails, a wait runs out, or the pod ends.
JobFails(m) ==
    /\ Active(m)
    /\ m \in Worker => node[m].kubelet # "broken"
    /\ Fault /\ Retry(m) /\ UNCHANGED <<cluster, node, master>>

\* activeDeadlineSeconds
Deadline(m) ==
    /\ Active(m) /\ Then(m, "failed")
    /\ IF m \in Worker /\ node[m].kubelet = "broken" THEN UNCHANGED faults ELSE Fault
    /\ UNCHANGED <<cluster, node, master>>

-----------------------------------------------------------------------------
(* A worker by itself.                                                     *)

\* The kubelet runs what is in its directory of manifests, and reports it.
Sync(w) ==
    /\ node[w].kubelet # "broken" /\ node[w].pod # node[w].manifest
    /\ node' = [node EXCEPT ![w].pod = node[w].manifest]
    /\ UNCHANGED <<cluster, job, master, faults>>

Reboot(w) ==
    /\ Fault /\ node' = [node EXCEPT ![w].kubelet = Loads(node[w])]
    /\ IF Active(w) THEN Retry(w) ELSE UNCHANGED job
    /\ UNCHANGED <<cluster, master>>

-----------------------------------------------------------------------------
Init ==
    /\ objs = {} /\ cmd = None /\ last = None /\ job = [m \in Machine |-> None]
    /\ node = [w \in Worker |-> Plain]
    /\ master = [m \in Master |-> [src |-> "native", backup |-> "none", missed |-> FALSE]]
    /\ runs = 0 /\ faults = 0

Next ==
    \/ Command \/ Interrupt \/ \E op \in Op : RunCommand(op)
    \/ \E w \in Worker : NodeJob(w) \/ Sync(w) \/ Reboot(w)
    \/ \E m \in Master : MasterJob(m)
    \/ \E m \in Machine : JobFails(m) \/ Deadline(m)

Spec == Init /\ [][Next]_vars

\* Commands, jobs and kubelets go on; nobody has to run another command.
Fairness ==
    /\ WF_vars(Command)
    /\ \A w \in Worker : WF_vars(NodeJob(w)) /\ WF_vars(Sync(w))
    /\ \A m \in Master : WF_vars(MasterJob(m))
FairSpec == Spec /\ Fairness

-----------------------------------------------------------------------------
(* Properties.                                                             *)

\* A worker that carries the label of an edge node has the manifest of
\* lite-apiserver and the config that leads to it, whatever commands, failures
\* and reboots came in between: the label is the last thing a change gives, and a
\* revert, or a change that starts over, takes it away before anything else goes.
LabelledIsDeployed == \A w \in Worker :
    node[w].label => node[w].manifest /\ node[w].conf

\* A change of a worker ends with success only when its kubelet goes through
\* lite-apiserver; but for a worker whose revert was cut short before it took the
\* label: that one is still found labelled, and left as it is.
EndsAtEdge(w) ==
    /\ Active(w) /\ job[w].op = "change" /\ job'[w] = [job[w] EXCEPT !.at = "done"]
    => /\ node'[w].label /\ node'[w].manifest /\ node'[w].conf
       /\ IF node'[w].env = "edge" THEN node'[w].kubelet = "edge" ELSE job[w].at = "check"
ChangedIsServed == [][\A w \in Worker : EndsAtEdge(w)]_vars

\* After the last command, if it succeeded, nothing is left of what earlier ones had
\* begun: every worker whose job has not failed comes to what the command is for, and
\* so does every master, unless a change has not noticed that the manifest could not be
\* written, or a revert finds no copy of the original left.
GivenUp(m) == At(m, "failed") \/ (m \in Worker /\ Active(m) /\ node[m].kubelet = "broken")
Changed ==
    /\ objs = Object
    /\ \A w \in Worker : GivenUp(w) \/ (node[w].label /\ node[w].manifest /\ node[w].pod)
    /\ \A m \in Master : GivenUp(m) \/ master[m].src = "edge" \/ master[m].missed
Reverted ==
    /\ objs = {}
    /\ \A w \in Worker : GivenUp(w) \/ node[w] = [Plain EXCEPT !.conf = node[w].conf]
    /\ \A m \in Master : \/ GivenUp(m) \/ master[m].src = "native"
                         \/ "native" \notin {master[m].src, master[m].backup}
LastCommandWins == <>[](
    /\ cmd = None
    /\ last # None /\ last.ok => IF last.op = "change" THEN Changed ELSE Reverted)
=============================================================================
