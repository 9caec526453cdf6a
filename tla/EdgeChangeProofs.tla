------------------------- MODULE EdgeChangeProofs -------------------------
(* Proofs about EdgeChange, for any machines, manifests, commands and faults: *)
(* what is labelled is deployed, and what has been changed is served.          *)
EXTENDS EdgeChange, TLAPS

USE EdgeChangeAssumption, NoneAssumption DEF NodeChange, NodeRevert, MasterChange, MasterRevert

Jobs == Job \cup {None}
CmdOK == \/ cmd = None
         \/ cmd \in [op : Op, at : Nat, todo : SUBSET Call] /\ cmd.at \in DOMAIN Steps(cmd.op)
Typed == job \in [Machine -> Jobs] /\ node \in [Worker -> Node]

\* What a change, or a revert, has done of a worker when it has come so far.
Unlabelled == {"clear", "drop", "deploy", "config", "env", "restart", "wait", "label"}
Written == {"config", "env", "restart", "wait", "label"}
Configured == {"env", "restart", "wait", "label"}
Reverting == {"unset", "reload", "unlabel", "remove"}
Sofar(n, j) ==
    /\ j.at \in Reverting => j.op = "revert"
    /\ j.at \in Unlabelled \cup {"remove"} => ~n.label
    /\ j.at \in Written => n.manifest
    /\ j.at \in Configured => n.conf
    /\ j.at \in {"restart", "wait", "label"} => n.env = "edge"
    /\ j.at \in {"wait", "label"} => n.kubelet = "edge"

\* A label is for the manifest, the config, and a kubelet that is to use it and does.
Kept(n) == n.label => n.manifest /\ n.conf /\ (n.env = "edge" => n.kubelet = "edge")
Fits(n, j) == Kept(n) /\ (j # None => Sofar(n, j))
AllFit == \A w \in Worker : Fits(node[w], job[w])

IInv == CmdOK /\ Typed /\ AllFit
-----------------------------------------------------------------------------
(* Commands.                                                               *)

LEMMA StepsAreCalls ==
    ASSUME NEW op \in Op
    PROVE  /\ Len(Steps(op)) \in Nat /\ DOMAIN Steps(op) = 1 .. Len(Steps(op))
           /\ 1 \in DOMAIN Steps(op)
           /\ \A i \in DOMAIN Steps(op) : Steps(op)[i] \subseteq Call
<1>1. CASE op = "change"
  BY <1>1 DEF Steps, ChangeSteps, Call, Object, Edited, Machine
<1>2. CASE op = "revert"
  BY <1>2 DEF Steps, RevertSteps, Call, Object, Edited, Machine
<1> QED BY <1>1, <1>2 DEF Op

LEMMA GoesOK ==
    ASSUME CmdOK, cmd # None, NEW x, Goes(x)
    PROVE  CmdOK'
<1>1. cmd.op \in Op /\ cmd.at \in DOMAIN Steps(cmd.op) /\ cmd.at \in Nat
  BY DEF CmdOK
<1>2. CASE cmd.todo # {x}
  BY <1>1, <1>2 DEF CmdOK, Goes
<1>3. CASE cmd.todo = {x} /\ cmd.at # Len(Steps(cmd.op))
  <2>1. cmd.at + 1 \in DOMAIN Steps(cmd.op) /\ Steps(cmd.op)[cmd.at + 1] \in SUBSET Call
    BY <1>1, <1>3, StepsAreCalls
  <2>2. cmd' = [op |-> cmd.op, at |-> cmd.at + 1, todo |-> Steps(cmd.op)[cmd.at + 1]]
    BY <1>3 DEF Goes
  <2> QED BY <1>1, <2>1, <2>2 DEF CmdOK
<1>4. CASE cmd.todo = {x} /\ cmd.at = Len(Steps(cmd.op))
  BY <1>4 DEF CmdOK, Goes, Ends
<1> QED BY <1>2, <1>3, <1>4

LEMMA FreshOK ==
    ASSUME NEW w \in Worker, NEW op \in Op, NEW t \in 0 .. MaxTries, NEW n \in Node, Kept(n)
    PROVE  /\ Fresh(w, op, t) \in Job /\ Fits(n, Fresh(w, op, t))
           /\ Fresh(w, op, t).at # "done"
  BY DEF Fresh, FirstStep, Job, JobStep, Op, Fits, Sofar, Unlabelled, Written, Configured, Reverting

LEMMA FreshMaster ==
    ASSUME NEW m \in Machine, NEW op \in Op, NEW t \in 0 .. MaxTries
    PROVE  Fresh(m, op, t) \in Job
  BY DEF Fresh, FirstStep, Job, JobStep, Op

\* A worker that neither gets nor loses anything goes on to fit its job.
LEMMA Elsewhere ==
    ASSUME AllFit, Typed', \A w \in Worker : node'[w] = node[w] /\ job'[w] = job[w]
    PROVE  AllFit'
  BY DEF AllFit, Fits, Kept, Sofar

LEMMA CommandFits ==
    ASSUME IInv, Command
    PROVE  IInv'
<1>1. PICK x \in cmd.todo : EditObjects(x) \/ ClearJob(x) \/ DeployHelperJob(x)
  BY DEF Command
<1>2. cmd # None /\ node' = node /\ cmd.op \in Op
  BY DEF Command, IInv, CmdOK
<1>3. CASE EditObjects(x)
  <2>1. job' = job
    BY <1>3 DEF EditObjects, CreateResource, UpdateKubeProxyAndEndpoint, DropCert,
                DeleteResource, RevertKubeProxyAndEndpoint
  <2>2. Goes(x) \/ Ends(FALSE)
    BY <1>3 DEF EditObjects, CreateResource, UpdateKubeProxyAndEndpoint, DropCert,
                DeleteResource, RevertKubeProxyAndEndpoint
  <2>3. CmdOK'
    BY <1>2, <2>2, GoesOK DEF IInv, CmdOK, Ends
  <2> QED BY <1>2, <2>1, <2>3, Elsewhere DEF IInv, Typed
<1>4. CASE ClearJob(x)
  <2>1. CmdOK'
    BY <1>2, <1>4, GoesOK DEF IInv, ClearJob
  <2>2. Typed' /\ \A w \in Worker : job'[w] = None
    BY <1>2, <1>4 DEF ClearJob, IInv, Typed, Jobs, Machine
  <2> QED BY <1>2, <2>1, <2>2 DEF IInv, AllFit, Fits, Kept
<1>5. CASE DeployHelperJob(x)
  <2>1. CmdOK'
    BY <1>2, <1>5, GoesOK DEF IInv, DeployHelperJob
  <2>2. x \in Machine /\ job' = [job EXCEPT ![x] = Fresh(x, cmd.op, 0)]
    BY <1>5 DEF DeployHelperJob
  <2>3. Fresh(x, cmd.op, 0) \in Job
    BY <1>2, <2>2, FreshMaster
  <2>4. Typed'
    BY <1>2, <2>2, <2>3 DEF IInv, Typed, Jobs
  <2>5. ASSUME NEW w \in Worker PROVE Fits(node'[w], job'[w])
    <3>1. CASE w = x
      <4>1. job'[w] = Fresh(w, cmd.op, 0)
        BY <2>2, <3>1 DEF IInv, Typed
      <4>2. node[w] \in Node /\ Kept(node[w])
        BY DEF IInv, Typed, AllFit, Fits
      <4> QED BY <1>2, <4>1, <4>2, FreshOK
    <3>2. CASE w # x
      BY <1>2, <2>2, <3>2 DEF IInv, Typed, AllFit, Machine
    <3> QED BY <3>1, <3>2
  <2> QED BY <2>1, <2>4, <2>5 DEF IInv, AllFit, Fits, Kept, Sofar
<1> QED BY <1>1, <1>3, <1>4, <1>5

-----------------------------------------------------------------------------
(* The jobs.                                                               *)

\* A step at one worker is all right when the worker fits its job afterwards.
LEMMA AtWorker ==
    ASSUME IInv, CmdOK', NEW w \in Worker, NEW n \in Node, NEW j \in Job, Fits(n, j),
           node' = [node EXCEPT ![w] = n], job' = [job EXCEPT ![w] = j]
    PROVE  IInv'
<1>1. Typed'
  BY DEF IInv, Typed, Jobs, Machine
<1>2. \A v \in Worker : v # w => node'[v] = node[v] /\ job'[v] = job[v]
  BY DEF IInv, Typed, Machine
<1>3. node'[w] = n /\ job'[w] = j
  BY DEF IInv, Typed, Machine
<1> QED BY <1>1, <1>2, <1>3 DEF IInv, AllFit, Fits, Kept, Sofar

LEMMA RetryFits ==
    ASSUME NEW w \in Machine, job[w] \in Job, job \in [Machine -> Jobs], Retry(w)
    PROVE  \E j \in Job : /\ job' = [job EXCEPT ![w] = j] /\ j.at # "done"
                          /\ w \in Worker => \A n \in Node : Kept(n) => Fits(n, j)
<1>1. CASE job[w].tries = MaxTries
  <2>1. [job[w] EXCEPT !.at = "failed"] \in Job
    BY DEF Job
  <2>2. job' = [job EXCEPT ![w] = [job[w] EXCEPT !.at = "failed"]]
    BY <1>1 DEF Retry
  <2>3. [job[w] EXCEPT !.at = "failed"].at = "failed"
    BY DEF Job
  <2> QED BY <2>1, <2>2, <2>3 DEF Fits, Sofar, Unlabelled, Written, Configured, Reverting
<1>2. CASE job[w].tries # MaxTries
  <2>1. job[w].op \in Op /\ job[w].tries + 1 \in 0 .. MaxTries
    BY <1>2 DEF Job
  <2>2. job' = [job EXCEPT ![w] = Fresh(w, job[w].op, job[w].tries + 1)]
    BY <1>2 DEF Retry
  <2>3. Fresh(w, job[w].op, job[w].tries + 1).at # "done"
    BY <2>1 DEF Fresh, FirstStep
  <2> QED BY <2>1, <2>2, <2>3, FreshMaster, FreshOK
<1> QED BY <1>1, <1>2


\* A field of a node that takes another value of its own.
LEMMA NodeFields ==
    ASSUME NEW n \in Node
    PROVE  /\ \A b \in BOOLEAN : /\ [n EXCEPT !.label = b] \in Node
                                 /\ [n EXCEPT !.manifest = b] \in Node
                                 /\ [n EXCEPT !.pod = b] \in Node
                                 /\ [n EXCEPT !.conf = b] \in Node
           /\ \A e \in {"plain", "edge"} : [n EXCEPT !.env = e] \in Node
           /\ [n EXCEPT !.kubelet = Loads(n)] \in Node
  BY DEF Node, Loads

LEMMA JobFields ==
    ASSUME NEW j \in Job, NEW s \in JobStep \cup {"done", "failed"}
    PROVE  /\ [j EXCEPT !.at = s] \in Job /\ [j EXCEPT !.at = s].at = s
           /\ [j EXCEPT !.at = s].op = j.op
  BY DEF Job

\* One step of a worker's job leaves the worker fit for the next.
LEMMA NodeJobFits ==
    ASSUME IInv, NEW w \in Worker, NodeJob(w)
    PROVE  IInv'
<1> DEFINE n == node[w]
           j == job[w]
<1>1. CmdOK' /\ n \in Node /\ w \in Machine /\ job \in [Machine -> Jobs] /\ node \in [Worker -> Node]
  BY DEF NodeJob, IInv, CmdOK, Typed, cluster, Machine
<1>2. Kept(n) /\ (j # None => j \in Job /\ Sofar(n, j))
  BY <1>1 DEF IInv, AllFit, Fits, Jobs
<1>3. \A s \in JobStep : At(w, s) => j \in Job /\ Sofar(n, j) /\ j.at = s
  BY <1>2 DEF At
<1>4. CASE CheckDeployed(w)
  <2>1. At(w, "check") /\ "check" \in JobStep
    BY <1>4 DEF CheckDeployed, JobStep
  <2>2. j \in Job /\ Sofar(n, j) /\ j.at = "check"
    BY <1>3, <2>1
  <2>3. CASE node' = node /\ Then(w, "done")
    <3>1. [j EXCEPT !.at = "done"] \in Job /\ Fits(n, [j EXCEPT !.at = "done"])
      BY <1>2, <2>2, JobFields DEF Fits, Kept, Sofar, Unlabelled, Written, Configured, Reverting
    <3>2. node' = [node EXCEPT ![w] = n] /\ job' = [job EXCEPT ![w] = [j EXCEPT !.at = "done"]]
      BY <1>1, <2>3 DEF Then
    <3> QED BY <1>1, <3>1, <3>2, AtWorker
  <2>4. CASE node' = [node EXCEPT ![w].label = FALSE] /\ Then(w, "clear")
    <3>1. [n EXCEPT !.label = FALSE] \in Node
      BY <1>1, NodeFields
    <3> [n EXCEPT !.label = FALSE].label = FALSE
      BY <1>1 DEF Node
    <3>2. [j EXCEPT !.at = "clear"] \in Job /\ Fits([n EXCEPT !.label = FALSE], [j EXCEPT !.at = "clear"])
      BY <2>2, <3>1, JobFields DEF JobStep, Fits, Kept, Sofar, Unlabelled, Written, Configured, Reverting
    <3>3. /\ node' = [node EXCEPT ![w] = [n EXCEPT !.label = FALSE]]
          /\ job' = [job EXCEPT ![w] = [j EXCEPT !.at = "clear"]]
      BY <1>1, <2>4 DEF Then
    <3> QED BY <1>1, <3>1, <3>2, <3>3, AtWorker
  <2> QED BY <1>4, <2>3, <2>4 DEF CheckDeployed
<1>5. CASE ClearEdgeDir(w)
  <2>1. At(w, "clear") /\ "clear" \in JobStep
    BY <1>5 DEF ClearEdgeDir, JobStep
  <2>2. j \in Job /\ Sofar(n, j) /\ j.at = "clear"
    BY <1>3, <2>1
  <2>3. CASE Then(w, "drop") /\ node' = [node EXCEPT ![w].conf = FALSE]
    <3>1. [n EXCEPT !.conf = FALSE] \in Node
      BY <1>1, NodeFields
    <3> [n EXCEPT !.conf = FALSE].label = n.label
      BY <1>1 DEF Node
    <3>2. [j EXCEPT !.at = "drop"] \in Job /\ Fits([n EXCEPT !.conf = FALSE], [j EXCEPT !.at = "drop"])
      BY <2>2, <3>1, JobFields DEF JobStep, Fits, Kept, Sofar, Unlabelled, Written, Configured, Reverting
    <3>3. /\ node' = [node EXCEPT ![w] = [n EXCEPT !.conf = FALSE]]
          /\ job' = [job EXCEPT ![w] = [j EXCEPT !.at = "drop"]]
      BY <1>1, <2>3 DEF Then
    <3> QED BY <1>1, <3>1, <3>2, <3>3, AtWorker
  <2>4. CASE Retry(w) /\ node' = node
    <3>1. PICK r \in Job : job' = [job EXCEPT ![w] = r] /\ Fits(n, r)
      BY <1>1, <1>2, <2>2, <2>4, RetryFits
    <3>2. node' = [node EXCEPT ![w] = n]
      BY <1>1, <2>4
    <3> QED BY <1>1, <3>1, <3>2, AtWorker
  <2> QED BY <1>5, <2>3, <2>4 DEF ClearEdgeDir
<1>6. CASE RemoveStatic(w)
  <2>1. At(w, "drop") /\ "drop" \in JobStep /\ Then(w, "deploy")
    BY <1>6 DEF RemoveStatic, JobStep
  <2>2. j \in Job /\ Sofar(n, j) /\ j.at = "drop"
    BY <1>3, <2>1
  <2>3. [n EXCEPT !.manifest = FALSE] \in Node /\ Fits([n EXCEPT !.manifest = FALSE], [j EXCEPT !.at = "deploy"])
    BY <1>1, <1>2, <2>2 DEF Node, Job, Loads, Fits, Kept, Sofar, Unlabelled, Written, Configured, Reverting
  <2>4. [j EXCEPT !.at = "deploy"] \in Job
    BY <2>2, JobFields DEF JobStep
  <2>5. node' = [node EXCEPT ![w] = [n EXCEPT !.manifest = FALSE]] /\ job' = [job EXCEPT ![w] = [j EXCEPT !.at = "deploy"]]
    BY <1>1, <1>6 DEF RemoveStatic, Then
  <2> QED BY <1>1, <2>3, <2>4, <2>5, AtWorker
<1>7. CASE WriteStatic(w)
  <2>1. At(w, "deploy") /\ "deploy" \in JobStep /\ Then(w, "config")
    BY <1>7 DEF WriteStatic, JobStep
  <2>2. j \in Job /\ Sofar(n, j) /\ j.at = "deploy"
    BY <1>3, <2>1
  <2>3. [n EXCEPT !.manifest = TRUE] \in Node /\ Fits([n EXCEPT !.manifest = TRUE], [j EXCEPT !.at = "config"])
    BY <1>1, <1>2, <2>2 DEF Node, Job, Loads, Fits, Kept, Sofar, Unlabelled, Written, Configured, Reverting
  <2>4. [j EXCEPT !.at = "config"] \in Job
    BY <2>2, JobFields DEF JobStep
  <2>5. node' = [node EXCEPT ![w] = [n EXCEPT !.manifest = TRUE]] /\ job' = [job EXCEPT ![w] = [j EXCEPT !.at = "config"]]
    BY <1>1, <1>7 DEF WriteStatic, Then
  <2> QED BY <1>1, <2>3, <2>4, <2>5, AtWorker
<1>8. CASE UpdateKubeletConfig(w)
  <2>1. At(w, "config") /\ "config" \in JobStep /\ Then(w, "env")
    BY <1>8 DEF UpdateKubeletConfig, JobStep
  <2>2. j \in Job /\ Sofar(n, j) /\ j.at = "config"
    BY <1>3, <2>1
  <2>3. [n EXCEPT !.conf = TRUE] \in Node /\ Fits([n EXCEPT !.conf = TRUE], [j EXCEPT !.at = "env"])
    BY <1>1, <1>2, <2>2 DEF Node, Job, Loads, Fits, Kept, Sofar, Unlabelled, Written, Configured, Reverting
  <2>4. [j EXCEPT !.at = "env"] \in Job
    BY <2>2, JobFields DEF JobStep
  <2>5. node' = [node EXCEPT ![w] = [n EXCEPT !.conf = TRUE]] /\ job' = [job EXCEPT ![w] = [j EXCEPT !.at = "env"]]
    BY <1>1, <1>8 DEF UpdateKubeletConfig, Then
  <2> QED BY <1>1, <2>3, <2>4, <2>5, AtWorker
<1>9. CASE WriteStartEnv(w)
  <2>1. At(w, "env") /\ "env" \in JobStep /\ Then(w, "restart")
    BY <1>9 DEF WriteStartEnv, JobStep
  <2>2. j \in Job /\ Sofar(n, j) /\ j.at = "env"
    BY <1>3, <2>1
  <2>3. [n EXCEPT !.env = "edge"] \in Node /\ Fits([n EXCEPT !.env = "edge"], [j EXCEPT !.at = "restart"])
    BY <1>1, <1>2, <2>2 DEF Node, Job, Loads, Fits, Kept, Sofar, Unlabelled, Written, Configured, Reverting
  <2>4. [j EXCEPT !.at = "restart"] \in Job
    BY <2>2, JobFields DEF JobStep
  <2>5. node' = [node EXCEPT ![w] = [n EXCEPT !.env = "edge"]] /\ job' = [job EXCEPT ![w] = [j EXCEPT !.at = "restart"]]
    BY <1>1, <1>9 DEF WriteStartEnv, Then
  <2> QED BY <1>1, <2>3, <2>4, <2>5, AtWorker
<1>10. CASE RestartKubelet(w)
  <2>1. At(w, "restart") /\ "restart" \in JobStep /\ Then(w, "wait")
    BY <1>10 DEF RestartKubelet, JobStep
  <2>2. j \in Job /\ Sofar(n, j) /\ j.at = "restart"
    BY <1>3, <2>1
  <2>3. [n EXCEPT !.kubelet = Loads(n)] \in Node /\ Fits([n EXCEPT !.kubelet = Loads(n)], [j EXCEPT !.at = "wait"])
    BY <1>1, <1>2, <2>2 DEF Node, Job, Loads, Fits, Kept, Sofar, Unlabelled, Written, Configured, Reverting
  <2>4. [j EXCEPT !.at = "wait"] \in Job
    BY <2>2, JobFields DEF JobStep
  <2>5. node' = [node EXCEPT ![w] = [n EXCEPT !.kubelet = Loads(n)]] /\ job' = [job EXCEPT ![w] = [j EXCEPT !.at = "wait"]]
    BY <1>1, <1>10 DEF RestartKubelet, Then
  <2> QED BY <1>1, <2>3, <2>4, <2>5, AtWorker
<1>11. CASE IsRunningKubelet(w)
  <2>1. At(w, "wait") /\ "wait" \in JobStep /\ Then(w, "label")
    BY <1>11 DEF IsRunningKubelet, JobStep
  <2>2. j \in Job /\ Sofar(n, j) /\ j.at = "wait"
    BY <1>3, <2>1
  <2>3. n \in Node /\ Fits(n, [j EXCEPT !.at = "label"])
    BY <1>1, <1>2, <2>2 DEF Node, Job, Loads, Fits, Kept, Sofar, Unlabelled, Written, Configured, Reverting
  <2>4. [j EXCEPT !.at = "label"] \in Job
    BY <2>2, JobFields DEF JobStep
  <2>5. node' = [node EXCEPT ![w] = n] /\ job' = [job EXCEPT ![w] = [j EXCEPT !.at = "label"]]
    BY <1>1, <1>11 DEF IsRunningKubelet, Then
  <2> QED BY <1>1, <2>3, <2>4, <2>5, AtWorker
<1>12. CASE AddLiteFinishLabel(w)
  <2>1. At(w, "label") /\ "label" \in JobStep /\ Then(w, "done")
    BY <1>12 DEF AddLiteFinishLabel, JobStep
  <2>2. j \in Job /\ Sofar(n, j) /\ j.at = "label"
    BY <1>3, <2>1
  <2>3. [n EXCEPT !.label = TRUE] \in Node /\ Fits([n EXCEPT !.label = TRUE], [j EXCEPT !.at = "done"])
    BY <1>1, <1>2, <2>2 DEF Node, Job, Loads, Fits, Kept, Sofar, Unlabelled, Written, Configured, Reverting
  <2>4. [j EXCEPT !.at = "done"] \in Job
    BY <2>2, JobFields DEF JobStep
  <2>5. node' = [node EXCEPT ![w] = [n EXCEPT !.label = TRUE]] /\ job' = [job EXCEPT ![w] = [j EXCEPT !.at = "done"]]
    BY <1>1, <1>12 DEF AddLiteFinishLabel, Then
  <2> QED BY <1>1, <2>3, <2>4, <2>5, AtWorker
<1>13. CASE EmptyStartEnv(w)
  <2>1. At(w, "unset") /\ "unset" \in JobStep /\ Then(w, "reload")
    BY <1>13 DEF EmptyStartEnv, JobStep
  <2>2. j \in Job /\ Sofar(n, j) /\ j.at = "unset"
    BY <1>3, <2>1
  <2>3. [n EXCEPT !.env = "plain"] \in Node /\ Fits([n EXCEPT !.env = "plain"], [j EXCEPT !.at = "reload"])
    BY <1>1, <1>2, <2>2 DEF Node, Job, Loads, Fits, Kept, Sofar, Unlabelled, Written, Configured, Reverting
  <2>4. [j EXCEPT !.at = "reload"] \in Job
    BY <2>2, JobFields DEF JobStep
  <2>5. node' = [node EXCEPT ![w] = [n EXCEPT !.env = "plain"]] /\ job' = [job EXCEPT ![w] = [j EXCEPT !.at = "reload"]]
    BY <1>1, <1>13 DEF EmptyStartEnv, Then
  <2> QED BY <1>1, <2>3, <2>4, <2>5, AtWorker
<1>14. CASE ReloadKubelet(w)
  <2>1. At(w, "reload") /\ "reload" \in JobStep /\ Then(w, "unlabel")
    BY <1>14 DEF ReloadKubelet, JobStep
  <2>2. j \in Job /\ Sofar(n, j) /\ j.at = "reload"
    BY <1>3, <2>1
  <2>3. [n EXCEPT !.kubelet = Loads(n)] \in Node /\ Fits([n EXCEPT !.kubelet = Loads(n)], [j EXCEPT !.at = "unlabel"])
    BY <1>1, <1>2, <2>2 DEF Node, Job, Loads, Fits, Kept, Sofar, Unlabelled, Written, Configured, Reverting
  <2>4. [j EXCEPT !.at = "unlabel"] \in Job
    BY <2>2, JobFields DEF JobStep
  <2>5. node' = [node EXCEPT ![w] = [n EXCEPT !.kubelet = Loads(n)]] /\ job' = [job EXCEPT ![w] = [j EXCEPT !.at = "unlabel"]]
    BY <1>1, <1>14 DEF ReloadKubelet, Then
  <2> QED BY <1>1, <2>3, <2>4, <2>5, AtWorker
<1>15. CASE DeleteLabel(w)
  <2>1. At(w, "unlabel") /\ "unlabel" \in JobStep /\ Then(w, "remove")
    BY <1>15 DEF DeleteLabel, JobStep
  <2>2. j \in Job /\ Sofar(n, j) /\ j.at = "unlabel"
    BY <1>3, <2>1
  <2>3. [n EXCEPT !.label = FALSE] \in Node /\ Fits([n EXCEPT !.label = FALSE], [j EXCEPT !.at = "remove"])
    BY <1>1, <1>2, <2>2 DEF Node, Job, Loads, Fits, Kept, Sofar, Unlabelled, Written, Configured, Reverting
  <2>4. [j EXCEPT !.at = "remove"] \in Job
    BY <2>2, JobFields DEF JobStep
  <2>5. node' = [node EXCEPT ![w] = [n EXCEPT !.label = FALSE]] /\ job' = [job EXCEPT ![w] = [j EXCEPT !.at = "remove"]]
    BY <1>1, <1>15 DEF DeleteLabel, Then
  <2> QED BY <1>1, <2>3, <2>4, <2>5, AtWorker
<1>16. CASE RemoveManifest(w)
  <2>1. At(w, "remove") /\ "remove" \in JobStep /\ Then(w, "done")
    BY <1>16 DEF RemoveManifest, JobStep
  <2>2. j \in Job /\ Sofar(n, j) /\ j.at = "remove"
    BY <1>3, <2>1
  <2>3. [n EXCEPT !.manifest = FALSE] \in Node /\ Fits([n EXCEPT !.manifest = FALSE], [j EXCEPT !.at = "done"])
    BY <1>1, <1>2, <2>2 DEF Node, Job, Loads, Fits, Kept, Sofar, Unlabelled, Written, Configured, Reverting
  <2>4. [j EXCEPT !.at = "done"] \in Job
    BY <2>2, JobFields DEF JobStep
  <2>5. node' = [node EXCEPT ![w] = [n EXCEPT !.manifest = FALSE]] /\ job' = [job EXCEPT ![w] = [j EXCEPT !.at = "done"]]
    BY <1>1, <1>16 DEF RemoveManifest, Then
  <2> QED BY <1>1, <2>3, <2>4, <2>5, AtWorker
<1> QED BY <1>4, <1>5, <1>6, <1>7, <1>8, <1>9, <1>10, <1>11, <1>12, <1>13, <1>14, <1>15, <1>16 DEF NodeJob, ChangeNodeJob, RevertNodeJob

\* The step of a master's job is none of the workers'.
LEMMA MasterJobFits ==
    ASSUME IInv, NEW m \in Master, MasterJob(m)
    PROVE  IInv'
<1>1. CmdOK' /\ node' = node /\ m \in Machine /\ m \notin Worker
  BY DEF MasterJob, IInv, CmdOK, cluster, Machine
<1>2. job \in [Machine -> Jobs] /\ (job[m] # None => job[m] \in Job)
  BY <1>1 DEF IInv, Typed, Jobs
<1>3. \E j \in Job : job' = [job EXCEPT ![m] = j]
  <2>1. CASE Retry(m) /\ job[m] # None
    BY <1>1, <1>2, <2>1, RetryFits
  <2>2. ASSUME NEW s \in JobStep \cup {"done"}, Then(m, s), job[m] # None
        PROVE  \E j \in Job : job' = [job EXCEPT ![m] = j]
    <3>1. [job[m] EXCEPT !.at = s] \in Job
      BY <1>2, <2>2, JobFields
    <3> QED BY <2>2, <3>1 DEF Then
  <2>3. \E s \in {"edit", "hosts", "done", "health"} : Then(m, s) \/ Retry(m)
    BY DEF MasterJob, BackupManifest, EditManifest, AddMasterHosts, RestoreManifest, IsRunningMaster
  <2>4. job[m] # None
    BY DEF MasterJob, BackupManifest, EditManifest, AddMasterHosts, RestoreManifest, IsRunningMaster, At
  <2> QED BY <2>1, <2>2, <2>3, <2>4 DEF JobStep
<1>4. Typed' /\ \A w \in Worker : job'[w] = job[w]
  BY <1>1, <1>2, <1>3 DEF IInv, Typed, Jobs, Machine
<1> QED BY <1>1, <1>4, Elsewhere DEF IInv

\* A job that starts over or ends does so from any state of its machine.
LEMMA RestartFits ==
    ASSUME IInv, CmdOK', NEW m \in Machine, Active(m), Retry(m) \/ Then(m, "failed"), node' = node
    PROVE  IInv'
<1>1. job \in [Machine -> Jobs] /\ job[m] \in Job /\ node \in [Worker -> Node]
  BY DEF IInv, Typed, Jobs, Active
<1>2. PICK j \in Job : /\ job' = [job EXCEPT ![m] = j]
                       /\ m \in Worker => \A n \in Node : Kept(n) => Fits(n, j)
  <2>1. CASE Retry(m)
    BY <1>1, <2>1, RetryFits
  <2>2. CASE Then(m, "failed")
    <3>1. [job[m] EXCEPT !.at = "failed"] \in Job /\ [job[m] EXCEPT !.at = "failed"].at = "failed"
      BY <1>1, JobFields
    <3> QED BY <2>2, <3>1 DEF Then, Fits, Sofar, Unlabelled, Written, Configured, Reverting
  <2> QED BY <2>1, <2>2
<1>3. CASE m \in Worker
  <2>1. Fits(node[m], j) /\ node[m] \in Node
    BY <1>1, <1>2, <1>3 DEF IInv, AllFit, Fits
  <2>2. node' = [node EXCEPT ![m] = node[m]]
    BY <1>1
  <2> QED BY <1>2, <1>3, <2>1, <2>2, AtWorker
<1>4. CASE m \notin Worker
  <2>1. Typed' /\ \A w \in Worker : job'[w] = job[w]
    BY <1>1, <1>2, <1>4 DEF Typed, Jobs, Machine
  <2> QED BY <2>1, Elsewhere DEF IInv
<1> QED BY <1>3, <1>4

LEMMA RebootFits ==
    ASSUME IInv, NEW w \in Worker, Reboot(w)
    PROVE  IInv'
<1> DEFINE n == [node[w] EXCEPT !.kubelet = Loads(node[w])]
<1>1. CmdOK' /\ job \in [Machine -> Jobs] /\ node \in [Worker -> Node] /\ w \in Machine
  BY DEF Reboot, IInv, CmdOK, cluster, Typed, Machine
<1>2. node' = [node EXCEPT ![w] = n] /\ n \in Node
  BY <1>1, NodeFields DEF Reboot
<1>3. Kept(node[w]) /\ node[w] \in Node /\ (job[w] # None => job[w] \in Job /\ Sofar(node[w], job[w]))
  BY <1>1 DEF IInv, AllFit, Fits, Jobs
<1>4. Kept(n)
  BY <1>3 DEF Kept, Node, Loads
<1>5. CASE Active(w)
  <2>1. PICK j \in Job : job' = [job EXCEPT ![w] = j] /\ Fits(n, j)
    BY <1>1, <1>2, <1>3, <1>4, <1>5, RetryFits DEF Reboot, Active
  <2> QED BY <1>1, <1>2, <2>1, AtWorker
<1>6. CASE ~Active(w)
  <2>1. job' = job
    BY <1>6 DEF Reboot
  <2>2. Fits(n, job[w])
    BY <1>3, <1>4, <1>6 DEF Active, Fits, Sofar, Unlabelled, Written, Configured, Reverting, JobStep
  <2>3. CASE job[w] = None
    <3>1. Typed' /\ node'[w] = n /\ \A v \in Worker : v # w => node'[v] = node[v]
      BY <1>1, <1>2, <2>1 DEF IInv, Typed
    <3>2. \A v \in Worker : Fits(node'[v], job'[v])
      BY <2>1, <2>2, <3>1 DEF IInv, AllFit
    <3> QED BY <1>1, <3>1, <3>2 DEF IInv, AllFit, Fits, Kept, Sofar
  <2>4. CASE job[w] # None
    BY <1>1, <1>2, <1>3, <2>1, <2>2, <2>4, AtWorker
  <2> QED BY <2>3, <2>4
<1> QED BY <1>5, <1>6

LEMMA SyncFits ==
    ASSUME IInv, NEW w \in Worker, Sync(w)
    PROVE  IInv'
<1> DEFINE n == [node[w] EXCEPT !.pod = node[w].manifest]
<1>1. CmdOK' /\ job' = job /\ job \in [Machine -> Jobs] /\ node \in [Worker -> Node] /\ w \in Machine
  BY DEF Sync, IInv, CmdOK, cluster, Typed, Machine
<1>2. node' = [node EXCEPT ![w] = n] /\ node[w] \in Node /\ node[w].manifest \in BOOLEAN
  BY <1>1 DEF Sync, Node
<1>3. n \in Node
  BY <1>2, NodeFields
<1>4. /\ n.label = node[w].label /\ n.manifest = node[w].manifest /\ n.conf = node[w].conf
      /\ n.env = node[w].env /\ n.kubelet = node[w].kubelet
  BY <1>2 DEF Node
<1>5. Typed' /\ node'[w] = n /\ \A v \in Worker : v # w => node'[v] = node[v]
  BY <1>1, <1>2, <1>3 DEF Typed
<1>6. Fits(n, job[w])
  BY <1>4 DEF IInv, AllFit, Fits, Kept, Sofar
<1>7. \A v \in Worker : Fits(node'[v], job'[v])
  BY <1>1, <1>5, <1>6 DEF IInv, AllFit
<1> QED BY <1>1, <1>5, <1>7 DEF IInv, AllFit, Fits, Kept, Sofar
-----------------------------------------------------------------------------
LEMMA InitFits == ASSUME Init PROVE IInv
<1>1. Plain \in Node /\ ~Plain.label
  BY DEF Plain, Node
<1>2. CmdOK /\ Typed
  BY <1>1 DEF Init, CmdOK, Typed, Jobs
<1>3. \A w \in Worker : node[w] = Plain /\ job[w] = None
  BY DEF Init, Machine
<1> QED BY <1>1, <1>2, <1>3 DEF IInv, AllFit, Fits, Kept

LEMMA NextFits == ASSUME IInv, [Next]_vars PROVE IInv'
<1>1. CASE Command
  BY <1>1, CommandFits
<1>2. CASE Interrupt
  <2>1. cmd' = None /\ job' = job /\ node' = node
    BY <1>2 DEF Interrupt, Ends
  <2> QED BY <2>1, Elsewhere DEF IInv, CmdOK, Typed
<1>3. ASSUME NEW op \in Op, RunCommand(op) PROVE IInv'
  <2>1. cmd' = [op |-> op, at |-> 1, todo |-> Steps(op)[1]] /\ job' = job /\ node' = node
    BY <1>3 DEF RunCommand
  <2>2. CmdOK'
    BY <2>1, StepsAreCalls DEF CmdOK
  <2> QED BY <2>1, <2>2, Elsewhere DEF IInv, Typed
<1>4. ASSUME NEW w \in Worker, NodeJob(w) \/ Sync(w) \/ Reboot(w) PROVE IInv'
  BY <1>4, NodeJobFits, SyncFits, RebootFits
<1>5. ASSUME NEW m \in Master, MasterJob(m) PROVE IInv'
  BY <1>5, MasterJobFits
<1>6. ASSUME NEW m \in Machine, JobFails(m) \/ Deadline(m) PROVE IInv'
  <2>1. CmdOK' /\ node' = node /\ Active(m) /\ (Retry(m) \/ Then(m, "failed"))
    BY <1>6 DEF JobFails, Deadline, IInv, CmdOK, cluster
  <2> QED BY <2>1, RestartFits
<1>7. CASE UNCHANGED vars
  <2>1. cmd' = cmd /\ job' = job /\ node' = node
    BY <1>7 DEF vars, cluster
  <2> QED BY <2>1, Elsewhere DEF IInv, CmdOK, Typed
<1> QED BY <1>1, <1>2, <1>3, <1>4, <1>5, <1>6, <1>7 DEF Next

\* Whoever carries the label of an edge node has lite-apiserver's manifest and the
\* kubelet's config for it (changeNodeJob, revertNodeJob), for any machines, any
\* commands and any failures in between.
THEOREM LabelIsTrue == Spec => []LabelledIsDeployed
<1>1. IInv => LabelledIsDeployed
  BY DEF IInv, AllFit, Fits, Kept, LabelledIsDeployed
<1> QED BY <1>1, InitFits, NextFits, PTL DEF Spec

-----------------------------------------------------------------------------
(* Which steps end a job.                                                  *)

Finishes(w) == Active(w) /\ job[w].op = "change" /\ job'[w] = [job[w] EXCEPT !.at = "done"]

LEMMA Finished ==
    ASSUME IInv, NEW w \in Worker, Finishes(w)
    PROVE  /\ job[w] \in Job /\ job[w].at # "done" /\ w \in Machine
           /\ job'[w] # None /\ job'[w] # job[w] /\ job'[w].at = "done"
<1>1. job[w] \in Job /\ job[w].at \in JobStep /\ w \in Machine
  BY DEF IInv, Typed, Jobs, Machine, Finishes, Active
<1>2. job'[w] \in Job /\ job'[w].at = "done"
  BY <1>1, JobFields DEF Finishes
<1> QED BY <1>1, <1>2 DEF JobStep

\* Neither commands, failures and reboots nor other machines end the job of a worker.
LEMMA OwnStep ==
    ASSUME IInv, [Next]_vars, NEW w \in Worker, Finishes(w)
    PROVE  NodeJob(w)
<1>1. /\ job[w] \in Job /\ job[w].at # "done" /\ w \in Machine /\ job \in [Machine -> Jobs]
      /\ job'[w] # None /\ job'[w] # job[w] /\ job'[w].at = "done"
  BY Finished DEF IInv, Typed
<1>2. \A m \in Machine : \A j : job' = [job EXCEPT ![m] = j] => m = w /\ j.at = "done"
  BY <1>1
<1>3. ~Command
  <2>1. ASSUME NEW x, EditObjects(x) PROVE FALSE
    BY <1>1, <2>1 DEF EditObjects, CreateResource, UpdateKubeProxyAndEndpoint, DropCert,
                DeleteResource, RevertKubeProxyAndEndpoint
  <2>2. ASSUME NEW x, ClearJob(x) PROVE FALSE
    BY <1>1, <2>2 DEF ClearJob
  <2>3. ASSUME NEW x, cmd # None, DeployHelperJob(x) PROVE FALSE
    <3>1. x \in Machine /\ job' = [job EXCEPT ![x] = Fresh(x, cmd.op, 0)] /\ cmd.op \in Op
      BY <2>3 DEF DeployHelperJob, IInv, CmdOK
    <3>2. Fresh(x, cmd.op, 0).at # "done"
      BY DEF Fresh, FirstStep
    <3> QED BY <1>2, <3>1, <3>2
  <2> QED BY <2>1, <2>2, <2>3 DEF Command
<1>4. ~Interrupt /\ ~UNCHANGED vars /\ \A op \in Op : ~RunCommand(op)
  BY <1>1 DEF Interrupt, vars, RunCommand
<1>5. \A v \in Worker : ~Sync(v)
  BY <1>1 DEF Sync
<1>6. ASSUME NEW m \in Machine, Active(m), Retry(m) \/ Then(m, "failed") PROVE FALSE
  <2>1. job[m] \in Job
    BY <1>1, <1>6 DEF Active, Jobs
  <2>2. CASE Retry(m)
    BY <1>1, <1>2, <2>1, <2>2, RetryFits
  <2>3. CASE Then(m, "failed")
    <3>1. [job[m] EXCEPT !.at = "failed"].at = "failed"
      BY <2>1, JobFields
    <3> QED BY <1>2, <2>3, <3>1 DEF Then
  <2> QED BY <1>6, <2>2, <2>3
<1>7. \A m \in Machine : ~JobFails(m) /\ ~Deadline(m)
  BY <1>6 DEF JobFails, Deadline
<1>8. \A v \in Worker : ~Reboot(v)
  BY <1>1, <1>6 DEF Reboot, Machine
<1>9. \A m \in Machine : (\E s : Then(m, s)) \/ Retry(m) => m = w
  BY <1>2 DEF Then, Retry
<1>10. \A m \in Master : ~MasterJob(m)
  BY <1>9 DEF MasterJob, BackupManifest, EditManifest, AddMasterHosts, RestoreManifest,
              IsRunningMaster, Machine
<1>11. \A v \in Worker : NodeJob(v) => v = w
  BY <1>9 DEF NodeJob, ChangeNodeJob, RevertNodeJob, CheckDeployed, ClearEdgeDir, RemoveStatic,
              WriteStatic, UpdateKubeletConfig, WriteStartEnv, RestartKubelet, IsRunningKubelet,
              AddLiteFinishLabel, EmptyStartEnv, ReloadKubelet, DeleteLabel, RemoveManifest, Machine
<1> QED BY <1>3, <1>4, <1>5, <1>7, <1>8, <1>10, <1>11 DEF Next

\* Of the worker's own steps, only two end a change.
LEMMA LastStep ==
    ASSUME IInv, NEW w \in Worker, Finishes(w), NodeJob(w)
    PROVE  \/ CheckDeployed(w) /\ node' = node /\ node[w].label
           \/ AddLiteFinishLabel(w)
<1>1. /\ job[w] \in Job /\ w \in Machine /\ job \in [Machine -> Jobs] /\ job'[w].at = "done"
      /\ job[w].op = "change" /\ Sofar(node[w], job[w]) /\ Active(w)
  BY Finished DEF IInv, Typed, AllFit, Fits, Finishes, Active
<1>2. ASSUME NEW s \in JobStep, Then(w, s) PROVE FALSE
  <2>1. job'[w] = [job[w] EXCEPT !.at = s]
    BY <1>1, <1>2 DEF Then
  <2>2. job'[w].at = s
    BY <1>1, <2>1, JobFields
  <2> QED BY <1>1, <2>2 DEF JobStep
<1>3. ~Retry(w)
  <2>1. ASSUME Retry(w) PROVE FALSE
    <3>1. PICK j \in Job : job' = [job EXCEPT ![w] = j] /\ j.at # "done"
      BY <1>1, <2>1, RetryFits
    <3> QED BY <1>1, <3>1
  <2> QED BY <2>1
<1>4. ~RemoveManifest(w)
  BY <1>1 DEF RemoveManifest, At, Sofar, Reverting
<1>5. CheckDeployed(w) => node' = node /\ node[w].label
  BY <1>2 DEF CheckDeployed, JobStep
<1> QED BY <1>2, <1>3, <1>4, <1>5
        DEF NodeJob, ChangeNodeJob, RevertNodeJob, ClearEdgeDir, RemoveStatic, WriteStatic,
            UpdateKubeletConfig, WriteStartEnv, RestartKubelet, IsRunningKubelet, EmptyStartEnv,
            ReloadKubelet, DeleteLabel, JobStep

LEMMA EndsServed ==
    ASSUME IInv, [Next]_vars, NEW w \in Worker
    PROVE  EndsAtEdge(w)
<1> SUFFICES ASSUME Finishes(w)
             PROVE  /\ node'[w].label /\ node'[w].manifest /\ node'[w].conf
                    /\ IF node'[w].env = "edge" THEN node'[w].kubelet = "edge"
                       ELSE job[w].at = "check"
  BY DEF EndsAtEdge, Finishes
<1>1. (CheckDeployed(w) /\ node' = node /\ node[w].label) \/ AddLiteFinishLabel(w)
  BY OwnStep, LastStep
<1>2. Kept(node[w]) /\ Sofar(node[w], job[w]) /\ node \in [Worker -> Node] /\ node[w] \in Node
  BY Finished DEF IInv, Typed, AllFit, Fits, Finishes, Active
<1>3. CASE CheckDeployed(w) /\ node' = node /\ node[w].label
  BY <1>2, <1>3 DEF Kept, CheckDeployed, At
<1>4. CASE AddLiteFinishLabel(w)
  <2>1. job[w].at = "label" /\ node'[w] = [node[w] EXCEPT !.label = TRUE]
    BY <1>2, <1>4 DEF AddLiteFinishLabel, At
  <2>2. /\ node'[w].label /\ node'[w].manifest = node[w].manifest /\ node'[w].conf = node[w].conf
        /\ node'[w].env = node[w].env /\ node'[w].kubelet = node[w].kubelet
    BY <1>2, <2>1 DEF Node
  <2> QED BY <1>2, <2>1, <2>2 DEF Sofar, Written, Configured
<1> QED BY <1>1, <1>3, <1>4

\* A change of a worker that reports success leaves a kubelet that goes through
\* lite-apiserver, but for a node it has found labelled after a revert that was cut
\* short (isDeployLiteAPIServer), for any machines, commands and failures.
THEOREM ChangeServes == Spec => ChangedIsServed
<1>1. IInv /\ [Next]_vars => \A w \in Worker : EndsAtEdge(w)
  BY EndsServed
<1>2. IInv /\ [Next]_vars => [\A w \in Worker : EndsAtEdge(w)]_vars
  BY <1>1
<1> QED BY <1>2, InitFits, NextFits, PTL DEF Spec, ChangedIsServed

-----------------------------------------------------------------------------
(* The types of everything.                                                *)

RestOK ==
    /\ objs \subseteq Object /\ last \in [op : Op, ok : BOOLEAN] \cup {None}
    /\ master \in [Master -> Manifests]
    /\ runs \in 0 .. MaxRuns /\ faults \in 0 .. MaxFaults

LEMMA FaultsOK ==
    ASSUME RestOK PROVE Fault \/ UNCHANGED faults => faults' \in 0 .. MaxFaults
  BY DEF RestOK, Fault

LEMMA EndsOK ==
    ASSUME RestOK, CmdOK, cmd # None, NEW ok \in BOOLEAN
    PROVE  Ends(ok) => last' \in [op : Op, ok : BOOLEAN] \cup {None}
  BY DEF RestOK, CmdOK, Ends

LEMMA CommandTypes ==
    ASSUME RestOK, CmdOK, Command PROVE RestOK'
<1>1. PICK x \in cmd.todo : EditObjects(x) \/ ClearJob(x) \/ DeployHelperJob(x)
  BY DEF Command
<1>2. objs' \subseteq Object
  <2>1. CASE CreateResource(x) \/ UpdateKubeProxyAndEndpoint(x)
    <3>1. x \in Object /\ objs' = objs \cup {x}
      BY <2>1 DEF CreateResource, UpdateKubeProxyAndEndpoint, CreateOrUpdate, Object
    <3> QED BY <3>1 DEF RestOK
  <2>2. ASSUME NEW y, Delete(y) PROVE objs' \subseteq Object
    BY <2>2 DEF Delete, RestOK
  <2>3. CASE DropCert(x) \/ DeleteResource(x) \/ RevertKubeProxyAndEndpoint(x)
    BY <2>2, <2>3 DEF DropCert, DeleteResource, RevertKubeProxyAndEndpoint
  <2>4. CASE ClearJob(x) \/ DeployHelperJob(x)
    BY <2>4 DEF ClearJob, DeployHelperJob, RestOK
  <2> QED BY <1>1, <2>1, <2>3, <2>4 DEF EditObjects
<1>3. Goes(x) \/ Ends(FALSE)
  BY <1>1 DEF EditObjects, CreateResource, UpdateKubeProxyAndEndpoint, DropCert,
              DeleteResource, RevertKubeProxyAndEndpoint, ClearJob, DeployHelperJob
<1>4. Ends(FALSE) \/ Ends(TRUE) \/ last' = last
  BY <1>3 DEF Goes
<1>5. last' \in [op : Op, ok : BOOLEAN] \cup {None}
  BY <1>4, EndsOK DEF Command, RestOK
<1> QED BY <1>2, <1>5 DEF Command, RestOK

LEMMA MasterTypes ==
    ASSUME RestOK, NEW m \in Master, MasterJob(m) PROVE RestOK'
<1>1. master[m] \in Manifests /\ UNCHANGED cluster
  BY DEF RestOK, MasterJob
<1>2. \A r \in Manifests : /\ \A b \in {"native", "edge"} : [r EXCEPT !.backup = b] \in Manifests
                           /\ [r EXCEPT !.src = "edge", !.missed = FALSE] \in Manifests
                           /\ [r EXCEPT !.missed = TRUE] \in Manifests
                           /\ r.src \in {"native", "edge"}
                           /\ r.backup # "none" => [r EXCEPT !.src = r.backup, !.backup = "none"] \in Manifests
  BY DEF Manifests
<1>3. \/ UNCHANGED master
      \/ \E r \in Manifests : master' = [master EXCEPT ![m] = r]
  <2>1. CASE BackupManifest(m)
    BY <1>1, <1>2, <2>1 DEF BackupManifest
  <2>2. CASE EditManifest(m)
    BY <1>1, <1>2, <2>2 DEF EditManifest
  <2>3. CASE RestoreManifest(m)
    BY <1>1, <1>2, <2>3 DEF RestoreManifest
  <2>4. CASE AddMasterHosts(m) \/ IsRunningMaster(m)
    BY <2>4 DEF AddMasterHosts, IsRunningMaster
  <2> QED BY <2>1, <2>2, <2>3, <2>4 DEF MasterJob
<1>4. faults' \in 0 .. MaxFaults
  BY FaultsOK DEF MasterJob, BackupManifest, EditManifest, RestoreManifest, AddMasterHosts, IsRunningMaster
<1> QED BY <1>1, <1>3, <1>4 DEF RestOK, cluster

LEMMA RestStays == ASSUME RestOK, CmdOK, [Next]_vars PROVE RestOK'
<1>1. CASE Command
  BY <1>1, CommandTypes
<1>2. CASE Interrupt
  <2>1. last' \in [op : Op, ok : BOOLEAN] \cup {None} /\ faults' \in 0 .. MaxFaults
    BY <1>2, EndsOK, FaultsOK DEF Interrupt
  <2> QED BY <1>2, <2>1 DEF Interrupt, RestOK
<1>3. ASSUME NEW op \in Op, RunCommand(op) PROVE RestOK'
  BY <1>3 DEF RunCommand, RestOK
<1>4. ASSUME NEW w \in Worker, NodeJob(w) \/ Sync(w) PROVE RestOK'
  BY <1>4 DEF NodeJob, Sync, RestOK, cluster
<1>5. ASSUME NEW w \in Worker, Reboot(w) PROVE RestOK'
  BY <1>5, FaultsOK DEF Reboot, RestOK, cluster
<1>6. ASSUME NEW m \in Master, MasterJob(m) PROVE RestOK'
  BY <1>6, MasterTypes
<1>7. ASSUME NEW m \in Machine, JobFails(m) \/ Deadline(m) PROVE RestOK'
  BY <1>7, FaultsOK DEF JobFails, Deadline, RestOK, cluster
<1>8. CASE UNCHANGED vars
  BY <1>8 DEF vars, cluster, RestOK
<1> QED BY <1>1, <1>2, <1>3, <1>4, <1>5, <1>6, <1>7, <1>8 DEF Next

-----------------------------------------------------------------------------
(* Each job keeps to the steps of its own role and action.                  *)

Own(m, j) == j.at \in StepsOf(m, j.op) \cup {"done", "failed"}
OwnSteps == /\ job \in [Machine -> Jobs]
            /\ \A m \in Machine : job[m] # None => Own(m, job[m])

LEMMA OneJob ==
    ASSUME OwnSteps, NEW m \in Machine, NEW j \in Job, Own(m, j), job' = [job EXCEPT ![m] = j]
    PROVE  OwnSteps'
<1>1. job' \in [Machine -> Jobs]
  BY DEF OwnSteps, Jobs
<1>2. \A n \in Machine : job'[n] = IF n = m THEN j ELSE job[n]
  BY DEF OwnSteps
<1> QED BY <1>1, <1>2 DEF OwnSteps, Own

LEMMA FreshOwn ==
    ASSUME NEW m \in Machine, NEW op \in Op, NEW t \in 0 .. MaxTries
    PROVE  Own(m, Fresh(m, op, t))
  BY DEF Own, Fresh, FirstStep, StepsOf, Op

\* From one step of a role and an action to another of the same, or to the end.
LEMMA StepOwn ==
    ASSUME OwnSteps, NEW m \in Machine, NEW a, NEW b, At(m, a), a \in JobStep, Then(m, b),
           b \in JobStep \cup {"done", "failed"},
           \A op \in Op : a \in StepsOf(m, op) => b \in StepsOf(m, op) \cup {"done", "failed"}
    PROVE  OwnSteps'
<1>1. job[m] \in Job /\ Own(m, job[m]) /\ job[m].at = a /\ job[m].op \in Op
  BY DEF OwnSteps, Jobs, At, Job
<1>2. a \notin {"done", "failed"}
  BY DEF JobStep
<1>3. b \in StepsOf(m, job[m].op) \cup {"done", "failed"}
  BY <1>1, <1>2 DEF Own
<1> DEFINE j == [job[m] EXCEPT !.at = b]
<1>4. j \in Job /\ j.at = b /\ j.op = job[m].op
  BY <1>1, JobFields
<1>5. job' = [job EXCEPT ![m] = j]
  BY DEF Then
<1> HIDE DEF j
<1> QED BY <1>3, <1>4, <1>5, OneJob DEF Own

LEMMA RetryOwn ==
    ASSUME OwnSteps, NEW m \in Machine, job[m] # None, Retry(m)
    PROVE  OwnSteps'
<1>1. job[m] \in Job /\ job[m].op \in Op /\ job[m].tries \in 0 .. MaxTries
  BY DEF OwnSteps, Jobs, Job
<1>2. CASE job[m].tries = MaxTries
  <2>1. job' = [job EXCEPT ![m] = [job[m] EXCEPT !.at = "failed"]]
    BY <1>2 DEF Retry
  <2> QED BY <1>1, <2>1, JobFields, OneJob DEF Own
<1>3. CASE job[m].tries # MaxTries
  <2>1. job' = [job EXCEPT ![m] = Fresh(m, job[m].op, job[m].tries + 1)] /\ job[m].tries + 1 \in 0 .. MaxTries
    BY <1>1, <1>3 DEF Retry
  <2> QED BY <1>1, <2>1, FreshOwn, FreshMaster, OneJob
<1> QED BY <1>2, <1>3

LEMMA NodeJobOwn ==
    ASSUME OwnSteps, NEW w \in Worker, NodeJob(w) PROVE OwnSteps'
<1> w \in Machine
  BY DEF Machine
<1>1. CASE ClearEdgeDir(w) /\ Retry(w)
  BY <1>1, RetryOwn DEF ClearEdgeDir, At
<1>2. ASSUME NEW a \in NodeChange, NEW b \in NodeChange \cup {"done"}, At(w, a), Then(w, b) PROVE OwnSteps'
  BY <1>2, StepOwn DEF StepsOf, JobStep
<1>3. ASSUME NEW a \in NodeRevert, NEW b \in NodeRevert \cup {"done"}, At(w, a), Then(w, b) PROVE OwnSteps'
  BY <1>3, StepOwn DEF StepsOf, JobStep
<1>4. CASE RevertNodeJob(w)
  <2> HIDE DEF NodeChange
  <2> QED BY <1>3, <1>4 DEF RevertNodeJob, EmptyStartEnv, ReloadKubelet, DeleteLabel, RemoveManifest
<1>5. CASE ChangeNodeJob(w) /\ ~(ClearEdgeDir(w) /\ Retry(w))
  <2> HIDE DEF NodeRevert
  <2> QED BY <1>2, <1>5
          DEF ChangeNodeJob, CheckDeployed, ClearEdgeDir, RemoveStatic, WriteStatic, UpdateKubeletConfig,
              WriteStartEnv, RestartKubelet, IsRunningKubelet, AddLiteFinishLabel
<1> QED BY <1>1, <1>4, <1>5 DEF NodeJob, ChangeNodeJob

LEMMA MasterJobOwn ==
    ASSUME OwnSteps, NEW m \in Master, MasterJob(m) PROVE OwnSteps'
<1> m \in Machine /\ m \notin Worker
  BY DEF Machine
<1>1. CASE RestoreManifest(m) /\ Retry(m)
  BY <1>1, RetryOwn DEF RestoreManifest, At
<1>2. ASSUME NEW a \in MasterChange, NEW b \in MasterChange \cup {"done"}, At(m, a), Then(m, b) PROVE OwnSteps'
  BY <1>2, StepOwn DEF StepsOf, JobStep
<1>3. ASSUME NEW a \in MasterRevert, NEW b \in MasterRevert \cup {"done"}, At(m, a), Then(m, b) PROVE OwnSteps'
  BY <1>3, StepOwn DEF StepsOf, JobStep
<1> QED BY <1>1, <1>2, <1>3
        DEF MasterJob, BackupManifest, EditManifest, AddMasterHosts, RestoreManifest, IsRunningMaster

LEMMA OwnStays == ASSUME OwnSteps, CmdOK, [Next]_vars PROVE OwnSteps'
<1>1. CASE UNCHANGED job
  BY <1>1 DEF OwnSteps, Own
<1>2. CASE Command
  <2>1. PICK x \in cmd.todo : EditObjects(x) \/ ClearJob(x) \/ DeployHelperJob(x)
    BY <1>2 DEF Command
  <2>2. CASE EditObjects(x)
    BY <1>1, <2>2 DEF EditObjects, CreateResource, UpdateKubeProxyAndEndpoint, DropCert,
                DeleteResource, RevertKubeProxyAndEndpoint
  <2>3. CASE ClearJob(x)
    BY <2>3 DEF ClearJob, OwnSteps, Jobs
  <2>4. CASE DeployHelperJob(x)
    <3>1. x \in Machine /\ job' = [job EXCEPT ![x] = Fresh(x, cmd.op, 0)] /\ cmd.op \in Op
      BY <1>2, <2>4 DEF DeployHelperJob, Command, CmdOK
    <3>2. 0 \in 0 .. MaxTries
      OBVIOUS
    <3>3. Fresh(x, cmd.op, 0) \in Job /\ Own(x, Fresh(x, cmd.op, 0))
      BY <3>1, <3>2, FreshOwn, FreshMaster
    <3> QED BY <3>1, <3>3, OneJob
  <2> QED BY <2>1, <2>2, <2>3, <2>4
<1>3. CASE Interrupt \/ (\E op \in Op : RunCommand(op)) \/ (\E w \in Worker : Sync(w)) \/ UNCHANGED vars
  BY <1>1, <1>3 DEF Interrupt, RunCommand, Sync, vars
<1>4. ASSUME NEW w \in Worker, NodeJob(w) PROVE OwnSteps'
  BY <1>4, NodeJobOwn
<1>5. ASSUME NEW m \in Machine, Active(m), Retry(m) \/ Then(m, "failed") PROVE OwnSteps'
  <2>1. CASE Retry(m)
    BY <1>5, <2>1, RetryOwn DEF Active
  <2>2. CASE Then(m, "failed")
    BY <1>5, <2>2, StepOwn DEF Active, At
  <2> QED BY <1>5, <2>1, <2>2
<1>6. ASSUME NEW w \in Worker, Reboot(w) PROVE OwnSteps'
  BY <1>1, <1>5, <1>6 DEF Reboot, Machine
<1>7. ASSUME NEW m \in Machine, JobFails(m) \/ Deadline(m) PROVE OwnSteps'
  BY <1>5, <1>7 DEF JobFails, Deadline
<1>8. ASSUME NEW m \in Master, MasterJob(m) PROVE OwnSteps'
  BY <1>8, MasterJobOwn
<1> QED BY <1>2, <1>3, <1>4, <1>6, <1>7, <1>8 DEF Next

\* Every variable keeps its type, and a job is always at a step of its own machine's
\* role and of its own action, or has ended (deploy.go:29), through clearing, retries,
\* reboots and commands that meet the jobs of earlier ones.
THEOREM TypeCorrect == Spec => []TypeOK
<1>1. Init => RestOK /\ OwnSteps
  BY DEF Init, RestOK, Manifests, OwnSteps, Jobs
<1>2. IInv => CmdOK
  BY DEF IInv
<1>3. IInv /\ RestOK /\ OwnSteps => TypeOK
  BY DEF IInv, CmdOK, Typed, Jobs, RestOK, OwnSteps, Own, TypeOK
<1> QED BY <1>1, <1>2, <1>3, InitFits, NextFits, RestStays, OwnStays, PTL DEF Spec
=============================================================================
