----------------------------- MODULE HealthVote -----------------------------
(***************************************************************************)
(* The distributed vote of edge-health (pkg/edge-health).  Every edge node *)
(* runs a daemon that probes the nodes of its group, sends its results to  *)
(* them, and periodically counts the results it holds: a majority of "no"  *)
(* puts the annotation nodeunhealth on the checked node, a majority of     *)
(* "yes" takes it off (or takes off the unreachable:NoExecute taint).      *)
(*                                                                         *)
(* The module follows the votes about ONE checked node, Suspect: the code  *)
(* counts each checked ip apart (voteCountMap[ip]).  A node and its        *)
(* InternalIP are one value.  The periodic tasks are atomic, except Vote,  *)
(* which copies the results, reads the size of CheckInfo and reads the     *)
(* node lister in separate critical sections.  The races inside one check  *)
(* round are the subject of module HealthCheck.                            *)
(***************************************************************************)
EXTENDS Integers, FiniteSets

CONSTANTS
    Node,         \* the edge nodes, each a checker of the others
    Running,      \* the nodes on which edge-health runs at all
    Daemon,       \* the nodes whose received results and votes are followed
    Suspect,      \* the checked node the votes are about
    Scopes,       \* the node selections (per node) the environment may impose
    Reaches,      \* the sets of nodes that may be all those that reach Suspect
    VoteTimeOut,  \* ticks for which a received result stays valid
    MsgDelay,     \* ticks a PUT /result may be under way
    RetryTime,    \* CommunicateRetryTime: attempts per destination
    VoteTime,     \* ticks one run of Vote (its API calls) may take
    MaxFaults,    \* bound on the environment's changes
    Prompt        \* the nodes that run each task exactly once in each tick

ASSUME NodeAssumption ==
    /\ IsFiniteSet(Node)
    /\ Running \subseteq Node
    /\ Daemon \subseteq Running
    /\ Suspect \in Node
    /\ Scopes \subseteq [Node -> SUBSET Node]
    /\ Scopes # {}
    /\ Reaches \subseteq SUBSET Node
    /\ Prompt \subseteq Running
ASSUME TimeAssumption ==
    /\ VoteTimeOut \in Nat
    /\ MsgDelay \in Nat
    /\ RetryTime \in Nat \ {0}
    /\ VoteTime \in Nat
    /\ MaxFaults \in Nat

VARIABLES
    scope,      \* what check.GetNodeList selects on each node
    reach,      \* the nodes whose link to Suspect works
    checkInfo,  \* keys of data.CheckInfoResult on each node
    row,        \* keys of data.Result[LocalIp] on each node
    own,        \* data.Result[LocalIp][Suspect].Normal, when Suspect \in row
    heard,      \* data.Result[c], c # LocalIp: what it says of Suspect, its age
    net,        \* the PUT /result requests under way
    pc,         \* where the Vote goroutine is
    tally,      \* the locals of Vote
    node,       \* the Node object of Suspect in the apiserver
    cache,      \* its copy in the NodeLister of each daemon
    named,      \* whether data.NodeList holds Suspect (GetNodeNameByIp)
    done,       \* the tasks each daemon ran in this tick
    faults,     \* environment changes so far
    lastSaid    \* history: ticks since a node's own row said yes / no

checkVars == <<checkInfo, row, own>>
voteVars  == <<pc, tally>>
apiVars   == <<node, cache>>
envVars   == <<scope, reach, faults>>
vars == <<scope, reach, checkInfo, row, own, heard, net, pc, tally, node,
          cache, named, done, faults, lastSaid>>

-----------------------------------------------------------------------------
Verdict  == {"yes", "no"}
Task     == {"nodelist", "check", "send", "vote"}
Expired  == VoteTimeOut + 1                  \* ages saturate here
Horizon  == MsgDelay + VoteTimeOut           \* how old the evidence may be
Memory   == Horizon + VoteTime               \* ... when the vote ends
Entry    == [vote : Verdict \cup {"abstain", "none"}, age : 0..Expired]
Said     == [Verdict -> 0..(Memory + 1)]
Absent   == [vote |-> "none", age |-> 0]
Object   == [annot : BOOLEAN, taint : BOOLEAN]
Copy     == [annot : BOOLEAN, taint : BOOLEAN, current : BOOLEAN, synced : BOOLEAN]
NoCopy   == [annot |-> FALSE, taint |-> FALSE, current |-> FALSE, synced |-> FALSE]
NoTally  == [yes |-> {}, no |-> {}, voters |-> {}, size |-> 0, late |-> 0]
Ballot   == [yes : SUBSET Node, no : SUBSET Node, voters : SUBSET Node,
             size : Nat, late : 0..VoteTime]
Message  == [src : Node, dst : Node, vote : Verdict \cup {"abstain"},
             age : 0..MsgDelay, tries : 1..RetryTime]

Older(age, top) == IF age < top THEN age + 1 ELSE top

(* What the local row of c says of Suspect; "none" is an empty row.        *)
Report(c) ==
    IF row[c] = {} THEN "none"
    ELSE IF Suspect \notin row[c] THEN "abstain"
    ELSE IF own[c] THEN "yes" ELSE "no"

(* Mutants: half is enough; everybody is needed.                           *)
HalfIsEnough(votes, size) == 2 * votes >= size
Unanimity(votes, size) == votes >= size

(* The test of vote.go: float64(votes) >= (float64(len(CheckInfo)) + 1)/2. *)
Majority(votes, size) == 2 * votes >= size + 1

(* Mutant: the vote timeout is not looked at.                              *)
CountsForever(d, c) ==
    IF c = d THEN row[d] # {} ELSE heard[d][c].vote # "none"

(* A result counts if it is the daemon's own or was received no more than  *)
(* VoteTimeOut ago.                                                        *)
Counts(d, c) ==
    IF c = d THEN row[d] # {}
    ELSE heard[d][c].vote # "none" /\ heard[d][c].age <= VoteTimeOut

Says(d, c, v) == IF c = d THEN Report(d) = v ELSE heard[d][c].vote = v
Voters(d)     == {c \in Node : Counts(d, c)}
Voted(d, v)   == {c \in Voters(d) : Says(d, c, v)}

(* The tasks a tick waits for; a node outside Daemon has no vote to run.    *)
Tasks(d) == IF d \notin Prompt THEN {}
            ELSE IF d \in Daemon THEN Task ELSE Task \ {"vote"}

Linked(c, d) == /\ c = Suspect => d \in reach
                /\ d = Suspect => c \in reach

Did(d, task) ==
    /\ task \notin done[d]
    /\ done' = [done EXCEPT ![d] = (@ \cup {task}) \cap Tasks(d)]

-----------------------------------------------------------------------------
(* check.GetNodeList: replaces the scope of the checks, allocates CheckInfo *)
(* for it and drops the results of the checkers that are not in it.  With  *)
(* a lister that does not have the host yet, it returns at once.           *)
GetNodeList(d) ==
    /\ Did(d, "nodelist")
    /\ IF d \in Daemon /\ ~cache[d].synced
         THEN UNCHANGED <<checkVars, heard, named>>
         ELSE LET checkers == {c \in Node : heard[d][c].vote # "none"}
                              \cup {c \in {d} : row[d] # {}}
                  gone == checkers \ scope[d]
              IN /\ checkInfo' = [checkInfo EXCEPT ![d] = scope[d]]
                 /\ row' = [row EXCEPT ![d] = IF d \in gone THEN {} ELSE @ \ gone]
                 /\ heard' = [heard EXCEPT ![d] =
                        [c \in Node |-> IF c \in gone THEN Absent ELSE @[c]]]
                 /\ named' = [e \in Daemon |-> IF e = d THEN Suspect \in scope[d]
                                               ELSE named[e]]
                 /\ UNCHANGED own
    /\ UNCHANGED <<net, voteVars, apiVars, envVars, lastSaid>>

(* Mutant: a "no" is never taken back by a later probe.                    *)
CheckKeepsNo(d) ==
    /\ Did(d, "check")
    /\ row' = [row EXCEPT ![d] = @ \cup checkInfo[d]]
    /\ own' = [own EXCEPT ![d] = IF Suspect \in row[d] THEN @ /\ d \in reach
                                                     ELSE d \in reach]
    /\ lastSaid' = [lastSaid EXCEPT ![d] =
           [v \in Verdict |-> IF Suspect \in row'[d] /\ own'[d] = (v = "yes") THEN 0 ELSE @[v]]]
    /\ UNCHANGED <<checkInfo, heard, net, voteVars, apiVars, named, envVars>>

(* check.Check: probes every ip of CheckInfo and writes the local row.     *)
Check(d) ==
    /\ Did(d, "check")
    /\ row' = [row EXCEPT ![d] = @ \cup checkInfo[d]]
    /\ IF Suspect \in checkInfo[d]
         THEN LET said == IF d \in reach THEN "yes" ELSE "no"
              IN /\ own' = [own EXCEPT ![d] = d \in reach]
                 /\ lastSaid' = [lastSaid EXCEPT ![d][said] = 0]
         ELSE UNCHANGED <<own, lastSaid>>
    /\ UNCHANGED <<checkInfo, heard, net, voteVars, apiVars, named, envVars>>

(* communicate.Client: one copy of the local row goes to every ip in it;    *)
(* the next round starts when the requests of this one are over (wg.Wait). *)
Client(c) ==
    LET targets == {d \in Daemon \cap row[c] : d # c /\ Linked(c, d)}
    IN /\ \A m \in net : m.src # c
       /\ Did(c, "send")
       /\ net' = net \cup [src : {c}, dst : targets, vote : {Report(c)} \ {"none"},
                           age : {0}, tries : {RetryTime}]
       /\ UNCHANGED <<checkVars, heard, voteVars, apiVars, named, envVars, lastSaid>>

(* The request leaves the network, or its answer is lost and the client    *)
(* sends the same body again.                                              *)
Settle(m) ==
    \/ net' = net \ {m}
    \/ /\ m.tries > 1
       /\ net' = (net \ {m}) \cup {[m EXCEPT !.tries = @ - 1]}

(* Mutant: a repeated source gets a new time, but keeps its old results.    *)
ReceiveRestamps(m) ==
    /\ heard' = [heard EXCEPT ![m.dst][m.src] =
           [vote |-> IF @.vote = "none" THEN m.vote ELSE @.vote, age |-> 0]]
    /\ Settle(m)
    /\ UNCHANGED <<checkVars, voteVars, apiVars, named, done, envVars, lastSaid>>

(* communicate.Server, ResultData.SetResult: the row of the source is      *)
(* replaced and stamped with the local time of receipt.                    *)
Receive(m) ==
    /\ heard' = [heard EXCEPT ![m.dst][m.src] = [vote |-> m.vote, age |-> 0]]
    /\ Settle(m)
    /\ UNCHANGED <<checkVars, voteVars, apiVars, named, done, envVars, lastSaid>>

(* A request that fails, times out or whose Hmac does not match.           *)
Lose(m) ==
    /\ faults < MaxFaults
    /\ faults' = faults + 1
    /\ Settle(m)
    /\ UNCHANGED <<scope, reach, checkVars, heard, voteVars, apiVars, named,
                   done, lastSaid>>

-----------------------------------------------------------------------------
(* Vote, first part: Result.CopyResultDataAll and the count over the copy. *)
VoteCount(d) ==
    /\ pc[d] = "idle"
    /\ "vote" \notin done[d]
    /\ tally' = [tally EXCEPT ![d] =
           [yes |-> Voted(d, "yes"), no |-> Voted(d, "no"), voters |-> Voters(d),
            size |-> 0, late |-> 0]]
    /\ pc' = [pc EXCEPT ![d] = "counted"]
    /\ UNCHANGED <<checkVars, heard, net, apiVars, named, done, envVars, lastSaid>>

(* Second part: the threshold comes from CheckInfo as it is now; a daemon  *)
(* that knows of one voter only does not vote.                             *)
VoteSize(d) ==
    /\ pc[d] = "counted"
    /\ IF Cardinality(tally[d].voters) = 1
         THEN /\ pc' = [pc EXCEPT ![d] = "idle"]
              /\ tally' = [tally EXCEPT ![d] = NoTally]
              /\ Did(d, "vote")
         ELSE /\ pc' = [pc EXCEPT ![d] = "yes"]
              /\ tally' = [tally EXCEPT ![d].size = Cardinality(checkInfo[d])]
              /\ UNCHANGED done
    /\ UNCHANGED <<checkVars, heard, net, apiVars, named, envVars, lastSaid>>

(* Whether Vote acts on the verdict v: some vote, a majority, a name for   *)
(* the ip and a node of that name in the lister.                           *)
Approves(d, v) ==
    /\ tally[d][v] # {}
    /\ Majority(Cardinality(tally[d][v]), tally[d].size)
    /\ named[d]
    /\ cache[d].synced

(* Nodes().Update of the cached copy with one change: the apiserver takes  *)
(* it only if the copy is of the current version; the error is logged.     *)
Update(d, new) ==
    IF cache[d].current
      THEN /\ node' = new
           /\ cache' = [e \in Daemon |-> [cache[e] EXCEPT !.current = FALSE]]
      ELSE UNCHANGED apiVars

(* Third part, majority yes: take off the annotation, else the taint.      *)
VoteYes(d) ==
    /\ pc[d] = "yes"
    /\ IF Approves(d, "yes") /\ cache[d].annot
         THEN Update(d, [node EXCEPT !.annot = FALSE])
       ELSE IF Approves(d, "yes") /\ cache[d].taint
         THEN Update(d, [node EXCEPT !.taint = FALSE])
       ELSE UNCHANGED apiVars
    /\ pc' = [pc EXCEPT ![d] = "no"]
    /\ UNCHANGED <<tally, checkVars, heard, net, named, done, envVars, lastSaid>>

(* Last part, majority no: put the annotation on.                          *)
VoteNo(d) ==
    /\ pc[d] = "no"
    /\ IF Approves(d, "no") /\ ~cache[d].annot
         THEN Update(d, [node EXCEPT !.annot = TRUE])
         ELSE UNCHANGED apiVars
    /\ pc' = [pc EXCEPT ![d] = "idle"]
    /\ tally' = [tally EXCEPT ![d] = NoTally]
    /\ Did(d, "vote")
    /\ UNCHANGED <<checkVars, heard, net, named, envVars, lastSaid>>

-----------------------------------------------------------------------------
(* The node informer: the lister gets the current object, and the event    *)
(* handler puts the node into data.NodeList.                               *)
HandleNodeAddUpdate(d) ==
    /\ ~cache[d].current
    /\ cache' = [cache EXCEPT ![d] = [annot |-> node.annot, taint |-> node.taint,
                                      current |-> TRUE, synced |-> TRUE]]
    /\ named' = [named EXCEPT ![d] = TRUE]
    /\ UNCHANGED <<node, checkVars, heard, net, voteVars, done, envVars, lastSaid>>

(* The cloud's node controller adds or takes off the NoExecute taint.      *)
ControllerTaint ==
    /\ faults < MaxFaults
    /\ faults' = faults + 1
    /\ node' = [node EXCEPT !.taint = ~@]
    /\ cache' = [d \in Daemon |-> [cache[d] EXCEPT !.current = FALSE]]
    /\ UNCHANGED <<scope, reach, checkVars, heard, net, voteVars, named, done,
                   lastSaid>>

(* A daemon is restarted: initData and the informers start from nothing.   *)
Restart(d) ==
    /\ faults < MaxFaults
    /\ faults' = faults + 1
    /\ checkInfo' = [checkInfo EXCEPT ![d] = {}]
    /\ row' = [row EXCEPT ![d] = {}]
    /\ heard' = [heard EXCEPT ![d] = [c \in Node |-> Absent]]
    /\ pc' = [pc EXCEPT ![d] = "idle"]
    /\ tally' = [tally EXCEPT ![d] = NoTally]
    /\ cache' = [cache EXCEPT ![d] = NoCopy]
    /\ named' = [named EXCEPT ![d] = FALSE]
    /\ done' = [done EXCEPT ![d] = {}]
    /\ own' = [own EXCEPT ![d] = FALSE]
    /\ UNCHANGED <<scope, reach, net, node, lastSaid>>

(* Links to Suspect fail or come back; nodes, zones or the zone config map *)
(* change what GetNodeList selects.                                        *)
Environment ==
    /\ faults < MaxFaults
    /\ faults' = faults + 1
    /\ \/ reach' \in Reaches /\ UNCHANGED scope
       \/ scope' \in Scopes /\ UNCHANGED reach
    /\ UNCHANGED <<checkVars, heard, net, voteVars, apiVars, named, done, lastSaid>>

Tick ==
    /\ \A m \in net : m.age < MsgDelay
    /\ \A d \in Daemon : pc[d] # "idle" => tally[d].late < VoteTime
    /\ \A d \in Node : done[d] = Tasks(d)
    /\ heard' = [d \in Node |-> [c \in Node |->
           IF heard[d][c].vote = "none" THEN Absent
           ELSE [heard[d][c] EXCEPT !.age = Older(@, Expired)]]]
    /\ net' = {[m EXCEPT !.age = @ + 1] : m \in net}
    /\ tally' = [d \in Daemon |-> IF pc[d] = "idle" THEN tally[d]
                     ELSE [tally[d] EXCEPT !.late = @ + 1]]
    /\ lastSaid' = [c \in Node |-> [v \in Verdict |->
           IF Report(c) = v THEN 0 ELSE Older(lastSaid[c][v], Memory + 1)]]
    /\ done' = [d \in Node |-> {}]
    /\ UNCHANGED <<checkVars, pc, apiVars, named, envVars>>

Init ==
    /\ scope \in Scopes
    /\ reach \in Reaches
    /\ checkInfo = [c \in Node |-> {}]
    /\ row = [c \in Node |-> {}]
    /\ own = [c \in Node |-> FALSE]
    /\ heard = [d \in Node |-> [c \in Node |-> Absent]]
    /\ net = {}
    /\ pc = [d \in Daemon |-> "idle"]
    /\ tally = [d \in Daemon |-> NoTally]
    /\ node = [annot |-> FALSE, taint |-> FALSE]
    /\ cache = [d \in Daemon |-> NoCopy]
    /\ named = [d \in Daemon |-> FALSE]
    /\ done = [d \in Node |-> {}]
    /\ faults = 0
    /\ lastSaid = [c \in Node |-> [v \in Verdict |-> Memory + 1]]

(* wait.Until runs every task again and again, the informer and the http   *)
(* server are always on; nothing is assumed of the environment's actions.  *)
(* With Prompt = Running a tick takes finitely many steps, so that to      *)
(* keep the system going is enough for every task to keep running; the     *)
(* informer's goroutine needs its own fairness.                            *)
System ==
    \/ \E d \in Running : GetNodeList(d) \/ Check(d) \/ Client(d)
    \/ \E d \in Daemon : \/ VoteCount(d) \/ VoteSize(d) \/ VoteYes(d) \/ VoteNo(d)
                         \/ HandleNodeAddUpdate(d)
    \/ \E m \in net : Receive(m)
    \/ Tick

Faulty ==
    \/ \E d \in Daemon : Restart(d)
    \/ \E m \in net : Lose(m)
    \/ ControllerTaint
    \/ Environment

Next == System \/ Faulty

Spec == Init /\ [][Next]_vars

FairSpec ==
    /\ Spec
    /\ WF_vars(System)
    /\ \A d \in Daemon : WF_vars(HandleNodeAddUpdate(d))

-----------------------------------------------------------------------------
(* Type invariant.                                                         *)
TypeOK ==
    /\ scope \in [Node -> SUBSET Node]
    /\ reach \in SUBSET Node
    /\ checkInfo \in [Node -> SUBSET Node]
    /\ row \in [Node -> SUBSET Node]
    /\ own \in [Node -> BOOLEAN]
    /\ heard \in [Node -> [Node -> Entry]]
    /\ net \in SUBSET Message
    /\ pc \in [Daemon -> {"idle", "counted", "yes", "no"}]
    /\ tally \in [Daemon -> Ballot]
    /\ node \in Object
    /\ cache \in [Daemon -> Copy]
    /\ named \in [Daemon -> BOOLEAN]
    /\ done \in [Node -> SUBSET Task]
    /\ faults \in 0..MaxFaults
    /\ lastSaid \in [Node -> Said]

(* Results are stamped by the RECEIVER's clock, after any delay.  Still,    *)
(* whatever a request or a received result says, its source said of Suspect *)
(* no longer ago than its age plus the delay.                              *)
RecentlySaid(c, v, age) == lastSaid[c][v] <= age

OwnIsRecent ==
    \A c \in Node : Report(c) \in Verdict => RecentlySaid(c, Report(c), 0)

SentIsRecent ==
    \A m \in net : m.vote \in Verdict => RecentlySaid(m.src, m.vote, m.age)

HeardIsRecent ==
    \A d, c \in Node :
        heard[d][c].vote \in Verdict /\ heard[d][c].age <= VoteTimeOut =>
            RecentlySaid(c, heard[d][c].vote, MsgDelay + heard[d][c].age)

EvidenceIsRecent == OwnIsRecent /\ SentIsRecent /\ HeardIsRecent

(* The votes Vote counted are as recent when it acts on them: the members   *)
(* of tally.yes (tally.no) said so within the delay, the vote timeout and  *)
(* the time the vote itself took.                                          *)
TallyIsBacked ==
    \A d \in Daemon : pc[d] # "idle" =>
        \A v \in Verdict : \A c \in tally[d][v] :
            RecentlySaid(c, v, Horizon + tally[d].late)

(* As many nodes as the threshold asks said v of Suspect within Memory.    *)
BackedBy(d, v) ==
    2 * Cardinality({c \in Node : RecentlySaid(c, v, Memory)}) > tally[d].size

(* The daemon whose Vote takes this step.                                  *)
Acts(d) == pc'[d] # pc[d]

(* The annotation appears only in a step of a Vote for which a majority by *)
(* its own daemon's CheckInfo said "no" recently, and goes away only in one *)
(* for which a majority said "yes", whatever was lost, late, repeated or   *)
(* restarted in between.                                                   *)
ChangedByRecentMajority ==
    [][ /\ ~node.annot /\ node'.annot => \E d \in Daemon : Acts(d) /\ BackedBy(d, "no")
        /\ node.annot /\ ~node'.annot => \E d \in Daemon : Acts(d) /\ BackedBy(d, "yes")
      ]_node

(* One run of Vote cannot find a majority both ways as long as the voters  *)
(* it counted are among the nodes it checks when it reads the threshold.   *)
OneVerdictPerVote ==
    \A d \in Daemon :
        Cardinality(tally[d].voters) <= tally[d].size =>
            ~ \A v \in Verdict : Majority(Cardinality(tally[d][v]), tally[d].size)

(* A node that nobody reaches any more is in the end marked for good; a    *)
(* node that everybody reaches is in the end cleared for good.             *)
UnreachableGetsMarked == <>[](reach \subseteq {Suspect}) => <>[](node.annot)
ReachableGetsCleared  == <>[](reach = Node) => <>[](~node.annot)
=============================================================================
