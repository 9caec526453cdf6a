-------------------------- MODULE HealthVoteProofs --------------------------
(* Proofs about HealthVote, for every set of nodes, every delay and every  *)
(* timeout.                                                                *)
EXTENDS HealthVote, FiniteSetTheorems, TLAPS

USE NodeAssumption, TimeAssumption

-----------------------------------------------------------------------------
(* Saturating ages stay in range and grow by one at most.                  *)
LEMMA OlderType ==
    ASSUME NEW top \in Nat, NEW age \in 0..top
    PROVE  /\ Older(age, top) \in 0..top
           /\ Older(age, top) <= age + 1
           /\ age < top => Older(age, top) = age + 1
           /\ Older(age, top) <= top - 1 => Older(age, top) = age + 1
  BY DEF Older

LEMMA Times ==
    /\ Expired \in Nat /\ Horizon \in Nat /\ Memory \in Nat
    /\ Expired = VoteTimeOut + 1 /\ Horizon = MsgDelay + VoteTimeOut
    /\ Memory = Horizon + VoteTime
  BY DEF Expired, Horizon, Memory

LEMMA ConstantsTyped ==
    /\ Absent \in Entry
    /\ NoTally \in Ballot
    /\ NoCopy \in Copy
    /\ [v \in Verdict |-> Memory + 1] \in Said
  BY Times DEF Absent, Entry, NoTally, Ballot, NoCopy, Copy, Said

(* How the records change in the actions.                                  *)
LEMMA RecordsTyped ==
    /\ \A k \in Copy : [k EXCEPT !.current = FALSE] \in Copy
    /\ \A o \in Object : \A b \in BOOLEAN :
          /\ [o EXCEPT !.annot = b] \in Object
          /\ [o EXCEPT !.taint = b] \in Object
          /\ [o EXCEPT !.taint = ~@] \in Object
          /\ [annot |-> o.annot, taint |-> o.taint, current |-> TRUE, synced |-> TRUE] \in Copy
    /\ \A s \in Said : \A v \in Verdict : [s EXCEPT ![v] = 0] \in Said
  <1>1. \A k \in Copy : [k EXCEPT !.current = FALSE] \in Copy
      BY DEF Copy
  <1>2. \A o \in Object : \A b \in BOOLEAN :
          /\ [o EXCEPT !.annot = b] \in Object
          /\ [o EXCEPT !.taint = b] \in Object
          /\ [o EXCEPT !.taint = ~@] \in Object
          /\ [annot |-> o.annot, taint |-> o.taint, current |-> TRUE, synced |-> TRUE] \in Copy
      BY DEF Copy, Object
  <1>3. \A s \in Said : \A v \in Verdict : [s EXCEPT ![v] = 0] \in Said
      BY Times DEF Said
  <1> QED BY <1>1, <1>2, <1>3

LEMMA BallotsTyped ==
    ASSUME NEW t \in Ballot
    PROVE  /\ \A n \in Nat : [t EXCEPT !.size = n] \in Ballot
           /\ t.late < VoteTime => [t EXCEPT !.late = @ + 1] \in Ballot
           /\ t.late \in 0..VoteTime /\ t.size \in Nat
           /\ t.voters \subseteq Node /\ t.yes \subseteq Node /\ t.no \subseteq Node
  BY DEF Ballot

(* A set of nodes has a natural number of members.                         *)
LEMMA NodeSubsets ==
    ASSUME NEW S, S \subseteq Node
    PROVE  IsFiniteSet(S) /\ Cardinality(S) \in Nat
  BY FS_Subset, FS_CardinalityType

LEMMA InitType == Init => TypeOK
  <1> SUFFICES ASSUME Init PROVE TypeOK
      OBVIOUS
  <1>1. scope \in [Node -> SUBSET Node] /\ reach \in SUBSET Node
      BY DEF Init
  <1>2. lastSaid \in [Node -> Said]
      BY ConstantsTyped DEF Init
  <1>3. /\ heard \in [Node -> [Node -> Entry]]
        /\ tally \in [Daemon -> Ballot]
        /\ cache \in [Daemon -> Copy]
      BY ConstantsTyped DEF Init
  <1>4. /\ checkInfo \in [Node -> SUBSET Node]
        /\ row \in [Node -> SUBSET Node]
        /\ done \in [Node -> SUBSET Task]
        /\ pc \in [Daemon -> {"idle", "counted", "yes", "no"}]
      BY DEF Init
  <1>5. /\ own \in [Node -> BOOLEAN]
        /\ named \in [Daemon -> BOOLEAN]
      BY DEF Init
  <1>6. net \in SUBSET Message /\ node \in Object /\ faults \in 0..MaxFaults
      BY DEF Init, Object
  <1> QED BY <1>1, <1>2, <1>3, <1>4, <1>5, <1>6 DEF TypeOK

LEMMA DoneType ==
    ASSUME TypeOK, NEW d \in Node, NEW task \in Task, Did(d, task)
    PROVE  done' \in [Node -> SUBSET Task]
  <1>1. Tasks(d) \subseteq Task
      BY DEF Tasks
  <1> QED BY <1>1 DEF TypeOK, Did

LEMMA SettleType ==
    ASSUME TypeOK, NEW m \in net, Settle(m)
    PROVE  net' \in SUBSET Message
  <1>1. m \in Message
      BY DEF TypeOK
  <1>2. m.tries > 1 => [m EXCEPT !.tries = @ - 1] \in Message
      BY <1>1 DEF Message
  <1> DEFINE again == [m EXCEPT !.tries = @ - 1]
  <1>3. net' = net \ {m} \/ (m.tries > 1 /\ net' = (net \ {m}) \cup {again})
      BY DEF Settle
  <1>4. m.tries > 1 => again \in Message
      BY <1>2
  <1>5. net \in SUBSET Message
      BY DEF TypeOK
  <1> HIDE DEF again
  <1> QED BY <1>3, <1>4, <1>5

LEMMA UpdateType ==
    ASSUME TypeOK, NEW d \in Daemon, NEW STATE new, new \in Object,
           Update(d, new)
    PROVE  /\ node' \in Object
           /\ cache' \in [Daemon -> Copy]
  <1>1. CASE cache[d].current
    <2>1. cache' = [e \in Daemon |-> [cache[e] EXCEPT !.current = FALSE]] /\ node' = new
        BY <1>1 DEF Update
    <2> QED BY <2>1, RecordsTyped DEF TypeOK
  <1>2. CASE ~cache[d].current
      BY <1>2 DEF TypeOK, Update, apiVars
  <1> QED BY <1>1, <1>2

(* A vote leaves the node alone or sends one update of it.                 *)
LEMMA VoteWrites ==
    ASSUME TypeOK, NEW d \in Daemon, VoteYes(d) \/ VoteNo(d)
    PROVE  node' \in Object /\ cache' \in [Daemon -> Copy]
  <1> DEFINE cleared   == [node EXCEPT !.annot = FALSE]
             untainted == [node EXCEPT !.taint = FALSE]
             marked    == [node EXCEPT !.annot = TRUE]
  <1>1. cleared \in Object /\ untainted \in Object /\ marked \in Object
      BY RecordsTyped DEF TypeOK
  <1>2. \/ UNCHANGED apiVars
        \/ Update(d, cleared) \/ Update(d, untainted) \/ Update(d, marked)
      BY DEF VoteYes, VoteNo
  <1> HIDE DEF cleared, untainted, marked
  <1>3. CASE UNCHANGED apiVars
      BY <1>3 DEF apiVars, TypeOK
  <1>4. CASE Update(d, cleared)
      BY <1>1, <1>4, UpdateType
  <1>5. CASE Update(d, untainted)
      BY <1>1, <1>5, UpdateType
  <1>6. CASE Update(d, marked)
      BY <1>1, <1>6, UpdateType
  <1> QED BY <1>2, <1>3, <1>4, <1>5, <1>6

(* The type invariant is preserved by every step.                          *)
LEMMA StepType == TypeOK /\ [Next]_vars => TypeOK'
  <1> SUFFICES ASSUME TypeOK, [Next]_vars PROVE TypeOK'
      OBVIOUS
  <1> USE DEF TypeOK
  <1>1. ASSUME NEW d \in Running, GetNodeList(d) PROVE TypeOK'
    <2>0. d \in Node
        OBVIOUS
    <2>1. done' \in [Node -> SUBSET Task]
        BY <1>1, DoneType, <2>0 DEF GetNodeList, Task
    <2>2. CASE d \in Daemon /\ ~cache[d].synced
        BY <1>1, <2>1, <2>2 DEF GetNodeList, checkVars, voteVars, apiVars, envVars
    <2>3. CASE ~(d \in Daemon /\ ~cache[d].synced)
      <3>1. scope[d] \in SUBSET Node
          OBVIOUS
      <3> DEFINE gone == ({c \in Node : heard[d][c].vote # "none"}
                          \cup {c \in {d} : row[d] # {}}) \ scope[d]
                 kept == [c \in Node |-> IF c \in gone THEN Absent ELSE heard[d][c]]
      <3>a. /\ checkInfo' = [checkInfo EXCEPT ![d] = scope[d]]
            /\ row' = [row EXCEPT ![d] = IF d \in gone THEN {} ELSE @ \ gone]
            /\ heard' = [heard EXCEPT ![d] = kept]
            /\ named' = [e \in Daemon |-> IF e = d THEN Suspect \in scope[d] ELSE named[e]]
          BY <1>1, <2>3 DEF GetNodeList
      <3>b. kept \in [Node -> Entry]
          BY ConstantsTyped
      <3> HIDE DEF kept
      <3>2. heard' \in [Node -> [Node -> Entry]]
          BY <3>a, <3>b
      <3>c. row[d] \in SUBSET Node
          OBVIOUS
      <3> HIDE DEF gone
      <3>d. (IF d \in gone THEN {} ELSE row[d] \ gone) \in SUBSET Node
          BY <3>c
      <3>3. checkInfo' \in [Node -> SUBSET Node]
          BY <3>a, <3>1
      <3>4. row' \in [Node -> SUBSET Node]
          BY <3>a, <3>d
      <3>5. named' \in [Daemon -> BOOLEAN]
        <4>1. ASSUME NEW e \in Daemon
              PROVE  (IF e = d THEN Suspect \in scope[d] ELSE named[e]) \in BOOLEAN
          <5>1. named[e] \in BOOLEAN
              OBVIOUS
          <5>2. (Suspect \in scope[d]) \in BOOLEAN
              OBVIOUS
          <5> QED BY <5>1, <5>2, Zenon
        <4> QED BY <3>a, <4>1, Zenon
      <3> QED BY <1>1, <2>3, <2>1, <3>2, <3>3, <3>4, <3>5
                 DEF GetNodeList, checkVars, voteVars, apiVars, envVars
    <2> QED BY <2>2, <2>3
  <1>2. ASSUME NEW d \in Running, Check(d) PROVE TypeOK'
    <2>1. done' \in [Node -> SUBSET Task]
        BY <1>2, DoneType DEF Check, Task
    <2>2. row' \in [Node -> SUBSET Node]
      <3>1. row[d] \cup checkInfo[d] \in SUBSET Node
          OBVIOUS
      <3> QED BY <1>2, <3>1 DEF Check
    <2>3. /\ own' \in [Node -> BOOLEAN]
          /\ lastSaid' \in [Node -> Said]
      <3>1. CASE Suspect \in checkInfo[d]
        <4>1. PICK v \in Verdict : lastSaid' = [lastSaid EXCEPT ![d] = [@ EXCEPT ![v] = 0]]
            BY <1>2, <3>1 DEF Check, Verdict
        <4>2. lastSaid[d] \in Said
            OBVIOUS
        <4>3. [lastSaid[d] EXCEPT ![v] = 0] \in Said
            BY <4>2, RecordsTyped
        <4>4. lastSaid' \in [Node -> Said]
            BY <4>1, <4>3
        <4>5. own' = [own EXCEPT ![d] = d \in reach]
            BY <1>2, <3>1, Zenon DEF Check
        <4>6. own' \in [Node -> BOOLEAN]
          <5>1. CASE d \in reach
            <6>1. own' = [own EXCEPT ![d] = TRUE]
                BY <4>5, <5>1, Zenon
            <6> QED BY <6>1
          <5>2. CASE d \notin reach
            <6>0. (d \in reach) = FALSE
                BY <5>2
            <6>1. own' = [own EXCEPT ![d] = FALSE]
                BY <4>5, <6>0, Zenon
            <6> QED BY <6>1
          <5> QED BY <5>1, <5>2
        <4> QED BY <4>4, <4>6
      <3>2. CASE Suspect \notin checkInfo[d]
          BY <1>2, <3>2 DEF Check
      <3> QED BY <3>1, <3>2
    <2> QED BY <1>2, <2>1, <2>2, <2>3 DEF Check, voteVars, apiVars, envVars
  <1>3. ASSUME NEW c \in Running, Client(c) PROVE TypeOK'
    <2>1. done' \in [Node -> SUBSET Task]
        BY <1>3, DoneType DEF Client, Task
    <2>2. Report(c) \in Verdict \cup {"abstain", "none"}
        BY DEF Report, Verdict
    <2>3. net' \in SUBSET Message
        BY <1>3, <2>2 DEF Client, Message
    <2> QED BY <1>3, <2>1, <2>3 DEF Client, checkVars, voteVars, apiVars, envVars
  <1>4. ASSUME NEW m \in net, Receive(m) PROVE TypeOK'
    <2>1. net' \in SUBSET Message
        BY <1>4, SettleType DEF Receive
    <2>2. m \in Message
        OBVIOUS
    <2>3. [vote |-> m.vote, age |-> 0] \in Entry
        BY <2>2, Times DEF Message, Entry
    <2>4. heard' \in [Node -> [Node -> Entry]]
        BY <1>4, <2>2, <2>3 DEF Receive, Message
    <2> QED BY <1>4, <2>1, <2>4 DEF Receive, checkVars, voteVars, apiVars, envVars
  <1>5. ASSUME NEW m \in net, Lose(m) PROVE TypeOK'
    <2>1. net' \in SUBSET Message
        BY <1>5, SettleType DEF Lose
    <2> QED BY <1>5, <2>1 DEF Lose, checkVars, voteVars, apiVars
  <1>6. ASSUME NEW d \in Daemon, VoteCount(d) PROVE TypeOK'
    <2>1. \A v \in Verdict : Voted(d, v) \subseteq Node
        BY DEF Voted, Voters
    <2> DEFINE counted == [yes |-> Voted(d, "yes"), no |-> Voted(d, "no"),
                           voters |-> Voters(d), size |-> 0, late |-> 0]
    <2>3. counted \in Ballot
        BY <2>1 DEF Ballot, Voters, Verdict
    <2>4. tally' = [tally EXCEPT ![d] = counted]
        BY <1>6 DEF VoteCount
    <2> HIDE DEF counted
    <2>2. tally' \in [Daemon -> Ballot]
        BY <2>3, <2>4
    <2> QED BY <1>6, <2>2 DEF VoteCount, checkVars, apiVars, envVars
  <1>7. ASSUME NEW d \in Daemon, VoteSize(d) PROVE TypeOK'
    <2>1. Cardinality(checkInfo[d]) \in Nat
        BY NodeSubsets
    <2>3. tally[d] \in Ballot
        OBVIOUS
    <2>4. /\ tally' \in [Daemon -> Ballot]
          /\ pc' \in [Daemon -> {"idle", "counted", "yes", "no"}]
      <3>1. CASE Cardinality(tally[d].voters) = 1
        <4>1. /\ tally' = [tally EXCEPT ![d] = NoTally]
              /\ pc' = [pc EXCEPT ![d] = "idle"]
            BY <1>7, <3>1 DEF VoteSize
        <4> QED BY <4>1, ConstantsTyped
      <3>2. CASE Cardinality(tally[d].voters) # 1
        <4>1. /\ tally' = [tally EXCEPT ![d] = [@ EXCEPT !.size = Cardinality(checkInfo[d])]]
              /\ pc' = [pc EXCEPT ![d] = "yes"]
            BY <1>7, <3>2 DEF VoteSize
        <4>2. [tally[d] EXCEPT !.size = Cardinality(checkInfo[d])] \in Ballot
            BY <2>1, <2>3, BallotsTyped
        <4> QED BY <4>1, <4>2
      <3> QED BY <3>1, <3>2
    <2>5. done' \in [Node -> SUBSET Task]
        BY <1>7, DoneType DEF VoteSize, Task
    <2> QED BY <1>7, <2>4, <2>5 DEF VoteSize, checkVars, apiVars, envVars
  <1>8. ASSUME NEW d \in Daemon, VoteYes(d) PROVE TypeOK'
    <2>1. /\ node' \in Object
          /\ cache' \in [Daemon -> Copy]
        BY <1>8, VoteWrites
    <2> QED BY <1>8, <2>1 DEF VoteYes, checkVars, envVars
  <1>9. ASSUME NEW d \in Daemon, VoteNo(d) PROVE TypeOK'
    <2>1. /\ node' \in Object
          /\ cache' \in [Daemon -> Copy]
        BY <1>9, VoteWrites
    <2>2. done' \in [Node -> SUBSET Task]
        BY <1>9, DoneType DEF VoteNo, Task
    <2> QED BY <1>9, <2>1, <2>2, ConstantsTyped DEF VoteNo, checkVars, envVars
  <1>10. ASSUME NEW d \in Daemon, HandleNodeAddUpdate(d) PROVE TypeOK'
      BY <1>10, RecordsTyped DEF HandleNodeAddUpdate, checkVars, voteVars, envVars
  <1>11. ASSUME NEW d \in Daemon, Restart(d) PROVE TypeOK'
      BY <1>11, ConstantsTyped DEF Restart
  <1>12. ASSUME ControllerTaint PROVE TypeOK'
    <2>1. node' \in Object
        BY <1>12, RecordsTyped DEF ControllerTaint
    <2>2. cache' \in [Daemon -> Copy]
        BY <1>12, RecordsTyped DEF ControllerTaint
    <2> QED BY <1>12, <2>1, <2>2 DEF ControllerTaint, checkVars, voteVars
  <1>13. ASSUME Environment PROVE TypeOK'
      BY <1>13 DEF Environment, checkVars, voteVars, apiVars
  <1>14. ASSUME Tick PROVE TypeOK'
    <2>1. heard' \in [Node -> [Node -> Entry]]
      <3>1. ASSUME NEW d \in Node, NEW c \in Node
            PROVE  [heard[d][c] EXCEPT !.age = Older(@, Expired)] \in Entry
        <4>1. heard[d][c] \in Entry
            OBVIOUS
        <4>2. heard[d][c].age \in 0..Expired
            BY <4>1 DEF Entry
        <4>3. Older(heard[d][c].age, Expired) \in 0..Expired
            BY <4>2, OlderType, Times
        <4> QED BY <4>1, <4>3 DEF Entry
      <3> QED BY <1>14, <3>1, ConstantsTyped DEF Tick
    <2>2. net' \in SUBSET Message
      <3>1. ASSUME NEW m \in net PROVE [m EXCEPT !.age = @ + 1] \in Message
        <4>1. m \in Message
            OBVIOUS
        <4>2. m.age \in 0..MsgDelay /\ m.age < MsgDelay
            BY <1>14, <4>1 DEF Tick, Message
        <4>3. m.age + 1 \in 0..MsgDelay
            BY <4>2
        <4> QED BY <4>1, <4>3 DEF Message
      <3> QED BY <1>14, <3>1 DEF Tick
    <2>3. tally' \in [Daemon -> Ballot]
      <3>1. ASSUME NEW d \in Daemon, pc[d] # "idle"
            PROVE  [tally[d] EXCEPT !.late = @ + 1] \in Ballot
        <4>1. tally[d] \in Ballot
            OBVIOUS
        <4>2. tally[d].late < VoteTime
            BY <1>14, <3>1 DEF Tick
        <4> QED BY <4>1, <4>2, BallotsTyped
      <3> QED BY <1>14, <3>1 DEF Tick
    <2>4. lastSaid' \in [Node -> Said]
      <3>1. ASSUME NEW c \in Node, NEW v \in Verdict
            PROVE  Older(lastSaid[c][v], Memory + 1) \in 0..(Memory + 1)
        <4>1. lastSaid[c] \in Said
            OBVIOUS
        <4>2. lastSaid[c][v] \in 0..(Memory + 1)
            BY <4>1 DEF Said
        <4>3. Memory + 1 \in Nat
            BY Times
        <4> QED BY <4>2, <4>3, OlderType
      <3> DEFINE next(c) == [v \in Verdict |-> IF Report(c) = v THEN 0
                                 ELSE Older(lastSaid[c][v], Memory + 1)]
      <3>2. ASSUME NEW c \in Node PROVE next(c) \in Said
          BY <3>1, Times DEF Said
      <3>3. lastSaid' = [c \in Node |-> next(c)]
          BY <1>14 DEF Tick
      <3> HIDE DEF next
      <3> QED BY <3>2, <3>3
    <2> QED BY <1>14, <2>1, <2>2, <2>3, <2>4 DEF Tick, checkVars, apiVars, envVars
  <1>15. CASE UNCHANGED vars
      BY <1>15 DEF vars
  <1> QED BY <1>1, <1>2, <1>3, <1>4, <1>5, <1>6, <1>7, <1>8, <1>9, <1>10, <1>11,
             <1>12, <1>13, <1>14, <1>15 DEF Next, System, Faulty

(* Every variable keeps its type in every behaviour.                       *)
THEOREM TypeCorrect == Spec => []TypeOK
  BY InitType, StepType, PTL DEF Spec

-----------------------------------------------------------------------------
(* The ages.                                                               *)
LEMMA SaidNumbers ==
    ASSUME TypeOK, NEW c \in Node, NEW v \in Verdict
    PROVE  lastSaid[c][v] \in Nat
  <1>1. lastSaid[c] \in Said
      BY DEF TypeOK
  <1> QED BY <1>1, Times DEF Said

LEMMA SaidNext ==
    ASSUME TypeOK, [Next]_vars, NEW c \in Node, NEW v \in Verdict
    PROVE  lastSaid'[c][v] \in Nat
  <1>1. lastSaid'[c] \in Said
      BY StepType DEF TypeOK
  <1> QED BY <1>1, Times DEF Said

(* Only Check touches the history between two ticks, and only to say that  *)
(* something was said now; a tick makes it one older.                      *)
LEMMA SaidChecked ==
    ASSUME TypeOK, NEW d \in Node, Check(d), NEW c \in Node, NEW v \in Verdict
    PROVE  lastSaid'[c][v] <= lastSaid[c][v]
  <1>0. lastSaid[c][v] \in Nat /\ lastSaid[c] \in Said
      BY SaidNumbers DEF TypeOK
  <1>1. CASE Suspect \in checkInfo[d]
    <2>1. PICK w \in Verdict : lastSaid' = [lastSaid EXCEPT ![d] = [@ EXCEPT ![w] = 0]]
        BY <1>1 DEF Check, Verdict
    <2>2. lastSaid'[c] = lastSaid[c] \/ lastSaid'[c] = [lastSaid[c] EXCEPT ![w] = 0]
        BY <2>1 DEF TypeOK
    <2>3. lastSaid'[c][v] = 0 \/ lastSaid'[c][v] = lastSaid[c][v]
        BY <1>0, <2>2 DEF Said
    <2> QED BY <1>0, <2>3
  <1>2. CASE Suspect \notin checkInfo[d]
      BY <1>0, <1>2 DEF Check
  <1> QED BY <1>1, <1>2

LEMMA SaidTicks ==
    ASSUME TypeOK, Tick, NEW c \in Node, NEW v \in Verdict
    PROVE  /\ lastSaid'[c][v] <= lastSaid[c][v] + 1
           /\ Report(c) = v => lastSaid'[c][v] = 0
  <1>1. lastSaid[c][v] \in 0..(Memory + 1)
    <2>1. lastSaid[c] \in Said
        BY DEF TypeOK
    <2> QED BY <2>1 DEF Said
  <1>2. lastSaid'[c][v] = IF Report(c) = v THEN 0 ELSE Older(lastSaid[c][v], Memory + 1)
      BY DEF Tick
  <1>3. Older(lastSaid[c][v], Memory + 1) <= lastSaid[c][v] + 1
    <2>1. Memory + 1 \in Nat
        BY Times
    <2> QED BY <1>1, <2>1, OlderType
  <1> QED BY <1>1, <1>2, <1>3

LEMMA SaidElsewhere ==
    ASSUME [Next]_vars
    PROVE  UNCHANGED lastSaid \/ Tick \/ \E d \in Running : Check(d)
  BY DEF Next, System, Faulty, vars, GetNodeList, Client, Receive, Lose, VoteCount,
         VoteSize, VoteYes, VoteNo, HandleNodeAddUpdate, Restart, ControllerTaint,
         Environment

LEMMA SaidSteps ==
    ASSUME TypeOK, [Next]_vars, ~Tick, NEW c \in Node, NEW v \in Verdict
    PROVE  lastSaid'[c][v] <= lastSaid[c][v]
  <1>1. CASE UNCHANGED lastSaid
      BY <1>1, SaidNumbers
  <1>2. CASE \E d \in Running : Check(d)
      BY <1>2, SaidChecked
  <1> QED BY <1>1, <1>2, SaidElsewhere

-----------------------------------------------------------------------------
(* What the own row says was said now: only the check changes the row's    *)
(* answer, and a tick keeps both the answer and its age.                   *)
LEMMA OwnStep ==
    ASSUME TypeOK, OwnIsRecent, [Next]_vars
    PROVE  OwnIsRecent'
  <1> SUFFICES ASSUME NEW c \in Node, Report(c)' \in Verdict
               PROVE  lastSaid'[c][Report(c)'] <= 0
      BY DEF OwnIsRecent, RecentlySaid
  <1>1. ASSUME NEW d \in Running, GetNodeList(d) PROVE Report(c)' = Report(c) /\ UNCHANGED lastSaid
    <2>1. own' = own /\ lastSaid' = lastSaid
        BY <1>1 DEF GetNodeList, checkVars
    <2>2. row'[c] \subseteq row[c]
      <3>1. CASE row' = row
          BY <3>1
      <3>2. CASE row' # row
        <4>1. PICK gone : row' = [row EXCEPT ![d] = IF d \in gone THEN {} ELSE @ \ gone]
            BY <1>1, <3>2 DEF GetNodeList, checkVars
        <4> QED BY <4>1 DEF TypeOK
      <3> QED BY <3>1, <3>2
    <2> QED BY <2>1, <2>2 DEF Report, Verdict
  <1>2. ASSUME NEW d \in Running, Check(d) PROVE lastSaid'[c][Report(c)'] <= 0
    <2>0. lastSaid[d] \in Said /\ lastSaid[c] \in Said
        BY DEF TypeOK
    <2>1. CASE c = d /\ Suspect \in checkInfo[d]
      <3>1. Suspect \in row'[d]
          BY <1>2, <2>1 DEF Check, TypeOK
      <3>2. CASE d \in reach
        <4>1. own'[d] /\ lastSaid' = [lastSaid EXCEPT ![d]["yes"] = 0]
            BY <1>2, <2>1, <3>2 DEF Check, TypeOK
        <4>2. Report(c)' = "yes"
            BY <2>1, <3>1, <4>1 DEF Report
        <4>3. lastSaid'[d]["yes"] = 0
            BY <2>0, <4>1 DEF TypeOK, Said, Verdict
        <4> QED BY <2>1, <4>2, <4>3
      <3>3. CASE d \notin reach
        <4>1. ~own'[d] /\ lastSaid' = [lastSaid EXCEPT ![d]["no"] = 0]
            BY <1>2, <2>1, <3>3 DEF Check, TypeOK
        <4>2. Report(c)' = "no"
            BY <2>1, <3>1, <4>1 DEF Report
        <4>3. lastSaid'[d]["no"] = 0
            BY <2>0, <4>1 DEF TypeOK, Said, Verdict
        <4> QED BY <2>1, <4>2, <4>3
      <3> QED BY <3>2, <3>3
    <2>2. CASE ~(c = d /\ Suspect \in checkInfo[d])
      <3>1. own'[c] = own[c] /\ lastSaid'[c] = lastSaid[c]
          BY <1>2, <2>2 DEF Check, TypeOK
      <3>2. Suspect \in row'[c] => Suspect \in row[c]
          BY <1>2, <2>2 DEF Check, TypeOK
      <3>3. Report(c)' = Report(c)
          BY <3>1, <3>2 DEF Report, Verdict
      <3> QED BY <3>1, <3>3 DEF OwnIsRecent, RecentlySaid
    <2> QED BY <2>1, <2>2
  <1>3. ASSUME NEW d \in Daemon, Restart(d) PROVE Report(c)' = Report(c) /\ UNCHANGED lastSaid
    <2>1. c # d
        BY <1>3 DEF Restart, Report, Verdict, TypeOK
    <2> QED BY <1>3, <2>1 DEF Restart, Report, TypeOK
  <1>4. ASSUME Tick PROVE lastSaid'[c][Report(c)'] <= 0
    <2>1. Report(c)' = Report(c)
        BY <1>4 DEF Tick, checkVars, Report
    <2> QED BY <1>4, <2>1, SaidTicks
  <1>5. \/ UNCHANGED <<row, own, lastSaid>> \/ Tick
        \/ \E d \in Running : GetNodeList(d) \/ Check(d)
        \/ \E d \in Daemon : Restart(d)
      BY DEF Next, System, Faulty, vars, Client, Receive, Lose, VoteCount, VoteSize,
             VoteYes, VoteNo, HandleNodeAddUpdate, ControllerTaint, Environment, checkVars
  <1>6. CASE UNCHANGED <<row, own, lastSaid>>
      BY <1>6 DEF OwnIsRecent, RecentlySaid, Report
  <1> QED BY <1>1, <1>2, <1>3, <1>4, <1>5, <1>6 DEF OwnIsRecent, RecentlySaid

(* A request says what the own row said when it was sent, and gets no      *)
(* older than the time that passes.                                        *)
LEMMA SentStep ==
    ASSUME TypeOK, OwnIsRecent, SentIsRecent, [Next]_vars
    PROVE  SentIsRecent'
  <1> SUFFICES ASSUME NEW n \in net', n.vote \in Verdict
               PROVE  lastSaid'[n.src][n.vote] <= n.age
      BY DEF SentIsRecent, RecentlySaid
  <1> DEFINE Sent(m) == /\ m.vote \in Verdict => lastSaid[m.src][m.vote] <= m.age
                        /\ m \in Message
  <1>1. \A m \in net : Sent(m)
      BY DEF SentIsRecent, RecentlySaid, TypeOK
  <1>2. CASE Tick
    <2>1. PICK m \in net : n = [m EXCEPT !.age = @ + 1]
        BY <1>2 DEF Tick
    <2>2. m \in Message /\ n.src = m.src /\ n.vote = m.vote /\ n.age = m.age + 1
        BY <1>1, <2>1 DEF Message
    <2>3. m.src \in Node /\ m.age \in Nat
        BY <2>2 DEF Message
    <2>4. lastSaid[m.src][m.vote] <= m.age
        BY <1>1, <2>2
    <2>5. /\ lastSaid'[m.src][m.vote] <= lastSaid[m.src][m.vote] + 1
          /\ lastSaid[m.src][m.vote] \in Nat
        BY <1>2, <2>2, <2>3, SaidTicks, SaidNumbers
    <2>6. lastSaid'[m.src][m.vote] \in Nat
        BY <2>2, <2>3, SaidNext
    <2> QED BY <2>2, <2>3, <2>4, <2>5, <2>6
  <1>3. CASE ~Tick /\ \E m \in net : Sent(m) /\ n.src = m.src /\ n.vote = m.vote /\ n.age = m.age
    <2>1. PICK m \in net : Sent(m) /\ n.src = m.src /\ n.vote = m.vote /\ n.age = m.age
        BY <1>3
    <2>2. m.src \in Node /\ m.age \in Nat /\ lastSaid[m.src][m.vote] <= m.age
        BY <2>1 DEF Message
    <2>3. /\ lastSaid'[m.src][m.vote] <= lastSaid[m.src][m.vote]
          /\ lastSaid[m.src][m.vote] \in Nat
        BY <1>3, <2>1, <2>2, SaidSteps, SaidNumbers
    <2>4. lastSaid'[m.src][m.vote] \in Nat
        BY <2>1, <2>2, SaidNext
    <2> QED BY <2>1, <2>2, <2>3, <2>4
  <1>4. ASSUME NEW c \in Running, Client(c), n \notin net
        PROVE  lastSaid'[n.src][n.vote] <= n.age
    <2>1. n.src = c /\ n.vote = Report(c) /\ n.age = 0
        BY <1>4 DEF Client
    <2> QED BY <1>4, <2>1 DEF Client, OwnIsRecent, RecentlySaid
  <1>5. ASSUME NEW m \in net, Settle(m), n \notin net
        PROVE  \E k \in net : Sent(k) /\ n.src = k.src /\ n.vote = k.vote /\ n.age = k.age
    <2>1. n = [m EXCEPT !.tries = @ - 1]
        BY <1>5 DEF Settle
    <2>2. n.src = m.src /\ n.vote = m.vote /\ n.age = m.age
        BY <1>1, <2>1 DEF Message
    <2> QED BY <1>1, <2>2
  <1>6. \/ UNCHANGED net \/ Tick
        \/ \E c \in Running : Client(c)
        \/ \E m \in net : Settle(m)
      BY DEF Next, System, Faulty, vars, GetNodeList, Check, Receive, Lose, VoteCount,
             VoteSize, VoteYes, VoteNo, HandleNodeAddUpdate, Restart, ControllerTaint,
             Environment
  <1>7. n \in net => \E m \in net : Sent(m) /\ n.src = m.src /\ n.vote = m.vote /\ n.age = m.age
      BY <1>1
  <1> HIDE DEF Sent
  <1> QED BY <1>2, <1>3, <1>4, <1>5, <1>6, <1>7

(* A received result starts out as old as its request may be, and gets no  *)
(* older than the time that passes until its age saturates, expired.       *)
LEMMA HeardStep ==
    ASSUME TypeOK, SentIsRecent, HeardIsRecent, [Next]_vars
    PROVE  HeardIsRecent'
  <1> SUFFICES ASSUME NEW d \in Node, NEW c \in Node, NEW e,
                      e = heard'[d][c],
                      e.vote \in Verdict, e.age <= VoteTimeOut
               PROVE  lastSaid'[c][e.vote] <= MsgDelay + e.age
      BY DEF HeardIsRecent, RecentlySaid
  <1>1. heard[d][c] \in Entry
      BY DEF TypeOK
  <1>2. heard[d][c].vote \in Verdict /\ heard[d][c].age <= VoteTimeOut =>
            lastSaid[c][heard[d][c].vote] <= MsgDelay + heard[d][c].age
      BY DEF HeardIsRecent, RecentlySaid
  <1>3. \A v \in Verdict : lastSaid[c][v] \in Nat /\ lastSaid'[c][v] \in Nat
      BY SaidNumbers, SaidNext
  <1>4. CASE Tick
    <2>1. heard'[d][c] = IF heard[d][c].vote = "none" THEN Absent
                         ELSE [heard[d][c] EXCEPT !.age = Older(@, Expired)]
        BY <1>4 DEF Tick
    <2>2. Absent.vote \notin Verdict
        BY DEF Absent, Verdict
    <2>3. e = [heard[d][c] EXCEPT !.age = Older(@, Expired)]
        BY <2>1, <2>2
    <2>4. e.vote = heard[d][c].vote /\ e.age = Older(heard[d][c].age, Expired)
        BY <1>1, <2>3 DEF Entry
    <2>5. heard[d][c].age \in 0..Expired
        BY <1>1 DEF Entry
    <2>6. e.age = heard[d][c].age + 1
      <3>1. Older(heard[d][c].age, Expired) <= Expired - 1
          BY <2>4, Times
      <3>2. Expired \in Nat
          BY Times
      <3> QED BY <2>4, <2>5, <3>1, <3>2, OlderType
    <2>7. lastSaid[c][e.vote] <= MsgDelay + heard[d][c].age
        BY <1>2, <2>4, <2>5, <2>6
    <2>8. lastSaid'[c][e.vote] <= lastSaid[c][e.vote] + 1
        BY <1>4, SaidTicks
    <2> QED BY <1>3, <2>5, <2>6, <2>7, <2>8
  <1>5. CASE ~Tick /\ e = heard[d][c]
    <2>1. lastSaid'[c][e.vote] <= lastSaid[c][e.vote]
        BY <1>5, SaidSteps
    <2>2. e.age \in Nat
        BY <1>1, <1>5, Times DEF Entry
    <2> QED BY <1>2, <1>3, <1>5, <2>1, <2>2
  <1>6. ASSUME NEW m \in net, Receive(m), e # heard[d][c]
        PROVE  lastSaid'[c][e.vote] <= MsgDelay + e.age
    <2>1. m \in Message
        BY DEF TypeOK
    <2>2. m.src \in Node /\ m.dst \in Node /\ m.age \in 0..MsgDelay
        BY <2>1 DEF Message
    <2>3. /\ heard' = [heard EXCEPT ![m.dst] = [@ EXCEPT ![m.src] = [vote |-> m.vote, age |-> 0]]]
          /\ lastSaid' = lastSaid
        BY <1>6 DEF Receive
    <2>4. c = m.src /\ e = [vote |-> m.vote, age |-> 0]
        BY <1>6, <2>2, <2>3 DEF TypeOK
    <2>5. lastSaid[m.src][m.vote] <= m.age
        BY <2>4 DEF SentIsRecent, RecentlySaid
    <2> QED BY <1>3, <2>2, <2>3, <2>4, <2>5
  <1>7. ASSUME NEW x \in Running, GetNodeList(x) PROVE e = heard[d][c]
    <2>1. CASE heard' = heard
        BY <2>1
    <2>2. CASE heard' # heard
      <3>1. PICK gone : heard' = [heard EXCEPT ![x] =
                          [y \in Node |-> IF y \in gone THEN Absent ELSE @[y]]]
          BY <1>7, <2>2 DEF GetNodeList
      <3>2. heard'[d][c] = heard[d][c] \/ heard'[d][c] = Absent
          BY <3>1 DEF TypeOK
      <3> QED BY <3>2 DEF Absent, Verdict
    <2> QED BY <2>1, <2>2
  <1>8. ASSUME NEW x \in Daemon, Restart(x) PROVE e = heard[d][c]
    <2>1. heard'[d][c] = heard[d][c] \/ heard'[d][c] = Absent
        BY <1>8 DEF Restart, TypeOK
    <2> QED BY <2>1 DEF Absent, Verdict
  <1>9. \/ UNCHANGED heard \/ Tick
        \/ \E m \in net : Receive(m)
        \/ \E x \in Running : GetNodeList(x)
        \/ \E x \in Daemon : Restart(x)
      BY DEF Next, System, Faulty, vars, Check, Client, Lose, VoteCount, VoteSize,
             VoteYes, VoteNo, HandleNodeAddUpdate, ControllerTaint, Environment
  <1> QED BY <1>4, <1>5, <1>6, <1>7, <1>8, <1>9

-----------------------------------------------------------------------------
(* The votes of one run of Vote: every voter is counted on one side only.  *)
OneVoteEach ==
    \A d \in Daemon :
        /\ tally[d].yes \cap tally[d].no = {}
        /\ tally[d].yes \cup tally[d].no \subseteq tally[d].voters

(* What a step does to the votes of daemon d: it counts them, drops them,  *)
(* reads the threshold, or lets time pass.                                 *)
LEMMA TallySteps ==
    ASSUME TypeOK, [Next]_vars, NEW d \in Daemon
    PROVE  \/ tally'[d] = tally[d] /\ (pc'[d] # "idle" => pc[d] # "idle") /\ ~Tick
           \/ VoteCount(d)
           \/ tally'[d] = NoTally /\ pc'[d] = "idle"
           \/ /\ pc[d] # "idle" /\ ~Tick
              /\ tally'[d] = [tally[d] EXCEPT !.size = Cardinality(checkInfo[d])]
           \/ /\ Tick /\ pc' = pc
              /\ tally'[d] = IF pc[d] = "idle" THEN tally[d]
                             ELSE [tally[d] EXCEPT !.late = @ + 1]
  <1>1. CASE Tick
      BY <1>1 DEF Tick
  <1>2. ASSUME ~Tick, NEW x \in Daemon, VoteSize(x)
        PROVE  \/ tally'[d] = tally[d] /\ (pc'[d] # "idle" => pc[d] # "idle")
               \/ tally'[d] = NoTally /\ pc'[d] = "idle"
               \/ /\ pc[d] # "idle"
                  /\ tally'[d] = [tally[d] EXCEPT !.size = Cardinality(checkInfo[d])]
    <2>1. CASE x # d
        BY <1>2, <2>1 DEF VoteSize, TypeOK
    <2>2. CASE x = d
        BY <1>2, <2>2 DEF VoteSize, TypeOK
    <2> QED BY <2>1, <2>2
  <1>3. ASSUME NEW x \in Daemon, VoteCount(x) PROVE VoteCount(d) \/ (tally'[d] = tally[d] /\ pc'[d] = pc[d])
    <2>1. CASE x = d
        BY <1>3, <2>1
    <2>2. CASE x # d
        BY <1>3, <2>2 DEF VoteCount, TypeOK
    <2> QED BY <2>1, <2>2
  <1>4. ASSUME NEW x \in Daemon, VoteYes(x) PROVE tally'[d] = tally[d] /\ (pc'[d] # "idle" => pc[d] # "idle")
      BY <1>4 DEF VoteYes, TypeOK
  <1>5. ASSUME NEW x \in Daemon, VoteNo(x) \/ Restart(x)
        PROVE  \/ tally'[d] = NoTally /\ pc'[d] = "idle"
               \/ tally'[d] = tally[d] /\ pc'[d] = pc[d]
      BY <1>5 DEF VoteNo, Restart, TypeOK
  <1>6. \/ UNCHANGED <<pc, tally>> \/ Tick
        \/ \E x \in Daemon : VoteCount(x) \/ VoteSize(x) \/ VoteYes(x) \/ VoteNo(x) \/ Restart(x)
      BY DEF Next, System, Faulty, vars, GetNodeList, Check, Client, Receive, Lose,
             HandleNodeAddUpdate, ControllerTaint, Environment, voteVars
  <1> QED BY <1>1, <1>2, <1>3, <1>4, <1>5, <1>6

LEMMA TallyStep ==
    ASSUME TypeOK, EvidenceIsRecent, TallyIsBacked, [Next]_vars
    PROVE  TallyIsBacked'
  <1> SUFFICES ASSUME NEW d \in Daemon, pc'[d] # "idle", NEW v \in Verdict,
                      NEW c \in tally'[d][v]
               PROVE  lastSaid'[c][v] <= Horizon + tally'[d].late
      BY DEF TallyIsBacked, RecentlySaid
  <1>0. tally[d] \in Ballot
      BY DEF TypeOK
  <1>1. tally[d] \in Ballot /\ tally[d].late \in Nat
      BY <1>0 DEF Ballot
  <1>2. pc[d] # "idle" => \A x \in tally[d][v] :
            x \in Node /\ lastSaid[x][v] <= Horizon + tally[d].late
      BY <1>1 DEF TallyIsBacked, RecentlySaid, Ballot, Verdict
  <1>3. \A x \in Node : lastSaid[x][v] \in Nat /\ lastSaid'[x][v] \in Nat
      BY SaidNumbers, SaidNext
  <1>4. CASE /\ pc[d] # "idle" /\ ~Tick
             /\ tally'[d][v] = tally[d][v] /\ tally'[d].late = tally[d].late
    <2>1. c \in Node /\ lastSaid[c][v] <= Horizon + tally[d].late
        BY <1>2, <1>4
    <2>2. lastSaid'[c][v] <= lastSaid[c][v]
        BY <1>4, <2>1, SaidSteps
    <2> QED BY <1>1, <1>3, <1>4, <2>1, <2>2, Times
  <1>5. CASE tally'[d] = tally[d] /\ (pc'[d] # "idle" => pc[d] # "idle") /\ ~Tick
      BY <1>4, <1>5
  <1>6. CASE /\ pc[d] # "idle" /\ ~Tick
             /\ tally'[d] = [tally[d] EXCEPT !.size = Cardinality(checkInfo[d])]
    <2>1. tally'[d][v] = tally[d][v] /\ tally'[d].late = tally[d].late
        BY <1>1, <1>6 DEF Ballot, Verdict
    <2> QED BY <1>4, <1>6, <2>1
  <1>7. CASE /\ Tick /\ pc' = pc
             /\ tally'[d] = IF pc[d] = "idle" THEN tally[d]
                            ELSE [tally[d] EXCEPT !.late = @ + 1]
    <2>1. /\ tally'[d][v] = tally[d][v]
          /\ tally'[d].late = tally[d].late + 1
        BY <1>1, <1>7 DEF Ballot, Verdict
    <2>2. c \in Node /\ lastSaid[c][v] <= Horizon + tally[d].late
        BY <1>2, <1>7, <2>1
    <2>3. lastSaid'[c][v] <= lastSaid[c][v] + 1
        BY <1>7, <2>2, SaidTicks
    <2> QED BY <1>1, <1>3, <2>1, <2>2, <2>3, Times
  <1>8. CASE VoteCount(d)
    <2>1. tally'[d] = [yes |-> Voted(d, "yes"), no |-> Voted(d, "no"),
                       voters |-> Voters(d), size |-> 0, late |-> 0]
        BY <1>8 DEF VoteCount, TypeOK
    <2>2. c \in Voted(d, v) /\ tally'[d].late = 0
        BY <2>1 DEF Verdict
    <2>3. c \in Node /\ Counts(d, c) /\ Says(d, c, v) /\ d \in Node
        BY <2>2 DEF Voted, Voters
    <2>4. lastSaid'[c][v] = lastSaid[c][v]
        BY <1>8 DEF VoteCount
    <2>5. CASE c = d
      <3>1. Report(d) = v
          BY <2>3, <2>5 DEF Says
      <3>2. lastSaid[c][v] <= 0
          BY <2>5, <2>3, <3>1 DEF EvidenceIsRecent, OwnIsRecent, RecentlySaid
      <3> QED BY <1>3, <2>2, <2>3, <2>4, <3>2, Times
    <2>6. CASE c # d
      <3>1. heard[d][c].vote = v /\ heard[d][c].age <= VoteTimeOut
          BY <2>3, <2>6 DEF Counts, Says
      <3>2. lastSaid[c][v] <= MsgDelay + heard[d][c].age
          BY <2>3, <3>1 DEF EvidenceIsRecent, HeardIsRecent, RecentlySaid
      <3>3. heard[d][c] \in Entry
          BY <2>3 DEF TypeOK
      <3>4. heard[d][c].age \in Nat
          BY <3>3, Times DEF Entry
      <3> QED BY <1>3, <2>2, <2>3, <2>4, <3>1, <3>2, <3>4, Times
    <2> QED BY <2>5, <2>6
  <1> QED BY <1>5, <1>6, <1>7, <1>8, TallySteps

LEMMA OneVoteStep ==
    ASSUME TypeOK, OneVoteEach, [Next]_vars
    PROVE  OneVoteEach'
  <1> SUFFICES ASSUME NEW d \in Daemon
               PROVE  /\ tally'[d].yes \cap tally'[d].no = {}
                      /\ tally'[d].yes \cup tally'[d].no \subseteq tally'[d].voters
      BY DEF OneVoteEach
  <1>1. tally[d] \in Ballot
      BY DEF TypeOK
  <1>2. /\ tally[d].yes \cap tally[d].no = {}
        /\ tally[d].yes \cup tally[d].no \subseteq tally[d].voters
      BY DEF OneVoteEach
  <1>3. CASE VoteCount(d)
    <2>1. tally'[d] = [yes |-> Voted(d, "yes"), no |-> Voted(d, "no"),
                       voters |-> Voters(d), size |-> 0, late |-> 0]
        BY <1>3 DEF VoteCount, TypeOK
    <2>2. Voted(d, "yes") \cap Voted(d, "no") = {}
        BY DEF Voted, Says
    <2>3. Voted(d, "yes") \cup Voted(d, "no") \subseteq Voters(d)
        BY DEF Voted
    <2> QED BY <2>1, <2>2, <2>3
  <1>4. CASE tally'[d] = NoTally
      BY <1>4 DEF NoTally
  <1>5. CASE tally'[d] = [tally[d] EXCEPT !.size = Cardinality(checkInfo[d])]
      BY <1>1, <1>2, <1>5 DEF Ballot
  <1>6. CASE tally'[d] = [tally[d] EXCEPT !.late = @ + 1]
      BY <1>1, <1>2, <1>6 DEF Ballot
  <1>7. CASE tally'[d] = tally[d]
      BY <1>2, <1>7
  <1> QED BY <1>3, <1>4, <1>5, <1>6, <1>7, TallySteps

-----------------------------------------------------------------------------
(* The inductive invariant.                                                *)
IInv == TypeOK /\ EvidenceIsRecent /\ TallyIsBacked /\ OneVoteEach

LEMMA IInvInit == Init => IInv
  <1> SUFFICES ASSUME Init PROVE IInv
      OBVIOUS
  <1>1. TypeOK
      BY InitType
  <1>2. \A c \in Node : Report(c) = "none"
      BY DEF Init, Report
  <1>3. \A d, c \in Node : heard[d][c].vote = "none"
      BY DEF Init, Absent
  <1>4. EvidenceIsRecent
      BY <1>2, <1>3 DEF Init, EvidenceIsRecent, OwnIsRecent, SentIsRecent, HeardIsRecent, Verdict
  <1>5. TallyIsBacked /\ OneVoteEach
      BY DEF Init, TallyIsBacked, OneVoteEach, NoTally
  <1> QED BY <1>1, <1>4, <1>5 DEF IInv

LEMMA IInvStep == IInv /\ [Next]_vars => IInv'
  BY StepType, OwnStep, SentStep, HeardStep, TallyStep, OneVoteStep
     DEF IInv, EvidenceIsRecent

LEMMA Invariance == Spec => []IInv
  BY IInvInit, IInvStep, PTL DEF Spec

(* Results are stamped on receipt and may be late, lost, or repeated, and  *)
(* daemons may restart: what a node is remembered to have said of Suspect  *)
(* it still said within the age it is remembered with, plus the delay.     *)
THEOREM EvidenceStaysRecent == Spec => []EvidenceIsRecent
  BY Invariance, PTL DEF IInv

(* The votes counted by a run of Vote are recent until the run ends.       *)
THEOREM TallyStaysBacked == Spec => []TallyIsBacked
  BY Invariance, PTL DEF IInv

-----------------------------------------------------------------------------
(* Who approves has a majority of nodes that said so within Memory.        *)
LEMMA ApprovedIsBacked ==
    ASSUME IInv, NEW d \in Daemon, pc[d] # "idle", NEW v \in Verdict, Approves(d, v)
    PROVE  BackedBy(d, v)
  <1> DEFINE recent == {c \in Node : RecentlySaid(c, v, Memory)}
  <1>1. tally[d] \in Ballot
      BY DEF IInv, TypeOK
  <1>2. /\ tally[d][v] \subseteq Node
        /\ tally[d].late \in 0..VoteTime
        /\ tally[d].size \in Nat
      BY <1>1 DEF Ballot, Verdict
  <1>3. tally[d][v] \subseteq recent
    <2> SUFFICES ASSUME NEW c \in tally[d][v] PROVE RecentlySaid(c, v, Memory)
        BY <1>2
    <2>1. lastSaid[c][v] <= Horizon + tally[d].late
        BY DEF IInv, TallyIsBacked, RecentlySaid
    <2>2. lastSaid[c][v] \in Nat
        BY <1>2, SaidNumbers DEF IInv
    <2> QED BY <1>2, <2>1, <2>2, Times DEF RecentlySaid
  <1>4. IsFiniteSet(recent) /\ Cardinality(recent) \in Nat
      BY NodeSubsets
  <1>5. Cardinality(tally[d][v]) <= Cardinality(recent) /\ Cardinality(tally[d][v]) \in Nat
      BY <1>2, <1>3, <1>4, FS_Subset, NodeSubsets
  <1>6. 2 * Cardinality(tally[d][v]) >= tally[d].size + 1
      BY DEF Approves, Majority
  <1> HIDE DEF recent
  <1>7. 2 * Cardinality(recent) > tally[d].size
      BY <1>2, <1>4, <1>5, <1>6
  <1> QED BY <1>7 DEF BackedBy, recent

(* Only a vote that approves changes the annotation.                       *)
LEMMA AnnotationStep ==
    ASSUME IInv, [Next]_vars
    PROVE  /\ (~node.annot /\ node'.annot) => \E d \in Daemon : Acts(d) /\ BackedBy(d, "no")
           /\ (node.annot /\ ~node'.annot) => \E d \in Daemon : Acts(d) /\ BackedBy(d, "yes")
  <1>0. pc \in [Daemon -> {"idle", "counted", "yes", "no"}]
      BY DEF IInv, TypeOK
  <1>1. node \in Object
      BY DEF IInv, TypeOK
  <1>2. ASSUME NEW d \in Daemon, VoteYes(d)
        PROVE  /\ node'.annot => node.annot
               /\ node.annot /\ ~node'.annot => Acts(d) /\ BackedBy(d, "yes")
    <2>1. \/ UNCHANGED node
          \/ node' = [node EXCEPT !.taint = FALSE]
          \/ Approves(d, "yes") /\ node' = [node EXCEPT !.annot = FALSE]
        BY <1>2 DEF VoteYes, Update, apiVars
    <2>2. pc[d] # "idle" /\ Acts(d)
        BY <1>2, <1>0 DEF VoteYes, Acts
    <2> QED BY <1>1, <2>1, <2>2, ApprovedIsBacked DEF Object, Verdict
  <1>3. ASSUME NEW d \in Daemon, VoteNo(d)
        PROVE  /\ node.annot => node'.annot
               /\ ~node.annot /\ node'.annot => Acts(d) /\ BackedBy(d, "no")
    <2>1. \/ UNCHANGED node
          \/ Approves(d, "no") /\ node' = [node EXCEPT !.annot = TRUE]
        BY <1>3 DEF VoteNo, Update, apiVars
    <2>2. pc[d] # "idle" /\ Acts(d)
        BY <1>3, <1>0 DEF VoteNo, Acts
    <2> QED BY <1>1, <2>1, <2>2, ApprovedIsBacked DEF Object, Verdict
  <1>4. ControllerTaint => node'.annot = node.annot
      BY <1>1 DEF ControllerTaint, Object
  <1>5. \/ UNCHANGED node \/ ControllerTaint
        \/ \E d \in Daemon : VoteYes(d) \/ VoteNo(d)
      BY DEF Next, System, Faulty, vars, GetNodeList, Check, Client, Receive, Lose,
             VoteCount, VoteSize, HandleNodeAddUpdate, Restart, Environment, Tick,
             apiVars
  <1> QED BY <1>2, <1>3, <1>4, <1>5

(* However many daemons vote on whatever they have heard, the one that     *)
(* changes the annotation does so on a recent majority by its own          *)
(* CheckInfo.                                                              *)
THEOREM ChangesAreBacked == Spec => ChangedByRecentMajority
  <1>1. IInv /\ [Next]_vars =>
            [ /\ (~node.annot /\ node'.annot) => \E d \in Daemon : Acts(d) /\ BackedBy(d, "no")
              /\ (node.annot /\ ~node'.annot) => \E d \in Daemon : Acts(d) /\ BackedBy(d, "yes")
            ]_node
      BY AnnotationStep
  <1> QED BY <1>1, Invariance, PTL DEF Spec, ChangedByRecentMajority

(* Two majorities of the nodes checked do not fit into the votes counted.  *)
LEMMA OneMajority == IInv => OneVerdictPerVote
  <1> SUFFICES ASSUME IInv, NEW d \in Daemon,
                      Cardinality(tally[d].voters) <= tally[d].size,
                      \A v \in Verdict : Majority(Cardinality(tally[d][v]), tally[d].size)
               PROVE  FALSE
      BY DEF OneVerdictPerVote
  <1> DEFINE y == tally[d].yes
             n == tally[d].no
  <1>1. tally[d] \in Ballot
      BY DEF IInv, TypeOK
  <1>2. /\ y \subseteq Node /\ n \subseteq Node /\ tally[d].voters \subseteq Node
        /\ tally[d].size \in Nat
      BY <1>1 DEF Ballot
  <1>3. y \cap n = {} /\ y \cup n \subseteq tally[d].voters
      BY DEF IInv, OneVoteEach
  <1>4. 2 * Cardinality(y) >= tally[d].size + 1 /\ 2 * Cardinality(n) >= tally[d].size + 1
      BY DEF Majority, Verdict
  <1>5. IsFiniteSet(y) /\ IsFiniteSet(n) /\ IsFiniteSet(tally[d].voters)
      BY <1>2, NodeSubsets
  <1>6. /\ Cardinality(y) \in Nat /\ Cardinality(n) \in Nat
        /\ Cardinality(tally[d].voters) \in Nat /\ Cardinality(y \cup n) \in Nat
      BY <1>2, NodeSubsets
  <1>7. Cardinality(y \cup n) = Cardinality(y) + Cardinality(n)
    <2>1. Cardinality(y \cup n) = Cardinality(y) + Cardinality(n) - Cardinality(y \cap n)
        BY <1>5, FS_Union
    <2>2. Cardinality(y \cap n) = 0
        BY <1>3, FS_EmptySet
    <2> QED BY <1>6, <2>1, <2>2
  <1>8. Cardinality(y \cup n) <= Cardinality(tally[d].voters)
      BY <1>3, <1>5, FS_Subset
  <1> HIDE DEF y, n
  <1> QED BY <1>2, <1>4, <1>6, <1>7, <1>8

(* A run of Vote whose voters are all checked by its daemon never finds a  *)
(* majority both ways, whatever CheckInfo was when it counted.             *)
THEOREM OneVerdict == Spec => []OneVerdictPerVote
  BY Invariance, OneMajority, PTL
=============================================================================
