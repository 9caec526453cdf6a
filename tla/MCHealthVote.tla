---------------------------- MODULE MCHealthVote ----------------------------
(* Instances of HealthVote for TLC.                                        *)
EXTENDS HealthVote

(* One zone: every node checks every node.                                 *)
Everyone == {[c \in Node |-> Node]}

(* The zone config map switches between all nodes and, for nodes without a *)
(* zone label, the node itself.                                            *)
AllOrSelf == {[c \in Node |-> Node], [c \in Node |-> {c}]}

(* ... or for the voting daemons and Suspect, which share a zone, the two.  *)
Zone == Daemon \cup {Suspect}
AllOrZone == {[c \in Node |-> Node],
              [c \in Node |-> IF c \in Zone THEN Zone ELSE {c}]}

(* Everybody reaches Suspect, or only Suspect itself does.                 *)
AllOrNone == {Node, {Suspect}}

(* The links between Suspect and the others fail one by one.               *)
AnyLinks == {R \cup {Suspect} : R \in SUBSET Node}
=============================================================================
