---------------------------- MODULE MCAdmission ----------------------------
EXTENDS Admission

(* One service with two port groups, on an edge node that may lose the     *)
(* cloud and on one that does not.                                         *)
OneHost  == [a |-> "n1", b |-> "n2", c |-> "n2", d |-> "n2", e |-> "n1"]
OnePods  == << {"a", "b", "c"}, {"d", "e"} >>
OneOrder == [S \in SUBSET Address |->
                SelectSeq(<<"b", "a", "c", "e", "d">>, LAMBDA a : a \in S)]
=============================================================================
