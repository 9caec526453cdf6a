----------------------------- MODULE HttpsRelay -----------------------------
(***************************************************************************)
(* What the tunnel promises the two ends of a proxied HTTPS request: the   *)
(* client hears what the component said, and the component of an upgraded  *)
(* request what the client said, piece by piece and in order; a request is *)
(* not over before its client has heard everything, unless the client went *)
(* away.  Of the body of a plain request, which the edge drops, it promises *)
(* nothing, nor of the status of the answer, which the cloud drops.        *)
(***************************************************************************)
EXTENDS Naturals, Sequences

CONSTANTS Req,      \* the requests, each named by the uuid ServeHTTP gives it
          Upgrade   \* those that become a connection of both ends

Side == {"cloud", "edge"}
Other(s) == IF s = "cloud" THEN "edge" ELSE "cloud"

VARIABLES said,   \* said[s][r]: how many pieces the end at side s has put in
          heard,  \* heard[s][r]: the pieces the end at side s got out
          left,   \* the requests whose client went away
          over    \* the requests that are over for their client

vars == <<said, heard, left, over>>

Init == /\ said = [s \in Side |-> [r \in Req |-> 0]]
        /\ heard = [s \in Side |-> [r \in Req |-> <<>>]]
        /\ left = {} /\ over = {}

\* A client that stayed has heard everything when its request is over: the
\* component says nothing more.
Say(s, r) == /\ s = "edge" => r \notin over \/ r \in left
             /\ said' = [said EXCEPT ![s][r] = @ + 1]
             /\ UNCHANGED <<heard, left, over>>

\* The piece that comes out is the next one of those that were put in.
Passed(s, r) == /\ Len(heard[s][r]) < said[Other(s)][r]
                /\ heard' = [heard EXCEPT ![s][r] = Append(@, Len(@) + 1)]

\* The component of a plain request hears nothing.
Hear(s, r) == /\ s = "cloud" => r \notin over
              /\ s = "edge" => r \in Upgrade
              /\ Passed(s, r)
              /\ UNCHANGED <<said, left, over>>

Leave(r) == left' = left \cup {r} /\ UNCHANGED <<said, heard, over>>

\* The end may come with the last piece.
End(r) == /\ r \notin over
          /\ over' = over \cup {r}
          /\ Passed("cloud", r) \/ UNCHANGED heard
          /\ r \in left \/ Len(heard'["cloud"][r]) = said["edge"][r]
          /\ UNCHANGED <<said, left>>

Next == \E r \in Req : \/ Leave(r) \/ End(r)
                       \/ \E s \in Side : Say(s, r) \/ Hear(s, r)

Spec == Init /\ [][Next]_vars
=============================================================================
