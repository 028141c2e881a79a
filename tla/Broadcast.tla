----------------------------- MODULE Broadcast -----------------------------
(***************************************************************************)
(* What the distribution of commands promises, without packets, sequence   *)
(* numbers or clocks: commands are issued in an order; a node may miss     *)
(* some, but acts on those it takes in that order and on none twice, until *)
(* it restarts; and it records for the last START it took, and only while  *)
(* it took no STOP after it.                                               *)
(***************************************************************************)
EXTENDS Integers, Sequences

CONSTANT Node

VARIABLES
  ids,        \* the commands issued so far: "START" or "STOP"
  acted,      \* per node: the commands it acted on since its last restart
  recording   \* per node: the START it records for, 0 for none

vars == <<ids, acted, recording>>

TypeOK ==
  /\ ids \in Seq({"START", "STOP"})
  /\ acted \in [Node -> Seq(1 .. Len(ids))]
  /\ recording \in [Node -> 0 .. Len(ids)]

Init ==
  /\ ids = <<>>
  /\ acted = [n \in Node |-> <<>>]
  /\ recording = [n \in Node |-> 0]

Issue ==
  /\ \E c \in {"START", "STOP"} : ids' = Append(ids, c)
  /\ UNCHANGED <<acted, recording>>

\* The last of a node's commands, 0 if there is none.
Newest(s) == IF s = <<>> THEN 0 ELSE s[Len(s)]

\* Node n acts on a command it has not seen, or is not reached.  A START may
\* fail at the node: it is taken all the same.
Takes(n) ==
  \E k \in Newest(acted[n]) + 1 .. Len(ids) :
    /\ acted'[n] = Append(acted[n], k)
    /\ \/ ids[k] = "START" /\ recording'[n] \in {k, recording[n]}
       \/ ids[k] = "STOP" /\ recording'[n] = 0

Stays(n) == acted'[n] = acted[n] /\ recording'[n] = recording[n]

\* Commands travel to all nodes at once.
Deliver ==
  /\ acted' \in [Node -> Seq(1 .. Len(ids))]
  /\ recording' \in [Node -> 0 .. Len(ids)]
  /\ \A n \in Node : Takes(n) \/ Stays(n)
  /\ UNCHANGED ids

\* A node that restarts remembers nothing.
Restart(n) ==
  /\ acted' = [acted EXCEPT ![n] = <<>>]
  /\ recording' = [recording EXCEPT ![n] = 0]
  /\ UNCHANGED ids

Next == Issue \/ Deliver \/ \E n \in Node : Restart(n)

Spec == Init /\ [][Next]_vars

=============================================================================
