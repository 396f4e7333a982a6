---------------------------- MODULE MessageOrder ----------------------------
(***************************************************************************)
(* What a chat promises its users: messages may be lost, but those that    *)
(* are seen are seen once, and in the order in which they were sent.       *)
(***************************************************************************)
EXTENDS Naturals, Sequences

VARIABLES
  sent,    \* messages sent, numbered from 1
  seen     \* the numbers of the messages seen at the other end

Init == sent = 0 /\ seen = <<>>

Send == sent' = sent + 1 /\ UNCHANGED seen

See(n) ==
  /\ n \in 1 .. sent
  /\ \A i \in DOMAIN seen : seen[i] < n
  /\ seen' = Append(seen, n)
  /\ UNCHANGED sent

Next == Send \/ \E n \in 1 .. sent : See(n)

Spec == Init /\ [][Next]_<<sent, seen>>

=============================================================================
