------------------------------ MODULE FileCopy ------------------------------
(***************************************************************************)
(* What a file transfer promises its receiver: once the user has accepted, *)
(* every block of the file arrives exactly once, in any order, and the     *)
(* transfer is reported as finished at most once, in the very step in      *)
(* which the last missing block arrives.  Only a handshake in between may  *)
(* break it off.  BlockTransfer implements it.                             *)
(***************************************************************************)
EXTENDS Naturals

CONSTANT Blocks                \* the blocks of the file

VARIABLES
  accepted,                    \* the receiving user has pressed Accept
  delivered,                   \* the blocks that have arrived
  reports,                     \* how often the receiver reported the end
  disturbed,                   \* the peers have connected again meanwhile
  broken                       \* nothing more need arrive

vars == <<accepted, delivered, reports, disturbed, broken>>

Init ==
  /\ accepted = FALSE
  /\ delivered = {}
  /\ reports = 0
  /\ disturbed = FALSE
  /\ broken = FALSE

Accept ==
  /\ ~accepted
  /\ accepted' = TRUE
  /\ UNCHANGED <<delivered, reports, disturbed, broken>>

Disturb ==
  /\ disturbed' = TRUE
  /\ UNCHANGED broken \/ broken' = TRUE
  /\ UNCHANGED <<accepted, delivered, reports>>

Deliver(b) ==
  /\ accepted
  /\ b \notin delivered
  /\ delivered' = delivered \cup {b}
  /\ reports' \in {reports} \cup {reports + 1 : x \in {d \in {delivered'} : d = Blocks}}
  /\ UNCHANGED broken \/ (disturbed /\ broken' = TRUE)
  /\ UNCHANGED <<accepted, disturbed>>

Next == Accept \/ Disturb \/ \E b \in Blocks : Deliver(b)

Safety == Init /\ [][Next]_vars

Spec == Safety /\ WF_vars(~broken /\ \E b \in Blocks : Deliver(b))

=============================================================================
