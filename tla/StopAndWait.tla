---------------------------- MODULE StopAndWait ----------------------------
(***************************************************************************)
(* What the memory-request pipeline promises its callers: requests are     *)
(* issued in the order in which they were submitted, and one is issued     *)
(* only when the controller is done with the one before it.                *)
(***************************************************************************)
EXTENDS Sequences

CONSTANT Requests  \* records with a field kind, "memwrite" or "memread"

VARIABLES
  pending,         \* the requests submitted and not yet issued
  outstanding      \* the kind of the issued request, or "none"

Init == pending = <<>> /\ outstanding = "none"

Submit ==
  /\ \E r \in Requests : pending' = Append(pending, r)
  /\ UNCHANGED outstanding

Issue ==
  /\ outstanding = "none"
  /\ pending # <<>>
  /\ outstanding' = Head(pending).kind
  /\ pending' = Tail(pending)

Complete ==
  /\ outstanding # "none"
  /\ outstanding' = "none"
  /\ UNCHANGED pending

Next == Submit \/ Issue \/ Complete

Spec == Init /\ [][Next]_<<pending, outstanding>>

=============================================================================
