---------------------------- MODULE ByteChannel ----------------------------
(***************************************************************************)
(* What the KDBX readers and writers expect of a block stream: the bytes   *)
(* that were sent are received, from the first on and in their order, and  *)
(* the end is reached only when all of them were, or when the sender has   *)
(* been told that some were lost.  Abstract specification of BlockStream.  *)
(***************************************************************************)
EXTENDS Naturals

VARIABLES
  sent,      \* how many bytes the sender handed over: 1, 2, 3, ...
  told,      \* a call of the sender has failed
  received,  \* the bytes the receiver has been given
  verdict    \* what the receiver was told last: "more", "end" or "error"

vars == <<sent, told, received, verdict>>

FirstBytes(n) == [b \in 1..n |-> b]

Init == sent = 0 /\ told = FALSE /\ received = <<>> /\ verdict = "more"

Send ==
  /\ sent' \in Nat /\ sent' >= sent
  /\ told' \in {told, TRUE}
  /\ UNCHANGED <<received, verdict>>

Receive ==
  /\ verdict = "more"
  /\ \E n \in 0..sent : received' = FirstBytes(n)
  /\ verdict' \in {"more", "end"}
  /\ verdict' = "end" => received' = FirstBytes(sent) \/ told
  /\ UNCHANGED <<sent, told>>

\* Damage is noticed; what was received before stays.
Break ==
  /\ verdict = "more"
  /\ verdict' = "error"
  /\ UNCHANGED <<sent, told, received>>

Next == Send \/ Receive \/ Break

Spec == Init /\ [][Next]_vars
=============================================================================
