------------------------------ MODULE SecureStream ------------------------------
(***************************************************************************)
(* What one direction of a ZAP-PQ session promises its users: the payloads *)
(* the sender handed over come out at the receiver in the order they were  *)
(* sent, each at most once and unaltered.  Payloads are named by their     *)
(* position in the sender's stream.  Payloads may be lost (the connection  *)
(* can be closed, and the network below is not trusted), so delivery may   *)
(* skip; it never repeats, reorders or invents.                            *)
(***************************************************************************)
EXTENDS Naturals, Sequences

CONSTANT MaxSend    \* bound on the payloads of one direction

VARIABLES
    sent,   \* number of payloads the sender has put on the stream
    got     \* positions of the payloads the receiver has returned

Init == sent = 0 /\ got = <<>>

Last == IF got = <<>> THEN 0 ELSE got[Len(got)]

Send == sent < MaxSend /\ sent' = sent + 1 /\ UNCHANGED got

Deliver ==
    \E p \in Last + 1 .. sent : got' = Append(got, p) /\ UNCHANGED sent

Next == Send \/ Deliver

Spec == Init /\ [][Next]_<<sent, got>>
===============================================================================
