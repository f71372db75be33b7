------------------------------- MODULE Mailbox -------------------------------
(***************************************************************************)
(* What an inbox promises to a recipient: a message appears in it whole,   *)
(* at once, stays as it is, and goes away only on recipient's request.     *)
(***************************************************************************)
CONSTANT Msg

\* What recipient can find under an id of every message: "none", "whole",
\* "broken", when something is missing from the message, or "removed".
VARIABLE mail

Init == mail = [m \in Msg |-> "none"]

Deliver(m) ==
    /\ mail[m] = "none"
    /\ mail' = [mail EXCEPT ![m] = "whole"]

Remove(m) ==
    /\ mail[m] = "whole"
    /\ mail' = [mail EXCEPT ![m] = "removed"]

Next == \E m \in Msg : Deliver(m) \/ Remove(m)

Spec == Init /\ [][Next]_mail

=============================================================================
