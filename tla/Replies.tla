------------------------------ MODULE Replies ------------------------------
(***************************************************************************)
(* What the sidecar promises its client: every frame it reads is answered  *)
(* once, in any order, under the frame's id (0 when the frame could not be *)
(* parsed), and nothing but errors is sent before a hello was accepted.    *)
(***************************************************************************)
EXTENDS Integers, Sequences

CONSTANT
  Frame      \* the frames a client may send

VARIABLES
  id,        \* the id each frame's reply carries
  asked,     \* the frames read that call for a reply
  replies    \* the replies sent, in order

Init == id \in [Frame -> Nat] /\ asked = {} /\ replies = <<>>

Answered(f) == \E i \in DOMAIN replies : replies[i].of = f

HelloAccepted == \E i \in DOMAIN replies : replies[i].is = "hello"

Ask(f) ==
  /\ f \notin asked
  /\ asked' = asked \cup {f}
  /\ UNCHANGED <<id, replies>>

Reply(f, is) ==
  /\ f \in asked /\ ~Answered(f)
  /\ is = "result" => HelloAccepted
  /\ replies' = Append(replies, [of |-> f, id |-> id[f], is |-> is])
  /\ UNCHANGED <<id, asked>>

Next ==
  \E f \in Frame : Ask(f) \/ \E is \in {"hello", "result", "error"} : Reply(f, is)

Spec == Init /\ [][Next]_<<id, asked, replies>>

=============================================================================
