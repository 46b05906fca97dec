--------------------------- MODULE MessageChannel ---------------------------
(***************************************************************************)
(* What one direction of a connection promises, with no bytes, no lengths  *)
(* and no partial reads or writes: what arrives is what was sent, whole    *)
(* and in the order of sending, until the channel breaks.  Framing.tla is  *)
(* shown to implement it, broken being what spoils a stream of bytes.      *)
(***************************************************************************)
EXTENDS Naturals, Sequences

CONSTANT Item        \* what can be sent: messages and files

VARIABLES sent,      \* everything sent so far, in order
          delivered, \* everything received so far, in order
          broken     \* nothing is promised any more

vars == <<sent, delivered, broken>>

Init == sent = <<>> /\ delivered = <<>> /\ broken = FALSE

Extend == \E i \in Item : sent' = Append(sent, i)

Send == Extend /\ UNCHANGED <<delivered, broken>>

\* The oldest item not yet received arrives.
Deliver ==
  /\ ~broken
  /\ Len(delivered) < Len(sent)
  /\ delivered' = Append(delivered, sent[Len(delivered) + 1])
  /\ UNCHANGED <<sent, broken>>

Break ==
  /\ broken' = TRUE
  /\ Extend \/ UNCHANGED sent
  /\ UNCHANGED delivered

\* Whatever a broken channel makes the receiver believe.
Babble == broken /\ UNCHANGED <<sent, broken>>

Next == Send \/ Deliver \/ Break \/ Babble

Spec == Init /\ [][Next]_vars
=============================================================================
