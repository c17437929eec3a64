----------------------------- MODULE EchoQueue -----------------------------
(***************************************************************************)
(* What the echo session of Lab 12 promises its user: what is sent comes   *)
(* back as one queue of bytes.  It is entered at its end and left at its   *)
(* head, onto the screen, a buffer at a time at most.  When one of the two *)
(* programs stops, a tail of the queue may be lost, never a byte that has  *)
(* others behind it which are printed; after that nothing enters any more. *)
(***************************************************************************)
EXTENDS Integers, Sequences

CONSTANT BufferSize

VARIABLES
  sent,       \* how many bytes have been sent
  unprinted,  \* those that may still be printed, each by its number
  printed,
  stopped     \* one of the programs has ended

vars == <<sent, unprinted, printed, stopped>>

Init == sent = 0 /\ unprinted = <<>> /\ printed = <<>> /\ stopped = FALSE

\* The next bytes of the input are sent, which nobody receives after a stop.
Send ==
  /\ \E k \in 1 .. BufferSize - 1 :
       /\ sent' = sent + k
       /\ unprinted' = IF stopped THEN unprinted
                       ELSE unprinted \o [b \in 1 .. k |-> sent + b]
  /\ UNCHANGED <<printed, stopped>>

\* a beginning of what is sent, at most a buffer of it, is printed
Show ==
  /\ \E k \in 1 .. BufferSize - 1 :
       /\ k <= Len(unprinted)
       /\ printed' = printed \o SubSeq(unprinted, 1, k)
       /\ unprinted' = SubSeq(unprinted, k + 1, Len(unprinted))
  /\ UNCHANGED <<sent, stopped>>

\* A program ends, the client perhaps with a last byte, and what follows some
\* byte is lost.
Stop ==
  /\ \E kept \in 0 .. Len(unprinted), k \in 0 .. 1 :
       /\ k <= kept
       /\ printed' = printed \o SubSeq(unprinted, 1, k)
       /\ unprinted' = SubSeq(unprinted, k + 1, kept)
  /\ stopped' = TRUE
  /\ UNCHANGED sent

Next == Send \/ Show \/ Stop

Spec == Init /\ [][Next]_vars
=============================================================================
