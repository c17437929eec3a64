---------------------------- MODULE PagedMemory ----------------------------
(***************************************************************************)
(* What a demand-paged memory promises the reader of its output files: an  *)
(* access prints the byte the backing store has at the address, a page is  *)
(* brought in the first time it is named and never again, and it stays in  *)
(* the one frame it was given, which no other page shares.                 *)
(***************************************************************************)
EXTENDS Integers, FiniteSets

CONSTANTS NumPages, PageSize, FrameMax, Addresses

Pages  == 0 .. NumPages - 1
Frames == 0 .. FrameMax - 1
PageOf(a)   == (a \div PageSize) % NumPages
OffsetOf(a) == a % PageSize

VARIABLES resident, frameOf, faults, out

vars == <<resident, frameOf, faults, out>>

Init ==
  /\ resident = {}
  /\ frameOf = [p \in Pages |-> 0]
  /\ faults = 0
  /\ out = [virtual |-> 0, physical |-> 0, val |-> <<-1, 0>>]

Report(a, frame) ==
  out' = [virtual  |-> a,
          physical |-> frame * PageSize + OffsetOf(a),
          val      |-> <<PageOf(a), OffsetOf(a)>>]

\* an address of a page that is in memory
Hit(a) ==
  /\ PageOf(a) \in resident
  /\ Report(a, frameOf[PageOf(a)])
  /\ UNCHANGED <<resident, frameOf, faults>>

\* the first address of its page: it gets a frame nothing else has
Fault(a) ==
  /\ PageOf(a) \notin resident
  /\ \E f \in Frames :
       /\ \A p \in resident : frameOf[p] # f
       /\ frameOf' = [frameOf EXCEPT ![PageOf(a)] = f]
       /\ Report(a, f)
  /\ resident' = resident \union {PageOf(a)}
  /\ faults' = faults + 1

Next == \E a \in Addresses : Hit(a) \/ Fault(a)

Spec == Init /\ [][Next]_vars
=============================================================================
