---------------------------- MODULE VMRoundRobin ----------------------------
(***************************************************************************)
(* The TLB of main_pr1.c and main_pr2.c.  TLBInsert() is called for every  *)
(* address, also for one that was found in the TLB, and never searches.    *)
(***************************************************************************)
EXTENDS VMCommon

VARIABLE tempFIFO

\* Faulty variant: tempFIFO never moves.
TLBInsertStuck(p, frame) ==
  LET at == IF next_tlb_pos < TLBEntryMax THEN next_tlb_pos ELSE tempFIFO
  IN /\ TLB' = [TLB EXCEPT ![at] = [page_num |-> p, frame_num |-> frame]]
     /\ next_tlb_pos' = IF next_tlb_pos < TLBEntryMax
                        THEN next_tlb_pos + 1 ELSE next_tlb_pos
     /\ UNCHANGED tempFIFO

\* append while there is room, overwrite the entry at tempFIFO afterwards
TLBInsert(p, frame) ==
  LET new == [page_num |-> p, frame_num |-> frame]
  IN IF next_tlb_pos < TLBEntryMax
     THEN /\ TLB' = [TLB EXCEPT ![next_tlb_pos] = new]
          /\ next_tlb_pos' = next_tlb_pos + 1
          /\ UNCHANGED tempFIFO
     ELSE /\ TLB' = [TLB EXCEPT ![tempFIFO] = new]
          /\ tempFIFO' = (tempFIFO + 1) % TLBEntryMax
          /\ UNCHANGED next_tlb_pos

\* Because TLBInsert() runs for every address, the TLB is a window over the
\* last TLBEntryMax accesses: it holds their pages and no other.
TLBIsAccessWindow ==
  {TLB[i].page_num : i \in 0 .. next_tlb_pos - 1} =
    {p \in touched : last_use[p] > address_c - TLBEntryMax}
=============================================================================
