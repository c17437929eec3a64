------------------------------- MODULE VMFifo -------------------------------
(***************************************************************************)
(* main_pr1.c: at least as many frames as pages (512 for 256), and the     *)
(* round-robin TLB.                                                        *)
(***************************************************************************)
EXTENDS VMRoundRobin

vars == <<commonVars, tempFIFO>>

ASSUME EnoughFrames ==
  /\ FrameMax >= NumPages
  /\ PTEntryMax >= NumPages

TypeOK == CommonTypeOK /\ tempFIFO \in 0 .. TLBEntryMax - 1

-----------------------------------------------------------------------------
Init == CommonInit /\ tempFIFO = 0

\* getPage(), one action for each place the frame can come from
TLBHit ==
  \E i \in DOMAIN TLB :
    /\ FirstHolding(TLB, next_tlb_pos, page, i)
    /\ hits' = hits + 1
    /\ UNCHANGED <<phy_memory, page_table, next_pos, next_table_pos,
                   page_faults>>
    /\ TLBInsert(page, TLB[i].frame_num)
    /\ LoopBody(TLB[i].frame_num)

PageTableHit ==
  \E i \in DOMAIN page_table :
    /\ ~InTLB
    /\ FirstHolding(page_table, next_table_pos, page, i)
    /\ UNCHANGED <<phy_memory, page_table, next_pos, next_table_pos,
                   page_faults, hits>>
    /\ TLBInsert(page, page_table[i].frame_num)
    /\ LoopBody(page_table[i].frame_num)

PageFault ==
  /\ ~InTLB
  /\ ~InPageTable
  /\ ReadStoreFifo(page)
  /\ page_faults' = page_faults + 1
  /\ TLBInsert(page, next_pos' - 1)
  /\ LoopBody(next_pos' - 1)
  /\ UNCHANGED hits

Next == TLBHit \/ PageTableHit \/ PageFault

Spec == Init /\ [][Next]_vars

-----------------------------------------------------------------------------
\* The program implements the abstract memory: the resident pages are those of
\* the page table, each in the frame recorded for it.
ResidentIn(table, n) == {table[i].page_num : i \in 0 .. n - 1}
FrameIn(table, n, p) ==
  IF p \in ResidentIn(table, n)
  THEN table[CHOOSE i \in 0 .. n - 1 : table[i].page_num = p].frame_num
  ELSE 0

resident == ResidentIn(page_table, next_table_pos)
frameOf  == [p \in Pages |-> FrameIn(page_table, next_table_pos, p)]

Memory == INSTANCE PagedMemory WITH faults <- page_faults

\* Every step of main_pr1.c is a hit or a fault of the abstract memory: right
\* byte, one load per page, and a page never moves to another frame.
ImplementsPagedMemory == Memory!Spec
=============================================================================
