----------------------------- MODULE VMManager -----------------------------
(***************************************************************************)
(* main.c: exactly as many frames as pages, and a TLB kept in order of use *)
(* by moving the entry that was found to the end.  The move is right only  *)
(* in a full TLB.  While there is room, the entries behind the one found   *)
(* are shifted down but the entry is written at next_tlb_pos, not before   *)
(* it, and next_tlb_pos grows: a zero entry "page 0 in frame 0" nobody     *)
(* inserted is left inside the searched part of the TLB.                   *)
(***************************************************************************)
EXTENDS VMCommon

vars == commonVars

ASSUME EnoughFrames ==
  /\ FrameMax >= NumPages
  /\ PTEntryMax >= NumPages

TypeOK == CommonTypeOK

-----------------------------------------------------------------------------
Init == CommonInit

\* for (i = from; i < TLB_ENTRY_MAX - 1; i++) TLB[i] = TLB[i + 1];
ShiftDown(from) ==
  [k \in DOMAIN TLB |-> IF k >= from /\ k < TLBEntryMax - 1
                        THEN TLB[k + 1] ELSE TLB[k]]

room == next_tlb_pos < TLBEntryMax

\* Faulty variant: the entry that was found is not shifted out.
ShiftFromNowhere(p) ==
  IF room \/ Holds(TLB, next_tlb_pos, p) THEN TLBEntryMax ELSE 0

\* the shift starts where the page is found, and at 0 if it is not found in a
\* full TLB; a page that is not found while there is room shifts nothing
ShiftFrom(p) ==
  IF Holds(TLB, next_tlb_pos, p)
  THEN CHOOSE i \in DOMAIN TLB : FirstHolding(TLB, next_tlb_pos, p, i)
  ELSE IF room THEN TLBEntryMax ELSE 0

\* the entry is written behind the used part, or at the end of a full TLB
InsertAt == IF room THEN next_tlb_pos ELSE TLBEntryMax - 1

TLBInsert(p, frame) ==
  /\ TLB' = [ShiftDown(ShiftFrom(p)) EXCEPT ![InsertAt] =
               [page_num |-> p, frame_num |-> frame]]
  /\ next_tlb_pos' = IF room THEN next_tlb_pos + 1 ELSE next_tlb_pos

\* getPage(), one action for each place the frame can come from
TLBHit ==
  \E i \in DOMAIN TLB :
    /\ FirstHolding(TLB, next_tlb_pos, page, i)
    /\ hits' = hits + 1
    /\ UNCHANGED <<phy_memory, page_table, next_pos, next_table_pos,
                   page_faults>>
    /\ TLBInsert(page, TLB[i].frame_num)
    /\ LoopBody(TLB[i].frame_num)

PageTableHit ==
  \E i \in DOMAIN page_table :
    /\ ~InTLB
    /\ FirstHolding(page_table, next_table_pos, page, i)
    /\ UNCHANGED <<phy_memory, page_table, next_pos, next_table_pos,
                   page_faults, hits>>
    /\ TLBInsert(page, page_table[i].frame_num)
    /\ LoopBody(page_table[i].frame_num)

PageFault ==
  /\ ~InTLB
  /\ ~InPageTable
  /\ ReadStoreFifo(page)
  /\ page_faults' = page_faults + 1
  /\ TLBInsert(page, next_pos' - 1)
  /\ LoopBody(next_pos' - 1)
  /\ UNCHANGED hits

Next == TLBHit \/ PageTableHit \/ PageFault

Spec == Init /\ [][Next]_vars

-----------------------------------------------------------------------------
\* The damage the zero entries can do: a line with a wrong byte is always for
\* page 0, and it was read from frame 0, which another page was loaded into
\* first.  Every other address is translated correctly.
OnlyPageZeroMistranslated ==
  address_c > 0 /\ out.val # ByteAt(out.virtual) =>
    /\ PageOf(out.virtual) = 0
    /\ out.physical \div PageSize = 0
    /\ page_table[0].page_num # 0

\* A page other than 0 faults exactly once; page 0 faults at most once, and
\* not at all when a zero entry answers for it first.
OneFaultPerPageButZero ==
  page_faults =
    Cardinality((touched \ {0}) \union
                {p \in {0} : Holds(page_table, next_table_pos, p)})

\* Page 0 apart, the TLB is the queue of the most recently used pages:
\* TLBInsert() searches before it inserts, so no page is in it twice and the
\* entries stand in the order in which their pages were last used, and a page
\* that has dropped out was used before every page that is still in.
TLBIsRecencyQueue ==
  \A i \in 0 .. next_tlb_pos - 1 :
    TLB[i].page_num # 0 =>
      /\ \A j \in 0 .. i - 1 :
           TLB[j].page_num # 0 =>
             last_use[TLB[j].page_num] < last_use[TLB[i].page_num]
      /\ \A p \in touched \ {0} :
           ~Holds(TLB, next_tlb_pos, p) =>
             last_use[p] < last_use[TLB[i].page_num]
=============================================================================
