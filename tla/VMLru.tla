-------------------------------- MODULE VMLru --------------------------------
(***************************************************************************)
(* main_pr2.c: fewer frames than pages (32 for 256), a victim chosen by    *)
(* the ages in LRUarray, and the round-robin TLB.                          *)
(*                                                                         *)
(* When a page is replaced its bytes go to frame tempLRU, but page_table   *)
(* and getPage() both give the page frame next_pos - 1, the last one, and  *)
(* the TLB keeps what it says of the page that was evicted.                *)
(***************************************************************************)
EXTENDS VMRoundRobin

VARIABLE LRUarray   \* frame -> its age

vars == <<commonVars, tempFIFO, LRUarray>>

ASSUME TableHoldsFrames == PTEntryMax >= FrameMax

TypeOK ==
  /\ CommonTypeOK
  /\ tempFIFO \in 0 .. TLBEntryMax - 1
  /\ LRUarray \in [Frames -> 0 .. address_c]

-----------------------------------------------------------------------------
Init ==
  /\ CommonInit
  /\ tempFIFO = 0
  /\ LRUarray = [f \in Frames |-> 0]

\* Faulty variant: the age of the frame that is used is not reset.
TouchNoReset(frame) == LRUarray' = [f \in Frames |-> LRUarray[f] + 1]

\* LRUarray[frame] = 0, and then one more for every frame
Touch(frame) ==
  LRUarray' = [f \in Frames |-> IF f = frame THEN 1 ELSE LRUarray[f] + 1]

\* tempLRU: the first frame whose age is the greatest
IsVictim(f) ==
  /\ \A g \in Frames : LRUarray[g] <= LRUarray[f]
  /\ \A g \in 0 .. f - 1 : LRUarray[g] < LRUarray[f]

\* getPage(), one action for each place the frame can come from
TLBHit ==
  \E i \in DOMAIN TLB :
    /\ FirstHolding(TLB, next_tlb_pos, page, i)
    /\ hits' = hits + 1
    /\ UNCHANGED <<phy_memory, page_table, next_pos, next_table_pos,
                   page_faults>>
    /\ Touch(TLB[i].frame_num)
    /\ TLBInsert(page, TLB[i].frame_num)
    /\ LoopBody(TLB[i].frame_num)

PageTableHit ==
  \E i \in DOMAIN page_table :
    /\ ~InTLB
    /\ FirstHolding(page_table, next_table_pos, page, i)
    /\ UNCHANGED <<phy_memory, page_table, next_pos, next_table_pos,
                   page_faults, hits>>
    /\ Touch(page_table[i].frame_num)
    /\ TLBInsert(page, page_table[i].frame_num)
    /\ LoopBody(page_table[i].frame_num)

\* what getPage() does around readStore()
Fault ==
  /\ ~InTLB
  /\ ~InPageTable
  /\ page_faults' = page_faults + 1
  /\ TLBInsert(page, next_pos' - 1)
  /\ LoopBody(next_pos' - 1)
  /\ UNCHANGED hits

\* readStore() with a free frame: the ages grow first, the new page has age 0
FaultFill ==
  /\ next_pos < FrameMax
  /\ LoadNextFrame(page)
  /\ LRUarray' = [[f \in Frames |-> LRUarray[f] + 1] EXCEPT ![next_pos] = 0]
  /\ Fault

\* readStore() without one
FaultReplace ==
  /\ next_pos >= FrameMax
  /\ \E tempLRU \in Frames :
       /\ IsVictim(tempLRU)
       /\ phy_memory' = [phy_memory EXCEPT ![tempLRU] = page]
       /\ page_table' = [page_table EXCEPT ![tempLRU] =
                           [page_num |-> page, frame_num |-> next_pos - 1]]
       /\ Touch(tempLRU)
  /\ UNCHANGED <<next_pos, next_table_pos>>
  /\ Fault

Next == TLBHit \/ PageTableHit \/ FaultFill \/ FaultReplace

Spec == Init /\ [][Next]_vars

-----------------------------------------------------------------------------
\* The page number in a table slot is the page in the frame of the same index,
\* and no page is in two frames, through fills and replacements alike.  (It is
\* frame_num that is wrong after a replacement.)
MemoryMatchesTable ==
  \A i \in 0 .. next_table_pos - 1 :
    /\ phy_memory[i] = page_table[i].page_num
    /\ \A j \in 0 .. i - 1 : page_table[j].page_num # page_table[i].page_num

\* As long as no page has been replaced every address is translated correctly.
RightUntilReplacement == page_faults <= FrameMax => TranslationCorrect

\* The pages in memory that a step takes out of it.
Evicted == {phy_memory[f] : f \in {g \in Frames : phy_memory'[g] # phy_memory[g]}}
             \ {Blank}

\* The first page to be replaced is the least recently used one, or the one
\* that was used right after it (the tie between a load and a hit).
FirstVictimNearlyLRU ==
  [][page_faults = FrameMax =>
       \A p \in Evicted : \A q \in {phy_memory[f] : f \in Frames} :
         last_use[p] <= last_use[q] + 1]_vars
=============================================================================
