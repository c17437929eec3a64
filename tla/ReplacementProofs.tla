-------------------------- MODULE ReplacementProofs --------------------------
(***************************************************************************)
(* Proofs about the programs that replace pages.  main_pr2.c, for every    *)
(* size of memory and TLB and every address file: memory and page table    *)
(* stay in step through replacements, until the first of them every        *)
(* translation is right, and its victim is nearly the least recently used  *)
(* page.  lab09_ex1.c, for every reference string: what pr_fifo() and      *)
(* pr_lru() count, and that pr_optimal() is optimal.                       *)
(***************************************************************************)
EXTENDS VMLru, PageReplacement, VMTableProofs, WellFoundedInduction

-----------------------------------------------------------------------------
(* Project 3, main_pr2.c.                                                  *)

\* Slots are used in the order of frames, and whatever they and the TLB say of a
\* page, it is a frame that has been loaded.
SlotsLoaded ==
  /\ next_table_pos = next_pos
  /\ \A i \in 0 .. next_pos - 1 : page_table[i].frame_num \in 0 .. next_pos - 1

TLBLoaded ==
  \A i \in 0 .. next_tlb_pos - 1 : TLB[i].frame_num \in 0 .. next_pos - 1

\* What a replacement destroys: the frame numbers of the table, the entries of
\* the TLB, and with them the translations.
NumbersRight ==
  /\ page_faults = next_pos
  /\ \A i \in 0 .. next_pos - 1 : page_table[i].frame_num = i
  /\ \A i \in 0 .. next_tlb_pos - 1 : Sound(TLB[i])
  /\ TranslationCorrect

Inv ==
  /\ TypeOK
  /\ SlotsLoaded
  /\ TLBLoaded
  /\ MemoryMatchesTable
  /\ page_faults <= FrameMax => NumbersRight

-----------------------------------------------------------------------------
\* An entry of the TLB after TLBInsert() is the new one or one that was in it.
LEMMA InsertedEntries ==
  ASSUME TLBTypeOK, tempFIFO \in 0 .. TLBEntryMax - 1,
         NEW p \in Pages, NEW frame \in Frames, TLBInsert(p, frame)
  PROVE  /\ TLBTypeOK'
         /\ tempFIFO' \in 0 .. TLBEntryMax - 1
         /\ \A i \in 0 .. next_tlb_pos' - 1 :
              \/ TLB'[i] = [page_num |-> p, frame_num |-> frame]
              \/ \E j \in 0 .. next_tlb_pos - 1 : TLB'[i] = TLB[j]
<1> DEFINE new == [page_num |-> p, frame_num |-> frame]
<1>1. new \in Entry
  BY DEF Entry
<1>2. \A n \in Nat \ {0}, x \in Int : x % n \in 0 .. n - 1
  OBVIOUS
<1>3. TLBEntryMax \in Nat \ {0}
  BY SizesAssumption
<1>4. CASE next_tlb_pos < TLBEntryMax
  <2>1. /\ TLB' = [TLB EXCEPT ![next_tlb_pos] = new]
        /\ next_tlb_pos' = next_tlb_pos + 1
        /\ UNCHANGED tempFIFO
    BY <1>4 DEF TLBInsert
  <2> HIDE DEF new
  <2>2. next_tlb_pos \in 0 .. TLBEntryMax - 1
    BY <1>3, <1>4 DEF TLBTypeOK
  <2>3. TLBTypeOK'
    BY <1>1, <1>3, <2>1, <2>2 DEF TLBTypeOK
  <2>4. \A i \in 0 .. next_tlb_pos' - 1 :
          \/ TLB'[i] = new
          \/ \E j \in 0 .. next_tlb_pos - 1 : TLB'[i] = TLB[j]
    BY <1>3, <2>1, <2>2 DEF TLBTypeOK
  <2> QED
    BY <2>1, <2>3, <2>4 DEF new
<1>5. CASE ~(next_tlb_pos < TLBEntryMax)
  <2>1. /\ TLB' = [TLB EXCEPT ![tempFIFO] = new]
        /\ tempFIFO' = (tempFIFO + 1) % TLBEntryMax
        /\ UNCHANGED next_tlb_pos
    BY <1>5 DEF TLBInsert
  <2> HIDE DEF new
  <2>2. TLBTypeOK'
    BY <1>1, <2>1 DEF TLBTypeOK
  <2>3. tempFIFO' \in 0 .. TLBEntryMax - 1
    BY <1>2, <1>3, <2>1
  <2>4. \A i \in 0 .. next_tlb_pos' - 1 :
          \/ TLB'[i] = new
          \/ \E j \in 0 .. next_tlb_pos - 1 : TLB'[i] = TLB[j]
    BY <1>3, <2>1 DEF TLBTypeOK
  <2> QED
    BY <2>2, <2>3, <2>4 DEF new
<1> QED
  BY <1>4, <1>5

\* Ages grow by one, or are reset, with every access.
LEMMA TouchType ==
  ASSUME LRUarray \in [Frames -> 0 .. address_c], address_c \in Nat,
         address_c' = address_c + 1, NEW frame \in Frames, Touch(frame)
  PROVE  LRUarray' \in [Frames -> 0 .. address_c']
<1>1. \A f \in Frames :
        (IF f = frame THEN 1 ELSE LRUarray[f] + 1) \in 0 .. address_c + 1
  OBVIOUS
<1> QED
  BY <1>1 DEF Touch

\* The invariant of main_pr2.c holds at the start.
LEMMA InitInv == Init => Inv
<1> SUFFICES ASSUME Init PROVE Inv
  OBVIOUS
<1>1. CommonTypeOK /\ TableInv /\ TranslationCorrect
  BY InitTables DEF Init
<1>2. TypeOK
  BY <1>1, SizesAssumption DEF Init, CommonInit, TypeOK
<1>3. next_pos = 0 /\ next_table_pos = 0 /\ next_tlb_pos = 0 /\ page_faults = 0
  BY DEF Init, CommonInit
<1> QED
  BY <1>1, <1>2, <1>3
  DEF Inv, SlotsLoaded, TLBLoaded, MemoryMatchesTable, NumbersRight

\* What the four actions have in common.  The tables are given; what is left is
\* the TLB, the counters and the line that is printed.
LEMMA ServeKeepsInv ==
  ASSUME Inv, page \in Pages,
         TablesTypeOK', SlotsLoaded', MemoryMatchesTable',
         LRUarray' \in [Frames -> 0 .. address_c'],
         next_pos' >= next_pos,
         NEW frame \in 0 .. next_pos' - 1,
         page_faults' \in {page_faults, page_faults + 1},
         hits' \in {hits, hits + 1},
         page_faults' <= FrameMax =>
           /\ page_faults' = next_pos'
           /\ \A i \in 0 .. next_pos' - 1 : page_table'[i].frame_num = i
           /\ \A f \in 0 .. next_pos - 1 : phy_memory'[f] = phy_memory[f]
           /\ phy_memory'[frame] = page,
         TLBInsert(page, frame), LoopBody(frame)
  PROVE  Inv'
<1> DEFINE new == [page_num |-> page, frame_num |-> frame]
<1>1. /\ next_pos \in 0 .. FrameMax /\ next_pos' \in 0 .. FrameMax
      /\ page_faults \in Int /\ FrameMax \in Int
  BY SizesAssumption DEF Inv, TypeOK, CommonTypeOK, TablesTypeOK, CountersTypeOK
<1>2. frame \in Frames
  BY <1>1, LoadedFrame
<1>3. /\ TLBTypeOK'
      /\ tempFIFO' \in 0 .. TLBEntryMax - 1
      /\ \A i \in 0 .. next_tlb_pos' - 1 :
           TLB'[i] = new \/ \E j \in 0 .. next_tlb_pos - 1 : TLB'[i] = TLB[j]
  BY <1>2, InsertedEntries DEF Inv, TypeOK, CommonTypeOK
<1>4. FilesTypeOK' /\ CountersTypeOK'
  BY <1>2, LoopKeepsFiles, LoopKeepsCounters DEF Inv, TypeOK, CommonTypeOK
<1>5. TypeOK'
  BY <1>3, <1>4 DEF TypeOK, CommonTypeOK
<1>6. TLBLoaded'
  BY <1>1, <1>3 DEF Inv, TLBLoaded
<1>7. ASSUME page_faults' <= FrameMax PROVE NumbersRight'
  <2>1. NumbersRight
    BY <1>1, <1>7 DEF Inv
  <2>2. ASSUME NEW i \in 0 .. next_tlb_pos' - 1
        PROVE  phy_memory'[TLB'[i].frame_num] = TLB'[i].page_num
    <3>1. CASE TLB'[i] = new
      BY <1>7, <3>1
    <3>2. ASSUME NEW j \in 0 .. next_tlb_pos - 1, TLB'[i] = TLB[j]
          PROVE  phy_memory'[TLB'[i].frame_num] = TLB'[i].page_num
      BY <1>7, <2>1, <3>2 DEF Inv, TLBLoaded, NumbersRight, Sound
    <3> QED
      BY <1>3, <3>1, <3>2
  <2>3. TranslationCorrect'
    BY <1>7, LoopPrintsRight
  <2> QED
    BY <1>7, <2>2, <2>3 DEF NumbersRight, Sound
<1> QED
  BY <1>5, <1>6, <1>7 DEF Inv

\* A hit leaves the tables and memory as they are.
LEMMA UnchangedTables ==
  ASSUME Inv, UNCHANGED <<phy_memory, page_table, next_pos, next_table_pos>>
  PROVE  TablesTypeOK' /\ SlotsLoaded' /\ MemoryMatchesTable'
  BY DEF Inv, TypeOK, CommonTypeOK, TablesTypeOK, SlotsLoaded, MemoryMatchesTable

\* A TLB hit keeps the invariant: memory and table stay, and TLBInsert() is
\* given the number that was in the TLB.
LEMMA TLBHitInv == Inv /\ TLBHit => Inv'
<1> SUFFICES ASSUME Inv, TLBHit PROVE Inv'
  OBVIOUS
<1>1. PICK i \in DOMAIN TLB :
        /\ FirstHolding(TLB, next_tlb_pos, page, i)
        /\ hits' = hits + 1
        /\ UNCHANGED <<phy_memory, page_table, next_pos, next_table_pos,
                       page_faults>>
        /\ Touch(TLB[i].frame_num)
        /\ TLBInsert(page, TLB[i].frame_num)
        /\ LoopBody(TLB[i].frame_num)
  BY DEF TLBHit
<1> DEFINE frame == TLB[i].frame_num
<1>2. frame \in 0 .. next_pos - 1 /\ page \in Pages /\ next_pos \in 0 .. FrameMax
  BY <1>1, CurrentPage
  DEF Inv, TypeOK, CommonTypeOK, TablesTypeOK, TLBLoaded, FirstHolding
<1>3. frame \in Frames
  BY <1>2, LoadedFrame
<1>4. LRUarray' \in [Frames -> 0 .. address_c']
  BY <1>1, <1>3, TouchType DEF Inv, TypeOK, CommonTypeOK, CountersTypeOK, LoopBody
<1>5. TablesTypeOK' /\ SlotsLoaded' /\ MemoryMatchesTable'
  BY <1>1, UnchangedTables
<1>6. page_faults <= FrameMax =>
        NumbersRight /\ phy_memory[frame] = page
  BY <1>1 DEF Inv, NumbersRight, Sound, FirstHolding
<1> HIDE DEF frame
<1>7. TLBInsert(page, frame) /\ LoopBody(frame)
  BY <1>1 DEF frame
<1> QED
  BY <1>1, <1>2, <1>4, <1>5, <1>6, <1>7, ServeKeepsInv DEF NumbersRight

\* So does a page-table hit, which also copies a slot of the table to the TLB.
LEMMA PageTableHitInv == Inv /\ PageTableHit => Inv'
<1> SUFFICES ASSUME Inv, PageTableHit PROVE Inv'
  OBVIOUS
<1>1. PICK i \in DOMAIN page_table :
        /\ FirstHolding(page_table, next_table_pos, page, i)
        /\ UNCHANGED <<phy_memory, page_table, next_pos, next_table_pos,
                       page_faults, hits>>
        /\ Touch(page_table[i].frame_num)
        /\ TLBInsert(page, page_table[i].frame_num)
        /\ LoopBody(page_table[i].frame_num)
  BY DEF PageTableHit
<1> DEFINE frame == page_table[i].frame_num
<1>2. frame \in 0 .. next_pos - 1 /\ page \in Pages /\ next_pos \in 0 .. FrameMax
  BY <1>1, CurrentPage
  DEF Inv, TypeOK, CommonTypeOK, TablesTypeOK, SlotsLoaded, FirstHolding
<1>3. frame \in Frames
  BY <1>2, LoadedFrame
<1>4. LRUarray' \in [Frames -> 0 .. address_c']
  BY <1>1, <1>3, TouchType DEF Inv, TypeOK, CommonTypeOK, CountersTypeOK, LoopBody
<1>5. TablesTypeOK' /\ SlotsLoaded' /\ MemoryMatchesTable'
  BY <1>1, UnchangedTables
<1>6. page_faults <= FrameMax =>
        NumbersRight /\ phy_memory[frame] = page
  BY <1>1
  DEF Inv, NumbersRight, SlotsLoaded, MemoryMatchesTable, FirstHolding
<1> HIDE DEF frame
<1>7. TLBInsert(page, frame) /\ LoopBody(frame)
  BY <1>1 DEF frame
<1> QED
  BY <1>1, <1>2, <1>4, <1>5, <1>6, <1>7, ServeKeepsInv DEF NumbersRight

\* A fault while there is room: the page gets the next slot and the next frame.
LEMMA FaultFillInv == Inv /\ FaultFill => Inv'
<1> SUFFICES ASSUME Inv, FaultFill PROVE Inv'
  OBVIOUS
<1>1. /\ next_pos \in Nat /\ next_pos < FrameMax
      /\ next_table_pos = next_pos /\ page \in Pages
      /\ FrameMax \in Nat /\ PTEntryMax \in Nat /\ PTEntryMax >= FrameMax
  BY CurrentPage, SizesAssumption, TableHoldsFrames
  DEF Inv, TypeOK, CommonTypeOK, TablesTypeOK, SlotsLoaded, FaultFill
<1>2. /\ phy_memory' = [phy_memory EXCEPT ![next_pos] = page]
      /\ page_table' = [page_table EXCEPT ![next_pos] =
                          [page_num |-> page, frame_num |-> next_pos]]
      /\ next_pos' = next_pos + 1
      /\ next_table_pos' = next_pos + 1
  BY <1>1 DEF FaultFill, LoadNextFrame
<1>3. next_pos \in Frames /\ next_pos \in 0 .. PTEntryMax - 1
  BY <1>1 DEF Frames
<1>4. /\ phy_memory \in [Frames -> Pages \union {Blank}]
      /\ page_table \in [0 .. PTEntryMax - 1 -> Entry]
  BY DEF Inv, TypeOK, CommonTypeOK, TablesTypeOK
<1>5. [page_num |-> page, frame_num |-> next_pos] \in Entry
  BY <1>1, <1>3 DEF Entry
<1>6. TablesTypeOK'
  <2>1. phy_memory' \in [Frames -> Pages \union {Blank}]
    BY <1>1, <1>2, <1>4
  <2>2. page_table' \in [0 .. PTEntryMax - 1 -> Entry]
    BY <1>2, <1>4, <1>5
  <2> QED
    BY <1>1, <1>2, <2>1, <2>2 DEF TablesTypeOK
<1>7. SlotsLoaded'
  BY <1>1, <1>2, <1>3, <1>4 DEF Inv, SlotsLoaded
<1>8. \A i \in 0 .. next_pos - 1 : page_table[i].page_num # page
  BY <1>1 DEF FaultFill, Fault, InPageTable, Holds
<1>9. MemoryMatchesTable'
  BY <1>1, <1>2, <1>3, <1>4, <1>8 DEF Inv, MemoryMatchesTable, Frames
<1>10. LRUarray' \in [Frames -> 0 .. address_c']
  <2>1. LRUarray' = [[f \in Frames |-> LRUarray[f] + 1] EXCEPT ![next_pos] = 0]
        /\ address_c' = address_c + 1
    BY DEF FaultFill, Fault, LoopBody
  <2>2. LRUarray \in [Frames -> 0 .. address_c] /\ address_c \in Nat
    BY DEF Inv, TypeOK, CommonTypeOK, CountersTypeOK
  <2> DEFINE grown == [f \in Frames |-> LRUarray[f] + 1]
  <2>3. grown \in [Frames -> 0 .. address_c'] /\ 0 \in 0 .. address_c'
    BY <2>1, <2>2
  <2>4. LRUarray' = [grown EXCEPT ![next_pos] = 0]
    BY <2>1
  <2> HIDE DEF grown
  <2> QED
    BY <2>3, <2>4
<1>11. /\ page_faults' = page_faults + 1 /\ hits' = hits
       /\ TLBInsert(page, next_pos) /\ LoopBody(next_pos)
  BY <1>1, <1>2 DEF FaultFill, Fault
<1>12. page_faults' <= FrameMax =>
         /\ page_faults' = next_pos'
         /\ \A i \in 0 .. next_pos' - 1 : page_table'[i].frame_num = i
         /\ \A f \in 0 .. next_pos - 1 : phy_memory'[f] = phy_memory[f]
         /\ phy_memory'[next_pos] = page
  <2>1. page_faults \in Int
    BY DEF Inv, TypeOK, CommonTypeOK, CountersTypeOK
  <2> QED
    BY <1>1, <1>2, <1>3, <1>4, <1>11, <2>1 DEF Inv, NumbersRight, Frames
<1>13. next_pos' >= next_pos /\ next_pos \in 0 .. next_pos' - 1
  BY <1>1, <1>2
<1> QED
  BY <1>1, <1>6, <1>7, <1>9, <1>10, <1>11, <1>12, <1>13, ServeKeepsInv

\* A fault without room: the victim's slot and frame are used again, and slots
\* and frames still go together, whichever frame the victim is.
LEMMA FaultReplaceInv == Inv /\ FaultReplace => Inv'
<1> SUFFICES ASSUME Inv, FaultReplace PROVE Inv'
  OBVIOUS
<1>1. /\ next_pos = FrameMax /\ next_table_pos = FrameMax /\ page \in Pages
      /\ FrameMax \in Nat \ {0} /\ PTEntryMax \in Nat /\ PTEntryMax >= FrameMax
  BY CurrentPage, SizesAssumption, TableHoldsFrames
  DEF Inv, TypeOK, CommonTypeOK, TablesTypeOK, SlotsLoaded, FaultReplace
<1>2. PICK tempLRU \in Frames :
        /\ phy_memory' = [phy_memory EXCEPT ![tempLRU] = page]
        /\ page_table' = [page_table EXCEPT ![tempLRU] =
                            [page_num |-> page, frame_num |-> next_pos - 1]]
        /\ Touch(tempLRU)
  BY DEF FaultReplace
<1>3. UNCHANGED <<next_pos, next_table_pos>>
  BY DEF FaultReplace
<1>4. /\ phy_memory \in [Frames -> Pages \union {Blank}]
      /\ page_table \in [0 .. PTEntryMax - 1 -> Entry]
      /\ page_faults \in Int
  BY DEF Inv, TypeOK, CommonTypeOK, TablesTypeOK, CountersTypeOK
<1>5. [page_num |-> page, frame_num |-> next_pos - 1] \in Entry
  BY <1>1 DEF Entry, Frames
<1>6. TablesTypeOK'
  <2>1. phy_memory' \in [Frames -> Pages \union {Blank}]
    BY <1>1, <1>2, <1>4
  <2>2. page_table' \in [0 .. PTEntryMax - 1 -> Entry]
    BY <1>2, <1>4, <1>5
  <2> QED
    BY <1>1, <1>3, <2>1, <2>2 DEF TablesTypeOK
<1>7. SlotsLoaded'
  BY <1>1, <1>2, <1>3, <1>4 DEF Inv, SlotsLoaded
<1>8. \A i \in 0 .. FrameMax - 1 : page_table[i].page_num # page
  BY <1>1 DEF FaultReplace, Fault, InPageTable, Holds
<1>9. MemoryMatchesTable'
  BY <1>1, <1>2, <1>3, <1>4, <1>8 DEF Inv, MemoryMatchesTable, Frames
<1>10. LRUarray' \in [Frames -> 0 .. address_c']
  <2>1. address_c' = address_c + 1
    BY DEF FaultReplace, Fault, LoopBody
  <2> QED
    BY <1>2, <2>1, TouchType DEF Inv, TypeOK, CommonTypeOK, CountersTypeOK
<1>11. /\ page_faults' = page_faults + 1 /\ hits' = hits
       /\ TLBInsert(page, next_pos - 1) /\ LoopBody(next_pos - 1)
  BY <1>1, <1>3 DEF FaultReplace, Fault
<1>12. ~(page_faults' <= FrameMax)
  BY <1>1, <1>4, <1>11 DEF Inv, NumbersRight
<1>13. next_pos' >= next_pos /\ next_pos - 1 \in 0 .. next_pos' - 1
  BY <1>1, <1>3
<1> QED
  BY <1>1, <1>6, <1>7, <1>9, <1>10, <1>11, <1>12, <1>13, ServeKeepsInv

\* The invariant holds throughout main_pr2.c.
LEMMA SpecInv == Spec => []Inv
<1>1. Inv /\ [Next]_vars => Inv'
  <2> SUFFICES ASSUME Inv, UNCHANGED vars PROVE Inv'
    BY TLBHitInv, PageTableHitInv, FaultFillInv, FaultReplaceInv DEF Next
  <2> QED
    BY DEF vars, commonVars, Inv, TypeOK, CommonTypeOK, TablesTypeOK, TLBTypeOK,
           CountersTypeOK, FilesTypeOK, SlotsLoaded, TLBLoaded, MemoryMatchesTable,
           NumbersRight, Sound, TranslationCorrect
<1> QED
  BY InitInv, <1>1, PTL DEF Spec

-----------------------------------------------------------------------------
\* Every variable of main_pr2.c keeps its type, replacements included: no index
\* of the tables, of the TLB or of LRUarray leaves its array.
THEOREM TypeCorrect == Spec => []TypeOK
  BY SpecInv, PTL DEF Inv

\* Through fills and replacements slot i of the table describes the page in frame
\* i, and no page is in memory twice, whatever the ages are.
THEOREM MemoryInStep == Spec => []MemoryMatchesTable
  BY SpecInv, PTL DEF Inv

\* main_pr2.c prints the right bytes up to its first replacement.
THEOREM TranslationUntilReplacement == Spec => []RightUntilReplacement
<1>1. Inv => RightUntilReplacement
  BY DEF Inv, NumbersRight, RightUntilReplacement
<1> QED
  BY <1>1, SpecInv, PTL

-----------------------------------------------------------------------------
(* The first victim.                                                       *)

\* Until a page has been replaced, the age of a frame is the number of accesses
\* since its page was used, or one more if that use was not the one that loaded it.
AgesFollowUses ==
  page_faults <= FrameMax =>
    \A f \in 0 .. next_pos - 1 :
      LRUarray[f] + last_use[phy_memory[f]] \in {address_c, address_c + 1}

\* A page that is found, wherever it is found, is in one frame only, and until
\* the first replacement that is the frame whose age is reset.
LEMMA FrameFound ==
  ASSUME Inv, page_faults <= FrameMax, TLBHit \/ PageTableHit
  PROVE  \E frame \in 0 .. next_pos - 1 :
           /\ phy_memory[frame] = page
           /\ \A f \in 0 .. next_pos - 1 : phy_memory[f] = page => f = frame
           /\ Touch(frame)
<1>1. NumbersRight /\ SlotsLoaded /\ MemoryMatchesTable /\ TLBLoaded
  BY DEF Inv
<1>2. next_pos \in Nat /\ next_table_pos = next_pos
  BY <1>1 DEF Inv, TypeOK, CommonTypeOK, TablesTypeOK, SlotsLoaded
<1>3. \A f, g \in 0 .. next_pos - 1 : phy_memory[f] = phy_memory[g] => f = g
  <2> SUFFICES ASSUME NEW f \in 0 .. next_pos - 1, NEW g \in 0 .. next_pos - 1, g < f
               PROVE  phy_memory[f] # phy_memory[g]
    BY <1>2
  <2>1. g \in 0 .. f - 1
    BY <1>2
  <2> QED
    BY <1>1, <1>2, <2>1 DEF MemoryMatchesTable
<1>4. \E frame \in 0 .. next_pos - 1 : phy_memory[frame] = page /\ Touch(frame)
  <2>1. CASE TLBHit
    <3>1. PICK i \in DOMAIN TLB :
            FirstHolding(TLB, next_tlb_pos, page, i) /\ Touch(TLB[i].frame_num)
      BY <2>1 DEF TLBHit
    <3>2. i \in 0 .. next_tlb_pos - 1 /\ TLB[i].page_num = page
      BY <3>1 DEF FirstHolding
    <3> QED
      BY <1>1, <3>1, <3>2 DEF NumbersRight, Sound, TLBLoaded
  <2>2. CASE PageTableHit
    <3>1. PICK i \in DOMAIN page_table :
            /\ FirstHolding(page_table, next_table_pos, page, i)
            /\ Touch(page_table[i].frame_num)
      BY <2>2 DEF PageTableHit
    <3>2. i \in 0 .. next_pos - 1 /\ page_table[i].page_num = page
      BY <1>2, <3>1 DEF FirstHolding
    <3>3. page_table[i].frame_num = i /\ phy_memory[i] = page
      BY <1>1, <1>2, <3>2 DEF NumbersRight, MemoryMatchesTable
    <3> QED
      BY <3>1, <3>2, <3>3
  <2> QED
    BY <2>1, <2>2
<1> QED
  BY <1>3, <1>4

\* Each access makes the frames it does not use older by one.
LEMMA AgesStep == Inv /\ AgesFollowUses /\ [Next]_vars => AgesFollowUses'
<1> SUFFICES ASSUME Inv, AgesFollowUses, [Next]_vars, page_faults' <= FrameMax
             PROVE  \A f \in 0 .. next_pos' - 1 :
                      LRUarray'[f] + last_use'[phy_memory'[f]]
                        \in {address_c', address_c' + 1}
  BY DEF AgesFollowUses
<1>1. /\ address_c \in Nat /\ page_faults \in Int /\ FrameMax \in Nat
      /\ next_pos \in 0 .. FrameMax /\ page \in Pages
      /\ last_use \in [Pages -> 0 .. address_c]
      /\ LRUarray \in [Frames -> 0 .. address_c]
      /\ phy_memory \in [Frames -> Pages \union {Blank}]
  BY CurrentPage, SizesAssumption
  DEF Inv, TypeOK, CommonTypeOK, TablesTypeOK, CountersTypeOK
<1>2. \A f \in 0 .. next_pos - 1 : f \in Frames /\ phy_memory[f] \in Pages
  <2>1. \A f \in 0 .. next_pos - 1 : f \in Frames
    BY <1>1, LoadedFrame
  <2>2. ASSUME NEW f \in 0 .. next_pos - 1 PROVE phy_memory[f] \in Pages
    <3>1. phy_memory[f] = page_table[f].page_num /\ f \in 0 .. PTEntryMax - 1
      BY <1>1, TableHoldsFrames, SizesAssumption
      DEF Inv, MemoryMatchesTable, SlotsLoaded
    <3>2. page_table[f] \in Entry
      BY <3>1 DEF Inv, TypeOK, CommonTypeOK, TablesTypeOK
    <3> QED
      BY <3>1, <3>2 DEF Entry
  <2> QED
    BY <2>1, <2>2
<1>3. CASE TLBHit \/ PageTableHit
  <2>1. /\ UNCHANGED <<phy_memory, next_pos, page_faults>>
        /\ address_c' = address_c + 1
        /\ last_use' = [last_use EXCEPT ![page] = address_c + 1]
    BY <1>3 DEF TLBHit, PageTableHit, LoopBody
  <2>2. PICK frame \in 0 .. next_pos - 1 :
          /\ phy_memory[frame] = page
          /\ \A f \in 0 .. next_pos - 1 : phy_memory[f] = page => f = frame
          /\ Touch(frame)
    BY <1>3, <2>1, FrameFound
  <2>3. ASSUME NEW f \in 0 .. next_pos - 1
        PROVE  LRUarray'[f] + last_use'[phy_memory[f]]
                 \in {address_c + 1, address_c + 2}
    <3>1. CASE f = frame
      <4>1. LRUarray'[f] = 1 /\ last_use'[phy_memory[f]] = address_c + 1
        BY <1>1, <1>2, <2>1, <2>2, <3>1 DEF Touch
      <4> QED
        BY <1>1, <4>1
    <3>2. CASE f # frame
      <4>1. /\ LRUarray'[f] = LRUarray[f] + 1
            /\ last_use'[phy_memory[f]] = last_use[phy_memory[f]]
        BY <1>1, <1>2, <2>1, <2>2, <3>2 DEF Touch
      <4>2. LRUarray[f] \in Int /\ last_use[phy_memory[f]] \in Int
        BY <1>1, <1>2
      <4>3. LRUarray[f] + last_use[phy_memory[f]] \in {address_c, address_c + 1}
        BY <2>1 DEF AgesFollowUses
      <4> QED
        BY <1>1, <4>1, <4>2, <4>3
    <3> QED
      BY <3>1, <3>2
  <2> QED
    BY <1>1, <2>1, <2>3
<1>4. CASE FaultFill
  <2>1. /\ next_pos < FrameMax /\ next_pos' = next_pos + 1
        /\ phy_memory' = [phy_memory EXCEPT ![next_pos] = page]
        /\ LRUarray' = [[f \in Frames |-> LRUarray[f] + 1] EXCEPT ![next_pos] = 0]
        /\ page_faults' = page_faults + 1 /\ address_c' = address_c + 1
        /\ last_use' = [last_use EXCEPT ![page] = address_c + 1]
    BY <1>4 DEF FaultFill, LoadNextFrame, Fault, LoopBody
  <2>2. next_pos \in Frames
    BY <1>1, <2>1 DEF Frames
  <2>3. \A f \in 0 .. next_pos - 1 : phy_memory[f] # page
    BY <1>4
    DEF FaultFill, Fault, InPageTable, Holds, Inv, MemoryMatchesTable, SlotsLoaded
  <2>4. ASSUME NEW f \in 0 .. next_pos
        PROVE  LRUarray'[f] + last_use'[phy_memory'[f]]
                 \in {address_c + 1, address_c + 2}
    <3>1. CASE f = next_pos
      <4>1. LRUarray'[f] = 0 /\ last_use'[phy_memory'[f]] = address_c + 1
        BY <1>1, <2>1, <2>2, <3>1
      <4> QED
        BY <1>1, <4>1
    <3>2. CASE f # next_pos
      <4>1. f \in 0 .. next_pos - 1 /\ f \in Frames /\ phy_memory[f] \in Pages
        BY <1>1, <1>2, <3>2
      <4>2. phy_memory'[f] = phy_memory[f] /\ phy_memory[f] # page
        BY <1>1, <2>1, <2>3, <3>2, <4>1
      <4>3. /\ LRUarray'[f] = LRUarray[f] + 1
            /\ last_use'[phy_memory'[f]] = last_use[phy_memory[f]]
        BY <1>1, <2>1, <3>2, <4>1, <4>2
      <4>4. LRUarray[f] \in Int /\ last_use[phy_memory[f]] \in Int
        BY <1>1, <4>1
      <4>5. LRUarray[f] + last_use[phy_memory[f]] \in {address_c, address_c + 1}
        BY <1>1, <2>1, <4>1 DEF AgesFollowUses
      <4> QED
        BY <1>1, <4>3, <4>4, <4>5
    <3> QED
      BY <3>1, <3>2
  <2>5. 0 .. next_pos' - 1 = 0 .. next_pos
    BY <1>1, <2>1
  <2> QED
    BY <1>1, <2>1, <2>4, <2>5
<1>5. CASE FaultReplace
  <2>1. page_faults' = page_faults + 1 /\ next_pos = FrameMax
    BY <1>1, <1>5 DEF FaultReplace, Fault
  <2>2. page_faults = next_pos
    BY <1>1, <2>1 DEF Inv, NumbersRight
  <2> QED
    BY <1>1, <2>1, <2>2
<1>6. CASE UNCHANGED vars
  BY <1>6 DEF vars, commonVars, AgesFollowUses
<1> QED
  BY <1>3, <1>4, <1>5, <1>6 DEF Next

\* The page main_pr2.c replaces first is the least recently used one, or was used
\* right after it, for every number of frames and every address file.
THEOREM FirstVictim == Spec => FirstVictimNearlyLRU
<1>1. Init => AgesFollowUses
  BY DEF Init, CommonInit, AgesFollowUses
<1>2. ASSUME Inv, AgesFollowUses, [Next]_vars, page_faults = FrameMax,
             NEW p \in Evicted, NEW q \in {phy_memory[f] : f \in Frames}
      PROVE  last_use[p] <= last_use[q] + 1
  <2>1. PICK v \in Frames : phy_memory'[v] # phy_memory[v] /\ p = phy_memory[v]
    BY <1>2 DEF Evicted
  <2>2. PICK g \in Frames : q = phy_memory[g]
    BY <1>2
  <2>3. /\ page_faults <= FrameMax /\ next_pos = FrameMax /\ FrameMax \in Nat
        /\ address_c \in Nat /\ LRUarray \in [Frames -> 0 .. address_c]
        /\ last_use \in [Pages -> 0 .. address_c]
    BY <1>2, SizesAssumption
    DEF Inv, NumbersRight, TypeOK, CommonTypeOK, CountersTypeOK
  <2>4. IsVictim(v)
    <3>1. FaultReplace
      BY <1>2, <2>1, <2>3
      DEF Next, TLBHit, PageTableHit, FaultFill, vars, commonVars
    <3>2. PICK tempLRU \in Frames :
            IsVictim(tempLRU) /\ phy_memory' = [phy_memory EXCEPT ![tempLRU] = page]
      BY <3>1 DEF FaultReplace
    <3>3. phy_memory \in [Frames -> Pages \union {Blank}]
      BY <1>2 DEF Inv, TypeOK, CommonTypeOK, TablesTypeOK
    <3>4. v = tempLRU
      BY <2>1, <3>2, <3>3
    <3> QED
      BY <3>2, <3>4
  <2>5. LRUarray[g] <= LRUarray[v]
    BY <2>4 DEF IsVictim
  <2>6. /\ LRUarray[v] + last_use[p] \in {address_c, address_c + 1}
        /\ LRUarray[g] + last_use[q] \in {address_c, address_c + 1}
    BY <1>2, <2>1, <2>2, <2>3 DEF AgesFollowUses, Frames
  <2>7. p \in Pages /\ q \in Pages
    <3>1. \A f \in Frames : phy_memory[f] \in Pages
      <4> TAKE f \in Frames
      <4>1. f \in 0 .. next_table_pos - 1 /\ f \in 0 .. PTEntryMax - 1
        BY <1>2, <2>3, TableHoldsFrames, SizesAssumption DEF Inv, SlotsLoaded, Frames
      <4>2. phy_memory[f] = page_table[f].page_num
        BY <1>2, <4>1 DEF Inv, MemoryMatchesTable
      <4>3. page_table[f] \in Entry
        BY <1>2, <4>1 DEF Inv, TypeOK, CommonTypeOK, TablesTypeOK
      <4> QED
        BY <4>2, <4>3 DEF Entry
    <3> QED
      BY <2>1, <2>2, <3>1
  <2>8. /\ LRUarray[v] \in Int /\ LRUarray[g] \in Int
        /\ last_use[p] \in Int /\ last_use[q] \in Int
    BY <2>3, <2>7
  <2> QED
    BY <2>3, <2>5, <2>6, <2>8
<1>3. Inv /\ AgesFollowUses /\ [Next]_vars =>
        [page_faults = FrameMax =>
           \A p \in Evicted : \A q \in {phy_memory[f] : f \in Frames} :
             last_use[p] <= last_use[q] + 1]_vars
  BY <1>2
<1> QED
  BY SpecInv, AgesStep, <1>1, <1>3, PTL DEF Spec, FirstVictimNearlyLRU

-----------------------------------------------------------------------------
(* Lab 9: the invariant.                                                   *)

\* While an algorithm runs the argument was accepted, and no algorithm counts
\* more faults than it has seen references.
Running ==
  /\ running \in {"fifo", "lru", "opt"} => Accepted
  /\ running \in {"main", "fifo"} => pf_lru = 0
  /\ running \in {"main", "fifo", "lru"} => pf_opt = 0
  /\ running = "main" => nextRef = 1 /\ pf_fifo = 0 /\ lost = 0 /\ FRAME = frame_init
  /\ running = "fifo" => pf_fifo < nextRef
  /\ running = "lru" => pf_lru < nextRef
  /\ running = "opt" => pf_opt < nextRef
  /\ nextRef = 1 /\ running \in {"fifo", "lru"} => FRAME = frame_init
  /\ nextRef = 1 /\ running = "fifo" => lost = 0 /\ pf_fifo = 0
  /\ lost < nextRef
  /\ running # "fifo" => lost = 0

\* Before pr_fifo() has stored a page in FRAME all its stores are lost, and the
\* first of them leaves fptr less than tot_frames below 0.
NothingStored ==
  fptr \notin Slots =>
    /\ FRAME = frame_init
    /\ lost = nextRef - 1 /\ pf_fifo = lost
    /\ lost = 0 \/ (fptr < 0 /\ lost - fptr <= tot_frames)

\* The slot of the fault that is a faults back
SlotBack(a) == IF a <= fptr THEN fptr - a ELSE fptr - a + tot_frames

\* The last tot_frames of the faults F are in FRAME, and nothing else is.
Queued(F) ==
  /\ \A l \in F : FaultsSince(F, l, nextRef) <= tot_frames =>
       FRAME[SlotBack(FaultsSince(F, l, nextRef))] = page_refs[l]
  /\ \A k \in Slots : FRAME[k] # Empty =>
       \E l \in F : /\ FaultsSince(F, l, nextRef) <= tot_frames
                    /\ k = SlotBack(FaultsSince(F, l, nextRef))

FifoInv ==
  running = "fifo" =>
    /\ NothingStored
    /\ lost <= tot_frames
    /\ \E F \in SUBSET (lost + 1 .. nextRef - 1) :
         /\ IsFifo(F, lost + 1, nextRef - 1, tot_frames)
         /\ pf_fifo = lost + Cardinality(F)
         /\ Queued(F)

\* FRAME is the stack of LRU: in front of each page are those used since its
\* last use, and a page that has left it has been followed by all that are in it.
Stacked ==
  /\ \A k \in Slots : FRAME[k] # Empty =>
       /\ UsedBefore(FRAME[k], nextRef)
       /\ UsedSince(FRAME[k], nextRef) = {FRAME[j] : j \in 0 .. k - 1}
  /\ \A k \in Slots : \A j \in 0 .. k - 1 :
       IF FRAME[j] = Empty THEN FRAME[k] = Empty ELSE FRAME[k] # FRAME[j]
  /\ \A p \in RefPages : UsedBefore(p, nextRef) /\ (\A k \in Slots : FRAME[k] # p) =>
       \A k \in Slots : FRAME[k] \in UsedSince(p, nextRef)

LruInv ==
  /\ running = "lru" =>
       Stacked /\ pf_lru = Cardinality(LruFaults(tot_frames - 1, nextRef - 1))
  /\ LruCountsOneFrameFewer

PrInv == PrTypeOK /\ Running /\ FifoInv /\ LruInv

-----------------------------------------------------------------------------
\* The references are pages, and no page is mistaken for an empty slot.
LEMMA Refs ==
  ASSUME PrTypeOK
  PROVE  /\ tot_refs \in Nat
         /\ page_refs \in [1 .. tot_refs -> RefPages]
         /\ Empty \notin RefPages
         /\ Empty \in Int
         /\ tot_frames \in Int
         /\ nextRef <= tot_refs => ref_page \in RefPages
<1>1. PICK r \in RefCounts : page_refs \in [1 .. r -> RefPages]
  BY DEF PrTypeOK
<1>2. r \in Nat
  BY CountsAreNumbers
<1>3. tot_refs = r
  BY <1>1, <1>2 DEF tot_refs
<1>4. Empty \notin RefPages /\ Empty \in Int
  BY PagesAreNumbers DEF Empty
<1>5. tot_frames \in Int
  BY ArgumentsAreInts DEF PrTypeOK
<1>6. nextRef <= tot_refs => ref_page \in RefPages
  BY <1>1, <1>2, <1>3 DEF PrTypeOK, ref_page
<1> QED
  BY <1>1, <1>2, <1>3, <1>4, <1>5, <1>6

\* Where % of C takes fptr: a slot stays a slot, and a negative number rises to 0.
LEMMA Remainder ==
  ASSUME tot_frames \in 1 .. 7, fptr \in Int, fptr' = rem(fptr + 1, tot_frames)
  PROVE  /\ fptr' \in Int
         /\ fptr + 1 >= 0 => fptr' \in 0 .. tot_frames - 1
         /\ fptr + 1 < 0 => fptr' \in -(tot_frames - 1) .. 0
         /\ fptr + 1 \in -(tot_frames - 1) .. tot_frames - 1 => fptr' = fptr + 1
         /\ fptr + 1 = tot_frames => fptr' = 0
<1>1. CASE fptr + 1 >= 0
  <2>1. fptr' = (fptr + 1) % tot_frames
    BY <1>1 DEF rem
  <2> QED
    BY <1>1, <2>1
<1>2. CASE fptr + 1 < 0
  <2>1. fptr' = -((-(fptr + 1)) % tot_frames)
    BY <1>2 DEF rem
  <2>2. -(fptr + 1) \in Nat
    BY <1>2
  <2> QED
    BY <1>2, <2>1, <2>2
<1> QED
  BY <1>1, <1>2

\* The invariant holds at the start.
LEMMA PrInitInv == PrInit => PrInv
<1> SUFFICES ASSUME PrInit PROVE PrInv
  OBVIOUS
<1>1. PICK r \in RefCounts : page_refs \in [1 .. r -> RefPages]
  BY DEF PrInit
<1>2. tot_refs = r /\ r \in Nat
  BY <1>1, CountsAreNumbers DEF tot_refs
<1>3. PrTypeOK
  BY <1>1, <1>2 DEF PrInit, PrTypeOK, frame_init
<1>4. Running
  BY DEF PrInit, Running
<1>5. FifoInv /\ LruInv
  BY DEF PrInit, FifoInv, LruInv, LruCountsOneFrameFewer
<1> QED
  BY <1>3, <1>4, <1>5 DEF PrInv

\* main() starts pr_fifo() with nothing seen and nothing stored.
LEMMA CheckInv == PrInv /\ CheckArgument => PrInv'
<1> SUFFICES ASSUME PrInv, CheckArgument PROVE PrInv'
  OBVIOUS
<1>1. /\ page_refs' = page_refs /\ tot_frames' = tot_frames /\ FRAME' = FRAME
      /\ nextRef' = nextRef /\ fptr' = fptr /\ lost' = lost
      /\ pf_fifo' = pf_fifo /\ pf_lru' = pf_lru /\ pf_opt' = pf_opt
      /\ running = "main" /\ running' \in {"fifo", "end"}
      /\ running' = "fifo" => Accepted
  BY DEF CheckArgument, Accepted
<1>2. nextRef = 1 /\ pf_fifo = 0 /\ lost = 0 /\ FRAME = frame_init
      /\ pf_lru = 0 /\ pf_opt = 0
  BY <1>1 DEF PrInv, Running
<1>3. PrTypeOK'
  BY <1>1 DEF PrInv, PrTypeOK, tot_refs, Slots
<1>4. Running'
  BY <1>1, <1>2 DEF Running, Accepted, frame_init, Slots
<1>5. FifoInv'
  <2> SUFFICES ASSUME running' = "fifo" PROVE FifoInv'
    BY DEF FifoInv
  <2>1. NothingStored'
    BY <1>1, <1>2 DEF NothingStored, frame_init, Slots
  <2>2. (lost <= tot_frames)'
    BY <1>1, <1>2 DEF Accepted
  <2>3. IsFifo({}, lost + 1, nextRef - 1, tot_frames)'
    BY <1>1, <1>2 DEF IsFifo
  <2>4. pf_fifo' = lost' + Cardinality({})
    BY <1>1, <1>2, FS_EmptySet
  <2>5. Queued({})'
    BY <1>1, <1>2 DEF Queued, frame_init, Slots
  <2> QED
    BY <2>1, <2>2, <2>3, <2>4, <2>5 DEF FifoInv
<1>6. LruInv'
  BY <1>1 DEF LruInv, LruCountsOneFrameFewer
<1> QED
  BY <1>3, <1>4, <1>5, <1>6 DEF PrInv

-----------------------------------------------------------------------------
(* FIFO.                                                                   *)

\* How the number of faults since l grows when reference nextRef faults.
LEMMA FaultAdded ==
  ASSUME nextRef \in Nat, nextRef' = nextRef + 1,
         NEW F, IsFiniteSet(F), \A m \in F : m \in Nat /\ m < nextRef,
         NEW G, G = F \union {nextRef}
  PROVE  /\ \A l \in F : FaultsSince(F, l, nextRef) \in Nat \ {0}
         /\ \A l \in F :
              FaultsSince(G, l, nextRef') = FaultsSince(F, l, nextRef) + 1
         /\ FaultsSince(G, nextRef, nextRef') = 1
<1>1. \A l, r \in Nat : IsFiniteSet({m \in F : l <= m /\ m < r})
  BY FS_Subset
<1>2. \A l \in F, r \in Nat : FaultsSince(F, l, r) \in Nat
  BY <1>1, FS_CardinalityType DEF FaultsSince
<1>3. ASSUME NEW l \in F PROVE FaultsSince(F, l, nextRef) # 0
  <2>1. l \in {m \in F : l <= m /\ m < nextRef}
    OBVIOUS
  <2> QED
    BY <1>1, <2>1, FS_EmptySet DEF FaultsSince
<1>4. ASSUME NEW l \in F
      PROVE  FaultsSince(G, l, nextRef') = FaultsSince(F, l, nextRef) + 1
  <2> DEFINE old == {m \in F : l <= m /\ m < nextRef}
  <2>1. {m \in G : l <= m /\ m < nextRef'} = old \union {nextRef}
    OBVIOUS
  <2>2. IsFiniteSet(old) /\ nextRef \notin old
    BY <1>1
  <2> HIDE DEF old
  <2>3. Cardinality(old \union {nextRef}) = Cardinality(old) + 1
    BY <2>2, FS_AddElement
  <2> QED
    BY <2>1, <2>3 DEF FaultsSince, old
<1>5. FaultsSince(G, nextRef, nextRef') = 1
  <2>1. {m \in G : nextRef <= m /\ m < nextRef'} = {nextRef}
    OBVIOUS
  <2> QED
    BY <2>1, FS_Singleton DEF FaultsSince
<1> QED
  BY <1>2, <1>3, <1>4, <1>5

\* The faults of a queue are determined by the string: IsFifo describes one set.
LEMMA FifoDetermined ==
  ASSUME NEW n, NEW first \in Nat, NEW bound \in Nat,
         NEW F \in SUBSET (first .. bound), IsFifo(F, first, bound, n),
         NEW G \in SUBSET (first .. bound), IsFifo(G, first, bound, n)
  PROVE  F = G
<1> DEFINE T == {r \in first .. bound : ~(r \in F <=> r \in G)}
<1>1. SUFFICES ASSUME T # {} PROVE FALSE
  OBVIOUS
<1>2. T \in SUBSET Nat
  OBVIOUS
<1> HIDE DEF T
<1>3. PICK r \in T : \A y \in T : ~ (<<y, r>> \in OpToRel(<, Nat))
  BY <1>1, <1>2, NatLessThanWellFounded, WFMin
<1>4. r \in first .. bound /\ ~(r \in F <=> r \in G) /\ r \in Nat
  BY DEF T
<1>5. \A m \in first .. bound : m < r => (m \in F <=> m \in G)
  <2> SUFFICES ASSUME NEW m \in first .. bound, m < r, m \in T PROVE FALSE
    BY DEF T
  <2> QED
    BY <1>2, <1>3 DEF OpToRel
<1>6. \A l : FaultsSince(F, l, r) = FaultsSince(G, l, r)
  <2>1. \A l : {m \in F : l <= m /\ m < r} = {m \in G : l <= m /\ m < r}
    BY <1>5
  <2> QED
    BY <2>1 DEF FaultsSince
<1>7. \A m : m \in F /\ m < r <=> m \in G /\ m < r
  BY <1>5
<1> QED
  BY <1>4, <1>6, <1>7 DEF IsFifo

\* Looking at a page that is in FRAME, or storing it, keeps the types and counts.
LEMMA FifoStepType ==
  ASSUME PrInv, FifoStep
  PROVE  /\ PrTypeOK' /\ Running'
         /\ page_refs' = page_refs /\ tot_frames' = tot_frames
         /\ tot_refs' = tot_refs /\ Slots' = Slots
         /\ running = "fifo" /\ running' = "fifo"
         /\ nextRef \in 1 .. tot_refs /\ nextRef' = nextRef + 1
         /\ tot_frames \in 1 .. 7
         /\ fptr \in Int
<1>1. /\ page_refs' = page_refs /\ tot_frames' = tot_frames
      /\ tot_refs' = tot_refs /\ Slots' = Slots
      /\ running = "fifo" /\ running' = "fifo"
      /\ pf_lru' = pf_lru /\ pf_opt' = pf_opt
      /\ nextRef' = nextRef + 1 /\ nextRef <= tot_refs
  BY DEF FifoStep, InLoop, tot_refs, Slots
<1>2. PrTypeOK /\ Running
  BY DEF PrInv
<1>3. tot_refs \in Nat /\ nextRef \in 1 .. tot_refs /\ ref_page \in RefPages
  BY <1>1, <1>2, Refs DEF PrTypeOK
<1>4. tot_frames \in 1 .. 7
  BY <1>1, <1>2 DEF Running, Accepted
<1>5. fptr \in Int
  BY <1>2, <1>4, ArgumentsAreInts DEF PrTypeOK
<1>6. fptr' \in FirstSlots \union (-tot_frames .. tot_frames - 1)
  <2>1. CASE fptr' = rem(fptr + 1, tot_frames)
    <3>1. fptr' \in -(tot_frames - 1) .. tot_frames - 1
      BY <1>4, <1>5, <2>1, Remainder
    <3> QED
      BY <1>4, <3>1
  <2>2. fptr' = fptr \/ fptr' = rem(fptr + 1, tot_frames)
    BY DEF FifoStep, FifoInsert
  <2> QED
    BY <1>1, <1>2, <2>1, <2>2 DEF PrTypeOK
<1>7. FRAME' \in [Slots -> RefPages \union {Empty}]
  BY <1>2, <1>3 DEF FifoStep, FifoInsert, PrTypeOK
<1>8. pf_fifo' \in {pf_fifo, pf_fifo + 1} /\ lost' \in {lost, lost + 1}
  BY DEF FifoStep
<1>9. pf_fifo' \in 0 .. tot_refs /\ pf_fifo' < nextRef'
      /\ lost' \in 0 .. tot_refs /\ lost' < nextRef'
  BY <1>1, <1>2, <1>3, <1>8 DEF PrTypeOK, Running
<1>10. PrTypeOK'
  BY <1>1, <1>2, <1>3, <1>6, <1>7, <1>9 DEF PrTypeOK
<1>11. Running'
  BY <1>1, <1>2, <1>3, <1>9 DEF Running, Accepted
<1> QED
  BY <1>1, <1>3, <1>4, <1>5, <1>10, <1>11

\* The page is in FRAME: one of the last tot_frames faults has loaded it.
LEMMA FifoHitInv ==
  ASSUME PrInv, FifoStep, Hit
  PROVE  FifoInv'
<1>1. /\ FRAME' = FRAME /\ fptr' = fptr /\ pf_fifo' = pf_fifo /\ lost' = lost
  BY DEF FifoStep
<1>2. /\ page_refs' = page_refs /\ tot_frames' = tot_frames
      /\ tot_refs' = tot_refs /\ Slots' = Slots
      /\ running = "fifo" /\ nextRef \in 1 .. tot_refs /\ nextRef' = nextRef + 1
      /\ tot_frames \in 1 .. 7 /\ tot_refs \in Nat /\ lost \in Nat
  BY FifoStepType, Refs DEF PrInv, PrTypeOK
<1>3. Empty \notin RefPages /\ ref_page \in RefPages
  BY <1>2, Refs DEF PrInv
<1>4. PICK k \in Slots : FRAME[k] = ref_page
  BY DEF Hit
<1>5. FRAME[k] # Empty
  BY <1>3, <1>4
<1>6. fptr \in Slots
  BY <1>2, <1>5 DEF PrInv, FifoInv, NothingStored, frame_init
<1>7. lost <= tot_frames
  BY <1>2 DEF PrInv, FifoInv
<1>8. PICK F \in SUBSET (lost + 1 .. nextRef - 1) :
           /\ IsFifo(F, lost + 1, nextRef - 1, tot_frames)
           /\ pf_fifo = lost + Cardinality(F)
           /\ Queued(F)
  BY <1>2 DEF PrInv, FifoInv
<1>9. IsFiniteSet(F) /\ \A m \in F : m \in Nat /\ m < nextRef
  <2>1. IsFiniteSet(lost + 1 .. nextRef - 1)
    BY <1>2, FS_Interval
  <2>2. IsFiniteSet(F)
    BY <2>1, FS_Subset
  <2>3. \A m \in F : m \in Nat /\ m < nextRef
    BY <1>2
  <2> QED
    BY <2>2, <2>3
<1>10. \A l \in F : FaultsSince(F, l, nextRef') = FaultsSince(F, l, nextRef)
  <2>1. \A m \in F : m < nextRef' <=> m < nextRef
    BY <1>2, <1>9
  <2>2. \A l \in F : {m \in F : l <= m /\ m < nextRef'} = {m \in F : l <= m /\ m < nextRef}
    BY <2>1
  <2> QED
    BY <2>2 DEF FaultsSince
<1>11. PICK l \in F : /\ FaultsSince(F, l, nextRef) <= tot_frames
                      /\ k = SlotBack(FaultsSince(F, l, nextRef))
  BY <1>5, <1>8 DEF Queued
<1>12. page_refs[l] = page_refs[nextRef]
  BY <1>4, <1>8, <1>11 DEF Queued, ref_page
<1>13. IsFifo(F, lost + 1, nextRef, tot_frames)
  <2> SUFFICES ASSUME NEW r \in lost + 1 .. nextRef
               PROVE  r \in F <=>
                        \A m \in F : m < r /\ FaultsSince(F, m, r) <= tot_frames =>
                          page_refs[m] # page_refs[r]
    BY DEF IsFifo
  <2>1. CASE r = nextRef
    BY <1>9, <1>11, <1>12, <2>1
  <2>2. CASE r # nextRef
    <3>1. r \in lost + 1 .. nextRef - 1
      BY <1>2, <2>2
    <3> QED
      BY <1>8, <3>1 DEF IsFifo
  <2> QED
    BY <2>1, <2>2
<1>14. IsFifo(F, lost + 1, nextRef - 1, tot_frames)'
  <2>1. nextRef' - 1 = nextRef
    BY <1>2
  <2> QED
    BY <1>1, <1>2, <1>13, <2>1 DEF IsFifo, FaultsSince
<1>15. Queued(F)'
  BY <1>1, <1>2, <1>8, <1>10 DEF Queued, SlotBack, FaultsSince
<1>16. NothingStored'
  BY <1>1, <1>2, <1>6 DEF NothingStored
<1>17. F \in SUBSET (lost' + 1 .. nextRef' - 1)
  BY <1>1, <1>2
<1> QED
  BY <1>1, <1>2, <1>7, <1>8, <1>14, <1>15, <1>16, <1>17 DEF FifoInv

\* fptr is no slot yet: the page is lost, and fptr comes one step closer.
LEMMA FifoLostInv ==
  ASSUME PrInv, FifoStep, ~Hit, fptr \notin Slots
  PROVE  FifoInv'
<1>1. /\ FRAME' = [k \in Slots |-> IF k = fptr THEN ref_page ELSE FRAME[k]]
      /\ fptr' = rem(fptr + 1, tot_frames)
      /\ pf_fifo' = pf_fifo + 1 /\ lost' = lost + 1
  BY DEF FifoStep, FifoInsert
<1>2. /\ page_refs' = page_refs /\ tot_frames' = tot_frames
      /\ tot_refs' = tot_refs /\ Slots' = Slots
      /\ running = "fifo" /\ nextRef \in 1 .. tot_refs /\ nextRef' = nextRef + 1
      /\ tot_frames \in 1 .. 7 /\ tot_refs \in Nat /\ lost \in Nat /\ fptr \in Int
  BY FifoStepType, Refs DEF PrInv, PrTypeOK
<1>3. /\ FRAME = frame_init /\ lost = nextRef - 1 /\ pf_fifo = lost
      /\ lost = 0 \/ (fptr < 0 /\ lost - fptr <= tot_frames)
  BY <1>2 DEF PrInv, FifoInv, NothingStored
<1>4. FRAME' = frame_init'
  BY <1>1, <1>2, <1>3 DEF frame_init
<1>5. fptr' \notin Slots => fptr' < 0 /\ lost' - fptr' <= tot_frames
  <2> SUFFICES ASSUME fptr' \notin Slots PROVE fptr' < 0 /\ lost' - fptr' <= tot_frames
    OBVIOUS
  <2>1. fptr + 1 < 0
    <3>1. fptr + 1 >= 0 => fptr' \in 0 .. tot_frames - 1
      BY <1>1, <1>2, Remainder
    <3> QED
      BY <1>2, <3>1 DEF Slots
  <2>2. fptr' \in -(tot_frames - 1) .. 0
    BY <1>1, <1>2, <2>1, Remainder
  <2>3. 0 \in Slots
    BY <1>2 DEF Slots
  <2>4. CASE lost = 0
    BY <1>1, <1>2, <2>2, <2>3, <2>4
  <2>5. CASE lost # 0
    <3>1. fptr + 1 \in -(tot_frames - 1) .. tot_frames - 1
      BY <1>2, <1>3, <2>1, <2>5
    <3>2. fptr' = fptr + 1
      BY <1>1, <1>2, <3>1, Remainder
    <3> QED
      BY <1>1, <1>2, <1>3, <2>1, <2>5, <3>2
  <2> QED
    BY <2>4, <2>5
<1>6. NothingStored'
  BY <1>1, <1>2, <1>3, <1>4, <1>5 DEF NothingStored
<1>7. lost' <= tot_frames
  BY <1>1, <1>2, <1>3
<1>8. IsFifo({}, lost + 1, nextRef - 1, tot_frames)'
  BY <1>1, <1>2, <1>3 DEF IsFifo
<1>9. pf_fifo' = lost' + Cardinality({})
  BY <1>1, <1>2, <1>3, FS_EmptySet
<1>10. Queued({})'
  BY <1>2, <1>4 DEF Queued, frame_init
<1> QED
  BY <1>2, <1>6, <1>7, <1>8, <1>9, <1>10 DEF FifoInv

\* The page takes the slot of the fault tot_frames back.
LEMMA FifoStoreInv ==
  ASSUME PrInv, FifoStep, ~Hit, fptr \in Slots
  PROVE  FifoInv'
<1>1. /\ FRAME' = [k \in Slots |-> IF k = fptr THEN ref_page ELSE FRAME[k]]
      /\ fptr' = rem(fptr + 1, tot_frames)
      /\ pf_fifo' = pf_fifo + 1 /\ lost' = lost
  BY DEF FifoStep, FifoInsert
<1>2. /\ page_refs' = page_refs /\ tot_frames' = tot_frames
      /\ tot_refs' = tot_refs /\ Slots' = Slots
      /\ running = "fifo" /\ nextRef \in 1 .. tot_refs /\ nextRef' = nextRef + 1
      /\ tot_frames \in 1 .. 7 /\ tot_refs \in Nat /\ lost \in Nat /\ fptr \in Int
      /\ lost < nextRef
  BY FifoStepType, Refs DEF PrInv, PrTypeOK, Running
<1>3. Empty \notin RefPages /\ ref_page \in RefPages
  BY <1>2, Refs DEF PrInv
<1>4. fptr \in 0 .. tot_frames - 1
  BY DEF Slots
<1>5. fptr' = IF fptr = tot_frames - 1 THEN 0 ELSE fptr + 1
  <2>1. fptr = tot_frames - 1 => fptr' = 0
    BY <1>1, <1>2, Remainder
  <2>2. fptr # tot_frames - 1 => fptr' = fptr + 1
    BY <1>1, <1>2, <1>4, Remainder
  <2> QED
    BY <2>1, <2>2
<1>6. fptr' \in Slots
  BY <1>2, <1>4, <1>5 DEF Slots
<1>7. lost <= tot_frames
  BY <1>2 DEF PrInv, FifoInv
<1>8. PICK F \in SUBSET (lost + 1 .. nextRef - 1) :
           /\ IsFifo(F, lost + 1, nextRef - 1, tot_frames)
           /\ pf_fifo = lost + Cardinality(F)
           /\ Queued(F)
  BY <1>2 DEF PrInv, FifoInv
<1>9. IsFiniteSet(F) /\ \A m \in F : m \in Nat /\ m < nextRef
  <2>1. IsFiniteSet(lost + 1 .. nextRef - 1)
    BY <1>2, FS_Interval
  <2>2. IsFiniteSet(F)
    BY <2>1, FS_Subset
  <2>3. \A m \in F : m \in Nat /\ m < nextRef
    BY <1>2
  <2> QED
    BY <2>2, <2>3
<1>10. PICK G : G = F \union {nextRef}
  OBVIOUS
<1>11. /\ \A l \in F : FaultsSince(F, l, nextRef) \in Nat \ {0}
       /\ \A l \in F : FaultsSince(G, l, nextRef') = FaultsSince(F, l, nextRef) + 1
       /\ \A l \in F : \A r \in 0 .. nextRef : FaultsSince(G, l, r) = FaultsSince(F, l, r)
       /\ FaultsSince(G, nextRef, nextRef') = 1
  <2>1. nextRef \in Nat /\ nextRef' = nextRef + 1
    BY <1>2
  <2>2. \A l \in F : FaultsSince(F, l, nextRef) \in Nat \ {0}
    BY <1>9, <1>10, <2>1, FaultAdded
  <2>3. \A l \in F : FaultsSince(G, l, nextRef') = FaultsSince(F, l, nextRef) + 1
    BY <1>9, <1>10, <2>1, FaultAdded
  <2>4. \A l \in F : \A r \in 0 .. nextRef : FaultsSince(G, l, r) = FaultsSince(F, l, r)
    <3> SUFFICES ASSUME NEW l \in F, NEW r \in 0 .. nextRef
                 PROVE  FaultsSince(G, l, r) = FaultsSince(F, l, r)
      OBVIOUS
    <3>1. {m \in G : l <= m /\ m < r} = {m \in F : l <= m /\ m < r}
      BY <1>10, <2>1
    <3> QED
      BY <3>1 DEF FaultsSince
  <2>5. FaultsSince(G, nextRef, nextRef') = 1
    BY <1>9, <1>10, <2>1, FaultAdded
  <2> QED
    BY <2>2, <2>3, <2>4, <2>5
<1>12. G \in SUBSET (lost' + 1 .. nextRef' - 1)
  BY <1>1, <1>2, <1>10
<1>13. pf_fifo' = lost' + Cardinality(G)
  <2>1. nextRef \notin F
    BY <1>2, <1>9
  <2>2. Cardinality(G) = Cardinality(F) + 1 /\ Cardinality(F) \in Nat
    BY <1>9, <1>10, <2>1, FS_AddElement, FS_CardinalityType
  <2> QED
    BY <1>1, <1>2, <1>8, <2>2
<1>14. IsFifo(G, lost + 1, nextRef, tot_frames)
  <2> SUFFICES ASSUME NEW r \in lost + 1 .. nextRef
               PROVE  r \in G <=>
                        \A m \in G : m < r /\ FaultsSince(G, m, r) <= tot_frames =>
                          page_refs[m] # page_refs[r]
    BY DEF IsFifo
  <2>1. r \in Nat /\ r \in 0 .. nextRef
    BY <1>2
  <2>2. \A m \in G : m < r => m \in F
    BY <1>10, <1>2, <2>1
  <2>3. CASE r = nextRef
    <3> SUFFICES ASSUME NEW m \in G, m < r, FaultsSince(G, m, r) <= tot_frames
                 PROVE  page_refs[m] # page_refs[r]
      BY <1>10, <2>3
    <3>1. m \in F /\ FaultsSince(F, m, nextRef) <= tot_frames
      BY <1>11, <2>1, <2>2, <2>3
    <3>2. FRAME[SlotBack(FaultsSince(F, m, nextRef))] = page_refs[m]
      BY <1>8, <3>1 DEF Queued
    <3>3. SlotBack(FaultsSince(F, m, nextRef)) \in Slots
      BY <1>2, <1>4, <1>11, <3>1 DEF SlotBack, Slots
    <3> QED
      BY <2>3, <3>2, <3>3 DEF Hit, ref_page
  <2>4. CASE r # nextRef
    <3>1. r \in lost + 1 .. nextRef - 1
      BY <1>2, <2>4
    <3>2. r \in F <=> \A m \in F : m < r /\ FaultsSince(F, m, r) <= tot_frames =>
                        page_refs[m] # page_refs[r]
      BY <1>8, <3>1 DEF IsFifo
    <3>3. r \in G <=> r \in F
      BY <1>10, <2>4
    <3>4. \A m \in F : m \in G /\ FaultsSince(G, m, r) = FaultsSince(F, m, r)
      BY <1>10, <1>11, <2>1
    <3> QED
      BY <2>2, <3>2, <3>3, <3>4
  <2> QED
    BY <2>3, <2>4
<1>15. IsFifo(G, lost + 1, nextRef - 1, tot_frames)'
  <2>1. nextRef' - 1 = nextRef
    BY <1>2
  <2> QED
    BY <1>1, <1>2, <1>14, <2>1 DEF IsFifo, FaultsSince
<1>16. \A a \in 1 .. tot_frames - 1 : /\ SlotBack(a + 1)' = SlotBack(a)
                                      /\ SlotBack(a) \in Slots \ {fptr}
  BY <1>2, <1>4, <1>5 DEF SlotBack, Slots
<1>17. SlotBack(1)' = fptr /\ SlotBack(tot_frames) = fptr
  BY <1>2, <1>4, <1>5 DEF SlotBack
<1>18. ASSUME NEW l \in G, FaultsSince(G, l, nextRef') <= tot_frames
       PROVE  FRAME'[SlotBack(FaultsSince(G, l, nextRef))'] = page_refs[l]
  <2>1. CASE l = nextRef
    BY <1>1, <1>11, <1>17, <2>1 DEF ref_page
  <2>2. CASE l # nextRef
    <3>1. l \in F /\ FaultsSince(F, l, nextRef) \in 1 .. tot_frames - 1
      BY <1>2, <1>10, <1>11, <1>18, <2>2
    <3>2. FRAME[SlotBack(FaultsSince(F, l, nextRef))] = page_refs[l]
      BY <1>2, <1>8, <3>1 DEF Queued
    <3> QED
      BY <1>1, <1>11, <1>16, <3>1, <3>2
  <2> QED
    BY <2>1, <2>2
<1>19. ASSUME NEW k \in Slots, FRAME'[k] # Empty
       PROVE  \E l \in G : /\ FaultsSince(G, l, nextRef') <= tot_frames
                           /\ k = SlotBack(FaultsSince(G, l, nextRef))'
  <2>1. CASE k = fptr
    BY <1>2, <1>10, <1>11, <1>17, <2>1
  <2>2. CASE k # fptr
    <3>1. FRAME[k] # Empty
      BY <1>1, <1>19, <2>2
    <3>2. PICK l \in F : /\ FaultsSince(F, l, nextRef) <= tot_frames
                         /\ k = SlotBack(FaultsSince(F, l, nextRef))
      BY <1>8, <3>1 DEF Queued
    <3>3. FaultsSince(F, l, nextRef) \in 1 .. tot_frames - 1
      BY <1>2, <1>11, <1>17, <2>2, <3>2
    <3>4. l \in G /\ FaultsSince(G, l, nextRef') = FaultsSince(F, l, nextRef) + 1
      BY <1>10, <1>11
    <3>5. FaultsSince(G, l, nextRef') <= tot_frames
      BY <1>2, <3>3, <3>4
    <3> QED
      BY <1>16, <3>2, <3>3, <3>4, <3>5
  <2> QED
    BY <2>1, <2>2
<1>20. Queued(G)'
  BY <1>2, <1>18, <1>19 DEF Queued, FaultsSince, SlotBack
<1>21. NothingStored'
  BY <1>2, <1>6 DEF NothingStored
<1> QED
  BY <1>1, <1>2, <1>7, <1>12, <1>13, <1>15, <1>20, <1>21 DEF FifoInv

-----------------------------------------------------------------------------
(* LRU.                                                                    *)

\* What one more reference does to the pages used since the last use of q.
LEMMA OneMoreUse ==
  ASSUME PrTypeOK, nextRef \in 1 .. tot_refs, NEW next, next = nextRef + 1, NEW q
  PROVE  /\ UsedBefore(q, next) <=> UsedBefore(q, nextRef) \/ q = ref_page
         /\ q = ref_page => UsedSince(q, next) = {}
         /\ q # ref_page => UsedSince(q, next) = UsedSince(q, nextRef) \union {ref_page}
<1>1. nextRef \in Nat
  BY Refs
<1>2. UsedBefore(q, next) <=> UsedBefore(q, nextRef) \/ q = ref_page
  BY <1>1 DEF UsedBefore, ref_page
<1>3. ASSUME q = ref_page PROVE UsedSince(q, next) = {}
  <2>1. \A m \in 1 .. next - 1 : nextRef \in m .. next - 1
    BY <1>1
  <2>2. {m \in 1 .. next - 1 : \A k \in m .. next - 1 : page_refs[k] # q} = {}
    BY <1>3, <2>1 DEF ref_page
  <2> QED
    BY <2>2 DEF UsedSince
<1>4. ASSUME q # ref_page
      PROVE  UsedSince(q, next) = UsedSince(q, nextRef) \union {ref_page}
  <2> DEFINE before == {m \in 1 .. nextRef - 1 :
                          \A k \in m .. nextRef - 1 : page_refs[k] # q}
             after == {m \in 1 .. next - 1 :
                         \A k \in m .. next - 1 : page_refs[k] # q}
  <2>1. 1 .. next - 1 = (1 .. nextRef - 1) \union {nextRef}
    BY <1>1
  <2>2. \A m \in 1 .. nextRef : m .. next - 1 = (m .. nextRef - 1) \union {nextRef}
    BY <1>1
  <2>3. nextRef .. nextRef - 1 = {}
    BY <1>1
  <2>4. page_refs[nextRef] # q
    BY <1>4 DEF ref_page
  <2>5. ASSUME NEW m PROVE m \in after <=> m \in before \/ m = nextRef
    <3>1. CASE m \in 1 .. nextRef - 1
      BY <1>1, <2>1, <2>2, <2>4, <3>1
    <3>2. CASE m = nextRef
      BY <1>1, <2>1, <2>2, <2>3, <2>4, <3>2
    <3> QED
      BY <2>1, <3>1, <3>2
  <2> HIDE DEF before, after
  <2>6. after = before \union {nextRef}
    BY <2>5
  <2>7. UsedSince(q, next) = {page_refs[l] : l \in after}
    BY DEF UsedSince, after
  <2>8. UsedSince(q, nextRef) = {page_refs[l] : l \in before}
    BY DEF UsedSince, before
  <2> QED
    BY <2>6, <2>7, <2>8 DEF ref_page
<1> QED
  BY <1>2, <1>3, <1>4

\* idx is the slot of a page that is in FRAME.
LEMMA FoundAt ==
  ASSUME PrTypeOK, Stacked, Hit, nextRef \in 1 .. tot_refs, tot_frames \in 1 .. 7
  PROVE  idx \in Slots /\ FRAME[idx] = ref_page
<1>1. PICK k \in Slots : FRAME[k] = ref_page
  BY DEF Hit
<1>2. ref_page # Empty
  BY Refs
<1>3. \A l \in 0 .. k - 1 : l \in Slots /\ FRAME[l] # ref_page
  BY <1>1, <1>2 DEF Stacked, Slots
<1> QED
  BY <1>1, <1>3 DEF idx

\* The slots in front of slot k hold k pages.
LEMMA InFront ==
  ASSUME PrTypeOK, Stacked, tot_frames \in 1 .. 7,
         NEW k \in 0 .. tot_frames, \A j \in 0 .. k - 1 : FRAME[j] # Empty
  PROVE  /\ IsFiniteSet({FRAME[j] : j \in 0 .. k - 1})
         /\ Cardinality({FRAME[j] : j \in 0 .. k - 1}) = k
<1> DEFINE S == {FRAME[j] : j \in 0 .. k - 1}
           g == [j \in 0 .. k - 1 |-> FRAME[j]]
<1>1. 0 .. k - 1 \subseteq Slots
  BY DEF Slots
<1>2. \A i, j \in 0 .. k - 1 : i # j => FRAME[i] # FRAME[j]
  <2> SUFFICES ASSUME NEW i \in 0 .. k - 1, NEW j \in 0 .. k - 1, i < j
               PROVE  FRAME[i] # FRAME[j]
    OBVIOUS
  <2>1. i \in 0 .. j - 1 /\ j \in Slots
    BY <1>1
  <2> QED
    BY <2>1 DEF Stacked
<1>3. g \in Bijection(0 .. k - 1, S)
  <2>1. g \in [0 .. k - 1 -> S]
    OBVIOUS
  <2>2. \A i, j \in 0 .. k - 1 : g[i] = g[j] => i = j
    BY <1>2
  <2>3. \A s \in S : \E j \in 0 .. k - 1 : g[j] = s
    OBVIOUS
  <2> QED
    BY <2>1, <2>2, <2>3 DEF Bijection, Injection, Surjection, IsInjective
<1>4. ExistsBijection(0 .. k - 1, S)
  BY <1>3 DEF ExistsBijection
<1>5. IsFiniteSet(0 .. k - 1) /\ Cardinality(0 .. k - 1) = k
  <2>1. k - 1 >= 0 - 1 => k - 1 - 0 + 1 = k
    OBVIOUS
  <2>2. CASE k = 0
    <3>1. 0 .. k - 1 = {}
      BY <2>2
    <3> QED
      BY <2>2, <3>1, FS_EmptySet
  <2>3. CASE k # 0
    <3>1. 0 <= k - 1 /\ 0 \in Int /\ k - 1 \in Int
      BY <2>3
    <3> QED
      BY <3>1, FS_Interval
  <2> QED
    BY <2>2, <2>3
<1> HIDE DEF S, g
<1>6. IsFiniteSet(S) /\ Cardinality(S) = k
  BY <1>4, <1>5, FS_Bijection
<1> QED
  BY <1>6 DEF S

\* The reference is a fault of LRU with one frame fewer unless its page is in a
\* slot before the last.
LEMMA MissesHere ==
  ASSUME PrTypeOK, Stacked, nextRef \in 1 .. tot_refs, tot_frames \in 1 .. 7
  PROVE  LruMisses(tot_frames - 1, nextRef) <=> (Hit => idx = tot_frames - 1)
<1>1. ref_page \in RefPages /\ Empty \notin RefPages
  BY Refs
<1>2. CASE Hit
  <2>1. idx \in Slots /\ FRAME[idx] = ref_page
    BY <1>2, FoundAt
  <2>2. /\ UsedBefore(ref_page, nextRef)
        /\ UsedSince(ref_page, nextRef) = {FRAME[j] : j \in 0 .. idx - 1}
    BY <1>1, <2>1 DEF Stacked
  <2>3. idx \in 0 .. tot_frames /\ \A j \in 0 .. idx - 1 : FRAME[j] # Empty
    BY <1>1, <2>1 DEF Stacked, Slots
  <2>4. Cardinality({FRAME[j] : j \in 0 .. idx - 1}) = idx
    BY <2>3, InFront
  <2>5. LruMisses(tot_frames - 1, nextRef) <=> idx >= tot_frames - 1
    BY <2>2, <2>4 DEF LruMisses, ref_page
  <2> QED
    BY <1>2, <2>1, <2>5 DEF Slots
<1>3. CASE ~Hit
  <2>1. CASE ~UsedBefore(ref_page, nextRef)
    BY <1>3, <2>1 DEF LruMisses, ref_page
  <2>2. CASE UsedBefore(ref_page, nextRef)
    <3>1. \A k \in Slots : FRAME[k] \in UsedSince(ref_page, nextRef)
      BY <1>1, <1>3, <2>2 DEF Stacked, Hit
    <3>2. UsedSince(ref_page, nextRef) \subseteq RefPages
      BY Refs DEF UsedSince
    <3>3. \A k \in 0 .. tot_frames - 1 : FRAME[k] # Empty
      BY <1>1, <3>1, <3>2 DEF Slots
    <3>4. Cardinality({FRAME[j] : j \in 0 .. tot_frames - 1}) = tot_frames
      <4>1. tot_frames \in 0 .. tot_frames
        OBVIOUS
      <4> QED
        BY <3>3, <4>1, InFront
    <3>5. {FRAME[j] : j \in 0 .. tot_frames - 1} \subseteq UsedSince(ref_page, nextRef)
      BY <3>1 DEF Slots
    <3>6. IsFiniteSet(UsedSince(ref_page, nextRef))
      <4> DEFINE refs == {m \in 1 .. nextRef - 1 :
                            \A k \in m .. nextRef - 1 : page_refs[k] # ref_page}
                 g == [l \in refs |-> page_refs[l]]
      <4>1. IsFiniteSet(1 .. nextRef - 1)
        BY FS_Interval, Refs
      <4>2. IsFiniteSet(refs)
        BY <4>1, FS_Subset
      <4>3. g \in Surjection(refs, UsedSince(ref_page, nextRef))
        BY DEF Surjection, UsedSince
      <4> HIDE DEF refs, g
      <4> QED
        BY <4>2, <4>3, FS_Surjection
    <3>7. Cardinality(UsedSince(ref_page, nextRef)) >= tot_frames
      BY <3>4, <3>5, <3>6, FS_Subset, FS_CardinalityType
    <3>8. Cardinality(UsedSince(ref_page, nextRef)) \in Nat
      BY <3>6, FS_CardinalityType
    <3> QED
      BY <1>3, <3>7, <3>8 DEF LruMisses, ref_page
  <2> QED
    BY <2>1, <2>2
<1> QED
  BY <1>2, <1>3

\* Moving the page to the front keeps FRAME the stack of LRU.
LEMMA StackMoves ==
  ASSUME PrTypeOK, Stacked, nextRef \in 1 .. tot_refs, tot_frames \in 1 .. 7,
         page_refs' = page_refs, tot_frames' = tot_frames, nextRef' = nextRef + 1,
         NEW last \in Slots, Hit => last = idx, ~Hit => last = tot_frames - 1,
         MoveToFront(last)
  PROVE  Stacked'
<1>1. ref_page \in RefPages /\ Empty \notin RefPages
  BY Refs
<1>2. Slots' = Slots /\ Slots = 0 .. tot_frames - 1
  BY DEF Slots
<1>3. /\ FRAME'[0] = ref_page
      /\ \A k \in 1 .. last : FRAME'[k] = FRAME[k - 1]
      /\ \A k \in last + 1 .. tot_frames - 1 : FRAME'[k] = FRAME[k]
  BY <1>2 DEF MoveToFront
<1>4. Hit => FRAME[last] = ref_page
  BY FoundAt
<1>5. \A k \in Slots : \A j \in 0 .. k - 1 :
        /\ FRAME[j] = Empty => FRAME[k] = Empty
        /\ FRAME[j] # Empty => FRAME[k] # FRAME[j]
  BY DEF Stacked
<1>6. \A k \in 0 .. last - 1 : FRAME[k] # ref_page
  BY <1>1, <1>2, <1>4, <1>5 DEF Hit
<1>7. \A k \in last + 1 .. tot_frames - 1 : Hit /\ FRAME[k] # ref_page
  BY <1>1, <1>2, <1>4, <1>5
<1>8. ASSUME NEW k \in Slots, NEW j \in 0 .. k - 1
      PROVE  IF FRAME'[j] = Empty THEN FRAME'[k] = Empty ELSE FRAME'[k] # FRAME'[j]
  <2>1. CASE k <= last
    <3>1. k \in 1 .. last /\ FRAME'[k] = FRAME[k - 1] /\ k - 1 \in Slots
          /\ FRAME[k - 1] # ref_page
      BY <1>2, <1>3, <1>6, <2>1
    <3>2. CASE j = 0
      BY <1>1, <1>3, <3>1, <3>2
    <3>3. CASE j # 0
      <4>1. j \in 1 .. last /\ j - 1 \in 0 .. (k - 1) - 1
        BY <1>2, <2>1, <3>3
      <4>2. FRAME'[j] = FRAME[j - 1]
        BY <1>3, <4>1
      <4> QED
        BY <1>5, <3>1, <4>1, <4>2
    <3> QED
      BY <3>2, <3>3
  <2>2. CASE k > last
    <3>1. k \in last + 1 .. tot_frames - 1 /\ FRAME'[k] = FRAME[k]
      BY <1>2, <1>3, <2>2
    <3>2. \E m \in 0 .. k - 1 : FRAME'[j] = FRAME[m]
      <4>1. CASE j = 0
        BY <1>2, <1>3, <1>4, <1>7, <2>2, <3>1, <4>1
      <4>2. CASE j \in 1 .. last
        <5>1. FRAME'[j] = FRAME[j - 1] /\ j - 1 \in 0 .. k - 1
          BY <1>2, <1>3, <4>2
        <5> QED
          BY <5>1
      <4>3. CASE j > last
        BY <1>2, <1>3, <4>3
      <4> QED
        BY <1>2, <4>1, <4>2, <4>3
    <3> QED
      BY <1>5, <3>1, <3>2
  <2> QED
    BY <1>2, <2>1, <2>2
<1>9. ASSUME NEW k \in Slots, FRAME'[k] # Empty
      PROVE  /\ UsedBefore(FRAME'[k], nextRef')
             /\ UsedSince(FRAME'[k], nextRef') = {FRAME'[j] : j \in 0 .. k - 1}
  <2>1. CASE k = 0
    <3>1. UsedBefore(ref_page, nextRef') /\ UsedSince(ref_page, nextRef') = {}
      BY OneMoreUse
    <3> QED
      BY <1>3, <2>1, <3>1
  <2>2. CASE k \in 1 .. last
    <3> DEFINE q == FRAME[k - 1]
    <3>1. FRAME'[k] = q /\ k - 1 \in Slots /\ q # ref_page /\ q # Empty
      BY <1>2, <1>3, <1>6, <1>9, <2>2
    <3>2. /\ UsedBefore(q, nextRef)
          /\ UsedSince(q, nextRef) = {FRAME[j] : j \in 0 .. (k - 1) - 1}
      BY <3>1 DEF Stacked
    <3> HIDE DEF q
    <3>3. /\ UsedBefore(q, nextRef')
          /\ UsedSince(q, nextRef') = UsedSince(q, nextRef) \union {ref_page}
      BY <3>1, <3>2, OneMoreUse
    <3>4. {FRAME'[j] : j \in 0 .. k - 1} =
            {FRAME[j] : j \in 0 .. (k - 1) - 1} \union {ref_page}
      <4>1. \A j \in 0 .. k - 1 :
              j # 0 => FRAME'[j] = FRAME[j - 1] /\ j - 1 \in 0 .. (k - 1) - 1
        BY <1>2, <1>3, <2>2
      <4>2. \A j \in 0 .. (k - 1) - 1 : FRAME[j] = FRAME'[j + 1] /\ j + 1 \in 0 .. k - 1
        BY <1>2, <1>3, <2>2
      <4>3. 0 \in 0 .. k - 1
        BY <2>2
      <4> QED
        BY <1>3, <4>1, <4>2, <4>3
    <3> QED
      BY <3>1, <3>2, <3>3, <3>4
  <2>3. CASE k > last
    <3> DEFINE q == FRAME[k]
    <3>1. /\ k \in last + 1 .. tot_frames - 1 /\ FRAME'[k] = q
          /\ q # ref_page /\ q # Empty /\ Hit
      BY <1>2, <1>3, <1>7, <1>9, <2>3
    <3>2. UsedBefore(q, nextRef) /\ UsedSince(q, nextRef) = {FRAME[j] : j \in 0 .. k - 1}
      BY <3>1 DEF Stacked
    <3> HIDE DEF q
    <3>3. /\ UsedBefore(q, nextRef')
          /\ UsedSince(q, nextRef') = UsedSince(q, nextRef) \union {ref_page}
      BY <3>1, <3>2, OneMoreUse
    <3>4. last \in 0 .. k - 1 /\ FRAME[last] = ref_page
      BY <1>2, <1>4, <2>3, <3>1
    <3>5. \A j \in 0 .. k - 1 : FRAME'[j] \in {FRAME[m] : m \in 0 .. k - 1}
      <4> SUFFICES ASSUME NEW j \in 0 .. k - 1
                   PROVE  \E m \in 0 .. k - 1 : FRAME'[j] = FRAME[m]
        OBVIOUS
      <4>1. CASE j = 0
        BY <1>3, <3>4, <4>1
      <4>2. CASE j \in 1 .. last
        <5>1. FRAME'[j] = FRAME[j - 1] /\ j - 1 \in 0 .. k - 1
          BY <1>2, <1>3, <4>2
        <5> QED
          BY <5>1
      <4>3. CASE j > last
        BY <1>2, <1>3, <4>3
      <4> QED
        BY <1>2, <4>1, <4>2, <4>3
    <3>6. \A j \in 0 .. k - 1 : FRAME[j] \in {FRAME'[m] : m \in 0 .. k - 1}
      <4> SUFFICES ASSUME NEW j \in 0 .. k - 1
                   PROVE  \E m \in 0 .. k - 1 : FRAME[j] = FRAME'[m]
        OBVIOUS
      <4>1. CASE j = last
        <5>1. 0 \in 0 .. k - 1 /\ FRAME'[0] = FRAME[last]
          BY <1>2, <1>3, <2>3, <3>4
        <5> QED
          BY <4>1, <5>1
      <4>2. CASE j < last
        <5>1. FRAME[j] = FRAME'[j + 1] /\ j + 1 \in 0 .. k - 1
          BY <1>2, <1>3, <2>3, <4>2
        <5> QED
          BY <5>1
      <4>3. CASE j > last
        BY <1>2, <1>3, <4>3
      <4> QED
        BY <1>2, <4>1, <4>2, <4>3
    <3> QED
      BY <3>1, <3>2, <3>3, <3>4, <3>5, <3>6
  <2> QED
    BY <1>2, <2>1, <2>2, <2>3
<1>10. ASSUME NEW q \in RefPages, UsedBefore(q, nextRef'), \A k \in Slots : FRAME'[k] # q,
              NEW k \in Slots
       PROVE  FRAME'[k] \in UsedSince(q, nextRef')
  <2>1. q # ref_page
    BY <1>2, <1>3, <1>10
  <2>2. /\ UsedBefore(q, nextRef)
        /\ UsedSince(q, nextRef') = UsedSince(q, nextRef) \union {ref_page}
    BY <1>10, <2>1, OneMoreUse
  <2>3. CASE \E m \in Slots : FRAME[m] = q
    <3>1. PICK m \in Slots : FRAME[m] = q
      BY <2>3
    <3>2. m = last
      <4>1. m < last => m + 1 \in 1 .. last /\ m + 1 \in Slots /\ FRAME'[m + 1] = FRAME[m]
        BY <1>2, <1>3
      <4>2. m > last => FRAME'[m] = FRAME[m]
        BY <1>2, <1>3
      <4> QED
        BY <1>2, <1>10, <3>1, <4>1, <4>2
    <3>3. last = tot_frames - 1
      BY <1>4, <2>1, <3>1, <3>2
    <3>4. UsedSince(q, nextRef) = {FRAME[j] : j \in 0 .. last - 1}
      BY <1>1, <3>1, <3>2 DEF Stacked
    <3>5. CASE k = 0
      BY <1>3, <2>2, <3>5
    <3>6. CASE k # 0
      <4>1. FRAME'[k] = FRAME[k - 1] /\ k - 1 \in 0 .. last - 1
        BY <1>2, <1>3, <3>3, <3>6
      <4> QED
        BY <2>2, <3>4, <4>1
    <3> QED
      BY <3>5, <3>6
  <2>4. CASE \A m \in Slots : FRAME[m] # q
    <3>1. \A m \in Slots : FRAME[m] \in UsedSince(q, nextRef)
      BY <2>2, <2>4 DEF Stacked
    <3>2. CASE k = 0
      BY <1>3, <2>2, <3>2
    <3>3. CASE k \in 1 .. last
      <4>1. FRAME'[k] = FRAME[k - 1] /\ k - 1 \in Slots
        BY <1>2, <1>3, <3>3
      <4> QED
        BY <2>2, <3>1, <4>1
    <3>4. CASE k > last
      BY <1>2, <1>3, <2>2, <3>1, <3>4
    <3> QED
      BY <1>2, <3>2, <3>3, <3>4
  <2> QED
    BY <2>3, <2>4
<1>11. \A k \in Slots' : FRAME'[k] # Empty =>
         /\ UsedBefore(FRAME[k], nextRef)'
         /\ (UsedSince(FRAME[k], nextRef) = {FRAME[j] : j \in 0 .. k - 1})'
  <2> SUFFICES ASSUME NEW k \in Slots, FRAME'[k] # Empty
               PROVE  /\ UsedBefore(FRAME[k], nextRef)'
                      /\ UsedSince(FRAME[k], nextRef)' = {FRAME'[j] : j \in 0 .. k - 1}
    BY <1>2
  <2>1. /\ UsedBefore(FRAME'[k], nextRef')
        /\ UsedSince(FRAME'[k], nextRef') = {FRAME'[j] : j \in 0 .. k - 1}
    BY <1>9
  <2>2. UsedBefore(FRAME[k], nextRef)' = UsedBefore(FRAME'[k], nextRef')
    BY DEF UsedBefore
  <2>3. UsedSince(FRAME[k], nextRef)' = UsedSince(FRAME'[k], nextRef')
    BY DEF UsedSince
  <2> QED
    BY <2>1, <2>2, <2>3
<1>12. \A p \in RefPages : UsedBefore(p, nextRef)' /\ (\A k \in Slots' : FRAME'[k] # p) =>
         \A k \in Slots' : FRAME'[k] \in UsedSince(p, nextRef)'
  BY <1>2, <1>10 DEF UsedBefore, UsedSince
<1> QED
  BY <1>2, <1>8, <1>11, <1>12 DEF Stacked

\* One reference of pr_lru(): the stack moves, and the miss is counted.
LEMMA LruStepInv == PrInv /\ LruStep => PrInv'
<1> SUFFICES ASSUME PrInv, LruStep PROVE PrInv'
  OBVIOUS
<1>1. /\ page_refs' = page_refs /\ tot_frames' = tot_frames
      /\ tot_refs' = tot_refs /\ Slots' = Slots
      /\ running = "lru" /\ running' = "lru"
      /\ fptr' = fptr /\ lost' = lost /\ pf_fifo' = pf_fifo /\ pf_opt' = pf_opt
      /\ nextRef' = nextRef + 1 /\ nextRef <= tot_refs
  BY DEF LruStep, InLoop, tot_refs, Slots
<1>2. PrTypeOK /\ Running /\ Stacked
      /\ pf_lru = Cardinality(LruFaults(tot_frames - 1, nextRef - 1))
  BY <1>1 DEF PrInv, LruInv
<1>3. tot_refs \in Nat /\ nextRef \in 1 .. tot_refs /\ tot_frames \in 1 .. 7
  BY <1>1, <1>2, Refs DEF PrTypeOK, Running, Accepted
<1>4. ref_page \in RefPages
  BY <1>2, <1>3, Refs
<1>5. Hit => idx \in Slots /\ FRAME[idx] = ref_page
  BY <1>2, <1>3, FoundAt
<1>6. \E last \in Slots :
        /\ Hit => last = idx
        /\ ~Hit => last = tot_frames - 1
        /\ MoveToFront(last)
        /\ pf_lru' = IF Hit => idx = tot_frames - 1 THEN pf_lru + 1 ELSE pf_lru
  <2>1. tot_frames - 1 \in Slots
    BY <1>3 DEF Slots
  <2>2. CASE LruHit
    <3>1. /\ Hit /\ idx \in Slots /\ idx # tot_frames - 1
          /\ MoveToFront(idx) /\ pf_lru' = pf_lru
      BY <1>3, <1>5, <2>2 DEF LruHit, Slots
    <3> QED
      BY <3>1
  <2>3. CASE LruFault
    BY <2>1, <2>3 DEF LruFault
  <2> QED
    BY <2>2, <2>3 DEF LruStep
<1>7. PICK last \in Slots :
        /\ Hit => last = idx
        /\ ~Hit => last = tot_frames - 1
        /\ MoveToFront(last)
        /\ pf_lru' = IF Hit => idx = tot_frames - 1 THEN pf_lru + 1 ELSE pf_lru
  BY <1>6
<1>8. Stacked'
  BY <1>1, <1>2, <1>3, <1>7, StackMoves
<1>9. FRAME' \in [Slots -> RefPages \union {Empty}]
  <2>1. \A k \in Slots : k # 0 => k - 1 \in Slots
    BY <1>3 DEF Slots
  <2> QED
    BY <1>2, <1>4, <1>7, <2>1 DEF MoveToFront, PrTypeOK
<1>10. pf_lru' \in {pf_lru, pf_lru + 1}
  BY <1>7
<1>11. PrTypeOK'
  BY <1>1, <1>2, <1>3, <1>9, <1>10 DEF PrTypeOK, Running
<1>12. Running'
  BY <1>1, <1>2, <1>3, <1>10 DEF Running, Accepted, PrTypeOK
<1>13. pf_lru' = Cardinality(LruFaults(tot_frames - 1, nextRef))
  <2> DEFINE old == LruFaults(tot_frames - 1, nextRef - 1)
  <2>1. IsFiniteSet(old) /\ nextRef \notin old
    <3>1. IsFiniteSet(1 .. nextRef - 1)
      BY <1>3, FS_Interval
    <3>2. IsFiniteSet(old)
      BY <3>1, FS_Subset DEF LruFaults
    <3> QED
      BY <1>3, <3>2 DEF LruFaults
  <2>2. LruMisses(tot_frames - 1, nextRef) <=> (Hit => idx = tot_frames - 1)
    BY <1>2, <1>3, MissesHere
  <2>3. 1 .. nextRef = (1 .. nextRef - 1) \union {nextRef}
    BY <1>3
  <2>4. CASE LruMisses(tot_frames - 1, nextRef)
    <3>1. LruFaults(tot_frames - 1, nextRef) = old \union {nextRef}
      BY <2>3, <2>4 DEF LruFaults
    <3>2. Cardinality(old \union {nextRef}) = Cardinality(old) + 1
      BY <2>1, FS_AddElement
    <3> QED
      BY <1>2, <1>7, <2>2, <2>4, <3>1, <3>2
  <2>5. CASE ~LruMisses(tot_frames - 1, nextRef)
    <3>1. LruFaults(tot_frames - 1, nextRef) = old
      BY <2>3, <2>5 DEF LruFaults
    <3> QED
      BY <1>2, <1>7, <2>2, <2>5, <3>1
  <2> QED
    BY <2>4, <2>5
<1>14. LruFaults(tot_frames - 1, nextRef - 1)' = LruFaults(tot_frames - 1, nextRef)
  <2>1. nextRef' - 1 = nextRef
    BY <1>1, <1>3
  <2> QED
    BY <1>1, <2>1 DEF LruFaults, LruMisses, UsedBefore, UsedSince
<1>15. FifoInv' /\ LruInv'
  BY <1>1, <1>8, <1>13, <1>14 DEF FifoInv, LruInv, LruCountsOneFrameFewer
<1> QED
  BY <1>11, <1>12, <1>15 DEF PrInv

-----------------------------------------------------------------------------
(* The rest of main(), and the invariants.                                 *)

\* pr_fifo() keeps the invariant.
LEMMA FifoStepInv == PrInv /\ FifoStep => PrInv'
<1> SUFFICES ASSUME PrInv, FifoStep PROVE PrInv'
  OBVIOUS
<1>1. PrTypeOK' /\ Running' /\ running' = "fifo"
  BY FifoStepType
<1>2. FifoInv'
  BY FifoHitInv, FifoLostInv, FifoStoreInv
<1>3. LruInv'
  BY <1>1 DEF LruInv, LruCountsOneFrameFewer
<1> QED
  BY <1>1, <1>2, <1>3 DEF PrInv

\* Between the algorithms FRAME is emptied, and the counts stay.
LEMMA EndsInv == PrInv /\ (FifoEnd \/ LruEnd \/ OptEnd) => PrInv'
<1> SUFFICES ASSUME PrInv, FifoEnd \/ LruEnd \/ OptEnd PROVE PrInv'
  OBVIOUS
<1>1. /\ page_refs' = page_refs /\ tot_frames' = tot_frames
      /\ tot_refs' = tot_refs /\ Slots' = Slots
      /\ nextRef' = 1 /\ FRAME' = frame_init /\ nextRef > tot_refs
      /\ pf_fifo' = pf_fifo /\ pf_lru' = pf_lru /\ pf_opt' = pf_opt
      /\ \/ running = "fifo" /\ running' = "lru" /\ fptr' = 0 /\ lost' = 0
         \/ running = "lru" /\ running' = "opt" /\ fptr' = fptr /\ lost' = lost
         \/ running = "opt" /\ running' = "end" /\ fptr' = fptr /\ lost' = lost
  BY DEF FifoEnd, LruEnd, OptEnd, EndLoop, tot_refs, Slots
<1>2. PrTypeOK /\ Running
  BY DEF PrInv
<1>3. tot_refs \in Nat /\ tot_frames \in 1 .. 7 /\ nextRef = tot_refs + 1
  BY <1>1, <1>2, Refs DEF PrTypeOK, Running, Accepted
<1>4. FRAME' = frame_init'
  BY <1>1 DEF frame_init
<1>5. PrTypeOK'
  BY <1>1, <1>2, <1>3 DEF PrTypeOK, frame_init
<1>6. Running'
  BY <1>1, <1>2, <1>3, <1>4 DEF Running, Accepted, PrTypeOK
<1>7. FifoInv'
  BY <1>1 DEF FifoInv
<1>8. LruInv'
  <2>1. CASE running = "fifo"
    <3>1. pf_lru' = 0
      BY <1>1, <1>2, <2>1 DEF Running
    <3>2. LruFaults(tot_frames - 1, nextRef - 1)' = {}
      BY <1>1 DEF LruFaults
    <3>3. Stacked'
      <4>1. \A p : ~UsedBefore(p, nextRef)'
        BY <1>1 DEF UsedBefore
      <4>2. \A k \in Slots' : FRAME'[k] = Empty
        BY <1>4 DEF frame_init
      <4>3. \A k \in Slots' : \A j \in 0 .. k - 1 : j \in Slots'
        BY <1>1, <1>3 DEF Slots
      <4> QED
        BY <4>1, <4>2, <4>3 DEF Stacked
    <3> QED
      BY <1>1, <2>1, <3>1, <3>2, <3>3, FS_EmptySet DEF LruInv, LruCountsOneFrameFewer
  <2>2. CASE running = "lru"
    <3>1. nextRef - 1 = tot_refs
      BY <1>3
    <3>2. pf_lru = Cardinality(LruFaults(tot_frames - 1, tot_refs))
      BY <2>2, <3>1 DEF PrInv, LruInv
    <3>3. LruFaults(tot_frames - 1, tot_refs)' = LruFaults(tot_frames - 1, tot_refs)
      BY <1>1 DEF LruFaults, LruMisses, UsedBefore, UsedSince
    <3> QED
      BY <1>1, <2>2, <3>2, <3>3 DEF LruInv, LruCountsOneFrameFewer
  <2>3. CASE running = "opt"
    BY <1>1, <2>3 DEF LruInv, LruCountsOneFrameFewer
  <2> QED
    BY <1>1, <2>1, <2>2, <2>3
<1> QED
  BY <1>5, <1>6, <1>7, <1>8 DEF PrInv

\* pr_optimal() leaves the counts of the other two as they are.
LEMMA OptStepInv == PrInv /\ OptStep => PrInv'
<1> SUFFICES ASSUME PrInv, OptStep PROVE PrInv'
  OBVIOUS
<1>1. /\ page_refs' = page_refs /\ tot_frames' = tot_frames
      /\ tot_refs' = tot_refs /\ Slots' = Slots
      /\ running = "opt" /\ running' = "opt"
      /\ fptr' = fptr /\ lost' = lost /\ pf_fifo' = pf_fifo /\ pf_lru' = pf_lru
      /\ nextRef' = nextRef + 1 /\ nextRef <= tot_refs
      /\ \/ FRAME' = FRAME /\ pf_opt' = pf_opt
         \/ FRAME' = [FRAME EXCEPT ![OptVictim] = ref_page] /\ pf_opt' = pf_opt + 1
  BY DEF OptStep, InLoop, tot_refs, Slots
<1>2. PrTypeOK /\ Running
  BY DEF PrInv
<1>3. tot_refs \in Nat /\ nextRef \in 1 .. tot_refs /\ ref_page \in RefPages
  BY <1>1, <1>2, Refs DEF PrTypeOK
<1>4. FRAME' \in [Slots -> RefPages \union {Empty}]
  BY <1>1, <1>2, <1>3 DEF PrTypeOK
<1>5. PrTypeOK'
  BY <1>1, <1>2, <1>3, <1>4 DEF PrTypeOK, Running
<1>6. Running'
  BY <1>1, <1>2, <1>3 DEF Running, Accepted, PrTypeOK
<1>7. FifoInv'
  BY <1>1 DEF FifoInv
<1>8. LruFaults(tot_frames - 1, tot_refs)' = LruFaults(tot_frames - 1, tot_refs)
  BY <1>1 DEF LruFaults, LruMisses, UsedBefore, UsedSince
<1>9. LruInv'
  BY <1>1, <1>8 DEF PrInv, LruInv, LruCountsOneFrameFewer
<1> QED
  BY <1>5, <1>6, <1>7, <1>9 DEF PrInv

\* The invariant of the three algorithms holds in every reachable state.
LEMMA PrInvariance == PrSpec => []PrInv
<1>1. ASSUME PrInv, UNCHANGED prVars PROVE PrInv'
  <2>1. PrTypeOK' /\ Running'
    BY <1>1 DEF PrInv, prVars, PrTypeOK, Running, tot_refs, Slots, frame_init, Accepted
  <2>2. /\ page_refs' = page_refs /\ tot_frames' = tot_frames /\ FRAME' = FRAME
        /\ running' = running /\ nextRef' = nextRef /\ fptr' = fptr /\ lost' = lost
        /\ pf_fifo' = pf_fifo /\ pf_lru' = pf_lru /\ tot_refs' = tot_refs
        /\ Slots' = Slots
    BY <1>1 DEF prVars, tot_refs, Slots
  <2>3. FifoInv'
    <3>1. NothingStored' = NothingStored
      BY <2>2 DEF NothingStored, frame_init
    <3>2. \A F : /\ Queued(F)' = Queued(F)
                 /\ IsFifo(F, lost + 1, nextRef - 1, tot_frames)' =
                      IsFifo(F, lost + 1, nextRef - 1, tot_frames)
      BY <2>2 DEF Queued, SlotBack, IsFifo, FaultsSince
    <3> QED
      BY <1>1, <2>2, <3>1, <3>2 DEF PrInv, FifoInv
  <2>4. LruInv'
    <3>1. Stacked' = Stacked
      BY <2>2 DEF Stacked, UsedBefore, UsedSince
    <3>2. /\ LruFaults(tot_frames - 1, nextRef - 1)' =
               LruFaults(tot_frames - 1, nextRef - 1)
          /\ LruFaults(tot_frames - 1, tot_refs)' = LruFaults(tot_frames - 1, tot_refs)
      BY <2>2 DEF LruFaults, LruMisses, UsedBefore, UsedSince
    <3> QED
      BY <1>1, <2>2, <3>1, <3>2 DEF PrInv, LruInv, LruCountsOneFrameFewer
  <2> QED
    BY <2>1, <2>3, <2>4 DEF PrInv
<1>2. PrInv /\ [PrNext]_prVars => PrInv'
  BY <1>1, CheckInv, FifoStepInv, LruStepInv, OptStepInv, EndsInv DEF PrNext
<1> QED
  BY PrInitInv, <1>2, PTL DEF PrSpec

\* pr_fifo() of lab09_ex1.c counts the faults of a queue of tot_frames pages on
\* every reference string, wherever the uninitialised fptr points at first; only
\* the pages it stores outside FRAME, at most tot_frames of them, do not count.
THEOREM FifoCounts == PrSpec => []FifoCountsFaults
<1>1. PrInv => FifoCountsFaults
  <2> SUFFICES ASSUME PrInv, running = "fifo", nextRef > tot_refs
               PROVE  /\ lost <= tot_frames
                      /\ \E F \in SUBSET (lost + 1 .. tot_refs) :
                           /\ IsFifo(F, lost + 1, tot_refs, tot_frames)
                           /\ pf_fifo = lost + Cardinality(F)
    BY DEF FifoCountsFaults, PrInv
  <2>1. nextRef - 1 = tot_refs
    BY Refs DEF PrInv, PrTypeOK
  <2> QED
    BY <2>1 DEF PrInv, FifoInv
<1> QED
  BY <1>1, PrInvariance, PTL

\* pr_lru() of lab09_ex1.c counts, on every reference string, the faults LRU has
\* with one frame fewer than it was given.
THEOREM LruCounts == PrSpec => []LruCountsOneFrameFewer
<1>1. PrInv => LruCountsOneFrameFewer
  BY DEF PrInv, LruInv
<1> QED
  BY <1>1, PrInvariance, PTL

-----------------------------------------------------------------------------
(* Lab 9: pr_optimal().                                                    *)

\* Induction over the numbers up to bound, for the set Q of those with the property.
LEMMA UpTo ==
  ASSUME NEW bound \in Nat, NEW Q, 0 \in Q,
         \A k \in 1 .. bound : k - 1 \in Q => k \in Q
  PROVE  \A k \in 0 .. bound : k \in Q
<1> DEFINE T == (0 .. bound) \ Q
<1> SUFFICES ASSUME T # {} PROVE FALSE
  OBVIOUS
<1>1. T \in SUBSET Nat
  OBVIOUS
<1> HIDE DEF T
<1>2. PICK r \in T : \A y \in T : ~ (<<y, r>> \in OpToRel(<, Nat))
  BY <1>1, NatLessThanWellFounded, WFMin
<1>3. r \in 0 .. bound /\ r \notin Q
  BY DEF T
<1>4. r # 0 /\ r \in 1 .. bound /\ r - 1 \in Nat /\ r \in Nat /\ r - 1 < r
  BY <1>3
<1>5. r - 1 \notin T
  BY <1>2, <1>4 DEF OpToRel
<1> QED
  BY <1>3, <1>4, <1>5 DEF T

\* g is defined on 0 .. bound by its first value v0 and what step makes of a value
Iterates(g, bound, V, v0, step) ==
  /\ g \in [0 .. bound -> V]
  /\ g[0] = v0
  /\ \A k \in 1 .. bound : g[k] = step[k][g[k - 1]]

\* A function on 0 .. bound may be defined by recursion.
LEMMA RecursionExists ==
  ASSUME NEW bound \in Nat, NEW V, NEW v0 \in V,
         NEW step \in [1 .. bound -> [V -> V]]
  PROVE  \E g : Iterates(g, bound, V, v0, step)
<1> DEFINE Solves(g, m) == g[0] = v0 /\ \A k \in 1 .. m : g[k] = step[k][g[k - 1]]
           Q == {m \in 0 .. bound : \E g \in [0 .. m -> V] : Solves(g, m)}
<1>1. 0 \in Q
  <2> DEFINE g == [k \in 0 .. 0 |-> v0]
  <2>1. g \in [0 .. 0 -> V] /\ Solves(g, 0)
    OBVIOUS
  <2> HIDE DEF g, Solves
  <2>2. 0 \in 0 .. bound
    OBVIOUS
  <2> QED
    BY <2>1, <2>2
<1>2. ASSUME NEW m \in 1 .. bound, m - 1 \in Q PROVE m \in Q
  <2>1. PICK g \in [0 .. m - 1 -> V] : Solves(g, m - 1)
    BY <1>2
  <2> DEFINE h == [k \in 0 .. m |-> IF k = m THEN step[m][g[m - 1]] ELSE g[k]]
  <2>2. step[m][g[m - 1]] \in V
    OBVIOUS
  <2>3. h \in [0 .. m -> V]
    BY <2>2
  <2>4. ASSUME NEW k \in 1 .. m PROVE h[k] = step[k][h[k - 1]]
    BY <2>1
  <2>5. Solves(h, m)
    BY <2>1, <2>4
  <2> HIDE DEF h, Solves
  <2>6. m \in 0 .. bound
    OBVIOUS
  <2> QED
    BY <2>3, <2>5, <2>6
<1> HIDE DEF Q
<1>3. \A m \in 1 .. bound : m - 1 \in Q => m \in Q
  BY <1>2
<1>4. \A m \in 0 .. bound : m \in Q
  BY <1>1, <1>3, UpTo
<1>5. bound \in Q
  BY <1>4
<1> QED
  BY <1>5 DEF Q, Iterates

\* A nonempty set of numbers has a least one.
LEMMA LeastNumber ==
  ASSUME NEW T \in SUBSET Nat, T # {}
  PROVE  Min(T) \in T /\ \A y \in T : Min(T) <= y
<1>1. PICK x \in T : \A y \in T : ~ (<<y, x>> \in OpToRel(<, Nat))
  BY NatLessThanWellFounded, WFMin
<1>2. ASSUME NEW y \in T PROVE x <= y
  <2>1. ~(y < x)
    BY <1>1 DEF OpToRel
  <2> QED
    BY <2>1
<1> QED
  BY <1>2 DEF Min

\* numbers of faults, by the pages in memory
Counts == [SUBSET RefPages -> Nat]

\* Whatever victim is the best, its faults can be counted.
LEMMA ServeType ==
  ASSUME NEW p \in RefPages, NEW n \in Nat \ {0}, NEW rest \in Counts
  PROVE  Serve(p, n, rest) \in Counts
<1> SUFFICES ASSUME NEW S \in SUBSET RefPages PROVE Serve(p, n, rest)[S] \in Nat
  BY DEF Counts, Serve
<1>1. CASE p \in S
  BY <1>1 DEF Serve, Counts
<1>2. CASE p \notin S /\ Cardinality(S) < n
  BY <1>2 DEF Serve, Counts
<1>3. CASE p \notin S /\ ~(Cardinality(S) < n)
  <2> DEFINE C == {rest[(S \ {v}) \union {p}] : v \in S}
  <2>1. C \in SUBSET Nat
    <3>1. \A v \in S : (S \ {v}) \union {p} \in SUBSET RefPages
      OBVIOUS
    <3>2. \A U \in SUBSET RefPages : rest[U] \in Nat
      BY DEF Counts
    <3> QED
      BY <3>1, <3>2
  <2>2. S # {}
    BY <1>3, FS_EmptySet
  <2>3. C # {}
    BY <2>2
  <2>4. Serve(p, n, rest)[S] = 1 + Min(C)
    BY <1>3 DEF Serve
  <2> HIDE DEF C
  <2>5. Min(C) \in Nat
    BY <2>1, <2>3, LeastNumber
  <2> QED
    BY <2>4, <2>5
<1> QED
  BY <1>1, <1>2, <1>3

\* FewestFrom is defined by its recursion.
LEMMA FewestFromUnfolds ==
  ASSUME NEW n \in Nat \ {0}, tot_refs \in Nat, page_refs \in [1 .. tot_refs -> RefPages]
  PROVE  /\ FewestFrom(n) \in [0 .. tot_refs -> Counts]
         /\ FewestFrom(n)[0] = [S \in SUBSET RefPages |-> 0]
         /\ \A k \in 1 .. tot_refs :
              FewestFrom(n)[k] =
                Serve(page_refs[tot_refs + 1 - k], n, FewestFrom(n)[k - 1])
<1> DEFINE zero == [S \in SUBSET RefPages |-> 0]
           step == [k \in 1 .. tot_refs |->
                      [rest \in Counts |-> Serve(page_refs[tot_refs + 1 - k], n, rest)]]
           Def(f) == f = [k \in 0 .. tot_refs |->
                            IF k = 0 THEN zero
                            ELSE Serve(page_refs[tot_refs + 1 - k], n, f[k - 1])]
<1>1. zero \in Counts
  BY DEF Counts
<1>2. step \in [1 .. tot_refs -> [Counts -> Counts]]
  <2> SUFFICES ASSUME NEW k \in 1 .. tot_refs, NEW rest \in Counts
               PROVE  Serve(page_refs[tot_refs + 1 - k], n, rest) \in Counts
    OBVIOUS
  <2>1. page_refs[tot_refs + 1 - k] \in RefPages
    OBVIOUS
  <2> QED
    BY <2>1, ServeType
<1>3. PICK g : Iterates(g, tot_refs, Counts, zero, step)
  <2> HIDE DEF zero, step
  <2> QED
    BY <1>1, <1>2, RecursionExists
<1>4. \A k \in 1 .. tot_refs :
        g[k] = Serve(page_refs[tot_refs + 1 - k], n, g[k - 1])
  <2>1. \A k \in 1 .. tot_refs : g[k] = step[k][g[k - 1]] /\ g[k - 1] \in Counts
    BY <1>3 DEF Iterates
  <2> QED
    BY <2>1
<1>5. Def(g)
  <2>1. g \in [0 .. tot_refs -> Counts] /\ g[0] = zero
    BY <1>3 DEF Iterates
  <2> QED
    BY <1>4, <2>1
<1>6. FewestFrom(n) = CHOOSE f : Def(f)
  BY DEF FewestFrom
<1> HIDE DEF zero
<1>7. Def(FewestFrom(n))
  BY <1>5, <1>6
<1> HIDE DEF Def
<1>8. \A f : Def(f) => /\ f[0] = zero
                       /\ \A k \in 1 .. tot_refs :
                            f[k] = Serve(page_refs[tot_refs + 1 - k], n, f[k - 1])
  BY DEF Def
<1>9. FewestFrom(n) \in [0 .. tot_refs -> Counts]
  <2> DEFINE Q == {k \in 0 .. tot_refs : FewestFrom(n)[k] \in Counts}
  <2>1. 0 \in Q
    BY <1>1, <1>7, <1>8
  <2>2. ASSUME NEW k \in 1 .. tot_refs, k - 1 \in Q PROVE k \in Q
    <3>1. page_refs[tot_refs + 1 - k] \in RefPages
      OBVIOUS
    <3>2. FewestFrom(n)[k - 1] \in Counts
      BY <2>2
    <3>3. Serve(page_refs[tot_refs + 1 - k], n, FewestFrom(n)[k - 1]) \in Counts
      BY <3>1, <3>2, ServeType
    <3> QED
      BY <1>7, <1>8, <3>3
  <2> HIDE DEF Q
  <2>3. \A k \in 0 .. tot_refs : k \in Q
    BY <2>1, <2>2, UpTo
  <2>4. \A k \in 0 .. tot_refs : FewestFrom(n)[k] \in Counts
    BY <2>3 DEF Q
  <2>5. FewestFrom(n) = [k \in 0 .. tot_refs |-> FewestFrom(n)[k]]
    BY <1>7 DEF Def
  <2> QED
    BY <2>4, <2>5
<1> QED
  BY <1>7, <1>8, <1>9 DEF zero

\* A reference string, and a number of frames for it.
Given ==
  /\ tot_refs \in Nat
  /\ page_refs \in [1 .. tot_refs -> RefPages]
  /\ tot_frames \in 1 .. 7

\* the pages that may be in the frames together, and those there may be after a
\* reference to p
Memories ==
  {S \in SUBSET RefPages : IsFiniteSet(S) /\ Cardinality(S) <= tot_frames}
After(S, p) ==
  IF p \in S THEN {S}
  ELSE IF Cardinality(S) < tot_frames THEN {S \union {p}}
  ELSE {(S \ {v}) \union {p} : v \in S}

\* the fewest faults in the last k references, and the first of these
Fewest(k, S) == FewestFrom(tot_frames)[k][S]
Coming(k) == page_refs[tot_refs + 1 - k]
Cost(S, p) == IF p \in S THEN 0 ELSE 1

\* FRAME has room for every memory.
LEMMA MemorySize ==
  ASSUME Given, NEW S \in Memories
  PROVE  /\ S \in SUBSET RefPages /\ IsFiniteSet(S)
         /\ Cardinality(S) \in 0 .. tot_frames
BY FS_CardinalityType DEF Memories, Given

\* No reference leaves more pages in the frames than there are frames.
LEMMA AfterIsMemory ==
  ASSUME Given, NEW S \in Memories, NEW p \in RefPages
  PROVE  After(S, p) \subseteq Memories
<1>1. S \in SUBSET RefPages /\ IsFiniteSet(S) /\ Cardinality(S) \in 0 .. tot_frames
      /\ tot_frames \in 1 .. 7
  BY MemorySize DEF Given
<1>2. CASE p \in S
  BY <1>2 DEF After
<1>3. CASE p \notin S /\ Cardinality(S) < tot_frames
  <2>1. IsFiniteSet(S \union {p}) /\ Cardinality(S \union {p}) = Cardinality(S) + 1
    BY <1>1, <1>3, FS_AddElement
  <2>2. S \union {p} \in Memories
    BY <1>1, <1>3, <2>1 DEF Memories
  <2> QED
    BY <1>3, <2>2 DEF After
<1>4. CASE p \notin S /\ ~(Cardinality(S) < tot_frames)
  <2>1. ASSUME NEW v \in S PROVE (S \ {v}) \union {p} \in Memories
    <3>1. IsFiniteSet(S \ {v}) /\ Cardinality(S \ {v}) = Cardinality(S) - 1
      BY <1>1, FS_RemoveElement
    <3> DEFINE R == S \ {v}
    <3>2. p \notin R /\ R \in SUBSET RefPages
      BY <1>1, <1>4
    <3> HIDE DEF R
    <3>3. IsFiniteSet(R) /\ Cardinality(R) = Cardinality(S) - 1
      BY <3>1 DEF R
    <3>4. IsFiniteSet(R \union {p}) /\ Cardinality(R \union {p}) = Cardinality(R) + 1
      BY <3>2, <3>3, FS_AddElement
    <3>5. R \union {p} \in Memories
      BY <1>1, <3>2, <3>3, <3>4 DEF Memories
    <3> QED
      BY <3>5 DEF R
  <2> QED
    BY <1>4, <2>1 DEF After
<1> QED
  BY <1>2, <1>3, <1>4

\* The fewest faults are a number, and 0 when no reference is left.
LEMMA FewestType ==
  ASSUME Given, NEW k \in 0 .. tot_refs, NEW S \in Memories
  PROVE  Fewest(k, S) \in Nat /\ Fewest(0, S) = 0
<1>1. tot_frames \in Nat \ {0} /\ S \in SUBSET RefPages
  BY DEF Given, Memories
<1>2. /\ FewestFrom(tot_frames) \in [0 .. tot_refs -> Counts]
      /\ FewestFrom(tot_frames)[0] = [U \in SUBSET RefPages |-> 0]
  BY <1>1, FewestFromUnfolds DEF Given
<1>3. FewestFrom(tot_frames)[k] \in Counts
  BY <1>2
<1> QED
  BY <1>1, <1>2, <1>3 DEF Fewest, Counts

\* The fewest faults are those of the best of the next memories.
LEMMA FewestStep ==
  ASSUME Given, NEW k \in 1 .. tot_refs, NEW S \in Memories
  PROVE  LET p == Coming(k)
         IN  /\ \E T \in After(S, p) : Fewest(k, S) = Cost(S, p) + Fewest(k - 1, T)
             /\ \A T \in After(S, p) : Fewest(k, S) <= Cost(S, p) + Fewest(k - 1, T)
<1> DEFINE p == Coming(k)
<1>1. p \in RefPages /\ tot_frames \in Nat \ {0} /\ k - 1 \in 0 .. tot_refs
      /\ S \in SUBSET RefPages
  BY MemorySize DEF Coming, Given
<1>2. FewestFrom(tot_frames)[k] = Serve(p, tot_frames, FewestFrom(tot_frames)[k - 1])
  BY <1>1, FewestFromUnfolds DEF Given, Coming
<1>3. \A T \in After(S, p) : Fewest(k - 1, T) \in Nat
  BY <1>1, AfterIsMemory, FewestType
<1> HIDE DEF p
<1>4. Fewest(k, S) =
        IF p \in S THEN Fewest(k - 1, S)
        ELSE IF Cardinality(S) < tot_frames THEN 1 + Fewest(k - 1, S \union {p})
        ELSE 1 + Min({Fewest(k - 1, (S \ {v}) \union {p}) : v \in S})
  BY <1>1, <1>2 DEF Fewest, Serve
<1>5. CASE p \in S
  BY <1>3, <1>4, <1>5 DEF After, Cost, p
<1>6. CASE p \notin S /\ Cardinality(S) < tot_frames
  <2>1. After(S, p) = {S \union {p}} /\ Cost(S, p) = 1
    BY <1>6 DEF After, Cost
  <2>2. Fewest(k, S) = 1 + Fewest(k - 1, S \union {p})
    BY <1>4, <1>6
  <2>3. Fewest(k - 1, S \union {p}) \in Nat
    BY <1>3, <2>1
  <2> QED
    BY <2>1, <2>2, <2>3 DEF p
<1>7. CASE p \notin S /\ ~(Cardinality(S) < tot_frames)
  <2> DEFINE C == {Fewest(k - 1, (S \ {v}) \union {p}) : v \in S}
  <2>1. After(S, p) = {(S \ {v}) \union {p} : v \in S}
    BY <1>7 DEF After
  <2>2. C = {Fewest(k - 1, T) : T \in After(S, p)}
    BY <2>1
  <2>3. S # {}
    BY <1>1, <1>7, FS_EmptySet
  <2>4. Fewest(k, S) = 1 + Min(C)
    BY <1>4, <1>7
  <2>5. C # {}
    BY <2>3
  <2> HIDE DEF C
  <2>6. C \in SUBSET Nat
    BY <1>3, <2>2
  <2>7. Min(C) \in C /\ \A y \in C : Min(C) <= y
    BY <2>5, <2>6, LeastNumber
  <2>8. PICK T \in After(S, p) : Min(C) = Fewest(k - 1, T)
    BY <2>2, <2>7
  <2>9. ASSUME NEW U \in After(S, p) PROVE Fewest(k, S) <= Cost(S, p) + Fewest(k - 1, U)
    <3>1. Fewest(k - 1, U) \in C
      BY <2>2
    <3>2. Min(C) <= Fewest(k - 1, U) /\ Min(C) \in Nat /\ Fewest(k - 1, U) \in Nat
      BY <2>6, <2>7, <3>1
    <3> QED
      BY <1>7, <2>4, <3>2 DEF Cost
  <2>10. Cost(S, p) = 1
    BY <1>7 DEF Cost
  <2> QED
    BY <2>4, <2>8, <2>9, <2>10 DEF p
<1> QED
  BY <1>5, <1>6, <1>7

\* After a reference its page is there, and besides it only what was there.
LEMMA AfterHolds ==
  ASSUME NEW S, NEW p, NEW T \in After(S, p)
  PROVE  p \in T /\ T \subseteq S \union {p} /\ (p \in S => T = S)
BY DEF After

\* Whatever happens to memory R, memory S can follow: what it lacks costs at most
\* one fault a page.
LEMMA Follows ==
  ASSUME Given, NEW S \in Memories, NEW R \in Memories, NEW p \in RefPages,
         NEW U \in After(R, p)
  PROVE  \E T \in After(S, p) :
           Cost(S, p) + Cardinality(U \ T) <= Cost(R, p) + Cardinality(R \ S)
<1>1. /\ IsFiniteSet(S) /\ Cardinality(S) \in 0 .. tot_frames
      /\ IsFiniteSet(R) /\ Cardinality(R) \in 0 .. tot_frames
      /\ tot_frames \in 1 .. 7
  BY MemorySize DEF Given
<1>2. IsFiniteSet(R \ S) /\ Cardinality(R \ S) \in Nat
  BY <1>1, FS_Difference, FS_CardinalityType
<1>3. p \in U /\ U \subseteq R \union {p} /\ (p \in R => U = R)
  BY AfterHolds
<1>4. ASSUME S \subseteq R, ~(Cardinality(S) < tot_frames) PROVE S = R
  <2>1. Cardinality(S) <= Cardinality(R) /\ (Cardinality(R) = Cardinality(S) => R = S)
    BY <1>1, <1>4, FS_Subset
  <2> QED
    BY <1>1, <1>4, <2>1
<1>5. ASSUME NEW D, D \subseteq R \ S
      PROVE  Cardinality(D) \in Nat /\ Cardinality(D) <= Cardinality(R \ S)
  <2>1. IsFiniteSet(D) /\ Cardinality(D) <= Cardinality(R \ S)
    BY <1>2, <1>5, FS_Subset
  <2> QED
    BY <2>1, FS_CardinalityType
<1>6. CASE p \in S
  <2>1. S \in After(S, p) /\ Cost(S, p) = 0 /\ Cost(R, p) \in {0, 1}
    BY <1>6 DEF After, Cost
  <2>2. U \ S \subseteq R \ S
    BY <1>3, <1>6
  <2>3. Cardinality(U \ S) \in Nat /\ Cardinality(U \ S) <= Cardinality(R \ S)
    BY <1>5, <2>2
  <2> QED
    BY <1>2, <2>1, <2>3
<1>7. CASE p \notin S /\ p \in R
  <2>1. PICK T \in After(S, p) : S \intersect R \subseteq T
    <3>1. CASE Cardinality(S) < tot_frames
      BY <1>7, <3>1 DEF After
    <3>2. CASE ~(Cardinality(S) < tot_frames)
      <4>1. PICK v \in S : v \notin R
        BY <1>4, <1>7, <3>2
      <4>2. (S \ {v}) \union {p} \in After(S, p)
        BY <1>7, <3>2 DEF After
      <4> QED
        BY <4>1, <4>2
    <3> QED
      BY <3>1, <3>2
  <2>2. p \in T
    BY AfterHolds
  <2> DEFINE E == (R \ S) \ {p}
  <2>3. U \ T \subseteq E /\ p \in R \ S
    BY <1>3, <1>7, <2>1, <2>2
  <2>4. IsFiniteSet(E) /\ Cardinality(E) = Cardinality(R \ S) - 1
    BY <1>2, <2>3, FS_RemoveElement
  <2> HIDE DEF E
  <2>5. Cardinality(U \ T) <= Cardinality(E) /\ IsFiniteSet(U \ T)
    BY <2>3, <2>4, FS_Subset
  <2>6. Cardinality(U \ T) \in Nat
    BY <2>5, FS_CardinalityType
  <2>7. Cost(S, p) = 1 /\ Cost(R, p) = 0
    BY <1>7 DEF Cost
  <2>8. Cost(S, p) + Cardinality(U \ T) <= Cost(R, p) + Cardinality(R \ S)
    BY <1>2, <2>4, <2>5, <2>6, <2>7
  <2> QED
    BY <2>8
<1>8. CASE p \notin S /\ p \notin R
  <2>1. PICK T \in After(S, p) : U \ T \subseteq R \ S
    <3>1. CASE Cardinality(S) < tot_frames
      BY <1>3, <1>8, <3>1 DEF After
    <3>2. CASE ~(Cardinality(S) < tot_frames) /\ S \subseteq R
      BY <1>4, <3>2
    <3>3. CASE ~(Cardinality(S) < tot_frames) /\ ~(S \subseteq R)
      <4>1. PICK v \in S : v \notin R
        BY <3>3
      <4>2. (S \ {v}) \union {p} \in After(S, p)
        BY <1>8, <3>3 DEF After
      <4>3. U \ ((S \ {v}) \union {p}) \subseteq R \ S
        BY <1>3, <4>1
      <4> QED
        BY <4>2, <4>3
    <3> QED
      BY <3>1, <3>2, <3>3
  <2>2. Cardinality(U \ T) \in Nat /\ Cardinality(U \ T) <= Cardinality(R \ S)
    BY <1>5, <2>1
  <2>3. Cost(S, p) = 1 /\ Cost(R, p) = 1
    BY <1>8 DEF Cost
  <2>4. Cost(S, p) + Cardinality(U \ T) <= Cost(R, p) + Cardinality(R \ S)
    BY <1>2, <2>2, <2>3
  <2> QED
    BY <2>4
<1> QED
  BY <1>6, <1>7, <1>8

\* A memory that lacks some pages of another has at most that many more faults.
LEMMA LacksCost ==
  ASSUME Given, NEW k \in 0 .. tot_refs, NEW S \in Memories, NEW R \in Memories
  PROVE  Fewest(k, S) <= Fewest(k, R) + Cardinality(R \ S)
<1> DEFINE Below(i) == \A A, B \in Memories :
                         Fewest(i, A) <= Fewest(i, B) + Cardinality(B \ A)
           Q == {i \in 0 .. tot_refs : Below(i)}
<1>1. tot_refs \in Nat
  BY DEF Given
<1>2. ASSUME NEW A \in Memories, NEW B \in Memories
      PROVE  Cardinality(B \ A) \in Nat
  <2>1. IsFiniteSet(B)
    BY MemorySize
  <2> QED
    BY <2>1, FS_Difference, FS_CardinalityType
<1>3. 0 \in Q
  <2>1. 0 \in 0 .. tot_refs
    BY <1>1
  <2>2. \A A \in Memories : Fewest(0, A) = 0
    BY <2>1, FewestType
  <2> QED
    BY <1>2, <2>1, <2>2
<1>4. ASSUME NEW i \in 1 .. tot_refs, i - 1 \in Q PROVE i \in Q
  <2> SUFFICES ASSUME NEW A \in Memories, NEW B \in Memories
               PROVE  Fewest(i, A) <= Fewest(i, B) + Cardinality(B \ A)
    BY <1>1
  <2> DEFINE p == Coming(i)
  <2>1. p \in RefPages /\ i - 1 \in 0 .. tot_refs /\ i \in 0 .. tot_refs
    BY DEF Coming, Given
  <2>2. PICK U \in After(B, p) : Fewest(i, B) = Cost(B, p) + Fewest(i - 1, U)
    BY FewestStep
  <2>3. \A T \in After(A, p) : Fewest(i, A) <= Cost(A, p) + Fewest(i - 1, T)
    BY FewestStep
  <2> HIDE DEF p
  <2>4. PICK T \in After(A, p) :
          Cost(A, p) + Cardinality(U \ T) <= Cost(B, p) + Cardinality(B \ A)
    BY <2>1, Follows
  <2>5. T \in Memories /\ U \in Memories
    BY <2>1, AfterIsMemory
  <2>6. Fewest(i - 1, T) <= Fewest(i - 1, U) + Cardinality(U \ T)
    BY <1>4, <2>5
  <2>7. Fewest(i, A) <= Cost(A, p) + Fewest(i - 1, T)
    BY <2>3
  <2>8. /\ Fewest(i - 1, T) \in Nat /\ Fewest(i - 1, U) \in Nat
        /\ Fewest(i, A) \in Nat /\ Fewest(i, B) \in Nat
    BY <2>1, <2>5, FewestType
  <2>9. /\ Cardinality(U \ T) \in Nat /\ Cardinality(B \ A) \in Nat
        /\ Cost(A, p) \in Nat /\ Cost(B, p) \in Nat
    BY <1>2, <2>5 DEF Cost
  <2> QED
    BY <2>2, <2>4, <2>6, <2>7, <2>8, <2>9
<1> HIDE DEF Q
<1>5. \A i \in 1 .. tot_refs : i - 1 \in Q => i \in Q
  BY <1>4
<1>6. \A i \in 0 .. tot_refs : i \in Q
  BY <1>1, <1>3, <1>5, UpTo
<1>7. k \in Q
  BY <1>6
<1> QED
  BY <1>7 DEF Q

\* Page a is needed before page b in the last k references.
Sooner(a, b, k) ==
  \A l \in tot_refs + 1 - k .. tot_refs :
    page_refs[l] = b => \E m \in tot_refs + 1 - k .. l : page_refs[m] = a

\* Of two memories that differ in one page, the one with the page that is needed
\* sooner is not worse.
LEMMA Exchange ==
  ASSUME Given, NEW k \in 0 .. tot_refs, NEW X \in SUBSET RefPages,
         NEW a, NEW b, a \notin X, b \notin X,
         X \union {a} \in Memories, X \union {b} \in Memories, Sooner(a, b, k)
  PROVE  Fewest(k, X \union {a}) <= Fewest(k, X \union {b})
<1> DEFINE Below(i) == \A Y \in SUBSET RefPages :
                         /\ a \notin Y /\ b \notin Y
                         /\ Y \union {a} \in Memories /\ Y \union {b} \in Memories
                         /\ Sooner(a, b, i)
                         => Fewest(i, Y \union {a}) <= Fewest(i, Y \union {b})
           Q == {i \in 0 .. tot_refs : Below(i)}
<1>1. tot_refs \in Nat
  BY DEF Given
<1>2. 0 \in Q
  <2>1. 0 \in 0 .. tot_refs
    BY <1>1
  <2>2. \A A \in Memories : Fewest(0, A) = 0
    BY <2>1, FewestType
  <2> QED
    BY <2>1, <2>2
<1>3. ASSUME NEW i \in 1 .. tot_refs, i - 1 \in Q PROVE i \in Q
  <2> SUFFICES ASSUME NEW Y \in SUBSET RefPages, a \notin Y, b \notin Y,
                      Y \union {a} \in Memories, Y \union {b} \in Memories,
                      Sooner(a, b, i)
               PROVE  Fewest(i, Y \union {a}) <= Fewest(i, Y \union {b})
    BY <1>1
  <2> DEFINE p == Coming(i)
             A == Y \union {a}
             B == Y \union {b}
  <2>1. p \in RefPages /\ i - 1 \in 0 .. tot_refs /\ i \in 0 .. tot_refs
    BY DEF Coming, Given
  <2>2. PICK U \in After(B, p) : Fewest(i, B) = Cost(B, p) + Fewest(i - 1, U)
    BY FewestStep
  <2>3. \A T \in After(A, p) : Fewest(i, A) <= Cost(A, p) + Fewest(i - 1, T)
    BY FewestStep
  <2>4. p = a \/ (p # a /\ p # b /\ Sooner(a, b, i - 1))
    <3>1. /\ tot_refs + 1 - i \in Int /\ tot_refs + 1 - i <= tot_refs
          /\ tot_refs + 1 - (i - 1) = tot_refs + 1 - i + 1
      BY <1>1
    <3>2. ASSUME p = b PROVE p = a
      <4>1. page_refs[tot_refs + 1 - i] = b /\ tot_refs + 1 - i \in tot_refs + 1 - i .. tot_refs
        BY <3>1, <3>2 DEF Coming
      <4>2. \E m \in tot_refs + 1 - i .. tot_refs + 1 - i : page_refs[m] = a
        BY <4>1 DEF Sooner
      <4> QED
        BY <3>1, <4>2 DEF Coming
    <3>3. ASSUME p # a PROVE Sooner(a, b, i - 1)
      <4> SUFFICES ASSUME NEW l \in tot_refs + 1 - (i - 1) .. tot_refs, page_refs[l] = b
                   PROVE  \E m \in tot_refs + 1 - (i - 1) .. l : page_refs[m] = a
        BY DEF Sooner
      <4>1. l \in tot_refs + 1 - i .. tot_refs
        BY <3>1
      <4>2. PICK m \in tot_refs + 1 - i .. l : page_refs[m] = a
        BY <4>1 DEF Sooner
      <4>3. m # tot_refs + 1 - i
        BY <3>3, <4>2 DEF Coming
      <4>4. m \in tot_refs + 1 - (i - 1) .. l
        BY <3>1, <4>1, <4>3
      <4> QED
        BY <4>2, <4>4
    <3> QED
      BY <3>2, <3>3
  <2>5. A \in Memories /\ B \in Memories
    OBVIOUS
  <2>6. ASSUME NEW Z \in SUBSET RefPages, a \notin Z, b \notin Z, p # a,
               Z \union {a} \in After(A, p), Z \union {b} = U, Cost(A, p) = Cost(B, p)
        PROVE  Fewest(i, A) <= Fewest(i, B)
    <3>1. Z \union {a} \in Memories /\ Z \union {b} \in Memories
      BY <2>1, <2>5, <2>6, AfterIsMemory
    <3>2. Fewest(i - 1, Z \union {a}) <= Fewest(i - 1, Z \union {b})
      BY <1>3, <2>4, <2>6, <3>1
    <3>3. Fewest(i, A) <= Cost(A, p) + Fewest(i - 1, Z \union {a})
      BY <2>3, <2>6
    <3>4. /\ Fewest(i, A) \in Nat /\ Fewest(i, B) \in Nat
          /\ Fewest(i - 1, Z \union {a}) \in Nat /\ Fewest(i - 1, Z \union {b}) \in Nat
      BY <2>1, <2>5, <3>1, FewestType
    <3>5. Fewest(i, B) = Cost(B, p) + Fewest(i - 1, Z \union {b})
      BY <2>2, <2>6
    <3>6. Cost(A, p) = Cost(B, p) /\ Cost(B, p) \in Nat
      BY <2>6 DEF Cost
    <3> QED
      BY <3>2, <3>3, <3>4, <3>5, <3>6
  <2>7. CASE p = a /\ a # b
    <3>1. U \in Memories
      BY <2>1, <2>5, AfterIsMemory
    <3>2. A \in After(A, p) /\ Cost(A, p) = 0 /\ Cost(B, p) = 1
      BY <2>7 DEF After, Cost
    <3>3. U \subseteq B \union {a}
      BY <2>7, AfterHolds
    <3>4. U \ A \subseteq {b}
      BY <3>3
    <3>5. Cardinality(U \ A) \in {0, 1}
      <4>1. IsFiniteSet({b}) /\ Cardinality({b}) = 1
        BY FS_Singleton
      <4>2. IsFiniteSet(U \ A) /\ Cardinality(U \ A) <= 1
        BY <3>4, <4>1, FS_Subset
      <4>3. Cardinality(U \ A) \in Nat
        BY <4>2, FS_CardinalityType
      <4> QED
        BY <4>2, <4>3
    <3>6. Fewest(i - 1, A) <= Fewest(i - 1, U) + Cardinality(U \ A)
      BY <2>1, <2>5, <3>1, LacksCost
    <3>7. /\ Fewest(i, A) \in Nat /\ Fewest(i, B) \in Nat
          /\ Fewest(i - 1, A) \in Nat /\ Fewest(i - 1, U) \in Nat
      BY <2>1, <2>5, <3>1, FewestType
    <3>8. Fewest(i, A) <= 0 + Fewest(i - 1, A)
      BY <2>3, <3>2
    <3>9. Fewest(i, B) = 1 + Fewest(i - 1, U)
      BY <2>2, <3>2
    <3> QED
      BY <3>5, <3>6, <3>7, <3>8, <3>9
  <2>8. CASE p \in Y
    <3>1. A \in After(A, p) /\ B = U /\ Cost(A, p) = Cost(B, p) /\ p # a
      BY <2>8 DEF After, Cost
    <3> QED
      BY <2>6, <3>1
  <2>9. CASE p \notin Y /\ p # a /\ a # b
    <3>1. p # b /\ p \notin A /\ p \notin B
      BY <2>4, <2>9
    <3>2. Cardinality(A) = Cardinality(B) /\ Cardinality(B) \in Nat
      <4>1. IsFiniteSet(A)
        BY <2>5, MemorySize
      <4>2. IsFiniteSet(Y)
        BY <4>1, FS_Subset
      <4> QED
        BY <4>2, FS_AddElement, FS_CardinalityType
    <3>3. Cost(A, p) = Cost(B, p)
      BY <3>1 DEF Cost
    <3>4. CASE Cardinality(B) < tot_frames
      <4> DEFINE Z == Y \union {p}
      <4>1. A \union {p} \in After(A, p) /\ U = B \union {p}
        BY <3>1, <3>2, <3>4 DEF After
      <4>2. Z \union {a} = A \union {p} /\ Z \union {b} = B \union {p}
        OBVIOUS
      <4>3. Z \in SUBSET RefPages /\ a \notin Z /\ b \notin Z
        BY <2>1, <2>9, <3>1
      <4> QED
        BY <2>6, <2>9, <3>3, <4>1, <4>2, <4>3
    <3>5. CASE ~(Cardinality(B) < tot_frames)
      <4>1. PICK v \in B : U = (B \ {v}) \union {p}
        BY <3>1, <3>5 DEF After
      <4>2. \A w \in A : (A \ {w}) \union {p} \in After(A, p)
        BY <3>1, <3>2, <3>5 DEF After
      <4>3. CASE v = b
        <5>1. B \ {b} = Y /\ A \ {a} = Y /\ a \in A
          OBVIOUS
        <5>2. U = (A \ {a}) \union {p}
          BY <4>1, <4>3, <5>1
        <5>3. U \in After(A, p)
          BY <4>2, <5>1, <5>2
        <5> QED
          BY <2>2, <2>3, <3>3, <5>3
      <4>4. CASE v # b
        <5> DEFINE Z == (Y \ {v}) \union {p}
        <5>1. v \in Y /\ v # a
          BY <4>1, <4>4
        <5>2. Z \union {a} = (A \ {v}) \union {p} /\ Z \union {b} = U
          BY <4>1, <4>4, <5>1
        <5>3. Z \in SUBSET RefPages /\ a \notin Z /\ b \notin Z
          BY <2>1, <2>9, <3>1
        <5>4. Z \union {a} \in After(A, p)
          BY <4>2, <5>1, <5>2
        <5> QED
          BY <2>6, <2>9, <3>3, <5>2, <5>3, <5>4
      <4> QED
        BY <4>3, <4>4
    <3> QED
      BY <3>4, <3>5
  <2>10. CASE a = b
    <3>1. Fewest(i, B) \in Nat
      BY <2>1, <2>5, FewestType
    <3> QED
      BY <2>10, <3>1
  <2> QED
    BY <2>7, <2>8, <2>9, <2>10
<1> HIDE DEF Q
<1>4. \A i \in 1 .. tot_refs : i - 1 \in Q => i \in Q
  BY <1>3
<1>5. \A i \in 0 .. tot_refs : i \in Q
  BY <1>1, <1>2, <1>4, UpTo
<1>6. k \in Q
  BY <1>5
<1> QED
  BY <1>6 DEF Q

\* the pages in FRAME
Resident == {FRAME[k] : k \in Slots} \ {Empty}

\* Whatever pr_optimal() has done, the fewest faults of a whole run are those it
\* has counted and the fewest that the rest of the string has from its FRAME.
OptInv ==
  /\ running = "opt" =>
       /\ \A k, l \in Slots : FRAME[k] = FRAME[l] => k = l \/ FRAME[k] = Empty
       /\ pf_opt + Fewest(tot_refs + 1 - nextRef, Resident) = Fewest(tot_refs, {})
  /\ OptimalIsMinimal

\* FRAME holds different pages, as many as it has slots unless one is empty.
LEMMA ResidentSize ==
  ASSUME Given, Empty \notin RefPages, FRAME \in [Slots -> RefPages \union {Empty}],
         \A k, l \in Slots : FRAME[k] = FRAME[l] => k = l \/ FRAME[k] = Empty
  PROVE  /\ Resident \in Memories
         /\ Cardinality(Resident) < tot_frames <=> \E k \in Slots : FRAME[k] = Empty
<1> DEFINE full == {k \in Slots : FRAME[k] # Empty}
           held == [k \in full |-> FRAME[k]]
<1>1. tot_frames \in 1 .. 7 /\ IsFiniteSet(Slots) /\ Cardinality(Slots) = tot_frames
  <2>1. tot_frames \in 1 .. 7 /\ tot_frames - 1 \in Int /\ 0 \in Int
        /\ (tot_frames - 1) - 0 + 1 = tot_frames /\ ~(0 > tot_frames - 1)
    BY DEF Given
  <2> QED
    BY <2>1, FS_Interval DEF Slots
<1>2. /\ IsFiniteSet(full) /\ Cardinality(full) <= tot_frames
      /\ Cardinality(full) = tot_frames => full = Slots
      /\ Cardinality(full) \in Nat
  <2>1. full \in SUBSET Slots
    OBVIOUS
  <2> HIDE DEF full
  <2>2. IsFiniteSet(full) /\ Cardinality(full) <= Cardinality(Slots)
        /\ (Cardinality(Slots) = Cardinality(full) => full = Slots)
    BY <1>1, <2>1, FS_Subset
  <2> QED
    BY <1>1, <2>2, FS_CardinalityType
<1>3. held \in Bijection(full, Resident)
  <2>1. held \in [full -> Resident]
    BY DEF Resident
  <2>2. \A k, l \in full : held[k] = held[l] => k = l
    OBVIOUS
  <2>3. \A q \in Resident : \E k \in full : held[k] = q
    BY DEF Resident
  <2> HIDE DEF held
  <2> QED
    BY <2>1, <2>2, <2>3 DEF Bijection, Injection, Surjection, IsInjective
<1>4. IsFiniteSet(Resident) /\ Cardinality(Resident) = Cardinality(full)
  <2>1. ExistsBijection(full, Resident)
    BY <1>3 DEF ExistsBijection
  <2> QED
    BY <1>2, <2>1, FS_Bijection
<1>5. Resident \in SUBSET RefPages
  BY DEF Resident
<1>6. Resident \in Memories
  BY <1>1, <1>2, <1>4, <1>5 DEF Memories
<1>7. (\E k \in Slots : FRAME[k] = Empty) <=> full # Slots
  OBVIOUS
<1> QED
  BY <1>1, <1>2, <1>4, <1>6, <1>7

\* A step of pr_optimal() looks at the reference that comes first.
LEMMA OptPosition ==
  ASSUME PrInv, OptInv, OptStep
  PROVE  /\ Given /\ Empty \notin RefPages /\ FRAME \in [Slots -> RefPages \union {Empty}]
         /\ tot_refs + 1 - nextRef \in 1 .. tot_refs
         /\ nextRef \in 1 .. tot_refs
         /\ tot_refs + 1 - (tot_refs + 1 - nextRef) = nextRef
         /\ tot_refs + 1 - (tot_refs + 1 - nextRef - 1) = nextRef + 1
         /\ Coming(tot_refs + 1 - nextRef) = ref_page
         /\ ref_page \in RefPages
         /\ Hit <=> ref_page \in Resident
         /\ \A k, l \in Slots : FRAME[k] = FRAME[l] => k = l \/ FRAME[k] = Empty
<1>1. running = "opt" /\ nextRef <= tot_refs /\ PrTypeOK /\ Running
  BY DEF PrInv, OptStep, InLoop
<1>2. /\ tot_refs \in Nat /\ page_refs \in [1 .. tot_refs -> RefPages]
      /\ Empty \notin RefPages /\ ref_page \in RefPages
      /\ nextRef \in 1 .. tot_refs
      /\ FRAME \in [Slots -> RefPages \union {Empty}]
  BY <1>1, Refs DEF PrTypeOK
<1>3. tot_frames \in 1 .. 7
  BY <1>1 DEF Running, Accepted
<1>4. /\ tot_refs + 1 - nextRef \in 1 .. tot_refs
      /\ tot_refs + 1 - (tot_refs + 1 - nextRef) = nextRef
      /\ tot_refs + 1 - (tot_refs + 1 - nextRef - 1) = nextRef + 1
  BY <1>2
<1>5. Coming(tot_refs + 1 - nextRef) = ref_page
  BY <1>4 DEF Coming, ref_page
<1>6. Hit <=> ref_page \in Resident
  BY <1>2 DEF Hit, Resident
<1> QED
  BY <1>1, <1>2, <1>3, <1>4, <1>5, <1>6 DEF OptInv, Given

\* The victim is an empty slot, or no page in FRAME is needed later than its page.
LEMMA VictimIsFarthest ==
  ASSUME PrInv, OptInv, OptStep
  PROVE  OptVictim \in Slots /\ Farthest(OptVictim)
<1>1. /\ tot_refs \in Nat /\ nextRef \in 1 .. tot_refs /\ tot_frames \in 1 .. 7
  BY OptPosition DEF Given
<1> DEFINE D(k) == Never - NextUse(k)
           T == {D(k) : k \in Slots}
           F == {k \in Slots : Farthest(k)}
<1>2. ASSUME NEW k \in Slots PROVE NextUse(k) \in 1 .. Never
  <2> DEFINE U == {l \in nextRef .. tot_refs : page_refs[l] = FRAME[k]} \union {Never}
  <2>1. U \in SUBSET Nat /\ U # {} /\ \A l \in U : l \in 1 .. Never
    BY <1>1 DEF Never
  <2> HIDE DEF U
  <2>2. Min(U) \in U
    BY <2>1, LeastNumber
  <2>3. NextUse(k) = Min(U)
    BY DEF NextUse, U
  <2> QED
    BY <2>1, <2>2, <2>3
<1>3. Never \in Nat
  BY <1>1 DEF Never
<1>4. \A k \in Slots : D(k) \in Nat
  BY <1>2, <1>3
<1>5. 0 \in Slots
  BY <1>1 DEF Slots
<1>6. F # {}
  <2>1. CASE \E l \in Slots : FRAME[l] = Empty
    BY <2>1 DEF Farthest
  <2>2. CASE ~ \E l \in Slots : FRAME[l] = Empty
    <3>1. T \in SUBSET Nat /\ T # {}
      BY <1>4, <1>5
    <3> HIDE DEF T
    <3>2. Min(T) \in T /\ \A y \in T : Min(T) <= y
      BY <3>1, LeastNumber
    <3>3. PICK k \in Slots : Min(T) = D(k)
      BY <3>2 DEF T
    <3>4. ASSUME NEW l \in Slots PROVE NextUse(l) <= NextUse(k)
      <4>1. D(k) <= D(l)
        BY <3>2, <3>3 DEF T
      <4>2. NextUse(l) \in 1 .. Never /\ NextUse(k) \in 1 .. Never
        BY <1>2
      <4> QED
        BY <1>3, <4>1, <4>2
    <3> QED
      BY <2>2, <3>4 DEF Farthest
  <2> QED
    BY <2>1, <2>2
<1>7. F \in SUBSET Nat
  BY <1>1 DEF Slots
<1>8. OptVictim = Min(F)
  BY DEF OptVictim
<1> HIDE DEF F
<1>9. OptVictim \in F
  BY <1>6, <1>7, <1>8, LeastNumber
<1> QED
  BY <1>9 DEF F

\* Until its page is needed again every other page in FRAME is.
LEMMA VictimLater ==
  ASSUME PrInv, OptInv, OptStep, ~Hit,
         ~ \E k \in Slots : FRAME[k] = Empty, NEW w \in Slots
  PROVE  Sooner(FRAME[w], FRAME[OptVictim], tot_refs + 1 - nextRef - 1)
<1>1. /\ tot_refs \in Nat /\ nextRef \in 1 .. tot_refs
      /\ tot_refs + 1 - (tot_refs + 1 - nextRef - 1) = nextRef + 1
  BY OptPosition DEF Given
<1>2. OptVictim \in Slots /\ NextUse(w) <= NextUse(OptVictim)
  BY VictimIsFarthest DEF Farthest
<1> SUFFICES ASSUME NEW l \in nextRef + 1 .. tot_refs, page_refs[l] = FRAME[OptVictim]
             PROVE  \E m \in nextRef + 1 .. l : page_refs[m] = FRAME[w]
  BY <1>1 DEF Sooner
<1> DEFINE Uses(k) == {m \in nextRef .. tot_refs : page_refs[m] = FRAME[k]}
                        \union {Never}
<1>3. \A k : Uses(k) \in SUBSET Nat /\ Never \in Uses(k) /\ NextUse(k) = Min(Uses(k))
  BY <1>1 DEF Never, NextUse
<1>4. l \in Uses(OptVictim)
  BY <1>1
<1>5. /\ \A m : m \in Uses(w) => m = Never \/ (m \in nextRef .. tot_refs
                                               /\ page_refs[m] = FRAME[w])
      /\ Never > l
  BY <1>1 DEF Never
<1> HIDE DEF Uses
<1>6. NextUse(OptVictim) <= l /\ NextUse(OptVictim) \in Nat
  BY <1>3, <1>4, LeastNumber
<1>7. NextUse(w) \in Uses(w) /\ NextUse(w) \in Nat
  BY <1>3, LeastNumber
<1>8. NextUse(w) <= l /\ NextUse(w) # Never
  BY <1>2, <1>5, <1>6, <1>7
<1>9. NextUse(w) \in nextRef .. tot_refs /\ page_refs[NextUse(w)] = FRAME[w]
  BY <1>5, <1>7, <1>8
<1>10. NextUse(w) # nextRef
  BY <1>9 DEF Hit, ref_page
<1>11. NextUse(w) \in nextRef + 1 .. l
  BY <1>1, <1>8, <1>9, <1>10
<1> QED
  BY <1>9, <1>11

\* No victim leads to fewer faults than the one pr_optimal() chooses.
LEMMA VictimIsBest ==
  ASSUME PrInv, OptInv, OptStep, ~Hit,
         NEW K \in 1 .. tot_refs, K = tot_refs + 1 - nextRef,
         NEW R, R = (Resident \ {FRAME[OptVictim]}) \union {ref_page}
  PROVE  R \in Memories /\ Fewest(K, Resident) = 1 + Fewest(K - 1, R)
<1>1. /\ Given /\ Empty \notin RefPages /\ FRAME \in [Slots -> RefPages \union {Empty}]
      /\ \A k, l \in Slots : FRAME[k] = FRAME[l] => k = l \/ FRAME[k] = Empty
      /\ Coming(K) = ref_page /\ ref_page \in RefPages
      /\ ref_page \notin Resident
  BY OptPosition
<1>2. /\ Resident \in Memories
      /\ Cardinality(Resident) < tot_frames <=> \E k \in Slots : FRAME[k] = Empty
  BY <1>1, ResidentSize
<1>3. OptVictim \in Slots /\ Farthest(OptVictim)
  BY VictimIsFarthest
<1>4. Cost(Resident, ref_page) = 1 /\ K \in 0 .. tot_refs /\ K - 1 \in 0 .. tot_refs
  BY <1>1 DEF Cost, Given
<1>5. /\ \E T \in After(Resident, ref_page) : Fewest(K, Resident) = 1 + Fewest(K - 1, T)
      /\ \A T \in After(Resident, ref_page) : Fewest(K, Resident) <= 1 + Fewest(K - 1, T)
  BY <1>1, <1>2, <1>4, FewestStep
<1>6. After(Resident, ref_page) \subseteq Memories
  BY <1>1, <1>2, AfterIsMemory
<1>7. \A T \in Memories : Fewest(K - 1, T) \in Nat
  BY <1>1, <1>4, FewestType
<1>8. Fewest(K, Resident) \in Nat
  BY <1>1, <1>2, <1>4, FewestType
<1>9. CASE \E k \in Slots : FRAME[k] = Empty
  <2>1. FRAME[OptVictim] = Empty
    BY <1>3, <1>9 DEF Farthest
  <2>2. R = Resident \union {ref_page}
    BY <2>1 DEF Resident
  <2>3. After(Resident, ref_page) = {R}
    BY <1>1, <1>2, <1>9, <2>2 DEF After
  <2> QED
    BY <1>5, <1>6, <2>3
<1>10. CASE ~ \E k \in Slots : FRAME[k] = Empty
  <2>1. After(Resident, ref_page) = {(Resident \ {v}) \union {ref_page} : v \in Resident}
    BY <1>1, <1>2, <1>10 DEF After
  <2>2. FRAME[OptVictim] \in Resident
    BY <1>3, <1>10 DEF Resident
  <2>3. R \in After(Resident, ref_page)
    BY <2>1, <2>2
  <2>4. PICK T \in After(Resident, ref_page) : Fewest(K, Resident) = 1 + Fewest(K - 1, T)
    BY <1>5
  <2>5. PICK v \in Resident : T = (Resident \ {v}) \union {ref_page}
    BY <2>1
  <2>6. PICK w \in Slots : v = FRAME[w]
    BY DEF Resident
  <2>7. Fewest(K - 1, R) <= Fewest(K - 1, T)
    <3>1. PICK b : b = FRAME[OptVictim]
      OBVIOUS
    <3>2. Sooner(v, b, K - 1)
      <4>1. Sooner(FRAME[w], FRAME[OptVictim], tot_refs + 1 - nextRef - 1)
        BY <1>10, VictimLater
      <4>2. tot_refs \in Nat /\ nextRef \in 1 .. tot_refs
        BY OptPosition DEF Given
      <4>3. Sooner(FRAME[w], FRAME[OptVictim], K - 1)
        BY <4>1, <4>2
      <4> QED
        BY <2>6, <3>1, <4>3
    <3>3. CASE v = b
      <4>1. R = T
        BY <2>5, <3>1, <3>3
      <4> QED
        BY <1>6, <1>7, <4>1
    <3>4. CASE v # b
      <4>1. PICK X : X = (Resident \ {v, b}) \union {ref_page}
        OBVIOUS
      <4>2. X \in SUBSET RefPages /\ v \notin X /\ b \notin X
        BY <1>1, <1>2, <2>2, <3>1, <4>1, MemorySize
      <4>3. R = X \union {v} /\ T = X \union {b}
        BY <2>2, <2>5, <3>1, <3>4, <4>1
      <4>4. X \union {v} \in Memories /\ X \union {b} \in Memories
        BY <1>6, <2>3, <4>3
      <4>5. Fewest(K - 1, X \union {v}) <= Fewest(K - 1, X \union {b})
        BY <1>1, <1>4, <3>2, <4>2, <4>4, Exchange
      <4> QED
        BY <4>3, <4>5
    <3> QED
      BY <3>3, <3>4
  <2>8. Fewest(K, Resident) <= 1 + Fewest(K - 1, R)
    BY <1>5, <2>3
  <2>9. Fewest(K - 1, R) \in Nat /\ Fewest(K - 1, T) \in Nat
    BY <1>6, <1>7, <2>3
  <2> QED
    BY <1>6, <1>8, <2>3, <2>4, <2>7, <2>8, <2>9
<1> QED
  BY <1>9, <1>10

\* pr_optimal() keeps to the fewest faults, reference by reference.
LEMMA OptStepOptimal == PrInv /\ OptInv /\ OptStep => OptInv'
<1> SUFFICES ASSUME PrInv, OptInv, OptStep PROVE OptInv'
  OBVIOUS
<1>1. /\ Given /\ Empty \notin RefPages /\ FRAME \in [Slots -> RefPages \union {Empty}]
      /\ \A k, l \in Slots : FRAME[k] = FRAME[l] => k = l \/ FRAME[k] = Empty
      /\ ref_page \in RefPages /\ nextRef \in 1 .. tot_refs
      /\ tot_refs \in Nat
  BY OptPosition DEF Given
<1>2. PICK K \in 1 .. tot_refs : K = tot_refs + 1 - nextRef
  BY OptPosition
<1>3. Coming(K) = ref_page /\ (Hit <=> ref_page \in Resident)
  BY <1>2, OptPosition
<1>4. /\ page_refs' = page_refs /\ tot_frames' = tot_frames
      /\ tot_refs' = tot_refs /\ Slots' = Slots
      /\ running = "opt" /\ running' = "opt"
      /\ nextRef' = nextRef + 1
  BY DEF OptStep, InLoop, tot_refs, Slots
<1>5. tot_refs' + 1 - nextRef' = K - 1 /\ K - 1 \in 0 .. tot_refs /\ K \in 0 .. tot_refs
  BY <1>1, <1>2, <1>4
<1>6. \A i, S : Fewest(i, S)' = Fewest(i, S)
  BY <1>4 DEF Fewest, FewestFrom, Serve
<1>7. pf_opt + Fewest(K, Resident) = Fewest(tot_refs, {})
  BY <1>2, <1>4 DEF OptInv
<1>8. pf_opt \in Nat /\ Resident \in Memories
  BY <1>1, ResidentSize DEF PrInv, PrTypeOK
<1>9. OptimalIsMinimal'
  BY <1>4 DEF OptimalIsMinimal
<1>10. /\ \A k, l \in Slots : FRAME'[k] = FRAME'[l] => k = l \/ FRAME'[k] = Empty
       /\ \E S \in Memories : /\ Resident' = S
                              /\ pf_opt' + Fewest(K - 1, S) = Fewest(tot_refs, {})
  <2>1. CASE Hit
    <3>1. FRAME' = FRAME /\ pf_opt' = pf_opt
      BY <2>1 DEF OptStep
    <3>2. Resident' = Resident
      BY <1>4, <3>1 DEF Resident
    <3>3. After(Resident, ref_page) = {Resident} /\ Cost(Resident, ref_page) = 0
      BY <1>3, <2>1 DEF After, Cost
    <3>4. Fewest(K, Resident) = 0 + Fewest(K - 1, Resident)
      BY <1>1, <1>3, <1>8, <3>3, FewestStep
    <3>5. Fewest(K - 1, Resident) \in Nat
      BY <1>1, <1>5, <1>8, FewestType
    <3> QED
      BY <1>1, <1>7, <1>8, <3>1, <3>2, <3>4, <3>5
  <2>2. CASE ~Hit
    <3>1. FRAME' = [FRAME EXCEPT ![OptVictim] = ref_page] /\ pf_opt' = pf_opt + 1
      BY <2>2 DEF OptStep
    <3>2. OptVictim \in Slots
      BY VictimIsFarthest
    <3>3. PICK R : R = (Resident \ {FRAME[OptVictim]}) \union {ref_page}
      OBVIOUS
    <3>4. R \in Memories /\ Fewest(K, Resident) = 1 + Fewest(K - 1, R)
      BY <1>2, <2>2, <3>3, VictimIsBest
    <3>5. \A k \in Slots : FRAME[k] # ref_page
      BY <2>2 DEF Hit
    <3>6. \A k, l \in Slots : FRAME'[k] = FRAME'[l] => k = l \/ FRAME'[k] = Empty
      BY <1>1, <3>1, <3>2, <3>5
    <3>7. Resident' = R
      <4>1. Resident' = {FRAME'[k] : k \in Slots} \ {Empty}
        BY <1>4 DEF Resident
      <4>2. ASSUME NEW q \in Resident' PROVE q \in R
        <5>1. PICK k \in Slots : q = FRAME'[k] /\ q # Empty
          BY <4>1
        <5> QED
          BY <1>1, <3>1, <3>2, <3>3, <5>1 DEF Resident
      <4>3. ASSUME NEW q \in R PROVE q \in Resident'
        <5>1. CASE q = ref_page
          BY <1>1, <3>1, <3>2, <4>1, <5>1
        <5>2. CASE q # ref_page
          <6>1. PICK k \in Slots : q = FRAME[k] /\ q # Empty /\ k # OptVictim
            BY <3>3, <5>2 DEF Resident
          <6> QED
            BY <1>1, <3>1, <4>1, <6>1
        <5> QED
          BY <5>1, <5>2
      <4> QED
        BY <4>2, <4>3
    <3>8. Fewest(K - 1, R) \in Nat
      BY <1>1, <1>5, <3>4, FewestType
    <3> QED
      BY <1>7, <1>8, <3>1, <3>4, <3>6, <3>7, <3>8
  <2> QED
    BY <2>1, <2>2
<1>11. pf_opt' + Fewest(tot_refs + 1 - nextRef, Resident)' = Fewest(tot_refs, {})'
  BY <1>4, <1>5, <1>6, <1>10
<1> QED
  BY <1>4, <1>9, <1>10, <1>11 DEF OptInv

\* A step of main() or of another algorithm does not concern pr_optimal().
LEMMA OthersOptimal ==
  PrInv /\ OptInv /\ (CheckArgument \/ FifoStep \/ LruStep) => OptInv'
<1> SUFFICES ASSUME PrInv, CheckArgument \/ FifoStep \/ LruStep PROVE OptInv'
  OBVIOUS
<1>1. running' # "opt" /\ (running' = "end" => ~Accepted')
  BY DEF CheckArgument, FifoStep, LruStep, InLoop, Accepted
<1> QED
  BY <1>1 DEF OptInv, OptimalIsMinimal

\* pr_optimal() starts with an empty FRAME, and nothing is left to count when it
\* ends.
LEMMA EndsOptimal ==
  PrInv /\ OptInv /\ (FifoEnd \/ LruEnd \/ OptEnd) => OptInv'
<1> SUFFICES ASSUME PrInv, OptInv, FifoEnd \/ LruEnd \/ OptEnd PROVE OptInv'
  OBVIOUS
<1>1. /\ page_refs' = page_refs /\ tot_frames' = tot_frames
      /\ tot_refs' = tot_refs /\ Slots' = Slots
      /\ nextRef' = 1 /\ FRAME' = frame_init /\ nextRef > tot_refs
      /\ pf_opt' = pf_opt
      /\ \/ running = "fifo" /\ running' = "lru"
         \/ running = "lru" /\ running' = "opt"
         \/ running = "opt" /\ running' = "end"
  BY DEF FifoEnd, LruEnd, OptEnd, EndLoop, tot_refs, Slots
<1>2. PrTypeOK /\ Running
  BY DEF PrInv
<1>3. /\ tot_refs \in Nat /\ tot_frames \in 1 .. 7 /\ nextRef = tot_refs + 1
      /\ page_refs \in [1 .. tot_refs -> RefPages] /\ Empty \notin RefPages
  BY <1>1, <1>2, Refs DEF PrTypeOK, Running, Accepted
<1>4. \A i, S : Fewest(i, S)' = Fewest(i, S)
  BY <1>1 DEF Fewest, FewestFrom, Serve
<1>5. CASE running = "fifo"
  BY <1>1, <1>5 DEF OptInv, OptimalIsMinimal
<1>6. CASE running = "lru"
  <2>1. Resident' = {}
    BY <1>1 DEF Resident, frame_init
  <2>2. \A k, l \in Slots' : FRAME'[k] = FRAME'[l] => k = l \/ FRAME'[k] = Empty
    BY <1>1 DEF frame_init
  <2>3. pf_opt = 0
    BY <1>2, <1>6 DEF Running
  <2>4. tot_refs' + 1 - nextRef' = tot_refs
    BY <1>1, <1>3
  <2>5. Given /\ {} \in Memories /\ tot_refs \in 0 .. tot_refs
    BY <1>3, FS_EmptySet DEF Given, Memories
  <2>6. Fewest(tot_refs, {}) \in Nat
    BY <2>5, FewestType
  <2>7. pf_opt' + Fewest(tot_refs + 1 - nextRef, Resident)' = Fewest(tot_refs, {})'
    BY <1>1, <1>4, <2>1, <2>3, <2>4, <2>6
  <2> QED
    BY <1>1, <1>6, <2>2, <2>7 DEF OptInv, OptimalIsMinimal
<1>7. CASE running = "opt"
  <2>1. /\ \A k, l \in Slots : FRAME[k] = FRAME[l] => k = l \/ FRAME[k] = Empty
        /\ pf_opt + Fewest(tot_refs + 1 - nextRef, Resident) = Fewest(tot_refs, {})
    BY <1>7 DEF OptInv
  <2>2. Given /\ 0 \in 0 .. tot_refs
    BY <1>3 DEF Given
  <2>3. Resident \in Memories
    BY <1>2, <1>3, <2>1, <2>2, ResidentSize DEF PrTypeOK
  <2>4. tot_refs + 1 - nextRef = 0 /\ Fewest(0, Resident) = 0 /\ pf_opt \in Int
    BY <1>2, <1>3, <2>2, <2>3, FewestType DEF PrTypeOK
  <2>5. pf_opt = Fewest(tot_refs, {})
    BY <2>1, <2>4
  <2>6. pf_opt' = Fewest(tot_refs, {})'
    BY <1>1, <1>4, <2>5
  <2> QED
    BY <1>1, <1>7, <2>6 DEF OptInv, OptimalIsMinimal, FewestFaults, Fewest
<1> QED
  BY <1>1, <1>5, <1>6, <1>7

\* pr_optimal() of lab09_ex1.c is optimal on every reference string and for every
\* number of frames it accepts: whatever pages a run chose to replace, it would
\* have at least the faults it counts.
THEOREM OptimalCounts == PrSpec => []OptimalIsMinimal
<1>1. PrInit => OptInv
  BY DEF PrInit, OptInv, OptimalIsMinimal
<1>2. ASSUME PrInv, OptInv, UNCHANGED prVars PROVE OptInv'
  <2>1. /\ page_refs' = page_refs /\ tot_frames' = tot_frames /\ FRAME' = FRAME
        /\ running' = running /\ nextRef' = nextRef /\ pf_opt' = pf_opt
        /\ tot_refs' = tot_refs /\ Slots' = Slots
    BY <1>2 DEF prVars, tot_refs, Slots
  <2>2. Resident' = Resident /\ Accepted' = Accepted
    BY <2>1 DEF Resident, Accepted
  <2>3. \A i, S : Fewest(i, S)' = Fewest(i, S)
    BY <2>1 DEF Fewest, FewestFrom, Serve
  <2>4. FewestFaults(tot_frames)' = FewestFaults(tot_frames)
    BY <2>1, <2>3 DEF Fewest, FewestFaults
  <2> QED
    BY <1>2, <2>1, <2>2, <2>3, <2>4 DEF OptInv, OptimalIsMinimal
<1>3. PrInv /\ OptInv /\ [PrNext]_prVars => OptInv'
  BY <1>2, OptStepOptimal, OthersOptimal, EndsOptimal DEF PrNext
<1>4. OptInv => OptimalIsMinimal
  BY DEF OptInv
<1> QED
  BY <1>1, <1>3, <1>4, PrInvariance, PTL DEF PrSpec
=============================================================================
