---------------------------- MODULE VMFifoProofs ----------------------------
(***************************************************************************)
(* Proofs about main_pr1.c: for every number of pages, every TLB size and  *)
(* every address file, its translations are right and it never replaces a  *)
(* page.                                                                   *)
(***************************************************************************)
EXTENDS VMFifo, VMTableProofs

\* Every entry in the used part of the TLB names a loaded frame that holds its
\* page.
TLBSound ==
  \A i \in 0 .. next_tlb_pos - 1 :
    TLB[i].frame_num \in 0 .. next_pos - 1 /\ Sound(TLB[i])

Inv == TypeOK /\ TableInv /\ TLBSound /\ TranslationCorrect

-----------------------------------------------------------------------------
\* The initial state satisfies the invariant.
LEMMA InitInv == Init => Inv
<1> SUFFICES ASSUME Init PROVE Inv
  OBVIOUS
<1>1. CommonInit /\ tempFIFO = 0 /\ next_tlb_pos = 0
  BY DEF Init, CommonInit
<1>2. CommonTypeOK /\ TableInv /\ TranslationCorrect
  BY <1>1, InitTables
<1>3. tempFIFO \in 0 .. TLBEntryMax - 1
  BY <1>1, SizesAssumption
<1>4. TLBSound
  BY <1>1 DEF TLBSound
<1> QED
  BY <1>2, <1>3, <1>4 DEF Inv, TypeOK

\* Inserting a sound entry keeps the TLB sound, if no loaded frame changes.
LEMMA InsertKeepsTLB ==
  ASSUME TypeOK, TLBSound, page \in Pages, next_pos' \in 0 .. FrameMax,
         next_pos' >= next_pos,
         \A f \in 0 .. next_pos - 1 : phy_memory'[f] = phy_memory[f],
         NEW frame \in 0 .. next_pos' - 1, phy_memory'[frame] = page,
         TLBInsert(page, frame)
  PROVE  TLBTypeOK' /\ tempFIFO' \in 0 .. TLBEntryMax - 1 /\ TLBSound'
<1> DEFINE new == [page_num |-> page, frame_num |-> frame]
<1>1. frame \in Frames /\ new \in Entry
  <2>1. frame \in Frames
    BY LoadedFrame
  <2> QED
    BY <2>1 DEF Entry
<1>2. \A n \in Nat \ {0}, x \in Int : x % n \in 0 .. n - 1
  OBVIOUS
<1>3. ASSUME NEW e \in {TLB[i] : i \in 0 .. next_tlb_pos - 1} \union {new}
      PROVE  e.frame_num \in 0 .. next_pos' - 1
             /\ phy_memory'[e.frame_num] = e.page_num
  <2>1. CASE e = new
    BY <2>1
  <2>2. ASSUME NEW i \in 0 .. next_tlb_pos - 1, e = TLB[i]
        PROVE  e.frame_num \in 0 .. next_pos - 1
               /\ phy_memory[e.frame_num] = e.page_num
    BY <2>2 DEF TLBSound, Sound
  <2> QED
    BY <2>1, <2>2 DEF TypeOK, CommonTypeOK, TablesTypeOK
<1>4. CASE next_tlb_pos < TLBEntryMax
  <2>1. /\ TLB' = [TLB EXCEPT ![next_tlb_pos] = new]
        /\ next_tlb_pos' = next_tlb_pos + 1
        /\ tempFIFO' = tempFIFO
    BY <1>4 DEF TLBInsert
  <2>2. TLBTypeOK' /\ tempFIFO' \in 0 .. TLBEntryMax - 1
    BY <1>1, <1>4, <2>1, SizesAssumption
       DEF TypeOK, CommonTypeOK, TLBTypeOK
  <2>3. \A i \in 0 .. next_tlb_pos' - 1 :
          TLB'[i] \in {TLB[k] : k \in 0 .. next_tlb_pos - 1} \union {new}
    BY <1>4, <2>1, SizesAssumption DEF TypeOK, CommonTypeOK, TLBTypeOK
  <2> QED
    BY <1>3, <2>2, <2>3 DEF TLBSound, Sound
<1>5. CASE ~(next_tlb_pos < TLBEntryMax)
  <2>1. /\ TLB' = [TLB EXCEPT ![tempFIFO] = new]
        /\ tempFIFO' = (tempFIFO + 1) % TLBEntryMax
        /\ next_tlb_pos' = next_tlb_pos
    BY <1>5 DEF TLBInsert
  <2>2. TLBTypeOK' /\ tempFIFO' \in 0 .. TLBEntryMax - 1
    <3>1. tempFIFO + 1 \in Int /\ TLBEntryMax \in Nat \ {0}
      BY SizesAssumption DEF TypeOK
    <3>2. tempFIFO' \in 0 .. TLBEntryMax - 1
      BY <1>2, <2>1, <3>1
    <3>3. TLBTypeOK'
      BY <1>1, <2>1 DEF TypeOK, CommonTypeOK, TLBTypeOK
    <3> QED
      BY <3>2, <3>3
  <2>3. \A i \in 0 .. next_tlb_pos' - 1 :
          TLB'[i] \in {TLB[k] : k \in 0 .. next_tlb_pos - 1} \union {new}
    BY <1>5, <2>1, SizesAssumption DEF TypeOK, CommonTypeOK, TLBTypeOK
  <2> QED
    BY <1>3, <2>2, <2>3 DEF TLBSound, Sound
<1> QED
  BY <1>4, <1>5

\* What the three actions have in common: the tables are in order afterwards
\* and the frame that is read holds the page.
LEMMA ServeKeepsInv ==
  ASSUME Inv, page \in Pages, TableInv', next_pos' >= next_pos,
         \A f \in 0 .. next_pos - 1 : phy_memory'[f] = phy_memory[f],
         NEW frame \in 0 .. next_pos' - 1, phy_memory'[frame] = page,
         page_faults' \in {page_faults, page_faults + 1},
         hits' \in {hits, hits + 1},
         TLBInsert(page, frame), LoopBody(frame)
  PROVE  Inv'
<1> USE DEF Inv, TypeOK, CommonTypeOK
<1>1. TablesTypeOK' /\ next_pos' \in 0 .. FrameMax /\ frame \in Frames
  <2>1. TablesTypeOK'
    BY DEF TableInv
  <2>2. next_pos' \in 0 .. FrameMax
    BY <2>1 DEF TablesTypeOK
  <2> QED
    BY <2>1, <2>2, LoadedFrame
<1>2. TLBTypeOK' /\ tempFIFO' \in 0 .. TLBEntryMax - 1 /\ TLBSound'
  BY <1>1, InsertKeepsTLB
<1>3. FilesTypeOK'
  BY <1>1, LoopKeepsFiles
<1>4. CountersTypeOK'
  BY LoopKeepsCounters
<1>5. TranslationCorrect'
  BY LoopPrintsRight
<1> QED
  BY <1>1, <1>2, <1>3, <1>4, <1>5

\* A hit in the TLB preserves the invariant.
LEMMA TLBHitInv == Inv /\ TLBHit => Inv'
<1> SUFFICES ASSUME Inv, TLBHit PROVE Inv'
  OBVIOUS
<1>1. PICK i \in DOMAIN TLB :
        /\ FirstHolding(TLB, next_tlb_pos, page, i)
        /\ hits' = hits + 1
        /\ UNCHANGED <<phy_memory, page_table, next_pos, next_table_pos,
                       page_faults>>
        /\ TLBInsert(page, TLB[i].frame_num)
        /\ LoopBody(TLB[i].frame_num)
  BY DEF TLBHit
<1>2. TLB[i].frame_num \in 0 .. next_pos - 1
      /\ phy_memory[TLB[i].frame_num] = page
  BY <1>1 DEF Inv, TLBSound, Sound, FirstHolding
<1>3. page \in Pages /\ next_pos \in Int
  BY CurrentPage DEF Inv, TypeOK, CommonTypeOK, TablesTypeOK
<1>4. TableInv'
  BY <1>1 DEF Inv, TableInv, TablesTypeOK, TableOrdered, TableDistinct
<1> QED
  BY <1>1, <1>2, <1>3, <1>4, ServeKeepsInv

\* So does a hit in the page table.
LEMMA PageTableHitInv == Inv /\ PageTableHit => Inv'
<1> SUFFICES ASSUME Inv, PageTableHit PROVE Inv'
  OBVIOUS
<1>1. PICK i \in DOMAIN page_table :
        /\ FirstHolding(page_table, next_table_pos, page, i)
        /\ UNCHANGED <<phy_memory, page_table, next_pos, next_table_pos,
                       page_faults, hits>>
        /\ TLBInsert(page, page_table[i].frame_num)
        /\ LoopBody(page_table[i].frame_num)
  BY DEF PageTableHit
<1>2. page_table[i].frame_num \in 0 .. next_pos - 1
      /\ phy_memory[page_table[i].frame_num] = page
  BY <1>1 DEF Inv, TableInv, TableOrdered, FirstHolding
<1>3. page \in Pages /\ next_pos \in Int
  BY CurrentPage DEF Inv, TypeOK, CommonTypeOK, TablesTypeOK
<1>4. TableInv'
  BY <1>1 DEF Inv, TableInv, TablesTypeOK, TableOrdered, TableDistinct
<1> QED
  BY <1>1, <1>2, <1>3, <1>4, ServeKeepsInv

\* So does a page fault, which always finds a free frame.
LEMMA PageFaultInv == Inv /\ PageFault => Inv'
<1> SUFFICES ASSUME Inv, PageFault PROVE Inv'
  OBVIOUS
<1>1. page \in Pages /\ next_pos \in Nat /\ TableInv
  BY CurrentPage DEF Inv, TypeOK, CommonTypeOK, TablesTypeOK
<1>2. next_pos < NumPages
  BY <1>1, MissingPage DEF PageFault, InPageTable
<1>3. next_pos < FrameMax /\ next_pos < PTEntryMax
  BY <1>1, <1>2, EnoughFrames, SizesAssumption
<1>4. LoadNextFrame(page)
  BY <1>3 DEF PageFault, ReadStoreFifo
<1>5. TableInv'
  BY <1>1, <1>3, <1>4, LoadKeepsTables DEF PageFault
<1>6. /\ next_pos' = next_pos + 1
      /\ next_pos' - 1 \in 0 .. next_pos' - 1
      /\ next_pos' >= next_pos
      /\ next_pos' - 1 = next_pos
  BY <1>1, <1>4 DEF LoadNextFrame
<1>7. phy_memory'[next_pos' - 1] = page
      /\ \A f \in 0 .. next_pos - 1 : phy_memory'[f] = phy_memory[f]
  BY <1>1, <1>3, <1>4, <1>6, SizesAssumption
     DEF LoadNextFrame, TableInv, TablesTypeOK, Frames
<1> QED
  BY <1>1, <1>5, <1>6, <1>7, ServeKeepsInv DEF PageFault

\* The invariant holds in every reachable state.
THEOREM Invariance == Spec => []Inv
<1>1. Inv /\ [Next]_vars => Inv'
  <2> SUFFICES ASSUME Inv, UNCHANGED vars PROVE Inv'
    BY TLBHitInv, PageTableHitInv, PageFaultInv DEF Next
  <2> QED
    BY DEF vars, commonVars, Inv, TypeOK, CommonTypeOK, TablesTypeOK,
           TLBTypeOK, CountersTypeOK, FilesTypeOK, TableInv, TableOrdered,
           TableDistinct, TLBSound, Sound, TranslationCorrect
<1> QED
  BY InitInv, <1>1, PTL DEF Spec

\* Every variable of main_pr1.c keeps its type; in particular every table index
\* stays inside its array.
THEOREM TypeCorrect == Spec => []TypeOK
  BY Invariance, PTL DEF Inv

\* main_pr1.c prints the right byte for every address of every file.
THEOREM Translation == Spec => []TranslationCorrect
  BY Invariance, PTL DEF Inv

\* The replacement branch of readStore() in main_pr1.c is dead code.
THEOREM NoReplacement == Spec => []ReplacementUnreachable
<1>1. Inv => ReplacementUnreachable
  <2> SUFFICES ASSUME Inv, NEW p \in Pages,
                      ~Holds(page_table, next_table_pos, p)
               PROVE  next_pos < FrameMax /\ next_table_pos < PTEntryMax
    BY DEF ReplacementUnreachable
  <2>1. next_pos < NumPages /\ next_table_pos = next_pos /\ next_pos \in Nat
    BY MissingPage DEF Inv, TableInv, TablesTypeOK, TableOrdered
  <2> QED
    BY <2>1, EnoughFrames, SizesAssumption
<1> QED
  BY <1>1, Invariance, PTL

-----------------------------------------------------------------------------
\* In a table in order, without a page twice, the frame of a page is the index
\* of its slot.
LEMMA FrameOfSlot ==
  ASSUME NEW table, NEW n,
         \A j, k \in 0 .. n - 1 :
           table[j].page_num = table[k].page_num => j = k,
         \A j \in 0 .. n - 1 : table[j].frame_num = j,
         NEW i \in 0 .. n - 1
  PROVE  /\ table[i].page_num \in ResidentIn(table, n)
         /\ FrameIn(table, n, table[i].page_num) = i
<1> DEFINE slot == CHOOSE j \in 0 .. n - 1 :
                     table[j].page_num = table[i].page_num
<1>1. table[i].page_num \in ResidentIn(table, n)
  BY DEF ResidentIn
<1>2. slot \in 0 .. n - 1 /\ table[slot].page_num = table[i].page_num
  OBVIOUS
<1>3. slot = i
  <2> HIDE DEF slot
  <2> QED
    BY <1>2
<1> QED
  BY <1>1, <1>3 DEF FrameIn

\* In a state of the invariant, a loaded page is resident in its frame.
LEMMA LoadedIsResident ==
  ASSUME Inv, NEW f \in 0 .. next_pos - 1
  PROVE  /\ phy_memory[f] \in resident
         /\ frameOf[phy_memory[f]] = f
<1>1. /\ next_table_pos = next_pos
      /\ phy_memory[f] = page_table[f].page_num
      /\ \A j \in 0 .. next_table_pos - 1 : page_table[j].frame_num = j
      /\ \A j, k \in 0 .. next_table_pos - 1 :
           page_table[j].page_num = page_table[k].page_num => j = k
  BY DEF Inv, TableInv, TableOrdered, TableDistinct
<1>2. /\ page_table[f].page_num \in ResidentIn(page_table, next_table_pos)
      /\ FrameIn(page_table, next_table_pos, page_table[f].page_num) = f
  BY <1>1, FrameOfSlot
<1>3. page_table[f].page_num \in Pages
  <2>1. f \in 0 .. PTEntryMax - 1
    BY <1>1, SizesAssumption DEF Inv, TypeOK, CommonTypeOK, TablesTypeOK
  <2> QED
    BY <2>1 DEF Inv, TypeOK, CommonTypeOK, TablesTypeOK, Entry
<1> QED
  BY <1>1, <1>2, <1>3 DEF resident, frameOf

\* The initial state is that of the abstract memory.
LEMMA InitImplements == Init => Memory!Init
<1> SUFFICES ASSUME CommonInit PROVE Memory!Init
  BY DEF Init
<1>1. resident = {}
  BY DEF CommonInit, resident, ResidentIn
<1>2. frameOf = [p \in Pages |-> 0]
  BY <1>1 DEF frameOf, FrameIn, resident
<1> QED
  BY <1>1, <1>2 DEF CommonInit, Memory!Init, Memory!Pages, Pages, Blank

\* A line printed from the frame of its page is what the abstract memory
\* prints.
LEMMA PrintImplements ==
  ASSUME NEW frame, LoopBody(frame), phy_memory'[frame] = page
  PROVE  Memory!Report(log_add, frame)
  BY DEF LoopBody, PrintTranslation, page, PageOf, OffsetOf, Memory!Report,
         Memory!PageOf, Memory!OffsetOf

\* A step that loads nothing and reads a frame that holds the page is a hit of
\* the abstract memory.
LEMMA HitImplements ==
  ASSUME Inv, NEW frame \in 0 .. next_pos - 1, phy_memory[frame] = page,
         UNCHANGED <<phy_memory, page_table, next_table_pos, page_faults>>,
         LoopBody(frame)
  PROVE  Memory!Next
<1>1. log_add \in Addresses
  BY DEF Inv, TypeOK, CommonTypeOK, FilesTypeOK
<1>2. page \in resident /\ frameOf[page] = frame
  BY LoadedIsResident
<1>3. Memory!Report(log_add, frame)
  BY PrintImplements
<1>4. UNCHANGED <<resident, frameOf, page_faults>>
  BY DEF resident, frameOf
<1>5. Memory!PageOf(log_add) = page
  BY DEF page, PageOf, Memory!PageOf
<1>6. Memory!Hit(log_add)
  BY <1>2, <1>3, <1>4, <1>5 DEF Memory!Hit
<1> QED
  BY <1>1, <1>6 DEF Memory!Next

\* A page fault is a fault of the abstract memory: the frame is new.
LEMMA FaultImplements == Inv /\ PageFault => Memory!Next
<1> SUFFICES ASSUME Inv, PageFault PROVE Memory!Next
  OBVIOUS
<1>1. /\ page \in Pages /\ next_pos \in Nat /\ TableInv
      /\ next_table_pos = next_pos /\ log_add \in Addresses
  BY CurrentPage DEF Inv, TypeOK, CommonTypeOK, TablesTypeOK, FilesTypeOK,
                     TableInv, TableOrdered
<1>2. next_pos < NumPages
  BY <1>1, MissingPage DEF PageFault, InPageTable
<1>3. next_pos < FrameMax /\ next_pos < PTEntryMax
  BY <1>1, <1>2, EnoughFrames, SizesAssumption
<1>4. LoadNextFrame(page)
  BY <1>3 DEF PageFault, ReadStoreFifo
<1>5. /\ next_pos' - 1 = next_pos
      /\ next_table_pos' = next_pos + 1
      /\ phy_memory'[next_pos] = page
      /\ next_pos \in Frames
  BY <1>1, <1>3, <1>4, SizesAssumption
     DEF LoadNextFrame, TableInv, TablesTypeOK, Frames
<1>6. Inv'
  BY PageFaultInv
<1>7. /\ \A i \in 0 .. next_pos - 1 : page_table'[i] = page_table[i]
      /\ page_table'[next_pos] = [page_num |-> page, frame_num |-> next_pos]
  BY <1>1, <1>3, <1>4, SizesAssumption
     DEF LoadNextFrame, TableInv, TablesTypeOK
<1>8. page \notin resident
  BY <1>1 DEF PageFault, InPageTable, Holds, resident, ResidentIn
<1>9. resident' = resident \union {page}
  <2>1. 0 .. next_table_pos' - 1 = (0 .. next_pos - 1) \union {next_pos}
    BY <1>1, <1>5
  <2> QED
    BY <1>1, <1>7, <2>1 DEF resident, ResidentIn
<1>10. \A i \in 0 .. next_pos - 1 :
         /\ FrameIn(page_table, next_table_pos, page_table[i].page_num) = i
         /\ FrameIn(page_table', next_table_pos', page_table'[i].page_num) = i
  <2>1. \A i \in 0 .. next_pos - 1 : i \in 0 .. next_table_pos' - 1
    BY <1>1, <1>5
  <2>2. /\ \A j \in 0 .. next_table_pos' - 1 : page_table'[j].frame_num = j
        /\ \A j, k \in 0 .. next_table_pos' - 1 :
             page_table'[j].page_num = page_table'[k].page_num => j = k
    BY <1>6 DEF Inv, TableInv, TableOrdered, TableDistinct
  <2>3. /\ \A j \in 0 .. next_table_pos - 1 : page_table[j].frame_num = j
        /\ \A j, k \in 0 .. next_table_pos - 1 :
             page_table[j].page_num = page_table[k].page_num => j = k
    BY <1>1 DEF TableInv, TableOrdered, TableDistinct
  <2>4. ASSUME NEW i \in 0 .. next_pos - 1
        PROVE  FrameIn(page_table, next_table_pos, page_table[i].page_num) = i
    <3>1. i \in 0 .. next_table_pos - 1
      BY <1>1
    <3> QED
      BY <2>3, <3>1, FrameOfSlot
  <2>5. ASSUME NEW i \in 0 .. next_pos - 1
        PROVE  FrameIn(page_table', next_table_pos', page_table'[i].page_num) = i
    BY <2>1, <2>2, FrameOfSlot
  <2> QED
    BY <2>4, <2>5
<1>11. FrameIn(page_table', next_table_pos', page) = next_pos
  <2>1. next_pos \in 0 .. next_table_pos' - 1
    BY <1>1, <1>5
  <2>2. /\ \A j \in 0 .. next_table_pos' - 1 : page_table'[j].frame_num = j
        /\ \A j, k \in 0 .. next_table_pos' - 1 :
             page_table'[j].page_num = page_table'[k].page_num => j = k
    BY <1>6 DEF Inv, TableInv, TableOrdered, TableDistinct
  <2>3. FrameIn(page_table', next_table_pos', page_table'[next_pos].page_num)
          = next_pos
    BY <2>1, <2>2, FrameOfSlot
  <2> QED
    BY <1>7, <2>3
<1>12. frameOf' = [frameOf EXCEPT ![page] = next_pos]
  <2>1. ASSUME NEW p \in Pages, p # page
        PROVE  FrameIn(page_table', next_table_pos', p)
                 = FrameIn(page_table, next_table_pos, p)
    <3>1. CASE p \in resident
      <4>1. PICK i \in 0 .. next_pos - 1 : page_table[i].page_num = p
        BY <1>1, <3>1 DEF resident, ResidentIn
      <4> QED
        BY <1>7, <1>10, <4>1
    <3>2. CASE p \notin resident
      BY <1>9, <2>1, <3>2 DEF FrameIn, resident
    <3> QED
      BY <3>1, <3>2
  <2> QED
    BY <1>1, <1>11, <2>1 DEF frameOf
<1>13. \A p \in resident : frameOf[p] # next_pos
  <2> SUFFICES ASSUME NEW p \in resident PROVE frameOf[p] # next_pos
    OBVIOUS
  <2>1. PICK i \in 0 .. next_pos - 1 : page_table[i].page_num = p
    BY <1>1 DEF resident, ResidentIn
  <2>2. phy_memory[i] = p
    BY <2>1 DEF Inv, TableInv, TableOrdered
  <2> QED
    BY <1>1, <2>1, <2>2, LoadedIsResident
<1>14. Memory!Report(log_add, next_pos) /\ page_faults' = page_faults + 1
  BY <1>5, PrintImplements DEF PageFault
<1>15. Memory!PageOf(log_add) = page /\ Memory!Frames = Frames
  BY DEF page, PageOf, Memory!PageOf, Frames, Memory!Frames
<1>16. Memory!Fault(log_add)
  BY <1>5, <1>8, <1>9, <1>12, <1>13, <1>14, <1>15 DEF Memory!Fault
<1> QED
  BY <1>1, <1>16 DEF Memory!Next

\* main_pr1.c implements the abstract demand-paged memory: a page is loaded
\* once, into a frame of its own which it never leaves, and what is printed is
\* the byte of the backing store.
THEOREM FifoImplementsPagedMemory == Spec => ImplementsPagedMemory
<1>1. Inv /\ [Next]_vars => [Memory!Next]_(Memory!vars)
  <2> SUFFICES ASSUME Inv, [Next]_vars
               PROVE  Memory!Next \/ UNCHANGED Memory!vars
    OBVIOUS
  <2>1. CASE TLBHit
    <3>1. PICK i \in DOMAIN TLB :
            /\ FirstHolding(TLB, next_tlb_pos, page, i)
            /\ UNCHANGED <<phy_memory, page_table, next_table_pos, page_faults>>
            /\ LoopBody(TLB[i].frame_num)
      BY <2>1 DEF TLBHit
    <3>2. TLB[i].frame_num \in 0 .. next_pos - 1
          /\ phy_memory[TLB[i].frame_num] = page
      BY <3>1 DEF Inv, TLBSound, Sound, FirstHolding
    <3> QED
      BY <3>1, <3>2, HitImplements
  <2>2. CASE PageTableHit
    <3>1. PICK i \in DOMAIN page_table :
            /\ FirstHolding(page_table, next_table_pos, page, i)
            /\ UNCHANGED <<phy_memory, page_table, next_table_pos, page_faults>>
            /\ LoopBody(page_table[i].frame_num)
      BY <2>2 DEF PageTableHit
    <3>2. page_table[i].frame_num \in 0 .. next_pos - 1
          /\ phy_memory[page_table[i].frame_num] = page
      BY <3>1 DEF Inv, TableInv, TableOrdered, FirstHolding
    <3> QED
      BY <3>1, <3>2, HitImplements
  <2>3. CASE PageFault
    BY <2>3, FaultImplements
  <2>4. CASE UNCHANGED vars
    BY <2>4 DEF vars, commonVars, Memory!vars, resident, frameOf
  <2> QED
    BY <2>1, <2>2, <2>3, <2>4 DEF Next
<1> QED
  BY Invariance, InitImplements, <1>1, PTL
     DEF Spec, ImplementsPagedMemory, Memory!Spec

-----------------------------------------------------------------------------
\* The address file: what has been read, what is in log_add and what is left make
\* up the file, and its end is seen one fscanf() earlier without a newline.
FileInv ==
  /\ lines \in Nat /\ address_c \in Nat /\ unread \in Nat
  /\ eof \in BOOLEAN /\ newline \in BOOLEAN
  /\ ~eof => /\ address_c + 1 + unread = lines
             /\ newline \/ unread > 0
  /\ OnlyUnterminatedLineDropped

\* The end of a turn of the loop keeps that.
LEMMA LoopKeepsFile ==
  ASSUME FileInv, NEW frame, LoopBody(frame)
  PROVE  FileInv'
<1> USE DEF FileInv, OnlyUnterminatedLineDropped
<1>1. /\ ~eof /\ address_c' = address_c + 1 /\ fscanf
      /\ UNCHANGED <<lines, newline>>
  BY DEF LoopBody
<1>2. CASE unread = 0
  <2>1. eof' = TRUE /\ unread' = 0 /\ newline
    BY <1>1, <1>2 DEF fscanf
  <2> QED
    BY <1>1, <1>2, <2>1
<1>3. CASE unread # 0
  <2>1. unread' = unread - 1 /\ eof' = (unread = 1 /\ ~newline)
    BY <1>1, <1>3 DEF fscanf
  <2>2. CASE unread = 1 /\ ~newline
    <3>1. eof' = TRUE
      BY <2>1, <2>2
    <3> QED
      BY <1>1, <2>1, <2>2, <3>1
  <2>3. CASE ~(unread = 1 /\ ~newline)
    <3>1. eof' = FALSE
      BY <2>1, <2>3
    <3> QED
      BY <1>1, <1>3, <2>1, <2>3, <3>1
  <2> QED
    BY <2>2, <2>3
<1> QED
  BY <1>2, <1>3

\* main_pr1.c translates every line of every file but a last one that does not
\* end in a newline.
THEOREM EndOfFile == Spec => []OnlyUnterminatedLineDropped
<1>1. Init => FileInv
  <2> SUFFICES ASSUME Init PROVE FileInv
    OBVIOUS
  <2>1. /\ lines \in Nat /\ address_c = 0 /\ newline \in BOOLEAN
        /\ unread = IF lines = 0 THEN 0 ELSE lines - 1
        /\ eof = (lines = 0 \/ (lines = 1 /\ ~newline))
    BY FileAssumption DEF Init, CommonInit
  <2>2. eof \in BOOLEAN
    BY <2>1
  <2>3. eof <=> (lines = 0 \/ (lines = 1 /\ ~newline))
    BY <2>1
  <2> QED
    BY <2>1, <2>2, <2>3 DEF FileInv, OnlyUnterminatedLineDropped
<1>2. FileInv /\ [Next]_vars => FileInv'
  <2> SUFFICES ASSUME FileInv, UNCHANGED vars PROVE FileInv'
    BY LoopKeepsFile DEF Next, TLBHit, PageTableHit, PageFault
  <2> QED
    BY DEF vars, commonVars, FileInv, OnlyUnterminatedLineDropped
<1>3. FileInv => OnlyUnterminatedLineDropped
  BY DEF FileInv
<1> QED
  BY <1>1, <1>2, <1>3, PTL DEF Spec
-----------------------------------------------------------------------------
\* The access that put entry i into the TLB, counted from 1: in a TLB that is
\* not full they stand in order, in a full one the order starts at tempFIFO.
AccessOf(i) ==
  IF next_tlb_pos < TLBEntryMax THEN i + 1
  ELSE IF i < tempFIFO THEN address_c - tempFIFO + i + 1
  ELSE address_c - tempFIFO - TLBEntryMax + i + 1

\* The TLB fills with the first accesses, an entry is no younger than the last
\* use of its page, and a page used within the window has an entry of that use.
WindowInv ==
  /\ next_tlb_pos < TLBEntryMax => next_tlb_pos = address_c /\ tempFIFO = 0
  /\ next_tlb_pos = TLBEntryMax => address_c >= TLBEntryMax
  /\ \A i \in 0 .. next_tlb_pos - 1 : last_use[TLB[i].page_num] >= AccessOf(i)
  /\ \A p \in touched :
       last_use[p] > address_c - TLBEntryMax =>
         \E i \in 0 .. next_tlb_pos - 1 :
           TLB[i].page_num = p /\ AccessOf(i) = last_use[p]

\* Arithmetic of the indices: what is next behind the last place is the first.
LEMMA Wrap ==
  ASSUME NEW n \in Nat \ {0}, NEW t \in 0 .. n - 1
  PROVE  (t + 1) % n = IF t + 1 = n THEN 0 ELSE t + 1
  OBVIOUS

\* TLBInsert() gives one entry to the new access and keeps the accesses of the
\* others; in a full TLB the entry it takes is that of the oldest access.
LEMMA InsertShiftsWindow ==
  ASSUME TypeOK, WindowInv, address_c' = address_c + 1, NEW frame,
         TLBInsert(page, frame)
  PROVE  \E s \in 0 .. next_tlb_pos' - 1 :
           /\ TLB'[s].page_num = page /\ AccessOf(s)' = address_c + 1
           /\ \A i \in 0 .. next_tlb_pos' - 1 : i # s =>
                /\ i \in 0 .. next_tlb_pos - 1
                /\ TLB'[i] = TLB[i] /\ AccessOf(i)' = AccessOf(i)
           /\ \A i \in 0 .. next_tlb_pos - 1 :
                /\ i \in 0 .. next_tlb_pos' - 1
                /\ i = s => AccessOf(i) = address_c - TLBEntryMax + 1
<1> DEFINE new == [page_num |-> page, frame_num |-> frame]
<1>1. /\ TLBEntryMax \in Nat \ {0} /\ tempFIFO \in 0 .. TLBEntryMax - 1
      /\ next_tlb_pos \in 0 .. TLBEntryMax /\ address_c \in Nat
      /\ DOMAIN TLB = 0 .. TLBEntryMax - 1
  BY SizesAssumption DEF TypeOK, CommonTypeOK, TLBTypeOK, CountersTypeOK
<1>2. CASE next_tlb_pos < TLBEntryMax
  <2>1. /\ TLB' = [TLB EXCEPT ![next_tlb_pos] = new]
        /\ next_tlb_pos' = next_tlb_pos + 1 /\ tempFIFO' = 0
        /\ tempFIFO = 0 /\ next_tlb_pos = address_c
    BY <1>2 DEF TLBInsert, WindowInv
  <2>2. \A i \in 0 .. next_tlb_pos : AccessOf(i)' = i + 1
    BY <1>1, <1>2, <2>1 DEF AccessOf
  <2>3. \A i \in 0 .. next_tlb_pos : AccessOf(i) = i + 1
    BY <1>2 DEF AccessOf
  <2> PICK s \in 0 .. TLBEntryMax - 1 : s = next_tlb_pos
    BY <1>1, <1>2
  <2>4. /\ s \in 0 .. next_tlb_pos' - 1
        /\ TLB'[s].page_num = page /\ AccessOf(s)' = address_c + 1
    BY <1>1, <1>2, <2>1, <2>2
  <2>5. ASSUME NEW i \in 0 .. next_tlb_pos' - 1, i # s
        PROVE  /\ i \in 0 .. next_tlb_pos - 1
               /\ TLB'[i] = TLB[i] /\ AccessOf(i)' = AccessOf(i)
    BY <1>1, <1>2, <2>1, <2>2, <2>3, <2>5
  <2>6. ASSUME NEW i \in 0 .. next_tlb_pos - 1
        PROVE  i \in 0 .. next_tlb_pos' - 1 /\ i # s
    BY <1>1, <2>1, <2>6
  <2> QED
    BY <2>4, <2>5, <2>6
<1>3. CASE ~(next_tlb_pos < TLBEntryMax)
  <2>0. (tempFIFO + 1) % TLBEntryMax
          = IF tempFIFO + 1 = TLBEntryMax THEN 0 ELSE tempFIFO + 1
    BY <1>1, Wrap
  <2>1. /\ TLB' = [TLB EXCEPT ![tempFIFO] = new]
        /\ next_tlb_pos' = TLBEntryMax /\ next_tlb_pos = TLBEntryMax
        /\ tempFIFO' = IF tempFIFO + 1 = TLBEntryMax THEN 0 ELSE tempFIFO + 1
    <3>1. /\ TLB' = [TLB EXCEPT ![tempFIFO] = new]
          /\ tempFIFO' = (tempFIFO + 1) % TLBEntryMax
          /\ next_tlb_pos' = next_tlb_pos
      BY <1>3 DEF TLBInsert
    <3>2. next_tlb_pos = TLBEntryMax
      BY <1>1, <1>3
    <3> QED
      BY <2>0, <3>1, <3>2
  <2>2. \A i \in 0 .. TLBEntryMax - 1 :
          AccessOf(i)' = IF i = tempFIFO THEN address_c + 1 ELSE AccessOf(i)
    BY <1>1, <2>1 DEF AccessOf
  <2>3. AccessOf(tempFIFO) = address_c - TLBEntryMax + 1
    BY <1>1, <2>1 DEF AccessOf
  <2> PICK s \in 0 .. TLBEntryMax - 1 : s = tempFIFO
    BY <1>1
  <2>4. /\ s \in 0 .. next_tlb_pos' - 1
        /\ TLB'[s].page_num = page /\ AccessOf(s)' = address_c + 1
    BY <1>1, <2>1, <2>2
  <2>5. ASSUME NEW i \in 0 .. next_tlb_pos' - 1, i # s
        PROVE  /\ i \in 0 .. next_tlb_pos - 1
               /\ TLB'[i] = TLB[i] /\ AccessOf(i)' = AccessOf(i)
    BY <1>1, <2>1, <2>2, <2>5
  <2> QED
    BY <2>1, <2>3, <2>4, <2>5
<1> QED
  BY <1>2, <1>3

\* What every action does preserves the window.
LEMMA ServeKeepsWindow ==
  ASSUME TypeOK, WindowInv, NEW frame, NEW read, page \in Pages,
         TLBInsert(page, frame), LoopBody(read)
  PROVE  WindowInv'
<1>1. address_c' = address_c + 1
      /\ last_use' = [last_use EXCEPT ![page] = address_c + 1]
  BY DEF LoopBody
<1>2. /\ address_c \in Nat /\ last_use \in [Pages -> 0 .. address_c]
      /\ TLBEntryMax \in Nat \ {0} /\ next_tlb_pos \in 0 .. TLBEntryMax
      /\ \A i \in 0 .. next_tlb_pos - 1 : TLB[i].page_num \in Pages
  BY SizesAssumption
     DEF TypeOK, CommonTypeOK, TLBTypeOK, CountersTypeOK, Entry
<1>3. PICK s \in 0 .. next_tlb_pos' - 1 :
        /\ TLB'[s].page_num = page /\ AccessOf(s)' = address_c + 1
        /\ \A i \in 0 .. next_tlb_pos' - 1 : i # s =>
             /\ i \in 0 .. next_tlb_pos - 1
             /\ TLB'[i] = TLB[i] /\ AccessOf(i)' = AccessOf(i)
        /\ \A i \in 0 .. next_tlb_pos - 1 :
             /\ i \in 0 .. next_tlb_pos' - 1
             /\ i = s => AccessOf(i) = address_c - TLBEntryMax + 1
  BY <1>1, InsertShiftsWindow
<1>4. \A p \in Pages : last_use'[p] = IF p = page THEN address_c + 1 ELSE last_use[p]
  BY <1>1, <1>2
<1>5. /\ next_tlb_pos' < TLBEntryMax => next_tlb_pos' = address_c' /\ tempFIFO' = 0
      /\ next_tlb_pos' = TLBEntryMax => address_c' >= TLBEntryMax
  BY <1>1, <1>2 DEF WindowInv, TLBInsert
<1>6. ASSUME NEW i \in 0 .. next_tlb_pos' - 1
      PROVE  last_use'[TLB'[i].page_num] >= AccessOf(i)'
  <2>1. CASE i = s
    BY <1>2, <1>3, <1>4, <2>1
  <2>2. CASE i # s
    <3>1. /\ i \in 0 .. next_tlb_pos - 1 /\ TLB'[i] = TLB[i]
          /\ AccessOf(i)' = AccessOf(i)
      BY <1>3, <2>2
    <3>2. last_use[TLB[i].page_num] >= AccessOf(i) /\ TLB[i].page_num \in Pages
      BY <1>2, <3>1 DEF WindowInv
    <3>3. last_use[TLB[i].page_num] \in 0 .. address_c
      BY <1>2, <3>2
    <3>4. AccessOf(i) \in Int
      BY <1>2, <3>1 DEF AccessOf, TypeOK
    <3>5. last_use'[TLB[i].page_num] >= last_use[TLB[i].page_num]
      BY <1>2, <1>4, <3>2, <3>3
    <3> QED
      BY <1>2, <1>4, <3>1, <3>2, <3>3, <3>4, <3>5
  <2> QED
    BY <2>1, <2>2
<1>7. ASSUME NEW p \in touched', last_use'[p] > address_c' - TLBEntryMax
      PROVE  \E i \in 0 .. next_tlb_pos' - 1 :
               TLB'[i].page_num = p /\ AccessOf(i)' = last_use'[p]
  <2>1. p \in Pages /\ last_use'[p] > 0
    BY DEF touched
  <2>2. CASE p = page
    BY <1>3, <1>4, <2>1, <2>2
  <2>3. CASE p # page
    <3>1. last_use'[p] = last_use[p] /\ p \in touched /\ last_use[p] \in Int
      BY <1>2, <1>4, <2>1, <2>3 DEF touched
    <3>2. last_use[p] > address_c - TLBEntryMax + 1
      BY <1>1, <1>2, <1>7, <3>1
    <3>3. PICK i \in 0 .. next_tlb_pos - 1 :
            TLB[i].page_num = p /\ AccessOf(i) = last_use[p]
      BY <1>2, <3>1, <3>2 DEF WindowInv
    <3>4. i # s
      BY <1>2, <1>3, <3>1, <3>2, <3>3
    <3>5. /\ i \in 0 .. next_tlb_pos' - 1 /\ TLB'[i] = TLB[i]
          /\ AccessOf(i)' = AccessOf(i)
      BY <1>3, <3>3, <3>4
    <3> QED
      BY <3>1, <3>3, <3>5
  <2> QED
    BY <2>2, <2>3
<1> QED
  BY <1>5, <1>6, <1>7 DEF WindowInv

\* The TLB of main_pr1.c holds the pages of the last TLBEntryMax accesses and no
\* other, for every TLB size and every address file.
THEOREM Window == Spec => []TLBIsAccessWindow
<1>1. Init => WindowInv
  BY SizesAssumption DEF Init, CommonInit, WindowInv, touched
<1>2. Inv /\ WindowInv /\ [Next]_vars => WindowInv'
  <2> SUFFICES ASSUME Inv, WindowInv, [Next]_vars PROVE WindowInv'
    OBVIOUS
  <2>1. TypeOK /\ page \in Pages
    BY CurrentPage DEF Inv, TypeOK, CommonTypeOK
  <2>2. CASE Next
    BY <2>1, <2>2, ServeKeepsWindow DEF Next, TLBHit, PageTableHit, PageFault
  <2>3. CASE UNCHANGED vars
    BY <2>3 DEF vars, commonVars, WindowInv, AccessOf, touched
  <2> QED
    BY <2>2, <2>3
<1>3. TypeOK /\ WindowInv => TLBIsAccessWindow
  <2> SUFFICES ASSUME TypeOK, WindowInv PROVE TLBIsAccessWindow
    OBVIOUS
  <2>1. /\ address_c \in Nat /\ last_use \in [Pages -> 0 .. address_c]
        /\ TLBEntryMax \in Nat \ {0} /\ next_tlb_pos \in 0 .. TLBEntryMax
        /\ tempFIFO \in 0 .. TLBEntryMax - 1
        /\ \A i \in 0 .. next_tlb_pos - 1 : TLB[i].page_num \in Pages
    BY SizesAssumption
       DEF TypeOK, CommonTypeOK, TLBTypeOK, CountersTypeOK, Entry
  <2>2. ASSUME NEW i \in 0 .. next_tlb_pos - 1
        PROVE  /\ TLB[i].page_num \in touched
               /\ last_use[TLB[i].page_num] > address_c - TLBEntryMax
    <3>1. AccessOf(i) > 0 /\ AccessOf(i) > address_c - TLBEntryMax
          /\ AccessOf(i) \in Int
      BY <2>1 DEF AccessOf, WindowInv
    <3>2. last_use[TLB[i].page_num] >= AccessOf(i)
      BY DEF WindowInv
    <3>3. TLB[i].page_num \in Pages /\ last_use[TLB[i].page_num] \in Int
      BY <2>1
    <3>4. last_use[TLB[i].page_num] > 0
      BY <3>1, <3>2, <3>3
    <3>5. last_use[TLB[i].page_num] > address_c - TLBEntryMax
      BY <2>1, <3>1, <3>2, <3>3
    <3> QED
      BY <3>3, <3>4, <3>5 DEF touched
  <2>3. ASSUME NEW p \in touched, last_use[p] > address_c - TLBEntryMax
        PROVE  p \in {TLB[i].page_num : i \in 0 .. next_tlb_pos - 1}
    BY <2>3 DEF WindowInv
  <2> QED
    BY <2>2, <2>3 DEF TLBIsAccessWindow
<1>4. Inv => TypeOK
  BY DEF Inv
<1> QED
  BY Invariance, <1>1, <1>2, <1>3, <1>4, PTL DEF Spec
=============================================================================
