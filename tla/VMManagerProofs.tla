--------------------------- MODULE VMManagerProofs ---------------------------
(***************************************************************************)
(* Proofs about main.c: for every number of pages, every TLB size and      *)
(* every address file, the zero entries TLBInsert() leaves in the TLB can  *)
(* spoil a translation of page 0 and of no other page, every other page    *)
(* faults once, and the TLB is the queue of the most recently used pages.  *)
(***************************************************************************)
EXTENDS VMManager, VMTableProofs

\* An entry is the zero entry or names a loaded frame that holds its page.
Good(e) == e = ZeroEntry \/ (e.frame_num \in 0 .. next_pos - 1 /\ Sound(e))

TLBGood ==
  /\ \A i \in 0 .. TLBEntryMax - 1 : Good(TLB[i])
  /\ next_tlb_pos > 0 => next_pos > 0

Inv == TypeOK /\ TableInv /\ TLBGood /\ OnlyPageZeroMistranslated

-----------------------------------------------------------------------------
\* The initial state satisfies the invariant.
LEMMA InitInv == Init => Inv
<1> SUFFICES ASSUME CommonInit PROVE Inv
  BY DEF Init
<1>1. CommonTypeOK /\ TableInv /\ TranslationCorrect
  BY InitTables
<1>2. TLBGood
  BY DEF TLBGood, Good, CommonInit
<1>3. OnlyPageZeroMistranslated
  BY <1>1 DEF OnlyPageZeroMistranslated, TranslationCorrect
<1> QED
  BY <1>1, <1>2, <1>3 DEF Inv, TypeOK

\* Wherever the shift starts, it only moves entries inside the TLB.
LEMMA ShiftMoves ==
  ASSUME TLBTypeOK, NEW from
  PROVE  /\ ShiftDown(from) \in [0 .. TLBEntryMax - 1 -> Entry]
         /\ \A k \in 0 .. TLBEntryMax - 1 : \E m \in 0 .. TLBEntryMax - 1 :
              ShiftDown(from)[k] = TLB[m]
<1>1. DOMAIN TLB = 0 .. TLBEntryMax - 1
  BY DEF TLBTypeOK
<1>2. ASSUME NEW k \in 0 .. TLBEntryMax - 1
      PROVE  \E m \in 0 .. TLBEntryMax - 1 : ShiftDown(from)[k] = TLB[m]
  <2>1. CASE k >= from /\ k < TLBEntryMax - 1
    <3>1. k + 1 \in 0 .. TLBEntryMax - 1
      BY <2>1, SizesAssumption
    <3> QED
      BY <1>1, <2>1, <3>1 DEF ShiftDown
  <2>2. CASE ~(k >= from /\ k < TLBEntryMax - 1)
    BY <1>1, <2>2 DEF ShiftDown
  <2> QED
    BY <2>1, <2>2
<1>3. \A k \in 0 .. TLBEntryMax - 1 : ShiftDown(from)[k] \in Entry
  BY <1>2 DEF TLBTypeOK
<1> QED
  BY <1>1, <1>2, <1>3 DEF ShiftDown

\* After TLBInsert() every entry was there before or is the new one.
LEMMA InsertMoves ==
  ASSUME TLBTypeOK, NEW p \in Pages, NEW frame \in Frames, TLBInsert(p, frame)
  PROVE  /\ TLBTypeOK'
         /\ next_tlb_pos' > 0
         /\ \A k \in 0 .. TLBEntryMax - 1 :
              \/ TLB'[k] = [page_num |-> p, frame_num |-> frame]
              \/ \E m \in 0 .. TLBEntryMax - 1 : TLB'[k] = TLB[m]
<1> DEFINE new == [page_num |-> p, frame_num |-> frame]
<1>1. /\ TLB' = [ShiftDown(ShiftFrom(p)) EXCEPT ![InsertAt] = new]
      /\ InsertAt \in 0 .. TLBEntryMax - 1
  <2>1. InsertAt \in 0 .. TLBEntryMax - 1
    BY SizesAssumption DEF InsertAt, room, TLBTypeOK
  <2> QED
    BY <2>1 DEF TLBInsert
<1>2. next_tlb_pos' \in 0 .. TLBEntryMax /\ next_tlb_pos' > 0
  BY SizesAssumption DEF TLBInsert, room, TLBTypeOK
<1>3. new \in Entry
  BY DEF Entry
<1>4. TLB' \in [0 .. TLBEntryMax - 1 -> Entry]
  BY <1>1, <1>3, ShiftMoves
<1>5. \A k \in 0 .. TLBEntryMax - 1 :
        TLB'[k] = new \/ \E m \in 0 .. TLBEntryMax - 1 : TLB'[k] = TLB[m]
  <2>1. \A k \in 0 .. TLBEntryMax - 1 :
          TLB'[k] = new \/ TLB'[k] = ShiftDown(ShiftFrom(p))[k]
    <3>1. DOMAIN ShiftDown(ShiftFrom(p)) = 0 .. TLBEntryMax - 1
      BY ShiftMoves
    <3> HIDE DEF new
    <3> QED
      BY <1>1, <3>1
  <2> QED
    BY <2>1, ShiftMoves
<1> QED
  BY <1>2, <1>4, <1>5 DEF TLBTypeOK

\* A memory with a loaded frame has frame 0 loaded.
LEMMA ZeroBelow == ASSUME NEW n \in Int, n > 0 PROVE 0 \in 0 .. n - 1
  OBVIOUS

\* The offset of an address is inside its frame.
LEMMA FrameZero ==
  ASSUME NEW a \in Int PROVE (0 * PageSize + OffsetOf(a)) \div PageSize = 0
<1>1. OffsetOf(a) \in 0 .. PageSize - 1 /\ PageSize \in Nat \ {0}
  BY PageOffsetType, SizesAssumption DEF Offsets
<1> QED
  BY <1>1

\* What the three actions have in common: the tables are in order afterwards
\* and the entry that is inserted is good.
LEMMA ServeKeepsInv ==
  ASSUME Inv, page \in Pages, TableInv', next_pos' >= next_pos, next_pos' > 0,
         \A f \in 0 .. next_pos - 1 : phy_memory'[f] = phy_memory[f],
         NEW frame \in Frames,
         \/ page = 0 /\ frame = 0
         \/ frame \in 0 .. next_pos' - 1 /\ phy_memory'[frame] = page,
         page_faults' \in {page_faults, page_faults + 1},
         hits' \in {hits, hits + 1},
         TLBInsert(page, frame), LoopBody(frame)
  PROVE  Inv'
<1> USE DEF Inv, TypeOK, CommonTypeOK
<1>1. TablesTypeOK'
  BY DEF TableInv
<1>2. TLBTypeOK' /\ next_tlb_pos' > 0
  BY InsertMoves
<1>3. TLBGood'
  <2> SUFFICES ASSUME NEW k \in 0 .. TLBEntryMax - 1 PROVE Good(TLB[k])'
    BY DEF TLBGood
  <2>1. CASE TLB'[k] = [page_num |-> page, frame_num |-> frame]
    BY <2>1 DEF Good, Sound, ZeroEntry
  <2>2. ASSUME NEW m \in 0 .. TLBEntryMax - 1, TLB'[k] = TLB[m]
        PROVE  Good(TLB[k])'
    <3>1. CASE TLB[m] = ZeroEntry
      BY <2>2, <3>1 DEF Good, ZeroEntry
    <3>2. CASE TLB[m].frame_num \in 0 .. next_pos - 1 /\ Sound(TLB[m])
      <4>1. next_pos \in Nat /\ next_pos' \in Nat
        BY <1>1 DEF TablesTypeOK
      <4>2. TLB[m].frame_num \in 0 .. next_pos' - 1
        BY <3>2, <4>1
      <4>3. phy_memory'[TLB[m].frame_num] = TLB[m].page_num
        BY <3>2 DEF Sound
      <4> QED
        BY <2>2, <4>2, <4>3 DEF Good, Sound
    <3> QED
      BY <3>1, <3>2 DEF TLBGood, Good
  <2> QED
    BY <2>1, <2>2, InsertMoves
<1>4. FilesTypeOK'
  BY <1>1, LoopKeepsFiles
<1>5. CountersTypeOK'
  BY LoopKeepsCounters
<1>6. OnlyPageZeroMistranslated'
  <2>1. CASE phy_memory'[frame] = page
    BY <2>1, LoopPrintsRight DEF TranslationCorrect, OnlyPageZeroMistranslated
  <2>2. CASE phy_memory'[frame] # page
    <3>1. page = 0 /\ frame = 0
      BY <2>2
    <3>2. page_table'[0].page_num # 0
      <4>1. 0 \in 0 .. next_pos' - 1
        <5>1. next_pos' \in Int
          BY <1>1 DEF TablesTypeOK
        <5> QED
          BY <5>1, ZeroBelow
      <4> QED
        BY <2>2, <3>1, <4>1 DEF TableInv, TableOrdered
    <3>3. /\ out'.virtual = log_add
          /\ out'.physical = 0 * PageSize + OffsetOf(log_add)
      BY <3>1 DEF LoopBody, PrintTranslation
    <3>4. log_add \in Int
      BY FileAssumption DEF FilesTypeOK
    <3>5. out'.physical \div PageSize = 0
      BY <3>3, <3>4, FrameZero
    <3>6. PageOf(out'.virtual) = 0
      BY <3>1, <3>3 DEF page
    <3> QED
      BY <3>2, <3>5, <3>6 DEF OnlyPageZeroMistranslated
  <2> QED
    BY <2>1, <2>2
<1> QED
  BY <1>1, <1>2, <1>3, <1>4, <1>5, <1>6

\* A hit in the TLB, of a zero entry or of another, preserves the invariant.
LEMMA TLBHitInv == Inv /\ TLBHit => Inv'
<1> SUFFICES ASSUME Inv, TLBHit PROVE Inv'
  OBVIOUS
<1>1. PICK i \in DOMAIN TLB :
        /\ FirstHolding(TLB, next_tlb_pos, page, i)
        /\ hits' = hits + 1
        /\ UNCHANGED <<phy_memory, page_table, next_pos, next_table_pos,
                       page_faults>>
        /\ TLBInsert(page, TLB[i].frame_num)
        /\ LoopBody(TLB[i].frame_num)
  BY DEF TLBHit
<1>2. page \in Pages /\ next_pos \in Nat
  BY CurrentPage DEF Inv, TypeOK, CommonTypeOK, TablesTypeOK
<1>3. next_pos > 0
  BY <1>1 DEF FirstHolding, Inv, TypeOK, CommonTypeOK, TLBTypeOK, TLBGood
<1>4. i \in 0 .. TLBEntryMax - 1 /\ TLB[i].page_num = page
  BY <1>1 DEF Inv, TypeOK, CommonTypeOK, TLBTypeOK, FirstHolding
<1>5. TLB[i].frame_num \in Frames
  BY <1>4 DEF Inv, TypeOK, CommonTypeOK, TLBTypeOK, Entry
<1>6. \/ page = 0 /\ TLB[i].frame_num = 0
      \/ TLB[i].frame_num \in 0 .. next_pos - 1
         /\ phy_memory[TLB[i].frame_num] = page
  BY <1>4 DEF Inv, TLBGood, Good, Sound, ZeroEntry
<1>7. TableInv'
  BY <1>1 DEF Inv, TableInv, TablesTypeOK, TableOrdered, TableDistinct
<1> QED
  BY <1>1, <1>2, <1>3, <1>5, <1>6, <1>7, ServeKeepsInv

\* So does a hit in the page table.
LEMMA PageTableHitInv == Inv /\ PageTableHit => Inv'
<1> SUFFICES ASSUME Inv, PageTableHit PROVE Inv'
  OBVIOUS
<1>1. PICK i \in DOMAIN page_table :
        /\ FirstHolding(page_table, next_table_pos, page, i)
        /\ UNCHANGED <<phy_memory, page_table, next_pos, next_table_pos,
                       page_faults, hits>>
        /\ TLBInsert(page, page_table[i].frame_num)
        /\ LoopBody(page_table[i].frame_num)
  BY DEF PageTableHit
<1>2. page_table[i].frame_num \in 0 .. next_pos - 1
      /\ phy_memory[page_table[i].frame_num] = page
  BY <1>1 DEF Inv, TableInv, TableOrdered, FirstHolding
<1>3. page \in Pages /\ next_pos \in 0 .. FrameMax
  BY CurrentPage DEF Inv, TypeOK, CommonTypeOK, TablesTypeOK
<1>4. next_pos > 0 /\ page_table[i].frame_num \in Frames
  BY <1>2, <1>3, LoadedFrame
<1>5. TableInv'
  BY <1>1 DEF Inv, TableInv, TablesTypeOK, TableOrdered, TableDistinct
<1> QED
  BY <1>1, <1>2, <1>3, <1>4, <1>5, ServeKeepsInv

\* So does a page fault, which always finds a free frame.
LEMMA PageFaultInv == Inv /\ PageFault => Inv'
<1> SUFFICES ASSUME Inv, PageFault PROVE Inv'
  OBVIOUS
<1>1. page \in Pages /\ next_pos \in Nat /\ TableInv
  BY CurrentPage DEF Inv, TypeOK, CommonTypeOK, TablesTypeOK
<1>2. next_pos < NumPages
  BY <1>1, MissingPage DEF PageFault, InPageTable
<1>3. next_pos < FrameMax /\ next_pos < PTEntryMax
  BY <1>1, <1>2, EnoughFrames, SizesAssumption
<1>4. LoadNextFrame(page)
  BY <1>3 DEF PageFault, ReadStoreFifo
<1>5. TableInv'
  BY <1>1, <1>3, <1>4, LoadKeepsTables DEF PageFault
<1>6. /\ next_pos' = next_pos + 1
      /\ next_pos' - 1 \in 0 .. next_pos' - 1
      /\ next_pos' - 1 \in Frames
      /\ next_pos' >= next_pos /\ next_pos' > 0
      /\ next_pos' - 1 = next_pos
  BY <1>1, <1>3, <1>4, SizesAssumption DEF LoadNextFrame, Frames
<1>7. phy_memory'[next_pos' - 1] = page
      /\ \A f \in 0 .. next_pos - 1 : phy_memory'[f] = phy_memory[f]
  BY <1>1, <1>3, <1>4, <1>6, SizesAssumption
     DEF LoadNextFrame, TableInv, TablesTypeOK, Frames
<1> QED
  BY <1>1, <1>5, <1>6, <1>7, ServeKeepsInv DEF PageFault

\* The invariant holds in every reachable state.
THEOREM Invariance == Spec => []Inv
<1>1. Inv /\ [Next]_vars => Inv'
  <2> SUFFICES ASSUME Inv, UNCHANGED vars PROVE Inv'
    BY TLBHitInv, PageTableHitInv, PageFaultInv DEF Next
  <2> QED
    BY DEF vars, commonVars, Inv, TypeOK, CommonTypeOK, TablesTypeOK,
           TLBTypeOK, CountersTypeOK, FilesTypeOK, TableInv, TableOrdered,
           TableDistinct, TLBGood, Good, Sound, OnlyPageZeroMistranslated
<1> QED
  BY InitInv, <1>1, PTL DEF Spec

\* Every variable of main.c keeps its type; in particular every table index
\* stays inside its array.
THEOREM TypeCorrect == Spec => []TypeOK
  BY Invariance, PTL DEF Inv

\* A wrong line of main.c is always for page 0, read from frame 0 while frame 0
\* belongs to another page.
THEOREM MistranslationConfined == Spec => []OnlyPageZeroMistranslated
  BY Invariance, PTL DEF Inv

\* The replacement branch of readStore() in main.c is dead code.
THEOREM NoReplacement == Spec => []ReplacementUnreachable
<1>1. Inv => ReplacementUnreachable
  <2> SUFFICES ASSUME Inv, NEW p \in Pages,
                      ~Holds(page_table, next_table_pos, p)
               PROVE  next_pos < FrameMax /\ next_table_pos < PTEntryMax
    BY DEF ReplacementUnreachable
  <2>1. next_pos < NumPages /\ next_table_pos = next_pos /\ next_pos \in Nat
    BY MissingPage DEF Inv, TableInv, TablesTypeOK, TableOrdered
  <2> QED
    BY <2>1, EnoughFrames, SizesAssumption
<1> QED
  BY <1>1, Invariance, PTL
-----------------------------------------------------------------------------
\* The page table lists the pages that were asked for, of which only page 0 may
\* be missing.
TableComplete ==
  /\ \A i \in 0 .. next_table_pos - 1 : page_table[i].page_num \in touched
  /\ \A p \in touched \ {0} : Holds(page_table, next_table_pos, p)

\* The page that is served is touched, and nothing else changes.
LEMMA TouchedGrows ==
  ASSUME TypeOK, page \in Pages, NEW frame, LoopBody(frame)
  PROVE  touched' = touched \union {page}
<1>1. /\ last_use \in [Pages -> 0 .. address_c] /\ address_c \in Nat
      /\ last_use' = [last_use EXCEPT ![page] = address_c + 1]
  BY DEF TypeOK, CommonTypeOK, CountersTypeOK, LoopBody
<1>2. \A p \in Pages : last_use'[p] > 0 <=> last_use[p] > 0 \/ p = page
  BY <1>1
<1> QED
  BY <1>2 DEF touched

\* A step that leaves the page table alone answers for a page that is in it, or
\* for page 0.
LEMMA HitKeepsComplete ==
  ASSUME TypeOK, TableComplete, page \in Pages, NEW frame, LoopBody(frame),
         UNCHANGED <<page_table, next_table_pos>>, page = 0 \/ InPageTable
  PROVE  TableComplete'
  BY TouchedGrows DEF TableComplete, InPageTable, Holds

\* Every step keeps the page table complete.
LEMMA StepKeepsComplete ==
  ASSUME Inv, TableComplete, Next
  PROVE  TableComplete'
<1>1. TypeOK /\ page \in Pages /\ TableInv /\ TLBGood
  BY CurrentPage DEF Inv, TypeOK, CommonTypeOK
<1>2. CASE TLBHit
  <2>1. PICK i \in DOMAIN TLB :
          /\ FirstHolding(TLB, next_tlb_pos, page, i)
          /\ UNCHANGED <<page_table, next_table_pos>>
          /\ LoopBody(TLB[i].frame_num)
    BY <1>2 DEF TLBHit
  <2>2. page = 0 \/ InPageTable
    <3>1. i \in 0 .. TLBEntryMax - 1 /\ TLB[i].page_num = page /\ Good(TLB[i])
      BY <1>1, <2>1 DEF TypeOK, CommonTypeOK, TLBTypeOK, FirstHolding, TLBGood
    <3>2. CASE TLB[i] = ZeroEntry
      BY <3>1, <3>2 DEF ZeroEntry
    <3>3. CASE TLB[i].frame_num \in 0 .. next_pos - 1 /\ Sound(TLB[i])
      BY <1>1, <3>1, <3>3 DEF Sound, TableInv, TableOrdered, InPageTable, Holds
    <3> QED
      BY <3>1, <3>2, <3>3 DEF Good
  <2> QED
    BY <1>1, <2>1, <2>2, HitKeepsComplete
<1>3. CASE PageTableHit
  <2>1. PICK i \in DOMAIN page_table :
          /\ FirstHolding(page_table, next_table_pos, page, i)
          /\ UNCHANGED <<page_table, next_table_pos>>
          /\ LoopBody(page_table[i].frame_num)
    BY <1>3 DEF PageTableHit
  <2>2. InPageTable
    BY <2>1 DEF FirstHolding, InPageTable, Holds
  <2> QED
    BY <1>1, <2>1, <2>2, HitKeepsComplete
<1>4. CASE PageFault
  <2>1. next_pos \in Nat /\ next_table_pos = next_pos
    BY <1>1 DEF TableInv, TablesTypeOK, TableOrdered
  <2>2. next_pos < FrameMax /\ next_pos < PTEntryMax
    BY <1>1, <1>4, <2>1, MissingPage, EnoughFrames, SizesAssumption
       DEF PageFault, InPageTable
  <2>3. /\ next_table_pos' = next_pos + 1
        /\ page_table'[next_pos].page_num = page
        /\ \A i \in 0 .. next_pos - 1 : page_table'[i] = page_table[i]
    BY <1>1, <1>4, <2>1, <2>2, SizesAssumption
       DEF PageFault, ReadStoreFifo, LoadNextFrame, TableInv, TablesTypeOK
  <2>4. \A i \in 0 .. next_table_pos' - 1 : i = next_pos \/ i \in 0 .. next_pos - 1
    BY <2>1, <2>3
  <2>5. \A i \in 0 .. next_pos - 1 : i \in 0 .. next_table_pos' - 1
    BY <2>1, <2>3
  <2>6. next_pos \in 0 .. next_table_pos' - 1
    BY <2>1, <2>3
  <2>7. touched' = touched \union {page}
    BY <1>1, <1>4, TouchedGrows DEF PageFault
  <2> QED
    BY <2>1, <2>3, <2>4, <2>5, <2>6, <2>7 DEF TableComplete, Holds
<1> QED
  BY <1>2, <1>3, <1>4 DEF Next

\* The faults of main.c are the pages in its page table, one each.
LEMMA FaultsAreTablePages ==
  ASSUME Inv, TableComplete
  PROVE  OneFaultPerPageButZero
<1> DEFINE loaded == (touched \ {0}) \union
                       {p \in {0} : Holds(page_table, next_table_pos, p)}
           pageAt == [i \in 0 .. next_pos - 1 |-> page_table[i].page_num]
<1>1. next_pos \in Nat /\ next_table_pos = next_pos /\ page_faults = next_pos
  BY DEF Inv, TableInv, TablesTypeOK, TableOrdered
<1>2. \A i \in 0 .. next_pos - 1 : page_table[i].page_num \in loaded
  BY <1>1 DEF TableComplete, Holds
<1>3. \A p \in loaded : \E i \in 0 .. next_pos - 1 : page_table[i].page_num = p
  BY <1>1 DEF TableComplete, Holds
<1>4. \A i, j \in 0 .. next_pos - 1 :
        page_table[i].page_num = page_table[j].page_num => i = j
  BY <1>1 DEF Inv, TableInv, TableDistinct
<1>5. pageAt \in Surjection(0 .. next_pos - 1, loaded)
      /\ pageAt \in Injection(0 .. next_pos - 1, loaded)
  <2> HIDE DEF loaded
  <2> QED
    BY <1>2, <1>3, <1>4 DEF Surjection, Injection, IsInjective
<1>6. IsFiniteSet(0 .. next_pos - 1) /\ Cardinality(0 .. next_pos - 1) = next_pos
  BY <1>1, FS_Interval
<1>7. Cardinality(loaded) = next_pos
  <2> HIDE DEF loaded, pageAt
  <2> QED
    BY <1>5, <1>6, FS_Surjection
<1> QED
  BY <1>1, <1>7 DEF OneFaultPerPageButZero

\* A page other than 0 faults exactly once in main.c, for every number of pages
\* and every address file; page 0 faults if and only if it gets into the table.
THEOREM Faults == Spec => []OneFaultPerPageButZero
<1>1. Init => TableComplete
  BY DEF Init, CommonInit, TableComplete, touched
<1>2. Inv /\ TableComplete /\ [Next]_vars => TableComplete'
  <2> SUFFICES ASSUME TableComplete, UNCHANGED vars PROVE TableComplete'
    BY StepKeepsComplete
  <2> QED
    BY DEF vars, commonVars, TableComplete, Holds, touched
<1>3. Inv /\ TableComplete => OneFaultPerPageButZero
  BY FaultsAreTablePages
<1> QED
  BY Invariance, <1>1, <1>2, <1>3, PTL DEF Spec
-----------------------------------------------------------------------------
\* The slots TLBInsert() has not reached hold no page but 0.
TLBEmptyBehind ==
  \A k \in next_tlb_pos .. TLBEntryMax - 1 : TLB[k].page_num = 0

\* The slot an entry comes from when the shift starts at s.
Source(s, i) == IF i >= s THEN i + 1 ELSE i

\* Where the shift starts when page p is inserted: where it is found, nowhere
\* while there is room, at the front of a full TLB.
StartsAt(s, p) ==
  \/ /\ s \in 0 .. next_tlb_pos - 1
     /\ TLB[s].page_num = p
  \/ /\ ~Holds(TLB, next_tlb_pos, p)
     /\ room
     /\ s = TLBEntryMax
  \/ /\ ~Holds(TLB, next_tlb_pos, p)
     /\ ~room
     /\ s = 0

\* A shift that starts at s and an insertion behind it.
Shifted(s, p) ==
  /\ next_tlb_pos' = IF room THEN next_tlb_pos + 1 ELSE next_tlb_pos
  /\ TLB'[next_tlb_pos' - 1].page_num = p
  /\ \A i \in 0 .. next_tlb_pos' - 2 : TLB'[i] = TLB[Source(s, i)]

\* A page that is in the TLB has a first entry there.
Searched(p) ==
  Holds(TLB, next_tlb_pos, p) =>
    \E i \in DOMAIN TLB : FirstHolding(TLB, next_tlb_pos, p, i)

\* The start of the shift is one of the three.
LEMMA StartFound ==
  ASSUME NEW p \in Pages, Searched(p)
  PROVE  StartsAt(ShiftFrom(p), p)
<1>1. CASE Holds(TLB, next_tlb_pos, p)
  <2>1. FirstHolding(TLB, next_tlb_pos, p, ShiftFrom(p))
    BY <1>1 DEF ShiftFrom, Searched
  <2> QED
    BY <2>1 DEF FirstHolding, StartsAt
<1>2. CASE ~Holds(TLB, next_tlb_pos, p)
  BY <1>2 DEF ShiftFrom, StartsAt
<1> QED
  BY <1>1, <1>2

\* TLBInsert() is such a shift, and the slots behind stay empty.
LEMMA InsertShifts ==
  ASSUME TLBTypeOK, TLBEmptyBehind, NEW p \in Pages, Searched(p),
         NEW frame \in Frames, TLBInsert(p, frame)
  PROVE  Shifted(ShiftFrom(p), p) /\ TLBEmptyBehind'
<1> DEFINE s == ShiftFrom(p)
           new == [page_num |-> p, frame_num |-> frame]
<1>1. /\ next_tlb_pos \in 0 .. TLBEntryMax /\ DOMAIN TLB = 0 .. TLBEntryMax - 1
      /\ TLBEntryMax \in Nat \ {0}
  BY SizesAssumption DEF TLBTypeOK
<1>2. s \in 0 .. TLBEntryMax
  BY <1>1, StartFound DEF StartsAt
<1>3. /\ TLB' = [ShiftDown(s) EXCEPT ![InsertAt] = new]
      /\ next_tlb_pos' = IF room THEN next_tlb_pos + 1 ELSE next_tlb_pos
  BY DEF TLBInsert
<1>4. InsertAt = next_tlb_pos' - 1 /\ InsertAt \in 0 .. TLBEntryMax - 1
  BY <1>1, <1>3 DEF InsertAt, room
<1> HIDE DEF s, new
<1>5. DOMAIN ShiftDown(s) = 0 .. TLBEntryMax - 1
  BY <1>1 DEF ShiftDown
<1>6. TLB'[InsertAt] = new
  BY <1>3, <1>4, <1>5
<1>7. \A k \in 0 .. TLBEntryMax - 1 : k # InsertAt =>
        TLB'[k] = IF k >= s /\ k < TLBEntryMax - 1 THEN TLB[k + 1] ELSE TLB[k]
  BY <1>1, <1>3, <1>5 DEF ShiftDown
<1>8. ASSUME NEW i \in 0 .. next_tlb_pos' - 2
      PROVE  TLB'[i] = TLB[Source(s, i)]
  <2>1. i \in 0 .. TLBEntryMax - 1 /\ i # InsertAt /\ i < TLBEntryMax - 1
    BY <1>1, <1>3, <1>4 DEF room
  <2> QED
    BY <1>7, <2>1 DEF Source
<1>9. ASSUME NEW k \in next_tlb_pos' .. TLBEntryMax - 1
      PROVE  TLB'[k].page_num = 0
  <2>1. /\ k \in 0 .. TLBEntryMax - 1 /\ k # InsertAt
        /\ k \in next_tlb_pos .. TLBEntryMax - 1
        /\ k < TLBEntryMax - 1 => k + 1 \in next_tlb_pos .. TLBEntryMax - 1
    BY <1>1, <1>3, <1>4 DEF room
  <2> QED
    BY <1>7, <2>1 DEF TLBEmptyBehind
<1>10. TLBEmptyBehind'
  BY <1>9 DEF TLBEmptyBehind
<1>11. new.page_num = p
  BY DEF new
<1> QED
  BY <1>3, <1>4, <1>6, <1>8, <1>10, <1>11 DEF Shifted, s

\* No page but 0 has two entries.
LEMMA OneEntryPerPage ==
  ASSUME TypeOK, TLBIsRecencyQueue,
         NEW i \in 0 .. next_tlb_pos - 1, NEW j \in 0 .. next_tlb_pos - 1,
         TLB[i].page_num = TLB[j].page_num, TLB[i].page_num # 0
  PROVE  i = j
<1>1. /\ i \in 0 .. TLBEntryMax - 1 /\ TLBEntryMax \in Nat
      /\ TLB[i].page_num \in Pages
  BY SizesAssumption DEF TypeOK, CommonTypeOK, TLBTypeOK, Entry
<1>2. last_use[TLB[i].page_num] \in Int
  BY <1>1 DEF TypeOK, CommonTypeOK, CountersTypeOK
<1>3. ~(i < j)
  <2> SUFFICES ASSUME i < j PROVE FALSE
    OBVIOUS
  <2>1. i \in 0 .. j - 1
    OBVIOUS
  <2> QED
    BY <1>2, <2>1 DEF TLBIsRecencyQueue
<1>4. ~(j < i)
  <2> SUFFICES ASSUME j < i PROVE FALSE
    OBVIOUS
  <2>1. j \in 0 .. i - 1
    OBVIOUS
  <2> QED
    BY <1>2, <2>1 DEF TLBIsRecencyQueue
<1> QED
  BY <1>3, <1>4

\* The insertion of the page that is served keeps the queue: the entries before
\* it keep their order, none of them is of the same page, and what drops out is
\* the oldest.
LEMMA InsertKeepsQueue ==
  ASSUME TypeOK, TLBEmptyBehind, TLBIsRecencyQueue, page \in Pages,
         NEW s, StartsAt(s, page), Shifted(s, page), TLBTypeOK',
         last_use' = [last_use EXCEPT ![page] = address_c + 1]
  PROVE  TLBIsRecencyQueue'
<1> DEFINE last == next_tlb_pos' - 1
           of(i) == TLB[i].page_num
<1>1. /\ next_tlb_pos \in 0 .. TLBEntryMax /\ TLBEntryMax \in Nat \ {0}
      /\ \A i \in 0 .. TLBEntryMax - 1 : of(i) \in Pages
      /\ \A p \in Pages : last_use[p] \in 0 .. address_c
      /\ address_c \in Nat
      /\ last_use \in [Pages -> 0 .. address_c]
  BY SizesAssumption
     DEF TypeOK, CommonTypeOK, TLBTypeOK, CountersTypeOK, Entry
<1>2. /\ last \in 0 .. TLBEntryMax - 1 /\ next_tlb_pos' = last + 1
      /\ s \in 0 .. TLBEntryMax
      /\ next_tlb_pos - 1 <= last /\ last <= next_tlb_pos
      /\ ~room => last = next_tlb_pos - 1
      /\ room => last = next_tlb_pos
  BY <1>1 DEF Shifted, StartsAt, room
<1>3. \A i \in 0 .. last - 1 : TLB'[i].page_num = of(Source(s, i))
  BY <1>1, <1>2 DEF Shifted
<1>4. TLB'[last].page_num = page
  BY DEF Shifted
<1>5. /\ last_use'[page] = address_c + 1
      /\ \A p \in Pages \ {page} : last_use'[p] = last_use[p]
  BY <1>1
<1> HIDE DEF last
<1>6. \A i \in 0 .. last - 1 :
        /\ Source(s, i) \in 0 .. last
        /\ Source(s, i) # s
        /\ \A j \in 0 .. i - 1 : Source(s, j) < Source(s, i)
  BY <1>2 DEF Source
<1>7. ASSUME NEW i \in 0 .. last - 1, of(Source(s, i)) # 0
      PROVE  /\ Source(s, i) \in 0 .. next_tlb_pos - 1
             /\ of(Source(s, i)) # page
             /\ of(Source(s, i)) \in Pages
             /\ last_use'[of(Source(s, i))] = last_use[of(Source(s, i))]
  <2>1. Source(s, i) \in 0 .. next_tlb_pos - 1
    <3> SUFFICES ASSUME Source(s, i) \notin 0 .. next_tlb_pos - 1 PROVE FALSE
      OBVIOUS
    <3>1. Source(s, i) \in next_tlb_pos .. TLBEntryMax - 1
      BY <1>1, <1>2, <1>6
    <3> QED
      BY <1>7, <3>1 DEF TLBEmptyBehind
  <2>2. of(Source(s, i)) # page
    <3>1. CASE s \in 0 .. next_tlb_pos - 1 /\ of(s) = page
      BY <1>6, <1>7, <2>1, <3>1, OneEntryPerPage
    <3>2. CASE ~Holds(TLB, next_tlb_pos, page)
      BY <2>1, <3>2 DEF Holds
    <3> QED
      BY <3>1, <3>2 DEF StartsAt
  <2>3. of(Source(s, i)) \in Pages
    BY <1>1, <1>2, <1>6
  <2> QED
    BY <1>5, <2>1, <2>2, <2>3
<1>8. ASSUME NEW p \in Pages, p # page, ~Holds(TLB', next_tlb_pos', p),
             Holds(TLB, next_tlb_pos, p)
      PROVE  s = 0 /\ next_tlb_pos > 0 /\ of(0) = p
  <2>1. PICK k \in 0 .. next_tlb_pos - 1 : of(k) = p
    BY <1>8 DEF Holds
  <2>2. \A i \in 0 .. last : TLB'[i].page_num # p
    BY <1>2, <1>8 DEF Holds
  <2>3. \A i \in 0 .. last - 1 : Source(s, i) # k
    BY <1>2, <1>3, <2>1, <2>2
  <2>4. k = s
    <3>1. CASE k < s
      <4>1. k \in 0 .. last - 1
        BY <1>1, <1>2, <3>1 DEF StartsAt, room
      <4> QED
        BY <1>2, <2>3, <3>1, <4>1 DEF Source
    <3>2. CASE k > s
      <4>1. k - 1 \in 0 .. last - 1 /\ k - 1 >= s
        BY <1>2, <3>2
      <4> QED
        BY <1>2, <2>3, <4>1 DEF Source
    <3> QED
      BY <1>2, <3>1, <3>2
  <2>5. s = 0
    <3>1. ~(s \in 0 .. next_tlb_pos - 1 /\ of(s) = page)
      BY <1>8, <2>1, <2>4
    <3>2. s # TLBEntryMax
      BY <1>1, <2>4
    <3> QED
      BY <3>1, <3>2 DEF StartsAt
  <2> QED
    BY <1>1, <2>1, <2>4, <2>5
<1>9. ASSUME NEW i \in 0 .. last, TLB'[i].page_num # 0
      PROVE  /\ \A j \in 0 .. i - 1 : TLB'[j].page_num # 0 =>
                  last_use'[TLB'[j].page_num] < last_use'[TLB'[i].page_num]
             /\ \A p \in touched' \ {0} : ~Holds(TLB', next_tlb_pos', p) =>
                  last_use'[p] < last_use'[TLB'[i].page_num]
  <2>1. ASSUME NEW j \in 0 .. i - 1, TLB'[j].page_num # 0
        PROVE  last_use'[TLB'[j].page_num] < last_use'[TLB'[i].page_num]
    <3>1. j \in 0 .. last - 1 /\ of(Source(s, j)) # 0
      BY <1>2, <1>3, <2>1
    <3>2. CASE i = last
      BY <1>1, <1>3, <1>4, <1>5, <1>7, <3>1, <3>2
    <3>3. CASE i \in 0 .. last - 1
      <4>1. /\ of(Source(s, i)) # 0
            /\ Source(s, i) \in 0 .. next_tlb_pos - 1
            /\ last_use'[of(Source(s, i))] = last_use[of(Source(s, i))]
        BY <1>3, <1>7, <1>9, <3>3
      <4>2. /\ Source(s, j) \in 0 .. Source(s, i) - 1
            /\ last_use'[of(Source(s, j))] = last_use[of(Source(s, j))]
        BY <1>6, <1>7, <3>1, <3>3, <4>1
      <4>3. last_use[of(Source(s, j))] < last_use[of(Source(s, i))]
        BY <3>1, <4>1, <4>2 DEF TLBIsRecencyQueue
      <4> QED
        BY <1>3, <3>1, <3>3, <4>1, <4>2, <4>3
    <3> QED
      BY <1>2, <3>2, <3>3
  <2>2. ASSUME NEW p \in touched' \ {0}, ~Holds(TLB', next_tlb_pos', p)
        PROVE  last_use'[p] < last_use'[TLB'[i].page_num]
    <3>1. p \in Pages /\ p # page
      BY <1>2, <1>4, <2>2 DEF touched, Holds
    <3>2. last_use'[p] = last_use[p] /\ p \in touched
      BY <1>5, <2>2, <3>1 DEF touched
    <3>3. CASE i = last
      BY <1>1, <1>4, <1>5, <3>1, <3>2, <3>3
    <3>4. CASE i \in 0 .. last - 1
      <4>1. /\ of(Source(s, i)) # 0
            /\ Source(s, i) \in 0 .. next_tlb_pos - 1
            /\ last_use'[of(Source(s, i))] = last_use[of(Source(s, i))]
        BY <1>3, <1>7, <1>9, <3>4
      <4>2. last_use[p] < last_use[of(Source(s, i))]
        <5>1. CASE ~Holds(TLB, next_tlb_pos, p)
          BY <2>2, <3>2, <4>1, <5>1 DEF TLBIsRecencyQueue
        <5>2. CASE Holds(TLB, next_tlb_pos, p)
          <6>1. s = 0 /\ of(0) = p
            BY <1>8, <2>2, <3>1, <5>2
          <6>2. 0 \in 0 .. Source(s, i) - 1
            BY <1>6, <3>4, <4>1, <6>1
          <6> QED
            BY <2>2, <4>1, <6>1, <6>2 DEF TLBIsRecencyQueue
        <5> QED
          BY <5>1, <5>2
      <4> QED
        BY <1>3, <3>2, <3>4, <4>1, <4>2
    <3> QED
      BY <1>2, <3>3, <3>4
  <2> QED
    BY <2>1, <2>2
<1>10. next_tlb_pos' - 1 = last
  BY DEF last
<1> QED
  BY <1>9, <1>10 DEF TLBIsRecencyQueue

\* Every action inserts the page it serves, in a frame that exists, and after a
\* search of the TLB.
LEMMA NextInserts ==
  ASSUME Inv, Next
  PROVE  /\ Searched(page)
         /\ \E frame \in Frames : TLBInsert(page, frame) /\ LoopBody(frame)
<1>1. TLB \in [0 .. TLBEntryMax - 1 -> Entry]
  BY DEF Inv, TypeOK, CommonTypeOK, TLBTypeOK
<1>2. page_table \in [0 .. PTEntryMax - 1 -> Entry]
  BY DEF Inv, TypeOK, CommonTypeOK, TablesTypeOK
<1>3. CASE TLBHit
  BY <1>1, <1>3 DEF TLBHit, Entry, Searched
<1>4. CASE PageTableHit
  BY <1>2, <1>4 DEF PageTableHit, Entry, Searched, InTLB
<1>5. CASE PageFault
  <2>1. TableInv /\ page \in Pages /\ next_pos \in Nat
    BY CurrentPage DEF Inv, TypeOK, CommonTypeOK, TableInv, TablesTypeOK
  <2>2. next_pos < FrameMax /\ next_pos' - 1 \in Frames
    BY <1>5, <2>1, MissingPage, EnoughFrames, SizesAssumption
       DEF PageFault, InPageTable, ReadStoreFifo, LoadNextFrame, Frames
  <2> QED
    BY <1>5, <2>2 DEF PageFault, Searched, InTLB
<1> QED
  BY <1>3, <1>4, <1>5 DEF Next

\* The TLB of main.c is, page 0 apart, the queue of the most recently used
\* pages, for every TLB size and address file, in spite of the zero entries.
THEOREM RecencyQueue == Spec => []TLBIsRecencyQueue
<1> DEFINE QueueInv == TLBEmptyBehind /\ TLBIsRecencyQueue
<1>1. Init => QueueInv
  BY SizesAssumption
     DEF Init, CommonInit, TLBEmptyBehind, TLBIsRecencyQueue, ZeroEntry
<1>2. Inv /\ Inv' /\ QueueInv /\ [Next]_vars => QueueInv'
  <2> SUFFICES ASSUME Inv, Inv', QueueInv, [Next]_vars PROVE QueueInv'
    OBVIOUS
  <2>1. CASE UNCHANGED vars
    BY <2>1 DEF vars, commonVars, TLBEmptyBehind, TLBIsRecencyQueue, touched,
                Holds
  <2>2. CASE Next
    <3>1. PICK frame \in Frames : TLBInsert(page, frame) /\ LoopBody(frame)
      BY <2>2, NextInserts
    <3>6. Searched(page)
      BY <2>2, NextInserts
    <3>2. page \in Pages /\ TypeOK /\ TLBTypeOK /\ TLBTypeOK'
      BY CurrentPage DEF Inv, TypeOK, CommonTypeOK
    <3>3. StartsAt(ShiftFrom(page), page)
      BY <3>2, <3>6, StartFound
    <3>4. Shifted(ShiftFrom(page), page) /\ TLBEmptyBehind'
      BY <3>1, <3>2, <3>6, InsertShifts
    <3>5. last_use' = [last_use EXCEPT ![page] = address_c + 1]
      BY <3>1 DEF LoopBody
    <3> QED
      BY <3>2, <3>3, <3>4, <3>5, InsertKeepsQueue
  <2> QED
    BY <2>1, <2>2
<1>3. QueueInv => TLBIsRecencyQueue
  OBVIOUS
<1> HIDE DEF QueueInv
<1> QED
  BY <1>1, <1>2, <1>3, Invariance, PTL DEF Spec
=============================================================================
