---------------------------- MODULE VMTableProofs ----------------------------
(***************************************************************************)
(* Lemmas about the parts main.c and main_pr1.c share, for every number of *)
(* pages and any memory and page table that are at least as large.         *)
(***************************************************************************)
EXTENDS VMCommon, FiniteSetTheorems, TLAPS

\* One page per frame, in the order of loading, recorded under its own number.
TableOrdered ==
  /\ next_table_pos = next_pos
  /\ page_faults = next_pos
  /\ \A i \in 0 .. next_pos - 1 :
       /\ page_table[i].frame_num = i
       /\ phy_memory[i] = page_table[i].page_num

\* No page is in the table twice.
TableDistinct ==
  \A i, j \in 0 .. next_table_pos - 1 :
    page_table[i].page_num = page_table[j].page_num => i = j

TableInv == TablesTypeOK /\ TableOrdered /\ TableDistinct

-----------------------------------------------------------------------------
\* The cast of a shifted address to uint8_t is a page, its low byte an offset.
LEMMA PageOffsetType ==
  ASSUME NEW a \in Int
  PROVE  PageOf(a) \in Pages /\ OffsetOf(a) \in Offsets
<1>1. /\ NumPages \in Nat \ {0} /\ PageSize \in Nat \ {0}
      /\ a \div PageSize \in Int
  BY SizesAssumption
<1>2. \A x \in Int, n \in Nat \ {0} : x % n \in 0 .. n - 1
  OBVIOUS
<1> QED
  BY <1>1, <1>2 DEF PageOf, OffsetOf, Pages, Offsets

\* The page asked for is a page.
LEMMA CurrentPage == FilesTypeOK => page \in Pages
  BY FileAssumption, PageOffsetType DEF FilesTypeOK, page

\* A frame below the number of loaded frames is a frame.
LEMMA LoadedFrame ==
  ASSUME NEW n \in 0 .. FrameMax, NEW f \in 0 .. n - 1
  PROVE  f \in Frames
  BY SizesAssumption DEF Frames

\* A physical address lies inside physical memory.
LEMMA PhysicalType ==
  ASSUME NEW f \in Frames, NEW o \in Offsets
  PROVE  f * PageSize + o \in 0 .. FrameMax * PageSize - 1
<1>1. f \in Int /\ 0 <= f /\ f + 1 <= FrameMax /\ FrameMax \in Nat
  BY SizesAssumption DEF Frames
<1>2. PageSize \in Nat /\ o \in Int /\ 0 <= o /\ o < PageSize
  BY SizesAssumption DEF Offsets
<1>3. 0 <= f * PageSize /\ (f + 1) * PageSize <= FrameMax * PageSize
  BY <1>1, <1>2
<1>4. (f + 1) * PageSize = f * PageSize + PageSize
  BY <1>1, <1>2
<1> QED
  BY <1>1, <1>2, <1>3, <1>4

\* While some page is missing from the page table, fewer pages are in it than
\* there are: two of them would otherwise share a slot.
LEMMA MissingPage ==
  ASSUME TableInv, NEW p \in Pages, ~Holds(page_table, next_table_pos, p)
  PROVE  next_pos < NumPages
<1> SUFFICES ASSUME next_pos >= NumPages PROVE FALSE
  BY SizesAssumption DEF TableInv, TablesTypeOK
<1> DEFINE pageAt == [i \in 0 .. next_pos |->
                        IF i = next_pos THEN p ELSE page_table[i].page_num]
<1>1. next_pos \in Nat /\ next_table_pos = next_pos /\ NumPages \in Nat
  BY SizesAssumption DEF TableInv, TablesTypeOK, TableOrdered
<1>2. pageAt \in [0 .. next_pos -> Pages]
  <2>1. ASSUME NEW i \in 0 .. next_pos - 1
        PROVE  page_table[i].page_num \in Pages
    <3>1. i \in 0 .. PTEntryMax - 1
      BY <1>1, SizesAssumption DEF TableInv, TablesTypeOK
    <3>2. page_table[i] \in Entry
      BY <3>1 DEF TableInv, TablesTypeOK
    <3> QED
      BY <3>2 DEF Entry
  <2>2. \A i \in 0 .. next_pos : i = next_pos \/ i \in 0 .. next_pos - 1
    BY <1>1
  <2>3. \A i \in 0 .. next_pos :
          (IF i = next_pos THEN p ELSE page_table[i].page_num) \in Pages
    BY <2>1, <2>2
  <2> QED
    BY <2>3
<1>3. IsFiniteSet(0 .. next_pos) /\ Cardinality(0 .. next_pos) = next_pos + 1
  BY <1>1, FS_Interval
<1>4. IsFiniteSet(Pages) /\ Cardinality(Pages) = NumPages
  <2>1. NumPages - 1 \in Int /\ ~(0 > NumPages - 1)
        /\ (NumPages - 1) - 0 + 1 = NumPages
    BY SizesAssumption
  <2> QED
    BY <2>1, FS_Interval DEF Pages
<1>5. PICK i, j \in 0 .. next_pos : i # j /\ pageAt[i] = pageAt[j]
  <2>1. Cardinality(Pages) < Cardinality(0 .. next_pos)
    BY <1>1, <1>3, <1>4
  <2> HIDE DEF pageAt
  <2> QED
    BY <1>2, <1>3, <1>4, <2>1, FS_PigeonHole
<1>6. \A k \in 0 .. next_pos - 1 : page_table[k].page_num # p
  BY <1>1 DEF Holds
<1> QED
  BY <1>1, <1>5, <1>6 DEF TableInv, TableDistinct

\* Loading a missing page into the next frame keeps the tables in order.
LEMMA LoadKeepsTables ==
  ASSUME TableInv, page \in Pages, ~InPageTable,
         next_pos < FrameMax, next_pos < PTEntryMax,
         LoadNextFrame(page), page_faults' = page_faults + 1
  PROVE  TableInv'
<1> USE DEF TableInv, TablesTypeOK, TableOrdered
<1>1. next_pos \in Nat /\ next_table_pos = next_pos
  OBVIOUS
<1>2. next_pos \in Frames /\ next_pos \in 0 .. PTEntryMax - 1
  BY <1>1, SizesAssumption DEF Frames
<1>3. [page_num |-> page, frame_num |-> next_pos] \in Entry
  BY <1>2 DEF Entry
<1>4. TablesTypeOK'
  BY <1>1, <1>2, <1>3, SizesAssumption DEF LoadNextFrame
<1>5. TableOrdered'
  BY <1>1, <1>2, SizesAssumption DEF LoadNextFrame
<1>6. TableDistinct'
  BY <1>1, <1>2, SizesAssumption
     DEF LoadNextFrame, TableDistinct, InPageTable, Holds
<1> QED
  BY <1>4, <1>5, <1>6

-----------------------------------------------------------------------------
\* fscanf() leaves an address in log_add and a truth value in eof.
LEMMA ReadType ==
  ASSUME FilesTypeOK, fscanf, UNCHANGED newline
  PROVE  log_add' \in Addresses /\ eof' \in BOOLEAN /\ unread' \in Nat
<1>1. CASE unread = 0
  <2>1. eof' = TRUE /\ UNCHANGED <<log_add, unread>>
    BY <1>1 DEF fscanf
  <2> QED
    BY <2>1 DEF FilesTypeOK
<1>2. CASE unread # 0
  <2>1. /\ log_add' \in Addresses
        /\ unread' = unread - 1
        /\ eof' = (unread = 1 /\ ~newline)
    BY <1>2 DEF fscanf
  <2>2. eof' \in BOOLEAN
    BY <2>1
  <2>3. unread' \in Nat
    BY <1>2, <2>1 DEF FilesTypeOK
  <2> QED
    BY <2>1, <2>2, <2>3
<1> QED
  BY <1>1, <1>2

\* A round of main()'s loop keeps the types of the files, from whatever frame
\* the byte is read.
LEMMA LoopKeepsFiles ==
  ASSUME FilesTypeOK, TablesTypeOK', NEW frame \in Frames, LoopBody(frame)
  PROVE  FilesTypeOK'
<1>1. log_add \in Addresses /\ OffsetOf(log_add) \in Offsets
  BY FileAssumption, PageOffsetType DEF FilesTypeOK
<1>2. phy_memory'[frame] \in Pages \union {Blank}
  BY DEF TablesTypeOK
<1>3. frame * PageSize + OffsetOf(log_add) \in 0 .. FrameMax * PageSize - 1
  BY <1>1, PhysicalType
<1>4. out' \in [virtual  : Addresses \union {0},
                physical : 0 .. FrameMax * PageSize - 1,
                val      : (Pages \union {Blank}) \X Offsets]
  <2>1. <<phy_memory'[frame], OffsetOf(log_add)>>
          \in (Pages \union {Blank}) \X Offsets
    BY <1>1, <1>2
  <2> QED
    BY <1>1, <1>3, <2>1, Zenon DEF LoopBody, PrintTranslation
<1>5. fscanf /\ UNCHANGED <<lines, newline>>
  BY DEF LoopBody
<1>6. log_add' \in Addresses /\ eof' \in BOOLEAN /\ unread' \in Nat
  BY <1>5, ReadType
<1> QED
  BY <1>4, <1>5, <1>6, Zenon DEF FilesTypeOK

\* It adds one to address_c, and at most one to the other counters.
LEMMA LoopKeepsCounters ==
  ASSUME CountersTypeOK, FilesTypeOK, NEW frame, LoopBody(frame),
         page_faults' \in {page_faults, page_faults + 1},
         hits' \in {hits, hits + 1}
  PROVE  CountersTypeOK'
<1>1. page \in Pages
  BY CurrentPage
<1>2. address_c' = address_c + 1
      /\ last_use' = [last_use EXCEPT ![page] = address_c + 1]
  BY DEF LoopBody
<1>3. \A p \in Pages : last_use'[p] \in 0 .. address_c'
  BY <1>1, <1>2 DEF CountersTypeOK
<1>4. last_use' \in [Pages -> 0 .. address_c']
  BY <1>1, <1>2, <1>3 DEF CountersTypeOK
<1> QED
  BY <1>2, <1>4 DEF CountersTypeOK

\* The line it prints is right if the frame holds the page of the address.
LEMMA LoopPrintsRight ==
  ASSUME NEW frame, LoopBody(frame), phy_memory'[frame] = page
  PROVE  TranslationCorrect'
  BY DEF LoopBody, PrintTranslation, TranslationCorrect, ByteAt, page

\* Before the first line is printed all is as C initialises it.
LEMMA InitTables ==
  CommonInit => /\ CommonTypeOK
                /\ TableInv
                /\ TranslationCorrect
<1> SUFFICES ASSUME CommonInit
             PROVE  CommonTypeOK /\ TableInv /\ TranslationCorrect
  OBVIOUS
<1> USE SizesAssumption DEF CommonInit
<1>1. 0 \in Pages /\ 0 \in Frames /\ 0 \in Offsets
  BY DEF Pages, Frames, Offsets
<1>2. ZeroEntry \in Entry
  BY <1>1 DEF ZeroEntry, Entry
<1>3. TablesTypeOK
  BY <1>2 DEF TablesTypeOK
<1>4. TLBTypeOK
  BY <1>2 DEF TLBTypeOK
<1>5. CountersTypeOK
  BY DEF CountersTypeOK
<1>6. FilesTypeOK
  <2>1. unread \in Nat
    BY FileAssumption
  <2>2. eof \in BOOLEAN
    OBVIOUS
  <2>3. 0 \in 0 .. FrameMax * PageSize - 1
    BY <1>1, PhysicalType
  <2>4. <<Blank, 0>> \in (Pages \union {Blank}) \X Offsets
    BY <1>1
  <2>5. out \in [virtual  : Addresses \union {0},
                 physical : 0 .. FrameMax * PageSize - 1,
                 val      : (Pages \union {Blank}) \X Offsets]
    BY <2>3, <2>4, Zenon
  <2> QED
    BY <2>1, <2>2, <2>5, Zenon DEF FilesTypeOK
<1>7. TableInv
  BY <1>3 DEF TableInv, TableOrdered, TableDistinct
<1>8. TranslationCorrect
  BY DEF TranslationCorrect
<1> QED
  BY <1>3, <1>4, <1>5, <1>6, <1>7, <1>8 DEF CommonTypeOK
=============================================================================
