------------------------------ MODULE VMCommon ------------------------------
(***************************************************************************)
(* What the three programs of Project 3 (main.c, main_pr1.c, main_pr2.c)   *)
(* have in common: the tables, the counters, the loop of main() over the   *)
(* address file, and the parts of getPage() that are the same text in all  *)
(* of them.  VMManager, VMFifo and VMLru extend this module with what each *)
(* program does differently.                                               *)
(*                                                                         *)
(* A frame holds one whole page of BACKING_STORE.bin or has never been     *)
(* written, so the contents of a frame are a page number or Blank; a byte  *)
(* value is named by where it lies in the backing store, <<page, offset>>. *)
(***************************************************************************)
EXTENDS Integers, FiniteSets

CONSTANTS
  NumPages,     \* pages a logical address can name (256: a uint8_t)
  PageSize,     \* PAGE_SIZE = FRAME_SIZE = INPUT_BYTE
  FrameMax,     \* FRAME_MAX
  PTEntryMax,   \* PT_ENTRY_MAX
  TLBEntryMax,  \* TLB_ENTRY_MAX
  Addresses,    \* the integers that may stand in the address file
  FileLens      \* the numbers of lines the address file may have

ASSUME SizesAssumption ==
  /\ NumPages \in Nat \ {0}
  /\ PageSize \in Nat \ {0}
  /\ FrameMax \in Nat \ {0}
  /\ PTEntryMax \in Nat \ {0}
  /\ TLBEntryMax \in Nat \ {0}

ASSUME FileAssumption ==
  /\ Addresses \subseteq Int
  /\ Addresses # {}
  /\ FileLens \subseteq Nat

Pages   == 0 .. NumPages - 1
Offsets == 0 .. PageSize - 1
Frames  == 0 .. FrameMax - 1
Blank   == -1

\* page_frame: an entry of the TLB or of the page table
Entry == [page_num : Pages, frame_num : Frames]
ZeroEntry == [page_num |-> 0, frame_num |-> 0]

VARIABLES
  phy_memory,      \* frame -> the page it holds
  TLB,             \* 0..TLBEntryMax-1 -> Entry
  page_table,      \* 0..PTEntryMax-1 -> Entry
  next_pos, next_table_pos, next_tlb_pos,
  address_c, page_faults, hits,
  log_add,         \* the number the last fscanf() stored
  eof,             \* feof(input)
  unread,          \* numbers fscanf() has not reached yet
  out,             \* the last line of out1.txt, out2.txt and out3.txt
  \* history: the size of the file, whether its last line ends in a newline,
  \* and the value address_c had when each page was last asked for
  lines, newline, last_use

commonVars == <<phy_memory, TLB, page_table, next_pos, next_table_pos,
                next_tlb_pos, address_c, page_faults, hits, log_add, eof,
                unread, out, lines, newline, last_use>>

TablesTypeOK ==
  /\ phy_memory \in [Frames -> Pages \union {Blank}]
  /\ page_table \in [0 .. PTEntryMax - 1 -> Entry]
  /\ next_pos \in 0 .. FrameMax
  /\ next_table_pos \in 0 .. PTEntryMax

TLBTypeOK ==
  /\ TLB \in [0 .. TLBEntryMax - 1 -> Entry]
  /\ next_tlb_pos \in 0 .. TLBEntryMax

CountersTypeOK ==
  /\ address_c \in Nat
  /\ page_faults \in 0 .. address_c
  /\ hits \in 0 .. address_c
  /\ last_use \in [Pages -> 0 .. address_c]

FilesTypeOK ==
  /\ log_add \in Addresses
  /\ eof \in BOOLEAN
  /\ unread \in Nat
  /\ lines \in FileLens
  /\ newline \in BOOLEAN
  /\ out \in [virtual  : Addresses \union {0},
              physical : 0 .. FrameMax * PageSize - 1,
              val      : (Pages \union {Blank}) \X Offsets]

CommonTypeOK == TablesTypeOK /\ TLBTypeOK /\ CountersTypeOK /\ FilesTypeOK

-----------------------------------------------------------------------------
\* logical_address >> 8 & 0xFF in a uint8_t, and logical_address & 0xFF: the
\* shift of a negative int is arithmetic, so both are floor operations
PageOf(a)   == (a \div PageSize) % NumPages
OffsetOf(a) == a % PageSize

page == PageOf(log_add)

\* for (i = 0; i < n; i++) if (table[i].page_num == p) break;
Holds(table, n, p) == \E i \in 0 .. n - 1 : table[i].page_num = p
FirstHolding(table, n, p, i) ==
  /\ i \in 0 .. n - 1
  /\ table[i].page_num = p
  /\ \A j \in 0 .. i - 1 : table[j].page_num # p

\* Faulty variant: the search stops one slot early (i < n - 1).
InPageTableButLast ==
  \E i \in 0 .. next_table_pos - 2 : page_table[i].page_num = page

InTLB       == Holds(TLB, next_tlb_pos, page)
InPageTable == Holds(page_table, next_table_pos, page)

\* the globals as C initialises them, and the first fscanf() of main()
CommonInit ==
  /\ phy_memory = [f \in Frames |-> Blank]
  /\ TLB = [i \in 0 .. TLBEntryMax - 1 |-> ZeroEntry]
  /\ page_table = [i \in 0 .. PTEntryMax - 1 |-> ZeroEntry]
  /\ next_pos = 0 /\ next_table_pos = 0 /\ next_tlb_pos = 0
  /\ address_c = 0 /\ page_faults = 0 /\ hits = 0
  /\ lines \in FileLens
  /\ newline \in BOOLEAN
  /\ log_add \in Addresses
  /\ unread = IF lines = 0 THEN 0 ELSE lines - 1
  /\ eof = (lines = 0 \/ (lines = 1 /\ ~newline))
  /\ out = [virtual |-> 0, physical |-> 0, val |-> <<Blank, 0>>]
  /\ last_use = [p \in Pages |-> 0]

\* Faulty variant: the end of the file is seen behind the digits of every last
\* line, ended or not.
fscanfEager ==
  /\ log_add' \in Addresses
  /\ unread' = IF unread = 0 THEN 0 ELSE unread - 1
  /\ eof' = (unread <= 1)

\* fscanf(input, "%d", &log_add): the end of file is seen either while looking
\* for a number that is not there, or right behind the last digit
fscanf ==
  IF unread = 0
  THEN eof' = TRUE /\ UNCHANGED <<log_add, unread>>
  ELSE /\ log_add' \in Addresses
       /\ unread' = unread - 1
       /\ eof' = (unread = 1 /\ ~newline)

\* the end of getPage(), which reads phy_memory after readStore() has run
PrintTranslation(frame) ==
  out' = [virtual  |-> log_add,
          physical |-> frame * PageSize + OffsetOf(log_add),
          val      |-> <<phy_memory'[frame], OffsetOf(log_add)>>]

\* the body of main()'s loop around the search and the TLB update
LoopBody(frame) ==
  /\ ~eof
  /\ address_c' = address_c + 1
  /\ PrintTranslation(frame)
  /\ fscanf
  /\ last_use' = [last_use EXCEPT ![page] = address_c + 1]
  /\ UNCHANGED <<lines, newline>>

\* Faulty variants: the frame number is recorded after next_pos has grown; the
\* slot is not counted.
LoadRecordsNext(p) ==
  /\ phy_memory' = [phy_memory EXCEPT ![next_pos] = p]
  /\ page_table' = [page_table EXCEPT ![next_table_pos] =
                      [page_num |-> p, frame_num |-> next_pos + 1]]
  /\ next_pos' = next_pos + 1
  /\ next_table_pos' = next_table_pos + 1

LoadForgetsSlot(p) ==
  /\ phy_memory' = [phy_memory EXCEPT ![next_pos] = p]
  /\ page_table' = [page_table EXCEPT ![next_table_pos] =
                      [page_num |-> p, frame_num |-> next_pos]]
  /\ next_pos' = next_pos + 1
  /\ UNCHANGED next_table_pos

\* the first branch of readStore(), the same in the three programs
LoadNextFrame(p) ==
  /\ phy_memory' = [phy_memory EXCEPT ![next_pos] = p]
  /\ page_table' = [page_table EXCEPT ![next_table_pos] =
                      [page_num |-> p, frame_num |-> next_pos]]
  /\ next_pos' = next_pos + 1
  /\ next_table_pos' = next_table_pos + 1

\* readStore() of main.c and of main_pr1.c.  The second branch moves every
\* frame and every table entry down one place; accesses behind the end of
\* page_table, which main_pr1.c would make, are left out of it.
ReadStoreFifo(p) ==
  IF next_pos < FrameMax
  THEN LoadNextFrame(p)
  ELSE /\ phy_memory' = [f \in Frames |-> IF f = FrameMax - 1 THEN p
                                          ELSE phy_memory[f + 1]]
       /\ page_table' =
            [i \in DOMAIN page_table |->
               IF i = FrameMax - 1
               THEN [page_num |-> p, frame_num |-> next_pos - 1]
               ELSE IF i + 1 < FrameMax /\ i + 1 \in DOMAIN page_table
                    THEN page_table[i + 1] ELSE page_table[i]]
       /\ UNCHANGED <<next_pos, next_table_pos>>


-----------------------------------------------------------------------------
\* Vocabulary of the properties.

touched == {p \in Pages : last_use[p] > 0}

\* the byte the backing store has at a logical address
ByteAt(a) == <<PageOf(a), OffsetOf(a)>>

\* entry e names a frame that really holds its page
Sound(e) == phy_memory[e.frame_num] = e.page_num

-----------------------------------------------------------------------------
\* Properties stated of more than one of the programs.

\* Every line of out3.txt is the byte the backing store has at the logical
\* address beside it in out1.txt, whichever of the TLB, the page table and the
\* store the frame came from.
TranslationCorrect == address_c > 0 => out.val = ByteAt(out.virtual)

\* The branch of readStore() that replaces a page ("physical memory full - use
\* FIFO for replacement") never runs in main.c and main_pr1.c: while any page is
\* still to be loaded, a frame and a table slot are free.
ReplacementUnreachable ==
  \A p \in Pages :
    ~Holds(page_table, next_table_pos, p) =>
      next_pos < FrameMax /\ next_table_pos < PTEntryMax

\* When main() leaves its loop it has translated every line of the file,
\* except a last line that does not end in a newline: fscanf() meets the end of
\* the file behind its digits and the loop test drops the number.
OnlyUnterminatedLineDropped ==
  eof => address_c = IF newline \/ lines = 0 THEN lines ELSE lines - 1
=============================================================================
