--------------------------- MODULE PageReplacement ---------------------------
(***************************************************************************)
(* lab09_ex1.c: the page faults of FIFO, LRU and optimal replacement on    *)
(* one reference string, one action per reference and algorithm.  The      *)
(* names tot_frames and total_frames, which the file uses for one thing,   *)
(* are one variable here, and so are tot_refs and total_refs.              *)
(***************************************************************************)
EXTENDS Integers, Sequences, FiniteSetsExt

CONSTANTS
  RefPages,     \* page numbers input_gen writes
  RefCounts,    \* how many references input.txt announces; fewer than 0 are 0
  Arguments,    \* values of argv[1]
  FirstSlots    \* what fptr, which nothing initialises, may hold at first

ASSUME PagesAreNumbers == RefPages \subseteq Nat
ASSUME CountsAreNumbers == RefCounts \subseteq Nat
ASSUME ArgumentsAreInts == Arguments \subseteq Int /\ FirstSlots \subseteq Int

VARIABLES
  page_refs, tot_frames, FRAME,
  running,                       \* "main", "fifo", "lru", "opt" or "end"
  nextRef,                       \* the loop variable i, for page_refs[nextRef]
  fptr,                          \* a local of pr_fifo()
  pf_fifo, pf_lru, pf_opt,
  lost                           \* history: pages pr_fifo() stored outside FRAME

prVars == <<page_refs, tot_frames, FRAME, running, nextRef, fptr, pf_fifo,
            pf_lru, pf_opt, lost>>

tot_refs == Len(page_refs)
Slots == 0 .. tot_frames - 1
Empty == -1
frame_init == [k \in Slots |-> Empty]

PrTypeOK ==
  /\ page_refs \in UNION {[1 .. r -> RefPages] : r \in RefCounts}
  /\ tot_frames \in Arguments
  /\ FRAME \in [Slots -> RefPages \union {Empty}]
  /\ running \in {"main", "fifo", "lru", "opt", "end"}
  /\ nextRef \in 1 .. tot_refs + 1
  /\ fptr \in FirstSlots \union (-tot_frames .. tot_frames - 1)
  /\ pf_fifo \in 0 .. tot_refs
  /\ pf_lru \in 0 .. tot_refs
  /\ pf_opt \in 0 .. tot_refs
  /\ lost \in 0 .. tot_refs

-----------------------------------------------------------------------------
PrInit ==
  /\ page_refs \in UNION {[1 .. r -> RefPages] : r \in RefCounts}
  /\ tot_frames \in Arguments
  /\ FRAME = frame_init
  /\ running = "main"
  /\ nextRef = 1
  /\ fptr \in FirstSlots
  /\ pf_fifo = 0 /\ pf_lru = 0 /\ pf_opt = 0
  /\ lost = 0

\* Total frames must be in range [1, 7]
CheckArgument ==
  /\ running = "main"
  /\ running' = IF tot_frames \in 1 .. 7 THEN "fifo" ELSE "end"
  /\ UNCHANGED <<page_refs, tot_frames, FRAME, nextRef, fptr, pf_fifo,
                 pf_lru, pf_opt, lost>>

\* the page the running algorithm looks for, and the slots that hold it
ref_page == page_refs[nextRef]
Hit == \E k \in Slots : FRAME[k] = ref_page

InLoop(algorithm) == running = algorithm /\ nextRef <= tot_refs

\* the end of one algorithm, and the frame_init() of the next
EndLoop(algorithm, next) ==
  /\ running = algorithm
  /\ nextRef > tot_refs
  /\ running' = next
  /\ nextRef' = 1
  /\ FRAME' = frame_init
  /\ UNCHANGED <<page_refs, tot_frames, pf_fifo, pf_lru, pf_opt>>

-----------------------------------------------------------------------------
\* a % n of C, whose result has the sign of a
rem(a, n) == IF a < 0 THEN -((-a) % n) ELSE a % n

\* Faulty variant: fptr does not move.
FifoInsertStuck ==
  /\ FRAME' = [k \in Slots |-> IF k = fptr THEN ref_page ELSE FRAME[k]]
  /\ fptr' = rem(fptr, tot_frames)

\* FRAME[fptr] = page_refs[i]; a store outside FRAME leaves FRAME as it was
FifoInsert ==
  /\ FRAME' = [k \in Slots |-> IF k = fptr THEN ref_page ELSE FRAME[k]]
  /\ fptr' = rem(fptr + 1, tot_frames)

FifoStep ==
  /\ InLoop("fifo")
  /\ nextRef' = nextRef + 1
  /\ \/ Hit /\ UNCHANGED <<FRAME, fptr, pf_fifo, lost>>
     \/ /\ ~Hit
        /\ FifoInsert
        /\ pf_fifo' = pf_fifo + 1
        /\ lost' = IF fptr \in Slots THEN lost ELSE lost + 1
  /\ UNCHANGED <<page_refs, tot_frames, running, pf_lru, pf_opt>>

\* fptr goes out of scope
FifoEnd == EndLoop("fifo", "lru") /\ fptr' = 0 /\ lost' = 0

-----------------------------------------------------------------------------
idx ==
  CHOOSE k \in Slots : /\ FRAME[k] = ref_page
                       /\ \A l \in 0 .. k - 1 : FRAME[l] # ref_page

\* slots 0 .. last - 1 move up by one and the page goes in front
MoveToFront(last) ==
  FRAME' = [k \in Slots |-> IF k = 0 THEN ref_page
                            ELSE IF k <= last THEN FRAME[k - 1] ELSE FRAME[k]]

\* Faulty variant: a page that is found stays where it is.
LruHitStays == Hit /\ idx < tot_frames - 1 /\ UNCHANGED <<FRAME, pf_lru>>

LruHit == Hit /\ idx < tot_frames - 1 /\ MoveToFront(idx) /\ UNCHANGED pf_lru

\* a page found in the last slot is counted like one that is not found
LruFault ==
  /\ Hit => idx = tot_frames - 1
  /\ MoveToFront(tot_frames - 1)
  /\ pf_lru' = pf_lru + 1

LruStep ==
  /\ InLoop("lru")
  /\ nextRef' = nextRef + 1
  /\ LruHit \/ LruFault
  /\ UNCHANGED <<page_refs, tot_frames, running, fptr, pf_fifo, pf_opt,
                 lost>>

LruEnd == EndLoop("lru", "opt") /\ UNCHANGED <<fptr, lost>>

-----------------------------------------------------------------------------
\* where the page in slot k is referenced next, and Never if it is not
Never == tot_refs + 1
NextUse(k) ==
  Min({l \in nextRef .. tot_refs : page_refs[l] = FRAME[k]} \union {Never})

\* Faulty variant: the page that is needed soonest.
Nearest(k) ==
  IF \E l \in Slots : FRAME[l] = Empty
  THEN FRAME[k] = Empty
  ELSE \A l \in Slots : NextUse(k) <= NextUse(l)

\* an empty slot, a page that is never used again, the page used last of all
Farthest(k) ==
  IF \E l \in Slots : FRAME[l] = Empty
  THEN FRAME[k] = Empty
  ELSE \A l \in Slots : NextUse(l) <= NextUse(k)

\* the first of them in FRAME
OptVictim == Min({k \in Slots : Farthest(k)})

OptStep ==
  /\ InLoop("opt")
  /\ nextRef' = nextRef + 1
  /\ \/ Hit /\ UNCHANGED <<FRAME, pf_opt>>
     \/ /\ ~Hit
        /\ FRAME' = [FRAME EXCEPT ![OptVictim] = ref_page]
        /\ pf_opt' = pf_opt + 1
  /\ UNCHANGED <<page_refs, tot_frames, running, fptr, pf_fifo, pf_lru,
                 lost>>

OptEnd == EndLoop("opt", "end") /\ UNCHANGED <<fptr, lost>>

PrNext ==
  \/ CheckArgument
  \/ FifoStep \/ FifoEnd
  \/ LruStep \/ LruEnd
  \/ OptStep \/ OptEnd

PrSpec == PrInit /\ [][PrNext]_prVars

-----------------------------------------------------------------------------
\* Reference definitions.  How many of the faults F lie between l and r
FaultsSince(F, l, r) == Cardinality({m \in F : l <= m /\ m < r})

\* FIFO with n frames: a reference faults unless one of the last n faults
\* loaded its page.  F has the faults from reference first on up to bound.
IsFifo(F, first, bound, n) ==
  \A r \in first .. bound :
    r \in F <=> \A l \in F : l < r /\ FaultsSince(F, l, r) <= n =>
                  page_refs[l] # page_refs[r]

\* LRU with n frames: a reference faults unless its page was used and fewer
\* than n other pages have been used since.
UsedBefore(p, r) == \E l \in 1 .. r - 1 : page_refs[l] = p
UsedSince(p, r) ==
  {page_refs[l] : l \in {m \in 1 .. r - 1 :
                           \A k \in m .. r - 1 : page_refs[k] # p}}
LruMisses(n, r) ==
  UsedBefore(page_refs[r], r) => Cardinality(UsedSince(page_refs[r], r)) >= n
LruFaults(n, bound) == {r \in 1 .. bound : LruMisses(n, r)}

\* The faults from a reference to page p on, by the pages in the n frames, when
\* rest has the fewest faults after it: any page may be the victim.
Serve(p, n, rest) ==
  [S \in SUBSET RefPages |->
     IF p \in S THEN rest[S]
     ELSE IF Cardinality(S) < n THEN 1 + rest[S \union {p}]
     ELSE 1 + Min({rest[(S \ {v}) \union {p}] : v \in S})]

\* the fewest faults any choice of victims has in the last k references
FewestFrom(n) ==
  LET f[k \in 0 .. tot_refs] ==
        IF k = 0 THEN [S \in SUBSET RefPages |-> 0]
        ELSE Serve(page_refs[tot_refs + 1 - k], n, f[k - 1])
  IN  f
FewestFaults(n) == FewestFrom(n)[tot_refs][{}]

Accepted == tot_frames \in 1 .. 7

\* pr_fifo() counts the faults of a queue although fptr starts at an arbitrary
\* slot.  If that is no slot at all, the pages stored outside FRAME, no more than
\* there are frames, are lost, and the queue starts after them.
FifoCountsFaults ==
  /\ PrTypeOK
  /\ running = "fifo" /\ nextRef > tot_refs =>
       /\ lost <= tot_frames
       /\ \E F \in SUBSET (lost + 1 .. tot_refs) :
            /\ IsFifo(F, lost + 1, tot_refs, tot_frames)
            /\ pf_fifo = lost + Cardinality(F)

\* Because it also counts the hits in the last slot, pr_lru() computes the
\* faults LRU has with one frame fewer.
LruCountsOneFrameFewer ==
  running = "opt" => pf_lru = Cardinality(LruFaults(tot_frames - 1, tot_refs))

\* pr_optimal() is optimal: no choice of victims has fewer faults.
OptimalIsMinimal ==
  running = "end" /\ Accepted => pf_opt = FewestFaults(tot_frames)
=============================================================================
