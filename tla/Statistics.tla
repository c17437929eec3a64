----------------------------- MODULE Statistics -----------------------------
(***************************************************************************)
(* lab03_ex1.c: five threads over one array.  Four scan it for the         *)
(* minimum, the maximum, the average and the standard deviation; the fifth *)
(* sorts it in place for the median.  Nothing is locked: a scan may read   *)
(* the array between the two stores of a swap, may miss what the sort      *)
(* moves past it, and may read one element twice with two values.          *)
(*                                                                         *)
(* Results are kept as integers: r_avg and the mean times len, r_med times *)
(* 2, the squares times len * len.  Rounding of floats is left out.        *)
(***************************************************************************)
EXTENDS Integers, Sequences, FiniteSetsExt, Functions

CONSTANTS
  ArgumentLists,  \* the numbers that may be given, a sequence each
  ThreadSets      \* bound: the scans of an instance.  They only read what they
                  \* share, so none can tell whether the others run

Scans == {"myMin", "myMax", "myAvg", "myStdDev"}

ASSUME NumbersAndThreads ==
  /\ \A a \in ArgumentLists : a \in Seq(Int)
  /\ ThreadSets \subseteq SUBSET Scans

VARIABLES
  args, scans,    \* what is run, chosen by Init
  nums,           \* the shared array, from 0
  main,           \* "join", "usage" or "printed"
  at,             \* of each thread: "none", "scan", "again" (the second read
                  \* of an element), "squares", "swap" (between its stores), "exit"
  i,              \* of each thread, its loop index
  j, temp, r_med, \* of myMed()
  result,         \* r_min, r_max, r_avg, and mean_diff of myStdDev()
  mean, read,     \* of myStdDev(): the mean, and the first read of an element
  disturbed,      \* history: scans during which the sort stored
  tornSquare      \* history: the two factors of a square were different

scanVars == <<result, mean, read, tornSquare>>
sortVars == <<nums, j, temp, r_med>>
statVars == <<args, scans, main, at, i, disturbed, scanVars, sortVars>>

len == Len(args)
Started == scans \union {"myMed"}

StatTypeOK ==
  /\ args \in ArgumentLists /\ scans \in ThreadSets
  /\ nums \in [0 .. len - 1 -> Int]
  /\ main \in {"join", "usage", "printed"}
  /\ at \in [Scans \union {"myMed"} ->
              {"none", "scan", "again", "squares", "swap", "exit"}]
  /\ i \in [Scans \union {"myMed"} -> 0 .. len]
  /\ j \in 0 .. len
  /\ result \in [Scans -> Int]
  /\ \A x \in {temp, r_med, mean, read} : x \in Int
  /\ disturbed \subseteq scans /\ tornSquare \in BOOLEAN

-----------------------------------------------------------------------------
\* the array as main() fills it
given == [k \in 0 .. len - 1 |-> args[k + 1]]

StatInit ==
  /\ args \in ArgumentLists /\ scans \in ThreadSets
  /\ nums = given
  /\ main = "join"
  /\ at = [t \in Scans \union {"myMed"} |-> "none"]
  /\ i = [t \in Scans \union {"myMed"} |-> 0]
  /\ j = 0 /\ temp = 0 /\ r_med = 0
  /\ result = [t \in Scans |-> 0]
  /\ mean = 0 /\ read = 0
  /\ disturbed = {} /\ tornSquare = FALSE

\* without an argument the program says so and exits
Usage ==
  /\ main = "join" /\ len = 0
  /\ main' = "usage"
  /\ UNCHANGED <<args, scans, at, i, disturbed, scanVars, sortVars>>

\* main() has joined the five threads and prints their results
PrintResults ==
  /\ main = "join" /\ len > 0
  /\ \A t \in Started : at[t] = "exit"
  /\ main' = "printed"
  /\ UNCHANGED <<args, scans, at, i, disturbed, scanVars, sortVars>>

-----------------------------------------------------------------------------
\* the next round of a loop over the array, or what follows the loop
NextRound(t, here, after) ==
  IF i[t] + 1 < len
  THEN i' = [i EXCEPT ![t] = @ + 1] /\ at' = [at EXCEPT ![t] = here]
  ELSE i' = [i EXCEPT ![t] = 0] /\ at' = [at EXCEPT ![t] = after]

\* Faulty variant: the minimum and the maximum start at 0.
StartScanAtZero(t) ==
  /\ main = "join" /\ len > 0
  /\ t \in scans /\ at[t] = "none"
  /\ at' = [at EXCEPT ![t] = "scan"]
  /\ disturbed' = IF at["myMed"] = "swap" THEN disturbed \union {t} ELSE disturbed
  /\ UNCHANGED <<args, scans, main, i, scanVars, sortVars>>

\* a created thread runs up to its loop; myMin() and myMax() read nums[0]
StartScan(t) ==
  /\ main = "join" /\ len > 0
  /\ t \in scans /\ at[t] = "none"
  /\ at' = [at EXCEPT ![t] = "scan"]
  /\ result' = [result EXCEPT ![t] =
                  IF t \in {"myMin", "myMax"} THEN nums[0] ELSE 0]
  /\ disturbed' = IF at["myMed"] = "swap" THEN disturbed \union {t} ELSE disturbed
  /\ UNCHANGED <<args, scans, main, i, mean, read, tornSquare, sortVars>>

\* the condition of the if, which reads the element once
Beats(t, x) == IF t = "myMin" THEN result[t] > x ELSE result[t] < x

Compare(t) ==
  /\ t \in {"myMin", "myMax"} /\ at[t] = "scan"
  /\ IF Beats(t, nums[i[t]])
     THEN at' = [at EXCEPT ![t] = "again"] /\ UNCHANGED i
     ELSE NextRound(t, "scan", "exit")
  /\ UNCHANGED <<args, scans, main, disturbed, scanVars, sortVars>>

\* the assignment, which reads it again
Take(t) ==
  /\ t \in {"myMin", "myMax"} /\ at[t] = "again"
  /\ result' = [result EXCEPT ![t] = nums[i[t]]]
  /\ NextRound(t, "scan", "exit")
  /\ UNCHANGED <<args, scans, main, disturbed, mean, read, tornSquare, sortVars>>

\* r_avg = r_avg + nums[i]
Add ==
  /\ at["myAvg"] = "scan"
  /\ result' = [result EXCEPT !["myAvg"] = @ + nums[i["myAvg"]]]
  /\ NextRound("myAvg", "scan", "exit")
  /\ UNCHANGED <<args, scans, main, disturbed, mean, read, tornSquare, sortVars>>

\* mean += nums[i]
AddToMean ==
  /\ at["myStdDev"] = "scan"
  /\ mean' = mean + nums[i["myStdDev"]]
  /\ NextRound("myStdDev", "scan", "squares")
  /\ UNCHANGED <<args, scans, main, disturbed, result, read, tornSquare, sortVars>>

\* (nums[i] - mean) * (nums[i] - mean): two reads
ReadFactor ==
  /\ at["myStdDev"] = "squares"
  /\ read' = nums[i["myStdDev"]]
  /\ at' = [at EXCEPT !["myStdDev"] = "again"]
  /\ UNCHANGED <<args, scans, main, i, disturbed, result, mean, tornSquare, sortVars>>

\* Faulty variant: the mean is subtracted once.
AddSquareOnce ==
  LET other == nums[i["myStdDev"]]
  IN  /\ at["myStdDev"] = "again"
      /\ result' = [result EXCEPT !["myStdDev"] =
                      @ + (len * read - mean) * len * other]
      /\ tornSquare' = (tornSquare \/ read # other)
      /\ NextRound("myStdDev", "squares", "exit")
      /\ UNCHANGED <<args, scans, main, disturbed, mean, read, sortVars>>

AddSquare ==
  LET other == nums[i["myStdDev"]]
  IN  /\ at["myStdDev"] = "again"
      /\ result' = [result EXCEPT !["myStdDev"] =
                      @ + (len * read - mean) * (len * other - mean)]
      /\ tornSquare' = (tornSquare \/ read # other)
      /\ NextRound("myStdDev", "squares", "exit")
      /\ UNCHANGED <<args, scans, main, disturbed, mean, read, sortVars>>

-----------------------------------------------------------------------------
\* Every store of the sort disturbs the scans that are under way.
Disturb ==
  disturbed' = disturbed \union {t \in scans : at[t] \notin {"none", "exit"}}

\* Faulty variant: the inner loop ends one pair early.
NextPairShort ==
  IF j + 1 < len - i["myMed"] - 2
  THEN j' = j + 1 /\ UNCHANGED i
  ELSE j' = 0 /\ i' = [i EXCEPT !["myMed"] = @ + 1]

\* the loops of the bubble sort: while i < len, while j < len - i - 1
NextPair ==
  IF j + 1 < len - i["myMed"] - 1
  THEN j' = j + 1 /\ UNCHANGED i
  ELSE j' = 0 /\ i' = [i EXCEPT !["myMed"] = @ + 1]

\* there is no pair left in the last round, whose inner loop is empty
Sorting == len > 0 /\ i["myMed"] < len - 1

KeepPair ==
  /\ at["myMed"] \in {"none", "scan"} /\ Sorting
  /\ nums[j + 1] >= nums[j]
  /\ at' = [at EXCEPT !["myMed"] = "scan"]
  /\ NextPair
  /\ UNCHANGED <<args, scans, main, disturbed, nums, temp, r_med, scanVars>>

\* temp = nums[j]; nums[j] = nums[j + 1]
SwapFirst ==
  /\ at["myMed"] \in {"none", "scan"} /\ Sorting
  /\ nums[j + 1] < nums[j]
  /\ temp' = nums[j]
  /\ nums' = [nums EXCEPT ![j] = nums[j + 1]]
  /\ at' = [at EXCEPT !["myMed"] = "swap"]
  /\ Disturb
  /\ UNCHANGED <<args, scans, main, i, j, r_med, scanVars>>

\* nums[j + 1] = temp
SwapSecond ==
  /\ at["myMed"] = "swap"
  /\ nums' = [nums EXCEPT ![j + 1] = temp]
  /\ at' = [at EXCEPT !["myMed"] = "scan"]
  /\ NextPair
  /\ Disturb
  /\ UNCHANGED <<args, scans, main, temp, r_med, scanVars>>

\* the two middle elements, or twice the one
Median ==
  /\ at["myMed"] \in {"none", "scan"} /\ len > 0 /\ ~Sorting
  /\ r_med' = nums[len \div 2] + nums[(len - 1) \div 2]
  /\ at' = [at EXCEPT !["myMed"] = "exit"]
  /\ UNCHANGED <<args, scans, main, i, disturbed, nums, j, temp, scanVars>>

Scan(t) == StartScan(t) \/ Compare(t) \/ Take(t)
myMed == KeepPair \/ SwapFirst \/ SwapSecond \/ Median

StatNext ==
  \/ Usage \/ PrintResults \/ Add \/ AddToMean \/ ReadFactor \/ AddSquare \/ myMed
  \/ \E t \in Scans : Scan(t)

StatSpec == StatInit /\ [][StatNext]_statVars

-----------------------------------------------------------------------------
\* The k-th number of the argument list in ascending order, from 0.
Ranked(k) ==
  CHOOSE x \in Range(args) :
    /\ Cardinality({p \in DOMAIN args : args[p] < x}) <= k
    /\ Cardinality({p \in DOMAIN args : args[p] <= x}) > k

Extremum(t) == IF t = "myMin" THEN Min(Range(args)) ELSE Max(Range(args))

\* the sums of the first n numbers of an array, and the last of them
Sums(a, n) ==
  LET sum[k \in 0 .. n] == IF k = 0 THEN 0 ELSE sum[k - 1] + a[k - 1] IN sum
SumOf(a, n) == Sums(a, n)[n]

Total == SumOf(given, len)

\* the squares of the distances to the average
Squares(a) ==
  [k \in 0 .. len - 1 |-> (len * a[k] - Total) * (len * a[k] - Total)]

SumFor(t) == IF t = "myAvg" THEN Total ELSE SumOf(Squares(given), len)

\* Whatever the other threads do, the median is the median of the arguments: the
\* sort is right for lists of even and odd length, with equal numbers and one.
MedianRight ==
  at["myMed"] = "exit" => r_med = Ranked(len \div 2) + Ranked((len - 1) \div 2)

\* The minimum and the maximum are exact if the sort stored nothing during the
\* scan: between swaps the array is a permutation of the arguments.  A disturbed
\* one is at least one of the arguments.
ExtremesExact ==
  \A t \in scans \intersect {"myMin", "myMax"} : at[t] = "exit" =>
    /\ result[t] \in Range(args)
    /\ t \notin disturbed => result[t] = Extremum(t)

\* So are the average and the deviation, and a disturbed average lies between
\* the extremes.
SumsExact ==
  \A t \in scans \intersect {"myAvg", "myStdDev"} : at[t] = "exit" =>
    /\ t \notin disturbed => result[t] = SumFor(t)
    /\ t = "myAvg" =>
         result[t] \in len * Min(Range(args)) .. len * Max(Range(args))

\* What a scan finds is right unless the sort stored something meanwhile.
ExactUnlessSwapping == StatTypeOK /\ ExtremesExact /\ SumsExact

\* sqrt() is given a negative number only if a swap changed an element between
\* the two reads of one square.
RealUnlessTorn == result["myStdDev"] < 0 => tornSquare
=============================================================================
