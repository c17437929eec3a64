---------------------------- MODULE ShellProofs ----------------------------
(***************************************************************************)
(* For any lines, any home directory, any pipe and any size of cwd_buff:   *)
(* !! recalls the line carried out last, lines without & never overlap,    *)
(* the right side of | gets its words unless it has more of them than the  *)
(* left, and until somebody uses cd . or a path from the root the prompt   *)
(* leads to the directory the shell is in.                                 *)
(***************************************************************************)
EXTENDS Shell, SequenceTheorems, WellFoundedInduction, TLAPS

-----------------------------------------------------------------------------
(* The helpers.                                                            *)

\* A set of numbers has a least one.
LEMMA Least ==
  ASSUME NEW T \in SUBSET Nat, T # {}
  PROVE  Min(T) \in T /\ \A y \in T : Min(T) <= y
<1>1. PICK x \in T : \A y \in T : ~ (<<y, x>> \in OpToRel(<, Nat))
  BY NatLessThanWellFounded, WFMin
<1>2. ASSUME NEW y \in T PROVE x <= y
  <2>1. ~(y < x)
    BY <1>1 DEF OpToRel
  <2> QED
    BY <2>1
<1> QED
  BY <1>2 DEF Min

\* A set of positions in a sequence has a last one.
LEMMA Greatest ==
  ASSUME NEW n \in Nat, NEW T \in SUBSET (1 .. n), T # {}
  PROVE  Max(T) \in T /\ \A y \in T : Max(T) >= y
<1> DEFINE D == {n - t : t \in T}
<1>1. D \in SUBSET Nat /\ D # {}
  <2>1. \A t \in T : n - t \in Nat
    OBVIOUS
  <2> QED
    BY <2>1
<1>2. Min(D) \in D /\ \A y \in D : Min(D) <= y
  BY <1>1, Least
<1>3. PICK x \in T : Min(D) = n - x
  BY <1>2
<1>4. \A y \in T : n - y \in D
  OBVIOUS
<1>5. ASSUME NEW y \in T PROVE x >= y
  <2>1. n - x <= n - y
    BY <1>2, <1>3, <1>4
  <2> QED
    BY <2>1
<1> QED
  BY <1>5 DEF Max

\* What the search for the last one returns is a position or 0.
LEMMA LastPlace ==
  ASSUME NEW n \in Nat, NEW T \in SUBSET (1 .. n)
  PROVE  (IF T = {} THEN 0 ELSE Max(T)) \in 0 .. n
<1>1. CASE T = {}
  BY <1>1
<1>2. CASE T # {}
  <2>1. Max(T) \in T
    BY <1>2, Greatest
  <2>2. T \subseteq 0 .. n
    OBVIOUS
  <2>3. Max(T) \in 0 .. n
    BY <2>1, <2>2
  <2> QED
    BY <1>2, <2>3
<1> QED
  BY <1>1, <1>2

\* Symbol() is the position of the first symbol, or the number of words.
LEMMA SymbolFound ==
  ASSUME NEW S, NEW args \in Seq(S)
  PROVE  /\ Symbol(args) \in 0 .. Len(args)
         /\ Symbol(args) < Len(args) => args[Symbol(args) + 1] \in Symbols
         /\ \A k \in 1 .. Symbol(args) : args[k] \notin Symbols
<1> DEFINE I == {i \in 1 .. Len(args) : args[i] \in Symbols}
<1>1. Symbol(args) = IF I = {} THEN Len(args) ELSE IF Min(I) = 0 THEN Len(args) ELSE Min(I) - 1
  BY DEF Symbol, SelectInSeq
<1>2. I \in SUBSET (1 .. Len(args)) /\ Len(args) \in Nat
  BY LenProperties
<1>3. /\ \A i \in I : args[i] \in Symbols
      /\ \A i \in 1 .. Len(args) : args[i] \in Symbols => i \in I
  OBVIOUS
<1> HIDE DEF I
<1>4. CASE I = {}
  BY <1>1, <1>2, <1>3, <1>4
<1>5. CASE I # {}
  <2>1. Min(I) \in I /\ \A y \in I : Min(I) <= y
    BY <1>2, <1>5, Least
  <2>2. Min(I) \in 1 .. Len(args)
    BY <1>2, <2>1
  <2>3. Symbol(args) = Min(I) - 1
    <3>1. Min(I) # 0
      BY <1>2, <2>2
    <3> QED
      BY <1>1, <1>5, <3>1
  <2>4. Symbol(args) + 1 = Min(I) /\ Symbol(args) \in 0 .. Len(args)
    BY <1>2, <2>2, <2>3
  <2>5. args[Symbol(args) + 1] \in Symbols
    BY <1>3, <2>1, <2>4
  <2>6. ASSUME NEW k \in 1 .. Symbol(args) PROVE args[k] \notin Symbols
    <3>1. k \in 1 .. Len(args) /\ ~(Min(I) <= k)
      BY <1>2, <2>2, <2>4
    <3> QED
      BY <1>3, <2>1, <3>1
  <2> QED
    BY <2>4, <2>5, <2>6
<1> QED
  BY <1>4, <1>5

\* A sequence whose members are in S is a sequence over S.
LEMMA SeqOver ==
  ASSUME NEW S, NEW T, NEW s \in Seq(T), \A i \in 1 .. Len(s) : s[i] \in S
  PROVE  s \in Seq(S)
<1>1. SubSeq(s, 1, Len(s)) = s
  BY SubSeqFull
<1>2. Len(s) \in Nat
  BY LenProperties
<1>3. SubSeq(s, 1, Len(s)) \in Seq(S)
  BY <1>2, SubSeqProperties
<1> QED
  BY <1>1, <1>3

\* What stands before the first NULL, or everything.
LEMMA UpToNullKeeps ==
  ASSUME NEW S, NEW s \in Seq(S \union {"NULL"}), "NULL" \notin S
  PROVE  /\ UpToNull(s) \in Seq(S)
         /\ s \in Seq(S) => UpToNull(s) = s
<1> DEFINE I == {i \in 1 .. Len(s) : s[i] = "NULL"}
<1>1. UpToNull(s) = IF (IF I = {} THEN 0 ELSE Min(I)) = 0 THEN s
                    ELSE SubSeq(s, 1, Min(I) - 1)
  BY DEF UpToNull, SelectInSeq
<1>2. /\ I \in SUBSET (1 .. Len(s)) /\ Len(s) \in Nat
      /\ \A i \in 1 .. Len(s) : s[i] \in S \union {"NULL"}
  BY LenProperties
<1>3. \A i \in 1 .. Len(s) : i \in I <=> s[i] = "NULL"
  OBVIOUS
<1> HIDE DEF I
<1>4. CASE I = {}
  <2>1. \A i \in 1 .. Len(s) : s[i] \in S
    BY <1>2, <1>3, <1>4
  <2>2. s \in Seq(S)
    BY <1>2, <2>1, SeqOver
  <2> QED
    BY <1>1, <1>4, <2>2
<1>5. CASE I # {}
  <2>1. Min(I) \in I /\ \A y \in I : Min(I) <= y
    BY <1>2, <1>5, Least
  <2>2. Min(I) \in 1 .. Len(s)
    BY <1>2, <2>1
  <2>3. UpToNull(s) = SubSeq(s, 1, Min(I) - 1)
    BY <1>1, <1>5, <2>2
  <2>4. ASSUME NEW k \in 1 .. Min(I) - 1 PROVE s[k] \in S
    <3>1. k \in 1 .. Len(s) /\ ~(Min(I) <= k)
      BY <1>2, <2>2
    <3> QED
      BY <1>2, <1>3, <2>1, <3>1
  <2>5. SubSeq(s, 1, Min(I) - 1) \in Seq(S)
    BY <2>2, <2>4, SubSeqProperties
  <2>6. s \notin Seq(S)
    <3>1. s[Min(I)] = "NULL"
      BY <1>3, <2>1, <2>2
    <3> QED
      BY <2>2, <3>1, LenProperties
  <2> QED
    BY <2>3, <2>5, <2>6
<1> QED
  BY <1>4, <1>5

\* What stands before the first NULL, where that is known.
LEMMA UpToNullAt ==
  ASSUME NEW S, NEW s \in Seq(S), NEW p \in 1 .. Len(s), s[p] = "NULL",
         \A k \in 1 .. p - 1 : s[k] # "NULL"
  PROVE  UpToNull(s) = SubSeq(s, 1, p - 1)
<1> DEFINE I == {i \in 1 .. Len(s) : s[i] = "NULL"}
<1>1. UpToNull(s) = IF (IF I = {} THEN 0 ELSE Min(I)) = 0 THEN s
                    ELSE SubSeq(s, 1, Min(I) - 1)
  BY DEF UpToNull, SelectInSeq
<1>2. I \in SUBSET Nat /\ p \in I /\ Len(s) \in Nat /\ 0 \notin I
      /\ \A i \in I : ~(i \in 1 .. p - 1)
  BY LenProperties
<1> HIDE DEF I
<1>3. Min(I) \in I /\ Min(I) <= p
  BY <1>2, Least
<1>4. Min(I) = p
  <2>1. Min(I) \in Nat /\ Min(I) # 0 /\ ~(Min(I) \in 1 .. p - 1)
    BY <1>2, <1>3
  <2> QED
    BY <1>2, <1>3, <2>1
<1> QED
  BY <1>1, <1>2, <1>4

\* deleteEnd() returns a beginning of the prompt.
LEMMA deleteEndKeeps ==
  ASSUME NEW S, NEW s \in Seq(S)
  PROVE  deleteEnd(s) \in Seq(S)
<1> DEFINE slashes == {i \in 1 .. Len(s) : s[i] = "/"}
           colons == {i \in 1 .. Len(s) : s[i] = ":"}
           slash == IF slashes = {} THEN 0 ELSE Max(slashes)
           colon == IF colons = {} THEN 0 ELSE Max(colons)
<1>1. deleteEnd(s) = IF slash > 0 THEN SubSeq(s, 1, slash - 1)
                     ELSE IF colon > 0 THEN SubSeq(s, 1, colon - 1) ELSE s
  BY DEF deleteEnd, SelectLastInSeq
<1>2. slashes \in SUBSET (1 .. Len(s)) /\ colons \in SUBSET (1 .. Len(s))
      /\ Len(s) \in Nat
  BY LenProperties
<1> HIDE DEF slashes, colons
<1>3. slash \in 0 .. Len(s) /\ colon \in 0 .. Len(s)
  BY <1>2, LastPlace
<1> HIDE DEF slash, colon
<1>4. ASSUME NEW n \in 1 .. Len(s) PROVE SubSeq(s, 1, n - 1) \in Seq(S)
  <2>1. \A i \in 1 .. n - 1 : s[i] \in S
    BY <1>2, LenProperties
  <2> QED
    BY <1>2, <2>1, SubSeqProperties
<1> QED
  BY <1>1, <1>2, <1>3, <1>4

\* A part of the words of a line is a sequence of words, and so is Front().
LEMMA PartKeeps ==
  ASSUME NEW S, NEW s \in Seq(S)
  PROVE  /\ \A j, k \in Int : 1 <= j /\ k <= Len(s) => SubSeq(s, j, k) \in Seq(S)
         /\ Front(s) \in Seq(S)
         /\ s # <<>> => Len(s) > 0 /\ Last(s) \in S /\ Len(Front(s)) = Len(s) - 1
<1>1. Len(s) \in Nat /\ \A i \in 1 .. Len(s) : s[i] \in S
  BY LenProperties
<1>2. ASSUME NEW j \in Int, NEW k \in Int, 1 <= j, k <= Len(s)
      PROVE  SubSeq(s, j, k) \in Seq(S)
  <2>1. \A i \in j .. k : s[i] \in S
    BY <1>1, <1>2
  <2> QED
    BY <2>1, SubSeqProperties
<1>3. Front(s) \in Seq(S)
  BY <1>1, <1>2 DEF Front
<1>4. ASSUME s # <<>>
      PROVE  Len(s) > 0 /\ Last(s) \in S /\ Len(Front(s)) = Len(s) - 1
  <2>1. Len(s) > 0
    BY <1>1, <1>4, EmptySeq
  <2>2. \A i \in 1 .. Len(s) - 1 : s[i] \in S
    BY <1>1
  <2>3. Len(SubSeq(s, 1, Len(s) - 1)) = Len(s) - 1
    <3>1. ASSUME NEW n \in Nat, n > 0, \A i \in 1 .. n - 1 : s[i] \in S
          PROVE  Len(SubSeq(s, 1, n - 1)) = n - 1
      <4>1. Len(SubSeq(s, 1, n - 1)) = IF 1 <= n - 1 THEN (n - 1) - 1 + 1 ELSE 0
        BY <3>1, SubSeqProperties
      <4> QED
        BY <3>1, <4>1
    <3> QED
      BY <1>1, <2>1, <2>2, <3>1
  <2>4. Len(Front(s)) = Len(s) - 1
    BY <2>3 DEF Front
  <2>5. Last(s) \in S
    BY <1>1, <2>1 DEF Last
  <2> QED
    BY <2>1, <2>4, <2>5
<1> QED
  BY <1>2, <1>3, <1>4
\* Lines consist of words, and the model's stand-ins are not among them.
LEMMA LineIsWords ==
  /\ \A l \in Lines : l \in Seq(Words)
  /\ "NULL" \notin Words /\ "pipe" \notin Words /\ "tty" \notin Words
<1>1. ASSUME NEW l \in Lines PROVE l \in Seq(Words)
  <2>1. l \in Seq(STRING)
    BY LinesAreWords
  <2>2. DOMAIN l = 1 .. Len(l)
    BY <2>1, LenProperties
  <2>3. \A i \in 1 .. Len(l) : l[i] \in Range(l)
    BY <2>2 DEF Range
  <2>4. Range(l) \subseteq Words
    BY DEF Words
  <2>5. \A i \in 1 .. Len(l) : l[i] \in Words
    BY <2>3, <2>4
  <2> QED
    BY <2>1, <2>5, SeqOver
<1>2. "NULL" \notin Words /\ "pipe" \notin Words /\ "tty" \notin Words
  BY LinesAreWords
<1> QED
  BY <1>1, <1>2

-----------------------------------------------------------------------------
(* The inductive invariant.                                                *)

ChildType ==
  [stage : {"setup", "await", "running", "zombie", "reaped"},
   args : Seq(Words), background : BOOLEAN, argv : Seq(Words),
   stdin : Words \union {"tty", "pipe"}, stdout : Words \union {"tty"},
   todo : Nat, piped : Nat]

\* A pipe holds what it can, and the left side writes at most one unit more.
Within(rec) == rec.todo + rec.piped <= PipeCapacity + 1 /\ rec.piped <= PipeCapacity

\* A child reads from no pipe before it executes anything, and it waits for a left
\* side only if its line has a symbol.
Unredirected(rec) ==
  /\ rec.stage \in {"setup", "await"} => rec.stdin = "tty" /\ rec.argv = <<>>
  /\ rec.stage = "setup" => rec.todo = 0 /\ rec.piped = 0
  /\ rec.stage = "await" => Symbol(rec.args) < Len(rec.args)

\* RightSideComplete, for one child
Right(args) == SubSeq(args, Symbol(args) + 2, Len(args))
Parts(args) == {<<>>, SubSeq(Right(args), Symbol(args) + 2, Len(Right(args))),
                SubSeq(Right(args), 1, Symbol(args))}
RightRun(rec) ==
  rec.stdin = "pipe" =>
    IF Len(Right(rec.args)) <= Symbol(rec.args)
    THEN Runnable(Right(rec.args)) => rec.argv = Right(rec.args)
    ELSE rec.argv \in Parts(rec.args)

ChildOK(rec) ==
  /\ rec \in ChildType /\ rec.args # <<>>
  /\ Within(rec) /\ Unredirected(rec) /\ RightRun(rec)

ShellTypes ==
  /\ mode \in {"prompt", "inner", "spin", "wait", "exited", "crashed"}
  /\ buffer \in Lines /\ last \in Lines
  /\ saved \in BOOLEAN /\ overrun \in BOOLEAN /\ astray \in BOOLEAN
  /\ cwd \in Seq(Text) /\ cwd_buff \in Seq(Text) /\ junk \in Leftovers
  /\ lines \in 0 .. MaxLines

\* the second part of ForegroundRunsAlone
Alone ==
  /\ mode = "wait" => child # <<>>
  /\ \A p \in Children :
       ~child[p].background /\ child[p].stage # "reaped" =>
         mode = "wait" /\ p = Len(child)

ChildrenOK == child \in Seq(ChildType) /\ \A p \in 1 .. Len(child) : ChildOK(child[p])

Inv == ShellTypes /\ ChildrenOK /\ Alone /\ HistoryIsLastLine

\* Positions in n words of which the last r stand behind a | at j + 1, and how many
\* of these stand behind the j + 1st.
Placed(j, r, n, q, v) == n = r + j + 1 /\ r > j /\ q = r - j - 1 /\ v = j + 2

\* what follows for the positions the shift copies from and to
Spots(j, r, n, q, v) ==
  /\ q \in Nat /\ v \in Nat /\ n - (j + 2) + 1 = r
  /\ q + 1 \in 1 .. r /\ j + 2 + (q + 1) - 1 = n - j /\ n - j \in 1 .. n
  /\ (IF v <= r THEN r - v + 1 ELSE 0) = q /\ r - v + 1 = q
  /\ \A i \in 1 .. q : /\ i \in 1 .. r /\ i \in 1 .. r - v + 1
                       /\ j + 2 + i - 1 \in 1 .. r /\ j + 2 + i - 1 # j + 1

\* The positions are where the definition of the shift has them.
LEMMA Places ==
  ASSUME NEW j \in Nat, NEW r \in Nat, NEW n \in Nat, NEW q \in Int, NEW v \in Int,
         Placed(j, r, n, q, v)
  PROVE  Spots(j, r, n, q, v)
<1>1. q \in Nat /\ v \in Nat /\ n - (j + 2) + 1 = r
  BY DEF Placed
<1>2. q + 1 \in 1 .. r /\ j + 2 + (q + 1) - 1 = n - j /\ n - j \in 1 .. n
  BY DEF Placed
<1>3. (IF v <= r THEN r - v + 1 ELSE 0) = q /\ r - v + 1 = q
  BY DEF Placed
<1>4. ASSUME NEW i \in 1 .. q
      PROVE  /\ i \in 1 .. r /\ i \in 1 .. r - v + 1
             /\ j + 2 + i - 1 \in 1 .. r /\ j + 2 + i - 1 # j + 1
  BY DEF Placed
<1> QED
  BY <1>1, <1>2, <1>3, <1>4 DEF Spots

\* What the child with the shifted arguments executes: the words behind | if there
\* are no more of them than before it, and otherwise those on one side of one.
LEMMA RightSideOK ==
  ASSUME NEW args \in Seq(Words), NEW j \in Nat, j = Symbol(args), j < Len(args)
  PROVE  /\ RightSide(Shifted(args, j), j) \in Seq(Words)
         /\ Len(Right(args)) <= j /\ Runnable(Right(args))
              => RightSide(Shifted(args, j), j) = Right(args)
         /\ ~(Len(Right(args)) <= j) => RightSide(Shifted(args, j), j) \in Parts(args)
<1> DEFINE n == Len(args)
           W == Words \union {"NULL"}
           shifted == Shifted(args, j)
           behind == SubSeq(shifted, j + 2, n)
<1>1. n \in Nat /\ (\A k \in 1 .. n : args[k] \in Words) /\ "NULL" \notin Words
  BY LenProperties, LineIsWords
<1>2. ASSUME NEW k \in 1 .. n
      PROVE  /\ shifted[k] \in W
             /\ k > j + 1 /\ k > n - j => shifted[k] = args[k]
             /\ k = j + 1 \/ k = n - j => shifted[k] = "NULL"
             /\ k < n - j /\ k # j + 1 => k + j + 1 \in 1 .. n /\ shifted[k] = args[k + j + 1]
  <2>1. shifted[k] = IF k = j + 1 \/ k = n - j THEN "NULL"
                     ELSE IF k < n - j THEN args[k + j + 1] ELSE args[k]
    BY DEF Shifted
  <2>2. k < n - j => k + j + 1 \in 1 .. n
    BY <1>1
  <2>3. (k < n - j => args[k + j + 1] \in Words) /\ args[k] \in Words
    BY <1>1, <2>2
  <2>4. shifted[k] \in W
    BY <2>1, <2>3
  <2>5. k > j + 1 /\ k > n - j => ~(k = j + 1 \/ k = n - j) /\ ~(k < n - j)
    BY <1>1
  <2>6. k < n - j /\ k # j + 1 => ~(k = j + 1 \/ k = n - j)
    BY <1>1
  <2> QED
    BY <2>1, <2>2, <2>4, <2>5, <2>6
<1>3. shifted = [k \in 1 .. n |-> shifted[k]] /\ DOMAIN shifted = 1 .. n
  BY DEF Shifted
<1> HIDE DEF shifted
<1>4. shifted \in Seq(W) /\ Len(shifted) = n
  <2>1. shifted \in [1 .. n -> W]
    BY <1>2, <1>3
  <2>2. shifted \in Seq(W)
    BY <1>1, <2>1, SeqDef
  <2>3. Len(shifted) \in Nat /\ DOMAIN shifted = 1 .. Len(shifted)
    BY <2>2, LenProperties
  <2> QED
    BY <1>1, <1>3, <2>2, <2>3
<1>5. behind \in Seq(W)
  BY <1>1, <1>4, PartKeeps
<1>6. UpToNull(behind) \in Seq(Words) /\ UpToNull(shifted) \in Seq(Words)
  BY <1>1, <1>4, <1>5, UpToNullKeeps
<1>7. RightSide(shifted, j) = IF Runnable(UpToNull(behind)) THEN UpToNull(behind)
                              ELSE UpToNull(shifted)
  <2>1. SubSeq(shifted, j + 2, Len(shifted)) = behind
    BY <1>4
  <2> HIDE DEF behind
  <2> QED
    BY <2>1 DEF RightSide
<1>8. RightSide(shifted, j) \in Seq(Words)
  BY <1>6, <1>7
<1>9. ASSUME Len(Right(args)) <= j, Runnable(Right(args))
      PROVE  RightSide(shifted, j) = Right(args)
  <2>1. \A i \in j + 2 .. n : args[i] \in Words /\ shifted[i] \in W
    BY <1>1, <1>2
  <2>2. /\ Right(args) \in Seq(Words)
        /\ Len(Right(args)) = IF j + 2 <= n THEN n - (j + 2) + 1 ELSE 0
        /\ \A i \in 1 .. n - (j + 2) + 1 : Right(args)[i] = args[j + 2 + i - 1]
    BY <1>1, <2>1, SubSeqProperties DEF Right
  <2>3. /\ Len(behind) = IF j + 2 <= n THEN n - (j + 2) + 1 ELSE 0
        /\ \A i \in 1 .. n - (j + 2) + 1 : behind[i] = shifted[j + 2 + i - 1]
    BY <1>1, <2>1, SubSeqProperties
  <2> HIDE DEF behind
  <2>4. Len(Right(args)) = n - j - 1 /\ Len(behind) = n - j - 1
    BY <1>1, <2>2, <2>3
  <2>5. ASSUME NEW i \in 1 .. n - j - 1 PROVE behind[i] = Right(args)[i]
    <3>1. n - j - 1 <= j
      BY <1>9, <2>4
    <3>2. j + 2 + i - 1 \in 1 .. n /\ j + 2 + i - 1 > j + 1 /\ j + 2 + i - 1 > n - j
      BY <1>1, <3>1
    <3>3. i \in 1 .. n - (j + 2) + 1
      BY <1>1
    <3>4. behind[i] = shifted[j + 2 + i - 1] /\ Right(args)[i] = args[j + 2 + i - 1]
      BY <2>2, <2>3, <3>3
    <3>5. shifted[j + 2 + i - 1] = args[j + 2 + i - 1]
      BY <1>2, <3>2
    <3> QED
      BY <3>4, <3>5
  <2>6. Right(args) \in Seq(W)
    BY <2>2, SeqMonotonic
  <2>7. behind = Right(args)
    BY <1>5, <2>4, <2>5, <2>6, SeqEqual
  <2>8. UpToNull(behind) = Right(args)
    BY <1>1, <1>5, <2>2, <2>7, UpToNullKeeps
  <2> QED
    BY <1>7, <1>9, <2>8
<1>10. ASSUME ~(Len(Right(args)) <= j)
       PROVE  RightSide(shifted, j) \in Parts(args)
  <2>1. \A i \in j + 2 .. n : args[i] \in Words /\ shifted[i] \in W
    BY <1>1, <1>2
  <2>0. /\ Right(args) \in Seq(Words)
        /\ Len(Right(args)) = IF j + 2 <= n THEN n - (j + 2) + 1 ELSE 0
        /\ \A i \in 1 .. n - (j + 2) + 1 : Right(args)[i] = args[j + 2 + i - 1]
    BY <1>1, <2>1, SubSeqProperties DEF Right
  <2>2. PICK right \in Seq(Words) :
          /\ right = Right(args)
          /\ Len(right) = IF j + 2 <= n THEN n - (j + 2) + 1 ELSE 0
          /\ \A i \in 1 .. n - (j + 2) + 1 : right[i] = args[j + 2 + i - 1]
    BY <2>0
  <2> HIDE DEF n
  <2>3. PICK r \in Nat : r = Len(right) /\ n = r + j + 1 /\ r > j
    <3>1. Len(right) > j /\ Len(right) \in Nat
      BY <1>10, <2>2, LenProperties
    <3>2. j + 2 <= n /\ n = Len(right) + j + 1
      BY <1>1, <2>2, <3>1
    <3> QED
      BY <3>1, <3>2
  <2>4. ASSUME NEW k \in 1 .. r, k # j + 1
        PROVE  shifted[k] = right[k] /\ right[k] \in Words
    <3>1. k \in 1 .. n /\ k < n - j /\ k \in 1 .. n - (j + 2) + 1
          /\ j + 2 + k - 1 = k + j + 1
      BY <2>3
    <3>2. shifted[k] = args[k + j + 1] /\ k + j + 1 \in 1 .. n
      BY <1>2, <2>4, <3>1
    <3>3. right[k] = args[k + j + 1]
      BY <2>2, <3>1
    <3> QED
      BY <1>1, <3>2, <3>3
  <2>5. UpToNull(shifted) = SubSeq(right, 1, j)
    <3>1. j + 1 \in 1 .. n /\ (j + 1) - 1 = j /\ \A k \in 1 .. j : k \in 1 .. r /\ k # j + 1
      BY <2>3
    <3>2. shifted[j + 1] = "NULL"
      BY <1>2, <3>1
    <3>3. \A k \in 1 .. j : shifted[k] = right[k] /\ right[k] \in Words /\ shifted[k] # "NULL"
      BY <1>1, <2>4, <3>1
    <3>4. UpToNull(shifted) = SubSeq(shifted, 1, j)
      BY <1>4, <3>1, <3>2, <3>3, UpToNullAt
    <3>5. /\ SubSeq(shifted, 1, j) \in Seq(Words) /\ SubSeq(right, 1, j) \in Seq(Words)
          /\ Len(SubSeq(shifted, 1, j)) = IF 1 <= j THEN j - 1 + 1 ELSE 0
          /\ Len(SubSeq(right, 1, j)) = IF 1 <= j THEN j - 1 + 1 ELSE 0
          /\ \A i \in 1 .. j - 1 + 1 : SubSeq(shifted, 1, j)[i] = shifted[1 + i - 1]
          /\ \A i \in 1 .. j - 1 + 1 : SubSeq(right, 1, j)[i] = right[1 + i - 1]
      BY <3>3, SubSeqProperties
    <3>6. \A i \in 1 .. j : SubSeq(shifted, 1, j)[i] = SubSeq(right, 1, j)[i]
      <4>1. \A i \in 1 .. j : i \in 1 .. j - 1 + 1 /\ 1 + i - 1 = i
        OBVIOUS
      <4> QED
        BY <3>3, <3>5, <4>1
    <3>7. Len(SubSeq(shifted, 1, j)) = Len(SubSeq(right, 1, j))
          /\ Len(SubSeq(shifted, 1, j)) = j
      BY <3>5
    <3> QED
      BY <3>4, <3>5, <3>6, <3>7, SeqEqual
  <2>6. UpToNull(behind) = SubSeq(right, j + 2, r)
    <3>1. /\ Len(behind) = IF j + 2 <= n THEN n - (j + 2) + 1 ELSE 0
          /\ \A i \in 1 .. n - (j + 2) + 1 : behind[i] = shifted[j + 2 + i - 1]
      BY <1>1, <2>1, SubSeqProperties
    <3> HIDE DEF behind
    <3>0. PICK m \in Nat : m = n /\ m = r + j + 1 /\ r > j
      BY <1>1, <2>3
    <3>01. r - j - 1 \in Int /\ j + 2 \in Int
      OBVIOUS
    <3>2. PICK q \in Int, v \in Int : q = r - j - 1 /\ v = j + 2
      BY <3>01
    <3>3. /\ q \in Nat /\ v \in Nat /\ m - (j + 2) + 1 = r
          /\ q + 1 \in 1 .. r /\ j + 2 + (q + 1) - 1 = m - j /\ m - j \in 1 .. m
          /\ (IF v <= r THEN r - v + 1 ELSE 0) = q /\ r - v + 1 = q
          /\ \A i \in 1 .. q : /\ i \in 1 .. r /\ i \in 1 .. r - v + 1
                               /\ j + 2 + i - 1 \in 1 .. r /\ j + 2 + i - 1 # j + 1
      <4>1. Placed(j, r, m, q, v)
        BY <3>0, <3>2 DEF Placed
      <4>2. Spots(j, r, m, q, v)
        BY <4>1, Places
      <4> QED
        BY <4>2 DEF Spots
    <3>4. Len(behind) = r /\ \A i \in 1 .. r : behind[i] = shifted[j + 2 + i - 1]
      <4>1. j + 2 <= n
        BY <3>0
      <4>2. n - (j + 2) + 1 = r
        BY <3>0, <3>3
      <4> QED
        BY <3>1, <4>1, <4>2
    <3>5. behind[q + 1] = "NULL"
      <4>1. q + 1 \in 1 .. r /\ j + 2 + (q + 1) - 1 = n - j /\ n - j \in 1 .. n
        BY <3>0, <3>3
      <4>2. shifted[n - j] = "NULL"
        BY <1>2, <4>1
      <4> QED
        BY <3>4, <4>1, <4>2, Zenon
    <3>6. ASSUME NEW i \in 1 .. q
          PROVE  behind[i] = right[v + i - 1] /\ behind[i] \in Words
      <4>1. shifted[j + 2 + i - 1] = right[j + 2 + i - 1]
            /\ right[j + 2 + i - 1] \in Words
        BY <2>4, <3>3
      <4> QED
        BY <3>2, <3>3, <3>4, <4>1
    <3>7. UpToNull(behind) = SubSeq(behind, 1, q)
      <4>1. q + 1 \in 1 .. Len(behind) /\ (q + 1) - 1 = q
        BY <3>3, <3>4
      <4>2. \A i \in 1 .. (q + 1) - 1 : behind[i] # "NULL"
        BY <1>1, <3>6, <4>1
      <4> QED
        BY <1>5, <3>5, <4>1, <4>2, UpToNullAt
    <3>8. /\ SubSeq(behind, 1, q) \in Seq(Words) /\ Len(SubSeq(behind, 1, q)) = q
          /\ \A i \in 1 .. q : SubSeq(behind, 1, q)[i] = behind[i]
      <4>1. \A i \in 1 .. q : behind[i] \in Words
        BY <3>6
      <4>2. /\ SubSeq(behind, 1, q) \in Seq(Words)
            /\ Len(SubSeq(behind, 1, q)) = IF 1 <= q THEN q - 1 + 1 ELSE 0
            /\ \A i \in 1 .. q - 1 + 1 : SubSeq(behind, 1, q)[i] = behind[1 + i - 1]
        BY <3>3, <4>1, SubSeqProperties
      <4>3. \A i \in 1 .. q : i \in 1 .. q - 1 + 1 /\ 1 + i - 1 = i
        BY <3>3
      <4>4. (IF 1 <= q THEN q - 1 + 1 ELSE 0) = q
        BY <3>3
      <4> QED
        BY <4>2, <4>3, <4>4
    <3>9. /\ SubSeq(right, v, r) \in Seq(Words) /\ Len(SubSeq(right, v, r)) = q
          /\ \A i \in 1 .. q : SubSeq(right, v, r)[i] = right[v + i - 1]
      <4>1. \A i \in v .. r : right[i] \in Words
        <5>1. \A i \in v .. r : i \in 1 .. r /\ i # j + 1
          BY <3>2
        <5> QED
          BY <2>4, <5>1
      <4>2. /\ SubSeq(right, v, r) \in Seq(Words)
            /\ Len(SubSeq(right, v, r)) = IF v <= r THEN r - v + 1 ELSE 0
            /\ \A i \in 1 .. r - v + 1 : SubSeq(right, v, r)[i] = right[v + i - 1]
        BY <3>3, <4>1, SubSeqProperties
      <4> QED
        BY <3>3, <4>2
    <3>10. SubSeq(behind, 1, q) = SubSeq(right, v, r)
      <4>1. \A i \in 1 .. q : SubSeq(behind, 1, q)[i] = SubSeq(right, v, r)[i]
        BY <3>6, <3>8, <3>9
      <4> QED
        BY <3>8, <3>9, <4>1, SeqEqual
    <3> QED
      BY <3>2, <3>7, <3>10
  <2>7. RightSide(shifted, j) \in {UpToNull(behind), UpToNull(shifted)}
    BY <1>7
  <2> QED
    BY <2>2, <2>3, <2>5, <2>6, <2>7 DEF Parts
<1> QED
  BY <1>8, <1>9, <1>10 DEF shifted

-----------------------------------------------------------------------------
(* A step of a child.                                                      *)

\* One child changes and stays correct: so does the invariant.
LEMMA UpdateKeeps ==
  ASSUME Inv, NEW p \in Children, NEW rec, Update(p, rec), ChildOK(rec),
         child[p].stage # "reaped", rec.background = child[p].background
  PROVE  Inv'
<1>1. child \in Seq(ChildType) /\ p \in 1 .. Len(child) /\ rec \in ChildType
  BY LenProperties DEF Inv, ChildrenOK, Children, ChildOK
<1>2. child' = [child EXCEPT ![p] = rec]
  BY DEF Update
<1>3. /\ child' \in Seq(ChildType) /\ Len(child') = Len(child)
      /\ \A q \in 1 .. Len(child) : child'[q] = IF q = p THEN rec ELSE child[q]
  BY <1>1, <1>2, ExceptSeq
<1>4. ChildrenOK'
  BY <1>3 DEF Inv, ChildrenOK
<1>5. Children = 1 .. Len(child) /\ Children' = 1 .. Len(child)
  BY <1>1, <1>3, LenProperties DEF Children
<1>6. UNCHANGED <<mode, buffer, saved, place, lines, last>>
  BY DEF Update, shell
<1>7. Alone'
  <2>1. child' # <<>>
    BY <1>1, <1>3, EmptySeq
  <2>2. ASSUME NEW q \in Children', ~child'[q].background, child'[q].stage # "reaped"
        PROVE  mode' = "wait" /\ q = Len(child')
    <3>1. q \in Children /\ ~child[q].background /\ child[q].stage # "reaped"
      BY <1>3, <1>5, <2>2
    <3>2. mode = "wait" /\ q = Len(child)
      BY <3>1 DEF Inv, Alone
    <3> QED
      BY <1>3, <1>6, <3>2
  <2> QED
    BY <2>1, <2>2 DEF Alone
<1>8. ShellTypes' /\ HistoryIsLastLine'
  BY <1>6 DEF Inv, ShellTypes, HistoryIsLastLine, place
<1> QED
  BY <1>4, <1>7, <1>8 DEF Inv

\* What execvp(), or its failure, leaves of a child.
LEMMA ExecKeeps ==
  ASSUME NEW rec \in ChildType, NEW argv \in Seq(Words)
  PROVE  /\ Exec(rec, argv) \in ChildType
         /\ Exec(rec, argv).stage \in {"running", "zombie"}
         /\ Exec(rec, argv).args = rec.args
         /\ Exec(rec, argv).background = rec.background
         /\ Exec(rec, argv).stdin = rec.stdin
         /\ Exec(rec, argv).todo = rec.todo /\ Exec(rec, argv).piped = rec.piped
         /\ Exec(rec, argv).argv = IF Runnable(argv) THEN argv ELSE rec.argv
<1>1. CASE Runnable(argv)
  <2>1. Exec(rec, argv) = [rec EXCEPT !.stage = "running", !.argv = argv]
    BY <1>1 DEF Exec
  <2> QED
    BY <1>1, <2>1 DEF ChildType
<1>2. CASE ~Runnable(argv)
  <2>1. Exec(rec, argv) = [rec EXCEPT !.stage = "zombie"]
    BY <1>2 DEF Exec
  <2> QED
    BY <1>2, <2>1 DEF ChildType
<1> QED
  BY <1>1, <1>2

\* A child that has read no pipe and is past its setup is correct.
LEMMA Settled ==
  ASSUME NEW old, ChildOK(old), NEW rec \in ChildType,
         rec.args = old.args, rec.todo = old.todo, rec.piped = old.piped,
         rec.stage \in {"running", "zombie"}, rec.stdin # "pipe"
  PROVE  ChildOK(rec)
BY DEF ChildOK, Within, Unredirected, RightRun

\* The child sets up its redirection or its pipe and executes its program.
LEMMA SetupKeeps ==
  ASSUME Inv, NEW p \in Children, Setup(p)
  PROVE  Inv'
<1> DEFINE c == child[p]
           args == c.args
           j == Symbol(args)
<1>1. c.stage = "setup" /\ ChildOK(c)
  BY LenProperties DEF Setup, Inv, ChildrenOK, Children
<1>2. c \in ChildType /\ args \in Seq(Words) /\ args # <<>> /\ c.stdin = "tty"
      /\ c.todo = 0 /\ c.piped = 0 /\ c.argv = <<>>
  BY <1>1 DEF ChildOK, Unredirected, ChildType
<1>3. /\ j \in 0 .. Len(args) /\ Len(args) \in Nat
      /\ \A k \in 1 .. Len(args) : args[k] \in Words
  BY <1>2, SymbolFound, LenProperties
<1> HIDE DEF c, j
<1>4. ASSUME NEW argv \in Seq(Words)
      PROVE  ChildOK(Exec(c, argv)) /\ Exec(c, argv).background = c.background
  BY <1>1, <1>2, <1>4, ExecKeeps, Settled, LineIsWords
<1>5. CASE Plain(p)
  <2>1. Update(p, Exec(c, args))
    BY <1>5 DEF Plain, c
  <2> QED
    BY <1>1, <1>2, <1>4, <2>1, UpdateKeeps DEF c
<1>6. Before(args, j) \in Seq(Words)
  BY <1>2, <1>3, PartKeeps DEF Before
<1>7. ASSUME Update(p, [c EXCEPT !.stage = "zombie"])
      PROVE  Inv'
  <2> DEFINE rec == [c EXCEPT !.stage = "zombie"]
  <2>1. /\ rec \in ChildType /\ rec.args = c.args /\ rec.todo = c.todo
        /\ rec.piped = c.piped /\ rec.stage = "zombie" /\ rec.stdin # "pipe"
        /\ rec.background = c.background
    BY <1>2 DEF ChildType
  <2> HIDE DEF rec
  <2>2. ChildOK(rec)
    BY <1>1, <2>1, Settled
  <2> QED
    BY <1>1, <1>7, <2>1, <2>2, UpdateKeeps DEF c, rec
<1>8. CASE RedirectIn(p)
  <2>1. CASE Malformed(args, j, ">")
    BY <1>7, <1>8, <2>1 DEF RedirectIn, c, j
  <2>2. CASE ~Malformed(args, j, ">")
    <3>1. j < Len(args)
          /\ \E from \in {args[j + 2], "tty"} :
               Update(p, [Exec(c, Before(args, j)) EXCEPT !.stdin = from])
      BY <1>8, <2>2 DEF RedirectIn, c, j
    <3>2. j + 2 \in 1 .. Len(args)
      BY <1>3, <2>2, <3>1 DEF Malformed
    <3>3. PICK from \in Words \union {"tty"} :
                 Update(p, [Exec(c, Before(args, j)) EXCEPT !.stdin = from])
      BY <1>3, <3>1, <3>2
    <3> DEFINE mid == Exec(c, Before(args, j))
               rec == [mid EXCEPT !.stdin = from]
    <3>4. /\ mid \in ChildType /\ mid.stage \in {"running", "zombie"}
          /\ mid.args = c.args /\ mid.todo = c.todo /\ mid.piped = c.piped
          /\ mid.background = c.background
      BY <1>2, <1>6, ExecKeeps
    <3> HIDE DEF mid
    <3>5. /\ rec \in ChildType /\ rec.args = c.args /\ rec.todo = c.todo
          /\ rec.piped = c.piped /\ rec.stage \in {"running", "zombie"}
          /\ rec.stdin = from /\ rec.background = c.background
      BY <3>4 DEF ChildType
    <3>6. from # "pipe"
      BY <3>3, LineIsWords
    <3>7. Update(p, rec)
      BY <3>3 DEF mid
    <3> HIDE DEF rec
    <3>8. ChildOK(rec)
      BY <1>1, <3>5, <3>6, Settled
    <3> QED
      BY <1>1, <3>5, <3>7, <3>8, UpdateKeeps DEF c
  <2> QED
    BY <2>1, <2>2
<1>9. CASE RedirectOut(p)
  <2>1. CASE Malformed(args, j, "<")
    BY <1>7, <1>9, <2>1 DEF RedirectOut, c, j
  <2>2. CASE ~Malformed(args, j, "<")
    <3>1. j < Len(args)
          /\ \E to \in {args[j + 2], "tty"} :
               Update(p, [Exec(c, Before(args, j)) EXCEPT !.stdout = to])
      BY <1>9, <2>2 DEF RedirectOut, c, j
    <3>2. j + 2 \in 1 .. Len(args)
      BY <1>3, <2>2, <3>1 DEF Malformed
    <3>3. PICK to \in Words \union {"tty"} :
                 Update(p, [Exec(c, Before(args, j)) EXCEPT !.stdout = to])
      BY <1>3, <3>1, <3>2
    <3> DEFINE mid == Exec(c, Before(args, j))
               rec == [mid EXCEPT !.stdout = to]
    <3>4. /\ mid \in ChildType /\ mid.stage \in {"running", "zombie"}
          /\ mid.args = c.args /\ mid.todo = c.todo /\ mid.piped = c.piped
          /\ mid.background = c.background /\ mid.stdin = c.stdin
      BY <1>2, <1>6, ExecKeeps
    <3> HIDE DEF mid
    <3>5. /\ rec \in ChildType /\ rec.args = c.args /\ rec.todo = c.todo
          /\ rec.piped = c.piped /\ rec.stage \in {"running", "zombie"}
          /\ rec.stdin = c.stdin /\ rec.background = c.background
      BY <3>4 DEF ChildType
    <3>7. Update(p, rec)
      BY <3>3 DEF mid
    <3> HIDE DEF rec
    <3>8. ChildOK(rec)
      BY <1>1, <1>2, <3>5, Settled
    <3> QED
      BY <1>1, <3>5, <3>7, <3>8, UpdateKeeps DEF c
  <2> QED
    BY <2>1, <2>2
<1>10. CASE Pipe(p)
  <2>1. CASE Update(p, [c EXCEPT !.stage = "zombie"])
    BY <1>7, <2>1
  <2>2. CASE \E amount \in 0 .. PipeCapacity + 1 :
               Update(p, [c EXCEPT !.stage = "await", !.todo = amount])
    <3>1. PICK amount \in 0 .. PipeCapacity + 1 :
                 Update(p, [c EXCEPT !.stage = "await", !.todo = amount])
      BY <2>2
    <3> DEFINE rec == [c EXCEPT !.stage = "await", !.todo = amount]
    <3>2. /\ rec \in ChildType /\ rec.args = c.args /\ rec.todo = amount
          /\ rec.piped = 0 /\ rec.stage = "await" /\ rec.stdin = "tty"
          /\ rec.background = c.background /\ rec.argv = <<>>
      <4>1. amount \in Nat
        BY LinesAreWords
      <4> QED
        BY <1>2, <4>1 DEF ChildType
    <3>3. Update(p, rec)
      BY <3>1
    <3>4. Symbol(args) < Len(args)
      BY <1>10 DEF Pipe, c
    <3> HIDE DEF rec
    <3>5. Within(rec)
      <4>1. PipeCapacity \in Nat
        BY LinesAreWords
      <4>2. amount + 0 <= PipeCapacity + 1 /\ 0 <= PipeCapacity
        BY <4>1
      <4> QED
        BY <3>2, <4>2 DEF Within
    <3>6. Unredirected(rec) /\ RightRun(rec)
      BY <3>2, <3>4 DEF Unredirected, RightRun
    <3>7. ChildOK(rec)
      BY <1>2, <3>2, <3>5, <3>6 DEF ChildOK
    <3> QED
      BY <1>1, <3>2, <3>3, <3>7, UpdateKeeps DEF c
  <2> QED
    BY <1>10, <2>1, <2>2 DEF Pipe, c
<1> QED
  BY <1>5, <1>8, <1>9, <1>10 DEF Setup

\* The other steps of a child, and the shell's return from waitpid().
LEMMA WriteKeeps ==
  ASSUME Inv, NEW p \in Children, Write(p)
  PROVE  Inv'
<1> DEFINE c == child[p]
           rec == [c EXCEPT !.todo = @ - 1, !.piped = @ + 1]
<1>1. ChildOK(c) /\ c.stage = "await" /\ c.todo > 0 /\ c.piped < PipeCapacity
      /\ Update(p, rec)
  BY LenProperties DEF Write, Inv, ChildrenOK, Children
<1>2. c \in ChildType /\ c.todo \in Nat /\ c.piped \in Nat /\ PipeCapacity \in Nat
      /\ c.todo + c.piped <= PipeCapacity + 1 /\ c.stdin = "tty"
      /\ Symbol(c.args) < Len(c.args) /\ c.args # <<>> /\ c.argv = <<>>
  BY <1>1, LinesAreWords DEF ChildOK, ChildType, Within, Unredirected
<1> HIDE DEF c
<1>3. c.todo - 1 \in Nat /\ c.piped + 1 \in Nat
  BY <1>1, <1>2
<1>4. /\ rec \in ChildType /\ rec.args = c.args /\ rec.stage = "await"
      /\ rec.stdin = "tty" /\ rec.background = c.background
      /\ rec.todo = c.todo - 1 /\ rec.piped = c.piped + 1 /\ rec.argv = <<>>
  BY <1>1, <1>2, <1>3 DEF ChildType
<1> HIDE DEF rec
<1>5. Within(rec)
  BY <1>1, <1>2, <1>4 DEF Within
<1>6. ChildOK(rec)
  BY <1>2, <1>4, <1>5 DEF ChildOK, Unredirected, RightRun
<1> QED
  BY <1>1, <1>4, <1>6, UpdateKeeps DEF c

\* The child of a line with | has read its pipe and goes on as the right side.
LEMMA RunRightKeeps ==
  ASSUME Inv, NEW p \in Children, RunRight(p)
  PROVE  Inv'
<1> DEFINE c == child[p]
           j == Symbol(c.args)
           argv == RightSide(Shifted(c.args, j), j)
           mid == Exec(c, argv)
           rec == [mid EXCEPT !.stdin = "pipe"]
<1>1. ChildOK(c) /\ c.stage = "await" /\ Update(p, rec)
  BY LenProperties DEF RunRight, Inv, ChildrenOK, Children
<1>2. c \in ChildType /\ c.args \in Seq(Words) /\ j < Len(c.args) /\ c.args # <<>>
      /\ Within(c) /\ c.argv = <<>>
  BY <1>1 DEF ChildOK, ChildType, Unredirected
<1>3. j \in Nat
  BY <1>2, SymbolFound
<1> HIDE DEF c
<1>4. /\ argv \in Seq(Words)
      /\ Len(Right(c.args)) <= j /\ Runnable(Right(c.args)) => argv = Right(c.args)
      /\ ~(Len(Right(c.args)) <= j) => argv \in Parts(c.args)
  BY <1>2, <1>3, RightSideOK
<1> HIDE DEF argv
<1>5. /\ mid \in ChildType /\ mid.stage \in {"running", "zombie"}
      /\ mid.args = c.args /\ mid.todo = c.todo /\ mid.piped = c.piped
      /\ mid.background = c.background
      /\ mid.argv = IF Runnable(argv) THEN argv ELSE <<>>
  BY <1>2, <1>4, ExecKeeps
<1> HIDE DEF mid
<1>6. /\ rec \in ChildType /\ rec.args = c.args /\ rec.stage \in {"running", "zombie"}
      /\ rec.background = c.background /\ rec.argv = mid.argv
      /\ rec.todo = c.todo /\ rec.piped = c.piped
  BY <1>5 DEF ChildType
<1> HIDE DEF rec
<1>7. RightRun(rec)
  <2>1. <<>> \in Parts(c.args)
    BY DEF Parts
  <2> QED
    BY <1>4, <1>5, <1>6, <2>1 DEF RightRun
<1>8. ChildOK(rec)
  BY <1>2, <1>6, <1>7 DEF ChildOK, Unredirected, Within
<1> QED
  BY <1>1, <1>6, <1>8, UpdateKeeps DEF c

\* A child ends with its program.
LEMMA FinishKeeps ==
  ASSUME Inv, NEW p \in Children, Finish(p)
  PROVE  Inv'
<1> DEFINE c == child[p]
           rec == [c EXCEPT !.stage = "zombie"]
<1>1. ChildOK(c) /\ c.stage = "running" /\ Update(p, rec)
  BY LenProperties DEF Finish, Inv, ChildrenOK, Children
<1>2. c \in ChildType
  BY <1>1 DEF ChildOK
<1> HIDE DEF c
<1>3. /\ rec \in ChildType /\ rec.args = c.args /\ rec.stage = "zombie"
      /\ rec.stdin = c.stdin /\ rec.background = c.background
      /\ rec.todo = c.todo /\ rec.piped = c.piped /\ rec.argv = c.argv
  BY <1>2 DEF ChildType
<1> HIDE DEF rec
<1>4. ChildOK(rec)
  BY <1>1, <1>3 DEF ChildOK, Unredirected, Within, RightRun
<1> QED
  BY <1>1, <1>3, <1>4, UpdateKeeps DEF c

\* waitpid() returns, and the shell goes on to the next prompt.
LEMMA ReapKeeps ==
  ASSUME Inv, Reap
  PROVE  Inv'
<1> DEFINE p == Len(child)
           c == child[p]
           rec == [c EXCEPT !.stage = "reaped"]
<1>1. /\ mode = "wait" /\ mode' = "prompt" /\ c.stage = "zombie"
      /\ UNCHANGED <<buffer, saved, place, lines, last>>
      /\ child' = [child EXCEPT ![p].stage = "reaped"]
  BY DEF Reap
<1>2. child \in Seq(ChildType) /\ child # <<>> /\ Len(child) \in Nat
      /\ DOMAIN child = 1 .. Len(child)
  BY <1>1, LenProperties DEF Inv, ChildrenOK, Alone
<1>3. p \in 1 .. Len(child)
  BY <1>2, EmptySeq
<1>4. ChildOK(c) /\ c \in ChildType
  BY <1>3 DEF Inv, ChildrenOK, ChildOK
<1>5. child' = [child EXCEPT ![p] = rec]
  BY <1>1, <1>2
<1> HIDE DEF c, p
<1>6. /\ rec \in ChildType /\ rec.args = c.args /\ rec.stage = "reaped"
      /\ rec.stdin = c.stdin /\ rec.background = c.background
      /\ rec.todo = c.todo /\ rec.piped = c.piped /\ rec.argv = c.argv
  BY <1>4 DEF ChildType
<1> HIDE DEF rec
<1>7. ChildOK(rec)
  BY <1>4, <1>6 DEF ChildOK, Unredirected, Within, RightRun
<1>8. /\ child' \in Seq(ChildType) /\ Len(child') = Len(child)
      /\ \A q \in 1 .. Len(child) : child'[q] = IF q = p THEN rec ELSE child[q]
  BY <1>2, <1>3, <1>5, <1>6, ExceptSeq
<1>9. ChildrenOK'
  BY <1>7, <1>8 DEF Inv, ChildrenOK
<1>10. Alone'
  <2>1. Children = 1 .. Len(child) /\ Children' = 1 .. Len(child)
    BY <1>2, <1>8, LenProperties DEF Children
  <2>2. ASSUME NEW q \in Children', ~child'[q].background
        PROVE  child'[q].stage = "reaped"
    <3>1. CASE q = p
      BY <1>3, <1>6, <1>8, <3>1
    <3>2. CASE q # p
      <4>1. q \in Children /\ child'[q] = child[q]
        BY <1>8, <2>1, <3>2
      <4> QED
        BY <2>2, <3>2, <4>1 DEF Inv, Alone, p
    <3> QED
      BY <3>1, <3>2
  <2> QED
    BY <1>1, <2>2 DEF Alone
<1>11. ShellTypes'
  BY <1>1 DEF Inv, ShellTypes, place
<1>12. HistoryIsLastLine'
  BY <1>1 DEF Inv, HistoryIsLastLine
<1> QED
  BY <1>9, <1>10, <1>11, <1>12 DEF Inv

\* Whatever a child does keeps the invariant.
LEMMA RunKeeps ==
  ASSUME Inv, Run
  PROVE  Inv'
BY SetupKeeps, WriteKeeps, RunRightKeeps, FinishKeeps, ReapKeeps DEF Run, Process

-----------------------------------------------------------------------------
(* Paths.                                                                  *)

\* Appending to a sequence, and putting together two.
LEMMA Longer ==
  ASSUME NEW S, NEW s \in Seq(S), NEW x \in S
  PROVE  Append(s, x) \in Seq(S) /\ s \o <<x>> \in Seq(S)
<1>1. <<x>> \in Seq(S)
  OBVIOUS
<1> QED
  BY <1>1, ConcatProperties

\* Induction over the numbers up to bound, for the set Q of those with the property.
LEMMA UpTo ==
  ASSUME NEW bound \in Nat, NEW Q, 0 \in Q,
         \A k \in 1 .. bound : k - 1 \in Q => k \in Q
  PROVE  \A k \in 0 .. bound : k \in Q
<1> DEFINE T == (0 .. bound) \ Q
<1> SUFFICES ASSUME T # {} PROVE FALSE
  OBVIOUS
<1>1. T \in SUBSET Nat
  OBVIOUS
<1> HIDE DEF T
<1>2. PICK r \in T : \A y \in T : ~ (<<y, r>> \in OpToRel(<, Nat))
  BY <1>1, NatLessThanWellFounded, WFMin
<1>3. r \in 0 .. bound /\ r \notin Q
  BY DEF T
<1>4. r # 0 /\ r \in 1 .. bound /\ r - 1 \in Nat /\ r \in Nat /\ r - 1 < r
  BY <1>3
<1>5. r - 1 \notin T
  BY <1>2, <1>4 DEF OpToRel
<1> QED
  BY <1>3, <1>4, <1>5 DEF T

\* g is defined on 0 .. bound by its first value v0 and what step makes of a value
Iterates(g, bound, V, v0, step) ==
  /\ g \in [0 .. bound -> V]
  /\ g[0] = v0
  /\ \A k \in 1 .. bound : g[k] = step[k][g[k - 1]]

\* A function on 0 .. bound may be defined by recursion.
LEMMA RecursionExists ==
  ASSUME NEW bound \in Nat, NEW V, NEW v0 \in V,
         NEW step \in [1 .. bound -> [V -> V]]
  PROVE  \E g : Iterates(g, bound, V, v0, step)
<1> DEFINE Solves(g, m) == g[0] = v0 /\ \A k \in 1 .. m : g[k] = step[k][g[k - 1]]
           Q == {m \in 0 .. bound : \E g \in [0 .. m -> V] : Solves(g, m)}
<1>1. 0 \in Q
  <2> DEFINE g == [k \in 0 .. 0 |-> v0]
  <2>1. g \in [0 .. 0 -> V] /\ Solves(g, 0)
    OBVIOUS
  <2> HIDE DEF g, Solves
  <2>2. 0 \in 0 .. bound
    OBVIOUS
  <2> QED
    BY <2>1, <2>2
<1>2. ASSUME NEW m \in 1 .. bound, m - 1 \in Q PROVE m \in Q
  <2>1. PICK g \in [0 .. m - 1 -> V] : Solves(g, m - 1)
    BY <1>2
  <2> DEFINE h == [k \in 0 .. m |-> IF k = m THEN step[m][g[m - 1]] ELSE g[k]]
  <2>2. step[m][g[m - 1]] \in V
    OBVIOUS
  <2>3. h \in [0 .. m -> V]
    BY <2>2
  <2>4. ASSUME NEW k \in 1 .. m PROVE h[k] = step[k][h[k - 1]]
    BY <2>1
  <2>5. Solves(h, m)
    BY <2>1, <2>4
  <2> HIDE DEF h, Solves
  <2>6. m \in 0 .. bound
    OBVIOUS
  <2> QED
    BY <2>3, <2>5, <2>6
<1> HIDE DEF Q
<1>3. \A m \in 1 .. bound : m - 1 \in Q => m \in Q
  BY <1>2
<1>4. \A m \in 0 .. bound : m \in Q
  BY <1>1, <1>3, UpTo
<1>5. bound \in Q
  BY <1>4
<1> QED
  BY <1>5 DEF Q, Iterates

\* A part of a sequence.
LEMMA Part ==
  ASSUME NEW S, NEW s \in Seq(S), NEW a \in Nat, NEW z \in Int, 1 <= a, z <= Len(s)
  PROVE  /\ SubSeq(s, a, z) \in Seq(S)
         /\ Len(SubSeq(s, a, z)) = IF a <= z THEN z - a + 1 ELSE 0
         /\ \A k \in 1 .. z - a + 1 : SubSeq(s, a, z)[k] = s[a + k - 1]
<1>1. \A k \in a .. z : k \in 1 .. Len(s)
  BY LenProperties
<1>2. \A k \in a .. z : s[k] \in S
  BY <1>1, LenProperties
<1> QED
  BY <1>2, SubSeqProperties

\* What a sequence put together from two is made of.
LEMMA Joined ==
  ASSUME NEW S, NEW s \in Seq(S), NEW u \in Seq(S)
  PROVE  /\ s \o u \in Seq(S) /\ Len(s \o u) = Len(s) + Len(u)
         /\ Len(s) \in Nat /\ Len(u) \in Nat
         /\ \A k \in 1 .. Len(s) : (s \o u)[k] = s[k]
         /\ \A k \in 1 .. Len(u) : (s \o u)[Len(s) + k] = u[k]
<1>1. PICK m \in Nat, n \in Nat : m = Len(s) /\ n = Len(u)
  BY LenProperties
<1>2. /\ s \o u \in Seq(S) /\ Len(s \o u) = m + n
      /\ \A k \in 1 .. m + n : (s \o u)[k] = IF k <= m THEN s[k] ELSE u[k - m]
  BY <1>1, ConcatProperties
<1>3. \A k \in 1 .. m : k \in 1 .. m + n /\ k <= m
  OBVIOUS
<1>4. \A k \in 1 .. n : m + k \in 1 .. m + n /\ ~(m + k <= m) /\ (m + k) - m = k
  OBVIOUS
<1>5. \A k \in 1 .. m : (s \o u)[k] = s[k]
  BY <1>2, <1>3
<1>6. \A k \in 1 .. n : (s \o u)[m + k] = u[k]
  BY <1>2, <1>4
<1> QED
  BY <1>1, <1>2, <1>5, <1>6

\* where a path ends that is followed from a directory
Paths == Seq(Text)
End(from, path) == Followed(from, path)[Len(path)]

\* Below a path is a path.
LEMMA PathType ==
  ASSUME NEW dir \in Paths, NEW part \in Text
  PROVE  Below(dir, part) \in Paths
<1>1. Front(dir) \in Paths /\ Append(dir, part) \in Paths
  BY PartKeeps, Longer DEF Paths
<1> QED
  BY <1>1 DEF Below

\* Followed is defined by its recursion, and all directories on the way are paths.
LEMMA FollowedUnfold ==
  ASSUME NEW from \in Paths, NEW path \in Paths
  PROVE  /\ Followed(from, path)[0] = from
         /\ \A k \in 1 .. Len(path) :
              Followed(from, path)[k] = Below(Followed(from, path)[k - 1], path[k])
         /\ \A k \in 0 .. Len(path) : Followed(from, path)[k] \in Paths
<1> DEFINE e == Len(path)
           step == [k \in 1 .. e |-> [dir \in Paths |-> Below(dir, path[k])]]
           Def(f) == f = [k \in 0 .. e |-> IF k = 0 THEN from
                                           ELSE Below(f[k - 1], path[k])]
<1>1. e \in Nat /\ \A k \in 1 .. e : path[k] \in Text
  BY LenProperties DEF Paths
<1> HIDE DEF e
<1>2. step \in [1 .. e -> [Paths -> Paths]]
  BY <1>1, PathType
<1>3. PICK g : Iterates(g, e, Paths, from, step)
  <2> HIDE DEF step
  <2> QED
    BY <1>1, <1>2, RecursionExists
<1>4. /\ g \in [0 .. e -> Paths] /\ g[0] = from
      /\ \A k \in 1 .. e : g[k] = Below(g[k - 1], path[k])
  <2>1. /\ g \in [0 .. e -> Paths] /\ g[0] = from
        /\ \A k \in 1 .. e : g[k] = step[k][g[k - 1]]
    BY <1>3 DEF Iterates
  <2>2. \A k \in 1 .. e : g[k - 1] \in Paths
    BY <1>1, <2>1
  <2> QED
    BY <2>1, <2>2
<1>5. Def(g)
  BY <1>1, <1>4
<1>6. Followed(from, path) = CHOOSE f : Def(f)
  BY DEF Followed, e
<1>7. Def(Followed(from, path))
  BY <1>5, <1>6
<1> DEFINE F == Followed(from, path)
<1>8. F = [k \in 0 .. e |-> IF k = 0 THEN from ELSE Below(F[k - 1], path[k])]
  BY <1>7
<1> HIDE DEF F
<1>9. F[0] = from /\ \A k \in 1 .. e : F[k] = Below(F[k - 1], path[k])
  BY <1>1, <1>8
<1> DEFINE Q == {k \in 0 .. e : F[k] \in Paths}
<1>10. 0 \in Q
  BY <1>1, <1>9
<1>11. ASSUME NEW k \in 1 .. e, k - 1 \in Q PROVE k \in Q
  <2>1. Below(F[k - 1], path[k]) \in Paths
    BY <1>1, <1>11, PathType
  <2> QED
    BY <1>1, <1>9, <2>1
<1> HIDE DEF Q
<1>12. \A k \in 0 .. e : k \in Q
  BY <1>1, <1>10, <1>11, UpTo
<1> QED
  BY <1>9, <1>12 DEF F, e, Q

\* Two paths are followed one after the other.
LEMMA FollowedOn ==
  ASSUME NEW from \in Paths, NEW first \in Paths, NEW second \in Paths
  PROVE  /\ End(from, first) \in Paths
         /\ End(from, first \o second) = End(End(from, first), second)
<1> DEFINE dir == End(from, first)
           m == Len(first)
           n == Len(second)
           both == first \o second
           F == Followed(from, first)
           G == Followed(dir, second)
           H == Followed(from, both)
           P == {k \in 0 .. m : H[k] = F[k]}
           Q == {k \in 0 .. n : H[m + k] = G[k]}
<1>0. dir = F[m]
  BY DEF End
<1> HIDE DEF dir
<1>1. /\ m \in Nat /\ n \in Nat /\ both \in Paths /\ Len(both) = m + n
      /\ \A k \in 1 .. m : both[k] = first[k]
      /\ \A k \in m + 1 .. m + n : both[k] = second[k - m]
  BY LenProperties, ConcatProperties DEF Paths
<1>2. /\ F[0] = from /\ \A k \in 1 .. m : F[k] = Below(F[k - 1], first[k])
      /\ F[m] \in Paths
  BY <1>1, FollowedUnfold
<1>3. G[0] = F[m] /\ \A k \in 1 .. n : G[k] = Below(G[k - 1], second[k])
  <2>1. dir \in Paths
    BY <1>0, <1>2
  <2> QED
    BY <1>0, <2>1, FollowedUnfold
<1>4. H[0] = from /\ \A k \in 1 .. m + n : H[k] = Below(H[k - 1], both[k])
  <2> HIDE DEF both
  <2>1. H[0] = from /\ \A k \in 1 .. Len(both) : H[k] = Below(H[k - 1], both[k])
    BY <1>1, FollowedUnfold
  <2> QED
    BY <1>1, <2>1
<1> HIDE DEF m, n, both, F, G, H
<1>5. 0 \in P
  BY <1>1, <1>2, <1>4
<1>6. ASSUME NEW k \in 1 .. m, k - 1 \in P PROVE k \in P
  <2>1. k \in 1 .. m + n /\ k \in 0 .. m
    BY <1>1
  <2> QED
    BY <1>1, <1>2, <1>4, <1>6, <2>1
<1> HIDE DEF P
<1>7. \A k \in 0 .. m : k \in P
  BY <1>1, <1>5, <1>6, UpTo
<1>8. H[m] = F[m]
  BY <1>1, <1>7 DEF P
<1>9. 0 \in Q
  <2>1. m + 0 = m /\ 0 \in 0 .. n
    BY <1>1
  <2> QED
    BY <1>3, <1>8, <2>1
<1>10. ASSUME NEW k \in 1 .. n, k - 1 \in Q PROVE k \in Q
  <2>1. /\ m + k \in 1 .. m + n /\ m + k \in m + 1 .. m + n /\ k \in 0 .. n
        /\ (m + k) - m = k /\ m + (k - 1) = (m + k) - 1
    BY <1>1
  <2>2. H[m + k] = Below(H[(m + k) - 1], both[m + k]) /\ both[m + k] = second[k]
    BY <1>1, <1>4, <2>1
  <2>3. H[(m + k) - 1] = G[k - 1]
    BY <1>10, <2>1
  <2>4. H[m + k] = G[k]
    BY <1>3, <2>2, <2>3
  <2> QED
    BY <2>1, <2>4
<1> HIDE DEF Q
<1>11. \A k \in 0 .. n : k \in Q
  BY <1>1, <1>9, <1>10, UpTo
<1>12. H[m + n] = G[n]
  BY <1>1, <1>11 DEF Q
<1>13. End(from, both) = H[m + n] /\ End(dir, second) = G[n]
  BY <1>1 DEF End, H, G, n
<1> QED
  BY <1>0, <1>2, <1>12, <1>13 DEF dir, both

\* Where a directory is reached is a path, and so is what the prompt becomes.
LEMMA CdKeeps ==
  ASSUME cwd \in Paths, cwd_buff \in Paths, NEW word \in Words
  PROVE  /\ Reached(Spelling[word]) \in Paths
         /\ Append(IF word = "." THEN deleteEnd(cwd_buff)
                   ELSE Enter(cwd_buff, Spelling[word]), ">") \in Paths
<1>1. PICK path \in Paths : path = Spelling[word]
  BY PathsAreText DEF Paths
<1>2. Reached(path) \in Paths
  <2>1. PICK from \in Paths : from = IF Absolute(path) THEN <<>> ELSE cwd
    <3>1. <<>> \in Paths
      BY EmptySeq DEF Paths
    <3> QED
      BY <3>1
  <2>2. Len(path) \in 0 .. Len(path)
    BY LenProperties DEF Paths
  <2> QED
    BY <2>1, <2>2, FollowedUnfold DEF Reached
<1>3. ">" \in Text /\ "/" \in Text /\ ":" \in Text
  BY DEF Text
<1>4. Append(deleteEnd(cwd_buff), ">") \in Paths
  BY <1>3, deleteEndKeeps, Longer DEF Paths
<1>5. Append(Enter(cwd_buff, path), ">") \in Paths
  <2>1. PICK sep \in Text : Enter(cwd_buff, path) = (Front(cwd_buff) \o <<sep>>) \o path
    BY <1>3 DEF Enter
  <2>2. Front(cwd_buff) \o <<sep>> \in Paths
    BY PartKeeps, Longer DEF Paths
  <2>3. (Front(cwd_buff) \o <<sep>>) \o path \in Paths
    BY <2>2, ConcatProperties DEF Paths
  <2> QED
    BY <1>3, <2>1, <2>3, Longer DEF Paths
<1> QED
  BY <1>1, <1>2, <1>4, <1>5

-----------------------------------------------------------------------------
(* A line.                                                                 *)

\* The words of a line, with and without its &.
LEMMA ArgsAreWords ==
  ASSUME NEW words \in Lines, words # <<>>
  PROVE  words \in Seq(Words) /\ Front(words) \in Seq(Words)
BY LineIsWords, PartKeeps

\* A shell that reads has no child of a line without & left: neither stopping
\* nor changing directory disturbs the children.
LEMMA StillAlone ==
  ASSUME Inv, mode # "wait", mode' # "wait", UNCHANGED child
  PROVE  ChildrenOK' /\ Alone'
BY DEF Inv, ChildrenOK, Alone, Children

\* A child is appended.
LEMMA LaunchKeeps ==
  ASSUME Inv, mode # "wait", NEW args \in Seq(Words), args # <<>>,
         NEW background \in BOOLEAN, Launch(args, background)
  PROVE  ChildrenOK' /\ Alone'
         /\ mode' \in {"prompt", "inner", "spin", "wait", "exited", "crashed"}
<1>1. CASE mode' \in Returned /\ UNCHANGED child
  BY <1>1, StillAlone DEF Returned
<1>2. CASE /\ child' = Append(child, NewChild(args, background))
           /\ mode' = IF background THEN "prompt" ELSE "wait"
  <2> DEFINE rec == NewChild(args, background)
             n == Len(child)
  <2>1. /\ rec.stage = "setup" /\ rec.background = background /\ rec.args = args
        /\ rec.stdin = "tty" /\ rec.todo = 0 /\ rec.piped = 0 /\ rec.argv = <<>>
    BY DEF NewChild, Nothing
  <2>2. rec \in ChildType
    <3>1. Nothing \in Seq(Words)
      BY EmptySeq DEF Nothing
    <3> QED
      BY <3>1 DEF NewChild, ChildType
  <2> HIDE DEF rec
  <2>3. ChildOK(rec)
    <3>1. PipeCapacity \in Nat
      BY LinesAreWords
    <3>2. Within(rec)
      BY <2>1, <3>1 DEF Within
    <3> QED
      BY <2>1, <2>2, <3>2 DEF ChildOK, Unredirected, RightRun
  <2>4. child \in Seq(ChildType) /\ n \in Nat
    BY LenProperties DEF Inv, ChildrenOK
  <2>5. /\ child' \in Seq(ChildType) /\ Len(child') = n + 1
        /\ \A q \in 1 .. n : child'[q] = child[q]
        /\ child'[n + 1] = rec
    BY <1>2, <2>2, <2>4 DEF rec
  <2>6. ASSUME NEW q \in 1 .. n + 1 PROVE q \in 1 .. n \/ q = n + 1
    BY <2>4
  <2>7. ChildrenOK'
    BY <2>3, <2>5, <2>6 DEF Inv, ChildrenOK
  <2>8. Children = 1 .. n /\ Children' = 1 .. n + 1
    BY <2>4, <2>5, LenProperties DEF Children
  <2> HIDE DEF n
  <2>9. ASSUME NEW q \in Children', ~child'[q].background, child'[q].stage # "reaped"
        PROVE  mode' = "wait" /\ q = Len(child')
    <3>1. q \notin 1 .. n
      <4>1. ASSUME q \in 1 .. n PROVE FALSE
        BY <2>5, <2>8, <2>9, <4>1 DEF Inv, Alone
      <4> QED
        BY <4>1
    <3>2. q = n + 1
      BY <2>6, <2>8, <3>1
    <3>3. ~background
      BY <2>1, <2>5, <2>9, <3>2
    <3> QED
      BY <1>2, <2>5, <3>2, <3>3
  <2>10. child' # <<>>
    BY <2>4, <2>5, EmptySeq
  <2>11. Alone'
    BY <2>9, <2>10 DEF Alone
  <2> QED
    BY <1>2, <2>7, <2>11
<1> QED
  BY <1>1, <1>2 DEF Launch

\* A line that is not empty is obeyed.
LEMMA ObeyKeeps ==
  ASSUME Inv, mode \in {"prompt", "inner"}, NEW words \in Lines, words # <<>>,
         Obey(words), last' = words, saved' \in BOOLEAN, buffer' \in Lines,
         lines' \in 0 .. MaxLines, saved' => buffer' = words
  PROVE  Inv'
<1> DEFINE background == Last(words) = "&"
           args == IF background THEN Front(words) ELSE words
<1>1. args \in Seq(Words) /\ background \in BOOLEAN
  BY ArgsAreWords
<1>2. \/ Stop({"crashed"}) \/ Stop(Returned)
      \/ args # <<>> /\ ChangeDir(args)
      \/ args # <<>> /\ Launch(args, background)
  BY DEF Obey
<1> HIDE DEF args, background
<1> SUFFICES /\ ChildrenOK' /\ Alone'
             /\ mode' \in {"prompt", "inner", "spin", "wait", "exited", "crashed"}
             /\ cwd' \in Seq(Text) /\ cwd_buff' \in Seq(Text) /\ junk' \in Leftovers
             /\ overrun' \in BOOLEAN /\ astray' \in BOOLEAN
  BY DEF Inv, ShellTypes, HistoryIsLastLine
<1>3. /\ cwd \in Seq(Text) /\ cwd_buff \in Seq(Text) /\ junk \in Leftovers
      /\ overrun \in BOOLEAN /\ astray \in BOOLEAN
  BY DEF Inv, ShellTypes
<1>4. CASE Stop({"crashed"}) \/ Stop(Returned)
  <2>1. mode' \in {"crashed", "exited"} /\ UNCHANGED <<child, place>>
    BY <1>4 DEF Stop, Returned
  <2> QED
    BY <1>3, <2>1, StillAlone DEF place
<1>5. CASE args # <<>> /\ ChangeDir(args)
  <2>1. mode' \in {"prompt", "crashed"} /\ UNCHANGED <<child, junk>>
    BY <1>5 DEF ChangeDir, place
  <2>2. ChildrenOK' /\ Alone'
    BY <2>1, StillAlone
  <2>3. CASE UNCHANGED place
    BY <1>3, <2>1, <2>2, <2>3 DEF place
  <2>4. CASE ~UNCHANGED place
    <3>1. /\ Len(args) > 1 /\ cwd' = Reached(Spelling[args[2]])
          /\ cwd_buff' = Append(IF args[2] = "." THEN deleteEnd(cwd_buff)
                                ELSE Enter(cwd_buff, Spelling[args[2]]), ">")
          /\ overrun' = (overrun \/ strlen(cwd_buff') >= MAX_LINE)
          /\ astray' = (astray \/ args[2] = "." \/ Absolute(Spelling[args[2]]))
      BY <1>5, <2>4 DEF ChangeDir
    <3>2. args[2] \in Words
      BY <1>1, <3>1, LenProperties
    <3>3. overrun' \in BOOLEAN /\ astray' \in BOOLEAN
      BY <3>1
    <3>4. cwd' \in Seq(Text) /\ cwd_buff' \in Seq(Text)
      BY <1>3, <3>1, <3>2, CdKeeps DEF Paths
    <3> QED
      BY <1>3, <2>1, <2>2, <3>3, <3>4
  <2> QED
    BY <2>3, <2>4
<1>6. CASE args # <<>> /\ Launch(args, background)
  <2>1. UNCHANGED place
    BY <1>6 DEF Launch
  <2> QED
    BY <1>1, <1>3, <1>6, <2>1, LaunchKeeps DEF place
<1> QED
  BY <1>2, <1>4, <1>5, <1>6

\* An empty line and the end of the input leave the children alone.
LEMMA NoCommandKeeps ==
  ASSUME Inv, mode \in {"prompt", "inner"}, mode' \in {"inner", "spin"},
         UNCHANGED <<place, child, last>>, buffer' \in Lines,
         saved' \in BOOLEAN, lines' \in 0 .. MaxLines
  PROVE  Inv'
<1>1. ChildrenOK' /\ Alone'
  BY StillAlone
<1>2. ShellTypes' /\ HistoryIsLastLine'
  BY DEF Inv, ShellTypes, HistoryIsLastLine, place
<1> QED
  BY <1>1, <1>2 DEF Inv

\* A line read at the prompt.
LEMMA ReadLineKeeps ==
  ASSUME Inv, NEW line \in Lines, ReadLine(line)
  PROVE  Inv'
<1> DEFINE recall == line = <<"!!">>
           input == IF recall /\ saved THEN buffer ELSE line
<1>1. /\ mode = "prompt" /\ CanRead
      /\ buffer' = IF recall THEN buffer ELSE line
      /\ saved' = (saved \/ ~recall)
      /\ \/ /\ mode' = "inner"
            /\ UNCHANGED <<place, child, last>>
         \/ input # <<>> /\ last' = input /\ Obey(input)
  BY DEF ReadLine
<1>2. buffer \in Lines /\ saved \in BOOLEAN /\ lines \in 0 .. MaxLines
      /\ MaxLines \in Nat
  BY LinesAreWords DEF Inv, ShellTypes
<1>3. lines' \in 0 .. MaxLines
  BY <1>1, <1>2 DEF CanRead
<1>4. input \in Lines /\ buffer' \in Lines
  BY <1>1, <1>2
<1>5. saved' \in BOOLEAN
  BY <1>1
<1>6. saved' => buffer' = input
  BY <1>1, <1>2
<1> HIDE DEF input
<1>7. CASE mode' = "inner" /\ UNCHANGED <<place, child, last>>
  BY <1>1, <1>3, <1>4, <1>5, <1>7, NoCommandKeeps
<1>8. CASE input # <<>> /\ last' = input /\ Obey(input)
  BY <1>1, <1>3, <1>4, <1>5, <1>6, <1>8, ObeyKeeps
<1> QED
  BY <1>1, <1>7, <1>8

\* A line read at the prompt inside the loop that an empty line leads to.
LEMMA ReadInnerKeeps ==
  ASSUME Inv, NEW line \in Lines, ReadInner(line)
  PROVE  Inv'
<1>1. /\ mode = "inner" /\ CanRead /\ buffer' = line /\ saved' = TRUE
      /\ \/ UNCHANGED <<mode, place, child, last>>
         \/ line # <<>> /\ last' = line /\ Obey(line)
  BY DEF ReadInner
<1>2. lines \in 0 .. MaxLines /\ MaxLines \in Nat
  BY LinesAreWords DEF Inv, ShellTypes
<1>3. lines' \in 0 .. MaxLines /\ saved' \in BOOLEAN /\ buffer' \in Lines
  BY <1>1, <1>2 DEF CanRead
<1>4. CASE UNCHANGED <<mode, place, child, last>>
  BY <1>1, <1>3, <1>4, NoCommandKeeps
<1>5. CASE line # <<>> /\ last' = line /\ Obey(line)
  BY <1>1, <1>3, <1>5, ObeyKeeps
<1> QED
  BY <1>1, <1>4, <1>5

\* Nothing is left to read.
LEMMA EndOfInputKeeps ==
  ASSUME Inv, EndOfInput
  PROVE  Inv'
<1>1. /\ mode \in {"prompt", "inner"} /\ mode' = "spin" /\ buffer' = <<>>
      /\ saved' = TRUE /\ UNCHANGED <<place, child, lines, last>>
  BY DEF EndOfInput, Nothing
<1>2. buffer' \in Lines /\ saved' \in BOOLEAN /\ lines' \in 0 .. MaxLines
  BY <1>1, LinesAreWords DEF Inv, ShellTypes
<1> QED
  BY <1>1, <1>2, NoCommandKeeps

-----------------------------------------------------------------------------
(* The theorems.                                                           *)

\* The shell has read nothing and has no child.
LEMMA InitInv == Init => Inv
<1> SUFFICES ASSUME Init PROVE Inv
  OBVIOUS
<1>1. /\ mode \in {"prompt", "crashed"} /\ buffer = <<>> /\ saved = FALSE
      /\ cwd = Home /\ cwd_buff = junk \o <<"osh", ">">> /\ child = <<>>
      /\ lines = 0 /\ last = <<>> /\ astray = FALSE /\ junk \in Leftovers
  BY DEF Init, Nothing
<1>2. overrun \in BOOLEAN
  BY DEF Init
<1>3. cwd_buff \in Seq(Text)
  <2>1. "osh" \in Text /\ ">" \in Text
    BY DEF Text
  <2>2. <<"osh", ">">> \in Seq(Text)
    BY <2>1
  <2>3. junk \in Seq(Text)
    BY <1>1, PathsAreText
  <2> QED
    BY <1>1, <2>2, <2>3, ConcatProperties
<1>4. ShellTypes
  <2>1. <<>> \in Lines /\ MaxLines \in Nat /\ Home \in Seq(Text)
    BY LinesAreWords, PathsAreText
  <2>2. lines \in 0 .. MaxLines
    BY <1>1, <2>1
  <2> QED
    BY <1>1, <1>2, <1>3, <2>1, <2>2 DEF ShellTypes
<1>5. Len(child) = 0 /\ Children = {} /\ child \in Seq(ChildType)
  BY <1>1, EmptySeq, LenProperties DEF Children
<1>6. ChildrenOK
  BY <1>5 DEF ChildrenOK
<1>7. Alone /\ HistoryIsLastLine
  BY <1>1, <1>5 DEF Alone, HistoryIsLastLine
<1> QED
  BY <1>4, <1>6, <1>7 DEF Inv

\* Every step of the shell and of its children keeps the invariant.
LEMMA StepInv == Inv /\ [Next]_vars => Inv'
<1> SUFFICES ASSUME Inv, [Next]_vars PROVE Inv'
  OBVIOUS
<1>1. CASE Run
  BY <1>1, RunKeeps
<1>2. CASE EndOfInput
  BY <1>2, EndOfInputKeeps
<1>3. ASSUME NEW line \in Lines, ReadLine(line) \/ ReadInner(line)
      PROVE  Inv'
  BY <1>3, ReadLineKeeps, ReadInnerKeeps
<1>4. CASE UNCHANGED vars
  BY <1>4 DEF vars, shell, place, Inv, ShellTypes, ChildrenOK, Alone, Children,
              HistoryIsLastLine
<1> QED
  BY <1>1, <1>2, <1>3, <1>4 DEF Next

\* The invariant holds in every state of the shell and its children.
THEOREM Invariance == Spec => []Inv
BY InitInv, StepInv, PTL DEF Spec

\* What !! recalls at a prompt is the last line carried out.
THEOREM HistoryKept == Spec => []HistoryIsLastLine
<1>1. Inv => HistoryIsLastLine
  BY DEF Inv
<1> QED
  BY <1>1, Invariance, PTL

\* Two lines without & never run at the same time.
THEOREM OneInForeground == Spec => []ForegroundRunsAlone
<1>1. Inv => TypeOK
  <2> SUFFICES ASSUME Inv PROVE TypeOK
    OBVIOUS
  <2>1. ASSUME NEW p \in Children
        PROVE  /\ child[p].stage \in {"setup", "await", "running", "zombie", "reaped"}
               /\ child[p].argv \in Seq(Words)
               /\ child[p].stdin \in Words \union {"tty", "pipe"}
               /\ child[p].stdout \in Words \union {"tty"}
               /\ child[p].todo + child[p].piped \in 0 .. PipeCapacity + 1
               /\ child[p].piped <= PipeCapacity
    <3> DEFINE c == child[p]
    <3>1. ChildOK(c)
      BY LenProperties DEF Inv, ChildrenOK, Children
    <3>2. c \in ChildType /\ Within(c)
      BY <3>1 DEF ChildOK
    <3> HIDE DEF c
    <3>3. c.todo \in Nat /\ c.piped \in Nat /\ PipeCapacity \in Nat
      BY <3>2, LinesAreWords DEF ChildType
    <3>4. c.todo + c.piped \in 0 .. PipeCapacity + 1 /\ c.piped <= PipeCapacity
      BY <3>2, <3>3 DEF Within
    <3>5. /\ c.stage \in {"setup", "await", "running", "zombie", "reaped"}
          /\ c.argv \in Seq(Words) /\ c.stdin \in Words \union {"tty", "pipe"}
          /\ c.stdout \in Words \union {"tty"}
      BY <3>2 DEF ChildType
    <3> QED
      BY <3>4, <3>5 DEF c
  <2> QED
    BY <2>1 DEF TypeOK, Inv, ShellTypes
<1>2. Inv => ForegroundRunsAlone
  BY <1>1 DEF Inv, Alone, ForegroundRunsAlone
<1> QED
  BY <1>2, Invariance, PTL

\* The command behind | runs with all its words if there are no more of them
\* than before it, and never if there are more.
THEOREM RightSideKept == Spec => []RightSideComplete
<1>1. Inv => RightSideComplete
  <2> SUFFICES ASSUME Inv, NEW p \in Children
               PROVE  RightRun(child[p])
    BY DEF RightSideComplete, RightRun, Right, Parts
  <2>1. ChildOK(child[p])
    BY LenProperties DEF Inv, ChildrenOK, Children
  <2> QED
    BY <2>1 DEF ChildOK
<1> QED
  BY <1>1, Invariance, PTL

-----------------------------------------------------------------------------
(* The prompt until somebody uses "cd ." or a path that begins with /.     *)

\* The prompt consists of what was in cwd_buff, of osh, of the path, and of >.
Prompts ==
  /\ Len(cwd_buff) >= Len(junk) + 2
  /\ Followed(Home, Shown)[Len(Shown)] = cwd
PromptInv == ~astray => Prompts

\* the prompt after a successful cd to path
Entered(prompt, path) == Append(Enter(prompt, path), ">")

\* What Enter() does to a prompt: the > makes way for a separator and the path.
LEMMA EnterExtends ==
  ASSUME NEW prompt \in Paths, NEW path \in Paths, prompt # <<>>
  PROVE  \E sep \in {"/", ":"} :
           /\ Entered(prompt, path) \in Paths
           /\ Len(Entered(prompt, path)) = Len(prompt) + Len(path) + 1
           /\ Entered(prompt, path)[Len(prompt)] = sep
           /\ \A k \in 1 .. Len(prompt) - 1 : Entered(prompt, path)[k] = prompt[k]
           /\ \A k \in 1 .. Len(path) : Entered(prompt, path)[Len(prompt) + k] = path[k]
<1>0. PICK n \in Nat, p \in Nat : n = Len(prompt) /\ p = Len(path) /\ n > 0
  <2>1. Len(prompt) \in Nat /\ Len(path) \in Nat /\ Len(prompt) > 0
    BY LenProperties, EmptySeq DEF Paths
  <2> QED
    BY <2>1
<1>01. PICK longer : longer = Append(Enter(prompt, path), ">")
  OBVIOUS
<1>1. Front(prompt) \in Paths /\ Len(Front(prompt)) = n - 1
      /\ \A k \in 1 .. n - 1 : Front(prompt)[k] = prompt[k]
  <2>2. \A k \in 1 .. n - 1 : prompt[k] \in Text
    BY <1>0, LenProperties DEF Paths
  <2>3. \A k \in 1 .. n - 1 : SubSeq(prompt, 1, n - 1)[k] = prompt[k]
    BY <2>2, SubSeqProperties
  <2> QED
    BY <1>0, <2>3, PartKeeps DEF Front, Paths
<1>2. PICK cut \in Paths : cut = Front(prompt)
  BY <1>1
<1>3. PICK sep \in {"/", ":"} : Enter(prompt, path) = (cut \o <<sep>>) \o path
  BY <1>2 DEF Enter
<1>4. sep \in Text /\ ">" \in Text
  BY DEF Text
<1>5. PICK one \in Paths : one = cut \o <<sep>>
  BY <1>4, Longer DEF Paths
<1>6. Len(one) = n /\ one[n] = sep /\ \A k \in 1 .. n - 1 : one[k] = prompt[k]
  <2>1. <<sep>> \in Seq(Text) /\ Len(<<sep>>) = 1 /\ <<sep>>[1] = sep
    BY <1>4
  <2>2. /\ Len(one) = Len(cut) + 1
        /\ \A k \in 1 .. Len(cut) : one[k] = cut[k]
        /\ \A k \in 1 .. 1 : one[Len(cut) + k] = <<sep>>[k]
    BY <1>5, <2>1, Joined DEF Paths
  <2>3. Len(cut) = n - 1 /\ \A k \in 1 .. n - 1 : cut[k] = prompt[k]
    BY <1>1, <1>2
  <2>4. one[Len(cut) + 1] = sep /\ Len(cut) + 1 = n
    <3>1. 1 \in 1 .. 1
      OBVIOUS
    <3>2. one[Len(cut) + 1] = <<sep>>[1]
      BY <2>2, <3>1
    <3> QED
      BY <2>1, <2>3, <3>2
  <2> QED
    BY <2>2, <2>3, <2>4
<1>7. PICK two \in Paths : two = one \o path
  BY Joined DEF Paths
<1>8. /\ Len(two) = n + p
      /\ \A k \in 1 .. n : two[k] = one[k]
      /\ \A k \in 1 .. p : two[n + k] = path[k]
  <2>1. /\ Len(two) = Len(one) + Len(path)
        /\ \A k \in 1 .. Len(one) : two[k] = one[k]
        /\ \A k \in 1 .. Len(path) : two[Len(one) + k] = path[k]
    BY <1>7, Joined DEF Paths
  <2> QED
    BY <1>0, <1>6, <2>1
<1>9. longer = Append(two, ">")
  BY <1>01, <1>3, <1>5, <1>7
<1>10. /\ longer \in Paths /\ Len(longer) = n + p + 1
       /\ \A k \in 1 .. n + p : longer[k] = two[k]
  <2>1. /\ longer \in Paths /\ Len(longer) = Len(two) + 1
        /\ \A k \in 1 .. Len(two) : longer[k] = two[k]
    <3>1. two \in Seq(Text) /\ ">" \in Text
      BY <1>4 DEF Paths
    <3> HIDE DEF Text
    <3>2. /\ Append(two, ">") \in Seq(Text) /\ Len(Append(two, ">")) = Len(two) + 1
          /\ \A k \in 1 .. Len(two) : Append(two, ">")[k] = two[k]
      BY <3>1, AppendProperties
    <3> QED
      BY <1>9, <3>2 DEF Paths
  <2> QED
    BY <1>8, <2>1
<1>11. longer[n] = sep
  <2>1. n \in 1 .. n + p /\ n \in 1 .. n
    BY <1>0
  <2>2. longer[n] = two[n] /\ two[n] = one[n]
    BY <1>8, <1>10, <2>1
  <2> QED
    BY <1>6, <2>2
<1>12. \A k \in 1 .. n - 1 : longer[k] = prompt[k]
  <2>1. \A k \in 1 .. n - 1 : k \in 1 .. n + p /\ k \in 1 .. n
    BY <1>0
  <2> QED
    BY <1>6, <1>8, <1>10, <2>1
<1>13. \A k \in 1 .. p : longer[n + k] = path[k]
  <2>1. \A k \in 1 .. p : n + k \in 1 .. n + p
    OBVIOUS
  <2> QED
    BY <1>8, <1>10, <2>1
<1>14. Entered(prompt, path) = longer
  BY <1>01 DEF Entered
<1> QED
  BY <1>0, <1>10, <1>11, <1>12, <1>13, <1>14

\* what a prompt shows behind the b parts that were there at the start, and osh
Inside(prompt, b) == SubSeq(prompt, b + 2, Len(prompt) - 1)

\* two paths with a separator between them
Behind(old, sep, path) == (old \o <<sep>>) \o path

\* The path that is entered is shown behind the one before it.
LEMMA EnterShown ==
  ASSUME NEW prompt \in Paths, NEW path \in Paths, NEW b \in Nat, Len(prompt) >= b + 2
  PROVE  /\ Len(Entered(prompt, path)) >= b + 2 /\ Inside(prompt, b) \in Paths
         /\ \E sep \in {"/", ":"} :
              Inside(Entered(prompt, path), b) = Behind(Inside(prompt, b), sep, path)
<1>01. PICK p \in Nat, n \in Nat : p = Len(path) /\ n = Len(prompt) /\ n >= b + 2
  BY LenProperties DEF Paths
<1>02. PICK longer, old : longer = Entered(prompt, path) /\ old = Inside(prompt, b)
  OBVIOUS
<1>1. /\ p = Len(path) /\ n = Len(prompt) /\ n >= b + 2
      /\ longer = Entered(prompt, path) /\ old = Inside(prompt, b)
  BY <1>01, <1>02
<1>2. PICK sep \in {"/", ":"} :
        /\ longer \in Paths /\ Len(longer) = n + p + 1
        /\ longer[n] = sep
        /\ \A k \in 1 .. n - 1 : longer[k] = prompt[k]
        /\ \A k \in 1 .. p : longer[n + k] = path[k]
  <2>1. prompt # <<>>
    BY <1>1, EmptySeq DEF Paths
  <2>2. PICK sep \in {"/", ":"} :
           /\ Entered(prompt, path) \in Paths
           /\ Len(Entered(prompt, path)) = Len(prompt) + Len(path) + 1
           /\ Entered(prompt, path)[Len(prompt)] = sep
           /\ \A k \in 1 .. Len(prompt) - 1 : Entered(prompt, path)[k] = prompt[k]
           /\ \A k \in 1 .. Len(path) : Entered(prompt, path)[Len(prompt) + k] = path[k]
    BY <2>1, EnterExtends
  <2> QED
    BY <1>1, <2>2
<1>3. PICK e \in Nat, v \in Nat : e = n - b - 2 /\ v = b + 2
  <2>1. n - b - 2 \in Nat /\ b + 2 \in Nat
    BY <1>1
  <2> QED
    BY <2>1
<1>4. sep \in Text /\ <<sep>> \in Paths /\ Len(<<sep>>) = 1 /\ <<sep>>[1] = sep
  BY DEF Text, Paths
<1>5. /\ old \in Paths /\ Len(old) = e
      /\ \A k \in 1 .. e : old[k] = prompt[v + k - 1]
  <2>0. PICK z \in Int : z = n - 1
    OBVIOUS
  <2>1. old = SubSeq(prompt, v, z)
    BY <1>1, <1>3, <2>0 DEF Inside
  <2>2. /\ old \in Seq(Text)
        /\ Len(old) = IF v <= z THEN z - v + 1 ELSE 0
        /\ \A k \in 1 .. z - v + 1 : old[k] = prompt[v + k - 1]
    <3>1. prompt \in Seq(Text) /\ 1 <= v /\ z <= Len(prompt)
      BY <1>1, <1>3, <2>0 DEF Paths
    <3> QED
      BY <2>1, <3>1, Part
  <2>3. z - v + 1 = e /\ (IF v <= z THEN z - v + 1 ELSE 0) = e
    BY <1>1, <1>3, <2>0
  <2> QED
    BY <2>2, <2>3 DEF Paths
<1>6. PICK new : new = SubSeq(longer, v, n + p)
  OBVIOUS
<1>7. /\ new \in Paths /\ Len(new) = e + 1 + p
      /\ \A k \in 1 .. e + 1 + p : new[k] = longer[v + k - 1]
  <2>0. PICK m \in Nat : m = n + p
    OBVIOUS
  <2>2. /\ new \in Seq(Text)
        /\ Len(new) = IF v <= m THEN m - v + 1 ELSE 0
        /\ \A k \in 1 .. m - v + 1 : new[k] = longer[v + k - 1]
    <3>1. new = SubSeq(longer, v, m)
      BY <1>6, <2>0
    <3>2. longer \in Seq(Text) /\ 1 <= v /\ m <= Len(longer)
      BY <1>2, <1>3, <2>0 DEF Paths
    <3> QED
      BY <3>1, <3>2, Part
  <2>3. m - v + 1 = e + 1 + p /\ (IF v <= m THEN m - v + 1 ELSE 0) = e + 1 + p
    BY <1>3, <2>0
  <2> QED
    BY <2>2, <2>3 DEF Paths
<1>8. PICK mid \in Paths : mid = old \o <<sep>>
  BY <1>4, <1>5, Longer DEF Paths
<1>9. Len(mid) = e + 1 /\ mid[e + 1] = sep /\ \A k \in 1 .. e : mid[k] = old[k]
  <2>1. /\ Len(mid) = Len(old) + 1
        /\ \A k \in 1 .. Len(old) : mid[k] = old[k]
        /\ \A k \in 1 .. 1 : mid[Len(old) + k] = <<sep>>[k]
    <3>1. PICK s \in Seq(Text) : s = <<sep>>
      BY <1>4 DEF Paths
    <3>2. /\ Len(old \o s) = Len(old) + Len(s)
          /\ \A k \in 1 .. Len(old) : (old \o s)[k] = old[k]
          /\ \A k \in 1 .. Len(s) : (old \o s)[Len(old) + k] = s[k]
      BY <1>5, <3>1, Joined DEF Paths
    <3> QED
      BY <1>4, <1>8, <3>1, <3>2
  <2>2. mid[Len(old) + 1] = sep
    <3>1. 1 \in 1 .. 1
      OBVIOUS
    <3> QED
      BY <1>4, <2>1, <3>1
  <2> QED
    BY <1>5, <2>1, <2>2
<1>10. PICK all \in Paths : all = mid \o path
  BY Joined DEF Paths
<1>11. /\ Len(all) = e + 1 + p
       /\ \A k \in 1 .. e + 1 : all[k] = mid[k]
       /\ \A k \in 1 .. p : all[(e + 1) + k] = path[k]
  <2>1. /\ Len(all) = Len(mid) + Len(path)
        /\ \A k \in 1 .. Len(mid) : all[k] = mid[k]
        /\ \A k \in 1 .. Len(path) : all[Len(mid) + k] = path[k]
    BY <1>10, Joined DEF Paths
  <2> QED
    BY <1>1, <1>9, <2>1
<1>12. ASSUME NEW k \in 1 .. e + 1 + p PROVE new[k] = all[k]
  <2>1. new[k] = longer[v + k - 1]
    BY <1>7
  <2>2. CASE k <= e
    <3>1. k \in 1 .. e + 1 /\ k <= e + 1 /\ k \in 1 .. e /\ v + k - 1 \in 1 .. n - 1
      BY <1>3, <2>2
    <3>2. all[k] = old[k]
      BY <1>9, <1>11, <2>2, <3>1
    <3>3. old[k] = prompt[v + k - 1] /\ longer[v + k - 1] = prompt[v + k - 1]
      BY <1>2, <1>5, <3>1
    <3> QED
      BY <2>1, <3>2, <3>3
  <2>3. CASE k = e + 1
    <3>1. e + 1 \in 1 .. e + 1 /\ v + k - 1 = n
      BY <1>3, <2>3
    <3>2. all[k] = sep
      BY <1>9, <1>11, <2>3, <3>1
    <3> QED
      BY <1>2, <2>1, <3>1, <3>2
  <2>4. CASE k > e + 1
    <3>1. PICK i \in 1 .. p : i = k - (e + 1)
      BY <2>4
    <3>2. k = (e + 1) + i /\ v + k - 1 = n + i
      BY <1>3, <3>1
    <3>3. all[k] = path[i]
      BY <1>11, <3>2
    <3>4. longer[n + i] = path[i]
      BY <1>2
    <3> QED
      BY <2>1, <3>2, <3>3, <3>4
  <2> QED
    BY <2>2, <2>3, <2>4
<1>13. new = all
  BY <1>7, <1>11, <1>12, SeqEqual DEF Paths
<1>14. Len(longer) >= b + 2 /\ Len(longer) - 1 = n + p
  BY <1>1, <1>2
<1>15. Inside(longer, b) = all /\ all = Behind(old, sep, path)
  BY <1>3, <1>6, <1>8, <1>10, <1>13, <1>14 DEF Inside, Behind
<1> QED
  BY <1>1, <1>5, <1>14, <1>15

\* A separator leads nowhere, and the path behind it on from there.
LEMMA FollowedBehind ==
  ASSUME NEW from \in Paths, NEW old \in Paths, NEW path \in Paths,
         NEW sep \in {"/", ":"}
  PROVE  End(from, Behind(old, sep, path)) = End(End(from, old), path)
<1>1. sep \in Text /\ <<sep>> \in Paths /\ Len(<<sep>>) = 1 /\ <<sep>>[1] = sep
  BY DEF Text, Paths
<1>2. PICK dir \in Paths : dir = End(from, old)
  BY FollowedOn
<1>3. End(dir, <<sep>>) = dir
  <2>1. PICK s \in Paths : s = <<sep>>
    BY <1>1
  <2>2. Len(s) = 1 /\ s[1] = sep
    BY <1>1, <2>1
  <2>3. Followed(dir, s)[0] = dir
        /\ \A k \in 1 .. Len(s) : Followed(dir, s)[k] = Below(Followed(dir, s)[k - 1], s[k])
    BY FollowedUnfold
  <2>4. 1 \in 1 .. Len(s) /\ 1 - 1 = 0
    BY <2>2
  <2>5. Followed(dir, s)[1] = Below(dir, sep)
    BY <2>2, <2>3, <2>4
  <2>6. Followed(dir, s)[1] = dir
    BY <2>5 DEF Below
  <2> QED
    BY <2>1, <2>2, <2>6 DEF End
<1>4. PICK mid \in Paths : mid = old \o <<sep>>
  BY <1>1, Longer DEF Paths
<1>5. End(from, mid) = dir
  BY <1>1, <1>2, <1>3, <1>4, FollowedOn
<1>6. End(from, mid \o path) = End(End(from, mid), path)
  BY FollowedOn
<1>7. Behind(old, sep, path) = mid \o path
  BY <1>4 DEF Behind
<1> QED
  BY <1>2, <1>5, <1>6, <1>7

\* A directory that is entered is shown behind those before it.
LEMMA EnterPrompts ==
  ASSUME Inv, Prompts, NEW path \in Paths, ~Absolute(path), junk' = junk,
         cwd' = Reached(path), cwd_buff' = Append(Enter(cwd_buff, path), ">")
  PROVE  Prompts'
<1>1. cwd \in Paths /\ cwd_buff \in Paths /\ Home \in Paths /\ junk \in Paths
  BY PathsAreText DEF Inv, ShellTypes, Paths
<1>2. PICK b \in Nat : b = Len(junk) /\ Len(cwd_buff) >= b + 2
  BY <1>1, LenProperties DEF Prompts, Paths
<1>3. cwd_buff' = Entered(cwd_buff, path)
  BY DEF Entered
<1>4. /\ Len(cwd_buff') >= b + 2 /\ Inside(cwd_buff, b) \in Paths
      /\ \E sep \in {"/", ":"} :
           Inside(cwd_buff', b) = Behind(Inside(cwd_buff, b), sep, path)
  <2>1. PICK prompt \in Paths : prompt = cwd_buff /\ Len(prompt) >= b + 2
    BY <1>1, <1>2
  <2>2. /\ Len(Entered(prompt, path)) >= b + 2 /\ Inside(prompt, b) \in Paths
        /\ \E sep \in {"/", ":"} :
             Inside(Entered(prompt, path), b) = Behind(Inside(prompt, b), sep, path)
    BY <2>1, EnterShown
  <2> QED
    BY <1>3, <2>1, <2>2
<1>5. PICK old \in Paths : old = Inside(cwd_buff, b)
  BY <1>4
<1>6. PICK sep \in {"/", ":"} : Inside(cwd_buff', b) = Behind(old, sep, path)
  BY <1>4, <1>5
<1>7. Shown = old /\ Shown' = Behind(old, sep, path)
  BY <1>2, <1>5, <1>6 DEF Shown, Inside
<1>8. End(Home, old) = cwd
  BY <1>7 DEF Prompts, End
<1>9. End(Home, Behind(old, sep, path)) = End(cwd, path)
  BY <1>1, <1>8, FollowedBehind
<1>10. cwd' = End(cwd, path)
  BY DEF Reached, End
<1>11. Followed(Home, Shown)' = Followed(Home, Shown')
  BY DEF Followed, Below
<1>12. (Len(cwd_buff) >= Len(junk) + 2)'
  BY <1>2, <1>4
<1> QED
  BY <1>7, <1>9, <1>10, <1>11, <1>12 DEF Prompts, End

\* A step that leaves directory and prompt alone.
LEMMA PromptStays ==
  ASSUME PromptInv, UNCHANGED place
  PROVE  PromptInv'
<1>1. Shown' = Shown /\ UNCHANGED <<cwd, cwd_buff, junk, astray>>
  BY DEF Shown, place
<1>2. Followed(Home, Shown)' = Followed(Home, Shown)
  BY <1>1 DEF Followed, Below
<1> QED
  BY <1>1, <1>2 DEF PromptInv, Prompts

\* At the start nothing is shown.
LEMMA InitPrompt == Init => PromptInv
<1> SUFFICES ASSUME Init PROVE Prompts
  BY DEF PromptInv
<1>1. cwd_buff = junk \o <<"osh", ">">> /\ cwd = Home /\ junk \in Paths /\ Home \in Paths
  BY PathsAreText DEF Init, Paths
<1>2. PICK b \in Nat : b = Len(junk)
  BY <1>1, LenProperties DEF Paths
<1>3. Len(cwd_buff) = b + 2
  <2>1. "osh" \in Text /\ ">" \in Text
    BY DEF Text
  <2>2. <<"osh", ">">> \in Seq(Text) /\ Len(<<"osh", ">">>) = 2
    BY <2>1
  <2> QED
    BY <1>1, <1>2, <2>2, ConcatProperties DEF Paths
<1>4. PICK e \in Int : e = b + 1 /\ e = Len(cwd_buff) - 1
  BY <1>3
<1>5. Shown = SubSeq(cwd_buff, b + 2, e) /\ ~(b + 2 <= e)
  BY <1>2, <1>4 DEF Shown
<1>6. Shown \in Paths /\ Len(Shown) = 0
  <2>1. \A k \in b + 2 .. e : cwd_buff[k] \in Text
    BY <1>5
  <2> QED
    BY <1>5, <2>1, SubSeqProperties DEF Paths
<1>7. Followed(Home, Shown)[0] = Home
  BY <1>1, <1>6, FollowedUnfold
<1> QED
  BY <1>1, <1>2, <1>3, <1>6, <1>7 DEF Prompts

\* Only cd moves the shell, and it shows where.
LEMMA StepPrompt == Inv /\ PromptInv /\ [Next]_vars => PromptInv'
<1> SUFFICES ASSUME Inv, PromptInv, [Next]_vars PROVE PromptInv'
  OBVIOUS
<1>1. CASE Run \/ UNCHANGED vars
  BY <1>1, PromptStays
     DEF Run, Reap, Process, Setup, Plain, RedirectIn, RedirectOut, Pipe, Write,
         RunRight, Finish, Update, shell, vars
<1>2. CASE EndOfInput
  BY <1>2, PromptStays DEF EndOfInput
<1>3. ASSUME NEW words \in Lines, words # <<>>, Obey(words) PROVE PromptInv'
  <2> DEFINE background == Last(words) = "&"
             args == IF background THEN Front(words) ELSE words
  <2>1. args \in Seq(Words)
    BY <1>3, ArgsAreWords
  <2>2. \/ Stop({"crashed"}) \/ Stop(Returned) \/ ChangeDir(args)
        \/ Launch(args, background)
    BY <1>3 DEF Obey
  <2> HIDE DEF args, background
  <2>3. CASE UNCHANGED place
    BY <2>3, PromptStays
  <2>4. CASE ChangeDir(args) /\ ~UNCHANGED place
    <3>1. /\ Len(args) > 1 /\ junk' = junk
          /\ cwd' = Reached(Spelling[args[2]])
          /\ cwd_buff' = Append(IF args[2] = "." THEN deleteEnd(cwd_buff)
                                ELSE Enter(cwd_buff, Spelling[args[2]]), ">")
          /\ astray' = (astray \/ args[2] = "." \/ Absolute(Spelling[args[2]]))
      BY <2>4 DEF ChangeDir
    <3>2. args[2] \in Words
      BY <2>1, <3>1, LenProperties
    <3>3. PICK path \in Paths : path = Spelling[args[2]]
      BY <3>2, PathsAreText DEF Paths
    <3> SUFFICES ASSUME ~astray' PROVE Prompts'
      BY DEF PromptInv
    <3>4. ~astray /\ args[2] # "." /\ ~Absolute(path)
      BY <3>1, <3>3
    <3>5. Prompts /\ cwd_buff' = Append(Enter(cwd_buff, path), ">") /\ cwd' = Reached(path)
      BY <3>1, <3>3, <3>4 DEF PromptInv
    <3> QED
      BY <3>1, <3>4, <3>5, EnterPrompts
  <2> QED
    BY <2>2, <2>3, <2>4 DEF Stop, Launch
<1>4. ASSUME NEW line \in Lines, ReadLine(line) \/ ReadInner(line)
      PROVE  PromptInv'
  <2>1. buffer \in Lines
    BY DEF Inv, ShellTypes
  <2>2. \/ UNCHANGED place
        \/ \E words \in Lines : words # <<>> /\ Obey(words)
    BY <1>4, <2>1 DEF ReadLine, ReadInner
  <2> QED
    BY <1>3, <2>2, PromptStays
<1> QED
  BY <1>1, <1>2, <1>4 DEF Next

\* As long as every cd went to a path other than "." that does not begin with /, the
\* path in the prompt leads to the directory the shell is in: for any paths, with
\* any number of names, any contents of cwd_buff at the start and any size of it.
THEOREM PromptRight == Spec => []PromptRightUntilAstray
<1>1. Init => Inv /\ PromptInv
  BY InitInv, InitPrompt
<1>2. Inv /\ PromptInv /\ [Next]_vars => (Inv /\ PromptInv)'
  BY StepInv, StepPrompt
<1>3. PromptInv => PromptRightUntilAstray
  BY DEF PromptInv, Prompts, PromptRightUntilAstray
<1> QED
  BY <1>1, <1>2, <1>3, PTL DEF Spec
============================================================================
