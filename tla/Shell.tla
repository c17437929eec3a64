-------------------------------- MODULE Shell --------------------------------
(***************************************************************************)
(* main.c of Project 1: the shell reads a line, recalls the last one for   *)
(* !!, changes directory itself, and forks a child for everything else.    *)
(* The child looks for the first of <, > and |, redirects or forks the     *)
(* left side of a pipe, and executes a program.  The shell waits for a     *)
(* child unless the line ends in &.  A line is the sequence of its words.  *)
(***************************************************************************)
EXTENDS Integers, Sequences, SequencesExt

CONSTANTS
  Lines,          \* what is typed
  Programs,       \* words execvp() finds
  Home,           \* the path of the directory the shell starts in
  Spelling,       \* a word read as a path: its names, with a "/" between them
  Leftovers,      \* what the memory of cwd_buff may hold before it is written
  Size, MAX_LINE, \* how many characters a name has, and cwd_buff holds
  PipeCapacity,   \* how much a pipe holds
  MaxLines        \* bound: lines read

Words == UNION {Range(l) : l \in Lines}

\* The last conjunct: what stands for an unredirected stream, for a pipe and for
\* the NULL behind the arguments is told apart from what can be typed.
ASSUME LinesAreWords ==
  /\ \A l \in Lines : l \in Seq(STRING)
  /\ <<>> \in Lines /\ <<"!!">> \in Lines
  /\ PipeCapacity \in Nat /\ MaxLines \in Nat
  /\ {"tty", "pipe", "NULL"} \intersect Words = {}

\* what paths and the prompt are put together from
Text == {"osh", ">", "/", ":"} \union Range(Home)
        \union UNION {Range(s) : s \in Leftovers \union {Spelling[w] : w \in Words}}

\* A path begins with "/" or a name, and no name has a ":" in it.
ASSUME PathsAreText ==
  /\ \A w \in Words : Spelling[w] \in Seq(Text) /\ Spelling[w] # <<>>
  /\ \A w \in Words : ":" \notin Range(Spelling[w]) /\ (w = "." <=> Spelling[w] = <<".">>)
  /\ Home \in Seq(Text) /\ Leftovers \subseteq Seq(Text)
  /\ \A part \in Text : Size[part] \in Nat \ {0}
  /\ MAX_LINE \in Nat

VARIABLES
  mode,           \* "prompt", "inner" (prompt after an empty line), "spin"
                  \* (there at the end of the input), "wait" (in waitpid()),
                  \* "exited" or "crashed"
  buffer, saved,
  cwd, cwd_buff,  \* the path of the directory from /, and the prompt, as a
                  \* sequence of names and separators
  junk,           \* what was in cwd_buff before "osh>"
  overrun,        \* something was written behind the end of cwd_buff
  child,          \* the children forked so far
  lines,          \* lines read
  last, astray    \* history: the line last carried out, and whether a cd has
                  \* gone to "." or to a path that begins with /

place == <<cwd, cwd_buff, junk, overrun, astray>>
shell == <<mode, buffer, saved, place, lines, last>>
vars == <<shell, child>>

Symbols == {"<", ">", "|"}
Nothing == <<>>

\* stage: "setup", "await" (in wait() for the left side of a pipe), "running",
\* "zombie" and "reaped".  argv is what was executed, todo and piped what the
\* left side has still to write and has written.
NewChild(args, background) ==
  [stage |-> "setup", args |-> args, background |-> background,
   argv |-> Nothing, stdin |-> "tty", stdout |-> "tty",
   todo |-> 0, piped |-> 0]

Children == DOMAIN child
TypeOK ==
  /\ mode \in {"prompt", "inner", "spin", "wait", "exited", "crashed"}
  /\ buffer \in Lines /\ last \in Lines
  /\ saved \in BOOLEAN /\ overrun \in BOOLEAN /\ astray \in BOOLEAN
  /\ cwd \in Seq(Text) /\ cwd_buff \in Seq(Text) /\ junk \in Leftovers
  /\ lines \in 0 .. MaxLines
  /\ \A p \in Children :
       /\ child[p].stage \in {"setup", "await", "running", "zombie", "reaped"}
       /\ child[p].argv \in Seq(Words)
       /\ child[p].stdin \in Words \union {"tty", "pipe"}
       /\ child[p].stdout \in Words \union {"tty"}
       /\ child[p].todo + child[p].piped \in 0 .. PipeCapacity + 1
       /\ child[p].piped <= PipeCapacity

-----------------------------------------------------------------------------
strlen(s) ==
  LET upTo[k \in 0 .. Len(s)] == IF k = 0 THEN 0 ELSE upTo[k - 1] + Size[s[k]]
  IN  upTo[Len(s)]

\* main() returns.  What is behind the end of cwd_buff may be what it needs for
\* that.
Returned == IF overrun THEN {"exited", "crashed"} ELSE {"exited"}

\* strcat() appends to an array that nobody has written to
Init ==
  /\ junk \in Leftovers
  /\ cwd = Home /\ cwd_buff = junk \o <<"osh", ">">>
  /\ overrun = (strlen(cwd_buff) >= MAX_LINE)
  /\ mode \in IF overrun THEN {"prompt", "crashed"} ELSE {"prompt"}
  /\ buffer = Nothing /\ saved = FALSE
  /\ child = <<>>
  /\ lines = 0
  /\ last = Nothing /\ astray = FALSE

\* deleteEnd(): cut at the last / or, without one, at the last :
deleteEnd(myStr) ==
  LET slash == SelectLastInSeq(myStr, LAMBDA c : c = "/")
      colon == SelectLastInSeq(myStr, LAMBDA c : c = ":")
  IN  IF slash > 0 THEN SubSeq(myStr, 1, slash - 1)
      ELSE IF colon > 0 THEN SubSeq(myStr, 1, colon - 1)
      ELSE myStr

\* Faulty variant: the last directory is removed first, as for "cd .".
EnterBeside(myStr, path) == deleteEnd(Front(myStr)) \o <<"/">> \o path

\* the last character goes, and the path comes behind a separator
Enter(myStr, path) ==
  LET cut == Front(myStr)
  IN  cut \o <<IF strlen(cut) = 4 THEN ":" ELSE "/">> \o path

\* the directory a part of a path leads to
Below(dir, part) ==
  CASE part \in {"/", ":", "."} -> dir
    [] part = ".." -> IF dir = <<>> THEN dir ELSE Front(dir)
    [] OTHER -> Append(dir, part)

\* the directories on the way
Followed(from, path) ==
  LET dir[k \in 0 .. Len(path)] ==
        IF k = 0 THEN from ELSE Below(dir[k - 1], path[k])
  IN  dir

\* where chdir(path) leads to, where it succeeds
Absolute(path) == path[1] = "/"
Reached(path) == Followed(IF Absolute(path) THEN <<>> ELSE cwd, path)[Len(path)]

\* the cd branch.  There may or may not be such a directory; cd alone passes NULL
\* to chdir(), which fails.  Once there is too much in cwd_buff the writing may
\* destroy what the shell goes on with.
ChangeDir(args) ==
  /\ \/ /\ Len(args) > 1
        /\ cwd' = Reached(Spelling[args[2]])
        /\ cwd_buff' = Append(IF args[2] = "." THEN deleteEnd(cwd_buff)
                              ELSE Enter(cwd_buff, Spelling[args[2]]), ">")
        /\ overrun' = (overrun \/ strlen(cwd_buff') >= MAX_LINE)
        /\ mode' \in IF overrun' THEN {"prompt", "crashed"} ELSE {"prompt"}
        /\ astray' = (astray \/ args[2] = "." \/ Absolute(Spelling[args[2]]))
        /\ UNCHANGED junk
     \/ mode' = "prompt" /\ UNCHANGED place
  /\ UNCHANGED child

\* fork(), which may fail; the parent waits unless the line ended in &
Launch(args, background) ==
  /\ \/ /\ child' = Append(child, NewChild(args, background))
        /\ mode' = IF background THEN "prompt" ELSE "wait"
     \/ mode' \in Returned /\ UNCHANGED child
  /\ UNCHANGED place

Stop(ends) == mode' \in ends /\ UNCHANGED <<child, place>>

\* from strtok() to the end of the loop, for the words of one line; & alone
\* leaves args[0] = NULL, which strcmp() does not survive
Obey(words) ==
  LET background == Last(words) = "&"
      args == IF background THEN Front(words) ELSE words
  IN  CASE args = <<>> -> Stop({"crashed"})
        [] args # <<>> /\ args[1] = "exit" -> Stop(Returned)
        [] args # <<>> /\ args[1] = "cd" -> ChangeDir(args)
        [] OTHER -> Launch(args, background)

CanRead == lines < MaxLines /\ lines' = lines + 1

\* the loop's getline(): !! is replaced by the saved line, anything else is
\* saved, empty lines too, and an empty line leads to the inner loop
ReadLine(line) ==
  LET recall == line = <<"!!">>
      input == IF recall /\ saved THEN buffer ELSE line
  IN  /\ mode = "prompt"
      /\ CanRead
      /\ buffer' = IF recall THEN buffer ELSE line
      /\ saved' = (saved \/ ~recall)
      /\ IF input = <<>>
         THEN /\ mode' = "inner"
              /\ UNCHANGED <<place, child, last>>
         ELSE last' = input /\ Obey(input)

\* Faulty variant: what the inner loop reads is not saved.
ReadInnerUnsaved(line) ==
  /\ mode = "inner"
  /\ CanRead
  /\ UNCHANGED <<buffer, saved>>
  /\ IF line = <<>>
     THEN UNCHANGED <<mode, place, child, last>>
     ELSE last' = line /\ Obey(line)

\* the inner loop compares with "!!" without the newline that getline() keeps,
\* so it saves and obeys every line, !! too
ReadInner(line) ==
  /\ mode = "inner"
  /\ CanRead
  /\ buffer' = line
  /\ saved' = TRUE
  /\ IF line = <<>>
     THEN UNCHANGED <<mode, place, child, last>>
     ELSE last' = line /\ Obey(line)

\* getline() returns -1 and leaves input as it was, empty or without a word.
\* It is saved, and the inner loop prints its prompt for ever.
EndOfInput ==
  /\ mode \in {"prompt", "inner"}
  /\ mode' = "spin"
  /\ buffer' = Nothing
  /\ saved' = TRUE
  /\ UNCHANGED <<place, child, lines, last>>

-----------------------------------------------------------------------------
Update(p, rec) == child' = [child EXCEPT ![p] = rec] /\ UNCHANGED shell

\* Faulty variant: a child whose execvp() fails does not return.
ExecForgetsReturn(rec, argv) ==
  IF argv # <<>> /\ argv[1] \in Programs
  THEN [rec EXCEPT !.stage = "running", !.argv = argv] ELSE rec

\* execvp() of a vector, and the message and the end of a child if it fails
Runnable(argv) == argv # <<>> /\ argv[1] \in Programs
Exec(rec, argv) ==
  IF Runnable(argv) THEN [rec EXCEPT !.stage = "running", !.argv = argv]
                    ELSE [rec EXCEPT !.stage = "zombie"]

\* the first redirection or pipe, as an index of args from 0, and Len(args) if
\* there is none
Symbol(args) ==
  LET at == SelectInSeq(args, LAMBDA w : w \in Symbols)
  IN  IF at = 0 THEN Len(args) ELSE at - 1

\* args up to the NULL put at index j
Before(args, j) == SubSeq(args, 1, j)

\* < or > as the last word: strcmp(args[j+1], ...) of NULL ends the child.  A
\* symbol behind it, or one of its kind at the end of the line: args[0] = NULL.
Malformed(args, j, other) ==
  \/ j = Len(args) - 1
  \/ args[j + 2] = other
  \/ Last(args) = args[j + 1]

Plain(p) ==
  LET args == child[p].args
  IN  /\ Symbol(args) = Len(args)
      /\ Update(p, Exec(child[p], args))

RedirectIn(p) ==
  LET args == child[p].args
      j == Symbol(args)
  IN  /\ j < Len(args) /\ args[j + 1] = "<"
      /\ IF Malformed(args, j, ">")
         THEN Update(p, [child[p] EXCEPT !.stage = "zombie"])
         ELSE \E from \in {args[j + 2], "tty"} :   \* the file may be missing
                Update(p, [Exec(child[p], Before(args, j)) EXCEPT !.stdin = from])

RedirectOut(p) ==
  LET args == child[p].args
      j == Symbol(args)
  IN  /\ j < Len(args) /\ args[j + 1] = ">"
      /\ IF Malformed(args, j, "<")
         THEN Update(p, [child[p] EXCEPT !.stage = "zombie"])
         ELSE \E to \in {args[j + 2], "tty"} :     \* or not be writable
                Update(p, [Exec(child[p], Before(args, j)) EXCEPT !.stdout = to])

\* the child forks the left side, which writes so much into the pipe; a left
\* side that cannot be executed writes its message there.  A child that cannot
\* fork ends.
Pipe(p) ==
  LET args == child[p].args
      j == Symbol(args)
  IN  /\ j < Len(args) /\ args[j + 1] = "|"
      /\ \/ \E amount \in 0 .. PipeCapacity + 1 :
              Update(p, [child[p] EXCEPT !.stage = "await", !.todo = amount])
         \/ Update(p, [child[p] EXCEPT !.stage = "zombie"])

Setup(p) ==
  /\ child[p].stage = "setup"
  /\ Plain(p) \/ RedirectIn(p) \/ RedirectOut(p) \/ Pipe(p)

-----------------------------------------------------------------------------
\* the left side: write() blocks when the pipe is full
Write(p) ==
  /\ child[p].stage = "await"
  /\ child[p].todo > 0
  /\ child[p].piped < PipeCapacity
  /\ Update(p, [child[p] EXCEPT !.todo = @ - 1, !.piped = @ + 1])

\* Faulty variant: the shift copies from the | on.
ShiftedFromBar(args, j) ==
  [k \in 1 .. Len(args) |->
     IF k = j + 1 \/ k = Len(args) - j + 1 THEN "NULL"
     ELSE IF k < Len(args) - j + 1 THEN args[k + j] ELSE args[k]]

\* args after the shift: the words behind | are copied to the front, NULL
\* behind them, over what stood there; then args[j] = NULL.  NULL is <<>> here.
Shifted(args, j) ==
  [k \in 1 .. Len(args) |->
     IF k = j + 1 \/ k = Len(args) - j THEN "NULL"
     ELSE IF k < Len(args) - j THEN args[k + j + 1] ELSE args[k]]

UpToNull(s) ==
  LET at == SelectInSeq(s, LAMBDA w : w = "NULL")
  IN  IF at = 0 THEN s ELSE SubSeq(s, 1, at - 1)

\* what the child executes: &args[j + 1], or args if that fails
RightSide(shifted, j) ==
  LET behind == UpToNull(SubSeq(shifted, j + 2, Len(shifted)))
  IN  IF Runnable(behind) THEN behind ELSE UpToNull(shifted)

\* wait(NULL) returns when the left side has written everything
RunRight(p) ==
  /\ child[p].stage = "await"
  /\ child[p].todo = 0
  /\ \E j \in {Symbol(child[p].args)} :
       \E shifted \in {Shifted(child[p].args, j)} :
         \E argv \in {RightSide(shifted, j)} :
           Update(p, [Exec(child[p], argv) EXCEPT !.stdin = "pipe"])

\* a program ends
Finish(p) ==
  /\ child[p].stage = "running"
  /\ Update(p, [child[p] EXCEPT !.stage = "zombie"])

\* Faulty variant: any child ends the wait, as wait(NULL) would.
ReapAny ==
  \E p \in Children :
    /\ mode = "wait"
    /\ child[p].stage = "zombie"
    /\ child' = [child EXCEPT ![p].stage = "reaped"]
    /\ mode' = "prompt"
    /\ UNCHANGED <<buffer, saved, place, lines, last>>

\* waitpid(pid, NULL, 0) returns
Reap ==
  LET p == Len(child)
  IN  /\ mode = "wait"
      /\ child[p].stage = "zombie"
      /\ child' = [child EXCEPT ![p].stage = "reaped"]
      /\ mode' = "prompt"
      /\ UNCHANGED <<buffer, saved, place, lines, last>>

Process(p) == Setup(p) \/ Write(p) \/ RunRight(p) \/ Finish(p)

\* everything that happens without the user
Run == Reap \/ \E p \in Children : Process(p)

Next ==
  \/ Run \/ EndOfInput
  \/ \E line \in Lines : ReadLine(line) \/ ReadInner(line)

Spec == Init /\ [][Next]_vars

\* The kernel does not leave all processes unscheduled, and programs end.  Each
\* process takes a bounded number of steps, so none needs fairness of its own.
FairSpec == Spec /\ WF_vars(Run)

-----------------------------------------------------------------------------
\* What !! would recall at a prompt is the last line that was carried out,
\* whichever of the two getline() calls read it and whatever was recalled.
HistoryIsLastLine == mode \in {"prompt", "wait"} /\ saved => buffer = last

\* Two lines without & never run at the same time: at a prompt every child
\* whose line did not end in & has ended and been reaped.
ForegroundRunsAlone ==
  /\ TypeOK
  /\ \A p \in Children :
       ~child[p].background /\ child[p].stage # "reaped" =>
         mode = "wait" /\ p = Len(child)

\* The command behind | runs with all its words if there are no more of them
\* than before the |, and never if there are more: the shift writes a NULL over
\* one of them, and only those on one side of it may run.
RightSideComplete ==
  \A p \in Children :
    LET args == child[p].args
        j == Symbol(args)
        right == SubSeq(args, j + 2, Len(args))
    IN  child[p].stdin = "pipe" =>
          IF Len(right) <= j THEN Runnable(right) => child[p].argv = right
          ELSE child[p].argv \in {<<>>, SubSeq(right, j + 2, Len(right)),
                                  SubSeq(right, 1, j)}

\* what the prompt shows between osh and >
Shown == SubSeq(cwd_buff, Len(junk) + 2, Len(cwd_buff) - 1)

\* As long as every cd went to a path other than "." that does not begin with /,
\* the path in the prompt, followed from the directory the shell started in, leads
\* to the directory it is in, whatever cwd_buff held at the start and wherever it
\* ends.  Without that condition it does not: cd . takes a name off the prompt or
\* adds a second >, and a path that begins with / is put behind the old one.
PromptRightUntilAstray == ~astray => Followed(Home, Shown)[Len(Shown)] = cwd

\* The child the shell waits for waits for a left side that has filled the pipe,
\* which nobody reads yet.
PipeFull ==
  LET rec == child[Len(child)]
  IN  rec.stage = "await" /\ rec.todo > 0 /\ rec.piped = PipeCapacity

\* The shell comes back from waitpid() unless a full pipe holds up its child; and
\* then it never does.
PromptReturns ==
  /\ mode = "wait" ~> (mode # "wait" \/ PipeFull)
  /\ [](mode = "wait" /\ PipeFull => [](mode = "wait" /\ PipeFull))
=============================================================================
