# Models and proofs of the csc345-OS programs

The repository holds the laboratory exercises and projects of an operating
systems course, in C.  This directory holds TLA+ models of those that have
state worth reasoning about, TLC runs over small instances of them, and proofs,
checked by TLAPS, that the most important properties hold for every instance.

## 1. The system and its parts

The programs are independent of one another; inside each, the parts interact
through global variables, threads, processes or files.

| Program | State | Operations | How the parts interact | What is hard |
|---|---|---|---|---|
| Project 3 `main.c` | physical memory, page table, TLB, three counters, input file position | translate an address: TLB hit, page-table hit, page fault; `TLBInsert`, `readStore` | `getPage` calls `readStore` and `TLBInsert`, all on globals | TLB kept in order of use while it grows; end-of-file handling |
| Project 3 `main_pr1.c` | the same; circular TLB | the same | the same | replacement code that must never run; duplicates in the TLB |
| Project 3 `main_pr2.c` | the same, fewer frames, an age per frame | the same, and replacement of the oldest frame | page table and TLB must follow what replacement does to memory | stale table and TLB entries; ages of loads and hits |
| Lab 6 exercise 1 | a semaphore, the farmers' threads | enter, cross, exit; create, join, free | threads and `main` | mutual exclusion, termination |
| Lab 6 exercise 2 | mutex, condition variable, `crossing`, `prev`, two counters | the same, with wait and broadcast | the same | unlocked counters, lock held across a call, lost wake-ups, turn taking |
| Lab 5 exercise 3 | `pts_circle`, a mutex, four workers | draw, increment, lock and unlock, create, join, report | workers share a counter that no lock guards | lost updates |
| Lab 9 | reference string, frames, three fault counters | FIFO, LRU and optimal step | one frame array, used by three functions in turn | an uninitialised index, off-by-one counts, optimality |
| Project 1 shell | prompt, working directory, saved line, children, pipes | read a line, `!!`, `cd`, `exit`, fork, redirect, pipe, exec, wait | parent, children and grandchildren through `fork`, `wait` and pipes | background children, blocking pipes, in-place edits of `args` and of the prompt |
| Lab 3 exercise 1 | a shared array and five results | four scans and a bubble sort in five threads | the sort moves what the scans read | an element read twice, missed or met in the middle of a swap |
| Lab 12 echo server and client | two sockets, two buffers | send, receive, stop at a short message | a byte stream | pieces of messages, reused buffers, end of input, one side gone |
| Lab 12 `examples`, TCP servers that fork | the count of children, a child per client | accept, fork, count, reap | children end at any time; `SIGCHLD` interrupts `main` | signals that coalesce, a count changed by `main` and by the handler |
| Lab 12 `examples`, UDP echo | the client's tries and timer, the server's socket queue | send, time out, retry, give up; drain the socket in a signal handler | datagrams and signals | loss, repetition, late answers, an alarm at the wrong moment |
| Lab 10 | a request list | FCFS, SCAN, C-SCAN totals | pure functions | boundary cases; not modelled |

What makes each correct, in a sentence: a memory manager prints the byte that
the backing store has at the address, loads each page once, and replaces the page
its policy names; a bridge lets one farmer cross at a time and lets everyone
cross; the estimate of pi counts what was drawn; a replacement algorithm counts
the faults of the policy it is named after; a shell runs what was typed, shows
where it is, and comes back; statistics are those of the arguments; an echo is
what was sent, in order, and both ends stop; a server that forks counts its
children right and leaves no zombies behind; a client with a time-out ends.

Not modelled, for good: Labs 1, 4 and 8, Lab 2 and the input generators
(straight-line programs, a `fork` and a `wait`, or one arithmetic expression),
Lab 3 exercise 2 (one thread), Lab 5 exercises 1 and 2 (no synchronisation to
state anything of, and a single thread), Lab 10 (three sequential functions with
one answer per input, which a table of tests reaches), the other programs of
`Lab12/examples` (the `select()`, thread and pre-forking servers, multicast,
broadcast and the plain clients: the same echo loops without shared state, or
without an order of events to get wrong), Project 2 (only an archive) and
Project 4 (only a heading).

## 2. Modules

| Module | Models | Extends or instantiates |
|---|---|---|
| `PagedMemory` | abstract: what a demand-paged memory promises | |
| `VMCommon` | state and functions the three managers share: the address file, `fscanf`/`feof`, searches, `readStore` | |
| `VMManager` | `Project 3/main.c` | `VMCommon` |
| `VMRoundRobin` | `TLBInsert` of `main_pr1.c` and `main_pr2.c` | `VMCommon` |
| `VMFifo` | `main_pr1.c` | `VMRoundRobin`, refines `PagedMemory` |
| `VMLru` | `main_pr2.c` | `VMRoundRobin` |
| `BridgeMain` | `main()` of both exercises of Lab 6: create, join, free | |
| `BridgeSem` | Lab 6 exercise 1, and the abstract bridge | `BridgeMain` |
| `BridgeMutex` | Lab 6 exercise 2 | `BridgeMain`, refines `BridgeSem` |
| `MonteCarlo` | Lab 5 exercise 3 | |
| `PageReplacement` | Lab 9 | |
| `Shell` | Project 1 | |
| `Statistics` | Lab 3 exercise 1 | |
| `EchoQueue` | abstract: what an echo over a connection promises | |
| `EchoSession` | `Lab12/echo_client.c` and `Lab12/echo_server.c` over one connection | refines `EchoQueue` |
| `UdpEcho` | `UDPEchoClient-Timeout.c` with `UDPEchoServer.c` or `UDPEchoServer-SIGIO.c` | |
| `ForkServer` | `TCPEchoServer-Fork.c` and `TCPEchoServer-Fork-SIGCHLD.c` | |
| `MC...` | instances for TLC | the module of that name |
| `...Proofs` | theorems | the module of that name, and TLAPS |
| `BridgeProofs` | theorems about both exercises of Lab 6 | `BridgeMutex`, instantiates `BridgeSem` |
| `ThreadsProofs` | theorems about the threads of Labs 3 and 5 | `MonteCarlo`, `Statistics` |
| `Lab12Proofs` | theorems about the network programs | `ForkServer`, `EchoSession`, `UdpEcho` |

Modules that one proof module extends together declare different names, hence
`udpVars`, `ForkSpec`, `StatInit` and the like.

### How state and actions correspond to the code

**Memory managers.** Variables have the names of the C globals.  One action is
one turn of the loop of `main()`: the search, `TLBInsert`, the counters, the
output line and the next `fscanf`, split by where the frame was found
(`TLBHit`, `PageTableHit`, `PageFault`, and for LRU `FaultFill` and
`FaultReplace`).  `phy_memory` maps a frame to the page whose bytes it holds, and
a byte is a pair of page and offset.  Addresses are ints, reduced by `PageOf` as
the cast to `uint8_t` does.  `eof`, `unread` and `newline` model `fscanf` and
`feof` exactly, with a last line that ends in a newline or does not.  `last_use`
is a history variable.

**Bridge.** Every load and store of the unlocked counters, and every lock,
wait, unlock and broadcast, is a step of its own.  The `sleep` on the bridge is
the time between two steps.  `NorthWaits` and `SouthWaits` are the conditions of the
two `while` loops: a farmer waits while the bridge is taken and the *other* side
entered it last (North enters with `prev = 1` and waits on `prev == 0`, South the
other way round).  The test is made by the holder of the mutex, and the mutex is
held for a whole crossing, so nobody ever finds the bridge taken.

**Monte Carlo.** `pts_circle += 1` is `Load` and `Store`; `Lock` and `Unlock`
follow, as in the code.  Where a point falls is a free choice.  `stored` and
`overlapped` are history variables.  The product in the last quota is an `int`;
`ProductsFit` keeps the arguments to those (up to 92683) for which it does not
overflow.

**Page replacement.** One action is one reference in one algorithm.  `fptr`
starts with any value of `FirstSlots`; a store outside `FRAME` is lost, which is
the mildest thing it can do.  The file does not compile as it stands: `voic`,
undeclared names, and `total_frames` for `tot_frames`.  The model takes the two
names for one variable and the undeclared ones as declared.  `FewestFrom` is
independent of the code: the fewest faults from every memory, over every choice
of victims, a reference at a time from the end of the string.

**Shell.** A line is a sequence of words.  `ReadLine` and `ReadInner` are the two
`getline()` calls with everything the parent does for the line.  A child is a
record that goes through `setup`, `await` (it waits for the left side of a
pipe), `running`, `zombie` and `reaped`; the left side of its pipe is the amount
it has still to write and the amount in the pipe.  `chdir`, `execvp` and the
pipe are external.  A missing input file, a failing `fork` (in the shell and in a
child) and a NULL passed to `strcmp` are modelled.  `EndOfInput` is `getline()`
at the end of the input: its result is not tested, and the shell goes round
without ever reading or forking again.

A directory is the sequence of names that leads to it from `/`.  `cd` takes any
path, of one name or several, with `.` and `..` in it, from `/` or from where the
shell is; `Reached` is where `chdir` leads, and it may fail.  `cwd_buff` is a
sequence of names and separators, edited as the code edits it (`Enter`,
`deleteEnd`): the path goes behind the old one, whatever path it is.  Before `main()`
appends `osh>` the array holds anything (`Leftovers`), because it is not
initialised.  `strlen` counts characters: the separator depends on it, and
`overrun` records that `strcat` has written behind the 80 characters (`MAX_LINE`).
From then on the shell may go on, crash at once, or crash when `main()` returns
(`Returned`).

**Statistics.** Between two accesses to the array by different threads anything
may happen, so each read of an element is a step, and so is each of the two
stores of a swap.  `myMin` and `myMax` read an element to compare it (`Compare`)
and again to keep it (`Take`); `myStdDev` reads it twice for one square
(`ReadFactor`, `AddSquare`).  `at` says where each thread is.  The sort's own reads are
not separate steps: nobody else stores.  Sums are kept as integers, multiplied by
what the code divides by, and compared with `SumOf`, the sum of an array defined
by recursion.  `disturbed` and `tornSquare` are history variables.

**Echo session.** A byte is its number in what the client types, so that an echo
in order is recognised as such.  `Pieces` is what `recv()` may return: any
beginning of the bytes under way that fits.  Each `recv()` with the printing and
the loop test, and each `send()`, is a step.  The kernel's part (a closed
connection read as 0 bytes, a reset after sending to a process that is gone or
closing with bytes unread) is in the actions it shows in.  `memcpy()` in the client has
source and destination exchanged, so the client always connects to its own
machine; the model has the server there.  Seen from outside (`EchoQueue`) it is a
queue of bytes.  Sending enters bytes, `recv()` in the client takes out a beginning
of them, and all the rest moves nothing: `unprinted` joins what is under way to the
client, what the server holds and what is under way to it.  When a program ends,
`unprinted` is cut: to what is under way to the client if the server ended, to
nothing if the client did.

**UDP echo.** `network` is the set of datagrams sent so far.  Nothing is taken out
of it, so a datagram may arrive late, after a younger one, several times or
never.  The signal-driven server does not see signals one by one: `sigio` is one
flag.  `Alarm` may come at every point of the client; only a blocked
`recvfrom()` is interrupted by it.

**Forking servers.** `childProcCount++` is `Load` and `Store`, and with `kind =
"SIGCHLD"` the handler (`DeliverSigchld` and the steps of `ReapingLoop`) may run
between them.  Only one of the two runs at a time.  With `kind = "loop"` the same
`ReapingLoop` is that of `main()`, entered after each `Store`.

## 3. Runs

All bounds are constants of the `.cfg` files and the `MC` modules.

| Run | Shows | Instance, and why it is enough |
|---|---|---|
| `vm_fifo` | `main_pr1.c` is right: every translation (`TranslationCorrect`), no replacement, a TLB that is the window of the last accesses, and a refinement of `PagedMemory` (which has one fault per page). The one deviation at the end of a file is stated exactly (`OnlyUnterminatedLineDropped`) | 4 pages, 5 frames, TLB of 2, files of 0, 1 and 6 lines: the TLB wraps, pages return after falling out of it, addresses alias through the cast |
| `vm_main` | what `main.c` keeps right although its TLB collects zero entries: only page 0 can be answered from a wrong frame or miss its fault, and the entries of the other pages are a queue in order of use | 4 pages and frames, TLB of 3, 7 lines: enough to leave a zero entry, to use it, to fill the TLB and to push a page out |
| `vm_lru` | what `main_pr2.c` keeps right through replacements, until when its translations are right, and that the first victim is one of the oldest pages | 5 pages, 3 frames, TLB of 2, 8 lines: several replacements and returns to replaced pages |
| `vm_lru_value` | *violation*: a byte of another page is printed | the same |
| `bridge` | exercise 2 implements exercise 1, the race on its counters stays bounded, everyone crosses | two farmers on each side: races within and between sides |
| `monte_carlo` | how far the count can be off, and that the program ends | arguments 0, 3, 5 and 8: no, no, one and two draws per worker, the fourth with and without a share |
| `page_replacement` | FIFO is FIFO from any slot, after at most as many lost pages as there are frames, LRU counts the faults of one frame fewer, optimal is minimal among all choices of victims | all strings of six references to four pages, 0 to 3 and 8 frames, five initial values of `fptr` |
| `shell` | history, foreground and background, pipes, prompt, end of input | all sequences of three of 21 lines that reach every branch, with every form of `cd`; a pipe that holds one unit and programs that write up to two; room for a prompt of 12 characters, which is empty, has one character in it or is too full at the start, so that it overflows at once, after two `cd`s or not at all |
| `statistics` | the median is always right; the other results are exact unless the sort stored during the scan, and what a disturbed one can still be relied on for; the deviation can be the root of a negative number only through a square of two different reads | all lists of two to four numbers out of three, one number, and none; each scan with the sort (scans do not interact, so not all at once) |
| `echo_session` | the session is a queue of bytes (`ImplementsEchoQueue`), so what is printed is a beginning of what was sent; a prompt follows the whole echo unless a message was cut; the two sides wait for each other for good only at the end of the input; when one ends the other does | all inputs of up to three lines of 1, 2, 4 and 5 bytes and a buffer of 6, so that a line of 5 is read in two parts (255 bytes of 256 in the code) |
| `udp_echo` | no datagram is left in a socket without a signal, a client prints its own word, tries exactly `MaxTries` times before it gives up, and ends unless an alarm came before `recvfrom()` | two clients, three tries (5 in the code), room for two datagrams at the server; any repetition on the way |
| `fork_server` | the count of children is right unless the handler tore the increment; only that makes `waitpid()` fail; coalescing signals leave at most one zombie | five clients, two pending connections, both servers; the clients are interchangeable |

Every property of a passing run is paired in `PROJECT.json` with a faulty variant
of one operator (the definitions marked "Faulty variant" in the modules) under
which TLC finds it violated.

Some of what the runs found out is stated as a property that holds, because it
describes the code exactly: `LruCountsOneFrameFewer` (Lab 9 counts a hit in the
last slot as a fault, the counting bug the course README records),
`OnlyPageZeroMistranslated`, `RightUntilReplacement`, `RightSideComplete` (a
command behind `|` that has more words than the one before runs with those on one
side of the word the shift destroys, or not at all), `PromptReturns` (once a command
in front of `|` has filled the pipe the shell waits for ever),
`CounterDriftBounded` and `TwoSurvive`, `DiesOnlyAfterTear` (a server that
is to "run forever" ends after a torn increment), `BothWaitOnlyAtEnd` (at the end
of its input the client sends nothing and waits), `UnsplitRoundTrip` (after a
cut message the client stays a message behind) and `ClientEnds` (with an alarm
that comes too early the client waits without a time-out).

Other differences between code and comments met while modelling are not runs of
their own.  `main.c` leaves in its TLB a zero entry that names a frame its page is
not in, against "TLB holds a page number and a corresponding frame number"
(`main.c:36`); `OnlyPageZeroMistranslated` and `OneFaultPerPageButZero` say what
follows from it.  `main_pr2.c` replaces pages that are not the least recently
used (`main_pr2.c:147`), because hits and loads count ages differently;
`FirstVictimNearlyLRU` bounds the error of the first choice.  The sides of the bridge do not take turns
(`lab06_ex2.c:29`), as `ImplementsExercise1` implies: nobody ever waits on the
condition variable.

The prompt of the shell is wrong, and no run says otherwise.  It is to "print cwd"
(`Project1/project1/main.c:43`), and it is computed from the old prompt instead of
from the directory: `cd .`, meant to "go up one directory" (`main.c:107`), stays where
it is, but takes the last name off the prompt or, if there is none, adds a second
`>`; and a path that begins with `/` is put behind the old one.  The course README
records it (`src/README.md:25`): "Display up-to-date path 0/5 the behavior is
different from what's required."  `PromptRightUntilAstray` is what remains: until the
first such `cd` the path shown leads to the directory the shell is in, though not in
its shortest form (`x/..` stays).  On a system where a name in the path is a symbolic
link, not even that.

### Fairness

`BridgeMutex!FairSpec`: weak fairness of `main()` and of every farmer that is not
asleep on the condition variable.  The scheduler runs threads that can run; a
sleeper is owed nothing without a signal.  Each thread locks once, so weak
fairness of the lock is enough.  `MonteCarlo!FairSpec` is the same for workers,
whose number of lock operations is bounded.  `Shell!FairSpec`: weak fairness of
"some process takes a step", which includes that programs end; the processes of a
bounded number of lines take a bounded number of steps.  No fairness is assumed
of the user.  `EchoSession!FairSpec`: weak fairness of each program, which stands
for its being scheduled and for TCP delivering what was sent; `Prompt`, the user,
is owed nothing, which is why `StopTogether` lets the client wait at its prompt.
`UdpEcho!FairUdpSpec`: weak fairness of each client, whose steps include its alarm;
the network and the server may do nothing at all.

## 4. Proofs

The constants are arbitrary; what is assumed of them is named in the modules.
For the memory managers: sizes are positive, and there are at least as many
frames and table entries as pages, as in `main.c` and `main_pr1.c`.  For the
bridge: numbers of farmers are natural.  For Monte Carlo: arguments are natural, and
the product in the last quota fits an `int`.
For the forking servers: the set of clients is finite.  For the statistics:
arguments are sequences of integers.  For the echo session: a buffer holds more
than two bytes.  For UDP: at least one try and room for one datagram.  For the
shell (`LinesAreWords`): lines are sequences of words, the empty line and `!!`
among them, since the user may type them; and no word is one of the marks the
model uses for the terminal, a pipe and the end of an argument list
(`PathsAreText`: every word is spelled as a path of at least one part, with no `:`
in it, and every part has a length).  For
Lab 9: pages and numbers of references are natural.

| Module | Theorem | Argument |
|---|---|---|
| `VMTableProofs` | lemmas | what a load does to a page table with distinct pages, and the pigeonhole argument that such a table has at most as many entries as there are pages |
| `VMFifoProofs` | `TypeCorrect`, `Translation`, `NoReplacement`, `FifoImplementsPagedMemory`, `EndOfFile`, `Window` | the inductive invariant: the table lists distinct pages in the order of their frames, each entry of the TLB agrees with the table, frame *i* holds the page of slot *i*. `TranslationCorrect` alone is not inductive: it says nothing of the entries the next access will use. Replacement is dead because a table full of distinct pages leaves none to load. `Window` rests on the access each TLB entry stands for (`AccessOf`), counted from `tempFIFO` in a full TLB: an entry is no younger than the last use of its page, and a recent use has its entry, so the entry overwritten next is the one access that leaves the window. `EndOfFile` counts lines read, stored and left |
| `VMManagerProofs` | `TypeCorrect`, `MistranslationConfined`, `NoReplacement`, `Faults`, `RecencyQueue` | the same invariant for the table; a TLB entry agrees with it or is the zero entry, which can only answer for page 0 from frame 0. `Faults`: the table lists exactly the pages asked for, page 0 perhaps missing, and each slot was one fault. `RecencyQueue`: the slots behind the used part hold page 0 (`TLBEmptyBehind`), so the one the shift pulls in cannot break the order; the shift is strictly increasing, skips the entry of the page served, and drops none but the oldest of a full TLB |
| `ReplacementProofs`, Project 3 | `TypeCorrect`, `MemoryInStep`, `TranslationUntilReplacement`, `FirstVictim` | slot *i* of the table and frame *i* hold the same page through any number of replacements, the pages are distinct, and until the first replacement the frame recorded in slot *i* is *i*, in the TLB too. After it the recorded frames are wrong, so nothing about them is part of the invariant then. `FirstVictim`: until then the age of a frame is the number of accesses since its page was used, or one more if that use was a hit (`AgesFollowUses`), so the oldest frame is wrong by at most one access |
| `ReplacementProofs`, Lab 9, FIFO and LRU | `FifoCounts`, `LruCounts` | FIFO: the faults so far are a set of references; the last `tot_frames` of them are in `FRAME`, the one *a* faults back in the slot *a* behind `fptr`, and nothing else is (`Queued`), so the slot overwritten is that of the fault which leaves the queue. Until `fptr` has come to a slot every reference is a fault and a loss, and C's `%` brings it there within `tot_frames` of them (`NothingStored`). That `IsFifo` describes one set only is `FifoDetermined`, by the first reference two such sets differ in. LRU: in front of each page in `FRAME` are exactly the pages used since its last use, and a page that has left `FRAME` has been followed by all that are in it (`Stacked`), so a page in slot *k* has *k* others after it and the last slot is a miss with one frame fewer |
| `ReplacementProofs`, Lab 9, optimal | `OptimalCounts` | what has been counted and the fewest faults of the rest of the string from `FRAME` are together the fewest faults of the whole string (`OptInv`): a hit and an empty slot leave no choice, and otherwise the victim is one with the least cost (`VictimIsBest`). That is `Exchange`: with one page exchanged for another that comes back no later, a memory has no more faults; by induction over the rest of the string, together with `LacksCost`: a page less costs at most one fault. The page whose next use is last is such a page (`VictimIsFarthest`, `VictimLater`), also when it has none |
| `Lab12Proofs`, servers | `ForkTypeCorrect`, `CountCorrect`, `DeathExplained`, `ZombiesReaped` | unless torn, count and a child forked but not yet counted together are the unreaped children, and between load and store the loaded value is the count; a positive count then leaves a child to wait for. Torn or not the count is never too low (`ZombieInv`), so a handler that returns at 0 leaves at most the child not yet counted |
| `Lab12Proofs`, session | `PrintedInOrder`, `SessionImplementsQueue`, `Standstill`, `RoundTrip` | `BytesInOrder`: what the client has printed, what is under way to it, what the server holds and what is under way to the server are consecutive bytes, up to the last one sent. That alone gives `EchoInOrder`. It also makes what is printed and what is unprinted known by their lengths (`QueueState`), so for the refinement of `EchoQueue` each step need only be shown to change the two lengths as a step of the queue does, or not at all; for `BothWaitOnlyAtEnd` a waiting client must have sent something for what it waits for (`SentSomething`), so nothing can be nowhere. `UnsplitRoundTrip` needs to know where the one message is while none has been split, and that a server which closed has left exactly one byte (`OneMessage`) |
| `Lab12Proofs`, datagrams | `WordsKept`, `NothingStranded`, `TriesCorrect` | a word stays with the client it is named for in the network, in the queue and in the handler's buffer (`WordsMatch`); every datagram sent has its alarm, behind it or to come, and a client that an alarm interrupted has none to come (`AlarmsCounted`); nothing counts as arrived before `SIGIO` is asked for |
| `BridgeProofs`, exercise 2 | `TypeCorrect`, `CrossingCorrect`, `Exercise2ImplementsExercise1`, `CounterDrift` | the holder of the mutex is the one farmer past the lock, and `crossing` tells whether it is on the bridge; so the wait is never entered, and each step is one of exercise 1 or none. `CounterDrift`: the farmers of a side are counted by how many have stored their increment and their decrement; the counter and every value loaded from it are at most the increments stored and at least 0 less the decrements stored; the counter is one above that bound from the first increment on, and the last decrement leaves it below the number of farmers (`DriftOf`); `main()` frees what they use only when all have stored both |
| `BridgeProofs`, exercise 1 | `Exercise1Safe` | the semaphore is 0 exactly while a farmer is between enter and exit |
| `ThreadsProofs`, Lab 5 | `TypeCorrect`, `Estimate`, `ExactWithoutRace`, `RaceLosesAtMost` | neither the count nor a value loaded by a worker exceeds the hits stored so far, hits stored do not exceed draws, and draws do not exceed the quotas, whose sum is at most the argument (`QuotaSum`, by cases on the quotient). Without an overlap the one worker between load and store holds the current count. A worker that has stored loads a positive count from then on, so whoever stores last leaves at least two if it has stored before (`Survive`) |
| `ThreadsProofs`, Lab 3 | `StatTypeCorrect`, `MedianCorrect`, `RootReal`, `ExtremesCorrect`, `ScansExact` | the array with a swap completed that is under way (`whole`) is a permutation of the arguments, its last *i* numbers are in order with none larger before them, and the number at the place the inner loop has reached is the largest so far (`Sorts`); what stands at *k* in a sorted permutation is `Ranked(k)`, because no two numbers have the same rank (`RankUnique`, by counting). `MedianRight` alone says nothing before the last step. For the extremes: while a swap is under way one number stands in the array twice (`Doubled`), so whatever a scan reads is an argument; and as long as the sort has stored nothing, nothing a scan has passed beats what it keeps, and the element it is about to read again still does (`Extreme`). For the sums: two numbers that change places leave a sum as it is (`ExchangeSum`), so `whole` has the sum of the arguments and that of their squares (`SumsKept`), and an undisturbed scan has the sum of the part it has passed (`Average`, `Deviation`); a disturbed average is a sum of arguments all the same |
| `ShellProofs` | `HistoryKept`, `OneInForeground`, `RightSideKept`, `PromptRight` | a line recalled or read is a line again and is the one remembered; only the youngest child can be in the foreground, and only while the shell waits (`Alone`), so a child without `&` is reaped before the next line; each child's record keeps the words, the pipe's bounds and, before it executes anything, its terminal (`ChildOK`), which is what the shift of `args` for the right side of `\|` needs (`RightSideOK`). `RightSideKept`: the shift writes the NULL at place *j* + 1 of the copied words, so what is executed ends there or starts behind it (`Places`). `PromptRight`: until a `cd` goes astray the prompt is what the array held at the start, `osh`, a path that leads from the first directory to `cwd`, and `>` (`Prompts`); entering a path puts a separator, which leads nowhere, and the path behind it (`EnterShown`), and following one path and then another is following both joined (`FollowedOn`), for paths of any length |

Only model-checked, and why:

- liveness (`EveryoneCrosses`, `Reports`, `PromptReturns`, `StopTogether`,
  `ClientEnds`) and everything about enabledness, which are beyond the prover.

The reference definitions that need recursion (the fewest faults, a sum, where a
path leads) are recursive functions.  That they are what they say is proved too:
`RecursionExists`, and its like for sums and paths, show that a function with these
equations exists, and `UpTo` is induction over an interval for one given set, from
the library's theorem that `<` is well-founded on the natural numbers.

Each invariant was checked by TLC on a small instance before it was proved.
Type correctness is proved where a module has proofs; in `Shell`, `EchoSession`,
`UdpEcho` and `PageReplacement` it is a conjunct of an invariant that is proved.

## 5. What the models leave out

File and memory failures, tokens of an address file that are not numbers, the
text and layout of output, floating point, arguments of Lab 5 that are negative or
so large that the product of `pts_todraw` and `pts_total` overflows, the lengths of
the shell's lines and of its argument list, a failing `pipe()`, symbolic links and
names that contain a `:`, and what a stray store does beyond being lost or, for the
shell's prompt, crashing the shell.  Of the network programs: name resolution and
addresses, which of its calls failed before a client is connected or a server
listens (each of these ends the program in the same way, so the model has one such
failure; a failing `accept()` is modelled), more than one
connection to the echo server (it serves one and ends), errors of `sendto()` and
`recvfrom()` other than an interrupted or an empty one, and words longer than a
buffer.  The hazards in `PROJECT.json` that no property covers say why.

## 6. Plan

Done, in this order: the memory managers and their abstract specification, the
bridge and its refinement, the shared counter, page replacement, the shell; then
the statistics, the echo session, the UDP programs, the forking servers, the
shell's end of input; the proofs about LRU, the TLBs, the faults, the end of the
file and the forking servers; and those about the drift of the bridge's counters,
the losses of the race, the median and the extremes, the echo, the datagrams and
the shell; and those about the first victim of LRU and about what FIFO and LRU of
Lab 9 count; last those that need induction, about the optimal algorithm, the sums
and the prompt, and the queue of bytes the echo implements.  What would add most
from here:

1. Lab 10's three disk scheduling functions against a definition of the distance
   the arm travels.
2. The TCP servers of `Lab12/examples` that fork once at the start, or use
   threads or `select()`, each against `EchoQueue` for every client.
3. Lab 5 exercise 1, as far as programs without synchronisation promise anything.
