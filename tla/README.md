# Specifications of the System Programming programs

The repository holds the exercises and assignments of a course on Unix system
programming: about eighty small C programs, in a directory per week. There is
no common library. What the programs share is the system they run on, and what
is hard about them is what they do with it: signal handlers that interrupt
`main()`, threads with one lock and one condition variable, processes connected
by pipes whose ends have to be closed in every one of them.

This directory models them in TLA+, checks the models with TLC and proves some
of their properties with TLAPS.

- `PROJECT.json` lists components, runs, mutants, the source lines each
  definition translates, hazards, findings and theorems.
- `tlc -config MCBall.cfg MCBall.tla` checks a run; `tlapm BallProofs.tla` checks
  the proofs of a module.

## 1. Inventory

### Signals (src/191028)

| program | state | operations | what makes it hard |
|---|---|---|---|
| `bounce2d.c` (twin: `bounce2d_p.c`) | `the_ball`: position, direction, ticks to move and to go, per axis; the timer; curses | speed keys, `Q`, `ball_move()` on SIGALRM, `set_up()`, `wrap_up()` | the handler runs between any two accesses of `main()` |
| `bounce1d_p.c`, `hw5/hello5_revised.c` | `col`, `dir`, `delay`, the timer | space, speed keys, `Q`, `move_msg()` on SIGALRM | `dir = -dir` is not atomic; unsigned border test; `delay * 2` overflows |
| `bounce_async_p.c`, `bounce_aio_p.c` | `col`, `dir`, `done`, stdio's buffer or the aio request | `main()` pauses; `on_input()` on SIGIO, `on_alarm()` on SIGALRM | the two handlers nest in each other; signals merge; `pause()` after the test of `done` |

They should: keep the ball and the message where they belong, act on keys in order,
never block in a handler, end when told to, and leave the terminal as it was.

### Threads (src/191125, src/191202)

| program | state | operations | what makes it hard |
|---|---|---|---|
| `twordcount4.c` | mailbox, lock, flag, two counts, the total | two counters report, `main()` adds | three waiters on one condition variable, waits with and without a test |
| `hw8` (two submissions) | buffer, blocks, counters, total, mutex | split, count, add, join, free, print | lost updates, freed buffer, words across blocks |
| `twordcount1-3.c`, `incprint.c`, `hello_multi.c` | totals | count, join | no mutex (1), does not link (2), joins the same thread twice (3) |
| `tanimate_p.c` | one message per thread, the drawing mutex | keys reverse, `Q` cancels | `dir` is shared without the mutex; end under the mutex |
| `191216(Final)` | two children with threads, two pipes | count words, add numbers | unfinished: writes addresses, never reads |

They should: add every count once, before it is printed, and come to an end.

### Processes (src/191104, src/191111, src/191118)

| program | state | operations | what makes it hard |
|---|---|---|---|
| `pipe_p.c`, `hw7` (two submissions), `popen_p.c`, `tinybc_p.c` | processes, descriptors, pipes | fork, dup2, close, exec, wait | one open end too many and a reader waits for ever; `fork()` that fails |
| `psh1.c`, `psh2.c` | the argument list, the child | read a word, run, report | shell and command share the terminal; statuses; end of input |
| `hw6`, `whotofile_p.c`, `waitdemo1-2.c` | an array, files, children | sort, write, wait | a wait that covers two processes |
| `pipedemo*.c`, `popendemo.c`, `forkdemo*.c`, `stdinredir*.c`, `exec1.c`, `before.c`, `after.c` | little | a few calls each | - |
| `timeserv_p.c`, `timeclnt_p.c` | a listening socket | accept, write, close | a queue of one, partial reads, a client that leaves |

They should: pass every line through the commands in order, end, print the
right status, and not announce what is not done.

### Terminal (src/191007, src/191028, src/190930)

| program | state | operations | what makes it hard |
|---|---|---|---|
| `play_again0.c` to `play_again4.c` | the modes of the terminal, the flags of the open file, what was saved of them, the tries left | ask, read, restore; `ctrl_c_handler()` on SIGINT | keys typed ahead and discarded; a signal before the handlers are there, or in the middle of restoring |
| `hw4/hw4_2018110124.c`, `rotate.c` | echo, the calls of two functions in each other | `command_mode()`, `insert_mode()` | the mode depends on all keys before |
| `sleep1.c`, `sigdemo.c`, `sigactdemo.c` | handlers, masks, the alarm clock | handlers that take their time | a handler interrupted by another; the alarm before `pause()` |
| `echostate.c`, `setecho.c`, `showscreen.c`, `write0.c`, `ticker_demo.c`, `hello1-4.c`, `Ex6.c`, `Ex7.c` | - | a call or two each | - |

They should: leave the terminal as it was, take the first answer, come to an end in
time, do what the keys say, and finish a handler that has begun.

### Files (src/190909, src/190916, src/190930, src/191021)

| program | state | operations | what makes it hard |
|---|---|---|---|
| `cp1.c`, `hw2` (three versions), `cp_mid_KS.c` | directory streams, a `struct stat` that is used again, two descriptors | two passes over a directory; recursion; a copy by blocks | the source changes between and during the passes; results that nobody checks |
| `spwd.c`, `hw3` (three versions) | the working directory, a call for each directory on the way, the path, a heap | up to the root by inode numbers, back down, listings sorted by number | renames meanwhile; mounted file systems; the order of reading |
| `who2.c`, `who3.c`, `utmplib.c` | a buffer of records | plain and buffered reads | partial and failed reads |
| `ls1.c`, `ls2.c`, `fileinfo.c`; drafts of the midterm (`cp_mid.c`, `cp_mid_test1-3.c`) | - | one pass, one `stat()` | - |

They should: copy all that was there or say that they did not, invent nothing, and
print a path that was one.

## 2. Modules

| module | what it is | of |
|---|---|---|
| `Ball`, `MCBall` | the bouncing ball | `bounce2d.c` |
| `Bounce1d`, `MCBounce1d` | the bouncing message | `bounce1d_p.c`, `hello5_revised.c` |
| `EventLoop` | the same message with two handlers | `bounce_async_p.c`, `bounce_aio_p.c` |
| `KeyStream` | abstract: keys are acted on in order, none twice, each of them | promised by `EventLoop` |
| `TWordCount4` | the mailbox | `twordcount4.c` |
| `Reports` | abstract: every count is added once, before the total is announced | promised by `TWordCount4` |
| `WordBlocks` | counting by blocks | `hw8` |
| `MCWordCounts` | both counters, each alone | - |
| `Syscalls` | constructors for program texts | - |
| `Unix` | kernel: processes, descriptors, pipes, files, terminal | external, as the programs use it |
| `PipePrograms`, `Pipelines` | the pipe programs as texts; their starts and properties | `src/191118` |
| `ForkPrograms`, `Children` | the shells and the parents that wait as texts; their state, starts and properties | `src/191104`, `src/191111` |
| `MCProcesses` | both, on one kernel | - |
| `TtyCalls` | constructors for program texts | - |
| `Terminal` | line discipline, open file, signals, alarm clock, and the user | external, as the programs use it |
| `TtyPrograms`, `Dialogues`, `MCDialogues` | the programs as texts; their starts and properties; bounds | `src/191007`, `src/191028` |
| `Copying`, `MCCopying` | the copiers, on a small file system that others change | `cp1.c`, `hw2`, `cp_mid_KS.c` |
| `Listing`, `MCListing` | the programs that look for their place, on a tree whose files are renamed; the sorts | `spwd.c`, `hw3` |
| `Tanimate`, `MCTanimate` | a thread for each message | `tanimate_p.c` |
| `BallProofs`, `Bounce1dProofs`, `EventLoopProofs`, `TanimateProofs`, `ListingProofs`, `CopyingProofs` | theorems | of the module each is named after |
| `WordCountProofs` | theorems | of `TWordCount4` and `WordBlocks`, the threads that count words |
| `ProcessProofs` | theorems | of `Children` and `Pipelines`, on what both need of `Unix` |

**Signals.** A process has one flow of control: while a handler runs, what it
interrupted does not. `Ball` and `Bounce1d` split `main()` at every access to a
variable that the handler writes or reads (`LoadTtm`, `StoreTtm`; `LoadDir`,
`StoreDir`). In these two programs SIGALRM is blocked, or ignored, during its
handler, and the handler is one step (`Bounce1d`) or entry, movement and exit
(`Ball`, because of the calls of `signal()`). In `EventLoop` the handlers may
interrupt each other, so both are split at every access to `dir` and `col`, and
`stack` holds those that have started. `signal()` is glibc's: the handler stays
installed, its own signal is blocked while it runs, other signals are not.
Pending signals of one kind merge.

**Threads.** One action per access to shared memory or call of the pthread
library. `spurious` says for a behaviour whether `pthread_cond_wait()` may return
without a signal. In `WordBlocks`, `total += n` is a load and a store. So is
`props[i].dir = -props[i].dir` in `Tanimate`, where a thread reads `dir` three times
in a round; `col` is its own, so that drawing, moving and testing are the steps
between which `main()` may write. A cancelled thread ends when it comes to
`usleep()`, and the others when the process ends.

**Processes.** A program is a text: a sequence of system calls, with the child's
text inside its `fork()`. `Unix` has one action per system call, and every
process that can take a step may. A descriptor is named by the variable that
holds it, so that `close(thepipe[1])` reads as in the source. `exec` replaces a
process's text by that of a command: `cat` copies its input, `head` stops after
a line, `ls` and `who` write two lines, `nosuch` does not exist. A line carries
its number and the positions of the commands it went through. `fork()` fails
when the process limit is reached. The shells need two more things, the words
collected so far (`argv`) and what to do with the next one, which `Children` adds
to the kernel as actions of its own.

**Terminal programs** are texts too, of calls on `Terminal`: `getchar()` with what each
key leads to, `tcsetattr()`, `fcntl()`, `signal()`. A key goes from `typed` to stdio's
buffer (`got`) when `read()` can have it - in canonical mode at the end of a line,
without blocking if `O_NDELAY` is set - and from there to the program (`used`). A
handler is a text put before the rest; the interrupt and quit keys discard what has not
been read. Functions are called by name because `command_mode()` and `insert_mode()`
call each other.

**Files.** In `Copying` a file system is a function from inodes to files, with blocks
and permissions, and directories. `frames` are the calls of `enter_dir()`, each with
the entries it has still to read: a stream reads a directory at once, when it is first
asked. `Meddle` is somebody else, who creates and removes entries of the source, and
extends, empties, writes over or forbids files, any of them several times; `had` keeps
what has been where.
What a start may be is said by `StartsAssumption`: the disk is a tree (`IsTree`: a file
or directory has one name, there are no links), and source and destination are apart
(`Apart`).
In `Listing` the tree is fixed and its names change (`Rename`). An inode number is
given twice, to the directory (`ino`, what `stat()` says) and to its entry (`dino`, what
`readdir()` says): they differ where a file system is mounted. The sorts are functions on
rows, evaluated once for every order in which a directory may be read, and for the 2018
submission, which asks `lstat()` for the numbers without looking whether it fails, for
every entry that may have been renamed since it was read.

## 3. Runs

| run | shows | bounds, and why they are enough |
|---|---|---|
| `ball` | InCourt, OneBall, DrawsInsideCurses, KeepsBouncing | court of 4 by 3 cells, ttm -1..2: walls, corners, a stopped and a negative speed, and reversals of speed at every value of the countdown |
| `message` | FlipBound, SpeedKeysKeepTheirSense, Recovers | 5 columns, a message of 2, at most 4 reversals: far enough out for the unsigned test to wrap; INT_MAX = 511: overflow after a few keys |
| `message_exit` | *violated*: ExitRestoresTerminal | as above |
| `event_loop` | NeverBlocks, FlipBound, KeysInOrder, DoneExits, AioHandlesEveryKey | 3 columns, 2 keys, typed before or after the set-up: two is the least number that merges |
| `word_counts` | NeverNull, NoOverwrite, AllReported, ImplementsReports; BufferOutlivesReaders, CountsInnerWords | two counters, as in the program, and two files of three words: both read the first (below); every file of up to 5 bytes, 1 to 3 threads: blocks of no, one and more bytes, with and without remainder |
| `word_total` | *violated*: CountsAllWords | as above |
| `processes` | InOrder, AllEnd, OutputBeforeEnd, NothingLost; ReportsItsChild, DoneMeansDone, ReadsAlone, EveryCommandRuns | 1 to 3 commands from cat, head, nosuch (for `hw7_2017114533.c` up to two, and three of which the middle one cannot be run); a pipe holds one line and two are typed, so that writers block; everything that can be typed to a shell in five lines, MAXARGS 3; every array of three numbers out of three; one fork or none fails |
| `tinybc` | *violated*: DcSeesEof | none or one expression |
| `dialogues` | RestoresTerminal, AnswersTheQuestion, EditsAsTyped, HandlerFinishes, EndsInTime | three keys for a question, one more than it takes to answer after a key that is none; four for the editor, which nest its functions twice; one to three signals, so that one comes into the handler of another |
| `copying` | SuccessMeansCopied, UntouchedIfSubdirectory, NothingInvented | two entries of up to two blocks, readable, unreadable or a directory, to a destination that is missing, empty or has an older and longer copy; one change by somebody else, or two, of one entry or of two, for two of the programs; one write fails. Two changes to the file in hand are enough to have old, new and no blocks in one copy |
| `tanimate` | FlipBound, DrawsAlone, QuitEnds, ComesBack | two messages, a row of 4 columns, one key, which may reverse both |
| `listing` | PathIsTrue, ListsTheWay | a root with four entries, whose heap is three levels deep, a directory in it and another in that, with numbers in three orders, and mounts on either directory, of a root with a number of its own or with that of another entry or of /; and two branches with the same names, which renames can exchange; four renames |

A property is stated as strongly as the code makes it true. `FlipBound` is not
"the message stays on the screen", because it does not: a space bar at the edge
sends it out by one column, and the bound says that this is all. `Recovers` adds
that it comes back after at most `strlen(MESSAGE)` reversals; further out on the
left the unsigned comparison takes a negative sum for a large one and the message
stays away. `NeverNull` and `NoOverwrite` hold without spurious wakeups only, since
the waits of `twordcount4.c` do not test again; that the total is right when it is
printed (`ImplementsReports`) holds with them too. `ImplementsReports` takes for
granted that both files have as many words: line 38 gives both counters the first one, and
for files that differ TLC finds the total wrong. `CountsInnerWords` says which words `hw8`
counts, those whose last byte is followed by a byte of the same block; `CountsAllWords`
is what its comment says, which is violated. `InOrder` is exact about where
`hw7_2017114533.c` departs from the command line: the first command is run twice, and one
in the middle that cannot be run is left out, because the process goes on behind its
`execlp()` (lines 46-58). `SuccessMeansCopied` is about files that nobody touched, and does not
claim of the tutor's version that a file it could not open or write is there.
`NothingInvented` is about all files, at any moment: each block of a copy is one that one
and the same file, at the same place in the source, has had at that position. It does not
say that the file ever had them all at once: one that is written over while it is copied
gives old blocks and new ones, and no program notices. `RestoresTerminal` allows
flags of 0 when the interrupt comes into the middle of restoring. `EndsInTime` asks of
`sleep1` that it is in `pause()` when the clock rings.
`RestoresTerminal` allows `play_again4` to be killed while one of its two signals is
still at its default. `PathIsTrue` does not say that the path printed was a path at
any one time, which renames make untrue for all four programs, but that each of its
parts was the name of the right directory at some time. It asks for numbers that tell
apart (`NumbersTellApart`): on the way from the root no directory has the number of another
entry of the one it is in, `.` and `..` among them. This is so on one file system, and
where the root of a mounted one has a number that is not found next to it. It is not so where
a file system is mounted in the root of another, for roots have the number 2: the programs
then take the mounted root for /, or find `.` or another entry under its number, and
print a wrong path without an error. A mounted root with a number of its own is not found,
and they give up. The tutor's version, which finds its way back by paths, has the property on one
file system and with at most one rename (with mounts it leaves a part out; its comment at
`hw3_tutor.c:105` promises the output of `pwd`): with two, names can be exchanged so that it
prints another directory's, and TLC shows how when the bound in `PathIsTrue` is raised.

`ImplementsReports` and `KeysInOrder` are refinements: `TWordCount4` and `EventLoop`
implement `Reports` and `KeyStream` under the mappings given at the `INSTANCE`.

### Fairness

- A timer that runs fires again (`Ball`, `EventLoop`); the process is scheduled.
  In `EventLoop` the handlers and `main()` disable each other again and again and
  get strong fairness: a tick every 200 ms leaves time for both.
- An outstanding aio request completes when there is input.
- Threads: every thread that can run is scheduled; a lock that is free again and
  again is obtained in the end (`TWordCount4`).
- Processes: the kernel schedules each one that can run. No fairness is assumed
  of the user, who need not press a key.

- `Terminal`: the process runs and the clock rings when they can. The user need not type:
  a question without a time limit may wait for ever, and `EndsInTime` is about those
  that have one.
- `Tanimate`: `main()` and every thread run when they can, and a mutex that is free again
  and again is obtained. The user need not type `Q`.
- `WordBlocks`, `Copying`, `Listing`: no liveness is claimed and no fairness assumed; deadlock
  is checked, so that each of them can always go on until it has ended.

### Findings

1. `bounce1d_p.c:62` and `hello5_revised.c:62` call `endwin()` with the timer armed:
   a tick before the end of the process puts the terminal back into curses mode.
2. `tinybc_p.c:39-42` keeps the write end of dc's own input, so dc never sees the
   end of file that the comment at line 84 announces, and `main()` waits for ever.
3. `hw8_2018110124.c:59` and `:104-113` count no word that ends with a block or in the
   remainder, of which line 99 says "print the total number of words in the file".

The models show more that no run is spent on:

- `bounce_async_p.c:55` takes one byte per SIGIO: of two keys that arrive together
  one waits for a third.
- `twordcount4.c:38` counts the first file twice (`Fname`), though its usage is "file1 file2":
  with `Words` of two different numbers, TLC finds ImplementsReports violated.
- `psh2` prompts for ever at the end of its input, and ends without a word at the
  twentieth argument; the first child of `hw6` prints the elapsed time itself when its
  fork fails; `popen_p.c` never waits for its child; `hw7_2017114533.c` runs its
  first command twice, leaves out one in the middle that cannot be run, and does not compile:
  the brace that ends `main()` is missing.
- A component of the ball that is slowed to a stop starts again with the next `s` key.
- `play_again1` to `play_again3` and `hw4`, and `play_again4` until line 30, die by an
  interrupt with the terminal changed. TRIES of 3 is four looks. The quit key that
  `play_again4` ignores still discards an answer typed ahead. When the interrupt comes
  into the middle of restoring, the flags are set to 0.
- `sleep1` sleeps for ever if its alarm rings before `pause()`.
- A file that is written over while `cp1`, `hw2` or the midterm copies it becomes a mixture.
- `spwd` and `hw3` print a wrong path where a mounted root has the number of a directory
  next to it on the way.
- `hw2` creates an empty file for a directory that appears between its passes, or gives
  up at it. The tutor's version ends without an error when a write fails, and its
  second pass works because `opendir()` gets the memory that `closedir()` gave back.
- `cp_mid_KS` makes a directory for an entry that vanished after another directory was
  read, and cannot copy a directory with subdirectories into a copy of it.
- In `tanimate` a message that starts in column 0 heading left is at -1 before it is
  tested. If `pthread_create()` fails, `endwin()` is called while threads may draw.

## 4. Proofs

TLAPS proves, for every value of the constants allowed by the named assumptions:

| theorem | property | argument |
|---|---|---|
| `BallProofs!CourtSafe` | InCourt; and CountdownLives, TypeOK | `CourtInv`, below |
| `BallProofs!OneBallSafe` | OneBall | inductive with TypeOK: each movement erases the cell it remembers |
| `BallProofs!HandlerInsideCurses` | DrawsInsideCurses | the states of `pc` in which the timer runs lie between `initscr()` and `endwin()`; a tick still pending when it is stopped is the case to look at |
| `Bounce1dProofs!FlipBoundSafe` | FlipBound | `FlipBound` and `Headway` |
| `EventLoopProofs!NestedFlipBound` | FlipBound | the same, with the registers of both handlers |
| `Bounce1dProofs!SpeedKeysSafe` | SpeedKeysKeepTheirSense | `TimerInv`: the timer's interval is main()'s delay, positive and within int; a doubling that overflows is negative, which the test `ndelay > 0` keeps out; halving or subtracting is tried only where something positive is left |
| `EventLoopProofs!NeverBlocksSafe` | NeverBlocks | `KeyInv`, below |
| `EventLoopProofs!KeysRefined` | KeysInOrder | step refinement of `KeyStream`, with `KeyInv` |
| `WordCountProofs!ReportsRefined` | ImplementsReports | if both files have as many words, step refinement of `Reports` for any finite set of counters; `BoxInv`, below |
| `WordCountProofs!NeverNullForTwo`, `NoOverwriteForTwo` | NeverNull, NoOverwrite | if there are two counters and no spurious wakeups: who sleeps, who has been woken, and what is in the box |
| `TanimateProofs!FlipBoundSafe` | FlipBound | room left on each side, with what `main()` has read of `dir` and what a thread has decided |
| `TanimateProofs!DrawsAloneSafe` | DrawsAlone | `Locked`: who is between lock and unlock holds the mutex, and `main()` keeps it |
| `WordCountProofs!BufferSafe` | BufferOutlivesReaders | `JoinInv`: main() counts joins, and a thread that it has joined stays returned |
| `WordCountProofs!AddsSafe` | what a thread stores is the latest total plus its own count | `LockInv`: no two threads between lock and unlock |
| `WordCountProofs!CountSafe` | CountsInnerWords | what has been added and what has been counted, below |
| `ListingProofs!PathTrue` | PathIsTrue, but for the tutor's version | `WayInv`: the recursion stands on the way, below |
| `CopyingProofs!SubdirectoryLeavesAll` | UntouchedIfSubdirectory | `HwInv`, below: the first pass writes nothing and does not miss a subdirectory |
| `CopyingProofs!CopiesAll` | SuccessMeansCopied, for `hw2` and `cp1` | the same invariant: the second pass does not miss a file; for `cp1`, `CpInv` |
| `CopyingProofs!InventsNothing` | NothingInvented, for `hw2` and `cp1` | the same invariants: what is read is never what is written |
| `ProcessProofs!CommandsReported` | ReportsItsChild, for the shells | `Psh2Inv` and `ReportedInv`, below |
| `ProcessProofs!AloneAtThePrompt` | ReadsAlone, for the shells | the same invariant: at the prompt there is no child |
| `ProcessProofs!LinesInOrder` | InOrder, for `pipe_p.c` and `popen_p.c` | `PipeInv`: where each line is on its way, below |
| `ProcessProofs!NothingAfterTheEnd` | OutputBeforeEnd, for the same | the same invariant: process 2 writes only when its output is the pipe |
| `ProcessProofs!SortsEveryArray` | what SortsAssumption checks: both sorts of hw6 sort | `RowInv`: what is in order after each comparison, below |
| `ProcessProofs!WaitedFor` | DoneMeansDone | `ParentInv`: what the children have done, below |
| `ProcessProofs!ChildReported` | ReportsItsChild, for the parents that wait | the same invariant: whom `wait()` can have returned for |

`InCourt` is not inductive: a ball on a wall that heads outward would leave. The
invariant adds `HeadsInside`: on a wall the direction points inward, and it is
never 0. Then a movement by one cell stays in the court, and the tests with `==`
meet every wall. `CountdownLives` is needed with it because a component moves only
when its countdown reaches one.

`FlipBound` is not inductive either: at the bound, heading outward, the next tick
breaks it. `Headway` says that a message heading left has a column of room left,
or of reversals not used up, and the same for the right; a reversal uses one up in
the other direction's favour. In `EventLoop` a handler may hold an old `col`, or a
direction it has decided on, while the other changes `dir`; the invariant states the
same room for what is in its registers, by place in the handler. `TanimateProofs` has
the same argument with the roles the other way round: there `main()` holds an old `dir`
when it stores its reversal, and any number of threads move.

A report is collected when `MainReads` finds it in the mailbox and it has not been
collected before, with its final count. `BoxInv` keeps both: a report is in the box
only once its counter is behind the store, and while `main()` waits the box holds
none that it has collected. The second needs `LockInv`: a counter stores under the
mutex, which `main()` holds from reading the box until it has emptied it. A report
stored over another one is lost, and then `reports_in` never reaches the number of
counters: `reports_in` is the number collected, so that the total is announced when
all of them are in it. Nothing in the argument uses the condition variable, which is
why it survives spurious wakeups and more than two counters.

That no report is lost (NeverNull, NoOverwrite) is another matter. `flag` is one
condition variable for everybody, so that the signal of a report might wake the other
counter and not `main()`. `WaitInv` says why it does not: a counter waits only for
`main()` to take the report of the other one, which has then returned, so that with two
counters there is never more than one of them waiting, and never together with `main()`.
With three there can be (TLC finds a state in which everybody waits), so that the
theorems assume that `Counters` has two members; `ReportsRefined` does not.

`NeverBlocks` is about numbers in four places. Every SIGIO that is still to be handled
stands for at least one key, and merging signals only makes them fewer; `KeyInv` counts
the claims (a pending signal, a handler that has not read yet) and the keys in the
terminal and in stdio's buffer, and says that there are no more of the first, unless the
input is closed. With aio there is one request, renewed by the last action of the handler:
its signal cannot come before the handler is through. The same invariant says that what
has been acted on, the key in hand, the buffer and the terminal are, put behind each
other, what was typed, which is the mapping to `KeyStream`.

`CountsInnerWords` speaks of the sum over the threads, but needs no induction on it:
`SumInv` says that `total` is the size of the set of words that end in the blocks added so
far. An addition adds the set of one block, and blocks do not overlap (`BlocksApart`).

`PathIsTrue` is proved of the recursive programs: with `Way` the directories from the
root to where the program began, the frames of the recursion hold the numbers of the last
directories of `Way`, the working directory is the one above them, and the names found
were theirs when they were found (`UpInv`, `DownInv`). Renames do not matter because
numbers and `..` do not change. `Lost` is when nothing is claimed: the tutor's version,
and a way on which numbers do not tell apart; elsewhere in the tree they may be equal, and
file systems may be mounted on the way. A tree is given by the way to each of its nodes, and
`TreeAssumption` says that these ways exist.

`Psh2Inv` goes through the program of `psh2` call by call. At the prompt the arguments
are the words typed since the last empty line, every command is reported and there is no
other process. From `fork()` to `wait()` there is one child, the last one forked; its
arguments are the shell's, and how it ends depends on its command alone (`ChildInv`). In
between the last command typed is the one that is not reported. `ReportedInv` is
`ReportsItsChild` with what is known of the lengths. Four lemmas say what one more line
does to the commands in what was typed (`OneMoreLine`, `SameCommand`, `NewCommand`,
`LastNumber`), so that no induction over the lines is needed; for this `Commands` is
defined as a set of places and not by reading the lines from left to right. The theorems are
about behaviours that start with a shell (`ShellsOnly`): any lines, any `MAXARGS`, any
number of processes, any number of forks that succeed below it.

`InOrder` speaks of the screen only, and a line comes there from the pipe. `FlowInv` puts
in one order the lines on the screen, the one that process 1 has read, those in the pipe
and the one that process 2 has read; and what is typed next comes after all of them. That
a line passes this way and no other is a matter of descriptors: `ReaderInv` and
`WriterInv` go through the texts of both processes and say, call by call, what the
descriptors used from here on refer to. Process 1 reads the terminal no more once
`dup2()` has put the pipe at its input, process 2 has the pipe as its output when it
becomes the first command, and whatever that is, it does not write before. The theorems
(`PipesOnly`) are about any two commands of which the second copies its input or cannot be
run, any number of lines, any capacity of the pipe, and a `fork()` that fails or does not.

`DoneMeansDone` is about three programs of one shape, a parent that waits for a child and
then says something, and `ParentInv` has a part for each. Before the words are on the
screen the parent stands at a call of its text, and while it stands at `wait()` the child's
part (`UsersInv`, `TalkInv`, `DescendInv`) says how far the child is and what it has
written; a zombie has done all of its work. Hence `wait()` hands that on: what was true of
the zombie is what the parent knows from then on (`Listed`, `Told`, `Both`). In hw6 the
child has a child, of which its parent knows nothing: `DescendInv` contains `AscendInv`,
and the child does not exit before it has waited. Its two writers have a file each, and
each of them keeps what the invariant says of the other's (`Keeps`). When hw6's second
`fork()` fails the parent says that it has finished and there are no files, which is why
`DoneMeansDone` asks for `forks > 0`. That what one process computed is in the file, whole, when the parent
speaks is one half of the argument; that it is the array sorted is the other.

The two sorts of hw6 compare every place i with every place j, also those behind i,
and exchange on the same comparison throughout: the outer loop looks as if it sorted
the wrong way round for half of its run. `SortsEveryArray` shows that they sort every
array of integers. `RowInv` is what holds after the comparison of place i with place j:
the places before i are in order, those of them up to j are not after what is at i, and
the value that comes last of all is at place i - 1 until j gets there, and at i
afterwards. The first row brings it to place 1, and each row moves it on by one and
inserts what it finds at i into the places before. An exchange is a bijection of the
places, so that no value gets lost (`ExchangeKeeps`, `HowOften`). `MCProcesses` has TLC
evaluate the same for every array of up to four numbers out of four.

The sorts are folds over the sequence of the n * n places, so this is an induction
over data. The library's induction theorems take an operator as a parameter, which the
provers cannot instantiate; but that `<` on the naturals is well-founded, and what that
means for sets, they can use. `LeastNat` and `SetInduction` are induction over a set of
numbers, `IterExists` makes from it the function of partial results that a fold is
defined by, and `FoldSteps` says that the fold is its last value and each value comes
from the one before.

The theorems about `hw2` are about three programs at once and somebody who meddles with
what they read, and the difficulty is less the two passes than that everything is named
by a path, which is looked up again in every call, on a disk that has changed since.
`LookupOn` is a recursive function of a path, and `SetInduction` gives its steps
(`LookStep`), that a path leads where it led if none of its steps has changed
(`SameWay`), and where it can lead at all (`LookType`). There are three things that can
happen to a disk: an entry is added, a file is rewritten, an entry is removed (`Grows`,
`Rewrites`, `Shrinks`); each keeps it a tree, and says which entries are as they were.

`HwInv` then has these parts. `WayInv`: the source and the destination are where they
were at the start, with everything on the way to them. `SrcInv`: an entry of the source
that nobody touched is the same file with the same blocks. `HadInv`: what has ever been in
the source is not in the destination; that is what keeps a program that truncates and
appends from destroying what it is reading, and it needs that nothing has two names and
that a new file is nobody's. `HistInv`: `had` knows every file of the source under one
name, with the blocks that it has now. `DestInv`: what is in the destination was there, or
is made of blocks that one file under the same name has had, each at its place
(`MadeOf`), whatever has become of the file since: `had` only grows. `DeepInv` is about what was in
directories of the destination, which is left alone. `SubInv`, `PassOneInv`, `DoneInv` are
the two passes: in the first one an untouched subdirectory is still to be read, in hand,
or has ended the program, and the destination is as it was; in the second one every file
that is wanted is still to be read, in hand, or copied. `CopyInv` is the file in hand: the
input, how far it is read, and that the output has exactly as many blocks, which are blocks
that the input has had there and, if nobody touched it, those it begins with (`Taken`). In the
tutor's version the last holds only as long as no write has failed (`Noticed`).
`CpInv` is the same for `cp1`, whose paths may be of any length: the way to the source
does not change when the output is created, because the entry that is added was not on
it (`GrowsWay`), and the directory that gets it is not the source.

Taking `struct stat` from the entry before, when an entry has vanished, makes no hole in
this: it can only make a program end or skip the one entry that has been touched.

The assumptions are those of the modules: the court is not empty and the ball
starts inside it with positive speed (`CourtAssumption`; `MCBall` checks that
`bounce.h` satisfies it), the message is shorter than the screen
(`ScreenAssumption`), the counters are finitely many and none is called `main`
(`CounterAssumption`), there is a thread to create (`SizeAssumption`), the animated
messages fit on the screen (`RoomAssumption`), the directories are a tree
(`TreeAssumption`), a disk is a tree on which neither the destination nor what may be
below it is the source or inside of it, and no name is a "/" (`StartsAssumption`), there
may be a file (`InoAssumption`), and MAXARGS and the kernel's limits are positive (`MaxArgsAssumption`,
`KernelAssumption`). `ScreenAssumption` also says that `INT_MAX` is at least 50: a delay
that wraps around must not come near the 50 that the speed keys compare with.

Only model-checked: everything under fairness (KeepsBouncing, Recovers, DoneExits,
AioHandlesEveryKey, AllReported, AllEnd, NothingLost, EveryCommandRuns, EndsInTime,
QuitEnds, ComesBack), which is out of the prover's reach; of InOrder and
OutputBeforeEnd, what the two submissions of hw7 do, whose programs are made by recursive
functions of the number of commands; the programs that `Terminal` interprets as texts
(`command_mode()` and `insert_mode()` call each other, to any depth); of the copiers, what
the midterm's recursive copy does; of the listings, `ListsTheWay`, and
`PathIsTrue` for the tutor's version. The sorts of `Listing` and the texts of `doPipe()` would need an
induction each, as the sorts of hw6 have.

## 5. Not modelled

- Contents that no property looks at: names, dates, prompts, the formatting of
  output. A word list of a file is its number of words; a file that cannot be
  opened has none.
- `pipe()`, `dup2()`, `exec` for lack of memory do not fail; `fork()` does.
- Standard output is the terminal, which stdio writes line by line: the copies of
  unwritten output that a `fork()` makes when it is a file are left out. So are lines
  longer than a buffer, and the interrupt key in the shells.
- The branch of `tinybc_p.c` for a line that is not an expression: every line is one.
- A read error of the aio request is the end of input.
- In the terminal programs prompts are left out, an end of file is not typed to the
  signal demos (they read for ever then), and the stack of `hw4` has no limit.
- In `Copying`: the `close()` of descriptors that were not opened (`hw2_tutor.c:69-70`), links
  to one file; permissions of the destination and modes of new files; paths longer than
  the buffers of 50 bytes, or than `av[2]`, to which the midterm appends; a destination
  inside the source, or the same as the source.
- In `Listing`: a rename onto a name that exists, an `lstat()` or `chdir()` that fails for
  want of permission, more entries than `BUFSIZ` or `HEAP_MAX_SIZE`.
- In `Tanimate`: the picture, the delays, and a message that does not fit.
- `twordcount1.c` is the `total += n` of `hw8` without its mutex, which is a mutant of
  `WordBlocks`; `twordcount2.c` and `who2.c` do not link and `twordcount3.c` does not
  compile; the final and the drafts of the midterm are unfinished.
- Real time: a tick may come at any moment, `sleep()` is any delay.
- Lecture notes, archives and the make example have nothing to model.

## 6. Plan

Done: signals, threads, processes, terminal, files. What is left, in order of what is
most likely to be wrong and least likely to be tested:

1. *Proofs*: RestoresTerminal for the versions of `play_again` that save and restore;
   the recursive copy of the midterm, whose invariant needs the stack of its calls.
2. *Files*: the buffered reader `utmplib.c` refining the plain one of `who2.c`, with reads
   that fail or are short.
3. *Processes*: the time server and its client, `pipedemo2_p.c`, on `Unix`.
