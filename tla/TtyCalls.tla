------------------------------ MODULE TtyCalls ------------------------------
(***************************************************************************)
(* The text of a program that talks to its user, as Terminal runs it: a     *)
(* sequence of the calls it makes, each a record whose op says which.       *)
(***************************************************************************)
EXTENDS Integers, Sequences

\* Keys are character codes.  A line that is read as a whole is one key.
Eof     == -1
Eot     == 4      \* the end of a line without a newline; alone, the end of the file
Newline == 10
Esc     == 27
ALine   == 1000
AQuit   == 1001   \* the line quit

EndsLine == {Newline, Eot, ALine, AQuit}

\* tcgetattr(0, &original_mode) and fcntl(0, F_GETFL), kept in static variables.
Save      == [op |-> "save"]
SaveFlags == [op |-> "saveflags"]

\* tcgetattr(), bits of c_lflag cleared and set, tcsetattr(); bits set in the flags of fcntl().
Change(off, on) == [op |-> "change", off |-> off, on |-> on]
SetFlag(flag)   == [op |-> "setflag", flag |-> flag]

\* The saved ones are installed; what fcntl() returns is stored where they were.
Restore      == [op |-> "restore"]
RestoreFlags == [op |-> "restoreflags"]
StoreResult  == [op |-> "storeresult"]

\* What a signal does: kill, nothing, or run a text, with more signals blocked
\* during it (sa_mask), or only the first time (SA_RESETHAND).
Default == [do |-> "default", text |-> <<>>, mask |-> {}, once |-> FALSE]
Ignore  == [Default EXCEPT !.do = "ignore"]
Run(handler) == [Default EXCEPT !.do = "run", !.text = handler]
RunOnce(handler, mask) == [Run(handler) EXCEPT !.mask = mask, !.once = TRUE]
Signal(s, what) == [op |-> "signal", s |-> s, what |-> what]

Alarm == [op |-> "alarm"]
Pause == [op |-> "pause"]
Paused == [op |-> "paused"]    \* while it sleeps

\* The handler of s ends.
Return(s) == [op |-> "return", s |-> s]

\* while ((c = getchar()) ...): on[c] is run, and the loop is left if c is in leave.
GetChars(on, leave) == [op |-> "getchars", on |-> on, leave |-> leave]

Put(c) == [op |-> "put", c |-> c]

\* A function of the program is called, by name because it may call its caller.
CallOf(name) == [op |-> "call", name |-> name]

ExitWith(c) == [op |-> "exit", code |-> c]
=============================================================================
