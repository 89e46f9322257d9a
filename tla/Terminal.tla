------------------------------ MODULE Terminal ------------------------------
(***************************************************************************)
(* What one process sees of its terminal: the line discipline with its      *)
(* modes, the flags of the open file, stdio's buffer, signals from the      *)
(* keyboard and the alarm clock.  The user types and interrupts at any time. *)
(***************************************************************************)
EXTENDS TtyCalls, FiniteSets, FiniteSetsExt

CONSTANTS
    Starts  \* records: program, text, procs, keys, tty, flags, and the bounds
            \* types and signals: how many keys and interrupts the user types

Signals == {"INT", "QUIT", "ALRM"}

VARIABLES
    start,      \* the member of Starts that runs, but for its text
    text,       \* the calls the process has still to make
    state,      \* "running", "exited" or "killed"
    code,       \* what it returned
    tty,        \* the modes of the terminal that are on: "icanon", "echo"
    flags,      \* the flags of the open file: "ndelay", "append"
    saved,      \* original_mode, original_flags, stored
    typed,      \* the keys typed, but for those that an interrupt discarded
    got, used,  \* how many of them read() has returned, and getchar()
    looked,     \* history: how many there were when getchar() was called last
    out,        \* what the process has written
    action,     \* by signal: what it does
    blocked, pending,  \* sets of signals
    sent,       \* history: the signals that came from the keyboard
    alarm       \* the alarm clock is set

modes == <<tty, flags, saved>>
line  == <<typed, got, used, looked>>
sigs  == <<action, blocked, pending, sent, alarm>>
vars  == <<start, text, state, code, modes, line, out, sigs>>

Init ==
    /\ \E s \in Starts : start = [s EXCEPT !.text = <<>>] /\ text = s.text
    /\ state = "running" /\ code = 0
    /\ tty = start.tty /\ flags = start.flags
    /\ saved = [mode |-> {}, flags |-> {}, stored |-> FALSE]
    /\ typed = <<>> /\ got = 0 /\ used = 0 /\ looked = 0 /\ out = <<>>
    /\ action = [s \in Signals |-> Default]
    /\ blocked = {} /\ pending = {} /\ sent = <<>> /\ alarm = FALSE

At(op) == state = "running" /\ Head(text).op = op
Call   == Head(text)
GoOn(t) == text' = t /\ UNCHANGED <<start, state, code>>

-----------------------------------------------------------------------------
(* The modes                                                                *)

SetModes ==
    \/ /\ At("save") /\ saved' = [saved EXCEPT !.mode = tty, !.stored = TRUE]
       /\ UNCHANGED <<tty, flags>>
    \/ /\ At("saveflags") /\ saved' = [saved EXCEPT !.flags = flags]
       /\ UNCHANGED <<tty, flags>>
    \/ At("change") /\ tty' = (tty \ Call.off) \cup Call.on /\ UNCHANGED <<flags, saved>>
    \/ At("setflag") /\ flags' = flags \cup {Call.flag} /\ UNCHANGED <<tty, saved>>

\* Nothing is restored that was not saved.
RestoreModes ==
    \/ /\ At("restore") /\ tty' = IF saved.stored THEN saved.mode ELSE tty
       /\ UNCHANGED <<flags, saved>>
    \/ /\ At("restoreflags") /\ flags' = IF saved.stored THEN saved.flags ELSE flags
       /\ UNCHANGED <<tty, saved>>
    \/ /\ At("storeresult")
       /\ saved' = IF saved.stored THEN [saved EXCEPT !.flags = {}] ELSE saved
       /\ UNCHANGED <<tty, flags>>

Mode == (SetModes \/ RestoreModes) /\ GoOn(Tail(text)) /\ UNCHANGED <<line, out, sigs>>

-----------------------------------------------------------------------------
(* Input and output                                                         *)

LineEnds == {i \in got + 1..Len(typed) : typed[i] \in EndsLine}

\* How far read() can go: in canonical mode to the end of the line.
Readable == IF "icanon" \notin tty THEN Len(typed)
            ELSE IF LineEnds = {} THEN got ELSE Min(LineEnds)

\* The loop goes on with key c.
Taken(c) == /\ GoOn(Call.on[c] \o (IF c \in Call.leave THEN Tail(text) ELSE text))
            /\ looked' = Len(typed)

\* An Eot at the beginning of a line is the end of the file, at its end nothing.
KeyAt(i) == IF typed[i] # Eot THEN typed[i]
            ELSE IF i = 1 \/ typed[i - 1] \in EndsLine THEN Eof ELSE Eot

\* getchar() takes a key from its buffer, or fills it first.
GetKey ==
    /\ At("getchars")
    /\ LET end == IF used < got THEN got ELSE Readable IN
       /\ used < end /\ got' = end /\ used' = used + 1
       /\ IF KeyAt(used + 1) # Eot THEN Taken(KeyAt(used + 1)) ELSE GoOn(text) /\ UNCHANGED looked
    /\ UNCHANGED <<modes, typed, out, sigs>>

\* With O_NDELAY read() fails when there is nothing to read, and getchar() returns EOF.
GetNothing ==
    /\ At("getchars") /\ used = got /\ Readable = got /\ "ndelay" \in flags
    /\ Taken(Eof)
    /\ UNCHANGED <<modes, typed, got, used, out, sigs>>

PutChar ==
    /\ At("put")
    /\ out' = Append(out, Call.c)
    /\ GoOn(Tail(text))
    /\ UNCHANGED <<modes, line, sigs>>

CallFunction ==
    /\ At("call")
    /\ GoOn(start.procs[Call.name] \o Tail(text))
    /\ UNCHANGED <<modes, line, out, sigs>>

SysExit ==
    /\ At("exit")
    /\ state' = "exited" /\ code' = Call.code /\ text' = <<>>
    /\ UNCHANGED <<start, modes, line, out, sigs>>

-----------------------------------------------------------------------------
(* Signals                                                                  *)

Arrange ==
    /\ At("signal")
    /\ action' = [action EXCEPT ![Call.s] = Call.what]
    /\ pending' = IF Call.what.do = "ignore" THEN pending \ {Call.s} ELSE pending
    /\ GoOn(Tail(text))
    /\ UNCHANGED <<modes, line, out, blocked, sent, alarm>>

SetAlarm ==
    /\ At("alarm") /\ alarm' = TRUE
    /\ GoOn(Tail(text))
    /\ UNCHANGED <<modes, line, out, action, blocked, pending, sent>>

\* A signal that comes before the process has gone to sleep does not wake it.
GoToSleep ==
    /\ At("pause")
    /\ GoOn(<<Paused>> \o Tail(text))
    /\ UNCHANGED <<modes, line, out, sigs>>

\* signal() and sigaction() block a signal while its own handler runs.
ReturnFromHandler ==
    /\ At("return")
    /\ blocked' = blocked \ ({Call.s} \cup action[Call.s].mask)
    /\ GoOn(Tail(text))
    /\ UNCHANGED <<modes, line, out, action, pending, sent, alarm>>

\* A handler runs before anything else; it ends a pause(), and a read() starts again.
Deliver(s) ==
    /\ state = "running" /\ s \in pending \ blocked
    /\ pending' = pending \ {s}
    /\ IF action[s].do = "default"
       THEN state' = "killed" /\ UNCHANGED <<start, text, code, action, blocked>>
       ELSE /\ GoOn(action[s].text \o <<Return(s)>>
                    \o (IF Call = Paused THEN Tail(text) ELSE text))
            /\ blocked' = blocked \cup {s} \cup action[s].mask
            /\ action' = [action EXCEPT ![s].do = IF action[s].once THEN "default" ELSE @]
    /\ UNCHANGED <<modes, line, out, sent, alarm>>

Raised(s) == pending' = IF action[s].do = "ignore" THEN pending ELSE pending \cup {s}

AlarmRings ==
    /\ state = "running" /\ alarm /\ alarm' = FALSE /\ Raised("ALRM")
    /\ UNCHANGED <<start, text, state, code, modes, line, out, action, blocked, sent>>

\* The interrupt and quit keys discard what is in the terminal, even when ignored.
Interrupt(s) ==
    /\ state = "running" /\ Len(sent) < start.signals
    /\ Raised(s) /\ sent' = Append(sent, s)
    /\ typed' = SubSeq(typed, 1, got) /\ looked' = Min({looked, got})
    /\ UNCHANGED <<start, text, state, code, modes, got, used, out, action, blocked, alarm>>

Type(c) ==
    /\ state = "running" /\ Len(typed) < start.types
    /\ typed' = Append(typed, c)
    /\ UNCHANGED <<start, text, state, code, modes, got, used, looked, out, sigs>>

-----------------------------------------------------------------------------
Step == \/ Mode \/ GetKey \/ GetNothing \/ PutChar \/ CallFunction \/ SysExit
        \/ Arrange \/ SetAlarm \/ GoToSleep \/ ReturnFromHandler \/ \E s \in Signals : Deliver(s)

User == (\E c \in start.keys : Type(c)) \/ (\E s \in {"INT", "QUIT"} : Interrupt(s))

Next == Step \/ User \/ AlarmRings

\* The process runs when it can, and the clock does.  The user need not type, and
\* then a process may wait for ever.
Spec == Init /\ [][Next]_vars /\ WF_vars(Step) /\ WF_vars(AlarmRings)
=============================================================================
