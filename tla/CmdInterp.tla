----------------------------- MODULE CmdInterp -----------------------------
(***************************************************************************)
(* cmd_interp::interp (lib/cmd_interp/cmd_interp.cc): the loop that gets a *)
(* line and handles it, on a terminal or on a stream.                      *)
(*                                                                         *)
(* The command "open" of the database's interpreter runs a second one, for *)
(* the record, inside its own handler.  Both read from one source and put  *)
(* lines into one history.  On a terminal, lines may be typed ahead of the *)
(* loop that will get them, and ^D is an end that lasts for one get; the   *)
(* end of a stream lasts for ever.                                         *)
(***************************************************************************)
EXTENDS Sequences, FiniteSets, Naturals, SequencesExt

CONSTANTS
    MaxLines,       \* bound: lines and ^D that are written
    MaxRuns         \* bound: calls of run by the owner of the interpreter

VARIABLES
    source,         \* "readline" or "istream"
    unread,         \* what is written and not yet got
    written,        \* all that was ever written
    eof,            \* eofbit of the stream
    log,            \* what each get returned, and how deep the loop was
    stack,          \* of each loop: the line whose handler runs, or 0
    hist,           \* the history of readline: indices into log
    runs,           \* calls of run
    over            \* how the process ended: "no", "thrown", "terminated"

vars == <<source, unread, written, eof, log, stack, hist, runs, over>>

\* An empty or blank line, one that does not split, "help" with a command or
\* without, and with another word, and commands: "set" with a key and "unset"
\* (or print, or set without a key), which only the record's interpreter
\* knows, "open", which only the database's does, and two that both know.
Line == {"blank", "bad", "help", "help what", "set", "unset", "open", "echo",
         "exit"}

Init ==
    /\ source \in {"readline", "istream"}
    /\ unread = <<>> /\ written = <<>>
    /\ eof = FALSE
    /\ log = <<>>
    /\ stack = <<>>
    /\ hist = <<>>
    /\ runs = 0
    /\ over = "no"

Depth == Len(stack)

\* The innermost loop calls get.
AtPrompt == over = "no" /\ stack # <<>> /\ Last(stack) = 0

Got(l) == log' = Append(log, [line |-> l, depth |-> Depth])

-----------------------------------------------------------------------------
(***************************************************************************)
(* The owner of the interpreter, and the user.                             *)
(***************************************************************************)

\* A stream that has ended takes nothing any more.  "part" is a line without
\* a newline at the end of what is written.
Write(l) ==
    /\ Len(written) < MaxLines
    /\ unread # <<>> => Last(unread) # "part"
    /\ \/ source = "readline" /\ l # "part"
       \/ source = "istream" /\ l # "^D" /\ stack = <<>> /\ ~eof
    /\ unread' = Append(unread, l)
    /\ written' = Append(written, l)
    /\ UNCHANGED <<source, eof, log, stack, hist, runs, over>>

Run ==
    /\ over = "no" /\ stack = <<>> /\ runs < MaxRuns
    /\ stack' = <<0>>
    /\ runs' = runs + 1
    /\ UNCHANGED <<source, unread, written, eof, log, hist, over>>

-----------------------------------------------------------------------------
(***************************************************************************)
(* Wrong forms, each with one plausible mistake.                           *)
(***************************************************************************)

\* The end of the stream is an empty line.
GetEndIsLine ==
    /\ AtPrompt /\ source = "istream" /\ unread = <<>>
    /\ eof' = TRUE
    /\ UNCHANGED <<source, unread, written, log, stack, hist, runs, over>>

\* A line that ends the loop takes the rest of the input with it.
ExitFlushes ==
    /\ AtPrompt /\ unread # <<>> /\ Head(unread) = "exit"
    /\ Got("exit")
    /\ unread' = <<>>
    /\ stack' = Front(stack)
    /\ UNCHANGED <<source, written, eof, hist, runs, over>>

\* The handler of "open" returns what the record's loop ended with.
FinishOpenExits ==
    /\ over = "no" /\ stack # <<>> /\ Last(stack) # 0
    /\ stack' = Front(stack)
    /\ UNCHANGED <<source, unread, written, eof, log, hist, runs, over>>

\* The line goes into the history before it is handled.
OpenRemembersFirst ==
    /\ AtPrompt /\ unread # <<>> /\ Head(unread) = "open" /\ Depth = 1
    /\ Got("open")
    /\ unread' = Tail(unread)
    /\ stack' = <<Len(log) + 1, 0>>
    /\ hist' = IF source = "readline" THEN Append(hist, Len(log) + 1) ELSE hist
    /\ UNCHANGED <<source, written, eof, runs, over>>

-----------------------------------------------------------------------------
(***************************************************************************)
(* get: the end of the input.                                              *)
(***************************************************************************)
GetEndOfTerminal ==
    /\ AtPrompt /\ unread # <<>> /\ Head(unread) = "^D"
    /\ Got("^D")
    /\ unread' = Tail(unread)
    /\ stack' = Front(stack)
    /\ UNCHANGED <<source, written, eof, hist, runs, over>>

\* getline leaves eofbit set, and good() is false, also for a last line that
\* it has read.
GetEndOfStream ==
    /\ AtPrompt /\ source = "istream"
    /\ unread \in {<<>>, <<"part">>}
    /\ Got("^D")
    /\ unread' = <<>>
    /\ eof' = TRUE
    /\ stack' = Front(stack)
    /\ UNCHANGED <<source, written, hist, runs, over>>

(***************************************************************************)
(* get, and handle.                                                        *)
(***************************************************************************)
Get(l) ==
    /\ AtPrompt /\ unread # <<>> /\ Head(unread) = l
    /\ Got(l)
    /\ unread' = Tail(unread)

\* Whether the loop that is at the prompt knows the command.
Knows(l) ==
    l \in {"echo", "exit"} \cup
         (IF Depth = 1 THEN {"open"} ELSE {"set", "unset"})

\* istream_ops remember nothing.
Remember(i) == hist' = IF source = "readline" THEN Append(hist, i) ELSE hist

Blank ==
    /\ Get("blank")
    /\ UNCHANGED <<source, written, eof, stack, hist, runs, over>>

\* help, a command that is not found, and those with result_add_history.
Handle ==
    /\ \E l \in Line : /\ Get(l)
                       /\ l \in {"help", "echo", "unset"} \/ ~Knows(l)
                       /\ l \notin {"blank", "bad", "help what"}
    /\ Remember(Len(log) + 1)
    /\ UNCHANGED <<source, written, eof, stack, runs, over>>

\* A value is set: result_none.
Set ==
    /\ Get("set") /\ Knows("set")
    /\ UNCHANGED <<source, written, eof, stack, hist, runs, over>>

\* result_exit.
Exit ==
    /\ Get("exit")
    /\ stack' = Front(stack)
    /\ UNCHANGED <<source, written, eof, hist, runs, over>>

Open ==
    /\ Get("open") /\ Knows("open")
    /\ stack' = <<Len(log) + 1, 0>>
    /\ UNCHANGED <<source, written, eof, hist, runs, over>>

\* The record's loop has ended, and its Store is encrypted, or that throws.
FinishOpen ==
    /\ over = "no" /\ stack # <<>> /\ Last(stack) # 0
    /\ Remember(Last(stack))
    /\ stack' = <<0>>
    /\ UNCHANGED <<source, unread, written, eof, log, runs, over>>

FinishOpenThrows ==
    /\ over = "no" /\ stack # <<>> /\ Last(stack) # 0
    /\ over' = "thrown"
    /\ stack' = <<>>
    /\ UNCHANGED <<source, unread, written, eof, log, hist, runs>>

\* split_unix, or the handler of "open".
Throw ==
    /\ Get("bad") \/ (Get("open") /\ Knows("open"))
    /\ over' = "thrown"
    /\ stack' = <<>>
    /\ UNCHANGED <<source, written, eof, hist, runs>>

\* out_of_range, which nobody catches.
Terminate ==
    /\ Get("help what")
    /\ over' = "terminated"
    /\ stack' = <<>>
    /\ UNCHANGED <<source, written, eof, hist, runs>>

Loop ==
    \/ GetEndOfTerminal \/ GetEndOfStream
    \/ Blank \/ Handle \/ Set \/ Exit
    \/ Open \/ FinishOpen \/ FinishOpenThrows
    \/ Throw \/ Terminate

Next == (\E l \in Line \cup {"^D", "part"} : Write(l)) \/ Run \/ Loop

\* There is one thread, and it runs on while there is something to get.
Spec == Init /\ [][Next]_vars /\ WF_vars(Loop)

-----------------------------------------------------------------------------
(***************************************************************************)
(* Properties.                                                             *)
(***************************************************************************)

\* The shape of the state.
TypeOK ==
    /\ source \in {"readline", "istream"}
    /\ written \in Seq(Line \cup {"^D", "part"})
    /\ log \in Seq([line : Line \cup {"^D"}, depth : {1, 2}])
    /\ Depth \in 0..2
    /\ hist \in Seq(1..Len(log))
    /\ runs \in Nat
    /\ over \in {"no", "thrown", "terminated"}

\* The first n lines that were got.
Lines(n) == [i \in 1..n |-> log[i].line]

\* Whichever loop gets it, every line is handled once and in the order in
\* which the lines were written, and none is lost where one loop ends and the
\* other goes on; only a last line without a newline is dropped by a stream,
\* which gives nothing but its end once it has ended.
NoLineLost ==
    \E n \in 0..Len(log) :
        /\ source = "readline" => n = Len(log)
        /\ source = "istream" =>
            \A i \in DOMAIN log : log[i].line = "^D" <=> i > n
        /\ written \in {Lines(n) \o unread, Lines(n) \o <<"part">>}

Opens(i) == log[i].line = "open" /\ log[i].depth = 1
Ends(i) == log[i].line \in {"exit", "^D"}

\* "exit" and the end of the input end one loop, the innermost: that of the
\* record leaves the session at its prompt.
EachEndEndsOne ==
    over = "no" =>
        Depth + Cardinality({i \in DOMAIN log : Ends(i)})
            = runs + Cardinality({i \in DOMAIN log : Opens(i)})

\* The line j ends the record's loop that the line i has started.
RcdEnd(j) == Ends(j) /\ log[j].depth = 2

EndsAt(i, j) ==
    /\ j \in (i + 1)..Len(log) /\ RcdEnd(j)
    /\ \A k \in (i + 1)..(j - 1) : ~RcdEnd(k)

\* With which line the handler of a line has ended.
Ended(i) == IF Opens(i) THEN CHOOSE j \in DOMAIN log : EndsAt(i, j) ELSE i

\* Lines that set a value of a record (result_none), lines that end a loop and
\* lines that say nothing are not recalled.  All others are, once, be it that
\* they change the record ("unset"), are not understood, or are a "set" that
\* the loop does not know; and in the order in which their handlers ended:
\* "open" comes after what was done to the record.
HistoryTells ==
    over = "no" /\ source = "readline" =>
        /\ IsInjective(hist)
        /\ ToSet(hist) = {i \in DOMAIN log :
                            /\ ~Ends(i) /\ log[i].line # "blank"
                            /\ ~(log[i].line = "set" /\ log[i].depth = 2)
                            /\ i \notin ToSet(stack)}
        /\ \A p, q \in DOMAIN hist :
                p < q => Ended(hist[p]) < Ended(hist[q])

\* On a stream, whatever is in it, run returns.
EveryRunEnds == source = "istream" /\ stack # <<>> ~> stack = <<>>

(***************************************************************************)
(* The inductive invariant.                                                *)
(***************************************************************************)

\* A terminal does not end for good, and a stream that has ended has nothing
\* left; a line without a newline is the last of a stream.
InputShape ==
    /\ unread \in Seq(Line \cup {"^D", "part"})
    /\ eof => source = "istream" /\ unread = <<>>
    /\ \A i \in DOMAIN unread :
        /\ unread[i] = "^D" => source = "readline"
        /\ unread[i] = "part" => source = "istream" /\ i = Len(unread)

\* What was got and what is left is what was written, until the end.
Whole ==
    ~eof => /\ written = Lines(Len(log)) \o unread
            /\ source = "istream" => \A i \in DOMAIN log : log[i].line # "^D"

\* The outer loop's line whose handler runs.
Running == IF stack = <<>> THEN 0 ELSE stack[1]

\* Only "open" runs a loop in its handler.  All that was got since belongs to
\* that loop, which has ended with the last line if it is gone.
StackShape ==
    /\ stack \in Seq(Nat) /\ Len(stack) \in 0..2
    /\ Len(stack) = 2 => stack[1] # 0 /\ stack[2] = 0
    /\ Running # 0 =>
        /\ Running \in DOMAIN log /\ Opens(Running)
        /\ \A k \in (Running + 1)..Len(log) : log[k].depth = 2
        /\ IF Len(stack) = 1 THEN EndsAt(Running, Len(log))
           ELSE \A k \in (Running + 1)..Len(log) : ~RcdEnd(k)

\* The handler of every other "open" has ended, before this one began.
OpensEnded ==
    over = "no" => \A i \in DOMAIN log : Opens(i) /\ i # Running =>
        \E j \in DOMAIN log : /\ EndsAt(i, j)
                              /\ Running # 0 => j < Running

IInv ==
    /\ TypeOK
    /\ InputShape
    /\ NoLineLost /\ Whole
    /\ StackShape /\ OpensEnded
    /\ EachEndEndsOne
    /\ HistoryTells
=============================================================================
