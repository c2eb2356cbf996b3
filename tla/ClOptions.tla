----------------------------- MODULE ClOptions ------------------------------
(***************************************************************************)
(* cl_handle (src/cl_options.cc): the two passes that turn the arguments   *)
(* into a sub-command and its options.                                     *)
(*                                                                         *)
(* The first pass does not know the options of the sub-command, so it      *)
(* takes the value of one for a word of its own: `pwdb --uid recrypt` has  *)
(* no sub-command, and `recrypt` is a uid.  The second pass parses again   *)
(* what the first one has not recognised.                                  *)
(*                                                                         *)
(* Arguments are tokens.  Not among them: "--", an abbreviated option, the *)
(* options --subcmd and --extras, which the usage does not show, and an    *)
(* option where another one wants its value.                               *)
(***************************************************************************)
EXTENDS Sequences, FiniteSets, Naturals, FiniteSetsExt, SequencesExt

CONSTANTS
    Words,          \* words that are typed; "" is none
    Options,        \* names of the options with a value that are typed
    MaxArgs         \* bound: tokens on the command line

ASSUME WordsAssumption == "" \notin Words

Commands == {"open", "recrypt", "import", "export"}
Info == {"help", "version"}
Common == {"file", "uid", "gpg-homedir"}

\* The option that a sub-command adds; it is required, and may be a word.
Own(c) == CASE c = "import" -> {"infile"}
            [] c = "export" -> {"outfile"}
            [] OTHER -> {}

Known(c) == Common \cup Own(c)
Named == UNION {Known(c) : c \in Commands}

\* "recrypt", "-h", "--uid" before its value, and "--uid=me".
Token == [kind : {"word"}, name : Words]
         \cup [kind : {"info"}, name : Info]
         \cup [kind : {"bare"}, name : Options]
         \cup [kind : {"joined"}, name : Options, val : Words]

VARIABLES
    pc,             \* "typing", "first", "second", "notify" or "done"
    args,           \* argv
    deferred,       \* deferred_opts
    subcmd,
    info,           \* the Info Options in opts_map
    opts,           \* the other options in opts_map
    error           \* whether an exception was thrown

vars == <<pc, args, deferred, subcmd, info, opts, error>>

NoOpts == [o \in Named |-> ""]

Init ==
    /\ pc = "typing"
    /\ args = <<>> /\ deferred = <<>>
    /\ subcmd = "open"
    /\ info = {}
    /\ opts = NoOpts
    /\ error = FALSE

\* A token that is not an Info Option.
Plain(t) == t.kind # "info"

\* The other tokens of s, in their order.
Others(s) ==
    LET others[n \in 0..Len(s)] ==
            IF n = 0 THEN <<>>
            ELSE IF Plain(s[n]) THEN Append(others[n - 1], s[n])
            ELSE others[n - 1]
    IN others[Len(s)]

Line == Others(args)

Type(t) ==
    /\ pc = "typing" /\ Len(args) < MaxArgs
    /\ Line # <<>> /\ Last(Line).kind = "bare" => t.kind \in {"word", "info"}
    /\ args' = Append(args, t)
    /\ UNCHANGED <<pc, deferred, subcmd, info, opts, error>>

Enter ==
    /\ pc = "typing"
    /\ pc' = "first"
    /\ UNCHANGED <<args, deferred, subcmd, info, opts, error>>

-----------------------------------------------------------------------------
(***************************************************************************)
(* Wrong forms, each with one plausible mistake.                           *)
(***************************************************************************)

\* The first word is the sub-command, whatever stands before it.
FirstPassAnyWord ==
    LET words == {i \in DOMAIN Line : Line[i].kind = "word"} IN
    /\ pc = "first"
    /\ info' = {args[i].name : i \in {j \in DOMAIN args : ~Plain(args[j])}}
    /\ subcmd' = IF words = {} THEN subcmd ELSE Line[Min(words)].name
    /\ deferred' = IF words = {} THEN Line ELSE RemoveAt(Line, Min(words))
    /\ pc' = "second"
    /\ UNCHANGED <<args, opts, error>>

\* Nothing is marked as required.
NotifyNoneRequired ==
    /\ pc = "notify"
    /\ pc' = "done"
    /\ UNCHANGED <<args, deferred, subcmd, info, opts, error>>

-----------------------------------------------------------------------------
Fail == pc' = "done" /\ error' = TRUE

\* An Info Option is given twice.
InfoTwice == \E i, j \in DOMAIN args :
                 i # j /\ ~Plain(args[i]) /\ args[i] = args[j]

\* The first word is taken for the sub-command, until it is seen that
\* something stands before it.
FirstPass ==
    LET words == {i \in DOMAIN Line : Line[i].kind = "word"}
        given == words # {} /\ Line[Min(words)] = Line[1]
    IN
    /\ pc = "first"
    /\ IF InfoTwice
       THEN Fail /\ UNCHANGED <<info, subcmd, deferred>>
       ELSE /\ info' = {args[i].name : i \in
                            {j \in DOMAIN args : ~Plain(args[j])}}
            /\ subcmd' = IF given THEN Line[1].name ELSE subcmd
            /\ deferred' = IF given THEN Tail(Line) ELSE Line
            /\ pc' = "second"
            /\ UNCHANGED error
    /\ UNCHANGED <<args, opts>>

(***************************************************************************)
(* The second parse, a token after the other: the options it has stored,   *)
(* the words, the option that waits for its value, and whether it failed.  *)
(***************************************************************************)
Start == [opts |-> NoOpts, words |-> <<>>, want |-> "", bad |-> FALSE]

Stored(acc, o, v) ==
    IF acc.opts[o] # "" THEN [acc EXCEPT !.bad = TRUE]
    ELSE [acc EXCEPT !.opts[o] = v, !.want = ""]

Take(acc, t) ==
    CASE acc.bad -> acc
      [] ~acc.bad /\ t.kind = "word" ->
            IF acc.want # "" THEN Stored(acc, acc.want, t.name)
            ELSE [acc EXCEPT !.words = Append(acc.words, t.name)]
      [] ~acc.bad /\ t.kind # "word" ->
            IF t.name \notin Known(subcmd) THEN [acc EXCEPT !.bad = TRUE]
            ELSE IF t.kind = "bare" THEN [acc EXCEPT !.want = t.name]
            ELSE Stored(acc, t.name, t.val)

\* A word is the value of the option that the sub-command adds.
Placed(acc) ==
    IF acc.words = <<>> THEN acc
    ELSE IF Len(acc.words) > Cardinality(Own(subcmd)) \/ acc.want # ""
         THEN [acc EXCEPT !.bad = TRUE]
    ELSE Stored(acc, CHOOSE o \in Own(subcmd) : TRUE, acc.words[1])

Parsed(s) ==
    LET parsed[n \in 0..Len(s)] ==
            IF n = 0 THEN Start ELSE Take(parsed[n - 1], s[n])
    IN parsed[Len(s)]

SecondPass ==
    LET acc == Placed(Parsed(deferred)) IN
    /\ pc = "second"
    /\ IF subcmd \notin Commands THEN Fail /\ UNCHANGED opts
       ELSE IF acc.bad \/ acc.want # "" THEN Fail /\ UNCHANGED opts
       ELSE /\ opts' = IF acc.opts["file"] # "" THEN acc.opts
                       ELSE [acc.opts EXCEPT !["file"] = "default"]
            /\ pc' = "notify"
            /\ UNCHANGED error
    /\ UNCHANGED <<args, deferred, subcmd, info>>

\* po::notify looks whether the required options are there.
Notify ==
    /\ pc = "notify"
    /\ IF \E o \in Own(subcmd) : opts[o] = "" THEN Fail
       ELSE pc' = "done" /\ UNCHANGED error
    /\ UNCHANGED <<args, deferred, subcmd, info, opts>>

\* main runs the sub-command, and the next command line is typed.
Main ==
    /\ pc = "done"
    /\ pc' = "typing"
    /\ args' = <<>> /\ deferred' = <<>>
    /\ subcmd' = "open"
    /\ info' = {}
    /\ opts' = NoOpts
    /\ error' = FALSE

Next == (\E t \in Token : Type(t)) \/ Enter \/ FirstPass \/ SecondPass
        \/ Notify \/ Main

Spec == Init /\ [][Next]_vars

-----------------------------------------------------------------------------
(***************************************************************************)
(* What the usage says.  -h and -v may stand anywhere, once.               *)
(***************************************************************************)
At(o) == {i \in DOMAIN Line : Line[i].kind # "word" /\ Line[i].name = o}

\* Words that are no option's value.
Free == {i \in DOMAIN Line : /\ Line[i].kind = "word"
                             /\ i = 1 \/ Line[i - 1].kind # "bare"}

\* The sub-command comes first, or there is none and it is "open".
Said == IF 1 \in Free THEN Line[1].name ELSE "open"

\* The words that are left for the file of an import or export.
Rest == Free \ {1}

\* How often the file of an import or export is given.
Files == Cardinality(Rest) + Cardinality(UNION {At(o) : o \in Own(Said)})

\* The options are those of the sub-command, each at most once.
OptionsInUsage ==
    /\ ~InfoTwice
    /\ Said \in Commands
    /\ \A i \in DOMAIN Line : Line[i].kind # "word" =>
           /\ Line[i].name \in Known(Said)
           /\ At(Line[i].name) = {i}
           /\ Line[i].kind = "bare" => i < Len(Line)

InUsage == OptionsInUsage /\ Files = Cardinality(Own(Said))

\* The value of the option at i, and that of an option by the usage.
ValueAt(i) ==
    IF Line[i].kind = "bare" THEN Line[i + 1].name ELSE Line[i].val

Value(o) ==
    IF At(o) # {} THEN ValueAt(CHOOSE i \in At(o) : TRUE)
    ELSE IF o \in Own(Said) THEN Line[CHOOSE i \in Rest : TRUE].name
    ELSE IF o = "file" THEN "default"
    ELSE ""

-----------------------------------------------------------------------------
(***************************************************************************)
(* Properties.                                                             *)
(***************************************************************************)

\* The shape of the state.
TypeOK ==
    /\ pc \in {"typing", "first", "second", "notify", "done"}
    /\ args \in Seq(Token) /\ deferred \in Seq(Token)
    /\ subcmd \in Words \cup {"open"}
    /\ info \subseteq Info
    /\ opts \in [Named -> Words \cup {"", "default"}]
    /\ error \in BOOLEAN

\* Whatever the usage (cl_options.cc:161-169) allows is accepted, and means
\* what it says: no value of an option is taken for the sub-command, or the
\* other way about, which the first pass alone would do.
UsageAccepted ==
    pc = "done" /\ InUsage =>
        /\ ~error
        /\ subcmd = Said
        /\ \A o \in Named : opts[o] = Value(o)

\* Nothing else is: a line that is mistyped never runs a sub-command.
OnlyUsageAccepted == pc = "done" /\ ~error => InUsage

(***************************************************************************)
(* The inductive invariant.                                                *)
(***************************************************************************)

\* What waits for its value has it next, if it has one.
BareThenWord ==
    \A i \in DOMAIN Line :
        Line[i].kind = "bare" /\ i < Len(Line) => Line[i + 1].kind = "word"

\* The passes start from nothing.
NothingYet ==
    pc \in {"typing", "first"} =>
        subcmd = "open" /\ opts = NoOpts /\ ~error

\* The first pass has found the sub-command and left the rest.
FirstPassDone ==
    pc \in {"second", "notify"} =>
        /\ ~InfoTwice /\ ~error
        /\ subcmd = Said
        /\ deferred = IF 1 \in Free THEN Tail(Line) ELSE Line

\* The second pass has stored what the usage says, but for a file that is
\* missing: it has not looked for that.
SecondPassDone ==
    /\ pc = "second" => opts = NoOpts
    /\ pc = "notify" =>
          /\ OptionsInUsage /\ Files <= Cardinality(Own(Said))
          /\ \A o \in Named :
                opts[o] = IF o \in Own(Said) /\ Files = 0 THEN "" ELSE Value(o)

IInv ==
    /\ TypeOK
    /\ BareThenWord
    /\ NothingYet
    /\ FirstPassDone
    /\ SecondPassDone
    /\ UsageAccepted
    /\ OnlyUsageAccepted
=============================================================================
