-------------------------- MODULE CmdInterp_proofs --------------------------
(***************************************************************************)
(* Proofs about CmdInterp, for input of any length and any number of runs. *)
(***************************************************************************)
EXTENDS CmdInterp, TLAPS, FiniteSetTheorems, SequenceTheorems

Entry == [line : Line \cup {"^D"}, depth : {1, 2}]

-----------------------------------------------------------------------------
(***************************************************************************)
(* What the steps do to the log, the stack and the history.                *)
(***************************************************************************)

\* The loop at the prompt gets the line l.
Grows(l) ==
    /\ AtPrompt
    /\ l \in Line \cup {"^D"}
    /\ log' \in Seq(Entry) /\ Len(log') = Len(log) + 1
    /\ \A i \in 1..Len(log) : log'[i] = log[i]
    /\ log'[Len(log) + 1] = [line |-> l, depth |-> Depth]

\* The line ends that loop,
Pops ==
    /\ \E l \in {"exit", "^D"} : Grows(l)
    /\ stack' = Front(stack)
    /\ UNCHANGED <<hist, runs, over>>

\* starts one in its handler,
Pushes ==
    /\ Grows("open") /\ Depth = 1
    /\ stack' = <<Len(log) + 1, 0>>
    /\ UNCHANGED <<hist, runs, over>>

\* is handled,
Stays(l, remember) ==
    /\ Grows(l)
    /\ l \notin {"exit", "^D"} /\ ~(l = "open" /\ Depth = 1)
    /\ IF remember THEN Remember(Len(log) + 1) ELSE hist' = hist
    /\ remember <=> l # "blank" /\ ~(l = "set" /\ Depth = 2)
    /\ UNCHANGED <<stack, runs, over>>

\* or throws.
Stops ==
    /\ (\E l \in Line : Grows(l)) \/ log' = log
    /\ over' \in {"thrown", "terminated"}
    /\ stack' = <<>>
    /\ UNCHANGED <<hist, runs>>

Idles == UNCHANGED <<log, stack, hist, runs, over>>

LEMMA GrowsByGot ==
  ASSUME TypeOK, StackShape, AtPrompt, NEW l \in Line \cup {"^D"}, Got(l)
  PROVE  Grows(l)
<1> DEFINE r == [line |-> l, depth |-> Depth]
<1>1. r \in Entry
  BY DEF TypeOK, StackShape, AtPrompt, Depth, Entry
<1>2. log \in Seq(Entry) /\ log' = Append(log, r)
  BY DEF TypeOK, Entry, Got
<1> HIDE DEF r
<1>3. /\ log' \in Seq(Entry) /\ Len(log') = Len(log) + 1
      /\ \A i \in 1..Len(log) : log'[i] = log[i]
      /\ log'[Len(log) + 1] = r
  BY <1>1, <1>2
<1> QED
  BY <1>3 DEF Grows, r

LEMMA StepKinds ==
  ASSUME TypeOK, InputShape, StackShape, [Next]_vars
  PROVE  \/ Pops \/ Pushes
         \/ \E l \in Line, remember \in BOOLEAN : Stays(l, remember)
         \/ Stops \/ Run \/ FinishOpen \/ Idles
<1>1. CASE UNCHANGED vars
  BY <1>1 DEF vars, Idles
<1>2. ASSUME NEW l \in Line \cup {"^D", "part"}, Write(l) PROVE Idles
  BY <1>2 DEF Write, Idles
<1>3. CASE GetEndOfTerminal
  BY <1>3, GrowsByGot DEF GetEndOfTerminal, Pops
<1>4. CASE GetEndOfStream
  BY <1>4, GrowsByGot DEF GetEndOfStream, Pops
<1>5. CASE Blank
  <2>1. Grows("blank")
    BY <1>5, GrowsByGot DEF Blank, Get, Line
  <2> QED
    BY <1>5, <2>1 DEF Blank, Stays, Line
<1>6. CASE Handle
  <2>1. PICK l \in Line : /\ Get(l)
                          /\ l \in {"help", "echo", "unset"} \/ ~Knows(l)
                          /\ l \notin {"blank", "bad", "help what"}
    BY <1>6 DEF Handle
  <2>2. Grows(l)
    BY <2>1, GrowsByGot DEF Get
  <2>3. /\ l \notin {"exit", "^D"} /\ ~(l = "open" /\ Depth = 1)
        /\ ~(l = "set" /\ Depth = 2)
    <3>1. l \in {"help", "echo"} \/ l \notin {"echo", "exit"}
      BY <2>1 DEF Knows
    <3>2. l = "open" => Depth # 1
      BY <2>1 DEF Knows
    <3>3. l = "set" => Depth = 1
      BY <2>1 DEF Knows
    <3>4. ~(l = "set" /\ Depth = 2)
      BY <3>3
    <3>5. l \notin {"exit", "^D"}
      BY <3>1 DEF Line
    <3> QED
      BY <3>2, <3>4, <3>5
  <2>4. UNCHANGED <<stack, runs, over>> /\ Remember(Len(log) + 1)
    BY <1>6 DEF Handle
  <2>5. Stays(l, TRUE)
    BY <2>1, <2>2, <2>3, <2>4 DEF Stays
  <2> QED
    BY <2>5
<1>7. CASE Set
  <2>1. Grows("set")
    BY <1>7, GrowsByGot DEF Set, Get, Line
  <2>2. Depth = 2
    BY <1>7 DEF Set, Get, AtPrompt, Knows, StackShape, Depth
  <2> QED
    BY <1>7, <2>1, <2>2 DEF Set, Stays, Line
<1>8. CASE Exit
  BY <1>8, GrowsByGot DEF Exit, Get, Pops, Line
<1>9. CASE Open
  <2>1. Grows("open")
    BY <1>9, GrowsByGot DEF Open, Get, Line
  <2>2. Depth = 1
    BY <1>9 DEF Open, Knows
  <2> QED
    BY <1>9, <2>1, <2>2 DEF Open, Pushes
<1>10. CASE FinishOpenThrows
  BY <1>10 DEF FinishOpenThrows, Stops
<1>11. CASE Throw \/ Terminate
  BY <1>11, GrowsByGot DEF Throw, Terminate, Get, Stops, Line
<1> QED
  BY <1>1, <1>2, <1>3, <1>4, <1>5, <1>6, <1>7, <1>8, <1>9, <1>10, <1>11
     DEF Next, Loop
-----------------------------------------------------------------------------
(***************************************************************************)
(* Types.                                                                  *)
(***************************************************************************)

LEMMA LastOf ==
  ASSUME StackShape, stack # <<>>
  PROVE  /\ Last(stack) = stack[Len(stack)]
         /\ Len(stack) \in {1, 2}
  BY DEF StackShape, Last

LEMMA FinishOpenAt ==
  ASSUME StackShape, FinishOpen
  PROVE  /\ Len(stack) = 1 /\ Running # 0
         /\ Remember(Running) /\ stack' = <<0>> /\ Running' = 0
         /\ over = "no" /\ over' = "no" /\ log' = log /\ runs' = runs
<1>1. Len(stack) = 1 /\ Last(stack) = Running /\ Running # 0
  BY LastOf DEF FinishOpen, StackShape, Running
<1> QED
  BY <1>1 DEF FinishOpen, Running

LEMMA AtPromptShape ==
  ASSUME StackShape, AtPrompt
  PROVE  \/ Depth = 1 /\ stack = <<0>> /\ Running = 0
         \/ Depth = 2 /\ stack = <<Running, 0>> /\ Running # 0
  BY LastOf DEF AtPrompt, StackShape, Running, Depth

\* The handler of "open" goes on when the record's loop has ended.
LEMMA PopsShape ==
  ASSUME StackShape, Pops
  PROVE  \/ Depth = 1 /\ stack' = <<>> /\ Running = 0 /\ Running' = 0
         \/ /\ Depth = 2 /\ stack' = <<Running>> /\ Running # 0
            /\ Running' = Running
<1>1. AtPrompt /\ stack' = SubSeq(stack, 1, Len(stack) - 1)
  BY DEF Pops, Grows, Front
<1>2. CASE Depth = 1 /\ stack = <<0>> /\ Running = 0
  <2>1. stack' = <<>>
    BY <1>1, <1>2
  <2> QED
    BY <1>2, <2>1 DEF Running
<1>3. CASE Depth = 2 /\ stack = <<Running, 0>> /\ Running # 0
  <2>1. stack' \in Seq(Nat) /\ Len(stack') = 1 /\ stack'[1] = Running
    BY <1>1, <1>3 DEF StackShape, Depth
  <2>2. stack' = <<Running>>
    BY <2>1
  <2> QED
    BY <1>3, <2>2 DEF Running
<1> QED
  BY <1>1, <1>2, <1>3, AtPromptShape

LEMMA StepType ==
  ASSUME TypeOK, InputShape, StackShape, [Next]_vars
  PROVE  TypeOK'
<1>1. source' \in {"readline", "istream"}
  BY DEF TypeOK, Next, Loop, vars, Write, Run, GetEndOfTerminal,
     GetEndOfStream, Blank, Handle, Set, Exit, Open, FinishOpen,
     FinishOpenThrows, Throw, Terminate
<1>2. written' \in Seq(Line \cup {"^D", "part"})
  <2>1. ASSUME NEW l \in Line \cup {"^D", "part"}, Write(l)
        PROVE  written' \in Seq(Line \cup {"^D", "part"})
    BY <2>1 DEF TypeOK, Write
  <2>2. CASE written' = written
    BY <2>2 DEF TypeOK
  <2> QED
    BY <2>1, <2>2 DEF Next, Loop, vars, Run, GetEndOfTerminal,
       GetEndOfStream, Blank, Handle, Set, Exit, Open, FinishOpen,
       FinishOpenThrows, Throw, Terminate
<1>3. hist \in Seq(1..Len(log)) /\ Len(log) \in Nat
  BY DEF TypeOK
<1>4. hist \in Seq(1..(Len(log) + 1))
      /\ Append(hist, Len(log) + 1) \in Seq(1..(Len(log) + 1))
  <2>1. 1..Len(log) \subseteq 1..(Len(log) + 1)
    BY <1>3
  <2>2. hist \in Seq(1..(Len(log) + 1))
    BY <1>3, <2>1, SeqMonotonic, Zenon
  <2>3. Len(log) + 1 \in 1..(Len(log) + 1)
    BY <1>3
  <2> QED
    BY <2>2, <2>3, AppendProperties, Zenon
<1>5. /\ log' \in Seq(Entry) /\ Depth' \in 0..2
      /\ hist' \in Seq(1..Len(log'))
      /\ over' \in {"no", "thrown", "terminated"}
  <2>1. CASE Pops
    BY <2>1, <1>3, <1>4, PopsShape DEF Pops, Grows, Depth, TypeOK
  <2>2. CASE Pushes
    BY <2>2, <1>3, <1>4 DEF Pushes, Grows, Depth, TypeOK
  <2>3. ASSUME NEW l \in Line, NEW remember \in BOOLEAN, Stays(l, remember)
        PROVE  /\ log' \in Seq(Entry) /\ Depth' \in 0..2
               /\ hist' \in Seq(1..Len(log'))
               /\ over' \in {"no", "thrown", "terminated"}
    <3>1. hist' \in {hist, Append(hist, Len(log) + 1)}
      BY <2>3 DEF Stays, Remember
    <3> QED
      BY <2>3, <3>1, <1>4 DEF Stays, Grows, Depth, TypeOK
  <2>4. CASE Stops
    <3>1. log' \in Seq(Entry) /\ hist' \in Seq(1..Len(log'))
      BY <2>4, <1>3, <1>4 DEF Stops, Grows, TypeOK, Entry
    <3> QED
      BY <2>4, <3>1 DEF Stops, Depth
  <2>5. CASE Run
    BY <2>5 DEF Run, Depth, TypeOK, Entry
  <2>6. CASE FinishOpen
    <3>1. Running \in 1..Len(log)
      BY <2>6, FinishOpenAt DEF StackShape, TypeOK
    <3>2. Append(hist, Running) \in Seq(1..Len(log))
      BY <3>1, <1>3, AppendProperties, Zenon
    <3>3. hist' \in Seq(1..Len(log'))
      BY <2>6, <3>2, <1>3, FinishOpenAt DEF Remember
    <3> QED
      BY <2>6, <3>3, FinishOpenAt DEF Depth, TypeOK, Entry
  <2>7. CASE Idles
    BY <2>7 DEF Idles, Depth, TypeOK, Entry
  <2> QED
    BY <2>1, <2>2, <2>3, <2>4, <2>5, <2>6, <2>7, StepKinds, Zenon
<1>6. runs' \in {runs, runs + 1}
  BY DEF TypeOK, Next, Loop, vars, Write, Run, GetEndOfTerminal,
     GetEndOfStream, Blank, Handle, Set, Exit, Open, FinishOpen,
     FinishOpenThrows, Throw, Terminate
<1>7. runs' \in Nat
  BY <1>6 DEF TypeOK
<1> QED
  BY <1>1, <1>2, <1>5, <1>7 DEF TypeOK, Entry

-----------------------------------------------------------------------------
(***************************************************************************)
(* The input.                                                              *)
(***************************************************************************)

Input == Line \cup {"^D", "part"}

Gets(l) ==
    /\ Grows(l)
    /\ unread # <<>> /\ Head(unread) = l /\ unread' = Tail(unread)
    /\ UNCHANGED <<source, written, eof>>

LEMMA InputKinds ==
  ASSUME TypeOK, InputShape, StackShape, [Next]_vars
  PROVE  \/ \E l \in Input : Write(l)
         \/ \E l \in Line \cup {"^D"} : Gets(l)
         \/ GetEndOfStream /\ Grows("^D")
         \/ UNCHANGED <<source, unread, written, eof, log>>
<1>1. ASSUME NEW l \in Line \cup {"^D"}, Get(l),
             UNCHANGED <<source, written, eof>>
      PROVE  Gets(l)
  BY <1>1, GrowsByGot DEF Get, Gets
<1>2. CASE Blank \/ Set \/ Exit \/ Open \/ Terminate
  BY <1>2, <1>1 DEF Blank, Set, Exit, Open, Terminate, Line
<1>3. CASE Handle \/ Throw
  BY <1>3, <1>1 DEF Handle, Throw, Line
<1>4. CASE GetEndOfTerminal
  BY <1>4, <1>1 DEF GetEndOfTerminal, Get
<1>5. CASE GetEndOfStream
  BY <1>5, GrowsByGot DEF GetEndOfStream
<1> QED
  BY <1>2, <1>3, <1>4, <1>5
     DEF Next, Loop, vars, Input, Run, FinishOpen, FinishOpenThrows

LEMMA EntryAt ==
  ASSUME NEW s \in Seq(Entry), NEW i \in 1..Len(s)
  PROVE  s[i].line \in Line \cup {"^D"} /\ s[i].depth \in {1, 2}
<1>1. s[i] \in Entry
  OBVIOUS
<1> QED
  BY <1>1 DEF Entry

LEMMA LinesType ==
  ASSUME TypeOK, NEW n \in 0..Len(log)
  PROVE  /\ Lines(n) \in Seq(Input) /\ Len(Lines(n)) = n
         /\ \A i \in 1..n : Lines(n)[i] = log[i].line
<1>1. log \in Seq(Entry) /\ 1..n \subseteq 1..Len(log)
  BY DEF TypeOK, Entry
<1>2. \A i \in 1..n : log[i].line \in Input
  BY <1>1, EntryAt DEF Input
<1> QED
  BY <1>2 DEF Lines

LEMMA LinesKept ==
  ASSUME TypeOK, NEW l, Grows(l), NEW n \in 0..Len(log)
  PROVE  Lines(n)' = Lines(n)
<1>1. Len(log) \in Nat
  BY DEF TypeOK
<1>2. \A i \in 1..n : log'[i].line = log[i].line
  BY <1>1 DEF Grows
<1>3. [i \in 1..n |-> log'[i].line] = [i \in 1..n |-> log[i].line]
  BY <1>2
<1> QED
  BY <1>3 DEF Lines

LEMMA LinesGrow ==
  ASSUME TypeOK, TypeOK', NEW l, Grows(l)
  PROVE  Lines(Len(log))' = Append(Lines(Len(log)), l)
<1>1. Len(log) \in Nat /\ l \in Input
  BY DEF TypeOK, Grows, Input
<1>2. /\ Lines(Len(log))' \in Seq(Input)
      /\ Len(Lines(Len(log))') = Len(log) + 1
      /\ \A i \in 1..(Len(log) + 1) : Lines(Len(log))'[i] = log'[i].line
  <2>1. Len(log') \in 0..Len(log') /\ Len(log') = Len(log) + 1
    BY <1>1 DEF Grows
  <2>2. /\ Lines(Len(log))' \in Seq(Input)
        /\ Len(Lines(Len(log))') = Len(log')
        /\ \A i \in 1..Len(log') : Lines(Len(log))'[i] = log'[i].line
    <3>1. \A i \in 1..Len(log') : log'[i].line \in Input
      <4>1. log' \in Seq(Entry)
        BY DEF Grows
      <4> QED
        BY <4>1, EntryAt DEF Input
    <3> DEFINE n == Len(log')
    <3>2. n \in Nat /\ Lines(Len(log))' = [i \in 1..n |-> log'[i].line]
      BY <1>1, <2>1 DEF Lines
    <3> HIDE DEF n
    <3>3. [i \in 1..n |-> log'[i].line] \in Seq(Input)
      BY <3>1, <3>2 DEF n
    <3> QED
      BY <3>2, <3>3 DEF n
  <2> QED
    BY <2>1, <2>2
<1>3. /\ Lines(Len(log)) \in Seq(Input) /\ Len(Lines(Len(log))) = Len(log)
      /\ \A i \in 1..Len(log) : Lines(Len(log))[i] = log[i].line
  BY <1>1, LinesType
<1>4. \A i \in 1..Len(log) : log'[i].line = log[i].line
  BY DEF Grows
<1>5. log'[Len(log) + 1].line = l
  BY DEF Grows
<1> DEFINE s == Lines(Len(log))
           t == Lines(Len(log))'
<1> HIDE DEF s, t
<1>6. /\ Append(s, l) \in Seq(Input) /\ Len(Append(s, l)) = Len(log) + 1
      /\ \A i \in 1..Len(log) : Append(s, l)[i] = s[i]
      /\ Append(s, l)[Len(log) + 1] = l
  BY <1>1, <1>3, AppendProperties DEF s
<1>7. \A i \in 1..(Len(log) + 1) : t[i] = Append(s, l)[i]
  BY <1>1, <1>2, <1>3, <1>4, <1>5, <1>6 DEF s, t
<1>8. t = Append(s, l)
  BY <1>2, <1>6, <1>7, SeqEqual DEF t
<1> QED
  BY <1>8 DEF s, t

\* What moves from the head of one sequence to the end of another.
LEMMA Moved ==
  ASSUME NEW S, NEW s \in Seq(S), NEW t \in Seq(S), t # <<>>
  PROVE  Append(s, Head(t)) \o Tail(t) = s \o t
  OBVIOUS

\* Writing and getting lines leave what was written whole; the input has not
\* ended then.
LEMMA WriteWhole ==
  ASSUME TypeOK, InputShape, Whole, NEW l \in Input, Write(l)
  PROVE  InputShape' /\ Whole' /\ ~eof'
<1>1. unread \in Seq(Input) /\ unread' = Append(unread, l)
  BY DEF InputShape, Input, Write
<1>2. /\ unread' \in Seq(Input) /\ Len(unread') = Len(unread) + 1
      /\ \A i \in 1..Len(unread) : unread'[i] = unread[i]
      /\ unread'[Len(unread) + 1] = l
      /\ Len(unread) \in Nat
      /\ unread # <<>> => Len(unread) \in 1..Len(unread)
  BY <1>1
<1>3. ~eof /\ eof' = eof /\ source' = source /\ log' = log
  BY DEF InputShape, Write, TypeOK
<1>4. InputShape'
  <2>1. \A i \in 1..Len(unread) : unread[i] # "part"
    <3>1. unread # <<>> => unread[Len(unread)] # "part"
      BY DEF Write, Last
    <3>2. \A i \in 1..Len(unread) : unread[i] = "part" => i = Len(unread)
      BY <1>1 DEF InputShape
    <3> QED
      BY <3>1, <3>2, <1>1
  <2>2. /\ l = "^D" => source = "readline"
        /\ l = "part" => source = "istream"
    BY DEF Write
  <2>3. \A i \in 1..Len(unread) : unread[i] = "^D" => source = "readline"
    BY <1>1 DEF InputShape
  <2>4. DOMAIN unread' = 1..(Len(unread) + 1)
    BY <1>2
  <2>5. ASSUME NEW i \in DOMAIN unread'
        PROVE  /\ unread'[i] = "^D" => source' = "readline"
               /\ unread'[i] = "part" =>
                      source' = "istream" /\ i = Len(unread')
    BY <2>1, <2>2, <2>3, <2>4, <2>5, <1>2, <1>3
  <2> QED
    BY <2>5, <1>2, <1>3 DEF InputShape, Input
<1>5. Whole'
  <2>1. Lines(Len(log)) \in Seq(Input)
    <3>1. Len(log) \in 0..Len(log)
      BY DEF TypeOK
    <3> QED
      BY <3>1, LinesType
  <2>2. written' = Append(Lines(Len(log)) \o unread, l)
    BY <1>3 DEF Write, Whole
  <2>3. Append(Lines(Len(log)) \o unread, l)
          = Lines(Len(log)) \o Append(unread, l)
    <3> DEFINE s == Lines(Len(log))
    <3>1. s \in Seq(Input) /\ unread \in Seq(Input)
      BY <2>1, <1>1
    <3> HIDE DEF s
    <3>2. Append(s \o unread, l) = s \o Append(unread, l)
      BY <3>1
    <3> QED
      BY <3>2 DEF s
  <2>4. Lines(Len(log))' = Lines(Len(log))
    BY <1>3 DEF Lines
  <2> QED
    BY <2>2, <2>3, <2>4, <1>1, <1>3 DEF Whole
<1> QED
  BY <1>3, <1>4, <1>5

LEMMA GetsWhole ==
  ASSUME TypeOK, TypeOK', InputShape, Whole,
         NEW l \in Line \cup {"^D"}, Gets(l)
  PROVE  InputShape' /\ Whole' /\ ~eof'
<1>1. unread \in Seq(Input) /\ unread # <<>> /\ unread' = Tail(unread)
      /\ Head(unread) = l
  BY DEF InputShape, Input, Gets
<1>2. /\ unread' \in Seq(Input) /\ Len(unread') = Len(unread) - 1
      /\ \A i \in 1..Len(unread') : unread'[i] = unread[i + 1]
      /\ unread[1] = l /\ 1 \in 1..Len(unread)
      /\ Len(unread) \in Nat
  BY <1>1
<1>3. ~eof /\ eof' = eof /\ source' = source /\ written' = written
  BY <1>1 DEF InputShape, Gets
<1>4. InputShape'
  <2>1. ASSUME NEW i \in DOMAIN unread'
        PROVE  /\ unread'[i] = "^D" => source' = "readline"
               /\ unread'[i] = "part" =>
                      source' = "istream" /\ i = Len(unread')
    <3>1. i \in 1..Len(unread') /\ i + 1 \in DOMAIN unread
      BY <1>1, <1>2
    <3>2. /\ unread[i + 1] = "^D" => source = "readline"
          /\ unread[i + 1] = "part" =>
                 source = "istream" /\ i + 1 = Len(unread)
      BY <3>1 DEF InputShape
    <3> QED
      BY <3>1, <3>2, <1>2, <1>3
  <2> QED
    BY <2>1, <1>2, <1>3 DEF InputShape, Input
<1>5. Whole'
  <2>1. Lines(Len(log)) \in Seq(Input)
    BY LinesType DEF TypeOK
  <2>2. Lines(Len(log))' = Append(Lines(Len(log)), l)
    BY LinesGrow DEF Gets
  <2>3. written' = Lines(Len(log))' \o unread'
    BY <2>1, <2>2, <1>1, <1>3, Moved DEF Whole
  <2>4. source = "istream" => l # "^D"
    BY <1>1, <1>2 DEF InputShape
  <2>5. source = "istream" => \A i \in 1..Len(log') : log'[i].line # "^D"
    <3>1. source = "istream" => \A i \in 1..Len(log) : log[i].line # "^D"
      BY <1>3 DEF Whole, TypeOK
    <3>2. \A i \in 1..Len(log') : i \in 1..Len(log) \/ i = Len(log) + 1
      BY DEF Gets, Grows, TypeOK
    <3> QED
      BY <3>1, <3>2, <2>4 DEF Gets, Grows
  <2>6. DOMAIN log' = 1..Len(log')
    BY DEF Gets, Grows
  <2> QED
    BY <2>3, <2>5, <2>6, <1>3 DEF Whole
<1> QED
  BY <1>3, <1>4, <1>5

\* The end of the stream.
LEMMA EndLosesNothing ==
  ASSUME TypeOK, InputShape, Whole, NoLineLost, GetEndOfStream, Grows("^D")
  PROVE  InputShape' /\ Whole' /\ NoLineLost'
<1>1. /\ source = "istream" /\ source' = source /\ eof' = TRUE
      /\ unread' = <<>> /\ unread \in {<<>>, <<"part">>}
      /\ written' = written
  BY DEF GetEndOfStream
<1>2. InputShape' /\ Whole'
  BY <1>1 DEF InputShape, Whole
<1>3. PICK n \in 0..Len(log) :
        /\ \A i \in DOMAIN log : log[i].line = "^D" <=> i > n
        /\ written \in {Lines(n), Lines(n) \o <<"part">>}
  <2>1. CASE eof
    <3>1. unread = <<>>
      BY <2>1 DEF InputShape
    <3>2. PICK n \in 0..Len(log) :
            /\ \A i \in DOMAIN log : log[i].line = "^D" <=> i > n
            /\ written \in {Lines(n) \o unread, Lines(n) \o <<"part">>}
      BY <1>1 DEF NoLineLost
    <3>3. Lines(n) \o <<>> = Lines(n)
      BY LinesType, ConcatEmptySeq
    <3> QED
      BY <3>1, <3>2, <3>3
  <2>2. CASE ~eof
    <3>1. Len(log) \in 0..Len(log)
      BY DEF TypeOK
    <3>2. \A i \in DOMAIN log : log[i].line # "^D" /\ ~(i > Len(log))
      BY <1>1, <2>2 DEF Whole, TypeOK
    <3>3. Lines(Len(log)) \o <<>> = Lines(Len(log))
      BY <3>1, LinesType, ConcatEmptySeq
    <3>4. written \in {Lines(Len(log)), Lines(Len(log)) \o <<"part">>}
      BY <3>3, <1>1, <2>2 DEF Whole
    <3> QED
      BY <3>1, <3>2, <3>4
  <2> QED
    BY <2>1, <2>2
<1>4. n \in 0..Len(log') /\ DOMAIN log' = 1..Len(log')
  BY DEF Grows, TypeOK
<1>5. \A i \in DOMAIN log' : log'[i].line = "^D" <=> i > n
  <2>1. DOMAIN log' = 1..(Len(log) + 1) /\ DOMAIN log = 1..Len(log)
        /\ Len(log) \in Nat
    BY DEF Grows, TypeOK
  <2>2. log'[Len(log) + 1].line = "^D" /\ Len(log) + 1 > n
    BY <2>1 DEF Grows
  <2>3. \A i \in 1..Len(log) : log'[i].line = "^D" <=> i > n
    BY <2>1, <1>3 DEF Grows
  <2>4. \A i \in 1..(Len(log) + 1) : i \in 1..Len(log) \/ i = Len(log) + 1
    BY <2>1
  <2> QED
    BY <2>1, <2>2, <2>3, <2>4
<1>6. written' \in {Lines(n)' \o unread', Lines(n)' \o <<"part">>}
  <2>1. Lines(n)' = Lines(n) /\ Lines(n) \o <<>> = Lines(n)
    BY LinesKept, LinesType, ConcatEmptySeq
  <2> QED
    BY <2>1, <1>1, <1>3
<1> QED
  BY <1>1, <1>2, <1>4, <1>5, <1>6 DEF NoLineLost

LEMMA StepInput ==
  ASSUME TypeOK, TypeOK', StackShape, InputShape, Whole, NoLineLost,
         [Next]_vars
  PROVE  InputShape' /\ Whole' /\ NoLineLost'
<1>1. CASE InputShape' /\ Whole' /\ ~eof'
  <2>1. Len(log') \in 0..Len(log') /\ \A i \in DOMAIN log' : ~(i > Len(log'))
    BY DEF TypeOK
  <2>2. written' = Lines(Len(log))' \o unread'
    BY <1>1 DEF Whole
  <2>3. source' = "istream" => \A i \in DOMAIN log' : log'[i].line # "^D"
    BY <1>1 DEF Whole
  <2>4. NoLineLost'
    BY <2>1, <2>2, <2>3 DEF NoLineLost, Lines
  <2> QED
    BY <1>1, <2>4
<1>2. ASSUME NEW l \in Input, Write(l) PROVE InputShape' /\ Whole' /\ ~eof'
  BY <1>2, WriteWhole
<1>3. ASSUME NEW l \in Line \cup {"^D"}, Gets(l)
      PROVE  InputShape' /\ Whole' /\ ~eof'
  BY <1>3, GetsWhole
<1>4. CASE GetEndOfStream /\ Grows("^D")
  BY <1>4, EndLosesNothing
<1>5. CASE UNCHANGED <<source, unread, written, eof, log>>
  BY <1>5 DEF InputShape, Whole, NoLineLost, Lines
<1> QED
  BY <1>1, <1>2, <1>3, <1>4, <1>5, InputKinds

-----------------------------------------------------------------------------
(***************************************************************************)
(* The loops, one in the other.                                            *)
(***************************************************************************)

\* A line that is got, the n-th, changes nothing about the lines before it.
LEMMA GrowsFacts ==
  ASSUME TypeOK, NEW l, Grows(l), NEW n, n = Len(log) + 1
  PROVE  /\ Len(log) \in Nat /\ n \in Nat \ {0}
         /\ Len(log) = n - 1 /\ Len(log') = n
         /\ DOMAIN log = 1..(n - 1) /\ DOMAIN log' = 1..n
         /\ \A i \in 1..(n - 1) : /\ Opens(i)' <=> Opens(i)
                                  /\ Ends(i)' <=> Ends(i)
                                  /\ RcdEnd(i)' <=> RcdEnd(i)
                                  /\ log'[i] = log[i]
         /\ Opens(n)' <=> l = "open" /\ Depth = 1
         /\ Ends(n)' <=> l \in {"exit", "^D"}
         /\ RcdEnd(n)' <=> l \in {"exit", "^D"} /\ Depth = 2
         /\ log'[n].depth = Depth
         /\ log'[n].line = l
<1>1. /\ Len(log) \in Nat /\ n \in Nat \ {0}
      /\ Len(log) = n - 1 /\ Len(log') = n
      /\ DOMAIN log = 1..(n - 1) /\ DOMAIN log' = 1..n
  BY DEF TypeOK, Grows
<1>2. \A i \in 1..(n - 1) : log'[i] = log[i]
  BY <1>1 DEF Grows
<1>3. /\ log'[n].depth = Depth
      /\ log'[n].line = l
  BY <1>1 DEF Grows
<1>4. \A i \in 1..(n - 1) : /\ Opens(i)' <=> Opens(i)
                            /\ Ends(i)' <=> Ends(i)
                            /\ RcdEnd(i)' <=> RcdEnd(i)
  BY <1>2 DEF Opens, Ends, RcdEnd
<1>5. /\ Opens(n)' <=> l = "open" /\ Depth = 1
      /\ Ends(n)' <=> l \in {"exit", "^D"}
      /\ RcdEnd(n)' <=> l \in {"exit", "^D"} /\ Depth = 2
  BY <1>3 DEF Opens, Ends, RcdEnd
<1> QED
  BY <1>1, <1>2, <1>3, <1>4, <1>5

LEMMA EndsAtKept ==
  ASSUME TypeOK, NEW l, Grows(l),
         NEW i \in 1..Len(log), NEW j \in 1..Len(log)
  PROVE  EndsAt(i, j)' <=> EndsAt(i, j)
<1>0. PICK n : n = Len(log) + 1
  OBVIOUS
<1>1. Len(log) \in Nat /\ Len(log') = Len(log) + 1
  BY <1>0, GrowsFacts
<1>2. \A k \in 1..Len(log) : RcdEnd(k)' <=> RcdEnd(k)
  BY <1>0, GrowsFacts
<1>3. j \in (i + 1)..Len(log') <=> j \in (i + 1)..Len(log)
  BY <1>1
<1>4. \A k \in (i + 1)..(j - 1) : k \in 1..Len(log)
  BY <1>1
<1> QED
  BY <1>2, <1>3, <1>4 DEF EndsAt

\* The line that ends the record's loop is the first one that does.
LEMMA EndsAtOnce ==
  ASSUME TypeOK, NEW i \in DOMAIN log,
         NEW j \in DOMAIN log, NEW k \in DOMAIN log,
         EndsAt(i, j), EndsAt(i, k)
  PROVE  j = k
<1>1. i \in Nat /\ j \in Nat /\ k \in Nat
  BY DEF TypeOK
<1>2. ~(j < k)
  <2>1. j < k => j \in (i + 1)..(k - 1)
    BY <1>1 DEF EndsAt
  <2> QED
    BY <2>1 DEF EndsAt
<1>3. ~(k < j)
  <2>1. k < j => k \in (i + 1)..(j - 1)
    BY <1>1 DEF EndsAt
  <2> QED
    BY <2>1 DEF EndsAt
<1> QED
  BY <1>1, <1>2, <1>3

LEMMA EndedIs ==
  ASSUME TypeOK, NEW i \in DOMAIN log, Opens(i),
         NEW j \in DOMAIN log, EndsAt(i, j)
  PROVE  Ended(i) = j
  BY EndsAtOnce DEF Ended

LEMMA StackShapeAfter ==
  ASSUME NEW r, Running' = r, TypeOK',
         stack' \in Seq(Nat), Len(stack') \in 0..2,
         Len(stack') = 2 => r # 0 /\ stack'[2] = 0,
         r # 0 =>
            /\ r \in DOMAIN log' /\ Opens(r)'
            /\ \A k \in (r + 1)..Len(log') : log'[k].depth = 2
            /\ IF Len(stack') = 1
               THEN \A k \in (r + 1)..Len(log') :
                        RcdEnd(k)' <=> k = Len(log')
               ELSE \A k \in (r + 1)..Len(log') : ~RcdEnd(k)',
         r # 0 /\ Len(stack') = 1 => r < Len(log')
  PROVE  StackShape'
<1>1. Len(log') \in Nat
  BY DEF TypeOK
<1>2. CASE r = 0
  BY <1>2 DEF StackShape, Running
<1>3. CASE r # 0
  <2>1. Len(stack') = 2 => stack'[1] # 0
    BY <1>3 DEF Running
  <2>2. Opens(Running)'
    BY <1>3 DEF Opens
  <2>3. Len(stack') = 1 => EndsAt(Running, Len(log))'
    BY <1>1, <1>3 DEF EndsAt, RcdEnd, Ends, TypeOK
  <2> QED
    BY <1>3, <2>1, <2>2, <2>3 DEF StackShape
<1> QED
  BY <1>2, <1>3

LEMMA RunningIs ==
  ASSUME TypeOK, StackShape, NEW r, Running = r, r # 0
  PROVE  /\ r \in DOMAIN log /\ Opens(r)
         /\ \A k \in (r + 1)..Len(log) : log[k].depth = 2
         /\ Len(stack) = 1 => EndsAt(r, Len(log))
         /\ Len(stack) = 2 => \A k \in (r + 1)..Len(log) : ~RcdEnd(k)
  BY DEF StackShape

LEMMA StepStack ==
  ASSUME TypeOK, TypeOK', InputShape, StackShape, [Next]_vars
  PROVE  StackShape'
<1>0. PICK n \in Nat : n = Len(log) + 1
  BY DEF TypeOK
<1>1. CASE Pops
  <2>1. PICK l \in {"exit", "^D"} : Grows(l)
    BY <1>1 DEF Pops
  <2>2. CASE Depth = 1 /\ stack' = <<>> /\ Running' = 0
    BY <2>2 DEF StackShape
  <2>3. CASE /\ Depth = 2 /\ stack' = <<Running>> /\ Running # 0
             /\ Running' = Running
    <3>1. PICK r : r = Running
      OBVIOUS
    <3>2. /\ r \in 1..(n - 1) /\ Opens(r)
          /\ \A k \in (r + 1)..(n - 1) : log[k].depth = 2
          /\ \A k \in (r + 1)..(n - 1) : ~RcdEnd(k)
      BY <1>0, <2>1, <2>3, <3>1, GrowsFacts, RunningIs DEF Depth
    <3>3. /\ n \in Nat \ {0} /\ Len(log') = n /\ DOMAIN log' = 1..n
          /\ RcdEnd(n)' /\ log'[n].depth = 2
          /\ \A k \in 1..(n - 1) : /\ RcdEnd(k)' <=> RcdEnd(k)
                                   /\ log'[k] = log[k]
          /\ Opens(r)'
      BY <1>0, <2>1, <2>3, <3>2, GrowsFacts
    <3>4. \A k \in (r + 1)..n :
              \/ k \in (r + 1)..(n - 1) /\ k \in 1..(n - 1) /\ k # n
              \/ k = n
      BY <3>2, <3>3
    <3>5. \A k \in (r + 1)..n : log'[k].depth = 2 /\ (RcdEnd(k)' <=> k = n)
      BY <3>2, <3>3, <3>4
    <3>6. stack' \in Seq(Nat) /\ Len(stack') = 1 /\ stack' # <<>>
      BY <2>3, <3>1, <3>2
    <3>7. r \in DOMAIN log' /\ r < Len(log') /\ Running' = r
      BY <2>3, <3>1, <3>2, <3>3
    <3> QED
      BY <3>3, <3>5, <3>6, <3>7, StackShapeAfter
  <2> QED
    BY <2>2, <2>3, <1>1, PopsShape
<1>2. CASE Pushes
  <2>1. Grows("open") /\ Depth = 1
    BY <1>2 DEF Pushes
  <2>2. /\ n \in Nat \ {0} /\ Len(log') = n /\ DOMAIN log' = 1..n
        /\ Opens(n)'
    BY <1>0, <2>1, GrowsFacts
  <2>3. stack' = <<n, 0>> /\ stack' # <<>>
        /\ stack' \in Seq(Nat) /\ Len(stack') = 2 /\ stack'[2] = 0
    BY <1>0, <1>2, <2>2 DEF Pushes
  <2>4. Running' = n
    BY <2>3 DEF Running
  <2>5. \A k \in (n + 1)..n : FALSE
    BY <2>2
  <2> QED
    BY <2>2, <2>3, <2>4, <2>5, StackShapeAfter
<1>3. ASSUME NEW l \in Line, NEW remember \in BOOLEAN, Stays(l, remember)
      PROVE  StackShape'
  <2>1. Grows(l) /\ stack' = stack /\ l \notin {"exit", "^D"}
    BY <1>3 DEF Stays
  <2>2. CASE Depth = 1 /\ Running = 0
    BY <2>1, <2>2 DEF StackShape, Running
  <2>3. CASE Depth = 2 /\ Running # 0
    <3>1. PICK r : r = Running
      OBVIOUS
    <3>2. /\ r \in 1..(n - 1) /\ Opens(r)
          /\ \A k \in (r + 1)..(n - 1) : log[k].depth = 2
          /\ \A k \in (r + 1)..(n - 1) : ~RcdEnd(k)
      BY <1>0, <2>1, <2>3, <3>1, GrowsFacts, RunningIs DEF Depth
    <3>3. /\ n \in Nat \ {0} /\ Len(log') = n /\ DOMAIN log' = 1..n
          /\ ~RcdEnd(n)' /\ log'[n].depth = 2
          /\ \A k \in 1..(n - 1) : /\ RcdEnd(k)' <=> RcdEnd(k)
                                   /\ log'[k] = log[k]
          /\ Opens(r)'
      BY <1>0, <2>1, <2>3, <3>2, GrowsFacts
    <3>4. \A k \in (r + 1)..n :
              \/ k \in (r + 1)..(n - 1) /\ k \in 1..(n - 1)
              \/ k = n
      BY <3>2, <3>3
    <3>5. \A k \in (r + 1)..n : log'[k].depth = 2 /\ ~RcdEnd(k)'
      BY <3>2, <3>3, <3>4
    <3>6. stack' \in Seq(Nat) /\ Len(stack') = 2 /\ stack'[2] = 0
      BY <2>1, <2>3 DEF StackShape, Depth
    <3>7. r \in DOMAIN log' /\ Running' = r /\ r # 0
      BY <2>1, <2>3, <3>1, <3>2, <3>3 DEF Running
    <3> QED
      BY <3>3, <3>5, <3>6, <3>7, StackShapeAfter
  <2> QED
    BY <2>1, <2>2, <2>3, AtPromptShape DEF Grows
<1>4. CASE Stops
  BY <1>4 DEF Stops, StackShape, Running
<1>5. CASE Run \/ FinishOpen
  <2>1. stack' = <<0>>
    BY <1>5, FinishOpenAt DEF Run
  <2>2. stack' # <<>> /\ stack' \in Seq(Nat) /\ Len(stack') = 1
        /\ stack'[1] = 0
    BY <2>1
  <2> QED
    BY <2>2 DEF StackShape, Running
<1>6. CASE Idles
  BY <1>6 DEF Idles, StackShape, Running, Opens, EndsAt, RcdEnd, Ends
<1> QED
  BY <1>1, <1>2, <1>3, <1>4, <1>5, <1>6, StepKinds, Zenon

-----------------------------------------------------------------------------
(***************************************************************************)
(* Counting the loops that were started and ended.                         *)
(***************************************************************************)

EndSet == {i \in DOMAIN log : Ends(i)}
OpenSet == {i \in DOMAIN log : Opens(i)}

LEMMA SetsFinite ==
  ASSUME TypeOK
  PROVE  /\ IsFiniteSet(EndSet) /\ Cardinality(EndSet) \in Nat
         /\ IsFiniteSet(OpenSet) /\ Cardinality(OpenSet) \in Nat
<1>1. IsFiniteSet(1..Len(log))
  BY FS_Interval DEF TypeOK
<1>2. EndSet \in SUBSET (1..Len(log)) /\ OpenSet \in SUBSET (1..Len(log))
  BY DEF TypeOK, EndSet, OpenSet
<1>3. IsFiniteSet(EndSet) /\ IsFiniteSet(OpenSet)
  BY <1>1, <1>2, FS_Subset
<1> QED
  BY <1>3, FS_CardinalityType

\* Whether a line is in one of the sets is settled when it is got.
LEMMA CountOneMore ==
  ASSUME NEW S, IsFiniteSet(S), NEW n, n \notin S
  PROVE  Cardinality(S \cup {n}) = Cardinality(S) + 1
<1>1. Cardinality(S \cup {n}) =
        IF n \in S THEN Cardinality(S) ELSE Cardinality(S) + 1
  BY FS_AddElement, Zenon
<1> QED
  BY <1>1

LEMMA CountGrows ==
  ASSUME TypeOK, NEW l, Grows(l)
  PROVE  /\ Cardinality(EndSet') = Cardinality(EndSet)
                + IF l \in {"exit", "^D"} THEN 1 ELSE 0
         /\ Cardinality(OpenSet') = Cardinality(OpenSet)
                + IF l = "open" /\ Depth = 1 THEN 1 ELSE 0
<1>1. PICK n : n = Len(log) + 1
  OBVIOUS
<1>2. /\ n \in Nat \ {0}
      /\ DOMAIN log = 1..(n - 1) /\ DOMAIN log' = 1..n
      /\ \A i \in 1..(n - 1) : /\ Opens(i)' <=> Opens(i)
                               /\ Ends(i)' <=> Ends(i)
      /\ Opens(n)' <=> l = "open" /\ Depth = 1
      /\ Ends(n)' <=> l \in {"exit", "^D"}
  BY <1>1, GrowsFacts
<1>3. 1..n = (1..(n - 1)) \cup {n} /\ n \notin 1..(n - 1)
  BY <1>2
<1>4. n \notin EndSet /\ n \notin OpenSet
  BY <1>2, <1>3 DEF EndSet, OpenSet
<1>5. EndSet' = IF l \in {"exit", "^D"} THEN EndSet \cup {n} ELSE EndSet
  BY <1>2, <1>3 DEF EndSet
<1>6. OpenSet' = IF l = "open" /\ Depth = 1 THEN OpenSet \cup {n} ELSE OpenSet
  BY <1>2, <1>3 DEF OpenSet
<1>7. /\ Cardinality(EndSet \cup {n}) = Cardinality(EndSet) + 1
      /\ Cardinality(OpenSet \cup {n}) = Cardinality(OpenSet) + 1
  BY <1>4, SetsFinite, CountOneMore
<1>8. Cardinality(EndSet) \in Nat /\ Cardinality(OpenSet) \in Nat
  BY SetsFinite
<1> QED
  BY <1>5, <1>6, <1>7, <1>8

LEMMA StepCount ==
  ASSUME TypeOK, InputShape, StackShape, EachEndEndsOne,
         [Next]_vars
  PROVE  EachEndEndsOne'
<1> DEFINE e == Cardinality(EndSet)
           o == Cardinality(OpenSet)
<1>1. e \in Nat /\ o \in Nat /\ Depth \in Nat /\ runs \in Nat
  BY SetsFinite DEF TypeOK
<1>2. over = "no" => Depth + e = runs + o
  BY DEF EachEndEndsOne, EndSet, OpenSet
<1>3. SUFFICES over' = "no" => Depth' + e' = runs' + o'
  BY DEF EachEndEndsOne, EndSet, OpenSet
<1>4. CASE Pops
  <2>1. PICK l \in {"exit", "^D"} : Grows(l)
    BY <1>4 DEF Pops
  <2>2. e' = e + 1 /\ o' = o
    BY <2>1, <1>1, CountGrows
  <2>3. Depth' = Depth - 1 /\ Depth \in {1, 2}
    <3>1. \/ Depth = 1 /\ stack' = <<>>
          \/ Depth = 2 /\ stack' = <<Running>>
      BY <1>4, PopsShape
    <3>2. stack' = <<>> => Depth' = 0
      BY DEF Depth
    <3>3. stack' = <<Running>> => Depth' = 1
      BY DEF Depth
    <3> QED
      BY <3>1, <3>2, <3>3
  <2>4. over' = over /\ runs' = runs
    BY <1>4 DEF Pops
  <2> HIDE DEF e, o
  <2> QED
    BY <2>2, <2>3, <2>4, <1>1, <1>2
<1>5. CASE Pushes
  <2>1. Grows("open") /\ Depth = 1
    BY <1>5 DEF Pushes
  <2>2. e' = e /\ o' = o + 1
    BY <2>1, <1>1, CountGrows
  <2>3. Depth' = 2 /\ over' = over /\ runs' = runs
    BY <1>5 DEF Pushes, Depth
  <2> HIDE DEF e, o
  <2> QED
    BY <2>1, <2>2, <2>3, <1>1, <1>2
<1>6. ASSUME NEW l \in Line, NEW remember \in BOOLEAN, Stays(l, remember)
      PROVE  over' = "no" => Depth' + e' = runs' + o'
  <2>1. /\ Grows(l) /\ l \notin {"exit", "^D"}
        /\ ~(l = "open" /\ Depth = 1)
    BY <1>6 DEF Stays
  <2>2. e' = e /\ o' = o
    BY <2>1, <1>1, CountGrows
  <2>3. Depth' = Depth /\ over' = over /\ runs' = runs
    BY <1>6 DEF Stays, Depth
  <2> HIDE DEF e, o
  <2> QED
    BY <2>2, <2>3, <1>1, <1>2
<1>7. CASE Stops
  BY <1>7 DEF Stops
<1>8. CASE Run
  <2>1. e' = e /\ o' = o
    BY <1>8 DEF Run, EndSet, OpenSet, Ends, Opens
  <2>2. Depth = 0 /\ Depth' = 1 /\ runs' = runs + 1 /\ over' = over
    BY <1>8 DEF Run, Depth
  <2> HIDE DEF e, o
  <2> QED
    BY <2>1, <2>2, <1>1, <1>2
<1>9. CASE FinishOpen
  <2>1. e' = e /\ o' = o
    BY <1>9 DEF FinishOpen, EndSet, OpenSet, Ends, Opens
  <2>2. Depth = 1 /\ Depth' = 1 /\ runs' = runs /\ over' = over
    BY <1>9, FinishOpenAt DEF Depth
  <2> HIDE DEF e, o
  <2> QED
    BY <2>1, <2>2, <1>1, <1>2
<1>10. CASE Idles
  <2>1. e' = e /\ o' = o
    BY <1>10 DEF Idles, EndSet, OpenSet, Ends, Opens
  <2> HIDE DEF e, o
  <2> QED
    BY <2>1, <1>10, <1>2 DEF Idles, Depth
<1> QED
  BY <1>4, <1>5, <1>6, <1>7, <1>8, <1>9, <1>10, StepKinds, Zenon

-----------------------------------------------------------------------------
(***************************************************************************)
(* When the handlers have ended.                                           *)
(***************************************************************************)

LEMMA StepOpensEnded ==
  ASSUME TypeOK, TypeOK', InputShape, StackShape, OpensEnded, [Next]_vars
  PROVE  OpensEnded'
<1>0. PICK n \in Nat : n = Len(log) + 1
  BY DEF TypeOK
<1>1. SUFFICES ASSUME over' = "no",
                      NEW i \in DOMAIN log', Opens(i)', i # Running'
               PROVE  \E j \in DOMAIN log' :
                        EndsAt(i, j)' /\ (Running' # 0 => j < Running')
  BY DEF OpensEnded
<1>2. ASSUME NEW l, Grows(l), over' = over, i # Running, i # n,
             Running' = Running \/ Running' = n
      PROVE  \E j \in DOMAIN log' :
                EndsAt(i, j)' /\ (Running' # 0 => j < Running')
  <2>1. /\ n \in Nat \ {0} /\ Len(log) = n - 1
        /\ DOMAIN log = 1..(n - 1) /\ DOMAIN log' = 1..n
        /\ \A k \in 1..(n - 1) : Opens(k)' <=> Opens(k)
    BY <1>0, <1>2, GrowsFacts
  <2>2. i \in DOMAIN log /\ Opens(i)
    BY <1>1, <1>2, <2>1
  <2>3. PICK j \in DOMAIN log : EndsAt(i, j) /\ (Running # 0 => j < Running)
    BY <1>1, <1>2, <2>2 DEF OpensEnded
  <2>4. EndsAt(i, j)' /\ j \in DOMAIN log' /\ j < n
    BY <1>2, <2>1, <2>2, <2>3, EndsAtKept
  <2> QED
    BY <1>2, <2>3, <2>4
<1>3. CASE Pops
  <2>1. PICK l \in {"exit", "^D"} : Grows(l)
    BY <1>3 DEF Pops
  <2>2. Running' = Running
    BY <1>3, PopsShape
  <2>3. i # n
    BY <1>0, <1>1, <2>1, GrowsFacts
  <2> QED
    BY <1>1, <1>2, <1>3, <2>1, <2>2, <2>3 DEF Pops
<1>4. CASE Pushes
  <2>1. Grows("open") /\ Depth = 1 /\ stack' = <<n, 0>>
    BY <1>0, <1>4 DEF Pushes
  <2>2. Running' = n /\ Running = 0
    BY <2>1, AtPromptShape DEF Grows, Running
  <2>3. i # 0
    BY <1>1 DEF TypeOK
  <2> QED
    BY <1>1, <1>2, <1>4, <2>1, <2>2, <2>3 DEF Pushes
<1>5. ASSUME NEW l \in Line, NEW remember \in BOOLEAN, Stays(l, remember)
      PROVE  \E j \in DOMAIN log' :
                EndsAt(i, j)' /\ (Running' # 0 => j < Running')
  <2>1. /\ Grows(l) /\ ~(l = "open" /\ Depth = 1)
        /\ Running' = Running /\ over' = over
    BY <1>5 DEF Stays, Running
  <2>2. i # n
    BY <1>0, <1>1, <2>1, GrowsFacts
  <2> QED
    BY <1>1, <1>2, <2>1, <2>2
<1>6. CASE Stops
  BY <1>1, <1>6 DEF Stops
<1>7. CASE Run
  <2>1. /\ Running = 0 /\ Running' = 0 /\ log' = log /\ over' = over
    BY <1>7 DEF Run, Running
  <2> QED
    BY <1>1, <2>1 DEF OpensEnded, Opens, EndsAt, RcdEnd, Ends
<1>8. CASE FinishOpen
  <2>1. /\ Len(stack) = 1 /\ Running # 0 /\ Running' = 0
        /\ log' = log /\ over = "no"
    BY <1>8, FinishOpenAt
  <2>2. CASE i = Running
    <3>1. EndsAt(i, Len(log)) /\ Len(log) \in DOMAIN log
      BY <2>1, <2>2, RunningIs DEF TypeOK, EndsAt
    <3> QED
      BY <2>1, <3>1 DEF EndsAt, RcdEnd, Ends
  <2>3. CASE i # Running
    BY <1>1, <2>1, <2>3 DEF OpensEnded, Opens, EndsAt, RcdEnd, Ends
  <2> QED
    BY <2>2, <2>3
<1>9. CASE Idles
  <2>1. /\ Running' = Running /\ log' = log /\ over' = over
    BY <1>9 DEF Idles, Running
  <2> QED
    BY <1>1, <2>1 DEF OpensEnded, Opens, EndsAt, RcdEnd, Ends
<1> QED
  BY <1>3, <1>4, <1>5, <1>6, <1>7, <1>8, <1>9, StepKinds, Zenon

LEMMA EndedAll ==
  TypeOK => \A i, j \in DOMAIN log : Opens(i) /\ EndsAt(i, j) => Ended(i) = j
  BY EndedIs

LEMMA EndedAllNext ==
  (TypeOK => \A i, j \in DOMAIN log :
                Opens(i) /\ EndsAt(i, j) => Ended(i) = j)'
  BY EndedAll, PTL

LEMMA InStack ==
  StackShape => \A i \in Nat \ {0} : i \in ToSet(stack) <=> i = Running
<1> SUFFICES ASSUME StackShape, NEW i \in Nat \ {0}
             PROVE  i \in ToSet(stack) <=> i = Running
  OBVIOUS
<1>1. stack \in Seq(Nat) /\ Len(stack) \in 0..2
  BY DEF StackShape
<1>2. i \in ToSet(stack) <=> \E k \in 1..Len(stack) : stack[k] = i
  BY <1>1 DEF ToSet
<1>3. CASE Len(stack) = 0
  BY <1>1, <1>2, <1>3 DEF Running
<1>4. CASE Len(stack) = 1
  BY <1>1, <1>2, <1>4 DEF Running
<1>5. CASE Len(stack) = 2
  BY <1>1, <1>2, <1>5 DEF Running, StackShape
<1> QED
  BY <1>1, <1>3, <1>4, <1>5

\* What has ended has ended with the same line ever since.
LEMMA EndedKept ==
  ASSUME TypeOK, TypeOK', OpensEnded, over = "no", NEW l, Grows(l),
         NEW i \in DOMAIN log, i # Running
  PROVE  Ended(i)' = Ended(i) /\ Ended(i) \in DOMAIN log
<1>0. PICK n \in Nat : n = Len(log) + 1
  BY DEF TypeOK
<1>1. /\ n \in Nat \ {0} /\ Len(log) = n - 1
      /\ DOMAIN log = 1..(n - 1) /\ DOMAIN log' = 1..n
      /\ Opens(i)' <=> Opens(i)
  BY <1>0, GrowsFacts
<1>2. CASE ~Opens(i)
  BY <1>1, <1>2 DEF Ended
<1>3. CASE Opens(i)
  <2>1. PICK j \in DOMAIN log : EndsAt(i, j)
    BY <1>3 DEF OpensEnded
  <2>2. EndsAt(i, j)' /\ i \in DOMAIN log' /\ j \in DOMAIN log'
    BY <1>1, <2>1, EndsAtKept
  <2>3. Ended(i) = j
    BY <1>3, <2>1, EndedIs
  <2>4. Ended(i)' = j
    BY <1>1, <1>3, <2>2, EndedAllNext
  <2> QED
    BY <2>1, <2>3, <2>4
<1> QED
  BY <1>2, <1>3

-----------------------------------------------------------------------------
(***************************************************************************)
(* The history.                                                            *)
(***************************************************************************)

\* The lines of which the history should tell.
Told == {i \in DOMAIN log : /\ ~Ends(i) /\ log[i].line # "blank"
                            /\ ~(log[i].line = "set" /\ log[i].depth = 2)
                            /\ i # Running}

Ordered == \A p, q \in DOMAIN hist : p < q => Ended(hist[p]) < Ended(hist[q])

Telling == IsInjective(hist) /\ ToSet(hist) = Told /\ Ordered

LEMMA TellingIs ==
  TypeOK /\ StackShape =>
    (HistoryTells <=> (over = "no" /\ source = "readline" => Telling))
<1> SUFFICES ASSUME TypeOK, StackShape
             PROVE  HistoryTells
                      <=> (over = "no" /\ source = "readline" => Telling)
  OBVIOUS
<1>1. \A i \in DOMAIN log : i \in ToSet(stack) <=> i = Running
  BY InStack DEF TypeOK
<1>2. Told = {i \in DOMAIN log :
                 /\ ~Ends(i) /\ log[i].line # "blank"
                 /\ ~(log[i].line = "set" /\ log[i].depth = 2)
                 /\ i \notin ToSet(stack)}
  BY <1>1 DEF Told
<1> QED
  BY <1>2 DEF HistoryTells, Telling, Ordered

LEMMA TellingIsNext ==
  (TypeOK /\ StackShape =>
    (HistoryTells <=> (over = "no" /\ source = "readline" => Telling)))'
  BY TellingIs, PTL

LEMMA RememberOnce ==
  ASSUME NEW h \in Seq(Nat), IsInjective(h), NEW x \in Nat, x \notin ToSet(h)
  PROVE  /\ IsInjective(Append(h, x))
         /\ ToSet(Append(h, x)) = ToSet(h) \cup {x}
<1> DEFINE g == Append(h, x)
<1>1. /\ DOMAIN h = 1..Len(h) /\ Len(h) \in Nat
      /\ DOMAIN g = 1..(Len(h) + 1)
      /\ \A i \in 1..Len(h) : g[i] = h[i]
      /\ g[Len(h) + 1] = x
  OBVIOUS
<1> HIDE DEF g
<1>2. \A i \in 1..(Len(h) + 1) : i \in 1..Len(h) \/ i = Len(h) + 1
  BY <1>1
<1>3. \A i \in 1..Len(h) : h[i] # x /\ i \in 1..(Len(h) + 1)
  BY <1>1 DEF ToSet
<1>4. IsInjective(g)
  BY <1>1, <1>2, <1>3 DEF IsInjective
<1>5. Len(h) + 1 \in 1..(Len(h) + 1)
  BY <1>1
<1>6. ToSet(g) = ToSet(h) \cup {x}
  BY <1>1, <1>2, <1>3, <1>5 DEF ToSet
<1> QED
  BY <1>4, <1>6 DEF g

\* The order is kept when what is added ended last.
LEMMA RememberLast ==
  ASSUME TypeOK, TypeOK', Telling, NEW x \in Nat, x \notin ToSet(hist),
         hist' = Append(hist, x),
         \A i \in ToSet(hist) : Ended(i)' = Ended(i) /\ Ended(i) < Ended(x)'
  PROVE  IsInjective(hist') /\ ToSet(hist') = ToSet(hist) \cup {x} /\ Ordered'
<1>1. hist \in Seq(Nat)
  <2>1. 1..Len(log) \subseteq Nat
    BY DEF TypeOK
  <2> QED
    BY <2>1, SeqMonotonic, Zenon DEF TypeOK
<1>2. IsInjective(hist') /\ ToSet(hist') = ToSet(hist) \cup {x}
  BY <1>1, RememberOnce DEF Telling
<1>3. /\ DOMAIN hist = 1..Len(hist) /\ Len(hist) \in Nat
      /\ DOMAIN hist' = 1..(Len(hist) + 1)
      /\ \A i \in 1..Len(hist) : hist'[i] = hist[i]
      /\ hist'[Len(hist) + 1] = x
  BY <1>1
<1>4. SUFFICES ASSUME NEW p \in DOMAIN hist', NEW q \in DOMAIN hist', p < q
               PROVE  Ended(hist[p])' < Ended(hist[q])'
  BY <1>2 DEF Ordered
<1>5. p \in 1..Len(hist) /\ (q \in 1..Len(hist) \/ q = Len(hist) + 1)
  BY <1>3, <1>4
<1>6. PICK a \in ToSet(hist) : a = hist[p] /\ hist'[p] = a
  BY <1>3, <1>5 DEF ToSet
<1>7. CASE q \in 1..Len(hist)
  <2>1. PICK b \in ToSet(hist) : b = hist[q] /\ hist'[q] = b
    BY <1>3, <1>7 DEF ToSet
  <2>2. Ended(a) < Ended(b)
    BY <1>3, <1>4, <1>5, <1>6, <1>7, <2>1 DEF Telling, Ordered
  <2>3. Ended(a)' < Ended(b)'
    BY <1>6, <2>1, <2>2
  <2> QED
    BY <1>6, <2>1, <2>3 DEF Ended, EndsAt, RcdEnd, Ends, Opens
<1>8. CASE q = Len(hist) + 1
  <2>1. Ended(a)' < Ended(x)' /\ hist'[q] = x
    BY <1>3, <1>6, <1>8
  <2> QED
    BY <1>6, <2>1 DEF Ended, EndsAt, RcdEnd, Ends, Opens
<1> QED
  BY <1>5, <1>7, <1>8

LEMMA OrderKept ==
  ASSUME TypeOK, Telling, hist' = hist,
         \A i \in ToSet(hist) : Ended(i)' = Ended(i)
  PROVE  Ordered'
<1>1. SUFFICES ASSUME NEW p \in DOMAIN hist', NEW q \in DOMAIN hist', p < q
               PROVE  Ended(hist[p])' < Ended(hist[q])'
  BY DEF Ordered
<1>2. PICK a \in ToSet(hist) : a = hist[p] /\ hist'[p] = a
  BY <1>1 DEF ToSet
<1>3. PICK b \in ToSet(hist) : b = hist[q] /\ hist'[q] = b
  BY <1>1 DEF ToSet
<1>4. Ended(a) < Ended(b)
  BY <1>1, <1>2, <1>3 DEF Telling, Ordered
<1>5. Ended(a)' < Ended(b)'
  BY <1>2, <1>3, <1>4
<1> QED
  BY <1>2, <1>3, <1>5 DEF Ended, EndsAt, RcdEnd, Ends, Opens

\* What a line that is got adds to what the history should tell.
LEMMA ToldGrows ==
  ASSUME TypeOK, NEW l, Grows(l), NEW n, n = Len(log) + 1,
         Running' = Running \/ (Running = 0 /\ Running' = n),
         Running # n
  PROVE  /\ n \notin Told
         /\ IF /\ l \notin {"exit", "^D", "blank"}
               /\ ~(l = "set" /\ Depth = 2) /\ n # Running'
            THEN Told' = Told \cup {n} ELSE Told' = Told
<1>1. /\ n \in Nat \ {0} /\ Len(log) = n - 1
      /\ DOMAIN log = 1..(n - 1) /\ DOMAIN log' = 1..n
      /\ \A i \in 1..(n - 1) : /\ Ends(i)' <=> Ends(i)
                               /\ log'[i] = log[i]
      /\ Ends(n)' <=> l \in {"exit", "^D"}
      /\ log'[n].depth = Depth /\ log'[n].line = l
  BY GrowsFacts
<1>2. 1..n = (1..(n - 1)) \cup {n} /\ n \notin 1..(n - 1)
  BY <1>1
<1>3. \A i \in 1..(n - 1) : (i # Running') <=> (i # Running)
  BY <1>1, <1>2
<1>4. \A i \in 1..(n - 1) : i \in Told' <=> i \in Told
  BY <1>1, <1>2, <1>3 DEF Told
<1>5. n \in Told' <=> /\ l \notin {"exit", "^D", "blank"}
                      /\ ~(l = "set" /\ Depth = 2) /\ n # Running'
  BY <1>1, <1>2 DEF Told
<1>6. Told \subseteq 1..(n - 1) /\ Told' \subseteq 1..n
  BY <1>1 DEF Told
<1>7. n \notin Told
  BY <1>2, <1>6
<1>8. n \in Told' => Told' = Told \cup {n}
  BY <1>2, <1>4, <1>6
<1>9. n \notin Told' => Told' = Told
  BY <1>2, <1>4, <1>6
<1> QED
  BY <1>5, <1>7, <1>8, <1>9

LEMMA StepTelling ==
  ASSUME TypeOK, TypeOK', InputShape, StackShape, OpensEnded,
         over = "no" => Telling, source = "readline",
         [Next]_vars, over' = "no"
  PROVE  Telling'
<1>0. PICK n \in Nat : n = Len(log) + 1
  BY DEF TypeOK
<1>1. Running \in Nat /\ Running # n
  <2>1. Running # 0 => Running \in 1..Len(log)
    BY DEF StackShape, TypeOK
  <2> QED
    BY <1>0, <2>1
<1>2. ASSUME NEW l, Grows(l), over = "no"
      PROVE  \A i \in ToSet(hist) :
                Ended(i)' = Ended(i) /\ Ended(i) \in 1..(n - 1)
  <2>1. DOMAIN log = 1..(n - 1)
    BY <1>0 DEF TypeOK
  <2> QED
    BY <1>2, <2>1, EndedKept DEF Telling, Told
<1>3. CASE Pops
  <2>1. PICK l \in {"exit", "^D"} : Grows(l)
    BY <1>3 DEF Pops
  <2>2. Running' = Running /\ over = "no" /\ hist' = hist
    BY <1>3, PopsShape DEF Pops
  <2>3. Told' = Told
    <3>1. l \in {"exit", "^D", "blank"}
      OBVIOUS
    <3> QED
      BY <3>1, <1>0, <1>1, <2>1, <2>2, ToldGrows
  <2>4. Ordered'
    BY <1>2, <2>1, <2>2, OrderKept
  <2> QED
    BY <2>2, <2>3, <2>4 DEF Telling
<1>4. CASE Pushes
  <2>1. Grows("open") /\ Depth = 1 /\ stack' = <<n, 0>>
    BY <1>0, <1>4 DEF Pushes
  <2>2. Running' = n /\ Running = 0 /\ over = "no" /\ hist' = hist
    BY <1>4, <2>1, AtPromptShape DEF Grows, Running, Pushes
  <2>3. Told' = Told
    BY <1>0, <1>1, <2>1, <2>2, ToldGrows
  <2>4. Ordered'
    BY <1>2, <2>1, <2>2, OrderKept
  <2> QED
    BY <2>2, <2>3, <2>4 DEF Telling
<1>5. ASSUME NEW l \in Line, NEW remember \in BOOLEAN, Stays(l, remember)
      PROVE  Telling'
  <2>1. /\ Grows(l) /\ l \notin {"exit", "^D"}
        /\ ~(l = "open" /\ Depth = 1)
        /\ Running' = Running /\ over = "no"
        /\ remember <=> l # "blank" /\ ~(l = "set" /\ Depth = 2)
    BY <1>5 DEF Stays, Running
  <2>2. /\ n \notin Told
        /\ IF l # "blank" /\ ~(l = "set" /\ Depth = 2)
           THEN Told' = Told \cup {n} ELSE Told' = Told
    <3>1. n # Running' /\ (l \notin {"exit", "^D", "blank"} <=> l # "blank")
      BY <1>1, <2>1
    <3> QED
      BY <3>1, <1>0, <1>1, <2>1, ToldGrows
  <2>3. Telling
    BY <2>1
  <2>4. CASE remember
    <3>1. hist' = Append(hist, n)
      BY <1>0, <1>5, <2>4 DEF Stays, Remember
    <3>2. Ended(n)' = n
      BY <1>0, <2>1, GrowsFacts DEF Ended
    <3>3. \A i \in ToSet(hist) : Ended(i)' = Ended(i) /\ Ended(i) < Ended(n)'
      BY <1>2, <2>1, <3>2
    <3>4. n \notin ToSet(hist)
      BY <2>2, <2>3 DEF Telling
    <3>5. IsInjective(hist') /\ ToSet(hist') = ToSet(hist) \cup {n}
          /\ Ordered'
      BY <2>3, <3>1, <3>3, <3>4, RememberLast
    <3>6. Told' = Told \cup {n}
      BY <2>1, <2>2, <2>4
    <3> QED
      BY <2>3, <3>5, <3>6 DEF Telling
  <2>5. CASE ~remember
    <3>1. hist' = hist
      BY <1>5, <2>5 DEF Stays
    <3>2. Told' = Told
      BY <2>1, <2>2, <2>5
    <3>3. Ordered'
      BY <1>2, <2>1, <2>3, <3>1, OrderKept
    <3> QED
      BY <2>3, <3>1, <3>2, <3>3 DEF Telling
  <2> QED
    BY <2>4, <2>5
<1>6. CASE Stops
  BY <1>6 DEF Stops
<1>7. CASE Run \/ Idles
  <2>1. /\ log' = log /\ hist' = hist /\ over = "no" /\ Running' = Running
    BY <1>7 DEF Run, Idles, Running
  <2>2. Told' = Told
    BY <2>1 DEF Told, Ends
  <2>3. \A i \in ToSet(hist) : Ended(i)' = Ended(i)
    BY <2>1 DEF Ended, Ends, Opens, EndsAt, RcdEnd
  <2>4. Ordered'
    BY <2>1, <2>3, OrderKept
  <2> QED
    BY <2>1, <2>2, <2>4 DEF Telling
<1>8. CASE FinishOpen
  <2>1. PICK r \in Nat : r = Running
    BY <1>1
  <2>2. /\ Len(stack) = 1 /\ r # 0 /\ Running' = 0
        /\ log' = log /\ over = "no" /\ hist' = Append(hist, r)
    BY <1>8, <2>1, FinishOpenAt DEF Remember
  <2>3. /\ r \in DOMAIN log /\ Opens(r) /\ EndsAt(r, Len(log))
    BY <2>1, <2>2, RunningIs
  <2>4. /\ Len(log) \in Nat /\ DOMAIN log = 1..Len(log)
        /\ Len(log) \in DOMAIN log /\ r < Len(log) /\ Ends(Len(log))
    BY <2>3 DEF TypeOK, EndsAt, RcdEnd
  <2>5. Ended(r) = Len(log)
    BY <2>3, <2>4, EndedIs
  <2>6. \A i \in DOMAIN log : Ended(i)' = Ended(i)
    BY <2>2 DEF Ended, Opens, EndsAt, RcdEnd, Ends
  <2>7. ASSUME NEW i \in ToSet(hist)
        PROVE  Ended(i)' = Ended(i) /\ Ended(i) < Ended(r)'
    <3>1. i \in DOMAIN log /\ ~Ends(i) /\ i # Running
      BY <2>2, <2>7 DEF Telling, Told
    <3>2. CASE Opens(i)
      <4>1. PICK j \in DOMAIN log : EndsAt(i, j) /\ j < r
        BY <2>1, <2>2, <3>1, <3>2 DEF OpensEnded
      <4>2. Ended(i) = j
        BY <3>1, <3>2, <4>1, EndedIs
      <4> QED
        BY <2>3, <2>4, <2>5, <2>6, <3>1, <4>1, <4>2
    <3>3. CASE ~Opens(i)
      <4>1. Ended(i) = i
        BY <3>3 DEF Ended
      <4>2. i # Len(log)
        BY <2>4, <3>1
      <4> QED
        BY <2>3, <2>4, <2>5, <2>6, <3>1, <4>1, <4>2
    <3> QED
      BY <3>2, <3>3
  <2>8. r \notin ToSet(hist)
    BY <2>1, <2>2 DEF Telling, Told
  <2>9. IsInjective(hist') /\ ToSet(hist') = ToSet(hist) \cup {r}
        /\ Ordered'
    BY <2>2, <2>7, <2>8, RememberLast
  <2>10. Told' = Told \cup {r}
    <3>1. /\ ~Ends(r) /\ log[r].line # "blank" /\ log[r].line # "set"
      BY <2>3 DEF Opens, Ends
    <3>2. 0 \notin DOMAIN log
      BY <2>4
    <3> QED
      BY <2>1, <2>2, <2>3, <3>1, <3>2 DEF Told, Ends
  <2> QED
    BY <2>2, <2>9, <2>10 DEF Telling
<1> QED
  BY <1>3, <1>4, <1>5, <1>6, <1>7, <1>8, StepKinds, Zenon

LEMMA StepHistory ==
  ASSUME TypeOK, TypeOK', InputShape, StackShape, StackShape', OpensEnded,
         HistoryTells, [Next]_vars
  PROVE  HistoryTells'
<1>1. source' = source
  BY DEF Next, Loop, vars, Write, Run, GetEndOfTerminal, GetEndOfStream,
     Blank, Handle, Set, Exit, Open, FinishOpen, FinishOpenThrows, Throw,
     Terminate
<1>2. source = "readline" /\ over' = "no" => Telling'
  BY TellingIs, StepTelling
<1> QED
  BY <1>1, <1>2, TellingIsNext

-----------------------------------------------------------------------------
LEMMA InitIInv == Init => IInv
<1> SUFFICES ASSUME Init PROVE IInv
  OBVIOUS
<1>1. /\ Len(<<>>) = 0 /\ DOMAIN <<>> = {} /\ <<>> \o <<>> = <<>>
  OBVIOUS
<1>2. TypeOK
  BY <1>1 DEF Init, TypeOK, Depth
<1>3. InputShape
  BY <1>1 DEF Init, InputShape
<1>4. Lines(0) = <<>> /\ Lines(0) \o <<>> = <<>>
  <2>1. 1..0 = {}
    OBVIOUS
  <2>2. Lines(0) = <<>>
    BY <2>1 DEF Lines
  <2> QED
    BY <2>2, <1>1
<1>5. Whole /\ NoLineLost
  <2>1. 0 \in 0..Len(log) /\ DOMAIN log = {} /\ Len(log) = 0
    BY <1>1 DEF Init
  <2>2. written = Lines(0) \o unread
    BY <1>4 DEF Init
  <2> QED
    BY <2>1, <2>2 DEF Whole, NoLineLost
<1>6. StackShape /\ OpensEnded
  BY <1>1 DEF Init, StackShape, OpensEnded, Running
<1>7. EachEndEndsOne
  <2>1. /\ {i \in DOMAIN log : Ends(i)} = {}
        /\ {i \in DOMAIN log : Opens(i)} = {}
    BY <1>1 DEF Init
  <2>2. Cardinality({}) = 0
    BY FS_EmptySet
  <2>3. Depth = 0 /\ runs = 0
    BY <1>1 DEF Init, Depth
  <2> QED
    BY <2>1, <2>2, <2>3 DEF EachEndEndsOne
<1>8. HistoryTells
  <2>1. DOMAIN hist = {} /\ DOMAIN log = {}
    BY <1>1 DEF Init
  <2> QED
    BY <2>1 DEF HistoryTells, IsInjective, ToSet
<1> QED
  BY <1>2, <1>3, <1>5, <1>6, <1>7, <1>8 DEF IInv

LEMMA NextIInv == IInv /\ [Next]_vars => IInv'
<1> SUFFICES ASSUME IInv, [Next]_vars PROVE IInv'
  OBVIOUS
<1> USE DEF IInv
<1>1. TypeOK'
  BY StepType
<1>2. InputShape' /\ Whole' /\ NoLineLost'
  BY <1>1, StepInput
<1>3. StackShape'
  BY <1>1, StepStack
<1>4. OpensEnded'
  BY <1>1, StepOpensEnded
<1>5. EachEndEndsOne'
  BY StepCount
<1>6. HistoryTells'
  BY <1>1, <1>3, StepHistory
<1> QED
  BY <1>1, <1>2, <1>3, <1>4, <1>5, <1>6

\* The inductive invariant holds for any number of lines and loops.
THEOREM Invariance == Spec => []IInv
<1>1. Init => IInv
  BY InitIInv
<1>2. IInv /\ [Next]_vars => IInv'
  BY NextIInv
<1> QED
  BY <1>1, <1>2, PTL DEF Spec

\* Whatever is written, and whichever loops come and go, no line is lost, got
\* twice or got out of order, but for one that a stream ends with.
THEOREM NoLineIsLost == Spec => []NoLineLost
<1>1. IInv => NoLineLost
  BY DEF IInv
<1> QED
  BY <1>1, Invariance, PTL

\* Every "exit", ^D and end of a stream ends exactly one loop.
THEOREM EachEndIsOne == Spec => []EachEndEndsOne
<1>1. IInv => EachEndEndsOne
  BY DEF IInv
<1> QED
  BY <1>1, Invariance, PTL

\* The history is what was done, in the order in which it was done, however
\* long the session.
THEOREM HistoryIsTrue == Spec => []HistoryTells
<1>1. IInv => HistoryTells
  BY DEF IInv
<1> QED
  BY <1>1, Invariance, PTL
=============================================================================
