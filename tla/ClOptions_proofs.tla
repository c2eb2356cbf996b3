-------------------------- MODULE ClOptions_proofs --------------------------
(***************************************************************************)
(* Proofs about ClOptions, for command lines of any length and any words.  *)
(***************************************************************************)
EXTENDS ClOptions, TLAPS, FiniteSetTheorems, SequenceTheorems,
        WellFoundedInduction

-----------------------------------------------------------------------------
(***************************************************************************)
(* Induction and recursion over the places of a sequence.  Steps are       *)
(* functions here, and not operators, so that the lemmas can be used.      *)
(***************************************************************************)

\* Any natural numbers have a least one.
LEMMA Least ==
  ASSUME NEW S \in SUBSET Nat, S # {}
  PROVE  \E m \in S : \A n \in S : m <= n
<1> DEFINE R == {ss \in Nat \X Nat : ss[1] < ss[2]}
<1>1. OpToRel(<, Nat) = R
  BY Zenon DEF OpToRel
<1>2. IsWellFoundedOn(R, Nat)
  BY <1>1, NatLessThanWellFounded, Zenon
<1> HIDE DEF R
<1>3. PICK m \in S : \A n \in S : ~(<<n, m>> \in R)
  <2>1. S \subseteq Nat
    OBVIOUS
  <2> QED
    BY <1>2, <2>1, WFMin, Zenon
<1>4. \A k, n \in Nat : <<n, k>> \in R <=> n < k
  BY DEF R
<1>5. \A n \in S : n \in Nat /\ ~(n < m)
  BY <1>3, <1>4, Zenon
<1>6. \A n \in S : m <= n
  BY <1>5
<1> QED
  BY <1>6

\* Induction from 0 to N; S has the numbers for which the claim holds.
LEMMA UpTo ==
  ASSUME NEW N \in Nat, NEW S, 0 \in S,
         \A n \in 1..N : n - 1 \in S => n \in S
  PROVE  \A n \in 0..N : n \in S
<1> DEFINE T == {n \in 0..N : n \notin S}
<1>1. SUFFICES ASSUME T # {} PROVE FALSE
  OBVIOUS
<1>2. T \in SUBSET Nat
  OBVIOUS
<1>3. PICK m \in T : \A n \in T : m <= n
  BY <1>1, <1>2, Least
<1>4. m \in 1..N /\ m - 1 \in 0..N
  BY <1>3
<1>5. m - 1 \in S
  BY <1>3, <1>4
<1> QED
  BY <1>3, <1>4, <1>5

\* What goes from a, in N steps.
Goes(f, a, N, F) == f[0] = a /\ \A n \in 1..N : f[n] = F[n][f[n - 1]]

\* A recursive definition over 1..N defines a function.
LEMMA RecursionExists ==
  ASSUME NEW N \in Nat, NEW A, NEW a \in A, NEW F \in [1..N -> [A -> A]]
  PROVE  \E f \in [0..N -> A] : Goes(f, a, N, F)
<1> DEFINE S == {n \in 0..N : \E f \in [0..n -> A] :
                    f[0] = a /\ \A k \in 1..n : f[k] = F[k][f[k - 1]]}
<1>1. 0 \in S
  <2>1. /\ [k \in 0..0 |-> a] \in [0..0 -> A]
        /\ [k \in 0..0 |-> a][0] = a
    OBVIOUS
  <2>2. 1..0 = {} /\ 0 \in 0..N
    OBVIOUS
  <2> QED
    BY <2>1, <2>2
<1>2. ASSUME NEW n \in 1..N, n - 1 \in S PROVE n \in S
  <2>1. PICK f \in [0..(n - 1) -> A] :
            f[0] = a /\ \A k \in 1..(n - 1) : f[k] = F[k][f[k - 1]]
    BY <1>2
  <2> DEFINE g == [k \in 0..n |-> IF k = n THEN F[n][f[n - 1]] ELSE f[k]]
  <2>2. F[n][f[n - 1]] \in A
    OBVIOUS
  <2>3. g \in [0..n -> A]
    BY <2>2
  <2>4. \A k \in 0..(n - 1) : g[k] = f[k]
    OBVIOUS
  <2>5. g[n] = F[n][f[n - 1]]
    OBVIOUS
  <2> HIDE DEF g
  <2>6. g[0] = a
    BY <2>1, <2>4
  <2>7. ASSUME NEW k \in 1..n PROVE g[k] = F[k][g[k - 1]]
    <3>1. /\ k - 1 \in 0..(n - 1)
          /\ k # n => k \in 1..(n - 1) /\ k \in 0..(n - 1)
      OBVIOUS
    <3> QED
      BY <3>1, <2>1, <2>4, <2>5
  <2> QED
    BY <2>3, <2>6, <2>7
<1> HIDE DEF S
<1>3. \A n \in 1..N : n - 1 \in S => n \in S
  BY <1>2
<1>4. \A n \in 0..N : n \in S
  BY <1>1, <1>3, UpTo, Zenon
<1>5. N \in S
  BY <1>4
<1> QED
  BY <1>5 DEF S, Goes

-----------------------------------------------------------------------------
(***************************************************************************)
(* Tokens, and those that are no Info Options.                             *)
(***************************************************************************)

LEMMA TokenShape ==
  ASSUME NEW t \in Token
  PROVE  /\ t.kind \in {"word", "info", "bare", "joined"}
         /\ t.kind = "word" => t.name \in Words
         /\ t.kind = "info" => t.name \in Info
         /\ t.kind = "joined" => t.val \in Words
  BY DEF Token

\* f has what is left of the first n tokens of s.
OthersOf(f, s) ==
    /\ f \in [0..Len(s) -> Seq(Token)]
    /\ f[0] = <<>>
    /\ \A n \in 1..Len(s) :
          f[n] = IF Plain(s[n]) THEN Append(f[n - 1], s[n]) ELSE f[n - 1]

\* The recursive definition of Others is one that defines something.
LEMMA OthersExist ==
  ASSUME NEW s \in Seq(Token)
  PROVE  \E f : OthersOf(f, s) /\ Others(s) = f[Len(s)]
<1> DEFINE N == Len(s)
           A == Seq(Token)
           Step(n, acc) == IF Plain(s[n]) THEN Append(acc, s[n]) ELSE acc
           F == [n \in 1..N |-> [acc \in A |-> Step(n, acc)]]
           Body(f) == [n \in 0..N |-> IF n = 0 THEN <<>>
                                     ELSE IF Plain(s[n])
                                          THEN Append(f[n - 1], s[n])
                                     ELSE f[n - 1]]
           h == CHOOSE f : f = Body(f)
<1>1. N \in Nat /\ <<>> \in A /\ \A n \in 1..N : s[n] \in Token
  OBVIOUS
<1>2. \A n \in 1..N : \A acc \in A : Step(n, acc) \in A
  BY <1>1
<1>3. F \in [1..N -> [A -> A]]
  BY <1>2
<1>4. \A n \in 1..N : \A acc \in A : F[n][acc] = Step(n, acc)
  OBVIOUS
<1>5. Others(s) = h[N]
  BY DEF Others
<1> HIDE DEF F, N, A
<1>6. PICK g \in [0..N -> A] : Goes(g, <<>>, N, F)
  BY <1>1, <1>3, RecursionExists
<1>7. g = Body(g)
  <2>1. \A n \in 1..N : n - 1 \in 0..N /\ n # 0
    BY <1>1
  <2>2. \A n \in 1..N : g[n] = Step(n, g[n - 1])
    BY <1>4, <1>6, <2>1 DEF Goes
  <2>3. \A n \in 0..N : n = 0 \/ n \in 1..N
    BY <1>1
  <2> QED
    BY <1>6, <2>1, <2>2, <2>3 DEF Goes
<1>8. h = Body(h)
  BY <1>7
<1> HIDE DEF h
<1>9. /\ h = [n \in 0..N |-> h[n]]
      /\ h[0] = <<>>
      /\ \A n \in 1..N : h[n] = Step(n, h[n - 1])
  <2> DEFINE b == Body(h)
  <2>1. b = [n \in 0..N |-> b[n]] /\ b[0] = <<>>
    BY <1>1
  <2>2. \A n \in 1..N : b[n] = Step(n, h[n - 1])
    BY <1>1
  <2> HIDE DEF b
  <2>3. h = b
    BY <1>8 DEF b
  <2> QED
    BY <2>1, <2>2, <2>3, Zenon
<1>10. \A n \in 0..N : h[n] \in A
  <2> DEFINE S == {n \in 0..N : h[n] \in A}
  <2>1. 0 \in S
    BY <1>1, <1>9
  <2>2. ASSUME NEW n \in 1..N, n - 1 \in S PROVE n \in S
    <3>1. Step(n, h[n - 1]) \in A
      BY <1>2, <2>2
    <3>2. h[n] \in A
      BY <1>9, <3>1, Zenon
    <3>3. n \in 0..N
      BY <1>1
    <3> QED
      BY <3>2, <3>3
  <2>3. \A n \in 1..N : n - 1 \in S => n \in S
    BY <2>2
  <2> HIDE DEF S
  <2>4. \A n \in 0..N : n \in S
    BY <1>1, <2>1, <2>3, UpTo, Zenon
  <2> QED
    BY <2>4 DEF S
<1>11. OthersOf(h, s)
  BY <1>9, <1>10 DEF OthersOf, N, A
<1> QED
  BY <1>5, <1>11 DEF N

LEMMA OthersAppend ==
  ASSUME NEW s \in Seq(Token), NEW t \in Token
  PROVE  Others(Append(s, t)) = IF Plain(t) THEN Append(Others(s), t)
                                ELSE Others(s)
<1> DEFINE r == Append(s, t)
           N == Len(s)
<1>1. /\ r \in Seq(Token) /\ N \in Nat /\ Len(r) = N + 1 /\ r[N + 1] = t
      /\ \A n \in 1..N : r[n] = s[n]
  OBVIOUS
<1> HIDE DEF r
<1>2. PICK f : OthersOf(f, s) /\ Others(s) = f[N]
  BY OthersExist
<1>3. PICK g : OthersOf(g, r) /\ Others(r) = g[N + 1]
  BY <1>1, OthersExist
<1> HIDE DEF N
<1> DEFINE S == {n \in 0..N : f[n] = g[n]}
<1>4. 0 \in S
  BY <1>1, <1>2, <1>3 DEF OthersOf
<1>5. \A n \in 1..N : n - 1 \in S => n \in S
  BY <1>1, <1>2, <1>3 DEF OthersOf, N
<1> HIDE DEF S
<1>6. \A n \in 0..N : n \in S
  BY <1>1, <1>4, <1>5, UpTo, Zenon
<1>7. f[N] = g[N]
  BY <1>1, <1>6 DEF S
<1>8. N + 1 \in 1..Len(r) /\ (N + 1) - 1 = N
  BY <1>1
<1>9. g[N + 1] = IF Plain(t) THEN Append(g[N], t) ELSE g[N]
  BY <1>1, <1>3, <1>8 DEF OthersOf
<1> QED
  BY <1>2, <1>3, <1>7, <1>9 DEF r

LEMMA OthersType ==
  ASSUME NEW s \in Seq(Token)
  PROVE  /\ Others(s) \in Seq(Token)
         /\ \A i \in DOMAIN Others(s) : Plain(Others(s)[i])
<1> DEFINE N == Len(s)
<1>1. PICK f : OthersOf(f, s) /\ Others(s) = f[N]
  BY OthersExist
<1> DEFINE S == {n \in 0..N : \A i \in 1..Len(f[n]) : Plain(f[n][i])}
<1>2. N \in Nat
  OBVIOUS
<1>3. 0 \in S
  BY <1>1, <1>2 DEF OthersOf
<1>4. ASSUME NEW n \in 1..N, n - 1 \in S PROVE n \in S
  <2>1. f[n - 1] \in Seq(Token) /\ s[n] \in Token
    BY <1>1 DEF OthersOf
  <2>2. CASE Plain(s[n])
    <3>1. f[n] = Append(f[n - 1], s[n])
      BY <1>1, <2>2 DEF OthersOf
    <3> HIDE DEF N
    <3> QED
      BY <1>4, <2>1, <2>2, <3>1
  <2>3. CASE ~Plain(s[n])
    BY <1>1, <1>4, <2>3 DEF OthersOf
  <2> QED
    BY <2>2, <2>3
<1>5. \A n \in 1..N : n - 1 \in S => n \in S
  BY <1>4
<1> HIDE DEF S
<1>6. \A n \in 0..N : n \in S
  BY <1>2, <1>3, <1>5, UpTo, Zenon
<1>7. N \in S /\ N \in 0..N
  BY <1>2, <1>6
<1>8. f[N] \in Seq(Token) /\ \A i \in 1..Len(f[N]) : Plain(f[N][i])
  BY <1>1, <1>7 DEF S, OthersOf
<1> QED
  BY <1>1, <1>8

LEMMA OthersOfNothing == Others(<<>>) = <<>>
<1>1. <<>> \in Seq(Token) /\ Len(<<>>) = 0
  OBVIOUS
<1> QED
  BY <1>1, OthersExist DEF OthersOf

-----------------------------------------------------------------------------
(***************************************************************************)
(* The second parse, for any sequence of tokens that are deferred.         *)
(***************************************************************************)

PlainToken == {t \in Token : Plain(t)}

Acc == [opts : [Named -> Words \cup {""}], words : Seq(Words),
        want : Named \cup {""}, bad : BOOLEAN]

LEMMA KnownNamed ==
  ASSUME NEW c
  PROVE  Known(c) \subseteq Named /\ "" \notin Named /\ "file" \in Named
  BY DEF Known, Named, Own, Common, Commands

LEMMA PlainShape ==
  ASSUME NEW t \in PlainToken
  PROVE  /\ t.kind \in {"word", "bare", "joined"}
         /\ t.kind = "word" => t.name \in Words
         /\ t.kind = "joined" => t.val \in Words
  BY TokenShape DEF PlainToken, Plain

LEMMA StartType == Start \in Acc
<1>1. <<>> \in Seq(Words)
  OBVIOUS
<1> QED
  BY <1>1 DEF Start, Acc, NoOpts

LEMMA StoredType ==
  ASSUME NEW acc \in Acc, NEW o \in Named, NEW v \in Words
  PROVE  Stored(acc, o, v) \in Acc
  BY DEF Stored, Acc

LEMMA TakeType ==
  ASSUME NEW acc \in Acc, NEW t \in PlainToken
  PROVE  Take(acc, t) \in Acc
<1>1. t.kind \in {"word", "bare", "joined"} /\ acc.bad \in BOOLEAN
  BY PlainShape DEF Acc
<1>2. CASE acc.bad
  BY <1>2 DEF Take
<1>3. CASE ~acc.bad /\ t.kind = "word"
  <2>1. t.name \in Words
    BY <1>3, PlainShape
  <2>2. CASE acc.want # ""
    <3>1. acc.want \in Named
      BY <2>2 DEF Acc
    <3> QED
      BY <1>3, <2>1, <2>2, <3>1, StoredType DEF Take
  <2>3. CASE acc.want = ""
    <3> DEFINE w == acc.words
    <3>3. w \in Seq(Words)
      BY DEF Acc
    <3> HIDE DEF w
    <3>4. Append(w, t.name) \in Seq(Words)
      BY <2>1, <3>3
    <3>1. Append(acc.words, t.name) \in Seq(Words)
      BY <3>4 DEF w
    <3>2. Take(acc, t) = [acc EXCEPT !.words = Append(acc.words, t.name)]
      BY <1>3, <2>3 DEF Take
    <3> QED
      BY <3>1, <3>2 DEF Acc
  <2> QED
    BY <2>2, <2>3
<1>4. CASE ~acc.bad /\ t.kind # "word"
  <2>1. CASE t.name \notin Known(subcmd)
    BY <1>4, <2>1 DEF Take, Acc
  <2>2. CASE t.name \in Known(subcmd) /\ t.kind = "bare"
    BY <1>4, <2>2, KnownNamed DEF Take, Acc
  <2>3. CASE t.name \in Known(subcmd) /\ t.kind # "bare"
    <3>1. t.name \in Named /\ t.val \in Words
      BY <1>1, <1>4, <2>3, KnownNamed, PlainShape
    <3> QED
      BY <1>4, <2>3, <3>1, StoredType DEF Take
  <2> QED
    BY <2>1, <2>2, <2>3
<1> QED
  BY <1>1, <1>2, <1>3, <1>4

\* f has what the parse is at after each token of s.
ParsedOf(f, s) ==
    /\ f \in [0..Len(s) -> Acc]
    /\ f[0] = Start
    /\ \A n \in 1..Len(s) : f[n] = Take(f[n - 1], s[n])

\* So is that of Parsed.
LEMMA ParsedExists ==
  ASSUME NEW s \in Seq(PlainToken)
  PROVE  \E f : ParsedOf(f, s) /\ Parsed(s) = f[Len(s)]
<1> DEFINE N == Len(s)
           F == [n \in 1..N |-> [acc \in Acc |-> Take(acc, s[n])]]
           Body(f) == [n \in 0..N |-> IF n = 0 THEN Start
                                     ELSE Take(f[n - 1], s[n])]
           h == CHOOSE f : f = Body(f)
<1>1. N \in Nat /\ Start \in Acc /\ \A n \in 1..N : s[n] \in PlainToken
  BY StartType
<1>2. \A n \in 1..N : \A acc \in Acc : Take(acc, s[n]) \in Acc
  BY <1>1, TakeType
<1>3. F \in [1..N -> [Acc -> Acc]]
  BY <1>2
<1>4. \A n \in 1..N : \A acc \in Acc : F[n][acc] = Take(acc, s[n])
  OBVIOUS
<1>5. Parsed(s) = h[N]
  BY DEF Parsed
<1> HIDE DEF F, N
<1>6. PICK g \in [0..N -> Acc] : Goes(g, Start, N, F)
  BY <1>1, <1>3, RecursionExists
<1>7. g = Body(g)
  <2>1. \A n \in 1..N : n - 1 \in 0..N /\ n # 0
    BY <1>1
  <2>2. \A n \in 1..N : g[n] = Take(g[n - 1], s[n])
    BY <1>4, <1>6, <2>1 DEF Goes
  <2>3. \A n \in 0..N : n = 0 \/ n \in 1..N
    BY <1>1
  <2> QED
    BY <1>6, <2>1, <2>2, <2>3 DEF Goes
<1>8. h = Body(h)
  BY <1>7
<1> HIDE DEF h
<1>9. /\ h = [n \in 0..N |-> h[n]]
      /\ h[0] = Start
      /\ \A n \in 1..N : h[n] = Take(h[n - 1], s[n])
  <2> DEFINE b == Body(h)
  <2>1. b = [n \in 0..N |-> b[n]] /\ b[0] = Start
    BY <1>1
  <2>2. \A n \in 1..N : b[n] = Take(h[n - 1], s[n])
    BY <1>1
  <2> HIDE DEF b
  <2>3. h = b
    BY <1>8 DEF b
  <2> QED
    BY <2>1, <2>2, <2>3, Zenon
<1>10. \A n \in 0..N : h[n] \in Acc
  <2> DEFINE S == {n \in 0..N : h[n] \in Acc}
  <2>1. 0 \in S
    BY <1>1, <1>9
  <2>2. ASSUME NEW n \in 1..N, n - 1 \in S PROVE n \in S
    <3>1. Take(h[n - 1], s[n]) \in Acc
      BY <1>2, <2>2
    <3>2. h[n] \in Acc
      BY <1>9, <3>1, Zenon
    <3>3. n \in 0..N
      BY <1>1
    <3> QED
      BY <3>2, <3>3
  <2>3. \A n \in 1..N : n - 1 \in S => n \in S
    BY <2>2
  <2> HIDE DEF S
  <2>4. \A n \in 0..N : n \in S
    BY <1>1, <2>1, <2>3, UpTo, Zenon
  <2> QED
    BY <2>4 DEF S
<1>11. ParsedOf(h, s)
  BY <1>9, <1>10 DEF ParsedOf, N
<1> QED
  BY <1>5, <1>11 DEF N

\* Each token's option and value, and whether the first n tokens have both.
Done(s, i, n) == s[i].kind = "joined" \/ (s[i].kind = "bare" /\ i < n)
Val(s, i) == IF s[i].kind = "bare" THEN s[i + 1].name ELSE s[i].val

\* A word that is no option's value.
FreeIn(s, i) == s[i].kind = "word" /\ (i = 1 \/ s[i - 1].kind # "bare")

\* What waits for its value has it next.
ValuesFollow(s) ==
    \A i \in 1..Len(s) :
        s[i].kind = "bare" /\ i < Len(s) => s[i + 1].kind = "word"

\* The options in the first n tokens are known, and none has two values.
Good(s, n) ==
    /\ \A i \in 1..n : s[i].kind # "word" => s[i].name \in Known(subcmd)
    /\ \A i, j \in 1..n :
          Done(s, i, n) /\ Done(s, j, n) /\ s[i].name = s[j].name => i = j

\* What the parse has stored of the first n tokens.
Waits(acc, s, n) ==
    acc.want = IF n # 0 /\ s[n].kind = "bare" THEN s[n].name ELSE ""

OptionsShow(acc, s, n) ==
    /\ \A i \in 1..n : Done(s, i, n) => acc.opts[s[i].name] = Val(s, i)
    /\ \A o \in Named : (\A i \in 1..n : Done(s, i, n) => s[i].name # o)
                        => acc.opts[o] = ""

WordsShow(acc, s, n) ==
    /\ (\E i \in 1..n : FreeIn(s, i)) => acc.words # <<>>
    /\ acc.words # <<>> =>
          \E i \in 1..n : FreeIn(s, i) /\ acc.words[1] = s[i].name
    /\ Len(acc.words) > 1 <=>
          \E i, j \in 1..n : i # j /\ FreeIn(s, i) /\ FreeIn(s, j)

Shows(acc, s, n) ==
    /\ ~acc.bad <=> Good(s, n)
    /\ ~acc.bad => /\ Waits(acc, s, n)
                   /\ OptionsShow(acc, s, n)
                   /\ WordsShow(acc, s, n)

LEMMA Places ==
  ASSUME NEW s \in Seq(PlainToken), NEW n \in 1..Len(s)
  PROVE  /\ n \in Nat /\ n >= 1 /\ s[n] \in PlainToken
         /\ 1..(n - 1) \subseteq 1..n /\ n \in 1..n
         /\ \A i \in 1..n : i \in 1..(n - 1) \/ i = n
         /\ \A i \in 1..n : i \in Nat /\ i \in 1..Len(s)
         /\ n > 1 => n - 1 \in 1..(n - 1)
  OBVIOUS

LEMMA BadStays ==
  ASSUME NEW s, NEW n \in Nat, n >= 1, ~Good(s, n - 1)
  PROVE  ~Good(s, n)
<1>1. 1..(n - 1) \subseteq 1..n
  OBVIOUS
<1>2. \A i \in 1..(n - 1) : Done(s, i, n - 1) => Done(s, i, n)
  BY DEF Done
<1> QED
  BY <1>1, <1>2 DEF Good

\* The token n completes the option o, which begins at k, with the value v.
LEMMA StoredShows ==
  ASSUME NEW s \in Seq(PlainToken), NEW n \in 1..Len(s), NEW acc \in Acc,
         ~acc.bad, Shows(acc, s, n - 1),
         NEW k \in 1..n, NEW o \in Known(subcmd), NEW v \in Words,
         s[k].name = o, Val(s, k) = v, s[k].kind # "word",
         \A i \in 1..n : Done(s, i, n) <=>
             i = k \/ (i \in 1..(n - 1) /\ Done(s, i, n - 1)),
         ~(k \in 1..(n - 1) /\ Done(s, k, n - 1)),
         \A i \in 1..(n - 1) : Done(s, i, n - 1) => Val(s, i) # "",
         s[n].kind = "bare" => FALSE,
         s[n].kind = "word" \/ s[n].name \in Known(subcmd),
         ~FreeIn(s, n)
  PROVE  Shows(Stored(acc, o, v), s, n)
<1> DEFINE b == Stored(acc, o, v)
<1>1. 1..(n - 1) \subseteq 1..n /\ \A i \in 1..n : i \in 1..(n - 1) \/ i = n
  BY Places, Zenon
<1>2. Good(s, n - 1) /\ Waits(acc, s, n - 1) /\ OptionsShow(acc, s, n - 1)
      /\ WordsShow(acc, s, n - 1)
  BY DEF Shows
<1>3. o \in Named /\ v # ""
  <2>1. Known(subcmd) \subseteq Named
    BY KnownNamed
  <2> QED
    BY <2>1, WordsAssumption
<1>4. CASE acc.opts[o] # ""
  <2>1. PICK i \in 1..(n - 1) : Done(s, i, n - 1) /\ s[i].name = o
    BY <1>2, <1>3, <1>4 DEF OptionsShow
  <2>2. i # k /\ i \in 1..n /\ Done(s, i, n) /\ Done(s, k, n)
    BY <1>1, <2>1
  <2>3. ~Good(s, n)
    BY <2>1, <2>2 DEF Good
  <2>4. Stored(acc, o, v).bad
    BY <1>4 DEF Stored, Acc
  <2> QED
    BY <2>3, <2>4 DEF Shows
<1>5. CASE acc.opts[o] = ""
  <2>1. /\ b.bad = acc.bad /\ b.want = "" /\ b.words = acc.words
        /\ b.opts = [acc.opts EXCEPT ![o] = v]
    BY <1>5 DEF Stored, Acc
  <2>2. /\ b.opts[o] = v
        /\ \A p \in Named : p # o => b.opts[p] = acc.opts[p]
    BY <1>3, <2>1 DEF Acc
  <2> HIDE DEF b
  <2>3. \A i \in 1..(n - 1) : Done(s, i, n - 1) => s[i].name # o
    BY <1>2, <1>5 DEF OptionsShow
  <2>4. Good(s, n)
    <3>1. \A i \in 1..n : s[i].kind # "word" => s[i].name \in Known(subcmd)
      BY <1>1, <1>2 DEF Good
    <3>2. ASSUME NEW i \in 1..n, NEW j \in 1..n,
                 Done(s, i, n), Done(s, j, n), s[i].name = s[j].name
          PROVE  i = j
      BY <1>2, <2>3, <3>2 DEF Good
    <3> QED
      BY <3>1, <3>2 DEF Good
  <2>5. Waits(b, s, n)
    BY <2>1 DEF Waits
  <2>6. OptionsShow(b, s, n)
    <3>1. ASSUME NEW i \in 1..n, Done(s, i, n)
          PROVE  b.opts[s[i].name] = Val(s, i)
      <4>1. CASE i = k
        BY <2>2, <4>1
      <4>2. CASE i # k
        <5>1. i \in 1..(n - 1) /\ Done(s, i, n - 1)
          BY <3>1, <4>2
        <5>2. s[i].kind # "word" /\ s[i].name \in Known(subcmd)
          BY <1>2, <5>1 DEF Good, Done
        <5>3. s[i].name \in Named /\ s[i].name # o
          BY <2>3, <5>1, <5>2, KnownNamed
        <5> QED
          BY <1>2, <2>2, <5>1, <5>3 DEF OptionsShow
      <4> QED
        BY <4>1, <4>2
    <3>2. ASSUME NEW p \in Named,
                 \A i \in 1..n : Done(s, i, n) => s[i].name # p
          PROVE  b.opts[p] = ""
      <4>1. p # o
        BY <3>2
      <4>2. \A i \in 1..(n - 1) : Done(s, i, n - 1) => s[i].name # p
        BY <1>1, <3>2
      <4> QED
        BY <1>2, <2>2, <4>1, <4>2 DEF OptionsShow
    <3> QED
      BY <3>1, <3>2 DEF OptionsShow
  <2>7. WordsShow(b, s, n)
    <3>1. \A i : i \in 1..n /\ FreeIn(s, i) <=> i \in 1..(n - 1) /\ FreeIn(s, i)
      BY <1>1
    <3>2. WordsShow(acc, s, n - 1) <=> WordsShow(acc, s, n)
      BY <3>1, Zenon DEF WordsShow
    <3> QED
      BY <1>2, <2>1, <3>2 DEF WordsShow
  <2> QED
    BY <2>1, <2>4, <2>5, <2>6, <2>7 DEF Shows, b
<1> QED
  BY <1>4, <1>5

LEMMA ValuesAreWords ==
  ASSUME NEW s \in Seq(PlainToken), ValuesFollow(s), NEW n \in 0..Len(s),
         NEW i \in 1..n, Done(s, i, n)
  PROVE  Val(s, i) \in Words /\ Val(s, i) # ""
<1>1. i \in 1..Len(s) /\ s[i] \in PlainToken
  OBVIOUS
<1>2. CASE s[i].kind = "joined"
  BY <1>1, <1>2, PlainShape, WordsAssumption DEF Val
<1>3. CASE s[i].kind = "bare" /\ i < n
  <2>1. s[i + 1] \in PlainToken /\ i < Len(s)
    BY <1>3
  <2>2. s[i + 1].kind = "word"
    BY <1>1, <1>3, <2>1 DEF ValuesFollow
  <2> QED
    BY <1>3, <2>1, <2>2, PlainShape, WordsAssumption DEF Val
<1> QED
  BY <1>2, <1>3 DEF Done

\* The last token completes no option.
LEMMA DoneAlike ==
  ASSUME NEW s \in Seq(PlainToken), NEW n \in 1..Len(s),
         n > 1 => s[n - 1].kind # "bare", s[n].kind # "joined"
  PROVE  /\ \A i \in 1..(n - 1) : Done(s, i, n) <=> Done(s, i, n - 1)
         /\ ~Done(s, n, n)
<1>1. \A i \in 1..(n - 1) : i < n - 1 \/ (i = n - 1 /\ n > 1)
  OBVIOUS
<1>2. \A i \in 1..(n - 1) : i < n
  OBVIOUS
<1>3. ~(n < n)
  BY Places
<1> QED
  BY <1>1, <1>2, <1>3 DEF Done

LEMMA OptionsAlike ==
  ASSUME NEW s \in Seq(PlainToken), NEW n \in 1..Len(s), NEW acc, NEW b,
         n > 1 => s[n - 1].kind # "bare", s[n].kind # "joined",
         b.opts = acc.opts, OptionsShow(acc, s, n - 1), Good(s, n - 1),
         s[n].kind = "word" \/ s[n].name \in Known(subcmd)
  PROVE  OptionsShow(b, s, n) /\ Good(s, n)
<1>1. \A i : i \in 1..n /\ Done(s, i, n) <=>
               i \in 1..(n - 1) /\ Done(s, i, n - 1)
  BY Places, DoneAlike, Zenon
<1>2. OptionsShow(b, s, n)
  BY <1>1, Zenon DEF OptionsShow
<1>3. Good(s, n)
  BY <1>1, Places, Zenon DEF Good
<1> QED
  BY <1>2, <1>3

LEMMA WordsAlike ==
  ASSUME NEW s \in Seq(PlainToken), NEW n \in 1..Len(s), NEW acc, NEW b,
         b.words = acc.words, ~FreeIn(s, n), WordsShow(acc, s, n - 1)
  PROVE  WordsShow(b, s, n)
<1>1. \A i : i \in 1..n /\ FreeIn(s, i) <=> i \in 1..(n - 1) /\ FreeIn(s, i)
  BY Places, Zenon
<1>2. WordsShow(acc, s, n - 1) <=> WordsShow(acc, s, n)
  BY <1>1, Zenon DEF WordsShow
<1> QED
  BY <1>2 DEF WordsShow

LEMMA WordAdded ==
  ASSUME NEW s \in Seq(PlainToken), NEW n \in 1..Len(s), NEW acc \in Acc, NEW b,
         b.words = Append(acc.words, s[n].name), s[n].name \in Words,
         FreeIn(s, n), WordsShow(acc, s, n - 1)
  PROVE  WordsShow(b, s, n)
<1> DEFINE w == acc.words
           v == b.words
<1>1. w \in Seq(Words)
  BY DEF Acc
<1>2. v = Append(w, s[n].name)
  OBVIOUS
<1> HIDE DEF w, v
<1>3. /\ Len(w) \in Nat /\ Len(v) = Len(w) + 1 /\ v # <<>>
      /\ w # <<>> <=> Len(w) > 0
      /\ w # <<>> => v[1] = w[1]
      /\ w = <<>> => v[1] = s[n].name
  BY <1>1, <1>2
<1>4. /\ (\E i \in 1..(n - 1) : FreeIn(s, i)) => w # <<>>
      /\ w # <<>> => \E i \in 1..(n - 1) : FreeIn(s, i) /\ w[1] = s[i].name
  BY DEF WordsShow, w
<1>5. \E i \in 1..n : FreeIn(s, i) /\ v[1] = s[i].name
  BY <1>3, <1>4, Places
<1>6. Len(v) > 1 <=> \E i \in 1..(n - 1) : FreeIn(s, i)
  BY <1>3, <1>4
<1>7. \A i, j \in 1..n : i # j => i \in 1..(n - 1) \/ j \in 1..(n - 1)
  BY Places, Zenon
<1>8. \A i \in 1..(n - 1) : i # n /\ i \in 1..n
  BY Places
<1>9. (\E i \in 1..(n - 1) : FreeIn(s, i)) <=>
        \E i, j \in 1..n : i # j /\ FreeIn(s, i) /\ FreeIn(s, j)
  BY <1>7, <1>8, Places, Zenon
<1> QED
  BY <1>3, <1>5, <1>6, <1>9 DEF WordsShow, v

\* Each token keeps it so.
LEMMA TakeShows ==
  ASSUME NEW s \in Seq(PlainToken), ValuesFollow(s), NEW n \in 1..Len(s),
         NEW acc \in Acc, Shows(acc, s, n - 1)
  PROVE  Shows(Take(acc, s[n]), s, n)
<1> DEFINE t == s[n]
           b == Take(acc, t)
<1>0. n \in Nat /\ n # 0 /\ (n = 1 \/ n > 1)
  BY Places
<1>1. /\ t.kind \in {"word", "bare", "joined"}
      /\ t.kind = "word" => t.name \in Words
      /\ t.kind = "joined" => t.val \in Words
  BY Places, PlainShape
<1>2. n > 1 /\ s[n - 1].kind = "bare" => t.kind = "word"
  <2>1. n > 1 => n - 1 \in 1..Len(s) /\ n - 1 < Len(s) /\ (n - 1) + 1 = n
    OBVIOUS
  <2> QED
    BY <2>1 DEF ValuesFollow
<1>3. CASE acc.bad
  <2>1. Take(acc, t) = acc
    BY <1>3 DEF Take
  <2>2. ~Good(s, n)
    BY <1>3, BadStays, Places DEF Shows
  <2> QED
    BY <1>3, <2>1, <2>2 DEF Shows
<1> SUFFICES ASSUME ~acc.bad PROVE Shows(b, s, n)
  BY <1>3
<1>4. Good(s, n - 1) /\ Waits(acc, s, n - 1) /\ OptionsShow(acc, s, n - 1)
      /\ WordsShow(acc, s, n - 1)
  BY DEF Shows
<1>5. acc.want = IF n > 1 /\ s[n - 1].kind = "bare" THEN s[n - 1].name ELSE ""
  <2>1. n - 1 # 0 <=> n > 1
    OBVIOUS
  <2> QED
    BY <1>4, <2>1, Zenon DEF Waits
<1>6. n > 1 /\ s[n - 1].kind = "bare" =>
        s[n - 1].name \in Known(subcmd) /\ s[n - 1].name # ""
  <2>1. n > 1 => n - 1 \in 1..(n - 1)
    BY Places
  <2>2. "" \notin Known(subcmd)
    BY KnownNamed
  <2> QED
    BY <1>4, <2>1, <2>2 DEF Good
<1>7. \A i \in 1..(n - 1) : Done(s, i, n - 1) => Val(s, i) # ""
  <2>1. n - 1 \in 0..Len(s)
    OBVIOUS
  <2> QED
    BY <2>1, ValuesAreWords
<1>8. CASE t.kind = "word" /\ acc.want # ""
  <2>1. n > 1 /\ s[n - 1].kind = "bare" /\ acc.want = s[n - 1].name
    BY <1>5, <1>8
  <2>2. b = Stored(acc, acc.want, t.name)
    BY <1>8 DEF Take
  <2>3. n - 1 \in 1..n /\ (n - 1) + 1 = n /\ n - 1 < n
    BY <2>1
  <2>4. Val(s, n - 1) = t.name
    BY <2>1, <2>3 DEF Val
  <2>5. \A i \in 1..n : Done(s, i, n) <=>
          i = n - 1 \/ (i \in 1..(n - 1) /\ Done(s, i, n - 1))
    <3>1. \A i \in 1..n : i < n <=> i \in 1..(n - 1)
      OBVIOUS
    <3>2. \A i \in 1..(n - 1) : i < n - 1 <=> i # n - 1
      OBVIOUS
    <3> QED
      BY <1>8, <2>1, <2>3, <3>1, <3>2, Places DEF Done
  <2>6. ~(n - 1 \in 1..(n - 1) /\ Done(s, n - 1, n - 1))
    BY <2>1 DEF Done
  <2>7. ~FreeIn(s, n)
    BY <2>1 DEF FreeIn
  <2>8. acc.want \in Known(subcmd) /\ t.name \in Words
    BY <1>1, <1>6, <1>8, <2>1
  <2> HIDE DEF t, b
  <2>9. t.kind # "bare" /\ s[n - 1].kind # "word"
    BY <1>8, <2>1
  <2>10. Shows(Stored(acc, acc.want, t.name), s, n)
    BY <1>7, <1>8, <2>1, <2>3, <2>4, <2>5, <2>6, <2>7, <2>8, <2>9,
       StoredShows DEF t
  <2> QED
    BY <2>2, <2>10
<1>9. ASSUME acc.want = "" PROVE n > 1 => s[n - 1].kind # "bare"
  BY <1>5, <1>6, <1>9
<1>10. CASE t.kind = "word" /\ acc.want = ""
  <2>1. b = [acc EXCEPT !.words = Append(acc.words, t.name)]
    BY <1>10 DEF Take
  <2>2. /\ b.words = Append(acc.words, t.name) /\ b.opts = acc.opts
        /\ b.want = acc.want /\ b.bad = acc.bad
    BY <2>1 DEF Acc
  <2> HIDE DEF b
  <2>3. FreeIn(s, n)
    BY <1>9, <1>10, <1>0 DEF FreeIn
  <2>4. WordsShow(b, s, n)
    BY <1>1, <1>4, <1>10, <2>2, <2>3, WordAdded
  <2>5. OptionsShow(b, s, n) /\ Good(s, n)
    BY <1>4, <1>9, <1>10, <2>2, OptionsAlike
  <2>6. Waits(b, s, n)
    BY <1>10, <2>2 DEF Waits
  <2> QED
    BY <2>2, <2>4, <2>5, <2>6 DEF Shows
<1>11. ASSUME t.kind # "word" PROVE acc.want = ""
  BY <1>2, <1>5, <1>11
<1>12. ASSUME t.kind # "word" PROVE ~FreeIn(s, n)
  BY <1>12 DEF FreeIn
<1>13. CASE t.kind # "word" /\ t.name \notin Known(subcmd)
  <2>1. b = [acc EXCEPT !.bad = TRUE]
    BY <1>13 DEF Take
  <2>2. b.bad
    BY <2>1 DEF Acc
  <2>3. ~Good(s, n)
    BY <1>13, Places DEF Good
  <2> QED
    BY <2>2, <2>3 DEF Shows
<1>14. CASE t.kind = "bare" /\ t.name \in Known(subcmd)
  <2>1. b = [acc EXCEPT !.want = t.name]
    BY <1>14 DEF Take
  <2>2. /\ b.words = acc.words /\ b.opts = acc.opts
        /\ b.want = t.name /\ b.bad = acc.bad
    BY <2>1 DEF Acc
  <2> HIDE DEF b
  <2>3. WordsShow(b, s, n)
    BY <1>4, <1>12, <1>14, <2>2, WordsAlike
  <2>4. OptionsShow(b, s, n) /\ Good(s, n)
    BY <1>4, <1>9, <1>11, <1>14, <2>2, OptionsAlike
  <2>5. Waits(b, s, n)
    BY <1>14, <1>0, <2>2 DEF Waits
  <2> QED
    BY <2>2, <2>3, <2>4, <2>5 DEF Shows
<1>15. CASE t.kind = "joined" /\ t.name \in Known(subcmd)
  <2>1. b = Stored(acc, t.name, t.val)
    BY <1>15 DEF Take
  <2>2. \A i \in 1..n : Done(s, i, n) <=>
          i = n \/ (i \in 1..(n - 1) /\ Done(s, i, n - 1))
    <3>1. \A i \in 1..(n - 1) : i < n - 1 \/ (i = n - 1 /\ n > 1)
      OBVIOUS
    <3>2. \A i \in 1..(n - 1) : i < n
      OBVIOUS
    <3>3. n > 1 => s[n - 1].kind # "bare"
      BY <1>9, <1>11, <1>15
    <3>4. \A i \in 1..(n - 1) : Done(s, i, n) <=> Done(s, i, n - 1)
      BY <3>1, <3>2, <3>3 DEF Done
    <3>5. Done(s, n, n)
      BY <1>15 DEF Done
    <3> QED
      BY <3>4, <3>5, Places, Zenon
  <2>3. n \notin 1..(n - 1)
    OBVIOUS
  <2>4. Val(s, n) = t.val /\ t.val \in Words
    BY <1>1, <1>15 DEF Val
  <2>5. ~FreeIn(s, n) /\ n \in 1..n
    BY <1>12, <1>15, Places
  <2> HIDE DEF t, b
  <2>6. t.kind # "bare" /\ t.kind # "word"
    BY <1>15
  <2>7. Shows(Stored(acc, t.name, t.val), s, n)
    BY <1>7, <1>15, <2>2, <2>3, <2>4, <2>5, <2>6, StoredShows DEF t
  <2> QED
    BY <2>1, <2>7
<1> QED
  BY <1>1, <1>8, <1>10, <1>13, <1>14, <1>15

\* What the parse has made of all the tokens.
LEMMA ParsedShows ==
  ASSUME NEW s \in Seq(PlainToken), ValuesFollow(s)
  PROVE  Parsed(s) \in Acc /\ Shows(Parsed(s), s, Len(s))
<1> DEFINE N == Len(s)
<1>1. N \in Nat
  OBVIOUS
<1>2. PICK f : ParsedOf(f, s) /\ Parsed(s) = f[N]
  BY ParsedExists
<1> DEFINE S == {n \in 0..N : Shows(f[n], s, n)}
<1>3. 0 \in S
  <2>1. f[0] = Start /\ 1..0 = {} /\ 0 \in 0..N
    BY <1>1, <1>2 DEF ParsedOf
  <2>2. Good(s, 0)
    BY <2>1 DEF Good
  <2>3. /\ ~Start.bad /\ Start.want = "" /\ Start.words = <<>>
        /\ \A o \in Named : Start.opts[o] = ""
    BY DEF Start, NoOpts
  <2>4. Waits(Start, s, 0) /\ OptionsShow(Start, s, 0)
    BY <2>1, <2>3 DEF Waits, OptionsShow
  <2>5. WordsShow(Start, s, 0)
    <3>1. Len(<<>>) = 0 /\ ~(0 > 1)
      OBVIOUS
    <3> QED
      BY <2>1, <2>3, <3>1, Zenon DEF WordsShow
  <2> QED
    BY <2>1, <2>2, <2>3, <2>4, <2>5 DEF Shows
<1>4. ASSUME NEW n \in 1..N, n - 1 \in S PROVE n \in S
  <2>1. f[n - 1] \in Acc /\ f[n] = Take(f[n - 1], s[n])
    BY <1>2, <1>4 DEF ParsedOf
  <2>2. Shows(f[n], s, n)
    BY <1>4, <2>1, TakeShows
  <2> QED
    BY <1>1, <2>2
<1>5. \A n \in 1..N : n - 1 \in S => n \in S
  BY <1>4
<1> HIDE DEF S
<1>6. \A n \in 0..N : n \in S
  BY <1>1, <1>3, <1>5, UpTo, Zenon
<1>7. N \in S /\ N \in 0..N
  BY <1>1, <1>6
<1> QED
  BY <1>2, <1>7 DEF S, ParsedOf

-----------------------------------------------------------------------------
(***************************************************************************)
(* What is deferred, and the places of the line.                           *)
(***************************************************************************)

\* How many tokens the first pass takes as the sub-command.
Given == IF 1 \in Free THEN 1 ELSE 0

\* The second pass begins.
Split ==
    /\ TypeOK /\ BareThenWord
    /\ ~InfoTwice
    /\ subcmd = Said /\ subcmd \in Commands
    /\ deferred = IF 1 \in Free THEN Tail(Line) ELSE Line

LEMMA LineType == ASSUME TypeOK PROVE Line \in Seq(PlainToken)
<1>1. Line \in Seq(Token) /\ \A i \in DOMAIN Line : Plain(Line[i])
  BY OthersType DEF TypeOK, Line
<1> QED
  BY <1>1 DEF PlainToken

LEMMA FirstIsFree ==
  ASSUME TypeOK
  PROVE  1 \in Free <=> Line # <<>> /\ Line[1].kind = "word"
BY LineType DEF Free

LEMMA DeferredIs ==
  ASSUME Split
  PROVE  /\ deferred \in Seq(PlainToken)
         /\ Given \in {0, 1}
         /\ Len(Line) = Len(deferred) + Given
         /\ \A i \in 1..Len(deferred) : deferred[i] = Line[i + Given]
         /\ Given = 1 => Line[1].kind = "word"
         /\ Given = 0 /\ Line # <<>> => Line[1].kind # "word"
<1>1. Line \in Seq(PlainToken)
  BY LineType DEF Split
<1>2. 1 \in Free <=> Line # <<>> /\ Line[1].kind = "word"
  BY FirstIsFree DEF Split
<1>3. CASE 1 \in Free
  <2>1. deferred = Tail(Line) /\ Given = 1 /\ Line # <<>>
    BY <1>2, <1>3 DEF Split, Given
  <2> QED
    BY <1>1, <1>2, <1>3, <2>1
<1>4. CASE 1 \notin Free
  <2>1. deferred = Line /\ Given = 0
    BY <1>4 DEF Split, Given
  <2> QED
    BY <1>1, <1>2, <1>4, <2>1
<1> QED
  BY <1>3, <1>4

LEMMA DeferredFollows == ASSUME Split PROVE ValuesFollow(deferred)
<1> SUFFICES ASSUME NEW i \in 1..Len(deferred), deferred[i].kind = "bare",
                    i < Len(deferred)
             PROVE  deferred[i + 1].kind = "word"
  BY DEF ValuesFollow
<1>1. /\ i + Given \in 1..Len(Line) /\ i + Given < Len(Line)
      /\ i + 1 \in 1..Len(deferred) /\ (i + 1) + Given = (i + Given) + 1
  BY DeferredIs
<1>2. i + Given \in DOMAIN Line
  BY <1>1, LineType DEF Split
<1>3. Line[i + Given].kind = "bare"
  BY DeferredIs
<1>4. Line[(i + Given) + 1].kind = "word"
  BY <1>1, <1>2, <1>3 DEF Split, BareThenWord
<1> QED
  BY <1>1, <1>4, DeferredIs

LEMMA DeferredOptions ==
  ASSUME Split, NEW o
  PROVE  /\ \A i \in 1..Len(deferred) :
               i + Given \in At(o) <=>
                  deferred[i].kind # "word" /\ deferred[i].name = o
         /\ \A j \in At(o) : j \in 1..Len(Line)
                             /\ j - Given \in 1..Len(deferred)
<1>1. /\ Line \in Seq(PlainToken) /\ DOMAIN Line = 1..Len(Line)
      /\ Len(Line) \in Nat /\ Len(deferred) \in Nat
  BY LineType, DeferredIs DEF Split
<1>2. \A i \in 1..Len(deferred) : i + Given \in 1..Len(Line)
  BY DeferredIs, <1>1
<1>3. ASSUME NEW j \in At(o)
      PROVE  j \in 1..Len(Line) /\ j - Given \in 1..Len(deferred)
  <2>1. j \in 1..Len(Line) /\ Line[j].kind # "word"
    BY <1>1 DEF At
  <2>2. ~(Given = 1 /\ j = 1)
    BY <2>1, DeferredIs
  <2> QED
    BY <1>1, <2>1, <2>2, DeferredIs
<1> QED
  BY <1>1, <1>2, <1>3, DeferredIs DEF At

LEMMA DeferredWords ==
  ASSUME Split
  PROVE  /\ \A i \in 1..Len(deferred) :
               i + Given \in Rest <=> FreeIn(deferred, i)
         /\ \A j \in Rest : j \in 1..Len(Line)
                           /\ j - Given \in 1..Len(deferred)
<1>1. /\ Line \in Seq(PlainToken) /\ DOMAIN Line = 1..Len(Line)
      /\ Len(Line) \in Nat /\ Len(deferred) \in Nat
      /\ Len(Line) = Len(deferred) + Given /\ Given \in {0, 1}
  BY LineType, DeferredIs DEF Split
<1>2. ASSUME NEW j \in Rest
      PROVE  j \in 1..Len(Line) /\ j - Given \in 1..Len(deferred)
  <2>1. j \in 1..Len(Line) /\ j # 1
    BY <1>1 DEF Rest, Free
  <2> QED
    BY <1>1, <2>1
<1>3. ASSUME NEW i \in 1..Len(deferred)
      PROVE  i + Given \in Rest <=> FreeIn(deferred, i)
  <2>1. i + Given \in DOMAIN Line /\ i \in Nat /\ i >= 1
    BY <1>1
  <2>2. deferred[i] = Line[i + Given]
    BY DeferredIs
  <2>3. CASE i > 1
    <3>1. /\ i - 1 \in 1..Len(deferred) /\ (i - 1) + Given = (i + Given) - 1
          /\ i + Given # 1 /\ i # 1
      BY <1>1, <2>3
    <3>2. deferred[i - 1] = Line[(i + Given) - 1]
      BY <3>1, DeferredIs
    <3> QED
      BY <2>1, <2>2, <3>1, <3>2 DEF Rest, Free, FreeIn
  <2>4. CASE i = 1 /\ Given = 1
    <3>1. i + Given = 2 /\ (i + Given) - 1 = 1 /\ Line[1].kind = "word"
      BY <2>4, DeferredIs
    <3> QED
      BY <2>1, <2>2, <2>4, <3>1 DEF Rest, Free, FreeIn
  <2>5. CASE i = 1 /\ Given = 0
    <3>1. i + Given = 1 /\ Line # <<>>
      BY <1>1, <2>1, <2>5
    <3>2. deferred[i].kind # "word"
      BY <2>2, <3>1, DeferredIs, <2>5
    <3> QED
      BY <3>1, <3>2 DEF Rest, FreeIn
  <2> QED
    BY <1>1, <2>1, <2>3, <2>4, <2>5
<1> QED
  BY <1>2, <1>3

-----------------------------------------------------------------------------
(***************************************************************************)
(* What the second parse accepts, and what the usage allows.               *)
(***************************************************************************)

\* An option that is last wants its value.
NoneWaits == deferred # <<>> => deferred[Len(deferred)].kind # "bare"

LEMMA AllDone ==
  ASSUME Split, NoneWaits, NEW i \in 1..Len(deferred),
         deferred[i].kind # "word"
  PROVE  Done(deferred, i, Len(deferred))
<1>1. deferred[i].kind \in {"bare", "joined"}
  BY DeferredIs, PlainShape
<1>2. i < Len(deferred) \/ (i = Len(deferred) /\ deferred # <<>>)
  BY DeferredIs
<1> QED
  BY <1>1, <1>2 DEF Done, NoneWaits

LEMMA UsageIsGood ==
  ASSUME Split
  PROVE  OptionsInUsage <=> Good(deferred, Len(deferred)) /\ NoneWaits
<1> DEFINE N == Len(deferred)
<1>1. /\ N \in Nat /\ Len(Line) = N + Given /\ Given \in {0, 1}
      /\ DOMAIN Line = 1..Len(Line) /\ deferred \in Seq(PlainToken)
      /\ \A i \in 1..N : deferred[i] = Line[i + Given]
                       /\ i + Given \in DOMAIN Line
  BY DeferredIs, LineType DEF Split
<1>2. ASSUME OptionsInUsage PROVE Good(deferred, N) /\ NoneWaits
  <2>1. ASSUME NEW i \in 1..N, deferred[i].kind # "word"
        PROVE  /\ deferred[i].name \in Known(subcmd)
               /\ At(deferred[i].name) = {i + Given}
               /\ deferred[i].kind = "bare" => i + Given < Len(Line)
    BY <1>1, <1>2, <2>1 DEF OptionsInUsage, Split
  <2>2. ASSUME NEW i \in 1..N, NEW j \in 1..N, Done(deferred, i, N),
               Done(deferred, j, N), deferred[i].name = deferred[j].name
        PROVE  i = j
    <3>1. deferred[i].kind # "word" /\ deferred[j].kind # "word"
      BY <2>2 DEF Done
    <3>2. i + Given = j + Given
      BY <2>1, <2>2, <3>1
    <3> QED
      BY <1>1, <3>2
  <2>3. NoneWaits
    <3>1. deferred # <<>> => N \in 1..N
      BY <1>1
    <3>2. ~(N + Given < Len(Line))
      BY <1>1
    <3> QED
      BY <2>1, <3>1, <3>2 DEF NoneWaits
  <2> QED
    BY <2>1, <2>2, <2>3 DEF Good
<1>3. ASSUME Good(deferred, N), NoneWaits PROVE OptionsInUsage
  <2> SUFFICES ASSUME NEW i \in DOMAIN Line, Line[i].kind # "word"
               PROVE  /\ Line[i].name \in Known(Said)
                      /\ At(Line[i].name) = {i}
                      /\ Line[i].kind = "bare" => i < Len(Line)
    BY DEF OptionsInUsage, Split
  <2> DEFINE o == Line[i].name
             d == i - Given
  <2>1. i \in At(o)
    BY DEF At
  <2>2. d \in 1..N /\ d + Given = i /\ i \in Nat
    BY <1>1, <2>1, DeferredOptions
  <2>3. deferred[d] = Line[i]
    BY <1>1, <2>2
  <2>4. Done(deferred, d, N)
    BY <1>3, <2>2, <2>3, AllDone
  <2>5. ASSUME NEW j \in At(o) PROVE j = i
    <3>1. j - Given \in 1..N /\ (j - Given) + Given = j
      BY <1>1, DeferredOptions
    <3>2. /\ deferred[j - Given].kind # "word"
          /\ deferred[j - Given].name = o
      BY <3>1, DeferredOptions
    <3>3. Done(deferred, j - Given, N)
      BY <1>3, <3>1, <3>2, AllDone
    <3>4. j - Given = d
      BY <1>3, <2>2, <2>3, <2>4, <3>1, <3>2, <3>3 DEF Good
    <3> QED
      BY <1>1, <2>2, <3>1, <3>4
  <2>6. o \in Known(Said)
    BY <1>3, <2>2, <2>3 DEF Good, Split
  <2>7. Line[i].kind = "bare" => i < Len(Line)
    BY <1>1, <2>2, <2>3, <2>4 DEF Done
  <2> QED
    BY <2>1, <2>5, <2>6, <2>7
<1> QED
  BY <1>2, <1>3

LEMMA OwnIs ==
  ASSUME NEW c \in Commands
  PROVE  /\ Own(c) \subseteq Named /\ "file" \notin Own(c)
         /\ \/ Own(c) = {} /\ Cardinality(Own(c)) = 0
            \/ \E x : Own(c) = {x} /\ Cardinality(Own(c)) = 1
<1>1. Own(c) = {} \/ Own(c) = {"infile"} \/ Own(c) = {"outfile"}
  BY DEF Own, Commands
<1>2. Own(c) \subseteq Named
  BY KnownNamed DEF Known
<1> QED
  BY <1>1, <1>2, FS_EmptySet, FS_Singleton

LEMMA FinitePlaces ==
  ASSUME TypeOK
  PROVE  /\ IsFiniteSet(Rest) /\ Cardinality(Rest) \in Nat
         /\ \A o : IsFiniteSet(At(o)) /\ Cardinality(At(o)) \in Nat
<1>1. Len(Line) \in Nat /\ DOMAIN Line = 1..Len(Line)
  BY LineType
<1>2. IsFiniteSet(1..Len(Line))
  BY <1>1, FS_Interval
<1>3. Rest \in SUBSET (1..Len(Line))
  BY <1>1 DEF Rest, Free
<1>4. \A o : At(o) \in SUBSET (1..Len(Line))
  BY <1>1 DEF At
<1>5. IsFiniteSet(Rest) /\ \A o : IsFiniteSet(At(o))
  BY <1>2, <1>3, <1>4, FS_Subset
<1> QED
  BY <1>5, FS_CardinalityType

\* S has one element or none.
AtMostOne(S) == \A i, j \in S : i = j

LEMMA FewOrOne ==
  ASSUME NEW S, IsFiniteSet(S)
  PROVE  /\ Cardinality(S) \in Nat
         /\ Cardinality(S) = 0 <=> S = {}
         /\ Cardinality(S) <= 1 <=> AtMostOne(S)
<1>1. Cardinality(S) \in Nat /\ (Cardinality(S) = 0 <=> S = {})
  BY FS_CardinalityType, FS_EmptySet
<1>2. Cardinality(S) = 1 <=> \E x : S = {x}
  BY FS_Singleton
<1>3. Cardinality(S) <= 1 <=> Cardinality(S) = 0 \/ Cardinality(S) = 1
  BY <1>1
<1>4. AtMostOne(S) <=> S = {} \/ \E x : S = {x}
  BY DEF AtMostOne
<1> QED
  BY <1>1, <1>2, <1>3, <1>4

\* How often the file is given.
LEMMA FilesOfNone ==
  ASSUME TypeOK, Own(Said) = {}
  PROVE  /\ Files \in Nat
         /\ Files <= 0 <=> Rest = {}
<1>1. UNION {At(o) : o \in Own(Said)} = {}
  OBVIOUS
<1>2. Files = Cardinality(Rest)
  BY <1>1, FS_EmptySet, FinitePlaces DEF Files
<1> QED
  BY <1>2, FinitePlaces, FewOrOne

LEMMA FilesOfOne ==
  ASSUME TypeOK, NEW x, Own(Said) = {x}, AtMostOne(At(x))
  PROVE  /\ Files \in Nat
         /\ Files = 0 <=> Rest = {} /\ At(x) = {}
         /\ Files <= 1 <=> AtMostOne(Rest) /\ (Rest = {} \/ At(x) = {})
<1>1. UNION {At(o) : o \in Own(Said)} = At(x)
  OBVIOUS
<1> DEFINE r == Cardinality(Rest)
           a == Cardinality(At(x))
<1>2. Files = r + a
  BY <1>1 DEF Files
<1>3. /\ r \in Nat /\ (r = 0 <=> Rest = {})
      /\ r <= 1 <=> AtMostOne(Rest)
  BY FinitePlaces, FewOrOne
<1>4. a \in Nat /\ a <= 1 /\ (a = 0 <=> At(x) = {})
  BY FinitePlaces, FewOrOne
<1> HIDE DEF r, a
<1>5. r \in Nat /\ a \in Nat /\ a <= 1
  BY <1>3, <1>4, Zenon
<1>6. /\ r + a \in Nat
      /\ r + a = 0 <=> r = 0 /\ a = 0
      /\ r + a <= 1 <=> r <= 1 /\ (r = 0 \/ a = 0)
  BY <1>5
<1> QED
  <2>1. Files \in Nat
    BY <1>2, <1>6, Zenon
  <2>2. Files = 0 <=> Rest = {} /\ At(x) = {}
    BY <1>2, <1>3, <1>4, <1>6
  <2>3. Files <= 1 <=> r <= 1 /\ (r = 0 \/ a = 0)
    BY <1>2, <1>6
  <2>4. Files <= 1 <=> AtMostOne(Rest) /\ (Rest = {} \/ At(x) = {})
    BY <1>3, <1>4, <2>3
  <2> QED
    BY <2>1, <2>2, <2>4

-----------------------------------------------------------------------------
(***************************************************************************)
(* The second pass does what the usage says.                               *)
(***************************************************************************)

\* What is known of a parse that goes well.
LEMMA StoredValues ==
  ASSUME Split, OptionsInUsage, ~Parsed(deferred).bad, NEW o \in Named
  PROVE  /\ At(o) = {} => Parsed(deferred).opts[o] = ""
         /\ At(o) # {} => /\ Parsed(deferred).opts[o] = Value(o)
                          /\ Value(o) # ""
         /\ AtMostOne(At(o))
<1> DEFINE N == Len(deferred)
           a == Parsed(deferred)
<1>1. Good(deferred, N) /\ NoneWaits
  BY UsageIsGood
<1>2. OptionsShow(a, deferred, N)
  BY ParsedShows, DeferredIs, DeferredFollows DEF Shows
<1>3. N \in Nat /\ Given \in {0, 1} /\ Len(Line) = N + Given
  BY DeferredIs
<1>4. ASSUME At(o) = {} PROVE a.opts[o] = ""
  <2>1. \A i \in 1..N : Done(deferred, i, N) => deferred[i].name # o
    BY <1>4, DeferredOptions DEF Done
  <2> QED
    BY <1>2, <2>1 DEF OptionsShow
<1>5. ASSUME NEW j \in At(o)
      PROVE  a.opts[o] = Val(deferred, j - Given)
             /\ Val(deferred, j - Given) # ""
             /\ At(o) = {j}
             /\ Val(deferred, j - Given) = IF Line[j].kind = "bare"
                                           THEN Line[j + 1].name
                                           ELSE Line[j].val
  <2>1. j \in 1..Len(Line) /\ j - Given \in 1..N
    BY DeferredOptions
  <2>2. (j - Given) + Given = j /\ ((j - Given) + 1) + Given = j + 1
    BY <1>3, <2>1
  <2> DEFINE d == j - Given
  <2>3. deferred[d] = Line[j]
    BY <2>1, <2>2, DeferredIs
  <2>4. deferred[d].kind # "word" /\ deferred[d].name = o
    BY <2>1, <2>2, DeferredOptions
  <2>5. Done(deferred, d, N)
    BY <1>1, <2>1, <2>4, AllDone
  <2>6. a.opts[o] = Val(deferred, d)
    BY <1>2, <2>1, <2>4, <2>5 DEF OptionsShow
  <2>7. Val(deferred, d) # ""
    <3>1. N \in 0..Len(deferred)
      BY <1>3
    <3> QED
      BY <2>1, <2>5, <3>1, ValuesAreWords, DeferredIs, DeferredFollows
  <2>8. Line[j].kind = "bare" => deferred[d + 1] = Line[j + 1]
    <3>1. Line[j].kind = "bare" => d < N
      BY <2>3, <2>5 DEF Done
    <3>2. d < N => d + 1 \in 1..N
      BY <1>3, <2>1
    <3> QED
      BY <2>2, <3>1, <3>2, DeferredIs
  <2>9. At(o) = {j}
    <3>1. j \in DOMAIN Line /\ Line[j].kind # "word" /\ Line[j].name = o
      BY DEF At
    <3> QED
      BY <3>1 DEF OptionsInUsage
  <2> QED
    BY <2>3, <2>6, <2>7, <2>8, <2>9 DEF Val
<1>6. ASSUME At(o) # {} PROVE a.opts[o] = Value(o) /\ Value(o) # ""
  <2> DEFINE i == CHOOSE i \in At(o) : TRUE
  <2>1. i \in At(o)
    BY <1>6
  <2>2. Value(o) = IF Line[i].kind = "bare" THEN Line[i + 1].name
                   ELSE Line[i].val
    BY <1>6 DEF Value, ValueAt
  <2> HIDE DEF i
  <2> QED
    BY <1>5, <2>1, <2>2
<1>7. AtMostOne(At(o))
  BY <1>5 DEF AtMostOne
<1> QED
  BY <1>4, <1>6, <1>7

\* The words that are left.
LEMMA WordsLeft ==
  ASSUME Split, ~Parsed(deferred).bad
  PROVE  LET w == Parsed(deferred).words IN
         /\ w = <<>> <=> Rest = {}
         /\ Len(w) \in Nat /\ (Len(w) = 0 <=> w = <<>>)
         /\ Len(w) <= 1 <=> AtMostOne(Rest)
         /\ w # <<>> => w[1] \in Words
         /\ \A j : Rest = {j} => w[1] = Line[j].name
<1> DEFINE N == Len(deferred)
           w == Parsed(deferred).words
<1>1. w \in Seq(Words) /\ WordsShow(Parsed(deferred), deferred, N)
  BY ParsedShows, DeferredIs, DeferredFollows DEF Shows, Acc
<1>2. N \in Nat /\ Given \in {0, 1} /\ Len(Line) = N + Given
  BY DeferredIs
<1>3. /\ (\E i \in 1..N : FreeIn(deferred, i)) => w # <<>>
      /\ w # <<>> => \E i \in 1..N :
                          FreeIn(deferred, i) /\ w[1] = deferred[i].name
      /\ Len(w) > 1 <=> \E i, j \in 1..N : /\ i # j
                               /\ FreeIn(deferred, i) /\ FreeIn(deferred, j)
  BY <1>1 DEF WordsShow
<1> HIDE DEF w
<1>4. /\ Len(w) \in Nat /\ (Len(w) = 0 <=> w = <<>>)
      /\ w # <<>> => w[1] \in Words
  BY <1>1
<1>5. \A j \in Rest : /\ j - Given \in 1..N /\ j \in Nat
                     /\ (j - Given) + Given = j
                     /\ FreeIn(deferred, j - Given)
  <2>1. \A j \in Rest : /\ j - Given \in 1..N /\ j \in Nat
                       /\ (j - Given) + Given = j
    BY <1>2, DeferredWords
  <2> QED
    BY <2>1, DeferredWords
<1>6. \A i \in 1..N : FreeIn(deferred, i) => i + Given \in Rest
  BY DeferredWords
<1>7. w = <<>> <=> Rest = {}
  BY <1>3, <1>5, <1>6
<1>8. Len(w) > 1 <=> \E i, j \in Rest : i # j
  <2>1. ASSUME Len(w) > 1 PROVE \E i, j \in Rest : i # j
    <3>1. PICK i \in 1..N, j \in 1..N :
              i # j /\ FreeIn(deferred, i) /\ FreeIn(deferred, j)
      BY <1>3, <2>1
    <3>2. i + Given # j + Given
      BY <1>2, <3>1
    <3> QED
      BY <1>6, <3>1, <3>2
  <2>2. ASSUME NEW i \in Rest, NEW j \in Rest, i # j PROVE Len(w) > 1
    <3>1. i - Given # j - Given
      BY <1>2, <1>5, <2>2
    <3> QED
      BY <1>3, <1>5, <3>1
  <2> QED
    BY <2>1, <2>2
<1>9. ASSUME NEW j, Rest = {j} PROVE w[1] = Line[j].name
  <2>1. PICK i \in 1..N : FreeIn(deferred, i) /\ w[1] = deferred[i].name
    BY <1>3, <1>7, <1>9
  <2>2. i + Given = j
    BY <1>6, <1>9, <2>1
  <2> QED
    BY <2>1, <2>2, DeferredIs
<1>10. Len(w) <= 1 <=> AtMostOne(Rest)
  BY <1>4, <1>8 DEF AtMostOne
<1> QED
  BY <1>4, <1>7, <1>9, <1>10 DEF w

\* The parse goes well if and only if the usage allows the line, but for a
\* file that is missing.
LEMMA ParseAccepts ==
  ASSUME Split
  PROVE  LET p == Placed(Parsed(deferred)) IN
         /\ p \in Acc
         /\ ~p.bad /\ p.want = "" <=>
                OptionsInUsage /\ Files <= Cardinality(Own(Said))
         /\ ~p.bad /\ p.want = "" =>
                \A o \in Named :
                   p.opts[o] = IF o \in Own(Said)
                               THEN IF Files = 0 THEN "" ELSE Value(o)
                               ELSE IF At(o) # {} THEN Value(o) ELSE ""
<1> DEFINE a == Parsed(deferred)
           p == Placed(a)
           w == a.words
           N == Len(deferred)
<1>1. a \in Acc /\ Shows(a, deferred, N)
  BY ParsedShows, DeferredIs, DeferredFollows
<1>2. subcmd = Said /\ Said \in Commands /\ TypeOK
  BY DEF Split
<1>3. a.bad \in BOOLEAN /\ a.opts \in [Named -> Words \cup {""}]
  BY <1>1 DEF Acc
<1>4. w # <<>> => Len(w) \in Nat /\ Len(w) > 0 /\ w[1] \in Words
  <2>1. w \in Seq(Words)
    BY <1>1 DEF Acc
  <2> HIDE DEF w
  <2> QED
    BY <2>1
<1>5. ~a.bad /\ a.want = "" <=> OptionsInUsage
  <2>1. N # 0 <=> deferred # <<>>
    BY DeferredIs
  <2>2. ASSUME Good(deferred, N) PROVE a.want = "" <=> NoneWaits
    <3>1. a.want = IF N # 0 /\ deferred[N].kind = "bare"
                   THEN deferred[N].name ELSE ""
      BY <1>1, <2>2 DEF Shows, Waits
    <3>2. N # 0 => N \in 1..N
      BY DeferredIs
    <3>3. N # 0 /\ deferred[N].kind = "bare" => deferred[N].name # ""
      BY <2>2, <3>2, KnownNamed DEF Good
    <3> QED
      BY <2>1, <3>1, <3>3 DEF NoneWaits
  <2> QED
    BY <1>1, <2>2, UsageIsGood DEF Shows
<1>6. CASE ~OptionsInUsage
  <2>1. a.bad \/ a.want # ""
    BY <1>3, <1>5, <1>6
  <2>2. CASE w = <<>>
    <3>1. p = a
      BY <2>2 DEF Placed
    <3> QED
      BY <1>1, <1>6, <2>1, <3>1
  <2>3. CASE w # <<>> /\ (Len(w) > Cardinality(Own(subcmd)) \/ a.want # "")
    <3>1. p = [a EXCEPT !.bad = TRUE]
      BY <2>3 DEF Placed
    <3>2. p \in Acc /\ p.bad
      BY <1>1, <3>1 DEF Acc
    <3> QED
      BY <1>6, <3>2
  <2>4. CASE w # <<>> /\ ~(Len(w) > Cardinality(Own(subcmd)) \/ a.want # "")
    <3> DEFINE x == CHOOSE o \in Own(subcmd) : TRUE
    <3>1. p = Stored(a, x, w[1])
      BY <2>4 DEF Placed
    <3>2. x \in Named
      <4>1. Len(w) \in Nat /\ Len(w) > 0
        BY <1>4, <2>4
      <4>2. Own(subcmd) # {} /\ Own(subcmd) \subseteq Named
        BY <1>2, <2>4, <4>1, OwnIs
      <4> QED
        BY <4>2
    <3>3. a.bad
      BY <2>1, <2>4
    <3> HIDE DEF x
    <3>4. p \in Acc
      BY <1>1, <1>4, <2>4, <3>1, <3>2, StoredType
    <3>5. p.bad
      BY <1>1, <3>1, <3>3 DEF Stored, Acc
    <3> QED
      BY <1>6, <3>4, <3>5
  <2> QED
    BY <2>2, <2>3, <2>4
<1>7. CASE OptionsInUsage
  <2>1. ~a.bad /\ a.want = ""
    BY <1>5, <1>7
  <2>2. \A o \in Named :
          /\ At(o) = {} => a.opts[o] = ""
          /\ At(o) # {} => a.opts[o] = Value(o) /\ Value(o) # ""
          /\ AtMostOne(At(o))
    BY <1>7, <2>1, StoredValues
  <2>3. /\ w = <<>> <=> Rest = {}
        /\ Len(w) \in Nat /\ (Len(w) = 0 <=> w = <<>>)
        /\ Len(w) <= 1 <=> AtMostOne(Rest)
        /\ \A j : Rest = {j} => w[1] = Line[j].name
    BY <2>1, WordsLeft
  <2>4. CASE Own(Said) = {}
    <3>1. Files \in Nat /\ (Files <= 0 <=> Rest = {})
      BY <1>2, <2>4, FilesOfNone
    <3>2. Cardinality(Own(Said)) = 0
      BY <2>4, FS_EmptySet
    <3>3. CASE w = <<>>
      <4>1. p = a
        BY <3>3 DEF Placed
      <4>2. Files <= Cardinality(Own(Said))
        BY <2>3, <3>1, <3>2, <3>3
      <4> QED
        BY <1>1, <1>7, <2>1, <2>2, <2>4, <4>1, <4>2
    <3>4. CASE w # <<>>
      <4>1. Len(w) > Cardinality(Own(subcmd))
        BY <1>2, <2>3, <3>2, <3>4
      <4>2. p = [a EXCEPT !.bad = TRUE]
        BY <3>4, <4>1 DEF Placed
      <4>3. p \in Acc /\ p.bad
        BY <1>1, <4>2 DEF Acc
      <4>4. ~(Files <= Cardinality(Own(Said)))
        BY <2>3, <3>1, <3>2, <3>4
      <4> QED
        BY <4>3, <4>4
    <3> QED
      BY <3>3, <3>4
  <2>5. ASSUME NEW x, Own(Said) = {x}, Cardinality(Own(Said)) = 1
        PROVE  /\ p \in Acc
               /\ ~p.bad /\ p.want = "" <=> Files <= 1
               /\ ~p.bad /\ p.want = "" =>
                     \A o \in Named :
                        p.opts[o] = IF o = x
                                    THEN IF Files = 0 THEN "" ELSE Value(x)
                                    ELSE IF At(o) # {} THEN Value(o) ELSE ""
    <3>1. x \in Named
      BY <1>2, <2>5, OwnIs
    <3>2. /\ Files \in Nat
          /\ Files = 0 <=> Rest = {} /\ At(x) = {}
          /\ Files <= 1 <=> AtMostOne(Rest) /\ (Rest = {} \/ At(x) = {})
      BY <1>2, <2>2, <2>5, <3>1, FilesOfOne
    <3>3. CASE w = <<>>
      <4>1. p = a
        BY <3>3 DEF Placed
      <4>2. Rest = {}
        BY <2>3, <3>3
      <4> QED
        <5>1. Files <= 1 /\ (Files = 0 <=> At(x) = {})
          BY <3>2, <4>2 DEF AtMostOne
        <5> HIDE DEF p
        <5> QED
          BY <1>1, <2>1, <2>2, <3>1, <4>1, <5>1
    <3>4. CASE w # <<>> /\ Len(w) > 1
      <4>1. p = [a EXCEPT !.bad = TRUE]
        BY <1>2, <2>5, <3>4 DEF Placed
      <4>2. p \in Acc /\ p.bad
        BY <1>1, <4>1 DEF Acc
      <4>3. ~(Files <= 1)
        <5>1. ~(Len(w) <= 1)
          BY <2>3, <3>4
        <5> QED
          BY <2>3, <3>2, <5>1, Zenon
      <4> QED
        BY <4>2, <4>3
    <3>5. CASE w # <<>> /\ ~(Len(w) > 1)
      <4>1. p = Stored(a, x, w[1])
        <5>1. (CHOOSE o \in Own(subcmd) : TRUE) = x
          BY <1>2, <2>5
        <5>2. ~(Len(w) > Cardinality(Own(subcmd)) \/ a.want # "")
          BY <1>2, <2>1, <2>5, <3>5
        <5> QED
          BY <3>5, <5>1, <5>2 DEF Placed
      <4>2. p \in Acc
        BY <1>1, <1>4, <3>1, <3>5, <4>1, StoredType
      <4>3. PICK j : Rest = {j}
        <5>1. Len(w) <= 1
          BY <2>3, <3>5
        <5>2. Rest # {} /\ AtMostOne(Rest)
          BY <2>3, <3>5, <5>1, Zenon
        <5> QED
          BY <5>2 DEF AtMostOne
      <4>4. CASE At(x) # {}
        <5>1. p = [a EXCEPT !.bad = TRUE]
          BY <2>2, <3>1, <4>1, <4>4 DEF Stored
        <5>2. p.bad
          BY <1>1, <5>1 DEF Acc
        <5>3. ~(Files <= 1)
          BY <3>2, <4>3, <4>4, Zenon
        <5> QED
          BY <4>2, <5>2, <5>3
      <4>5. CASE At(x) = {}
        <5>1. p = [a EXCEPT !.opts[x] = w[1], !.want = ""]
          BY <2>2, <3>1, <4>1, <4>5 DEF Stored
        <5>2. /\ ~p.bad /\ p.want = "" /\ p.opts[x] = w[1]
              /\ \A o \in Named : o # x => p.opts[o] = a.opts[o]
          BY <1>1, <2>1, <3>1, <5>1 DEF Acc
        <5>3. Files <= 1 /\ Files # 0
          BY <3>2, <4>3, <4>5 DEF AtMostOne
        <5>4. Value(x) = w[1]
          <6>1. (CHOOSE i \in Rest : TRUE) = j
            BY <4>3
          <6>2. Value(x) = Line[j].name
            BY <2>5, <4>5, <6>1 DEF Value
          <6> QED
            BY <2>3, <4>3, <6>2
        <5> HIDE DEF p, w
        <5> QED
          BY <2>2, <4>2, <5>2, <5>3, <5>4
      <4> QED
        BY <4>4, <4>5
    <3> QED
      BY <3>3, <3>4, <3>5
  <2>6. ASSUME NEW x, Own(Said) = {x}, Cardinality(Own(Said)) = 1
        PROVE  /\ p \in Acc
               /\ ~p.bad /\ p.want = "" <=>
                      OptionsInUsage /\ Files <= Cardinality(Own(Said))
               /\ ~p.bad /\ p.want = "" =>
                      \A o \in Named :
                         p.opts[o] = IF o \in Own(Said)
                                     THEN IF Files = 0 THEN "" ELSE Value(o)
                                     ELSE IF At(o) # {} THEN Value(o) ELSE ""
    <3> HIDE DEF p, a, w
    <3> QED
      BY <1>7, <2>5, <2>6
  <2>7. Own(Said) = {} \/ \E x : Own(Said) = {x} /\ Cardinality(Own(Said)) = 1
    BY <1>2, OwnIs
  <2> QED
    BY <2>4, <2>6, <2>7
<1> QED
  BY <1>6, <1>7

-----------------------------------------------------------------------------
(***************************************************************************)
(* The steps of cl_handle keep the invariant.                              *)
(***************************************************************************)

\* Nothing that the usage says changes while the command line stays.
LEMMA SameLine ==
  ASSUME UNCHANGED args
  PROVE  /\ Line' = Line /\ (InfoTwice' <=> InfoTwice)
         /\ Free' = Free /\ Said' = Said /\ Rest' = Rest /\ Files' = Files
         /\ \A o : At(o)' = At(o)
         /\ \A o : Value(o)' = Value(o)
         /\ (OptionsInUsage' <=> OptionsInUsage) /\ (InUsage' <=> InUsage)
         /\ (BareThenWord' <=> BareThenWord)
<1>1. Line' = Line /\ (InfoTwice' <=> InfoTwice)
  BY DEF Line, InfoTwice
<1>2. \A o : At(o)' = At(o)
  BY <1>1 DEF At
<1>3. Free' = Free
  BY <1>1 DEF Free
<1>4. Said' = Said /\ Rest' = Rest
  BY <1>1, <1>3 DEF Said, Rest
<1>5. Files' = Files
  <2>1. \A o : At(o)' = At(o)
    BY <1>2
  <2>2. UNION {At(o)' : o \in Own(Said)} = UNION {At(o) : o \in Own(Said)}
    BY <2>1
  <2> QED
    BY <1>4, <2>2 DEF Files
<1>6. \A o : Value(o)' = Value(o)
  <2> SUFFICES ASSUME NEW o PROVE Value(o)' = Value(o)
    OBVIOUS
  <2>1. At(o)' = At(o)
    BY <1>2
  <2> QED
    BY <1>1, <1>4, <2>1 DEF Value, ValueAt
<1>7. OptionsInUsage' <=> OptionsInUsage
  BY <1>1, <1>2, <1>4 DEF OptionsInUsage
<1>8. InUsage' <=> InUsage
  BY <1>4, <1>5, <1>7 DEF InUsage
<1>9. BareThenWord' <=> BareThenWord
  BY <1>1 DEF BareThenWord
<1> QED
  BY <1>1, <1>2, <1>3, <1>4, <1>5, <1>6, <1>7, <1>8, <1>9

LEMMA InitIInv == ASSUME Init PROVE IInv
<1>1. args = <<>> /\ deferred = <<>> /\ <<>> \in Seq(Token)
  BY DEF Init
<1>2. TypeOK
  BY <1>1 DEF Init, TypeOK, NoOpts
<1>3. BareThenWord
  <2>1. DOMAIN Line = {}
    BY <1>1, OthersOfNothing DEF Line
  <2> QED
    BY <2>1 DEF BareThenWord
<1> QED
  BY <1>2, <1>3 DEF Init, IInv, NothingYet, FirstPassDone, SecondPassDone,
                    UsageAccepted, OnlyUsageAccepted

LEMMA TypeIInv ==
  ASSUME IInv, NEW t \in Token, Type(t)
  PROVE  IInv'
<1>1. args \in Seq(Token) /\ args' = Append(args, t)
  BY DEF IInv, TypeOK, Type
<1>2. TypeOK'
  <2>1. args' \in Seq(Token)
    BY <1>1
  <2> QED
    BY <2>1 DEF IInv, TypeOK, Type
<1>3. Line' = IF Plain(t) THEN Append(Line, t) ELSE Line
  <2>1. Line' = Others(Append(args, t))
    BY <1>1 DEF Line
  <2> QED
    BY <1>1, <2>1, OthersAppend DEF Line
<1>4. BareThenWord'
  <2>1. CASE ~Plain(t)
    <3>1. Line' = Line
      BY <1>3, <2>1
    <3> QED
      BY <3>1 DEF IInv, BareThenWord
  <2>2. CASE Plain(t)
    <3>1. Line' = Append(Line, t)
      BY <1>3, <2>2
    <3>2. Line \in Seq(PlainToken)
      BY LineType DEF IInv
    <3> DEFINE L == Line
    <3>3. L # <<>> /\ L[Len(L)].kind = "bare" => t.kind = "word"
      BY <2>2 DEF Type, Last, Plain
    <3>4. \A i \in DOMAIN L :
            L[i].kind = "bare" /\ i < Len(L) => L[i + 1].kind = "word"
      BY DEF IInv, BareThenWord
    <3> HIDE DEF L
    <3>5. \A i \in DOMAIN Append(L, t) :
            Append(L, t)[i].kind = "bare" /\ i < Len(Append(L, t)) =>
                Append(L, t)[i + 1].kind = "word"
      <4> SUFFICES ASSUME NEW i \in 1..(Len(L) + 1), i < Len(L) + 1,
                          Append(L, t)[i].kind = "bare"
                   PROVE  Append(L, t)[i + 1].kind = "word"
        BY <3>2 DEF L
      <4>1. i \in DOMAIN L /\ Append(L, t)[i] = L[i]
        BY <3>2 DEF L
      <4>2. CASE i < Len(L)
        <5>1. Append(L, t)[i + 1] = L[i + 1]
          BY <3>2, <4>1, <4>2 DEF L
        <5> QED
          BY <3>4, <4>1, <4>2, <5>1
      <4>3. CASE i = Len(L)
        <5>1. Append(L, t)[i + 1] = t /\ L # <<>>
          BY <3>2, <4>1, <4>3 DEF L
        <5> QED
          BY <3>3, <4>1, <4>3, <5>1
      <4>4. Len(L) \in Nat
        BY <3>2 DEF L
      <4> QED
        BY <4>2, <4>3, <4>4
    <3> QED
      BY <3>1, <3>5 DEF BareThenWord, L
  <2> QED
    BY <2>1, <2>2
<1> QED
  BY <1>2, <1>4 DEF Type, IInv, NothingYet, FirstPassDone, SecondPassDone,
                    UsageAccepted, OnlyUsageAccepted

LEMMA EnterIInv == ASSUME IInv, Enter PROVE IInv'
<1>1. TypeOK' /\ BareThenWord'
  BY SameLine DEF Enter, IInv, TypeOK
<1> QED
  BY <1>1 DEF Enter, IInv, NothingYet, FirstPassDone, SecondPassDone,
              UsageAccepted, OnlyUsageAccepted

\* A failure is right if the usage does not allow the line.
LEMMA FailIInv ==
  ASSUME IInv, Fail, UNCHANGED <<args, opts>>, ~InUsage, TypeOK'
  PROVE  IInv'
<1>1. BareThenWord' /\ ~InUsage'
  BY SameLine DEF IInv
<1> QED
  BY <1>1 DEF Fail, IInv, NothingYet, FirstPassDone, SecondPassDone,
              UsageAccepted, OnlyUsageAccepted

\* The first word is the first token, if it is what is deferred first.
LEMMA FirstPassFinds ==
  ASSUME TypeOK
  PROVE  LET words == {i \in DOMAIN Line : Line[i].kind = "word"} IN
         words # {} /\ Line[Min(words)] = Line[1] <=> 1 \in Free
<1> DEFINE words == {i \in DOMAIN Line : Line[i].kind = "word"}
<1>1. Line \in Seq(PlainToken) /\ DOMAIN Line = 1..Len(Line)
      /\ Len(Line) \in Nat
  BY LineType
<1>2. 1 \in Free <=> 1 \in words
  BY <1>1 DEF Free
<1>3. \A i \in words : i >= 1 /\ i \in Nat /\ Line[i].kind = "word"
                      /\ 1 \in DOMAIN Line
  BY <1>1
<1>4. ASSUME words # {} PROVE Min(words) \in words
  <2>1. words \in SUBSET Nat
    BY <1>3
  <2>2. \E m \in words : \A n \in words : m <= n
    BY <1>4, <2>1, Least
  <2> QED
    BY <2>2 DEF Min
<1>5. ASSUME 1 \in words PROVE Min(words) = 1
  <2>1. \E m \in words : \A n \in words : m <= n
    BY <1>3, <1>5
  <2>2. Min(words) \in words /\ \A n \in words : Min(words) <= n
    BY <2>1 DEF Min
  <2>3. Min(words) <= 1 /\ Min(words) >= 1 /\ Min(words) \in Nat
    BY <1>3, <1>5, <2>2
  <2> QED
    BY <2>3
<1>6. ASSUME words # {}, Line[Min(words)] = Line[1] PROVE 1 \in words
  <2>1. Line[1].kind = "word"
    BY <1>3, <1>4, <1>6
  <2> QED
    BY <1>3, <1>6, <2>1
<1> QED
  BY <1>2, <1>5, <1>6

LEMMA FirstPassIInv == ASSUME IInv, FirstPass PROVE IInv'
<1> DEFINE words == {i \in DOMAIN Line : Line[i].kind = "word"}
           given == words # {} /\ Line[Min(words)] = Line[1]
<1>1. TypeOK /\ given <=> TypeOK /\ 1 \in Free
  BY FirstPassFinds
<1>2. Line \in Seq(PlainToken) /\ PlainToken \subseteq Token
  BY LineType DEF IInv, PlainToken
<1>3. UNCHANGED <<args, opts>> /\ pc = "first"
  BY DEF FirstPass
<1>4. CASE InfoTwice
  <2>1. Fail /\ UNCHANGED <<info, subcmd, deferred>>
    BY <1>4 DEF FirstPass
  <2>2. TypeOK'
    BY <1>3, <2>1 DEF IInv, TypeOK, Fail
  <2>3. ~InUsage
    BY <1>4 DEF InUsage, OptionsInUsage
  <2> QED
    BY <1>3, <2>1, <2>2, <2>3, FailIInv
<1>5. CASE ~InfoTwice
  <2>1. /\ info' = {args[i].name : i \in {j \in DOMAIN args : ~Plain(args[j])}}
        /\ subcmd' = IF given THEN Line[1].name ELSE subcmd
        /\ deferred' = IF given THEN Tail(Line) ELSE Line
        /\ pc' = "second" /\ UNCHANGED error
    BY <1>5 DEF FirstPass
  <2>2. given <=> 1 \in Free
    BY <1>1 DEF IInv
  <2> HIDE DEF given
  <2>3. subcmd' = Said /\ deferred' = IF 1 \in Free THEN Tail(Line) ELSE Line
    BY <1>3, <2>1, <2>2 DEF IInv, NothingYet, Said
  <2>4. 1 \in Free => Line # <<>> /\ Line[1].kind = "word"
    BY FirstIsFree DEF IInv
  <2>5. deferred' \in Seq(Token) /\ subcmd' \in Words \cup {"open"}
    <3>1. CASE 1 \in Free
      <4>1. Line \in Seq(Token) /\ Line[1] \in PlainToken
        BY <1>2, <2>4, <3>1
      <4>2. Tail(Line) \in Seq(Token)
        BY <2>4, <3>1, <4>1
      <4>3. Line[1].name \in Words
        BY <2>4, <3>1, <4>1, PlainShape
      <4> QED
        BY <2>1, <2>2, <3>1, <4>2, <4>3
    <3>2. CASE 1 \notin Free
      <4>1. deferred' = Line /\ subcmd' = subcmd
        BY <2>1, <2>2, <3>2
      <4>2. Line \in Seq(Token)
        BY OthersType DEF IInv, TypeOK, Line
      <4> QED
        BY <4>1, <4>2 DEF IInv, TypeOK
    <3> QED
      BY <3>1, <3>2
  <2>6. info' \subseteq Info
    <3>0. args \in Seq(Token)
      BY DEF IInv, TypeOK
    <3>1. \A i \in DOMAIN args : args[i] \in Token
      BY <3>0
    <3> QED
      BY <2>1, <3>1, TokenShape DEF Plain
  <2>7. TypeOK'
    BY <1>3, <2>1, <2>5, <2>6 DEF IInv, TypeOK
  <2>8. FirstPassDone'
    <3>1. ~InfoTwice' /\ Said' = Said /\ Free' = Free /\ Line' = Line
      BY <1>3, <1>5, SameLine
    <3> QED
      BY <1>3, <2>1, <2>3, <3>1 DEF FirstPassDone, IInv, NothingYet
  <2>9. SecondPassDone'
    BY <1>3, <2>1 DEF SecondPassDone, IInv, NothingYet
  <2>10. BareThenWord'
    BY <1>3, SameLine DEF IInv
  <2> QED
    BY <2>1, <2>7, <2>8, <2>9, <2>10
       DEF IInv, NothingYet, UsageAccepted, OnlyUsageAccepted
<1> QED
  BY <1>4, <1>5

LEMMA SecondPassIInv == ASSUME IInv, SecondPass PROVE IInv'
<1> DEFINE p == Placed(Parsed(deferred))
<1>1. /\ pc = "second" /\ UNCHANGED <<args, deferred, subcmd, info>>
      /\ opts = NoOpts /\ ~error /\ subcmd = Said /\ TypeOK
  BY DEF SecondPass, IInv, FirstPassDone, SecondPassDone
<1>2. BareThenWord'
  BY <1>1, SameLine DEF IInv
<1>3. ASSUME Fail, UNCHANGED opts, ~InUsage PROVE IInv'
  <2>1. TypeOK'
    BY <1>1, <1>3 DEF TypeOK, Fail
  <2> QED
    BY <1>1, <1>3, <2>1, FailIInv
<1>4. CASE subcmd \notin Commands
  BY <1>1, <1>3, <1>4 DEF SecondPass, InUsage, OptionsInUsage
<1>5. CASE subcmd \in Commands
  <2>1. Split
    BY <1>1, <1>5 DEF Split, IInv, FirstPassDone
  <2>2. /\ p \in Acc
        /\ ~p.bad /\ p.want = "" <=>
               OptionsInUsage /\ Files <= Cardinality(Own(Said))
        /\ ~p.bad /\ p.want = "" =>
              \A o \in Named :
                  p.opts[o] = IF o \in Own(Said)
                              THEN IF Files = 0 THEN "" ELSE Value(o)
                              ELSE IF At(o) # {} THEN Value(o) ELSE ""
    BY <2>1, ParseAccepts
  <2>3. CASE p.bad \/ p.want # ""
    <3>1. Fail /\ UNCHANGED opts
      BY <1>5, <2>3 DEF SecondPass
    <3>2. ~InUsage
      <4>1. ~(OptionsInUsage /\ Files <= Cardinality(Own(Said)))
        BY <2>2, <2>3
      <4>2. Cardinality(Own(Said)) \in Nat
        BY <1>1, <1>5, OwnIs
      <4> QED
        BY <4>1, <4>2 DEF InUsage
    <3> QED
      BY <1>3, <3>1, <3>2
  <2>4. CASE ~p.bad /\ p.want = ""
    <3>1. /\ opts' = IF p.opts["file"] # "" THEN p.opts
                     ELSE [p.opts EXCEPT !["file"] = "default"]
          /\ pc' = "notify" /\ UNCHANGED error
      BY <1>5, <2>4 DEF SecondPass
    <3>2. p.opts \in [Named -> Words \cup {""}]
      BY <2>2 DEF Acc
    <3> HIDE DEF p
    <3>3. "file" \in Named /\ "file" \notin Own(Said)
      BY <1>1, <1>5, KnownNamed, OwnIs
    <3>4. opts' \in [Named -> Words \cup {"", "default"}]
      BY <3>1, <3>2
    <3>5. TypeOK'
      BY <1>1, <3>1, <3>4 DEF TypeOK
    <3>6. ASSUME NEW o \in Named
          PROVE  opts'[o] = IF o \in Own(Said) /\ Files = 0 THEN ""
                            ELSE Value(o)
      <4>1. p.opts[o] = IF o \in Own(Said)
                        THEN IF Files = 0 THEN "" ELSE Value(o)
                        ELSE IF At(o) # {} THEN Value(o) ELSE ""
        BY <2>2, <2>4
      <4>2. opts'[o] = IF o = "file" /\ p.opts["file"] = "" THEN "default"
                       ELSE p.opts[o]
        BY <3>1, <3>2, <3>3
      <4>3. At(o) = {} /\ o \notin Own(Said) =>
                Value(o) = IF o = "file" THEN "default" ELSE ""
        BY DEF Value
      <4>4. At(o) # {} /\ o \notin Own(Said) => Value(o) # ""
        <5>1. ~Parsed(deferred).bad
          <6>1. Good(deferred, Len(deferred))
            BY <2>1, <2>2, <2>4, UsageIsGood
          <6> QED
            BY <2>1, <6>1, ParsedShows, DeferredIs, DeferredFollows DEF Shows
        <5> QED
          BY <2>1, <2>2, <2>4, <5>1, StoredValues
      <4> QED
        BY <3>3, <4>1, <4>2, <4>3, <4>4
    <3>7. SecondPassDone'
      <4>1. /\ OptionsInUsage' /\ Files' = Files /\ Said' = Said
            /\ \A o : Value(o)' = Value(o)
        BY <1>1, <2>2, <2>4, SameLine
      <4> QED
        BY <2>2, <2>4, <3>1, <3>6, <4>1 DEF SecondPassDone
    <3>8. FirstPassDone'
      <4>1. Line' = Line /\ Free' = Free /\ Said' = Said
            /\ (InfoTwice' <=> InfoTwice)
        BY <1>1, SameLine
      <4> QED
        BY <1>1, <3>1, <4>1 DEF IInv, FirstPassDone
    <3> QED
      BY <1>2, <3>1, <3>5, <3>7, <3>8
         DEF IInv, NothingYet, UsageAccepted, OnlyUsageAccepted
  <2> QED
    BY <2>2, <2>3, <2>4 DEF Acc
<1> QED
  BY <1>4, <1>5

LEMMA FilesNat ==
  ASSUME TypeOK, NEW x, Own(Said) = {x}
  PROVE  Files \in Nat
<1>1. UNION {At(o) : o \in Own(Said)} = At(x)
  OBVIOUS
<1>2. Cardinality(Rest) \in Nat /\ Cardinality(At(x)) \in Nat
  BY FinitePlaces
<1> QED
  BY <1>1, <1>2 DEF Files

\* A file that is given once has a value.
LEMMA ValueOfFile ==
  ASSUME TypeOK, BareThenWord, OptionsInUsage, NEW x, Own(Said) = {x},
         Files = 1
  PROVE  Value(x) # ""
<1>1. Line \in Seq(PlainToken) /\ DOMAIN Line = 1..Len(Line)
      /\ Len(Line) \in Nat
  BY LineType
<1>2. \A i \in 1..Len(Line) : Line[i] \in PlainToken
  BY <1>1
<1>3. CASE At(x) # {}
  <2> DEFINE i == CHOOSE i \in At(x) : TRUE
  <2>1. i \in At(x)
    BY <1>3
  <2>2. Value(x) = IF Line[i].kind = "bare" THEN Line[i + 1].name
                   ELSE Line[i].val
    BY <1>3 DEF Value, ValueAt
  <2> HIDE DEF i
  <2>3. i \in DOMAIN Line /\ Line[i].kind # "word"
    BY <2>1 DEF At
  <2>4. CASE Line[i].kind = "bare"
    <3>1. i < Len(Line)
      BY <2>3, <2>4 DEF OptionsInUsage
    <3>2. Line[i + 1].kind = "word"
      BY <2>3, <2>4, <3>1 DEF BareThenWord
    <3>3. Line[i + 1] \in PlainToken
      BY <1>1, <1>2, <2>3, <3>1
    <3> QED
      BY <2>2, <2>4, <3>2, <3>3, PlainShape, WordsAssumption
  <2>5. CASE Line[i].kind = "joined"
    BY <1>1, <1>2, <2>2, <2>3, <2>5, PlainShape, WordsAssumption
  <2> QED
    BY <1>1, <1>2, <2>3, <2>4, <2>5, PlainShape
<1>4. CASE At(x) = {}
  <2>1. AtMostOne(At(x))
    BY <1>4 DEF AtMostOne
  <2>2. Rest # {}
    BY <1>4, <2>1, FilesOfOne
  <2> DEFINE i == CHOOSE i \in Rest : TRUE
  <2>3. i \in Rest
    BY <2>2
  <2>4. Value(x) = Line[i].name
    BY <1>4 DEF Value
  <2> HIDE DEF i
  <2>5. i \in DOMAIN Line /\ Line[i].kind = "word"
    BY <2>3 DEF Rest, Free
  <2> QED
    BY <1>1, <1>2, <2>4, <2>5, PlainShape, WordsAssumption
<1> QED
  BY <1>3, <1>4

LEMMA NotifyIInv == ASSUME IInv, Notify PROVE IInv'
<1>1. /\ pc = "notify" /\ UNCHANGED <<args, deferred, subcmd, info, opts>>
      /\ ~error /\ subcmd = Said /\ TypeOK
      /\ OptionsInUsage /\ Files <= Cardinality(Own(Said))
      /\ \A o \in Named :
            opts[o] = IF o \in Own(Said) /\ Files = 0 THEN "" ELSE Value(o)
  BY DEF Notify, IInv, FirstPassDone, SecondPassDone
<1>2. Said \in Commands
  BY <1>1 DEF OptionsInUsage
<1>3. Own(Said) \subseteq Named
  BY <1>2, OwnIs
<1>4. CASE \E o \in Own(Said) : opts[o] = ""
  <2>1. Fail
    BY <1>1, <1>4 DEF Notify
  <2>2. TypeOK'
    BY <1>1, <2>1 DEF TypeOK, Fail
  <2>3. ~InUsage
    <3>1. SUFFICES ASSUME InUsage, NEW o \in Own(Said), opts[o] = ""
                   PROVE  FALSE
      BY <1>4
    <3>2. Files = 1 /\ Own(Said) = {o}
      BY <1>2, <3>1, OwnIs DEF InUsage
    <3>3. Value(o) = ""
      <4>1. o \in Named /\ Files # 0
        BY <1>3, <3>2
      <4> QED
        BY <1>1, <3>1, <4>1
    <3> QED
      BY <1>1, <1>2, <3>2, <3>3, ValueOfFile DEF IInv
  <2> QED
    BY <1>1, <2>1, <2>2, <2>3, FailIInv
<1>5. CASE ~\E o \in Own(Said) : opts[o] = ""
  <2>1. pc' = "done" /\ UNCHANGED error
    BY <1>1, <1>5 DEF Notify
  <2>2. TypeOK'
    BY <1>1, <2>1 DEF TypeOK
  <2>3. InUsage
    <3>1. CASE Own(Said) = {}
      <4>1. Files \in Nat /\ Cardinality(Own(Said)) = 0
        BY <1>1, <3>1, FilesOfNone, FS_EmptySet
      <4>2. Files <= 0
        BY <1>1, <4>1
      <4>3. Files = Cardinality(Own(Said))
        BY <4>1, <4>2
      <4> QED
        BY <1>1, <4>3 DEF InUsage
    <3>2. ASSUME NEW x, Own(Said) = {x}, Cardinality(Own(Said)) = 1
          PROVE  InUsage
      <4>1. x \in Named /\ x \in Own(Said)
        BY <1>3, <3>2
      <4>2. Files # 0
        BY <1>1, <1>5, <4>1
      <4>3. Files \in Nat
        BY <1>1, <3>2, FilesNat
      <4> QED
        BY <1>1, <3>2, <4>2, <4>3 DEF InUsage
    <3> QED
      BY <1>2, <3>1, <3>2, OwnIs
  <2>4. ASSUME NEW o \in Named PROVE opts[o] = Value(o)
    BY <1>1, <1>5, <2>4
  <2>5. /\ InUsage' /\ BareThenWord' /\ Said' = Said
        /\ \A o : Value(o)' = Value(o)
    BY <1>1, <2>3, SameLine DEF IInv
  <2>6. UsageAccepted' /\ OnlyUsageAccepted'
    BY <1>1, <2>1, <2>4, <2>5 DEF UsageAccepted, OnlyUsageAccepted
  <2> QED
    BY <2>1, <2>2, <2>5, <2>6
       DEF IInv, NothingYet, FirstPassDone, SecondPassDone
<1> QED
  BY <1>4, <1>5

LEMMA MainIInv == ASSUME IInv, Main PROVE IInv'
<1>1. args' = <<>> /\ deferred' = <<>> /\ <<>> \in Seq(Token)
  BY DEF Main
<1>2. TypeOK'
  BY <1>1 DEF Main, TypeOK, NoOpts
<1>3. BareThenWord'
  <2>1. Line' = Others(<<>>)
    BY <1>1 DEF Line
  <2>2. DOMAIN Line' = {}
    BY <2>1, OthersOfNothing
  <2> QED
    BY <2>2 DEF BareThenWord
<1> QED
  BY <1>2, <1>3 DEF Main, IInv, NothingYet, FirstPassDone, SecondPassDone,
                    UsageAccepted, OnlyUsageAccepted

\* The inductive invariant holds for command lines of any length.
THEOREM Invariance == Spec => []IInv
<1>1. Init => IInv
  BY InitIInv
<1>2. IInv /\ UNCHANGED vars => IInv'
  <2> SUFFICES ASSUME IInv, UNCHANGED vars PROVE IInv'
    OBVIOUS
  <2>1. UNCHANGED <<pc, args, deferred, subcmd, info, opts, error>>
    BY DEF vars
  <2> QED
    BY <2>1, SameLine DEF IInv, TypeOK, NothingYet, FirstPassDone,
                          SecondPassDone, UsageAccepted, OnlyUsageAccepted
<1>3. IInv /\ [Next]_vars => IInv'
  BY <1>2, TypeIInv, EnterIInv, FirstPassIInv, SecondPassIInv, NotifyIInv,
     MainIInv DEF Next
<1> QED
  BY <1>1, <1>3, PTL DEF Spec

\* Every command line that the usage message allows is accepted, however long
\* it is, and each option has the value that it was given there.
THEOREM TheUsageIsAccepted == Spec => []UsageAccepted
<1>1. IInv => UsageAccepted
  BY DEF IInv
<1> QED
  BY <1>1, Invariance, PTL

\* No other command line is: what does not follow the usage message never
\* runs a sub-command.
THEOREM NothingElseIsAccepted == Spec => []OnlyUsageAccepted
<1>1. IInv => OnlyUsageAccepted
  BY DEF IInv
<1> QED
  BY <1>1, Invariance, PTL
=============================================================================
