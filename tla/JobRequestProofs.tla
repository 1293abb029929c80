-------------------------- MODULE JobRequestProofs --------------------------
(***************************************************************************)
(* Proofs about the ID of a job and the command line that asks for it, for *)
(* every set of names, values, groups and files and lines of any length.   *)
(*                                                                         *)
(* What sorting and appending compute is never established by induction    *)
(* over the sequence of names.  The loop of NewJob is the induction: the   *)
(* seeds that the first call went through are kept in a function, and the  *)
(* second call is compared with them one step after the other.             *)
(***************************************************************************)
EXTENDS JobRequest, SequenceTheorems, TLAPS

(* The arguments of NewJob, whatever the constants are. *)
AnyJobs ==
    [project : Text, group : Text, params : UNION {[S -> Text] : S \in SUBSET Text}, tar : Text]

(* Concatenation, under a name of its own so that the provers use only the *)
(* few facts about it in TextConcat.                                       *)
Cat(s, t) == s \o t

(* The names that count, and the beginning of the seed. *)
NamesOf(j) == DOMAIN Relevant(j.params)
Start(j) == Cat(j.project, j.group)

LEMMA JobFacts ==
    ASSUME NEW j \in AnyJobs
    PROVE  /\ j.project \in Text /\ j.group \in Text /\ j.tar \in Text
           /\ j.params \in [DOMAIN j.params -> Text] /\ DOMAIN j.params \subseteq Text
           /\ NamesOf(j) = {n \in DOMAIN j.params : ~Opaque(n)}
           /\ NamesOf(j) \subseteq Text
           /\ \A k \in NamesOf(j) : j.params[k] \in Text /\ Relevant(j.params)[k] = j.params[k]
<1>1. j.params \in UNION {[S -> Text] : S \in SUBSET Text}
  BY DEF AnyJobs
<1>2. PICK S \in SUBSET Text : j.params \in [S -> Text]
  BY <1>1
<1>3. NamesOf(j) = {n \in DOMAIN j.params : ~Opaque(n)}
  BY DEF NamesOf, Relevant
<1> QED
  BY <1>2, <1>3 DEF AnyJobs, Relevant

-----------------------------------------------------------------------------
(* Strings. *)

(* Of two strings at most one is less than the other. *)
LEMMA LessIsStrict ==
    ASSUME NEW s \in Text, NEW t \in Text, Less(s, t)
    PROVE  ~Less(t, s) /\ s # t
<1>1. PICK n \in 0..Len(s) : /\ n < Len(t)
                             /\ \A i \in 1..n : s[i] = t[i]
                             /\ n = Len(s) \/ s[n + 1] < t[n + 1]
  BY DEF Less
<1>2. ASSUME Less(t, s) PROVE FALSE
  <2>1. PICK m \in 0..Len(t) : /\ m < Len(s)
                               /\ \A i \in 1..m : t[i] = s[i]
                               /\ m = Len(t) \/ t[m + 1] < s[m + 1]
    BY <1>2 DEF Less
  <2>2. CASE n < m
    BY <1>1, <2>1, <2>2 DEF Text
  <2>3. CASE m < n
    BY <1>1, <2>1, <2>3 DEF Text
  <2>4. CASE n = m
    BY <1>1, <2>1, <2>4 DEF Text
  <2> QED
    BY <2>2, <2>3, <2>4 DEF Text
<1> QED
  BY <1>2

(* The algebra of concatenation that the seeds need. *)
LEMMA CatAssociates ==
    ASSUME NEW S, NEW a \in Seq(S), NEW b \in Seq(S), NEW c \in Seq(S)
    PROVE  Cat(Cat(a, b), c) = Cat(a, Cat(b, c))
  BY ConcatAssociative DEF Cat

LEMMA TextConcat ==
    /\ <<>> \in Text
    /\ \A a, b \in Text : Cat(a, b) \in Text
    /\ \A a \in Text : Cat(a, <<>>) = a /\ Cat(<<>>, a) = a
    /\ \A a, b, c \in Text : Cat(Cat(a, b), c) = Cat(a, Cat(b, c))
<1>1. <<>> \in Text /\ (\A a, b \in Text : Cat(a, b) \in Text)
  BY DEF Text, Cat
<1>2. \A a \in Text : Cat(a, <<>>) = a /\ Cat(<<>>, a) = a
  BY ConcatEmptySeq DEF Text, Cat
<1>3. \A a, b, c \in Text : Cat(Cat(a, b), c) = Cat(a, Cat(b, c))
  BY CatAssociates DEF Text
<1> QED
  BY <1>1, <1>2, <1>3

LEMMA CatOfThree ==
    ASSUME NEW a \in Text, NEW b \in Text, NEW c \in Text
    PROVE  Cat(Cat(a, b), c) = Cat(a, Cat(b, c)) /\ Cat(a, Cat(b, c)) \in Text
  BY TextConcat

LEMMA CatCancels ==
    ASSUME NEW a \in Text, NEW b \in Text, NEW c \in Text
    PROVE  /\ Cat(a, b) = Cat(a, c) => b = c
           /\ Cat(b, a) = Cat(c, a) => b = c
<1>1. Cat(a, b) = Cat(a, c) => b = c
  BY ConcatSimplifications DEF Text, Cat
<1>2. Cat(b, a) = Cat(c, a) => b = c
  BY ConcatSimplifications DEF Text, Cat
<1> QED
  BY <1>1, <1>2

LEMMA MarkIsText ==
    ASSUME NEW j \in AnyJobs, NEW d
    PROVE  /\ Mark(j.params, d) \in Text
           /\ d \in NamesOf(j) => Mark(j.params, d) = Cat(d, j.params[d])
           /\ d \notin NamesOf(j) => Mark(j.params, d) = <<>>
<1>1. d \in NamesOf(j) => Mark(j.params, d) = Cat(d, j.params[d])
  BY DEF Mark, NamesOf, Cat
<1>2. d \notin NamesOf(j) => Mark(j.params, d) = <<>>
  BY DEF Mark, NamesOf
<1> QED
  BY <1>1, <1>2, JobFacts, TextConcat

(* An ascending sequence begins with the first of its elements, and what   *)
(* follows are the others.                                                 *)
First(k, T) == k \in T /\ \A n \in T \ {k} : Less(k, n)
Ascending(s) == \A i, j \in 1..Len(s) : i < j => Less(s[i], s[j])

LEMMA FirstIsUnique ==
    ASSUME NEW T \in SUBSET Text, NEW k, NEW n, First(k, T), First(n, T)
    PROVE  k = n
  BY LessIsStrict DEF First

LEMMA HeadIsFirst ==
    ASSUME NEW s \in Seq(Text), s # <<>>, Ascending(s)
    PROVE  /\ First(Head(s), Range(s))
           /\ Tail(s) \in Seq(Text) /\ Ascending(Tail(s))
           /\ Range(Tail(s)) = Range(s) \ {Head(s)}
<1>1. /\ DOMAIN s = 1..Len(s) /\ Len(s) \in Nat /\ Len(s) >= 1 /\ Head(s) = s[1]
      /\ \A i \in 1..Len(s) : s[i] \in Text
  OBVIOUS
<1>2. /\ Tail(s) \in Seq(Text) /\ DOMAIN Tail(s) = 1..(Len(s) - 1) /\ Len(Tail(s)) = Len(s) - 1
      /\ \A i \in 1..(Len(s) - 1) : Tail(s)[i] = s[i + 1]
  BY HeadTailProperties
<1>3. \A i \in 2..Len(s) : Less(s[1], s[i]) /\ s[1] # s[i]
  BY <1>1, LessIsStrict DEF Ascending
<1>4. First(Head(s), Range(s))
  BY <1>1, <1>3 DEF First, Range
<1>5. Ascending(Tail(s))
  BY <1>1, <1>2 DEF Ascending
<1>6. ASSUME NEW x \in Range(Tail(s)) PROVE x \in Range(s) \ {Head(s)}
  <2>1. PICK i \in 1..(Len(s) - 1) : x = Tail(s)[i]
    BY <1>2, <1>6 DEF Range
  <2>2. x = s[i + 1] /\ i + 1 \in 2..Len(s)
    BY <1>1, <1>2, <2>1
  <2> QED
    BY <1>1, <1>3, <2>2 DEF Range
<1>7. ASSUME NEW x \in Range(s) \ {Head(s)} PROVE x \in Range(Tail(s))
  <2>1. PICK i \in 1..Len(s) : x = s[i] /\ i # 1
    BY <1>1, <1>7 DEF Range
  <2>2. i - 1 \in 1..(Len(s) - 1) /\ Tail(s)[i - 1] = x
    BY <1>1, <1>2, <2>1
  <2> QED
    BY <1>2, <2>2 DEF Range
<1> QED
  BY <1>2, <1>4, <1>5, <1>6, <1>7

(* Sorting distinct strings gives the same strings in ascending order. *)
LEMMA SortingIsAscending ==
    ASSUME NEW s \in Seq(Text), IsInjective(s), NEW t \in Sortings(s)
    PROVE  t \in Seq(Text) /\ Ascending(t) /\ Range(t) = Range(s)
<1>1. DOMAIN s = 1..Len(s) /\ Len(s) \in Nat /\ \A i \in DOMAIN s : s[i] \in Text
  OBVIOUS
<1>2. PICK p \in Bijection(DOMAIN s, DOMAIN s) : t = [i \in DOMAIN s |-> s[p[i]]]
  BY DEF Sortings
<1>3. /\ p \in [DOMAIN s -> DOMAIN s]
      /\ \A i, j \in DOMAIN s : p[i] = p[j] => i = j
      /\ \A i \in DOMAIN s : \E j \in DOMAIN s : p[j] = i
  BY <1>2 DEF Bijection, Injection, Surjection, IsInjective
<1>4. t \in Seq(Text) /\ Len(t) = Len(s) /\ DOMAIN t = DOMAIN s
  BY <1>1, <1>2, <1>3, IsASeq
<1>5. \A i, j \in DOMAIN s : i < j => Less(t[i], t[j]) \/ t[i] = t[j]
  BY DEF Sortings
<1>6. \A i, j \in DOMAIN s : t[i] = t[j] => i = j
  BY <1>2, <1>3 DEF IsInjective
<1>7. Ascending(t)
  BY <1>1, <1>4, <1>5, <1>6 DEF Ascending
<1>8. Range(t) = Range(s)
  BY <1>2, <1>3, <1>4 DEF Range
<1> QED
  BY <1>4, <1>7, <1>8

-----------------------------------------------------------------------------
(* What a call for job j goes through after its names are sorted, until    *)
(* the names `now' are left: T[S] is the seed when the names S were left.  *)
IsTrace(T, j, now) ==
    /\ DOMAIN T \subseteq SUBSET Text /\ T \in [DOMAIN T -> Text]
    /\ NamesOf(j) \in DOMAIN T /\ T[NamesOf(j)] = Start(j)
    /\ now \in DOMAIN T /\ \A S \in DOMAIN T : now \subseteq S
    /\ \A S \in DOMAIN T \ {now} : \E k \in NamesOf(j) :
         /\ First(k, S) /\ S \ {k} \in DOMAIN T
         /\ T[S \ {k}] = Cat(T[S], Mark(j.params, k))

LEMMA TraceBegins ==
    ASSUME NEW j \in AnyJobs
    PROVE  \E T : IsTrace(T, j, NamesOf(j)) /\ T[NamesOf(j)] = Start(j)
<1> DEFINE T == [S \in {NamesOf(j)} |-> Start(j)]
<1>1. NamesOf(j) \in SUBSET Text /\ Start(j) \in Text
  BY JobFacts, TextConcat DEF Start
<1>2. DOMAIN T = {NamesOf(j)} /\ T[NamesOf(j)] = Start(j) /\ T \in [DOMAIN T -> Text]
  BY <1>1
<1> HIDE DEF T
<1>3. IsTrace(T, j, NamesOf(j))
  BY <1>1, <1>2 DEF IsTrace
<1> QED
  BY <1>2, <1>3

(* The next name is appended. *)
LEMMA TraceGoesOn ==
    ASSUME NEW j \in AnyJobs, NEW T, NEW now \in SUBSET NamesOf(j), IsTrace(T, j, now),
           NEW k, First(k, now)
    PROVE  \E U : IsTrace(U, j, now \ {k}) /\ U[now \ {k}] = Cat(T[now], Mark(j.params, k))
<1> DEFINE next == now \ {k}
           U == [S \in DOMAIN T \cup {next} |->
                   IF S = next THEN Cat(T[now], Mark(j.params, k)) ELSE T[S]]
<1>1. k \in now /\ k \in NamesOf(j) /\ next \notin DOMAIN T /\ next # now
  BY DEF First, IsTrace
<1>2. DOMAIN U = DOMAIN T \cup {next} /\ U[next] = Cat(T[now], Mark(j.params, k))
  OBVIOUS
<1>3. \A S \in DOMAIN T : U[S] = T[S]
  BY <1>1
<1>4. DOMAIN U \subseteq SUBSET Text /\ U \in [DOMAIN U -> Text]
  <2>1. T[now] \in Text /\ Cat(T[now], Mark(j.params, k)) \in Text
    BY MarkIsText, TextConcat DEF IsTrace
  <2>2. next \in SUBSET Text
    BY JobFacts
  <2> QED
    BY <2>1, <2>2 DEF IsTrace
<1> HIDE DEF U
<1>5. NamesOf(j) \in DOMAIN U /\ U[NamesOf(j)] = Start(j)
  BY <1>2, <1>3 DEF IsTrace
<1>6. next \in DOMAIN U /\ \A S \in DOMAIN U : next \subseteq S
  BY <1>2 DEF IsTrace
<1>7. ASSUME NEW S \in DOMAIN U \ {next}
      PROVE  \E n \in NamesOf(j) : /\ First(n, S) /\ S \ {n} \in DOMAIN U
                                   /\ U[S \ {n}] = Cat(U[S], Mark(j.params, n))
  <2>1. CASE S = now
    BY <1>1, <1>2, <1>3, <2>1 DEF IsTrace
  <2>2. CASE S # now
    <3>1. S \in DOMAIN T \ {now}
      BY <1>2, <2>2
    <3>2. PICK n \in NamesOf(j) : /\ First(n, S) /\ S \ {n} \in DOMAIN T
                                  /\ T[S \ {n}] = Cat(T[S], Mark(j.params, n))
      BY <3>1 DEF IsTrace
    <3> QED
      BY <1>2, <1>3, <3>1, <3>2
  <2> QED
    BY <2>1, <2>2
<1>8. IsTrace(U, j, next)
  BY <1>4, <1>5, <1>6, <1>7 DEF IsTrace
<1> QED
  BY <1>2, <1>8

-----------------------------------------------------------------------------
(* Two jobs that may differ in project, group, files and the parameter d. *)
AgreeExcept(i, j, d) ==
    \A k \in Text \ {d} : /\ k \in NamesOf(i) <=> k \in NamesOf(j)
                          /\ k \in NamesOf(i) => i.params[k] = j.params[k]

(* A second call, for j, that has the names `now' left and the seed s, is  *)
(* compared with the trace T of the first, for i.  Before either has come  *)
(* to d they have appended the same; after it they have appended the same  *)
(* up to it and the same since.                                            *)
BeforeD(T, i, j, d, now, s) ==
    \E S \in DOMAIN T, q \in Text :
        /\ S \ {d} = now \ {d}
        /\ d \in S <=> d \in NamesOf(i)
        /\ d \in now <=> d \in NamesOf(j)
        /\ T[S] = Cat(Start(i), q) /\ s = Cat(Start(j), q)

(* The seed up to the files, with m for the parameter d. *)
Around(start, p, m, q) == Cat(start, Cat(p, Cat(m, q)))

AfterD(T, i, j, d, now, s) ==
    /\ d \notin now /\ now \in DOMAIN T
    /\ \E p, q \in Text : /\ T[now] = Around(Start(i), p, Mark(i.params, d), q)
                          /\ s = Around(Start(j), p, Mark(j.params, d), q)

LEMMA AroundFacts ==
    ASSUME NEW b \in Text, NEW p \in Text, NEW m \in Text, NEW q \in Text, NEW a \in Text
    PROVE  /\ Around(b, p, m, q) \in Text
           /\ Cat(Around(b, p, m, q), a) = Around(b, p, m, Cat(q, a))
<1>1. Around(b, p, m, q) \in Text
  BY TextConcat DEF Around
<1>2. Cat(Around(b, p, m, q), a) = Around(b, p, m, Cat(q, a))
  <2>1. Cat(m, q) \in Text /\ Cat(p, Cat(m, q)) \in Text
    BY TextConcat
  <2>2. Cat(Around(b, p, m, q), a) = Cat(b, Cat(Cat(p, Cat(m, q)), a))
    BY <2>1, TextConcat DEF Around
  <2>3. Cat(Cat(p, Cat(m, q)), a) = Cat(p, Cat(Cat(m, q), a))
    BY <2>1, TextConcat
  <2>4. Cat(Cat(m, q), a) = Cat(m, Cat(q, a))
    BY TextConcat
  <2> QED
    BY <2>2, <2>3, <2>4 DEF Around
<1> QED
  BY <1>1, <1>2

LEMMA AroundBegins ==
    ASSUME NEW b \in Text, NEW p \in Text, NEW m \in Text
    PROVE  /\ Cat(Cat(b, p), m) = Around(b, p, m, <<>>)
           /\ Cat(b, p) = Around(b, p, <<>>, <<>>)
<1>1. Cat(m, <<>>) = m /\ Cat(p, Cat(<<>>, <<>>)) = p /\ Cat(Cat(b, p), m) = Cat(b, Cat(p, m))
  BY TextConcat
<1> QED
  BY <1>1 DEF Around

(* The second call appends its next name and value. *)
LEMMA ComparisonGoesOn ==
    ASSUME NEW i \in AnyJobs, NEW j \in AnyJobs, NEW T, IsTrace(T, i, {}),
           NEW d \in Text, AgreeExcept(i, j, d),
           NEW now \in SUBSET NamesOf(j), NEW h, First(h, now), NEW s \in Text,
           BeforeD(T, i, j, d, now, s) \/ AfterD(T, i, j, d, now, s)
    PROVE  LET m == Mark(j.params, h) IN
           BeforeD(T, i, j, d, now \ {h}, Cat(s, m)) \/ AfterD(T, i, j, d, now \ {h}, Cat(s, m))
<1> DEFINE m == Mark(j.params, h)
<1>0. /\ Start(i) \in Text /\ Start(j) \in Text /\ <<>> \in Text
      /\ \A k : Mark(i.params, k) \in Text /\ Mark(j.params, k) \in Text
  BY JobFacts, MarkIsText, TextConcat DEF Start
<1>1. now \subseteq Text /\ h \in now /\ h \in NamesOf(j)
  BY JobFacts DEF First
<1>2. ASSUME h # d PROVE h \in NamesOf(i) /\ Mark(i.params, h) = m
  BY <1>1, <1>2, MarkIsText DEF AgreeExcept
<1>3. \A S \in DOMAIN T : S # {} => \E k \in NamesOf(i) :
        /\ First(k, S) /\ S \ {k} \in DOMAIN T
        /\ T[S \ {k}] = Cat(T[S], Mark(i.params, k))
  BY DEF IsTrace
<1>4. ASSUME now \in DOMAIN T
      PROVE  now \ {h} \in DOMAIN T /\ T[now \ {h}] = Cat(T[now], Mark(i.params, h))
  BY <1>1, <1>3, <1>4, FirstIsUnique
<1>5. CASE AfterD(T, i, j, d, now, s)
  <2>1. PICK p \in Text, q \in Text : /\ T[now] = Around(Start(i), p, Mark(i.params, d), q)
                                      /\ s = Around(Start(j), p, Mark(j.params, d), q)
    BY <1>5 DEF AfterD
  <2>2. d \notin now /\ h # d /\ now \in DOMAIN T
    BY <1>1, <1>5 DEF AfterD
  <2>3. /\ Cat(T[now], m) = Around(Start(i), p, Mark(i.params, d), Cat(q, m))
        /\ Cat(s, m) = Around(Start(j), p, Mark(j.params, d), Cat(q, m))
    <3>1. m \in Text /\ Mark(i.params, d) \in Text /\ Mark(j.params, d) \in Text
      BY <1>0
    <3>2. Cat(T[now], m) = Around(Start(i), p, Mark(i.params, d), Cat(q, m))
      BY <1>0, <2>1, <3>1, AroundFacts
    <3>3. Cat(s, m) = Around(Start(j), p, Mark(j.params, d), Cat(q, m))
      BY <1>0, <2>1, <3>1, AroundFacts
    <3> QED
      BY <3>2, <3>3
  <2>4. Cat(q, m) \in Text
    BY <1>0, TextConcat
  <2>5. AfterD(T, i, j, d, now \ {h}, Cat(s, m))
    BY <1>2, <1>4, <2>2, <2>3, <2>4 DEF AfterD
  <2> QED
    BY <2>5
<1>6. CASE BeforeD(T, i, j, d, now, s)
  <2>1. PICK S \in DOMAIN T, q \in Text :
          /\ S \ {d} = now \ {d}
          /\ d \in S <=> d \in NamesOf(i)
          /\ d \in now <=> d \in NamesOf(j)
          /\ T[S] = Cat(Start(i), q) /\ s = Cat(Start(j), q)
    BY <1>6 DEF BeforeD
  <2>2. Cat(s, m) = Cat(Start(j), Cat(q, m)) /\ Cat(q, m) \in Text
    <3>1. m \in Text /\ Cat(q, m) \in Text
      BY <1>0, TextConcat
    <3>2. Cat(Cat(Start(j), q), m) = Cat(Start(j), Cat(q, m))
      BY <1>0, <3>1, TextConcat
    <3> QED
      BY <2>1, <3>1, <3>2
  <2>3. CASE h = d
    <3>1. Cat(s, m) = Around(Start(j), q, Mark(j.params, d), <<>>)
      BY <1>0, <2>1, <2>3, AroundBegins
    <3>2. CASE d \in S
      <4>1. S = now
        BY <1>1, <2>1, <2>3, <3>2
      <4>2. T[now \ {h}] = Around(Start(i), q, Mark(i.params, d), <<>>)
        BY <1>0, <1>4, <2>1, <2>3, <4>1, AroundBegins
      <4> QED
        BY <1>0, <1>4, <2>3, <3>1, <4>1, <4>2 DEF AfterD
    <3>3. CASE d \notin S
      <4>1. S = now \ {h} /\ Mark(i.params, d) = <<>>
        BY <2>1, <2>3, <3>3, MarkIsText
      <4>2. T[now \ {h}] = Around(Start(i), q, Mark(i.params, d), <<>>)
        BY <1>0, <2>1, <4>1, AroundBegins
      <4> QED
        BY <1>0, <2>1, <2>3, <3>1, <4>1, <4>2 DEF AfterD
    <3> QED
      BY <3>2, <3>3
  <2>4. CASE h # d
    <3>1. h \in S /\ S \subseteq Text
      BY <1>1, <2>1, <2>4 DEF IsTrace
    <3>2. PICK k \in NamesOf(i) : /\ First(k, S) /\ S \ {k} \in DOMAIN T
                                  /\ T[S \ {k}] = Cat(T[S], Mark(i.params, k))
      BY <1>3, <3>1
    <3>3. CASE k = h
      <4>1. T[S \ {h}] = Cat(Start(i), Cat(q, m))
        BY <1>0, <1>2, <2>1, <2>4, <3>2, <3>3, TextConcat
      <4>2. /\ (S \ {h}) \ {d} = (now \ {h}) \ {d}
            /\ d \in S \ {h} <=> d \in NamesOf(i)
            /\ d \in now \ {h} <=> d \in NamesOf(j)
        BY <2>1, <2>4
      <4>3. BeforeD(T, i, j, d, now \ {h}, Cat(s, m))
        BY <2>2, <3>2, <3>3, <4>1, <4>2 DEF BeforeD
      <4> QED
        BY <4>3
    <3>4. CASE k # h
      <4>1. Less(k, h) /\ ~Less(h, k) /\ k \in S
        BY <1>1, <3>1, <3>2, <3>4, LessIsStrict DEF First
      <4>2. k = d /\ d \notin now
        BY <2>1, <3>4, <4>1 DEF First
      <4>3. S \ {k} = now /\ Mark(j.params, d) = <<>>
        BY <2>1, <4>1, <4>2, MarkIsText
      <4>4. now \in DOMAIN T /\ T[now] = Around(Start(i), q, Mark(i.params, d), <<>>)
        BY <1>0, <2>1, <3>2, <4>2, <4>3, AroundBegins
      <4>5. T[now \ {h}] = Around(Start(i), q, Mark(i.params, d), Cat(<<>>, m))
        BY <1>0, <1>2, <1>4, <2>1, <2>4, <4>4, AroundFacts
      <4>6. Cat(s, m) = Around(Start(j), q, Mark(j.params, d), Cat(<<>>, m))
        <5>1. s = Around(Start(j), q, Mark(j.params, d), <<>>)
          BY <1>0, <2>1, <4>3, AroundBegins
        <5> QED
          BY <1>0, <2>1, <5>1, AroundFacts
      <4>7. Cat(<<>>, m) \in Text
        BY <1>0, TextConcat
      <4>8. AfterD(T, i, j, d, now \ {h}, Cat(s, m))
        BY <1>4, <2>1, <4>2, <4>4, <4>5, <4>6, <4>7 DEF AfterD
      <4> QED
        BY <4>8
    <3> QED
      BY <3>3, <3>4
  <2> QED
    BY <2>3, <2>4
<1> QED
  BY <1>5, <1>6

(* When the second call has no names left, both have passed d. *)
LEMMA ComparisonEnds ==
    ASSUME NEW i \in AnyJobs, NEW j \in AnyJobs, NEW T, IsTrace(T, i, {}),
           NEW d \in Text, NEW s \in Text,
           BeforeD(T, i, j, d, {}, s) \/ AfterD(T, i, j, d, {}, s)
    PROVE  AfterD(T, i, j, d, {}, s)
<1>0. /\ Start(i) \in Text /\ Start(j) \in Text /\ <<>> \in Text
      /\ \A k : Mark(i.params, k) \in Text /\ Mark(j.params, k) \in Text
  BY JobFacts, MarkIsText, TextConcat DEF Start
<1>1. SUFFICES ASSUME BeforeD(T, i, j, d, {}, s) PROVE AfterD(T, i, j, d, {}, s)
  OBVIOUS
<1>2. PICK S \in DOMAIN T, q \in Text :
        /\ S \ {d} = {}
        /\ d \in S <=> d \in NamesOf(i)
        /\ d \notin NamesOf(j)
        /\ T[S] = Cat(Start(i), q) /\ s = Cat(Start(j), q)
  BY <1>1 DEF BeforeD
<1>3. s = Around(Start(j), q, Mark(j.params, d), <<>>)
  BY <1>0, <1>2, AroundBegins, MarkIsText
<1>4. CASE S = {}
  <2>1. Mark(i.params, d) = <<>>
    BY <1>2, <1>4, MarkIsText
  <2>2. T[{}] = Around(Start(i), q, Mark(i.params, d), <<>>)
    BY <1>0, <1>2, <1>4, <2>1, AroundBegins
  <2> QED
    BY <1>0, <1>2, <1>3, <1>4, <2>2 DEF AfterD
<1>5. CASE S # {}
  <2>1. S = {d}
    BY <1>2, <1>5
  <2>2. PICK k \in NamesOf(i) : /\ First(k, S) /\ S \ {k} \in DOMAIN T
                                /\ T[S \ {k}] = Cat(T[S], Mark(i.params, k))
    BY <1>5 DEF IsTrace
  <2>3. k = d /\ S \ {k} = {}
    BY <2>1, <2>2 DEF First
  <2>4. T[{}] = Around(Start(i), q, Mark(i.params, d), <<>>)
    <3>1. T[{}] = Cat(Cat(Start(i), q), Mark(i.params, d))
      BY <1>2, <2>2, <2>3
    <3> QED
      BY <1>0, <3>1, AroundBegins
  <2> QED
    BY <1>0, <1>3, <2>2, <2>3, <2>4 DEF AfterD
<1> QED
  BY <1>4, <1>5

-----------------------------------------------------------------------------
(* The inductive invariant of the two calls. *)
IdTypeOK ==
    /\ job \in [Calls -> AnyJobs \cup {<<>>}]
    /\ at \in [Calls -> {"new", "collect", "append", "done"}]
    /\ unseen \in [Calls -> SUBSET Text]
    /\ keys \in [Calls -> Seq(Text)]
    /\ seed \in [Calls -> Text]
    /\ \A c \in Calls : at[c] # "new" => job[c] \in AnyJobs

(* What a call has in its variable keys. *)
KeysInv ==
    \A c \in Calls :
        /\ at[c] = "new" => keys[c] = <<>>
        /\ at[c] = "collect" =>
             /\ IsInjective(keys[c])
             /\ Range(keys[c]) \cap unseen[c] = {}
             /\ Range(keys[c]) \cup {k \in unseen[c] : ~Opaque(k)} = NamesOf(job[c])
        /\ at[c] = "append" => Ascending(keys[c]) /\ Range(keys[c]) \subseteq NamesOf(job[c])

(* The first call has its trace; the second has begun only after it.       *)
FirstInv ==
    /\ at[2] # "new" => at[1] = "done"
    /\ at[1] = "append" =>
         \E T : IsTrace(T, job[1], Range(keys[1])) /\ seed[1] = T[Range(keys[1])]

(* The second call keeps step with the trace of the first. *)
Compared(T, d) ==
    \/ BeforeD(T, job[1], job[2], d, Range(keys[2]), seed[2])
    \/ AfterD(T, job[1], job[2], d, Range(keys[2]), seed[2])

SecondInv ==
    at[1] = "done" =>
      \E T : /\ IsTrace(T, job[1], {}) /\ seed[1] = Cat(T[{}], job[1].tar)
             /\ at[2] = "append" =>
                  \A d \in Text : AgreeExcept(job[1], job[2], d) => Compared(T, d)

(* The seeds of the two calls, around a parameter d. *)
SeedOf(c, p, d, q) ==
    Cat(Around(Start(job[c]), p, Mark(job[c].params, d), q), job[c].tar)

SeedsInv ==
    Done => \A d \in Text : AgreeExcept(job[1], job[2], d) =>
              \E p, q \in Text : seed[1] = SeedOf(1, p, d, q) /\ seed[2] = SeedOf(2, p, d, q)

IdInv == IdTypeOK /\ KeysInv /\ FirstInv /\ SecondInv /\ SeedsInv

LEMMA IdInvInit == IdInit => IdInv
<1> SUFFICES ASSUME IdInit PROVE IdInv
  OBVIOUS
<1>1. IdTypeOK
  BY TextConcat DEF IdInit, IdTypeOK, Text
<1> QED
  BY <1>1 DEF IdInit, IdInv, KeysInv, FirstInv, SecondInv, SeedsInv, Done, Calls

LEMMA IdInvStutter == IdInv /\ UNCHANGED idVars => IdInv'
<1> SUFFICES ASSUME IdInv, UNCHANGED idVars PROVE IdInv'
  OBVIOUS
<1> QED
  BY DEF IdInv, idVars, IdTypeOK, KeysInv, FirstInv, SecondInv, Compared, SeedsInv, SeedOf, Done

LEMMA EmptyRange == Range(<<>>) = {} /\ IsInjective(<<>>) /\ <<>> \in Seq(Text)
  BY DEF Range, IsInjective

(* Nothing is claimed of the second call as long as the first has not ended. *)
LEMMA IdInvNewJob ==
    ASSUME IdInv, NEW c \in Calls, NEW j \in AnyJobs, NewJob(c, j)
    PROVE  IdInv'
<1> USE DEF Calls
<1>1. /\ at[c] = "new" /\ at' = [at EXCEPT ![c] = "collect"] /\ job' = [job EXCEPT ![c] = j]
      /\ unseen' = [unseen EXCEPT ![c] = DOMAIN j.params] /\ keys' = keys /\ seed' = seed
      /\ c = 1 \/ at[1] = "done"
  BY DEF NewJob, Turn
<1>2. IdTypeOK /\ KeysInv /\ FirstInv /\ SecondInv
  BY DEF IdInv
<1>3. /\ at'[c] = "collect" /\ job'[c] = j /\ unseen'[c] = DOMAIN j.params
      /\ \A e \in Calls \ {c} : at'[e] = at[e] /\ job'[e] = job[e] /\ unseen'[e] = unseen[e]
  BY <1>1, <1>2 DEF IdTypeOK
<1>4. IdTypeOK'
  BY <1>1, <1>2, <1>3, JobFacts DEF IdTypeOK
<1>5. KeysInv'
  <2>1. keys[c] = <<>>
    BY <1>1, <1>2 DEF KeysInv
  <2>2. NamesOf(j) = {k \in DOMAIN j.params : ~Opaque(k)}
    BY JobFacts
  <2> QED
    BY <1>1, <1>2, <1>3, <2>1, <2>2, EmptyRange DEF KeysInv
<1>6. FirstInv'
  BY <1>1, <1>2, <1>3 DEF FirstInv
<1>7. SecondInv'
  BY <1>1, <1>2, <1>3 DEF SecondInv
<1>8. SeedsInv'
  BY <1>3 DEF SeedsInv, Done
<1> QED
  BY <1>4, <1>5, <1>6, <1>7, <1>8 DEF IdInv

LEMMA IdInvCollect ==
    ASSUME IdInv, NEW c \in Calls, Collect(c)
    PROVE  IdInv'
<1> USE DEF Calls
<1>1. IdTypeOK /\ KeysInv /\ FirstInv /\ SecondInv
  BY DEF IdInv
<1>2. PICK k \in unseen[c] :
        /\ unseen' = [unseen EXCEPT ![c] = @ \ {k}]
        /\ keys' = IF Opaque(k) THEN keys ELSE [keys EXCEPT ![c] = Append(@, k)]
  BY DEF Collect
<1>3. at[c] = "collect" /\ job' = job /\ at' = at /\ seed' = seed /\ k \in Text
  BY <1>1, <1>2 DEF Collect, IdTypeOK
<1>4. /\ unseen'[c] = unseen[c] \ {k}
      /\ keys'[c] = IF Opaque(k) THEN keys[c] ELSE Append(keys[c], k)
      /\ \A e \in Calls \ {c} : unseen'[e] = unseen[e] /\ keys'[e] = keys[e]
      /\ keys[c] \in Seq(Text) /\ Append(keys[c], k) \in Seq(Text)
  BY <1>1, <1>2, <1>3 DEF IdTypeOK
<1>5. IdTypeOK'
  BY <1>1, <1>2, <1>3, <1>4 DEF IdTypeOK
<1>6. KeysInv'
  <2>1. /\ IsInjective(keys[c])
        /\ Range(keys[c]) \cap unseen[c] = {}
        /\ Range(keys[c]) \cup {n \in unseen[c] : ~Opaque(n)} = NamesOf(job[c])
    BY <1>1, <1>3 DEF KeysInv
  <2>2. CASE Opaque(k)
    BY <1>1, <1>3, <1>4, <2>1, <2>2 DEF KeysInv
  <2>3. CASE ~Opaque(k)
    <3> DEFINE s == keys[c]
               t == Append(keys[c], k)
    <3>1. /\ DOMAIN s = 1..Len(s) /\ DOMAIN t = 1..(Len(s) + 1) /\ Len(s) \in Nat
          /\ \A i \in 1..Len(s) : t[i] = s[i]
          /\ t[Len(s) + 1] = k
      BY <1>3, <1>4, AppendProperties
    <3> HIDE DEF s, t
    <3>2. Range(t) = Range(s) \cup {k}
      BY <3>1 DEF Range
    <3>3. k \notin Range(s) /\ IsInjective(s)
      BY <1>2, <2>1 DEF s
    <3>4. IsInjective(t)
      BY <3>1, <3>3 DEF IsInjective, Range
    <3>5. keys'[c] = t
      BY <1>4, <2>3 DEF t
    <3>6. /\ Range(t) \cap unseen'[c] = {}
          /\ Range(t) \cup {n \in unseen'[c] : ~Opaque(n)} = NamesOf(job[c])
      BY <1>2, <1>4, <2>1, <2>3, <3>2 DEF s
    <3> QED
      BY <1>1, <1>3, <1>4, <3>4, <3>5, <3>6 DEF KeysInv
  <2> QED
    BY <2>2, <2>3
<1>7. FirstInv' /\ SeedsInv'
  BY <1>1, <1>3 DEF FirstInv, SeedsInv, Done
<1>8. SecondInv'
  BY <1>1, <1>3 DEF FirstInv, SecondInv
<1> QED
  BY <1>5, <1>6, <1>7, <1>8 DEF IdInv

LEMMA IdInvSortKeys ==
    ASSUME IdInv, NEW c \in Calls, SortKeys(c)
    PROVE  IdInv'
<1> USE DEF Calls
<1>1. IdTypeOK /\ KeysInv /\ FirstInv /\ SecondInv
  BY DEF IdInv
<1>2. PICK sorted \in Sortings(keys[c]) : keys' = [keys EXCEPT ![c] = sorted]
  BY DEF SortKeys
<1>3. /\ at[c] = "collect" /\ unseen[c] = {} /\ job' = job /\ unseen' = unseen
      /\ seed' = [seed EXCEPT ![c] = job[c].project \o job[c].group]
      /\ at' = [at EXCEPT ![c] = "append"]
      /\ c = 1 \/ at[1] = "done"
  BY DEF SortKeys, Turn
<1>4. /\ job[c] \in AnyJobs /\ keys[c] \in Seq(Text)
      /\ IsInjective(keys[c]) /\ Range(keys[c]) = NamesOf(job[c])
  BY <1>1, <1>3 DEF IdTypeOK, KeysInv
<1>5. sorted \in Seq(Text) /\ Ascending(sorted) /\ Range(sorted) = NamesOf(job[c])
  BY <1>4, SortingIsAscending
<1>6. job[c].project \o job[c].group = Start(job[c]) /\ Start(job[c]) \in Text
  BY <1>4, JobFacts, TextConcat DEF Start, Cat
<1>7. /\ keys'[c] = sorted /\ seed'[c] = Start(job[c]) /\ at'[c] = "append"
      /\ \A e \in Calls \ {c} : keys'[e] = keys[e] /\ seed'[e] = seed[e] /\ at'[e] = at[e]
  BY <1>1, <1>2, <1>3, <1>6 DEF IdTypeOK
<1>8. IdTypeOK'
  <2>1. keys' \in [Calls -> Seq(Text)]
    BY <1>1, <1>2, <1>5 DEF IdTypeOK
  <2>2. seed' \in [Calls -> Text]
    BY <1>1, <1>3, <1>6 DEF IdTypeOK
  <2>3. at' \in [Calls -> {"new", "collect", "append", "done"}]
    BY <1>1, <1>3 DEF IdTypeOK
  <2>4. \A e \in Calls : at'[e] # "new" => job'[e] \in AnyJobs
    BY <1>1, <1>3, <1>4, <1>7 DEF IdTypeOK
  <2> QED
    BY <1>1, <1>3, <2>1, <2>2, <2>3, <2>4 DEF IdTypeOK
<1>9. KeysInv'
  BY <1>1, <1>3, <1>5, <1>7 DEF KeysInv
<1>10. SeedsInv'
  BY <1>7 DEF SeedsInv, Done
<1>11. CASE c = 1
  <2>1. at[2] = "new" /\ at'[2] = "new" /\ at'[1] = "append"
    BY <1>1, <1>3, <1>7, <1>11 DEF FirstInv, IdTypeOK
  <2>2. FirstInv'
    BY <1>3, <1>4, <1>5, <1>7, <1>11, <2>1, TraceBegins DEF FirstInv
  <2>3. SecondInv'
    BY <2>1 DEF SecondInv
  <2> QED
    BY <1>8, <1>9, <1>10, <2>2, <2>3 DEF IdInv
<1>12. CASE c = 2
  <2>1. at[1] = "done" /\ at'[1] = "done" /\ at'[2] = "append" /\ seed'[1] = seed[1]
    BY <1>3, <1>7, <1>12
  <2>2. FirstInv'
    BY <2>1 DEF FirstInv
  <2>3. PICK T : IsTrace(T, job[1], {}) /\ seed[1] = Cat(T[{}], job[1].tar)
    BY <1>1, <2>1 DEF SecondInv
  <2>4. job[1] \in AnyJobs
    BY <1>1, <2>1 DEF IdTypeOK
  <2>5. ASSUME NEW d \in Text, AgreeExcept(job[1], job[2], d)
        PROVE  BeforeD(T, job[1], job[2], d, NamesOf(job[2]), Start(job[2]))
    <3>1. NamesOf(job[1]) \in DOMAIN T /\ T[NamesOf(job[1])] = Start(job[1])
      BY <2>3 DEF IsTrace
    <3>2. NamesOf(job[1]) \ {d} = NamesOf(job[2]) \ {d}
      BY <1>4, <1>12, <2>4, <2>5, JobFacts DEF AgreeExcept
    <3>3. /\ Start(job[1]) = Cat(Start(job[1]), <<>>) /\ <<>> \in Text
          /\ Start(job[2]) = Cat(Start(job[2]), <<>>)
      BY <1>4, <1>12, <2>4, JobFacts, TextConcat DEF Start
    <3> QED
      BY <3>1, <3>2, <3>3 DEF BeforeD
  <2>6. SecondInv'
    <3>1. Range(keys'[2]) = NamesOf(job[2]) /\ seed'[2] = Start(job[2])
      BY <1>5, <1>7, <1>12
    <3>2. \A d \in Text : AgreeExcept(job[1], job[2], d) => Compared(T, d)'
      BY <1>3, <2>5, <3>1 DEF Compared
    <3> QED
      BY <1>3, <2>1, <2>3, <3>2 DEF SecondInv
  <2> QED
    BY <1>8, <1>9, <1>10, <2>2, <2>6 DEF IdInv
<1> QED
  BY <1>11, <1>12

LEMMA IdInvAppendParam ==
    ASSUME IdInv, NEW c \in Calls, AppendParam(c)
    PROVE  IdInv'
<1> USE DEF Calls
<1> DEFINE h == Head(keys[c])
           m == Mark(job[c].params, h)
<1>1. IdTypeOK /\ KeysInv /\ FirstInv /\ SecondInv
  BY DEF IdInv
<1>2. /\ at[c] = "append" /\ keys[c] # <<>> /\ job' = job /\ at' = at /\ unseen' = unseen
      /\ seed' = [seed EXCEPT ![c] = @ \o h \o job[c].params[h]]
      /\ keys' = [keys EXCEPT ![c] = Tail(@)]
      /\ c = 1 \/ at[1] = "done"
  BY DEF AppendParam, Turn
<1>3. /\ job[c] \in AnyJobs /\ keys[c] \in Seq(Text) /\ seed[c] \in Text
      /\ Ascending(keys[c]) /\ Range(keys[c]) \subseteq NamesOf(job[c])
  BY <1>1, <1>2 DEF IdTypeOK, KeysInv
<1>4. /\ First(h, Range(keys[c])) /\ h \in NamesOf(job[c])
      /\ Tail(keys[c]) \in Seq(Text) /\ Ascending(Tail(keys[c]))
      /\ Range(Tail(keys[c])) = Range(keys[c]) \ {h}
  BY <1>2, <1>3, HeadIsFirst DEF First
<1> HIDE DEF h
<1>5. seed[c] \o h \o job[c].params[h] = Cat(seed[c], m) /\ Cat(seed[c], m) \in Text
  <2>1. h \in Text /\ job[c].params[h] \in Text /\ m = Cat(h, job[c].params[h])
    BY <1>3, <1>4, JobFacts, MarkIsText
  <2>2. /\ Cat(Cat(seed[c], h), job[c].params[h]) = Cat(seed[c], Cat(h, job[c].params[h]))
        /\ Cat(seed[c], Cat(h, job[c].params[h])) \in Text
    BY <1>3, <2>1, CatOfThree, Zenon
  <2>3. seed[c] \o h \o job[c].params[h] = Cat(Cat(seed[c], h), job[c].params[h])
    BY DEF Cat
  <2> QED
    BY <2>1, <2>2, <2>3
<1> HIDE DEF m
<1>6. /\ keys'[c] = Tail(keys[c]) /\ seed'[c] = Cat(seed[c], m)
      /\ \A e \in Calls \ {c} : keys'[e] = keys[e] /\ seed'[e] = seed[e]
  BY <1>1, <1>2, <1>5 DEF IdTypeOK
<1>7. IdTypeOK'
  <2>1. keys' \in [Calls -> Seq(Text)]
    BY <1>1, <1>2, <1>4 DEF IdTypeOK
  <2>2. seed' \in [Calls -> Text]
    BY <1>1, <1>2, <1>5 DEF IdTypeOK
  <2> QED
    BY <1>1, <1>2, <2>1, <2>2 DEF IdTypeOK
<1>8. KeysInv'
  BY <1>1, <1>2, <1>3, <1>4, <1>6 DEF KeysInv
<1>9. SeedsInv'
  BY <1>2 DEF SeedsInv, Done
<1>10. CASE c = 1
  <2>1. at[2] = "new"
    BY <1>1, <1>2, <1>10 DEF FirstInv, IdTypeOK
  <2>2. PICK T : IsTrace(T, job[1], Range(keys[1])) /\ seed[1] = T[Range(keys[1])]
    BY <1>1, <1>2, <1>10 DEF FirstInv
  <2>3. \E U : /\ IsTrace(U, job[1], Range(keys[1]) \ {h})
               /\ U[Range(keys[1]) \ {h}] = Cat(T[Range(keys[1])], m)
    <3>1. /\ job[1] \in AnyJobs /\ Range(keys[1]) \in SUBSET NamesOf(job[1])
          /\ First(h, Range(keys[1]))
      BY <1>3, <1>4, <1>10
    <3>2. \E U : /\ IsTrace(U, job[1], Range(keys[1]) \ {h})
                 /\ U[Range(keys[1]) \ {h}] = Cat(T[Range(keys[1])], Mark(job[1].params, h))
      <4> DEFINE i == job[1]
                 now == Range(keys[1])
      <4>1. i \in AnyJobs /\ now \in SUBSET NamesOf(i) /\ IsTrace(T, i, now) /\ First(h, now)
        BY <2>2, <3>1
      <4> HIDE DEF i, now
      <4>2. \E U : IsTrace(U, i, now \ {h}) /\ U[now \ {h}] = Cat(T[now], Mark(i.params, h))
        BY <4>1, TraceGoesOn
      <4> QED
        BY <4>2 DEF i, now
    <3> QED
      BY <1>10, <3>2 DEF m
  <2>4. FirstInv'
    <3>1. Range(keys'[1]) = Range(keys[1]) \ {h} /\ seed'[1] = Cat(T[Range(keys[1])], m)
      BY <1>4, <1>6, <1>10, <2>2
    <3>2. \E U : IsTrace(U, job[1], Range(keys'[1])) /\ seed'[1] = U[Range(keys'[1])]
      BY <2>3, <3>1, Zenon
    <3> QED
      BY <1>2, <2>1, <3>2 DEF FirstInv
  <2>5. SecondInv'
    BY <1>2, <1>10 DEF SecondInv
  <2> QED
    BY <1>7, <1>8, <1>9, <2>4, <2>5 DEF IdInv
<1>11. CASE c = 2
  <2>1. at[1] = "done" /\ job[1] \in AnyJobs /\ seed'[1] = seed[1]
    BY <1>1, <1>2, <1>6, <1>11 DEF IdTypeOK
  <2>2. FirstInv'
    BY <1>2, <2>1 DEF FirstInv
  <2>3. PICK T : /\ IsTrace(T, job[1], {}) /\ seed[1] = Cat(T[{}], job[1].tar)
                 /\ \A d \in Text : AgreeExcept(job[1], job[2], d) => Compared(T, d)
    BY <1>1, <1>2, <1>11, <2>1 DEF SecondInv
  <2>4. ASSUME NEW d \in Text, AgreeExcept(job[1], job[2], d)
        PROVE  Compared(T, d)'
    <3>1. Compared(T, d)
      BY <2>3, <2>4
    <3>2. \/ BeforeD(T, job[1], job[2], d, Range(keys[2]) \ {h}, Cat(seed[2], m))
          \/ AfterD(T, job[1], job[2], d, Range(keys[2]) \ {h}, Cat(seed[2], m))
      <4>1. /\ job[2] \in AnyJobs /\ Range(keys[2]) \in SUBSET NamesOf(job[2])
            /\ First(h, Range(keys[2])) /\ seed[2] \in Text /\ m = Mark(job[2].params, h)
        BY <1>3, <1>4, <1>11 DEF m
      <4>2. \/ BeforeD(T, job[1], job[2], d, Range(keys[2]), seed[2])
            \/ AfterD(T, job[1], job[2], d, Range(keys[2]), seed[2])
        BY <3>1 DEF Compared
      <4> QED
        BY <2>1, <2>3, <2>4, <4>1, <4>2, ComparisonGoesOn
    <3> QED
      <4>1. Range(keys'[2]) = Range(keys[2]) \ {h} /\ seed'[2] = Cat(seed[2], m) /\ job' = job
        BY <1>2, <1>4, <1>6, <1>11
      <4> QED
        BY <3>2, <4>1 DEF Compared
  <2>5. SecondInv'
    BY <1>2, <2>1, <2>3, <2>4 DEF SecondInv
  <2> QED
    BY <1>7, <1>8, <1>9, <2>2, <2>5 DEF IdInv
<1> QED
  BY <1>10, <1>11

LEMMA IdInvAppendTar ==
    ASSUME IdInv, NEW c \in Calls, AppendTar(c)
    PROVE  IdInv'
<1> USE DEF Calls
<1>1. IdTypeOK /\ KeysInv /\ FirstInv /\ SecondInv
  BY DEF IdInv
<1>2. /\ at[c] = "append" /\ keys[c] = <<>> /\ job' = job /\ keys' = keys /\ unseen' = unseen
      /\ seed' = [seed EXCEPT ![c] = @ \o job[c].tar]
      /\ at' = [at EXCEPT ![c] = "done"]
      /\ c = 1 \/ at[1] = "done"
  BY DEF AppendTar, Turn
<1>3. job[c] \in AnyJobs /\ seed[c] \in Text /\ Range(keys[c]) = {}
  BY <1>1, <1>2, EmptyRange DEF IdTypeOK
<1>4. seed[c] \o job[c].tar = Cat(seed[c], job[c].tar) /\ Cat(seed[c], job[c].tar) \in Text
  BY <1>3, JobFacts, TextConcat DEF Cat
<1>5. /\ seed'[c] = Cat(seed[c], job[c].tar) /\ at'[c] = "done"
      /\ \A e \in Calls \ {c} : at'[e] = at[e] /\ seed'[e] = seed[e]
  BY <1>1, <1>2, <1>4 DEF IdTypeOK
<1>6. IdTypeOK'
  <2>1. seed' \in [Calls -> Text]
    BY <1>1, <1>2, <1>4 DEF IdTypeOK
  <2>2. at' \in [Calls -> {"new", "collect", "append", "done"}]
    BY <1>1, <1>2 DEF IdTypeOK
  <2>3. \A e \in Calls : at'[e] # "new" => job'[e] \in AnyJobs
    BY <1>1, <1>2, <1>3, <1>5 DEF IdTypeOK
  <2> QED
    BY <1>1, <1>2, <2>1, <2>2, <2>3 DEF IdTypeOK
<1>7. KeysInv'
  BY <1>1, <1>2, <1>5 DEF KeysInv
<1>8. CASE c = 1
  <2>1. at[2] = "new" /\ at'[2] = "new"
    BY <1>1, <1>2, <1>5, <1>8 DEF FirstInv, IdTypeOK
  <2>2. PICK T : IsTrace(T, job[1], {}) /\ seed[1] = T[{}]
    BY <1>1, <1>2, <1>3, <1>8 DEF FirstInv
  <2>3. FirstInv' /\ SeedsInv'
    BY <1>5, <1>8, <2>1 DEF FirstInv, SeedsInv, Done
  <2>4. SecondInv'
    BY <1>2, <1>5, <1>8, <2>1, <2>2 DEF SecondInv
  <2> QED
    BY <1>6, <1>7, <2>3, <2>4 DEF IdInv
<1>9. CASE c = 2
  <2>1. at[1] = "done" /\ at'[1] = "done" /\ job[1] \in AnyJobs /\ seed'[1] = seed[1]
    BY <1>1, <1>2, <1>5, <1>9 DEF IdTypeOK
  <2>2. FirstInv'
    BY <2>1 DEF FirstInv
  <2>3. PICK T : /\ IsTrace(T, job[1], {}) /\ seed[1] = Cat(T[{}], job[1].tar)
                 /\ \A d \in Text : AgreeExcept(job[1], job[2], d) => Compared(T, d)
    BY <1>1, <1>2, <1>9, <2>1 DEF SecondInv
  <2>4. SecondInv'
    BY <1>2, <1>5, <1>9, <2>1, <2>3 DEF SecondInv
  <2>5. ASSUME NEW d \in Text, AgreeExcept(job[1], job[2], d)
        PROVE  \E p, q \in Text : /\ seed[1] = SeedOf(1, p, d, q)
                                  /\ seed'[2] = SeedOf(2, p, d, q)
    <3>1. \/ BeforeD(T, job[1], job[2], d, {}, seed[2])
          \/ AfterD(T, job[1], job[2], d, {}, seed[2])
      BY <1>3, <1>9, <2>3, <2>5 DEF Compared
    <3>2. AfterD(T, job[1], job[2], d, {}, seed[2])
      BY <1>3, <1>9, <2>1, <2>3, <3>1, ComparisonEnds
    <3>3. PICK p \in Text, q \in Text :
            /\ T[{}] = Around(Start(job[1]), p, Mark(job[1].params, d), q)
            /\ seed[2] = Around(Start(job[2]), p, Mark(job[2].params, d), q)
      BY <3>2 DEF AfterD
    <3> QED
      BY <1>5, <1>9, <2>3, <3>3 DEF SeedOf
  <2>6. SeedsInv'
    BY <1>2, <2>1, <2>5 DEF SeedsInv, SeedOf
  <2> QED
    BY <1>6, <1>7, <2>2, <2>4, <2>6 DEF IdInv
<1> QED
  BY <1>8, <1>9

LEMMA IdInvStep ==
    ASSUME IdInv, NEW c \in Calls, NewJobStep(c)
    PROVE  IdInv'
  BY IdInvCollect, IdInvSortKeys, IdInvAppendParam, IdInvAppendTar DEF NewJobStep

-----------------------------------------------------------------------------
(* What the seeds of two finished calls say about each other. *)

LEMMA MarkCancels ==
    ASSUME NEW b \in Text, NEW p \in Text, NEW m \in Text, NEW n \in Text, NEW q \in Text,
           NEW t \in Text, Cat(Around(b, p, m, q), t) = Cat(Around(b, p, n, q), t)
    PROVE  m = n
<1>1. /\ Cat(m, q) \in Text /\ Cat(p, Cat(m, q)) \in Text /\ Around(b, p, m, q) \in Text
      /\ Cat(n, q) \in Text /\ Cat(p, Cat(n, q)) \in Text /\ Around(b, p, n, q) \in Text
  BY TextConcat DEF Around
<1>2. Cat(b, Cat(p, Cat(m, q))) = Cat(b, Cat(p, Cat(n, q)))
  BY <1>1, CatCancels DEF Around
<1>3. Cat(p, Cat(m, q)) = Cat(p, Cat(n, q))
  BY <1>1, <1>2, CatCancels
<1>4. Cat(m, q) = Cat(n, q)
  BY <1>1, <1>3, CatCancels
<1> QED
  BY <1>4, CatCancels

LEMMA StartCancels ==
    ASSUME NEW b \in Text, NEW c \in Text, NEW p \in Text, NEW m \in Text, NEW q \in Text,
           NEW t \in Text, Cat(Around(b, p, m, q), t) = Cat(Around(c, p, m, q), t)
    PROVE  b = c
<1>1. /\ Cat(p, Cat(m, q)) \in Text
      /\ Around(b, p, m, q) \in Text /\ Around(c, p, m, q) \in Text
  BY TextConcat DEF Around
<1>2. Cat(b, Cat(p, Cat(m, q))) = Cat(c, Cat(p, Cat(m, q)))
  BY <1>1, CatCancels DEF Around
<1> QED
  BY <1>1, <1>2, CatCancels

LEMMA DoneFacts ==
    ASSUME IdInv, Done
    PROVE  /\ job[1] \in AnyJobs /\ job[2] \in AnyJobs
           /\ \A c \in Calls : Start(job[c]) \in Text /\ job[c].tar \in Text
           /\ \A d \in Text : AgreeExcept(job[1], job[2], d) =>
                \E p, q \in Text : seed[1] = SeedOf(1, p, d, q) /\ seed[2] = SeedOf(2, p, d, q)
<1>1. job[1] \in AnyJobs /\ job[2] \in AnyJobs
  BY DEF IdInv, IdTypeOK, Done, Calls
<1>2. \A c \in Calls : Start(job[c]) \in Text /\ job[c].tar \in Text
  BY <1>1, JobFacts, TextConcat DEF Calls, Start
<1> QED
  BY <1>1, <1>2 DEF IdInv, SeedsInv

(* Jobs with the same relevant parameters agree everywhere. *)
LEMMA SameRelevant ==
    ASSUME NEW i \in AnyJobs, NEW j \in AnyJobs, NEW d,
           NamesOf(i) = NamesOf(j),
           \A k \in NamesOf(i) : Relevant(i.params)[k] = Relevant(j.params)[k]
    PROVE  AgreeExcept(i, j, d) /\ Mark(i.params, d) = Mark(j.params, d)
<1>1. \A k \in NamesOf(i) : i.params[k] = j.params[k]
  BY JobFacts
<1> QED
  BY <1>1, MarkIsText DEF AgreeExcept

LEMMA SameJobFollows == IdInv => SameJobSameId
<1> SUFFICES ASSUME IdInv, Done, SameJob PROVE SameId
  BY DEF SameJobSameId
<1>1. job[1] \in AnyJobs /\ job[2] \in AnyJobs
  BY DoneFacts
<1>2. AgreeExcept(job[1], job[2], <<>>) /\ Mark(job[1].params, <<>>) = Mark(job[2].params, <<>>)
  BY <1>1, SameRelevant DEF SameJob, NamesOf
<1>3. PICK p \in Text, q \in Text : /\ seed[1] = SeedOf(1, p, <<>>, q)
                                    /\ seed[2] = SeedOf(2, p, <<>>, q)
  BY <1>2, DoneFacts, TextConcat
<1>4. Start(job[1]) = Start(job[2]) /\ job[1].tar = job[2].tar
  BY DEF SameJob, Start
<1> QED
  BY <1>2, <1>3, <1>4 DEF SameId, SeedOf

LEMMA OneDifferenceFollows == IdInv => OneDifferenceTells
<1> DEFINE r == Relevant(job[1].params)
           s == Relevant(job[2].params)
           fields == {f \in {"project", "group", "tar"} : job[1][f] # job[2][f]}
           names == {k \in DOMAIN r \cup DOMAIN s :
                       k \in DOMAIN r \cap DOMAIN s => r[k] # s[k]}
           OneField == names = {} /\ \E f \in fields : fields = {f}
           OneParam == fields = {} /\ \E k \in names :
                         /\ names = {k}
                         /\ \/ k \in DOMAIN r \cap DOMAIN s
                            \/ Mark(job[1].params, k) # Mark(job[2].params, k)
<1> SUFFICES ASSUME IdInv, Done, OneField \/ OneParam, SameId PROVE FALSE
  BY DEF OneDifferenceTells
<1>1. /\ job[1] \in AnyJobs /\ job[2] \in AnyJobs
      /\ Start(job[1]) \in Text /\ Start(job[2]) \in Text
      /\ job[1].tar \in Text /\ job[2].tar \in Text
      /\ \A d : Mark(job[1].params, d) \in Text /\ Mark(job[2].params, d) \in Text
  BY DoneFacts, MarkIsText DEF Calls
<1>2. ASSUME NEW d \in Text, AgreeExcept(job[1], job[2], d)
      PROVE  \E p, q \in Text : SeedOf(1, p, d, q) = SeedOf(2, p, d, q)
  BY <1>2, DoneFacts DEF SameId
<1>3. CASE OneField
  <2>1. NamesOf(job[1]) = NamesOf(job[2]) /\ \A k \in NamesOf(job[1]) : r[k] = s[k]
    BY <1>3 DEF NamesOf
  <2>2. /\ AgreeExcept(job[1], job[2], <<>>)
        /\ Mark(job[1].params, <<>>) = Mark(job[2].params, <<>>)
    BY <1>1, <2>1, SameRelevant
  <2>3. PICK p \in Text, q \in Text : SeedOf(1, p, <<>>, q) = SeedOf(2, p, <<>>, q)
    BY <1>2, <2>2, TextConcat
  <2> DEFINE m == Mark(job[1].params, <<>>)
  <2>4. /\ m \in Text
        /\ Cat(Around(Start(job[1]), p, m, q), job[1].tar)
             = Cat(Around(Start(job[2]), p, m, q), job[2].tar)
    BY <1>1, <2>2, <2>3 DEF SeedOf
  <2> HIDE DEF m
  <2>5. PICK f \in {"project", "group", "tar"} : fields = {f} /\ job[1][f] # job[2][f]
    BY <1>3
  <2>6. /\ job[1].project \in Text /\ job[1].group \in Text
        /\ job[2].project \in Text /\ job[2].group \in Text
    BY <1>1, JobFacts
  <2>7. CASE f = "tar"
    <3>1. job[1].project = job[2].project /\ job[1].group = job[2].group
      BY <2>5, <2>7
    <3>2. Around(Start(job[1]), p, m, q) \in Text /\ Start(job[1]) = Start(job[2])
      BY <1>1, <2>4, <3>1, AroundFacts DEF Start
    <3>3. job[1].tar = job[2].tar
      <4>1. Cat(Around(Start(job[1]), p, m, q), job[1].tar)
              = Cat(Around(Start(job[1]), p, m, q), job[2].tar)
        BY <2>4, <3>2
      <4> QED
        BY <1>1, <3>2, <4>1, CatCancels
    <3> QED
      BY <2>5, <2>7, <3>3
  <2>8. CASE f # "tar"
    <3>1. job[1].tar = job[2].tar
      BY <2>5, <2>8
    <3>2. Start(job[1]) = Start(job[2])
      <4> DEFINE b == Start(job[1])
                 c == Start(job[2])
                 t == job[1].tar
      <4>1. /\ b \in Text /\ c \in Text /\ t \in Text
            /\ Cat(Around(b, p, m, q), t) = Cat(Around(c, p, m, q), t)
        BY <1>1, <2>4, <3>1
      <4> HIDE DEF b, c, t
      <4>2. b = c
        BY <2>4, <4>1, StartCancels
      <4> QED
        BY <4>2 DEF b, c
    <3>3. CASE f = "project"
      <4>1. job[1].group = job[2].group
        BY <2>5, <3>3
      <4>2. Cat(job[1].project, job[1].group) = Cat(job[2].project, job[1].group)
        BY <3>2, <4>1 DEF Start
      <4>3. job[1].project = job[2].project
        BY <2>6, <4>2, CatCancels
      <4> QED
        BY <2>5, <3>3, <4>3
    <3>4. CASE f = "group"
      <4>1. job[1].project = job[2].project
        BY <2>5, <3>4
      <4>2. Cat(job[1].project, job[1].group) = Cat(job[1].project, job[2].group)
        BY <3>2, <4>1 DEF Start
      <4>3. job[1].group = job[2].group
        BY <2>6, <4>2, CatCancels
      <4> QED
        BY <2>5, <3>4, <4>3
    <3> QED
      BY <2>5, <2>8, <3>3, <3>4
  <2> QED
    BY <2>7, <2>8
<1>4. CASE OneParam
  <2>1. PICK k \in names : /\ names = {k}
                           /\ \/ k \in DOMAIN r \cap DOMAIN s
                              \/ Mark(job[1].params, k) # Mark(job[2].params, k)
    BY <1>4
  <2>2. /\ job[1].project = job[2].project /\ job[1].group = job[2].group
        /\ job[1].tar = job[2].tar /\ Start(job[1]) = Start(job[2])
    BY <1>4 DEF Start
  <2>3. /\ DOMAIN r = NamesOf(job[1]) /\ DOMAIN s = NamesOf(job[2])
        /\ NamesOf(job[1]) \subseteq Text /\ NamesOf(job[2]) \subseteq Text
        /\ \A n \in NamesOf(job[1]) : r[n] = job[1].params[n] /\ job[1].params[n] \in Text
        /\ \A n \in NamesOf(job[2]) : s[n] = job[2].params[n] /\ job[2].params[n] \in Text
    BY <1>1, JobFacts DEF NamesOf
  <2>4. k \in Text /\ AgreeExcept(job[1], job[2], k)
    BY <2>1, <2>3 DEF AgreeExcept
  <2>5. Mark(job[1].params, k) # Mark(job[2].params, k)
    <3>1. CASE k \in DOMAIN r \cap DOMAIN s
      <4>1. job[1].params[k] # job[2].params[k]
        BY <2>1, <2>3, <3>1
      <4>2. /\ Mark(job[1].params, k) = Cat(k, job[1].params[k])
            /\ Mark(job[2].params, k) = Cat(k, job[2].params[k])
        BY <1>1, <2>3, <3>1, MarkIsText
      <4>3. job[1].params[k] \in Text /\ job[2].params[k] \in Text /\ k \in Text
        BY <2>3, <2>4, <3>1
      <4>4. Cat(k, job[1].params[k]) # Cat(k, job[2].params[k])
        BY <4>1, <4>3, CatCancels
      <4> QED
        BY <4>2, <4>4
    <3> QED
      BY <2>1, <3>1
  <2>6. PICK p \in Text, q \in Text : SeedOf(1, p, k, q) = SeedOf(2, p, k, q)
    BY <1>2, <2>4
  <2>7. Cat(Around(Start(job[1]), p, Mark(job[1].params, k), q), job[1].tar)
          = Cat(Around(Start(job[1]), p, Mark(job[2].params, k), q), job[1].tar)
    BY <2>2, <2>6 DEF SeedOf
  <2>8. /\ Mark(job[1].params, k) \in Text /\ Mark(job[2].params, k) \in Text
        /\ Start(job[1]) \in Text /\ job[1].tar \in Text
    BY <1>1
  <2> DEFINE b == Start(job[1])
             t == job[1].tar
             m == Mark(job[1].params, k)
             n == Mark(job[2].params, k)
  <2>9. /\ b \in Text /\ t \in Text /\ m \in Text /\ n \in Text
        /\ Cat(Around(b, p, m, q), t) = Cat(Around(b, p, n, q), t) /\ m # n
    BY <2>5, <2>7, <2>8
  <2> HIDE DEF b, t, m, n
  <2> QED
    BY <2>9, MarkCancels
<1> QED
  BY <1>3, <1>4

-----------------------------------------------------------------------------
(* The command line. *)

(* What parseDynamicArgs keeps of a parameter. *)
Kept(a) == IF a.form = "assigned" THEN <<a.value[1]>> ELSE a.value

(* C[n] are the words that follow the first n parameters of the line l. *)
Words == Seq(Seq(Text))
AreCuts(C, l, last) ==
    /\ C \in [0..Len(l) -> Words] /\ C[Len(l)] = last
    /\ \A i \in 1..Len(l) : C[i - 1] = Cat(WordsOf(l[i]), C[i])

(* The map m holds the last values among the first n parameters of l. *)
IsParsed(m, l, n) ==
    /\ DOMAIN m = {l[i].name : i \in 1..n}
    /\ \A k \in DOMAIN m : \E i \in 1..n :
         /\ l[i].name = k /\ \A x \in (i + 1)..n : l[x].name # k
         /\ m[k] = Kept(l[i])

ArgsInv ==
    /\ line \in Seq(Args) /\ entered \in BOOLEAN
    /\ ~entered => parsed = <<>> /\ \E C : AreCuts(C, line, <<>>) /\ words = C[0]
    /\ entered =>
         \E C : \E last \in Trailers, n \in 0..Len(line) :
           /\ AreCuts(C, line, last) /\ IsParsed(parsed, line, n)
           /\ words = C[n] \/ (n = Len(line) /\ words = <<>>)

LEMMA WordsConcat ==
    ASSUME NEW a \in Words, NEW b \in Words, NEW c \in Words
    PROVE  /\ <<>> \in Words /\ Cat(a, b) \in Words
           /\ Cat(a, <<>>) = a /\ Cat(<<>>, a) = a
           /\ Cat(Cat(a, b), c) = Cat(a, Cat(b, c))
<1>1. <<>> \in Words /\ Cat(a, b) \in Words
  BY ConcatProperties DEF Words, Cat
<1>2. Cat(a, <<>>) = a /\ Cat(<<>>, a) = a
  BY ConcatEmptySeq DEF Words, Cat
<1>3. Cat(Cat(a, b), c) = Cat(a, Cat(b, c))
  BY CatAssociates DEF Words
<1> QED
  BY <1>1, <1>2, <1>3

LEMMA ArgFacts ==
    ASSUME NEW a \in Args
    PROVE  /\ a.name \in Text /\ a.value \in Seq(Text) /\ Len(a.value) >= 1
           /\ a.form \in {"assigned", "separate"} /\ WordsOf(a) \in Words
<1>1. a.name \in Names /\ a.value \in Values /\ a.form \in {"assigned", "separate"}
  BY DEF Args
<1>2. a.name \in Text /\ a.value \in Seq(Text) /\ Len(a.value) >= 1
  BY <1>1, RequestConstants
<1>3. <<a.name>> \in Seq(Text) /\ <<a.name>> \o a.value \in Seq(Text)
  BY <1>2
<1>4. << <<a.name>> \o a.value >> \in Words /\ << <<a.name>>, a.value >> \in Words
  BY <1>2, <1>3 DEF Words
<1> QED
  BY <1>1, <1>2, <1>4 DEF WordsOf

LEMMA ConsFacts ==
    ASSUME NEW S, NEW x \in S, NEW r \in Seq(S)
    PROVE  /\ <<x>> \o r \in Seq(S) /\ <<x>> \o r # <<>> /\ Len(<<x>> \o r) = Len(r) + 1
           /\ Head(<<x>> \o r) = x /\ Tail(<<x>> \o r) = r
           /\ \A i \in 1..Len(r) : (<<x>> \o r)[i + 1] = r[i]
  OBVIOUS

LEMMA PairIsConcat ==
    ASSUME NEW x \in Seq(Text), NEW y \in Seq(Text), NEW r \in Words
    PROVE  <<x, y>> \o r = <<x>> \o (<<y>> \o r)
<1> DEFINE p == <<x, y>>
           s == <<x>>
           t == <<y>>
<1>1. /\ p \in Words /\ Len(p) = 2 /\ p[1] = x /\ p[2] = y
      /\ s \in Words /\ Len(s) = 1 /\ s[1] = x
      /\ t \in Words /\ Len(t) = 1 /\ t[1] = y
  BY DEF Words
<1> HIDE DEF p, s, t
<1>2. s \o t \in Words /\ Len(s \o t) = 2 /\ (s \o t)[1] = x /\ (s \o t)[2] = y
  <2>1. /\ s \o t \in Words /\ Len(s \o t) = Len(s) + Len(t)
        /\ \A i \in 1..(Len(s) + Len(t)) :
             (s \o t)[i] = IF i <= Len(s) THEN s[i] ELSE t[i - Len(s)]
    BY <1>1, ConcatProperties DEF Words
  <2> QED
    BY <1>1, <2>1
<1>3. \A i \in 1..Len(p) : p[i] = (s \o t)[i]
  BY <1>1, <1>2
<1>4. p = s \o t
  BY <1>1, <1>2, <1>3, SeqEqual DEF Words
<1>5. Cat(Cat(s, t), r) = Cat(s, Cat(t, r))
  BY <1>1, WordsConcat
<1>6. p \o r = s \o (t \o r)
  BY <1>4, <1>5, Zenon DEF Cat
<1> QED
  BY <1>6, Zenon DEF p, s, t

(* Reading the words of a parameter. *)
LEMMA ReadAssigned ==
    ASSUME NEW a \in Args, a.form = "assigned", NEW rest \in Words,
           NEW w, w = Cat(WordsOf(a), rest)
    PROVE  /\ w # <<>> /\ Tail(w) = rest /\ Len(Head(w)) > 1
           /\ Head(w)[1] = a.name /\ <<Head(w)[2]>> = Kept(a)
<1> DEFINE b == <<a.name>> \o a.value
<1>1. a.name \in Text /\ a.value \in Seq(Text) /\ Len(a.value) >= 1
  BY ArgFacts
<1>2. b \in Seq(Text) /\ Len(b) > 1 /\ b[1] = a.name /\ b[2] = a.value[1]
  BY <1>1
<1> HIDE DEF b
<1>3. w = <<b>> \o rest
  BY DEF WordsOf, b, Cat
<1>4. w # <<>> /\ Head(w) = b /\ Tail(w) = rest
  BY <1>2, <1>3 DEF Words
<1> QED
  BY <1>2, <1>4 DEF Kept

LEMMA ReadSeparate ==
    ASSUME NEW a \in Args, a.form = "separate", NEW rest \in Words,
           NEW w, w = Cat(WordsOf(a), rest)
    PROVE  /\ w # <<>> /\ Len(w) > 1 /\ Tail(Tail(w)) = rest /\ Len(Head(w)) = 1
           /\ Head(w)[1] = a.name /\ w[2] = Kept(a)
<1>1. a.name \in Text /\ a.value \in Seq(Text)
  BY ArgFacts
<1>2. w = << <<a.name>>, a.value >> \o rest /\ Kept(a) = a.value
  BY DEF WordsOf, Cat, Kept
<1> DEFINE b == <<a.name>>
           v == a.value
<1>3. b \in Seq(Text) /\ Len(b) = 1 /\ b[1] = a.name /\ v \in Seq(Text)
  BY <1>1
<1> HIDE DEF b, v
<1>4. w = <<b, v>> \o rest
  BY <1>2 DEF b, v
<1>5. w # <<>> /\ Len(w) > 1 /\ Head(w) = b /\ w[2] = v /\ Tail(Tail(w)) = rest
  <2> DEFINE x == <<v>> \o rest
  <2>1. w = <<b>> \o x
    <3>1. <<b, v>> \o rest = <<b>> \o (<<v>> \o rest)
      BY <1>3, PairIsConcat
    <3> QED
      BY <1>4, <3>1, Zenon
  <2>2. x \in Seq(Seq(Text)) /\ Head(x) = v /\ Tail(x) = rest /\ Len(x) = Len(rest) + 1
    BY <1>3, ConsFacts DEF Words
  <2>3. Len(rest) \in Nat /\ Len(x) \in Nat /\ x[1] = v
    <3>1. Len(rest) \in Nat
      BY DEF Words
    <3>2. Len(x) \in Nat /\ Len(x) > 0
      BY <2>2, <3>1
    <3> HIDE DEF x
    <3>3. x[1] = Head(x)
      BY <2>2, <3>2
    <3> QED
      BY <2>2, <3>1, <3>2, <3>3
  <2> HIDE DEF x
  <2>4. /\ w # <<>> /\ Head(w) = b /\ Tail(w) = x /\ Len(w) = Len(x) + 1
        /\ \A i \in 1..Len(x) : w[i + 1] = x[i]
    <3> DEFINE S == Seq(Text)
    <3>1. b \in S /\ x \in Seq(S)
      BY <1>3, <2>2
    <3> HIDE DEF S
    <3> QED
      BY <2>1, <3>1, ConsFacts
  <2>5. w[2] = v /\ Len(w) > 1
    BY <2>2, <2>3, <2>4
  <2> QED
    BY <2>2, <2>4, <2>5
<1> QED
  BY <1>2, <1>3, <1>5 DEF v

(* The next parameter is entered into the map. *)
LEMMA ParsedGoesOn ==
    ASSUME NEW l \in Seq(Args), NEW n \in 0..(Len(l) - 1), NEW m, IsParsed(m, l, n)
    PROVE  IsParsed(Assign(m, l[n + 1].name, Kept(l[n + 1])), l, n + 1)
<1> DEFINE k == l[n + 1].name
           u == Assign(m, k, Kept(l[n + 1]))
<1>1. DOMAIN u = DOMAIN m \cup {k} /\ u[k] = Kept(l[n + 1])
  BY DEF Assign
<1>2. \A x \in DOMAIN m \ {k} : u[x] = m[x]
  BY DEF Assign
<1> HIDE DEF u
<1>3. DOMAIN u = {l[i].name : i \in 1..(n + 1)}
  BY <1>1 DEF IsParsed
<1>4. ASSUME NEW x \in DOMAIN u
      PROVE  \E i \in 1..(n + 1) : /\ l[i].name = x /\ \A y \in (i + 1)..(n + 1) : l[y].name # x
                                   /\ u[x] = Kept(l[i])
  <2>1. CASE x = k
    BY <1>1, <2>1
  <2>2. CASE x # k
    <3>1. x \in DOMAIN m /\ u[x] = m[x]
      BY <1>1, <1>2, <2>2
    <3>2. PICK i \in 1..n : /\ l[i].name = x /\ \A y \in (i + 1)..n : l[y].name # x
                            /\ m[x] = Kept(l[i])
      BY <3>1 DEF IsParsed
    <3>3. i \in 1..(n + 1) /\ \A y \in (i + 1)..(n + 1) : l[y].name # x
      BY <2>2, <3>2
    <3> QED
      BY <3>1, <3>2, <3>3
  <2> QED
    BY <2>1, <2>2
<1>5. IsParsed(u, l, n + 1)
  BY <1>3, <1>4 DEF IsParsed
<1> QED
  BY <1>5 DEF u

(* Words written at the end of the line follow all its parameters. *)
LEMMA CutsGrow ==
    ASSUME NEW l \in Seq(Args), NEW C, AreCuts(C, l, <<>>), NEW t \in Words
    PROVE  \E D : AreCuts(D, l, t) /\ D[0] = Cat(C[0], t)
<1> DEFINE D == [i \in 0..Len(l) |-> Cat(C[i], t)]
<1>1. Len(l) \in Nat /\ \A i \in 1..Len(l) : l[i] \in Args
  OBVIOUS
<1>2. \A i \in 0..Len(l) : C[i] \in Words
  BY DEF AreCuts
<1>3. \A i \in 0..Len(l) : D[i] = Cat(C[i], t) /\ D[i] \in Words
  BY <1>2, WordsConcat
<1>4. D \in [0..Len(l) -> Words]
  BY <1>3
<1> HIDE DEF D
<1>5. D[Len(l)] = t
  BY <1>1, <1>3, WordsConcat DEF AreCuts
<1>6. ASSUME NEW i \in 1..Len(l) PROVE D[i - 1] = Cat(WordsOf(l[i]), D[i])
  <2>1. i - 1 \in 0..Len(l) /\ i \in 0..Len(l)
    BY <1>1
  <2>2. C[i - 1] = Cat(WordsOf(l[i]), C[i])
    BY DEF AreCuts
  <2>3. WordsOf(l[i]) \in Words
    BY <1>1, ArgFacts
  <2> QED
    BY <1>2, <1>3, <2>1, <2>2, <2>3, WordsConcat
<1>7. AreCuts(D, l, t)
  BY <1>4, <1>5, <1>6 DEF AreCuts
<1>8. D[0] = Cat(C[0], t)
  BY <1>1, <1>3
<1> QED
  BY <1>7, <1>8

(* A parameter is added at the end of the line. *)
LEMMA CutsAppend ==
    ASSUME NEW l \in Seq(Args), NEW a \in Args, NEW D, AreCuts(D, l, WordsOf(a))
    PROVE  \E E : AreCuts(E, Append(l, a), <<>>) /\ E[0] = D[0]
<1> DEFINE k == Append(l, a)
           E == [i \in 0..Len(k) |-> IF i <= Len(l) THEN D[i] ELSE <<>>]
<1>1. /\ Len(l) \in Nat /\ Len(k) = Len(l) + 1 /\ k[Len(l) + 1] = a
      /\ \A i \in 1..Len(l) : k[i] = l[i] /\ l[i] \in Args
  OBVIOUS
<1> HIDE DEF k
<1>2. /\ \A i \in 0..Len(l) : E[i] = D[i] /\ D[i] \in Words
      /\ E[Len(k)] = <<>> /\ <<>> \in Words
  <2>1. \A i \in 0..Len(l) : D[i] \in Words
    BY DEF AreCuts
  <2>2. \A i \in 0..Len(l) : i \in 0..Len(k) /\ i <= Len(l)
    BY <1>1
  <2>3. Len(k) \in 0..Len(k) /\ ~(Len(k) <= Len(l))
    BY <1>1
  <2>4. <<>> \in Words
    BY DEF Words
  <2> QED
    BY <2>1, <2>2, <2>3, <2>4
<1>3. E \in [0..Len(k) -> Words]
  <2>1. \A i \in 0..Len(k) : (IF i <= Len(l) THEN D[i] ELSE <<>>) \in Words
    <3>1. \A i \in 0..Len(k) : i <= Len(l) => i \in 0..Len(l)
      BY <1>1
    <3> QED
      BY <1>2, <3>1
  <2> QED
    BY <2>1
<1> HIDE DEF E
<1>4. ASSUME NEW i \in 1..Len(k) PROVE E[i - 1] = Cat(WordsOf(k[i]), E[i])
  <2>1. CASE i <= Len(l)
    BY <1>1, <1>2, <2>1 DEF AreCuts
  <2>2. CASE i = Len(l) + 1
    <3>1. E[i - 1] = WordsOf(a) /\ E[i] = <<>> /\ k[i] = a
      BY <1>1, <1>2, <2>2 DEF AreCuts
    <3>2. Cat(WordsOf(a), <<>>) = WordsOf(a)
      BY ArgFacts, WordsConcat
    <3> QED
      BY <3>1, <3>2
  <2> QED
    BY <1>1, <2>1, <2>2
<1>5. AreCuts(E, k, <<>>) /\ E[0] = D[0]
  BY <1>1, <1>2, <1>3, <1>4 DEF AreCuts
<1> QED
  BY <1>5 DEF k

LEMMA ArgsInvInit == ArgsInit => ArgsInv
<1> SUFFICES ASSUME ArgsInit PROVE ArgsInv
  OBVIOUS
<1> DEFINE C == [i \in {0} |-> <<>>]
<1>1. line = <<>> /\ words = <<>> /\ parsed = <<>> /\ entered = FALSE /\ Len(line) = 0
  BY DEF ArgsInit
<1>2. C[0] = <<>> /\ C \in [0..0 -> Words]
  BY DEF Words
<1> HIDE DEF C
<1>3. AreCuts(C, line, <<>>)
  BY <1>1, <1>2 DEF AreCuts
<1>4. line \in Seq(Args)
  BY <1>1
<1> QED
  BY <1>1, <1>2, <1>3, <1>4 DEF ArgsInv

LEMMA ArgsInvWrite ==
    ASSUME ArgsInv, NEW a \in Args, Write(a)
    PROVE  ArgsInv'
<1>1. /\ ~entered /\ line' = Append(line, a) /\ words' = Cat(words, WordsOf(a))
      /\ entered' = entered /\ parsed' = parsed
  BY DEF Write, Cat
<1>2. line \in Seq(Args) /\ entered \in BOOLEAN /\ parsed = <<>>
  BY <1>1 DEF ArgsInv
<1>3. PICK C : AreCuts(C, line, <<>>) /\ words = C[0]
  BY <1>1 DEF ArgsInv
<1>4. WordsOf(a) \in Words
  BY ArgFacts
<1>5. PICK D : AreCuts(D, line, WordsOf(a)) /\ D[0] = Cat(C[0], WordsOf(a))
  BY <1>2, <1>3, <1>4, CutsGrow
<1>6. PICK E : AreCuts(E, Append(line, a), <<>>) /\ E[0] = D[0]
  BY <1>2, <1>5, CutsAppend
<1>7. line' \in Seq(Args)
  BY <1>1, <1>2
<1> QED
  BY <1>1, <1>2, <1>3, <1>5, <1>6, <1>7 DEF ArgsInv

LEMMA ArgsInvEnter ==
    ASSUME ArgsInv, Enter
    PROVE  ArgsInv'
<1>1. PICK last \in Trailers : words' = Cat(words, last)
  BY DEF Enter, Cat
<1>2. /\ ~entered /\ entered' = TRUE /\ line' = line /\ parsed' = parsed
      /\ line \in Seq(Args) /\ parsed = <<>>
  BY DEF Enter, ArgsInv
<1>3. PICK C : AreCuts(C, line, <<>>) /\ words = C[0]
  BY <1>2 DEF ArgsInv
<1>4. last \in Words
  <2>1. CASE last = <<>>
    BY <2>1 DEF Words
  <2>2. ASSUME NEW k \in Names, last = << <<k>> >> PROVE last \in Words
    <3>1. <<k>> \in Seq(Text)
      BY RequestConstants
    <3> QED
      BY <2>2, <3>1 DEF Words
  <2> QED
    BY <2>1, <2>2 DEF Trailers
<1>5. PICK D : AreCuts(D, line, last) /\ D[0] = Cat(C[0], last)
  BY <1>2, <1>3, <1>4, CutsGrow
<1>6. IsParsed(parsed, line, 0) /\ 0 \in 0..Len(line)
  BY <1>2 DEF IsParsed
<1>7. words' = D[0]
  BY <1>1, <1>3, <1>5
<1>8. \E B : \E t \in Trailers, n \in 0..Len(line) :
        /\ AreCuts(B, line, t) /\ IsParsed(parsed, line, n)
        /\ words' = B[n] \/ (n = Len(line) /\ words' = <<>>)
  <2>1. AreCuts(D, line, last) /\ IsParsed(parsed, line, 0) /\ words' = D[0]
    BY <1>5, <1>6, <1>7
  <2> QED
    BY <1>6, <2>1
<1> QED
  BY <1>2, <1>8 DEF ArgsInv

(* A step of parseDynamicArgs reads the words of the next parameter, or    *)
(* passes over a last name.                                                *)
LEMMA ArgsInvParse ==
    ASSUME ArgsInv, Assigned \/ Separate \/ Trailing
    PROVE  ArgsInv'
<1>1. entered /\ entered' = entered /\ line' = line /\ line \in Seq(Args) /\ words # <<>>
  BY DEF Assigned, Separate, Trailing, ArgsInv
<1>1a. PICK C : \E last \in Trailers, n \in 0..Len(line) :
        /\ AreCuts(C, line, last) /\ IsParsed(parsed, line, n)
        /\ words = C[n] \/ (n = Len(line) /\ words = <<>>)
  BY <1>1 DEF ArgsInv
<1>2. PICK last \in Trailers, n \in 0..Len(line) :
        /\ AreCuts(C, line, last) /\ IsParsed(parsed, line, n)
        /\ words = C[n] \/ (n = Len(line) /\ words = <<>>)
  BY <1>1a
<1>3. words = C[n] /\ Len(line) \in Nat
  BY <1>1, <1>2
<1>4. CASE n = Len(line)
  <2>1. words = last
    BY <1>2, <1>3, <1>4 DEF AreCuts
  <2>2. PICK k \in Names : words = << <<k>> >>
    BY <1>1, <2>1 DEF Trailers
  <2>3. Len(words) = 1 /\ Head(words) = <<k>> /\ Len(Head(words)) = 1
    BY <2>2
  <2>4. words' = <<>> /\ parsed' = parsed
    BY <2>3 DEF Assigned, Separate, Trailing
  <2> QED
    BY <1>1, <1>2, <1>4, <2>4 DEF ArgsInv
<1>5. CASE n # Len(line)
  <2> DEFINE a == line[n + 1]
  <2>1. n \in 0..(Len(line) - 1) /\ n + 1 \in 1..Len(line) /\ n + 1 \in 0..Len(line)
    BY <1>3, <1>5
  <2>2. a \in Args /\ C[n + 1] \in Words /\ words = Cat(WordsOf(a), C[n + 1])
    BY <1>1, <1>2, <1>3, <2>1 DEF AreCuts
  <2> HIDE DEF a
  <2>3. words' = C[n + 1] /\ parsed' = Assign(parsed, a.name, Kept(a))
    <3>1. CASE a.form = "assigned"
      <4>1. /\ Tail(words) = C[n + 1] /\ Len(Head(words)) > 1
            /\ Head(words)[1] = a.name /\ <<Head(words)[2]>> = Kept(a)
        BY <2>2, <3>1, ReadAssigned
      <4>2. Assigned
        BY <4>1 DEF Assigned, Separate, Trailing
      <4> QED
        BY <4>1, <4>2 DEF Assigned
    <3>2. CASE a.form = "separate"
      <4>1. /\ Len(words) > 1 /\ Tail(Tail(words)) = C[n + 1] /\ Len(Head(words)) = 1
            /\ Head(words)[1] = a.name /\ words[2] = Kept(a)
        <5> DEFINE rest == C[n + 1]
        <5>1. a \in Args /\ rest \in Words /\ words = Cat(WordsOf(a), rest)
          BY <2>2
        <5> HIDE DEF rest
        <5>2. /\ Len(words) > 1 /\ Tail(Tail(words)) = rest /\ Len(Head(words)) = 1
              /\ Head(words)[1] = a.name /\ words[2] = Kept(a)
          BY <3>2, <5>1, ReadSeparate
        <5> QED
          BY <5>2 DEF rest
      <4>2. ~(Len(Head(words)) > 1) /\ Len(words) # 1
        <5>1. \A x : (x = 1 => ~(x > 1)) /\ (x > 1 => x # 1)
          OBVIOUS
        <5> QED
          BY <4>1, <5>1, Zenon
      <4>3. ~Assigned /\ ~Trailing
        BY <4>2 DEF Assigned, Trailing
      <4>4. Separate
        BY <4>3
      <4> QED
        BY <4>1, <4>4 DEF Separate
    <3> QED
      BY <2>2, <3>1, <3>2, ArgFacts
  <2>4. IsParsed(parsed', line, n + 1)
    BY <1>1, <1>2, <2>1, <2>3, ParsedGoesOn DEF a
  <2> QED
    BY <1>1, <1>2, <2>1, <2>3, <2>4 DEF ArgsInv
<1> QED
  BY <1>4, <1>5

LEMMA ArgsInvStutter == ArgsInv /\ UNCHANGED argsVars => ArgsInv'
  BY DEF ArgsInv, argsVars

(* When nothing is left to read, the whole line has been. *)
LEMMA AllIsParsed ==
    ASSUME ArgsInv, entered, words = <<>>
    PROVE  line \in Seq(Args) /\ IsParsed(parsed, line, Len(line))
<1>1. line \in Seq(Args) /\ Len(line) \in Nat
  BY DEF ArgsInv
<1>1a. PICK C : \E last \in Trailers, n \in 0..Len(line) :
        /\ AreCuts(C, line, last) /\ IsParsed(parsed, line, n)
        /\ words = C[n] \/ (n = Len(line) /\ words = <<>>)
  BY DEF ArgsInv
<1>2. PICK last \in Trailers, n \in 0..Len(line) :
        /\ AreCuts(C, line, last) /\ IsParsed(parsed, line, n)
        /\ words = C[n] \/ (n = Len(line) /\ words = <<>>)
  BY <1>1a
<1>3. CASE n = Len(line)
  BY <1>1, <1>2, <1>3
<1>4. CASE n # Len(line)
  <2>1. n + 1 \in 1..Len(line) /\ n + 1 \in 0..Len(line)
    BY <1>1, <1>4
  <2>2. /\ line[n + 1] \in Args /\ C[n + 1] \in Words
        /\ words = Cat(WordsOf(line[n + 1]), C[n + 1])
    BY <1>1, <1>2, <1>4, <2>1 DEF AreCuts
  <2>3. words # <<>>
    BY <2>2, ReadAssigned, ReadSeparate, ArgFacts
  <2> QED
    BY <2>3
<1> QED
  BY <1>3, <1>4

(* The string of a value of one piece, and of what is kept of a parameter. *)
LEMMA OnePiece ==
    ASSUME NEW p \in Text
    PROVE  String(<<p>>) = p
<1> DEFINE v == <<p>>
           none == [i \in 1..(Len(v) - 1) |-> <<Equals>> \o v[i + 1]]
<1>1. Len(v) = 1 /\ v[1] = p
  OBVIOUS
<1>2. none = <<>>
  BY <1>1
<1> HIDE DEF none
<1>3. FlattenSeq(none) = <<>>
  BY <1>2 DEF FlattenSeq
<1>4. String(v) = Cat(p, <<>>)
  BY <1>1, <1>3 DEF String, Cat, none
<1> QED
  BY <1>4, TextConcat

LEMMA KeptString ==
    ASSUME NEW a \in Args
    PROVE  /\ String(Kept(a)) \in Text
           /\ (a.form = "assigned" => Len(a.value) = 1) => Kept(a) = a.value
<1>1. a.value \in Values /\ a.form \in {"assigned", "separate"}
  BY DEF Args
<1>2. a.value \in Seq(Text) /\ Len(a.value) >= 1
  BY ArgFacts
<1>3. a.value[1] \in Text /\ String(<<a.value[1]>>) = a.value[1]
  BY <1>2, OnePiece
<1>4. String(a.value) \in Text
  BY <1>1, RequestConstants
<1>5. String(Kept(a)) \in Text
  BY <1>3, <1>4 DEF Kept
<1>6. ASSUME Len(a.value) = 1 PROVE <<a.value[1]>> = a.value
  BY <1>2, <1>6
<1> QED
  BY <1>5, <1>6 DEF Kept

(* What is posted is a map of strings; for a plain line it is the one the  *)
(* line means.                                                             *)
LEMMA PostedIsText ==
    ASSUME NEW l \in Seq(Args), NEW m, IsParsed(m, l, Len(l))
    PROVE  Strings(m) \in UNION {[S -> Text] : S \in SUBSET Text}
<1>1. \A i \in 1..Len(l) : l[i] \in Args
  OBVIOUS
<1>2. \A i \in 1..Len(l) : l[i].name \in Text /\ String(Kept(l[i])) \in Text
  BY <1>1, ArgFacts, KeptString
<1>3. DOMAIN m \in SUBSET Text
  BY <1>2 DEF IsParsed
<1>4. \A k \in DOMAIN m : String(m[k]) \in Text
  BY <1>2 DEF IsParsed
<1>5. Strings(m) \in [DOMAIN m -> Text]
  BY <1>4 DEF Strings
<1> QED
  BY <1>3, <1>5

LEMMA PlainIsMeant ==
    ASSUME line \in Seq(Args), IsParsed(parsed, line, Len(line)), Plain
    PROVE  Strings(parsed) = Strings(Meaning)
<1> DEFINE IsLast(i, k) == /\ line[i].name = k
                           /\ \A m \in (i + 1)..Len(line) : line[m].name # k
           LastOf(k) == CHOOSE i \in 1..Len(line) : IsLast(i, k)
<1>1. Len(line) \in Nat /\ \A i \in 1..Len(line) : line[i] \in Args
  OBVIOUS
<1>2. \A i \in 1..Len(line) : Kept(line[i]) = line[i].value
  BY <1>1, KeptString DEF Plain
<1>3. DOMAIN parsed = {line[i].name : i \in 1..Len(line)} /\ DOMAIN Meaning = DOMAIN parsed
  BY DEF IsParsed, Meaning
<1>4. ASSUME NEW k \in DOMAIN parsed PROVE parsed[k] = Meaning[k]
  <2>1. PICK i \in 1..Len(line) : IsLast(i, k) /\ parsed[k] = Kept(line[i])
    BY DEF IsParsed
  <2>2. LastOf(k) \in 1..Len(line) /\ IsLast(LastOf(k), k)
    BY <2>1
  <2>3. Meaning[k] = line[LastOf(k)].value
    BY <1>3 DEF Meaning
  <2> HIDE DEF LastOf
  <2>4. i = LastOf(k)
    <3>1. ASSUME i < LastOf(k) PROVE FALSE
      BY <1>1, <2>1, <2>2, <3>1
    <3>2. ASSUME LastOf(k) < i PROVE FALSE
      BY <1>1, <2>1, <2>2, <3>2
    <3> QED
      BY <1>1, <2>1, <2>2, <3>1, <3>2
  <2> QED
    BY <1>2, <2>1, <2>3, <2>4
<1> QED
  BY <1>3, <1>4 DEF Strings

-----------------------------------------------------------------------------
(* The inductive invariant of the composition: once the client has posted  *)
(* its request, its line stays as it was read.                             *)
PostedInv ==
    at[1] # "new" => entered /\ words = <<>> /\ job[1].params = Strings(parsed)

RequestInv == IdInv /\ ArgsInv /\ PostedInv

LEMMA RequestInvInit == RequestInit => RequestInv
<1> SUFFICES ASSUME RequestInit PROVE RequestInv
  OBVIOUS
<1>1. IdInv /\ ArgsInv
  BY IdInvInit, ArgsInvInit DEF RequestInit
<1>2. PostedInv
  BY DEF RequestInit, IdInit, PostedInv, Calls
<1> QED
  BY <1>1, <1>2 DEF RequestInv

(* The request of the client is one of NewJob's arguments. *)
LEMMA PostedJob ==
    ASSUME ArgsInv, entered, words = <<>>,
           NEW p \in ProjectNames, NEW g \in GroupNames, NEW t \in Tars
    PROVE  [project |-> p, group |-> g, params |-> Strings(parsed), tar |-> t] \in AnyJobs
<1>1. Strings(parsed) \in UNION {[S -> Text] : S \in SUBSET Text}
  BY AllIsParsed, PostedIsText
<1>2. p \in Text /\ g \in Text /\ t \in Text
  BY IdConstants
<1> QED
  BY <1>1, <1>2 DEF AnyJobs

LEMMA OtherJob ==
    ASSUME NEW j \in Jobs
    PROVE  j \in AnyJobs
<1>1. ProjectNames \subseteq Text /\ GroupNames \subseteq Text /\ Tars \subseteq Text
  BY IdConstants
<1>2. ParamNames \subseteq Text /\ ParamValues \subseteq Text
  BY IdConstants
<1>3. j.params \in Params
  BY DEF Jobs
<1>4. PICK S \in SUBSET ParamNames : j.params \in [S -> ParamValues]
  BY <1>3 DEF Params
<1>5. S \in SUBSET Text /\ j.params \in [S -> Text]
  BY <1>2, <1>4
<1>6. j.params \in UNION {[R -> Text] : R \in SUBSET Text}
  BY <1>5
<1> QED
  BY <1>1, <1>6 DEF Jobs, AnyJobs

LEMMA RequestInvStep == RequestInv /\ [RequestNext]_requestVars => RequestInv'
<1> SUFFICES ASSUME RequestInv, [RequestNext]_requestVars PROVE RequestInv'
  OBVIOUS
<1>1. IdInv /\ ArgsInv /\ PostedInv /\ IdTypeOK
  BY DEF RequestInv, IdInv
<1>2. CASE ArgsNext /\ UNCHANGED idVars
  <2>1. IdInv' /\ at' = at /\ job' = job
    BY <1>1, <1>2, IdInvStutter DEF idVars
  <2>2. ArgsInv'
    BY <1>1, <1>2, ArgsInvWrite, ArgsInvEnter, ArgsInvParse DEF ArgsNext
  <2>3. ~entered \/ words # <<>>
    BY <1>2 DEF ArgsNext, Write, Enter, Assigned, Separate, Trailing
  <2>4. PostedInv'
    BY <1>1, <2>1, <2>3 DEF PostedInv
  <2> QED
    BY <2>1, <2>2, <2>4 DEF RequestInv
<1>3. CASE Post
  <2>1. PICK p \in ProjectNames, g \in GroupNames, t \in Tars :
          NewJob(1, [project |-> p, group |-> g, params |-> Strings(parsed), tar |-> t])
    BY <1>3 DEF Post
  <2> DEFINE j == [project |-> p, group |-> g, params |-> Strings(parsed), tar |-> t]
  <2>2. entered /\ words = <<>> /\ UNCHANGED argsVars /\ j.params = Strings(parsed)
    BY <1>3 DEF Post
  <2>3. j \in AnyJobs
    BY <1>1, <2>2, PostedJob
  <2> HIDE DEF j
  <2>4. IdInv' /\ ArgsInv'
    BY <1>1, <2>1, <2>2, <2>3, IdInvNewJob, ArgsInvStutter DEF Calls, j
  <2>5. job'[1] = j
    BY <1>1, <2>1 DEF NewJob, IdTypeOK, Calls, j
  <2>6. PostedInv'
    BY <2>2, <2>5 DEF PostedInv, argsVars
  <2> QED
    BY <2>4, <2>6 DEF RequestInv
<1>4. CASE PostOther
  <2>1. PICK j \in Jobs : NewJob(2, j) /\ UNCHANGED argsVars
    BY <1>4 DEF PostOther
  <2>2. IdInv' /\ ArgsInv'
    BY <1>1, <2>1, OtherJob, IdInvNewJob, ArgsInvStutter DEF Calls
  <2>3. job'[1] = job[1] /\ at'[1] = at[1]
    BY <1>1, <2>1 DEF NewJob, IdTypeOK, Calls
  <2>4. PostedInv'
    BY <1>1, <2>1, <2>3 DEF PostedInv, argsVars
  <2> QED
    BY <2>2, <2>4 DEF RequestInv
<1>5. ASSUME NEW c \in Calls, NewJobStep(c), UNCHANGED argsVars PROVE RequestInv'
  <2>1. IdInv' /\ ArgsInv'
    BY <1>1, <1>5, IdInvStep, ArgsInvStutter
  <2>2. job' = job /\ (at'[1] # "new" => at[1] # "new")
    BY <1>1, <1>5 DEF NewJobStep, Collect, SortKeys, AppendParam, AppendTar, IdTypeOK, Calls
  <2>3. PostedInv'
    BY <1>1, <1>5, <2>2 DEF PostedInv, argsVars
  <2> QED
    BY <2>1, <2>3 DEF RequestInv
<1>6. CASE UNCHANGED requestVars
  <2>1. IdInv' /\ ArgsInv'
    BY <1>1, <1>6, IdInvStutter, ArgsInvStutter DEF requestVars
  <2>2. PostedInv'
    BY <1>1, <1>6 DEF PostedInv, requestVars, idVars, argsVars
  <2> QED
    BY <2>1, <2>2 DEF RequestInv
<1> QED
  BY <1>2, <1>3, <1>4, <1>5, <1>6 DEF RequestNext

LEMMA LineFollows == RequestInv => LineNamesItsJob
<1> DEFINE meant == Relevant(Strings(Meaning))
           asked == Relevant(job[2].params)
<1> SUFFICES ASSUME RequestInv, Done, Plain,
                    \A f \in {"project", "group", "tar"} : job[1][f] = job[2][f]
             PROVE  /\ asked = meant => SameId
                    /\ DOMAIN asked = DOMAIN meant
                       /\ (\E k \in DOMAIN meant :
                             \A n \in DOMAIN meant : asked[n] # meant[n] <=> n = k)
                         => ~SameId
  BY DEF LineNamesItsJob
<1>1. entered /\ words = <<>> /\ job[1].params = Strings(parsed)
  BY DEF RequestInv, PostedInv, Done, Calls
<1>2. meant = Relevant(job[1].params)
  <2>1. Strings(parsed) = Strings(Meaning)
    BY <1>1, AllIsParsed, PlainIsMeant DEF RequestInv
  <2> QED
    BY <1>1, <2>1
<1> HIDE DEF meant, asked
<1>3. ASSUME asked = meant PROVE SameId
  <2>1. SameJob
    BY <1>2, <1>3 DEF SameJob, asked
  <2> QED
    BY <2>1, SameJobFollows DEF RequestInv, SameJobSameId
<1>4. ASSUME DOMAIN asked = DOMAIN meant, NEW k \in DOMAIN meant,
             \A n \in DOMAIN meant : asked[n] # meant[n] <=> n = k
      PROVE  ~SameId
  <2> DEFINE fields == {f \in {"project", "group", "tar"} : job[1][f] # job[2][f]}
             names == {n \in DOMAIN meant \cup DOMAIN asked :
                         n \in DOMAIN meant \cap DOMAIN asked => meant[n] # asked[n]}
  <2>1. fields = {}
    OBVIOUS
  <2>2. names = {k} /\ k \in names /\ k \in DOMAIN meant \cap DOMAIN asked
    BY <1>4
  <2>3. OneDifferenceTells
    BY OneDifferenceFollows DEF RequestInv
  <2> QED
    BY <1>2, <2>1, <2>2, <2>3 DEF OneDifferenceTells, asked
<1> QED
  BY <1>3, <1>4

-----------------------------------------------------------------------------
LEMMA RequestInvHolds == RequestSpec => []RequestInv
  BY RequestInvInit, RequestInvStep, PTL DEF RequestSpec

(* Two requests for the same job have the same ID, whatever their          *)
(* parameters are, in whatever order Go visits them and whatever the       *)
(* opaque ones say (job.go:106-126).                                       *)
THEOREM SameJobsShareTheirId == RequestSpec => []SameJobSameId
<1>1. RequestInv => SameJobSameId
  BY SameJobFollows DEF RequestInv
<1> QED
  BY <1>1, RequestInvHolds, PTL

(* Two jobs that differ in the project, the group, the files or one        *)
(* parameter that leaves a mark have different seeds, although nothing     *)
(* separates a name from its value or one parameter from the next          *)
(* (job.go:119-126).                                                       *)
THEOREM OneDifferenceChangesTheId == RequestSpec => []OneDifferenceTells
<1>1. RequestInv => OneDifferenceTells
  BY OneDifferenceFollows DEF RequestInv
<1> QED
  BY <1>1, RequestInvHolds, PTL

(* A command line of any length names the job it describes: parsed by      *)
(* parseDynamicArgs and posted (cmd/mistry/main.go:258, 366-382), it has   *)
(* the ID of every request for the same parameters, and not that of a      *)
(* request that differs in one value.                                      *)
THEOREM CommandLinesNameTheirJob == RequestSpec => []LineNamesItsJob
  BY RequestInvHolds, LineFollows, PTL

=============================================================================
