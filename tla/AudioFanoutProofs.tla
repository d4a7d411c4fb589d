-------------------------- MODULE AudioFanoutProofs --------------------------
(***************************************************************************)
(* That every connection hears one stream that it can decode, that the     *)
(* fanout's account of its queues is right and within the limits, and that *)
(* a slow connection closes no other, for any number of connections, any   *)
(* sizes of chunks and any limits.                                         *)
(***************************************************************************)
EXTENDS AudioFanout, SequenceTheorems, WellFoundedInduction, TLAPS

(***************************************************************************)
(* Flattening.  The library's induction theorems have a predicate as their *)
(* parameter; with a set in its place the least number of the complement   *)
(* does the same.                                                          *)
(***************************************************************************)
\* A set that has 0, and with every number the next one, has all numbers.
LEMMA Induction ==
  ASSUME NEW S, 0 \in S, \A n \in Nat : n \in S => n + 1 \in S
  PROVE  Nat \subseteq S
<1> DEFINE Missing == {n \in Nat : n \notin S}
<1> SUFFICES ASSUME Missing # {} PROVE FALSE
  OBVIOUS
<1>1. PICK m \in Missing : \A k \in Missing : <<k, m>> \notin OpToRel(<, Nat)
  BY WFMin, NatLessThanWellFounded
<1>2. m # 0 /\ m - 1 \in Nat /\ m - 1 < m
  OBVIOUS
<1>3. ASSUME NEW k \in Nat, NEW n \in Nat, k < n PROVE <<k, n>> \in OpToRel(<, Nat)
  BY <1>3, Zenon DEF OpToRel
<1>4. m - 1 \notin Missing
  BY <1>1, <1>2, <1>3
<1> QED BY <1>2, <1>4

\* s followed by t, as an operator of its own: the SMT backend expands \o wherever it sees it.
Cat(s, t) == s \o t

LEMMA CatFacts ==
  ASSUME NEW T, NEW s \in Seq(T), NEW t \in Seq(T)
  PROVE  /\ Cat(s, t) \in Seq(T) /\ Len(Cat(s, t)) = Len(s) + Len(t)
         /\ \A i \in 1..Len(s) : Cat(s, t)[i] = s[i]
         /\ \A i \in 1..Len(t) : Cat(s, t)[Len(s) + i] = t[i]
  BY DEF Cat

LEMMA CatChunks ==
  ASSUME NEW s \in Chunk, NEW t \in Chunk
  PROVE  /\ Cat(s, t) \in Chunk /\ Len(s) \in Nat /\ Len(t) \in Nat
         /\ Len(Cat(s, t)) = Len(s) + Len(t)
         /\ \A i \in 1..Len(s) : Cat(s, t)[i] = s[i]
         /\ \A i \in 1..Len(t) : Cat(s, t)[Len(s) + i] = t[i]
  BY DEF Cat, Chunk

LEMMA CatEmpty ==
  ASSUME NEW T, NEW s \in Seq(T)
  PROVE  Cat(s, <<>>) = s /\ Cat(<<>>, s) = s
  BY DEF Cat

LEMMA CatAssociative ==
  ASSUME NEW T, NEW r \in Seq(T), NEW s \in Seq(T), NEW t \in Seq(T)
  PROVE  Cat(Cat(r, s), t) = Cat(r, Cat(s, t))
  BY DEF Cat

\* A function that joins the first elements of a sequence of sequences.
Joins(f, s) == f = [i \in 1..Len(s) |-> IF i = 1 THEN s[i] ELSE f[i - 1] \o s[i]]

LEMMA JoinExists ==
  ASSUME NEW s, Len(s) \in Nat
  PROVE  \E f : Joins(f, s)
<1> DEFINE Upto(n) == \E f : f = [i \in 1..n |-> IF i = 1 THEN s[i] ELSE f[i - 1] \o s[i]]
           S == {n \in Nat : Upto(n)}
<1>1. 0 \in S
  <2> DEFINE f == [i \in 1..0 |-> s[i]]
  <2>1. f = [i \in 1..0 |-> IF i = 1 THEN s[i] ELSE f[i - 1] \o s[i]]
    OBVIOUS
  <2>2. Upto(0)
    BY <2>1
  <2> QED BY <2>2
<1>2. ASSUME NEW n \in Nat, n \in S PROVE n + 1 \in S
  <2>1. PICK f : f = [i \in 1..n |-> IF i = 1 THEN s[i] ELSE f[i - 1] \o s[i]]
    BY <1>2
  <2> DEFINE g == [i \in 1..(n + 1) |-> IF i <= n THEN f[i] ELSE IF i = 1 THEN s[i] ELSE f[i - 1] \o s[i]]
  <2>a. \A i \in 1..(n + 1) :
          g[i] = IF i <= n THEN f[i] ELSE IF i = 1 THEN s[i] ELSE f[i - 1] \o s[i]
    OBVIOUS
  <2>b. DOMAIN g = 1..(n + 1) /\ g = [i \in 1..(n + 1) |-> g[i]]
    OBVIOUS
  <2> HIDE DEF g
  <2>2. ASSUME NEW i \in 1..(n + 1) PROVE g[i] = IF i = 1 THEN s[i] ELSE g[i - 1] \o s[i]
    <3>1. CASE i <= n /\ i = 1
      <4>1. i \in 1..n
        BY <3>1
      <4>2. f[i] = s[i] /\ g[i] = f[i]
        BY <2>1, <2>a, <3>1, <4>1
      <4> QED BY <3>1, <4>2
    <3>2. CASE i <= n /\ i # 1
      <4>1. i \in 1..n /\ i - 1 \in 1..n /\ i - 1 \in 1..(n + 1)
        BY <3>2
      <4>2. f[i] = f[i - 1] \o s[i]
        BY <2>1, <3>2, <4>1
      <4>3. g[i] = f[i] /\ g[i - 1] = f[i - 1]
        BY <2>a, <3>2, <4>1
      <4> QED BY <3>2, <4>2, <4>3
    <3>3. CASE i = n + 1 /\ i # 1
      <4>1. i - 1 \in 1..n /\ i - 1 \in 1..(n + 1)
        BY <3>3
      <4>2. ~(i <= n) /\ i - 1 <= n
        BY <3>3
      <4>a. g[i] = f[i - 1] \o s[i]
        BY <2>a, <3>3, <4>2
      <4>3. g[i - 1] = f[i - 1]
        BY <2>a, <4>1, <4>2
      <4> QED BY <3>3, <4>a, <4>3
    <3>4. CASE i = n + 1 /\ i = 1
      BY <2>a, <3>4
    <3> QED BY <3>1, <3>2, <3>3, <3>4
  <2>3. g = [i \in 1..(n + 1) |-> IF i = 1 THEN s[i] ELSE g[i - 1] \o s[i]]
    BY <2>2, <2>b
  <2>4. Upto(n + 1)
    BY <2>3
  <2> HIDE DEF Upto
  <2> QED BY <2>4
<1>3. Len(s) \in S
  BY <1>1, <1>2, Induction
<1> QED BY <1>3 DEF Joins

LEMMA JoinAt ==
  ASSUME NEW s, Len(s) \in Nat, NEW f, Joins(f, s), NEW i \in 1..Len(s)
  PROVE  f[i] = IF i = 1 THEN s[i] ELSE f[i - 1] \o s[i]
  BY DEF Joins

LEMMA FlattenJoins ==
  ASSUME NEW s, Len(s) \in Nat \ {0}
  PROVE  \E f : Joins(f, s) /\ FlattenSeq(s) = f[Len(s)]
<1> DEFINE f == CHOOSE f : Joins(f, s)
<1>1. Joins(f, s)
  BY JoinExists
<1>2. FlattenSeq(s) = f[Len(s)]
  BY DEF FlattenSeq, Joins
<1> QED BY <1>1, <1>2

LEMMA JoinTyped ==
  ASSUME NEW T, NEW s \in Seq(Seq(T)), NEW f, Joins(f, s)
  PROVE  \A i \in 1..Len(s) : f[i] \in Seq(T)
<1> DEFINE S == {n \in Nat : n \in 1..Len(s) => f[n] \in Seq(T)}
<1>a. Len(s) \in Nat /\ \A i \in 1..Len(s) : s[i] \in Seq(T)
  OBVIOUS
<1>1. 0 \in S
  OBVIOUS
<1>2. ASSUME NEW n \in Nat, n \in S PROVE n + 1 \in S
  <2> SUFFICES ASSUME n + 1 \in 1..Len(s) PROVE f[n + 1] \in Seq(T)
    OBVIOUS
  <2>1. f[n + 1] = IF n + 1 = 1 THEN s[n + 1] ELSE f[n + 1 - 1] \o s[n + 1]
    BY <1>a, JoinAt
  <2>2. CASE n = 0
    BY <1>a, <2>1, <2>2
  <2>3. CASE n # 0
    <3>1. n + 1 # 1 /\ n + 1 - 1 = n /\ n \in 1..Len(s)
      BY <1>a, <2>3
    <3>2. f[n] \in Seq(T) /\ f[n + 1] = f[n] \o s[n + 1]
      BY <1>2, <2>1, <3>1
    <3> QED BY <1>a, <3>2
  <2> QED BY <2>2, <2>3
<1>3. Nat \subseteq S
  BY <1>1, <1>2, Induction
<1> QED BY <1>a, <1>3

\* Two such functions agree as far as one sequence begins the other.
LEMMA JoinsAgree ==
  ASSUME NEW s, NEW t, Len(s) \in Nat, Len(t) \in Nat, NEW f, NEW g, Joins(f, s), Joins(g, t),
         Len(s) <= Len(t), \A i \in 1..Len(s) : s[i] = t[i]
  PROVE  \A i \in 1..Len(s) : f[i] = g[i]
<1> DEFINE S == {n \in Nat : n \in 1..Len(s) => f[n] = g[n]}
<1>1. 0 \in S
  OBVIOUS
<1>2. ASSUME NEW n \in Nat, n \in S PROVE n + 1 \in S
  <2> SUFFICES ASSUME n + 1 \in 1..Len(s) PROVE f[n + 1] = g[n + 1]
    OBVIOUS
  <2>a. n + 1 \in 1..Len(s) /\ n + 1 \in 1..Len(t) /\ s[n + 1] = t[n + 1]
    OBVIOUS
  <2>1. f[n + 1] = IF n + 1 = 1 THEN s[n + 1] ELSE f[n + 1 - 1] \o s[n + 1]
    BY <2>a, JoinAt
  <2>2. g[n + 1] = IF n + 1 = 1 THEN t[n + 1] ELSE g[n + 1 - 1] \o t[n + 1]
    BY <2>a, JoinAt
  <2>3. n # 0 => n + 1 # 1 /\ n + 1 - 1 = n /\ f[n] = g[n]
    BY <1>2
  <2> QED BY <2>a, <2>1, <2>2, <2>3
<1>3. Nat \subseteq S
  BY <1>1, <1>2, Induction
<1> QED BY <1>3

LEMMA FlattenEmpty == FlattenSeq(<<>>) = <<>>
  BY DEF FlattenSeq

LEMMA FlattenTyped ==
  ASSUME NEW T, NEW s \in Seq(Seq(T))
  PROVE  FlattenSeq(s) \in Seq(T)
<1>1. CASE s = <<>>
  <2>1. <<>> \in Seq(T)
    OBVIOUS
  <2> QED BY <1>1, <2>1, FlattenEmpty
<1>2. CASE s # <<>>
  <2>1. Len(s) \in Nat \ {0}
    BY <1>2
  <2>2. PICK f : Joins(f, s) /\ FlattenSeq(s) = f[Len(s)]
    BY <2>1, FlattenJoins
  <2> QED BY <2>1, <2>2, JoinTyped
<1> QED BY <1>1, <1>2

\* What is queued last is heard last.
LEMMA FlattenAppend ==
  ASSUME NEW T, NEW s \in Seq(Seq(T)), NEW x \in Seq(T)
  PROVE  FlattenSeq(Append(s, x)) = Cat(FlattenSeq(s), x)
<1> USE DEF Cat
<1> DEFINE t == Append(s, x)
<1>1. /\ Len(s) \in Nat /\ Len(t) = Len(s) + 1 /\ Len(t) \in Nat \ {0}
      /\ t[Len(s) + 1] = x /\ \A i \in 1..Len(s) : t[i] = s[i]
  OBVIOUS
<1> HIDE DEF t
<1>2. PICK g : Joins(g, t) /\ FlattenSeq(t) = g[Len(t)]
  BY <1>1, FlattenJoins
<1>3. g[Len(t)] = IF Len(t) = 1 THEN t[Len(t)] ELSE g[Len(t) - 1] \o t[Len(t)]
  <2>1. Len(t) \in 1..Len(t) /\ Len(t) \in Nat
    BY <1>1
  <2> QED BY <1>2, <2>1, JoinAt
<1>4. CASE s = <<>>
  <2>1. Len(s) = 0 /\ FlattenSeq(s) = <<>> /\ <<>> \o x = x
    BY <1>4, FlattenEmpty
  <2> QED BY <1>1, <1>2, <1>3, <2>1 DEF t
<1>5. CASE s # <<>>
  <2>1. Len(s) \in Nat \ {0} /\ Len(s) \in 1..Len(s) /\ Len(t) # 1 /\ Len(t) - 1 = Len(s)
    BY <1>1, <1>5
  <2>2. PICK f : Joins(f, s) /\ FlattenSeq(s) = f[Len(s)]
    BY <2>1, FlattenJoins
  <2>3. \A i \in 1..Len(s) : f[i] = g[i]
    <3>1. Len(s) \in Nat /\ Len(t) \in Nat /\ Len(s) <= Len(t)
      BY <1>1
    <3>2. \A i \in 1..Len(s) : s[i] = t[i]
      BY <1>1
    <3> QED BY <1>2, <2>2, <3>1, <3>2, JoinsAgree
  <2>4. g[Len(s)] = FlattenSeq(s)
    BY <2>1, <2>2, <2>3
  <2> QED BY <1>1, <1>2, <1>3, <2>1, <2>4 DEF t
<1> QED BY <1>4, <1>5

LEMMA FlattenOne ==
  ASSUME NEW T, NEW x \in Seq(T)
  PROVE  FlattenSeq(<<x>>) = x
<1>1. <<x>> = Append(<<>>, x) /\ <<>> \in Seq(Seq(T))
  OBVIOUS
<1>2. FlattenSeq(Append(<<>>, x)) = Cat(FlattenSeq(<<>>), x)
  BY <1>1, FlattenAppend
<1>3. Cat(<<>>, x) = x
  BY CatEmpty
<1> QED BY <1>1, <1>2, <1>3, FlattenEmpty

\* Functions that join a sequence of sequences over T, and the same without the first.
JoinsWithTail(T, s, t, f, g) ==
  /\ Len(s) \in Nat /\ Len(t) \in Nat \ {0} /\ Len(s) = Len(t) + 1
  /\ \A i \in 1..Len(s) : s[i] \in Seq(T)
  /\ \A i \in 1..Len(t) : t[i] = s[i + 1] /\ g[i] \in Seq(T)
  /\ Joins(f, s) /\ Joins(g, t)

\* Leaving out the first sequence leaves out what it holds.
LEMMA JoinsTail ==
  ASSUME NEW T, NEW s, NEW t, NEW f, NEW g, JoinsWithTail(T, s, t, f, g)
  PROVE  f[Len(s)] = Cat(s[1], g[Len(t)])
<1>0. /\ Len(s) \in Nat /\ Len(t) \in Nat \ {0} /\ Len(s) = Len(t) + 1
      /\ \A i \in 1..Len(s) : s[i] \in Seq(T)
      /\ \A i \in 1..Len(t) : t[i] = s[i + 1] /\ g[i] \in Seq(T)
      /\ Joins(f, s) /\ Joins(g, t)
  BY DEF JoinsWithTail
<1> DEFINE S == {n \in Nat : n \in 1..Len(t) => f[n + 1] = s[1] \o g[n]}
<1>a. \A i \in 1..Len(s) : f[i] = IF i = 1 THEN s[i] ELSE f[i - 1] \o s[i]
  BY <1>0, JoinAt
<1>b. \A i \in 1..Len(t) : g[i] = IF i = 1 THEN t[i] ELSE g[i - 1] \o t[i]
  BY <1>0, JoinAt
<1>c. \A a, b, c \in Seq(T) : (a \o b) \o c = a \o (b \o c)
  OBVIOUS
<1>1. 0 \in S
  OBVIOUS
<1>2. ASSUME NEW n \in Nat, n \in S PROVE n + 1 \in S
  <2> SUFFICES ASSUME n + 1 \in 1..Len(t) PROVE f[n + 1 + 1] = s[1] \o g[n + 1]
    BY n + 1 \in Nat
  <2>1. PICK k \in 1..Len(s) : k = n + 1 + 1 /\ k # 1 /\ k - 1 = n + 1
    BY <1>0
  <2>2. f[k] = f[n + 1] \o s[k] /\ t[n + 1] = s[k]
    BY <1>0, <1>a, <2>1
  <2>3. g[n + 1] = IF n + 1 = 1 THEN t[n + 1] ELSE g[n + 1 - 1] \o t[n + 1]
    BY <1>b
  <2>4. CASE n = 0
    <3>1. n + 1 = 1 /\ 1 \in 1..Len(s)
      BY <1>0, <2>4
    <3>2. f[n + 1] = s[1] /\ g[n + 1] = s[k]
      BY <1>a, <2>2, <2>3, <3>1
    <3> QED BY <2>1, <2>2, <3>2
  <2>5. CASE n # 0
    <3>1. n \in 1..Len(t) /\ n + 1 # 1 /\ n + 1 - 1 = n /\ 1 \in 1..Len(s)
      BY <1>0, <2>5
    <3>2. f[n + 1] = s[1] \o g[n] /\ g[n + 1] = g[n] \o s[k]
      BY <1>2, <2>2, <2>3, <3>1
    <3>3. s[1] \in Seq(T) /\ g[n] \in Seq(T) /\ s[k] \in Seq(T)
      BY <1>0, <3>1
    <3>4. (s[1] \o g[n]) \o s[k] = s[1] \o (g[n] \o s[k])
      BY <1>c, <3>3, Zenon
    <3> QED BY <2>1, <2>2, <3>2, <3>4
  <2> QED BY <2>4, <2>5
<1>3. Nat \subseteq S
  BY <1>1, <1>2, Induction
<1>4. Len(t) \in S
  BY <1>0, <1>3
<1>5. Len(t) \in 1..Len(t)
  BY <1>0
<1> QED BY <1>0, <1>4, <1>5 DEF Cat

\* What is queued first is heard first.
LEMMA FlattenHead ==
  ASSUME NEW T, NEW s \in Seq(Seq(T)), s # <<>>
  PROVE  FlattenSeq(s) = Cat(Head(s), FlattenSeq(Tail(s)))
<1> DEFINE rest == Tail(s)
<1>1. /\ rest \in Seq(Seq(T)) /\ Len(s) \in Nat \ {0} /\ Len(rest) = Len(s) - 1
      /\ Head(s) = s[1] /\ \A i \in 1..Len(s) : s[i] \in Seq(T)
      /\ \A i \in 1..Len(rest) : rest[i] = s[i + 1]
  OBVIOUS
<1> HIDE DEF rest
<1>2. PICK f : Joins(f, s) /\ FlattenSeq(s) = f[Len(s)]
  BY <1>1, FlattenJoins
<1>3. CASE Len(s) = 1
  <2>1. rest = <<>> /\ s[1] \in Seq(T)
    BY <1>1, <1>3
  <2>a. Cat(s[1], <<>>) = s[1]
    BY <2>1, CatEmpty
  <2>2. f[1] = s[1]
    BY <1>1, <1>2, JoinAt
  <2> QED BY <1>1, <1>2, <1>3, <2>1, <2>a, <2>2, FlattenEmpty DEF rest
<1>4. CASE Len(s) # 1
  <2>1. Len(s) \in Nat /\ Len(rest) \in Nat \ {0} /\ Len(s) = Len(rest) + 1
    BY <1>1, <1>4
  <2>2. PICK g : Joins(g, rest) /\ FlattenSeq(rest) = g[Len(rest)]
    BY <2>1, FlattenJoins
  <2>3. \A i \in 1..Len(rest) : g[i] \in Seq(T)
    BY <1>1, <2>2, JoinTyped
  <2>4. f[Len(s)] = Cat(s[1], g[Len(rest)])
    <3>1. \A i \in 1..Len(s) : s[i] \in Seq(T)
      BY <1>1
    <3>2. \A i \in 1..Len(rest) : rest[i] = s[i + 1]
      BY <1>1
    <3>3. JoinsWithTail(T, s, rest, f, g)
      BY <1>2, <2>1, <2>2, <2>3, <3>1, <3>2 DEF JoinsWithTail
    <3> QED BY <3>3, JoinsTail
  <2> QED BY <1>1, <1>2, <2>2, <2>4 DEF rest
<1> QED BY <1>3, <1>4

(***************************************************************************)
(* The bytes of one encoder.                                               *)
(***************************************************************************)
\* The bytes of encoder e up to p, as many as there are in b.
Run(e, b, p) == \A i \in 1..Len(b) : b[i] = <<e, p - Len(b) + i>>

\* What a connection is to have heard of encoder e when it has published p bytes: in FLAC the
\* header and the last bytes, or everything.
Hears(fl, e, b, p) ==
  /\ Len(b) <= p
  /\ fl /\ Len(b) < HeaderSize => Len(b) = p
  /\ \A i \in 1..Len(b) : b[i] = <<e, IF fl /\ i <= HeaderSize THEN i ELSE p - Len(b) + i>>

LEMMA RunAt ==
  ASSUME NEW e, NEW p \in Nat, NEW b \in Chunk, Run(e, b, p), NEW i \in 1..Len(b)
  PROVE  b[i] = <<e, p - Len(b) + i>>
  BY DEF Run

LEMMA RunIs ==
  ASSUME NEW e, NEW p \in Nat, NEW b \in Chunk,
         \A i \in 1..Len(b) : b[i] = <<e, p - Len(b) + i>>
  PROVE  Run(e, b, p)
  BY DEF Run

LEMMA RunOn ==
  ASSUME NEW e, NEW p \in Nat, NEW size \in Nat, NEW b \in Chunk, NEW chunk \in Chunk,
         Run(e, b, p), Len(chunk) = size, Run(e, chunk, p + size)
  PROVE  Run(e, Cat(b, chunk), p + size)
<1>1. /\ Len(b) \in Nat /\ Len(Cat(b, chunk)) = Len(b) + size
      /\ \A i \in 1..Len(b) : Cat(b, chunk)[i] = b[i]
      /\ \A i \in 1..size : Cat(b, chunk)[Len(b) + i] = chunk[i]
  BY CatChunks
<1> SUFFICES ASSUME NEW i \in 1..(Len(b) + size)
             PROVE  Cat(b, chunk)[i] = <<e, p + size - (Len(b) + size) + i>>
  BY <1>1 DEF Run
<1>2. CASE i <= Len(b)
  <2>1. Cat(b, chunk)[i] = <<e, p - Len(b) + i>>
    BY <1>1, <1>2 DEF Run
  <2>2. p + size - (Len(b) + size) + i = p - Len(b) + i
    BY <1>1
  <2> QED BY <2>1, <2>2
<1>3. CASE i > Len(b)
  <2>1. PICK j \in 1..size : i = Len(b) + j
    <3>1. i - Len(b) \in 1..size /\ i = Len(b) + (i - Len(b))
      BY <1>1, <1>3
    <3> QED BY <3>1
  <2>2. Cat(b, chunk)[i] = chunk[j]
    BY <1>1, <2>1
  <2>3. chunk[j] = <<e, p + size - size + j>>
    BY DEF Run
  <2> QED BY <1>1, <2>1, <2>2, <2>3
<1> QED BY <1>1, <1>2, <1>3

\* A chunk more of the same encoder.
LEMMA HearsOn ==
  ASSUME NEW fl \in BOOLEAN, NEW e, NEW p \in Nat, NEW size \in Nat, NEW b \in Chunk,
         NEW chunk \in Chunk, Hears(fl, e, b, p), Len(chunk) = size, Run(e, chunk, p + size)
  PROVE  Hears(fl, e, Cat(b, chunk), p + size)
<1>1. /\ Len(b) \in Nat /\ Len(Cat(b, chunk)) = Len(b) + size
      /\ \A i \in 1..Len(b) : Cat(b, chunk)[i] = b[i]
      /\ \A i \in 1..size : Cat(b, chunk)[Len(b) + i] = chunk[i]
  BY CatChunks
<1>2. Len(b) <= p /\ (fl /\ Len(b) < HeaderSize => Len(b) = p) /\ HeaderSize \in Nat
  BY HeaderFits DEF Hears
<1>3. ASSUME NEW i \in 1..(Len(b) + size)
      PROVE  Cat(b, chunk)[i] =
               <<e, IF fl /\ i <= HeaderSize THEN i ELSE p + size - (Len(b) + size) + i>>
  <2>1. CASE i <= Len(b)
    <3>1. Cat(b, chunk)[i] = <<e, IF fl /\ i <= HeaderSize THEN i ELSE p - Len(b) + i>>
      BY <1>1, <2>1 DEF Hears
    <3>2. p + size - (Len(b) + size) + i = p - Len(b) + i
      BY <1>1
    <3> QED BY <3>1, <3>2
  <2>2. CASE i > Len(b)
    <3>1. PICK j \in 1..size : i = Len(b) + j
      <4>1. i - Len(b) \in 1..size /\ i = Len(b) + (i - Len(b))
        BY <1>1, <2>2
      <4> QED BY <4>1
    <3>2. Cat(b, chunk)[i] = <<e, p + size - size + j>>
      <4>1. Cat(b, chunk)[i] = chunk[j]
        BY <1>1, <3>1
      <4>2. chunk[j] = <<e, p + size - size + j>>
        BY DEF Run
      <4> QED BY <4>1, <4>2
    <3>3. p + size - size + j = p + j /\ p + size - (Len(b) + size) + i = p + j
      BY <1>1, <3>1
    <3>4. fl /\ i <= HeaderSize => p + j = i
      BY <1>1, <1>2, <3>1
    <3> QED BY <3>2, <3>3, <3>4
  <2> QED BY <1>1, <2>1, <2>2
<1>4. Len(b) + size <= p + size /\ (fl /\ Len(b) + size < HeaderSize => Len(b) + size = p + size)
  BY <1>1, <1>2
<1> QED BY <1>1, <1>3, <1>4 DEF Hears

LEMMA HearsOneStream ==
  ASSUME NEW b \in Chunk, NEW e, NEW p \in Nat, flac \in BOOLEAN, Hears(flac, e, b, p)
  PROVE  OneStream(b)
<1>a. DOMAIN b = 1..Len(b)
  BY DEF Chunk
<1>1. /\ Len(b) \in Nat /\ Len(b) <= p /\ HeaderSize \in Nat \ {0}
      /\ (flac /\ Len(b) < HeaderSize => Len(b) = p)
  BY HeaderFits DEF Hears, Chunk
<1>2. ASSUME NEW i \in 1..Len(b)
      PROVE  b[i] = <<e, IF flac /\ i <= HeaderSize THEN i ELSE p - Len(b) + i>>
  BY DEF Hears
<1> SUFFICES ASSUME NEW i \in 1..Len(b)
             PROVE  /\ b[i][1] = b[1][1]
                    /\ flac => b[1][2] = 1
                    /\ i > 1 /\ (~flac \/ i # HeaderSize + 1) => b[i][2] = b[i - 1][2] + 1
                    /\ flac /\ i = HeaderSize + 1 => b[i][2] > HeaderSize
  BY <1>a DEF OneStream
<1>3. 1 \in 1..Len(b)
  BY <1>1
<1>4. b[i][1] = b[1][1] /\ (flac => b[1] = <<e, 1>>)
  BY <1>1, <1>2, <1>3
<1>5. ASSUME i > 1, ~flac \/ i # HeaderSize + 1 PROVE b[i][2] = b[i - 1][2] + 1
  <2>1. i - 1 \in 1..Len(b)
    BY <1>1, <1>5
  <2>2. PICK n \in Int : b[i - 1] = <<e, n>> /\ b[i] = <<e, n + 1>>
    <3>1. CASE flac /\ i <= HeaderSize
      <4>1. b[i - 1] = <<e, i - 1>> /\ b[i] = <<e, i - 1 + 1>> /\ i - 1 \in Int
        BY <1>1, <1>2, <2>1, <3>1
      <4> QED BY <4>1
    <3>2. CASE ~(flac /\ i <= HeaderSize)
      <4>1. ~(flac /\ i - 1 <= HeaderSize)
        BY <1>1, <1>5, <3>2
      <4>2. b[i - 1] = <<e, p - Len(b) + (i - 1)>> /\ b[i] = <<e, p - Len(b) + i>>
        BY <1>2, <2>1, <3>2, <4>1
      <4>3. p - Len(b) + i = (p - Len(b) + (i - 1)) + 1 /\ p - Len(b) + (i - 1) \in Int
        BY <1>1
      <4> QED BY <4>2, <4>3
    <3> QED BY <3>1, <3>2
  <2> QED BY <2>2
<1>6. ASSUME flac, i = HeaderSize + 1 PROVE b[i][2] > HeaderSize
  <2>1. b[i] = <<e, p - Len(b) + i>> /\ p - Len(b) + i \in Int /\ p - Len(b) + i > HeaderSize
    BY <1>1, <1>2, <1>6
  <2> QED BY <2>1
<1> QED BY <1>4, <1>5, <1>6

\* What a stream begins with is one.
LEMMA StreamBegins ==
  ASSUME NEW a \in Chunk, NEW b \in Chunk, OneStream(Cat(a, b))
  PROVE  OneStream(a)
<1>1. /\ Len(a) \in Nat /\ Len(b) \in Nat /\ DOMAIN a = 1..Len(a)
      /\ DOMAIN Cat(a, b) = 1..(Len(a) + Len(b))
      /\ \A i \in 1..Len(a) : Cat(a, b)[i] = a[i]
  <2>1. Cat(a, b) \in Chunk
    BY CatChunks
  <2> QED BY <2>1, CatChunks DEF Chunk
<1> SUFFICES ASSUME NEW i \in 1..Len(a)
             PROVE  /\ a[i][1] = a[1][1]
                    /\ flac => a[1][2] = 1
                    /\ i > 1 /\ (~flac \/ i # HeaderSize + 1) => a[i][2] = a[i - 1][2] + 1
                    /\ flac /\ i = HeaderSize + 1 => a[i][2] > HeaderSize
  BY <1>1 DEF OneStream
<1>2. i \in 1..(Len(a) + Len(b)) /\ 1 \in 1..Len(a) /\ (i > 1 => i - 1 \in 1..Len(a))
  BY <1>1
<1> QED BY <1>1, <1>2 DEF OneStream

LEMMA LastBytesRun ==
  ASSUME NEW e, NEW p \in Nat, NEW n \in Nat, NEW b \in Chunk, Run(e, b, p)
  PROVE  /\ LastBytes(b, n) \in Chunk
         /\ Len(LastBytes(b, n)) \in Nat /\ Len(LastBytes(b, n)) <= n /\ Len(LastBytes(b, n)) <= Len(b)
         /\ Run(e, LastBytes(b, n), p)
<1>1. Len(b) \in Nat
  BY DEF Chunk
<1>2. CASE Len(b) <= n
  BY <1>1, <1>2 DEF LastBytes
<1>3. CASE Len(b) > n
  <2> DEFINE r == SubSeq(b, Len(b) - n + 1, Len(b))
  <2>1. LastBytes(b, n) = r
    BY <1>1, <1>3 DEF LastBytes
  <2>2. r \in Chunk /\ Len(r) = n /\ \A i \in 1..n : r[i] = b[Len(b) - n + i]
    BY <1>1, <1>3 DEF Chunk
  <2> HIDE DEF r
  <2>3. ASSUME NEW i \in 1..n PROVE r[i] = <<e, p - n + i>>
    <3>1. Len(b) - n + i \in 1..Len(b) /\ p - Len(b) + (Len(b) - n + i) = p - n + i
      BY <1>1, <1>3
    <3>2. b[Len(b) - n + i] = <<e, p - Len(b) + (Len(b) - n + i)>>
      BY <3>1 DEF Run
    <3> QED BY <2>2, <3>1, <3>2
  <2> QED BY <1>1, <1>3, <2>1, <2>2, <2>3 DEF Run
<1> QED BY <1>1, <1>2, <1>3

-----------------------------------------------------------------------------
(***************************************************************************)
(* The invariant: what the FLAC fanout keeps for the next listener, and    *)
(* what each connection has been given and is given still.                 *)
(***************************************************************************)
\* The header so far, or the header and the last bytes after it.
Prefix ==
  /\ ~flac \/ pump = "ended" => metadata = <<>> /\ header = <<>> /\ tail = <<>>
  /\ flac /\ pump = "reads" =>
       \/ /\ header = <<>> /\ tail = <<>>
          /\ Len(metadata) = position /\ position < HeaderSize /\ Run(encoder, metadata, position)
       \/ /\ metadata = <<>> /\ Len(header) = HeaderSize /\ Run(encoder, header, HeaderSize)
          /\ Len(tail) <= TailLimit /\ Len(tail) <= position - HeaderSize
          /\ Run(encoder, tail, position)

Encoders ==
  /\ pump # "ended" => encoder > 0
  /\ flac /\ pump = "drains" => subscribers = {}

\* The account of a queue: its chunks, their bytes and their times.
Accounted(c) ==
  /\ \A i \in 1..Len(queue[c]) : queue[c][i] # StreamClosed
  /\ buffered[c] = Len(FlattenSeq(queue[c])) /\ buffered[c] <= MaxBuffer
  /\ Len(published[c]) = Len(queue[c])
  /\ \A i, j \in 1..Len(published[c]) : i <= j => published[c][i] <= published[c][j]
  /\ \A i \in 1..Len(published[c]) : published[c][i] <= now
  /\ published[c] # <<>> => publishedAt < Head(published[c]) + MaxAge

\* A connection that joined between two encoders has heard nothing, any other the one that runs.
Follows(c) ==
  /\ pump = "ended" => Heard(c) = <<>>
  /\ pump # "ended" => Hears(flac, encoder, Heard(c), position)

Served(c) == state[c] = "open" /\ Accounted(c) /\ Follows(c)

NotServed(c) ==
  /\ queue[c] = IF state[c] = "open" THEN <<StreamClosed>> ELSE <<>>
  /\ OneStream(received[c])
  /\ state[c] = "new" => received[c] = <<>>

Fanout ==
  /\ TypeOK /\ Prefix /\ Encoders
  /\ \A c \in subscribers : Served(c)
  /\ \A c \in Clients \ subscribers : NotServed(c)

LEMMA Numbers ==
  /\ HeaderSize \in Nat \ {0} /\ TailLimit \in Nat \ {0} /\ MaxBuffer \in Nat \ {0}
  /\ MaxAge \in Nat \ {0} /\ MaxChunk \in Nat /\ MaxBytes \in Nat /\ MaxTime \in Nat
  /\ MaxEncoders \in Nat /\ MaxChunk <= MaxBuffer /\ HeaderSize + TailLimit <= MaxBuffer
  BY LimitsPositive, HeaderFits, Bounds

LEMMA HeardIs ==
  ASSUME TypeOK, NEW c \in Clients
  PROVE  /\ Heard(c) = Cat(received[c], FlattenSeq(queue[c])) /\ Heard(c) \in Chunk
         /\ received[c] \in Chunk /\ queue[c] \in Seq(Chunk) /\ FlattenSeq(queue[c]) \in Chunk
<1>1. received[c] \in Chunk /\ queue[c] \in Seq(Chunk)
  BY DEF TypeOK
<1>2. FlattenSeq(queue[c]) \in Chunk
  BY <1>1, FlattenTyped DEF Chunk
<1>3. Heard(c) = Cat(received[c], FlattenSeq(queue[c]))
  BY DEF Heard, Cat
<1> QED BY <1>1, <1>2, <1>3, CatChunks

\* No bytes and one encoder's bytes are a stream.
LEMMA FollowsOneStream ==
  ASSUME TypeOK, NEW c \in Clients, Follows(c)
  PROVE  OneStream(Heard(c)) /\ OneStream(received[c])
<1>1. OneStream(Heard(c))
  <2>1. CASE pump = "ended"
    BY <2>1 DEF Follows, OneStream
  <2>2. CASE pump # "ended"
    <3>1. Hears(flac, encoder, Heard(c), position) /\ position \in Nat /\ flac \in BOOLEAN
      BY <2>2, Numbers DEF Follows, TypeOK
    <3> QED BY <3>1, HeardIs, HearsOneStream
  <2> QED BY <2>1, <2>2
<1>2. OneStream(received[c])
  BY <1>1, HeardIs, StreamBegins
<1> QED BY <1>1, <1>2

\* The connections that a step closes.
LEMMA CloseNotServed ==
  ASSUME Fanout, UNCHANGED <<flac, clientVars>>, NEW c \in Clients,
         \/ c \in subscribers /\ queue'[c] = <<StreamClosed>>
         \/ c \notin subscribers /\ queue'[c] = queue[c]
  PROVE  NotServed(c)'
<1>1. state'[c] = state[c] /\ received'[c] = received[c] /\ flac' = flac
  BY DEF clientVars
<1>2. OneStream(received[c])
  BY FollowsOneStream DEF Fanout, Served, NotServed
<1>3. OneStream(received[c])'
  BY <1>1, <1>2 DEF OneStream
<1>4. CASE c \in subscribers /\ queue'[c] = <<StreamClosed>>
  BY <1>1, <1>3, <1>4 DEF Fanout, Served, NotServed
<1>5. CASE c \notin subscribers /\ queue'[c] = queue[c]
  BY <1>1, <1>3, <1>5 DEF Fanout, NotServed
<1> QED BY <1>4, <1>5

LEMMA ClosedTyped == <<StreamClosed>> \in Seq(Chunk) /\ <<>> \in Seq(Chunk) /\ <<>> \in Chunk /\ <<>> \in Seq(0..MaxTime)
<1>1. StreamClosed \in Chunk
  BY DEF StreamClosed, Chunk
<1> QED BY <1>1 DEF Chunk

LEMMA InitFanout == Init => Fanout
<1> SUFFICES ASSUME Init PROVE Fanout
  OBVIOUS
<1>1. TypeOK
  BY ClosedTyped, Numbers DEF Init, TypeOK
<1>2. Prefix /\ Encoders
  BY DEF Init, Prefix, Encoders
<1>3. ASSUME NEW c \in Clients PROVE NotServed(c)
  BY DEF Init, NotServed, OneStream
<1> QED BY <1>1, <1>2, <1>3 DEF Init, Fanout

\* close() of the fanout leaves it without connections, and each of them with the sentinel.
LEMMA CloseKeeps ==
  ASSUME Fanout, CloseFanout, UNCHANGED <<flac, encoder, position, clientVars, now, publishedAt>>,
         pump' \in {"drains", "ended"}, pump' # "ended" => encoder > 0
  PROVE  Fanout'
<1>1. /\ subscribers' = {} /\ metadata' = <<>> /\ header' = <<>> /\ tail' = <<>>
      /\ queue' = [c \in Clients |-> IF c \in subscribers THEN <<StreamClosed>> ELSE queue[c]]
      /\ buffered' = [c \in Clients |-> IF c \in subscribers THEN 0 ELSE buffered[c]]
      /\ published' = [c \in Clients |-> IF c \in subscribers THEN <<>> ELSE published[c]]
  BY DEF CloseFanout, CloseSubscriptions
<1>2. TypeOK'
  BY <1>1, ClosedTyped DEF Fanout, TypeOK, clientVars
<1>3. Prefix' /\ Encoders'
  BY <1>1 DEF Prefix, Encoders
<1>4. ASSUME NEW c \in Clients PROVE NotServed(c)'
  BY <1>1, CloseNotServed
<1> QED BY <1>1, <1>2, <1>3, <1>4 DEF Fanout

\* A connection that a step leaves alone.
LEMMA OthersKept ==
  ASSUME Fanout, UNCHANGED <<streamVars, publishedAt>>, now' >= now, now' \in Nat, NEW c \in Clients,
         UNCHANGED <<queue[c], buffered[c], published[c], state[c], received[c]>>
  PROVE  /\ c \in subscribers => Served(c)'
         /\ c \notin subscribers => NotServed(c)'
<1>1. Heard(c)' = Heard(c)
  BY DEF Heard
<1>2. now \in Nat /\ published[c] \in Seq(0..MaxTime)
  BY Numbers DEF Fanout, TypeOK
<1>3. ASSUME c \in subscribers PROVE Served(c)'
  <2>1. Accounted(c)'
    BY <1>2, <1>3, Numbers DEF Fanout, Served, Accounted
  <2>2. Follows(c)'
    BY <1>1, <1>3 DEF Fanout, Served, Follows, streamVars
  <2> QED BY <1>3, <2>1, <2>2 DEF Fanout, Served
<1>4. ASSUME c \notin subscribers PROVE NotServed(c)'
  BY <1>4 DEF Fanout, NotServed, OneStream, streamVars
<1> QED BY <1>3, <1>4

\* What a connection is given when it joins: nothing between two encoders, and a beginning of
\* the stream otherwise, which fits into its queue.
LEMMA JoinsWithPrefix ==
  ASSUME Fanout, NEW prefix \in JoinPrefixes, flac => pump # "drains"
  PROVE  /\ prefix \in Chunk /\ Len(prefix) <= MaxBuffer
         /\ pump = "ended" => prefix = <<>>
         /\ pump # "ended" => Hears(flac, encoder, prefix, position)
<1>a. /\ flac \in BOOLEAN /\ position \in Nat /\ pump \in {"reads", "drains", "ended"}
      /\ metadata \in Chunk /\ header \in Chunk /\ tail \in Chunk
  BY Numbers DEF Fanout, TypeOK
<1>1. CASE ~flac
  <2>1. prefix = <<>> /\ Len(prefix) = 0
    BY <1>1 DEF JoinPrefixes
  <2> QED BY <1>1, <1>a, <2>1, ClosedTyped, Numbers DEF Hears
<1>2. CASE flac /\ header = <<>>
  <2>1. prefix = metadata
    BY <1>2 DEF JoinPrefixes
  <2>2. CASE pump = "ended"
    BY <2>1, <2>2, ClosedTyped, Numbers DEF Fanout, Prefix
  <2>3. CASE pump # "ended"
    <3>1. Len(header) # HeaderSize
      BY <1>2, Numbers
    <3>2. Len(metadata) = position /\ position < HeaderSize /\ Run(encoder, metadata, position)
      BY <1>2, <1>a, <2>3, <3>1 DEF Fanout, Prefix
    <3>3. ASSUME NEW i \in 1..Len(metadata) PROVE metadata[i] = <<encoder, i>> /\ i <= HeaderSize
      <4>1. position - Len(metadata) + i = i /\ i <= HeaderSize
        BY <1>a, <3>2, Numbers
      <4> QED BY <3>2, <4>1 DEF Run
    <3> QED BY <1>2, <1>a, <2>1, <2>3, <3>2, <3>3, Numbers DEF Hears
  <2> QED BY <2>2, <2>3
<1>3. CASE flac /\ header # <<>>
  <2>1. pump = "reads" /\ Len(header) = HeaderSize /\ Run(encoder, header, HeaderSize)
        /\ Len(tail) <= TailLimit /\ Len(tail) <= position - HeaderSize /\ Run(encoder, tail, position)
    BY <1>3, <1>a DEF Fanout, Prefix
  <2>2. PICK i \in 1..(Len(tail) + 1) : prefix = Cat(header, SubSeq(tail, i, Len(tail)))
    BY <1>3 DEF JoinPrefixes, Cat
  <2>3. PICK b \in Chunk : /\ b = SubSeq(tail, i, Len(tail)) /\ Len(b) = Len(tail) + 1 - i
                           /\ Len(b) \in Nat /\ Len(b) <= Len(tail)
                           /\ \A j \in 1..Len(b) : b[j] = tail[i - 1 + j]
    <3>1. SubSeq(tail, i, Len(tail)) \in Chunk
      BY <1>a DEF Chunk
    <3>2. Len(SubSeq(tail, i, Len(tail))) = Len(tail) + 1 - i
      BY <1>a DEF Chunk
    <3>3. \A j \in 1..(Len(tail) + 1 - i) : SubSeq(tail, i, Len(tail))[j] = tail[i - 1 + j]
      BY <1>a DEF Chunk
    <3>4. Len(tail) + 1 - i \in Nat /\ Len(tail) + 1 - i <= Len(tail)
      BY <1>a DEF Chunk
    <3> QED BY <3>1, <3>2, <3>3, <3>4
  <2>4. /\ prefix \in Chunk /\ Len(prefix) = HeaderSize + Len(b)
        /\ \A j \in 1..HeaderSize : prefix[j] = header[j]
        /\ \A j \in 1..Len(b) : prefix[HeaderSize + j] = b[j]
    <3>1. prefix = Cat(header, b)
      BY <2>2, <2>3
    <3>2. header \in Chunk /\ b \in Chunk
      BY <1>a, <2>3
    <3>3. /\ Cat(header, b) \in Chunk /\ Len(Cat(header, b)) = Len(header) + Len(b)
          /\ \A j \in 1..Len(header) : Cat(header, b)[j] = header[j]
          /\ \A j \in 1..Len(b) : Cat(header, b)[Len(header) + j] = b[j]
      BY <3>2, CatChunks
    <3>4. Len(header) = HeaderSize
      BY <2>1
    <3> QED BY <3>1, <3>3, <3>4
  <2>5. Len(tail) \in Nat
    BY <1>a DEF Chunk
  <2>6. Len(prefix) <= MaxBuffer /\ Len(prefix) <= position
    BY <1>a, <2>1, <2>3, <2>4, <2>5, Numbers
  <2>7. ASSUME NEW j \in 1..HeaderSize PROVE prefix[j] = <<encoder, j>>
    <3>1. HeaderSize - Len(header) + j = j
      BY <2>1, Numbers
    <3>2. header[j] = <<encoder, HeaderSize - Len(header) + j>>
      BY <2>1 DEF Run
    <3> QED BY <2>4, <3>1, <3>2
  <2>8. ASSUME NEW j \in 1..Len(b)
        PROVE  prefix[HeaderSize + j] = <<encoder, position - Len(prefix) + (HeaderSize + j)>>
    <3>1. i - 1 + j \in 1..Len(tail)
      BY <2>3, <2>5
    <3>2. tail[i - 1 + j] = <<encoder, position - Len(tail) + (i - 1 + j)>>
      BY <2>1, <3>1 DEF Run
    <3>3. position - Len(tail) + (i - 1 + j) = position - Len(prefix) + (HeaderSize + j)
      BY <1>a, <2>3, <2>4, <2>5, Numbers
    <3> QED BY <2>3, <2>4, <3>2, <3>3
  <2>9. ASSUME NEW n \in 1..Len(prefix)
        PROVE  prefix[n] = <<encoder, IF n <= HeaderSize THEN n ELSE position - Len(prefix) + n>>
    <3>1. CASE n <= HeaderSize
      <4>1. n \in 1..HeaderSize
        BY <2>3, <2>4, <3>1, Numbers
      <4> QED BY <2>7, <3>1, <4>1
    <3>2. CASE n > HeaderSize
      <4>1. PICK j \in 1..Len(b) : n = HeaderSize + j
        <5>1. n - HeaderSize \in 1..Len(b) /\ n = HeaderSize + (n - HeaderSize)
          BY <2>3, <2>4, <3>2, Numbers
        <5> QED BY <5>1
      <4>2. ~(n <= HeaderSize)
        BY <2>3, <2>4, <3>2, Numbers
      <4> QED BY <2>8, <4>1, <4>2
    <3> QED BY <2>3, <2>4, <3>1, <3>2, Numbers
  <2>10. ~(Len(prefix) < HeaderSize)
    BY <2>3, <2>4, Numbers
  <2> QED BY <1>3, <2>1, <2>4, <2>6, <2>9, <2>10 DEF Hears
<1> QED BY <1>a, <1>1, <1>2, <1>3

\* publish() keeps what the next listener needs.
LEMMA CacheKeeps ==
  ASSUME Fanout, pump # "ended", NEW size \in Nat \ {0}, NEW chunk \in Chunk,
         Len(chunk) = size, Run(encoder, chunk, position + size),
         position' = position + size, UNCHANGED <<flac, encoder, pump>>,
         IF flac THEN CacheJoinPrefix(chunk) ELSE UNCHANGED prefixVars
  PROVE  /\ metadata' \in Chunk /\ header' \in Chunk /\ tail' \in Chunk
         /\ Prefix'
<1>a. /\ flac \in BOOLEAN /\ position \in Nat /\ pump \in {"reads", "drains", "ended"}
      /\ metadata \in Chunk /\ header \in Chunk /\ tail \in Chunk
      /\ Len(metadata) \in Nat /\ Len(header) \in Nat /\ Len(tail) \in Nat
  BY Numbers DEF Fanout, TypeOK, Chunk
<1>b. ASSUME NEW b \in Chunk
      PROVE  /\ LastBytes(b, TailLimit) \in Chunk
             /\ \A m, n \in Nat : SubSeq(b, m + 1, n) \in Chunk \/ ~(n <= Len(b))
  <2>1. LastBytes(b, TailLimit) \in Chunk
    BY Numbers DEF LastBytes, Chunk
  <2>2. ASSUME NEW m \in Nat, NEW n \in Nat, n <= Len(b) PROVE SubSeq(b, m + 1, n) \in Chunk
    BY <2>2 DEF Chunk
  <2> QED BY <2>1, <2>2
<1>1. CASE ~flac
  <2>1. UNCHANGED <<metadata, header, tail>>
    BY <1>1 DEF prefixVars
  <2> QED BY <1>1, <1>a, <2>1 DEF Fanout, Prefix
<1>2. CASE flac /\ header # <<>>
  <2>1. PICK d \in Chunk : d = Cat(tail, chunk)
    BY <1>a, CatChunks
  <2>2. tail' = LastBytes(d, TailLimit) /\ UNCHANGED <<metadata, header>>
    BY <1>2, <2>1 DEF CacheJoinPrefix, Cat
  <2>3. metadata' \in Chunk /\ header' \in Chunk /\ tail' \in Chunk
    BY <1>a, <1>b, <2>2
  <2>4. CASE pump = "reads"
    <3>1. /\ metadata = <<>> /\ Len(header) = HeaderSize /\ Run(encoder, header, HeaderSize)
          /\ Len(tail) <= position - HeaderSize /\ Run(encoder, tail, position)
      BY <1>2, <2>4 DEF Fanout, Prefix
    <3>2. Run(encoder, d, position + size)
      BY <1>a, <2>1, <3>1, RunOn
    <3>3. Len(d) = Len(tail) + size
      BY <1>a, <2>1, CatChunks
    <3>4. /\ Len(tail') \in Nat /\ Len(tail') <= TailLimit /\ Len(tail') <= Len(d)
          /\ Run(encoder, tail', position + size)
      BY <1>a, <2>2, <3>2, LastBytesRun, Numbers
    <3>5. Len(tail') <= position' - HeaderSize
      BY <1>a, <3>1, <3>3, <3>4, Numbers
    <3>6. Run(encoder', tail', position') /\ Run(encoder', header', HeaderSize)
      BY <2>2, <3>1, <3>4
    <3>7. flac' /\ pump' = "reads" /\ metadata' = <<>> /\ Len(header') = HeaderSize /\ Len(tail') <= TailLimit
      BY <1>2, <2>2, <2>4, <3>1, <3>4
    <3>8. Prefix'
      BY <3>5, <3>6, <3>7 DEF Prefix
    <3> QED BY <2>3, <3>8
  <2>5. CASE pump = "drains"
    BY <1>2, <2>3, <2>5 DEF Prefix
  <2> QED BY <1>a, <2>4, <2>5
<1>3. CASE flac /\ header = <<>>
  <2>a. Cat(metadata, chunk) \in Chunk
    <3>1. metadata \in Chunk /\ chunk \in Chunk
      BY <1>a
    <3> QED BY <3>1, CatChunks
  <2>1. PICK d \in Chunk : d = Cat(metadata, chunk)
    BY <2>a
  <2>2. Len(d) = Len(metadata) + size /\ Len(d) \in Nat /\ Len(d) > 0
    <3>1. metadata \in Chunk /\ chunk \in Chunk
      BY <1>a
    <3>2. Len(Cat(metadata, chunk)) = Len(metadata) + Len(chunk)
      BY <3>1, CatChunks
    <3> QED BY <1>a, <2>1, <3>2
  <2>3. IF Len(d) >= HeaderSize /\ d[1][2] = 1
        THEN /\ header' = SubSeq(d, 1, HeaderSize)
             /\ tail' = LastBytes(SubSeq(d, HeaderSize + 1, Len(d)), TailLimit)
             /\ metadata' = <<>>
        ELSE metadata' = d /\ UNCHANGED <<header, tail>>
    BY <1>3, <2>1 DEF CacheJoinPrefix, Cat
  <2>4. metadata' \in Chunk /\ header' \in Chunk /\ tail' \in Chunk
    <3>1. CASE Len(d) >= HeaderSize /\ d[1][2] = 1
      <4>1. SubSeq(d, 1, HeaderSize) \in Chunk /\ SubSeq(d, HeaderSize + 1, Len(d)) \in Chunk
        BY <2>2, <3>1, Numbers DEF Chunk
      <4> QED BY <1>b, <2>3, <3>1, <4>1, ClosedTyped
    <3>2. CASE ~(Len(d) >= HeaderSize /\ d[1][2] = 1)
      BY <1>a, <2>3, <3>2
    <3> QED BY <3>1, <3>2
  <2>5. CASE pump = "reads"
    <3>1. Len(header) # HeaderSize
      BY <1>3, Numbers
    <3>2. /\ tail = <<>> /\ Len(metadata) = position /\ position < HeaderSize
          /\ Run(encoder, metadata, position)
      BY <1>3, <2>5, <3>1 DEF Fanout, Prefix
    <3>q. PICK q \in Nat : q = position + size
      BY <1>a
    <3>3. Run(encoder, d, q)
      BY <1>a, <2>1, <3>2, <3>q, RunOn
    <3>4. Len(d) = q
      BY <2>2, <3>2, <3>q
    <3>5. \A i \in 1..Len(d) : d[i] = <<encoder, i>>
      <4> SUFFICES ASSUME NEW i \in 1..Len(d) PROVE d[i] = <<encoder, i>>
        OBVIOUS
      <4>1. q - Len(d) + i = i
        BY <3>4
      <4>2. d[i] = <<encoder, q - Len(d) + i>>
        BY <3>3, RunAt
      <4> QED BY <4>1, <4>2
    <3>6. d[1][2] = 1
      <4>1. 1 \in 1..Len(d)
        BY <2>2
      <4>2. d[1] = <<encoder, 1>>
        BY <3>5, <4>1
      <4> QED BY <4>2
    <3>7. CASE Len(d) >= HeaderSize
      <4>1. PICK h \in Chunk : h = SubSeq(d, 1, HeaderSize) /\ Len(h) = HeaderSize
                               /\ \A i \in 1..HeaderSize : h[i] = d[i]
        <5>1. SubSeq(d, 1, HeaderSize) \in Chunk
          BY <2>2, <3>7, Numbers DEF Chunk
        <5>2. Len(SubSeq(d, 1, HeaderSize)) = HeaderSize
          BY <2>2, <3>7, Numbers DEF Chunk
        <5>3. \A i \in 1..HeaderSize : SubSeq(d, 1, HeaderSize)[i] = d[i]
          BY <2>2, <3>7, Numbers DEF Chunk
        <5> QED BY <5>1, <5>2, <5>3
      <4>2. PICK r \in Chunk : r = SubSeq(d, HeaderSize + 1, Len(d)) /\ Len(r) = Len(d) - HeaderSize
                               /\ \A i \in 1..Len(r) : r[i] = d[HeaderSize + i]
        <5>1. SubSeq(d, HeaderSize + 1, Len(d)) \in Chunk
          BY <2>2, <3>7, Numbers DEF Chunk
        <5>2. Len(SubSeq(d, HeaderSize + 1, Len(d))) = Len(d) - HeaderSize
          BY <2>2, <3>7, Numbers DEF Chunk
        <5>3. \A i \in 1..(Len(d) - HeaderSize) : SubSeq(d, HeaderSize + 1, Len(d))[i] = d[HeaderSize + i]
          BY <2>2, <3>7, Numbers DEF Chunk
        <5> QED BY <5>1, <5>2, <5>3
      <4>3. Run(encoder, h, HeaderSize)
        <5> SUFFICES ASSUME NEW i \in 1..HeaderSize PROVE h[i] = <<encoder, HeaderSize - HeaderSize + i>>
          BY <4>1 DEF Run
        <5>1. i \in 1..Len(d) /\ HeaderSize - HeaderSize + i = i
          BY <2>2, <3>7, Numbers
        <5> QED BY <3>5, <4>1, <5>1
      <4>4. Run(encoder, r, q)
        <5>1. ASSUME NEW i \in 1..Len(r) PROVE r[i] = <<encoder, q - Len(r) + i>>
          <6>1. HeaderSize + i \in 1..Len(d) /\ q - Len(r) + i = HeaderSize + i
            BY <2>2, <3>4, <3>7, <4>2, Numbers
          <6> QED BY <3>5, <4>2, <6>1
        <5> QED BY <5>1, RunIs
      <4>5. header' = h /\ tail' = LastBytes(r, TailLimit) /\ metadata' = <<>>
        BY <2>3, <3>6, <3>7, <4>1, <4>2
      <4>6. /\ Len(tail') \in Nat /\ Len(tail') <= TailLimit /\ Len(tail') <= Len(r)
            /\ Run(encoder, tail', q)
        BY <4>4, <4>5, LastBytesRun, Numbers
      <4>7. Len(tail') <= position' - HeaderSize
        BY <3>q, <3>4, <4>2, <4>6, Numbers
      <4>8. Run(encoder', tail', position') /\ Run(encoder', header', HeaderSize)
        BY <3>q, <4>3, <4>5, <4>6
      <4>9. flac' /\ pump' = "reads" /\ metadata' = <<>> /\ Len(header') = HeaderSize /\ Len(tail') <= TailLimit
        BY <1>3, <2>5, <4>1, <4>5, <4>6
      <4>10. Prefix'
        BY <4>7, <4>8, <4>9 DEF Prefix
      <4> QED BY <2>4, <4>10
    <3>8. CASE ~(Len(d) >= HeaderSize)
      <4>1. metadata' = d /\ header' = <<>> /\ tail' = <<>> /\ Len(d) < HeaderSize
        BY <1>3, <2>2, <2>3, <3>2, <3>8, Numbers
      <4>2. Run(encoder', metadata', position') /\ Len(metadata') = position' /\ position' < HeaderSize
        BY <3>q, <3>3, <3>4, <4>1
      <4>3. flac' /\ pump' = "reads"
        BY <1>3, <2>5
      <4>4. Prefix'
        BY <4>1, <4>2, <4>3 DEF Prefix
      <4> QED BY <2>4, <4>4
    <3> QED BY <2>4, <3>7, <3>8
  <2>6. CASE pump = "drains"
    BY <1>3, <2>4, <2>6 DEF Prefix
  <2> QED BY <1>a, <2>4, <2>5, <2>6
<1> QED BY <1>1, <1>2, <1>3

LEMMA StartKeeps ==
  ASSUME Fanout, StartEncoder
  PROVE  Fanout'
<1>1. /\ encoder < MaxEncoders /\ pump = "ended" /\ encoder' = encoder + 1 /\ position' = 0
      /\ pump' = "reads" /\ flac' = flac /\ UNCHANGED <<metadata, header, tail, subscribers>>
      /\ UNCHANGED <<queue, buffered, published, state, received, now, publishedAt>>
  BY DEF StartEncoder, prefixVars, subscriberVars, clientVars
<1>2. TypeOK'
  BY <1>1, Numbers DEF Fanout, TypeOK
<1>3. Prefix'
  <2>1. metadata = <<>> /\ header = <<>> /\ tail = <<>>
    BY <1>1 DEF Fanout, Prefix
  <2>2. Run(encoder', metadata', position')
    BY <1>1, <2>1 DEF Run
  <2> QED BY <1>1, <2>1, <2>2, Numbers DEF Prefix
<1>4. Encoders'
  BY <1>1, Numbers DEF Fanout, TypeOK, Encoders
<1>5. ASSUME NEW c \in subscribers PROVE Served(c)'
  <2>1. Heard(c) = <<>> /\ Heard(c)' = Heard(c)
    BY <1>1 DEF Fanout, Served, Follows, Heard
  <2>2. Hears(flac', encoder', Heard(c)', position')
    BY <1>1, <2>1 DEF Hears
  <2>3. Follows(c)'
    BY <1>1, <2>2 DEF Follows
  <2>4. Accounted(c)'
    BY <1>1, <1>5 DEF Fanout, Served, Accounted
  <2> QED BY <1>1, <1>5, <2>3, <2>4 DEF Fanout, Served
<1>6. ASSUME NEW c \in Clients, c \notin subscribers PROVE NotServed(c)'
  BY <1>1, <1>6 DEF Fanout, NotServed, OneStream
<1> QED BY <1>1, <1>2, <1>3, <1>4, <1>5, <1>6 DEF Fanout

LEMMA StopKeeps ==
  ASSUME Fanout, StopEncoder
  PROVE  Fanout'
<1>1. pump' \in {"drains", "ended"} /\ (pump' # "ended" => encoder > 0)
  BY DEF StopEncoder, Fanout, TypeOK
<1> QED BY <1>1, CloseKeeps DEF StopEncoder

LEMMA EndKeeps ==
  ASSUME Fanout, OutputEnds
  PROVE  Fanout'
  BY CloseKeeps DEF OutputEnds

LEMMA TickKeeps ==
  ASSUME Fanout, Tick
  PROVE  Fanout'
<1>1. /\ now < MaxTime /\ now' = now + 1 /\ UNCHANGED streamVars
      /\ UNCHANGED <<flac, encoder, position, pump, metadata, header, tail, subscribers>>
      /\ UNCHANGED <<queue, buffered, published, state, received, publishedAt>>
  BY DEF Tick, streamVars, prefixVars, subscriberVars, clientVars
<1>2. TypeOK' /\ now' >= now /\ now' \in Nat
  BY <1>1, Numbers DEF Fanout, TypeOK
<1>3. Prefix' /\ Encoders'
  BY <1>1 DEF Fanout, Prefix, Encoders
<1>4. ASSUME NEW c \in Clients
      PROVE  (c \in subscribers => Served(c)') /\ (c \notin subscribers => NotServed(c)')
  BY <1>1, <1>2, OthersKept
<1>5. subscribers \subseteq Clients
  BY DEF Fanout, TypeOK
<1> QED BY <1>1, <1>2, <1>3, <1>4, <1>5 DEF Fanout

LEMMA UnsubscribeKeeps ==
  ASSUME Fanout, NEW c \in Clients, Unsubscribe(c)
  PROVE  Fanout'
<1>1. /\ state[c] = "open" /\ state' = [state EXCEPT ![c] = "closed"]
      /\ subscribers' = subscribers \ {c}
      /\ queue' = [queue EXCEPT ![c] = <<>>] /\ buffered' = [buffered EXCEPT ![c] = 0]
      /\ published' = [published EXCEPT ![c] = <<>>] /\ UNCHANGED streamVars
      /\ UNCHANGED <<flac, encoder, position, pump, metadata, header, tail>>
      /\ UNCHANGED <<received, now, publishedAt>>
  BY DEF Unsubscribe, streamVars, prefixVars
<1>2. TypeOK' /\ now \in Nat
  BY <1>1, ClosedTyped, Numbers DEF Fanout, TypeOK
<1>3. Prefix' /\ Encoders'
  BY <1>1 DEF Fanout, Prefix, Encoders
<1>4. ASSUME NEW d \in Clients, d # c
      PROVE  (d \in subscribers => Served(d)') /\ (d \notin subscribers => NotServed(d)')
  <2>1. UNCHANGED <<queue[d], buffered[d], published[d], state[d], received[d]>>
    BY <1>1, <1>4
  <2> QED BY <1>1, <1>2, <2>1, OthersKept
<1>5. NotServed(c)'
  <2>1. OneStream(received[c])
    BY FollowsOneStream DEF Fanout, Served, NotServed
  <2>2. OneStream(received[c])'
    BY <1>1, <2>1 DEF OneStream
  <2>3. queue'[c] = <<>> /\ state'[c] = "closed"
    BY <1>1 DEF Fanout, TypeOK
  <2> QED BY <2>2, <2>3 DEF NotServed
<1> QED BY <1>1, <1>2, <1>3, <1>4, <1>5 DEF Fanout, TypeOK

LEMMA StutterKeeps ==
  ASSUME Fanout, UNCHANGED vars
  PROVE  Fanout'
<1>1. /\ UNCHANGED <<flac, encoder, position, pump, metadata, header, tail, subscribers>>
      /\ UNCHANGED <<queue, buffered, published, state, received, now, publishedAt>>
  BY DEF vars, streamVars, prefixVars, subscriberVars, clientVars
<1>2. UNCHANGED streamVars /\ now \in Nat /\ subscribers \subseteq Clients
  BY <1>1, Numbers DEF streamVars, Fanout, TypeOK
<1>3. TypeOK' /\ Prefix' /\ Encoders'
  BY <1>1 DEF Fanout, TypeOK, Prefix, Encoders
<1>4. ASSUME NEW c \in Clients
      PROVE  (c \in subscribers => Served(c)') /\ (c \notin subscribers => NotServed(c)')
  BY <1>1, <1>2, OthersKept
<1> QED BY <1>1, <1>2, <1>3, <1>4 DEF Fanout

LEMMA SubscribeKeeps ==
  ASSUME Fanout, NEW c \in Clients, Subscribe(c)
  PROVE  Fanout'
<1>1. /\ state[c] = "new" /\ (flac => pump # "drains") /\ state' = [state EXCEPT ![c] = "open"]
      /\ subscribers' = subscribers \union {c} /\ UNCHANGED streamVars
      /\ UNCHANGED <<flac, encoder, position, pump, metadata, header, tail>>
      /\ UNCHANGED <<received, now, publishedAt>>
  BY DEF Subscribe, streamVars, prefixVars
<1>2. PICK prefix \in JoinPrefixes :
        /\ queue' = [queue EXCEPT ![c] = IF prefix = <<>> THEN <<>> ELSE <<prefix>>]
        /\ buffered' = [buffered EXCEPT ![c] = Len(prefix)]
        /\ published' = [published EXCEPT ![c] = IF prefix = <<>> THEN <<>> ELSE <<now>>]
  BY DEF Subscribe
<1>3. /\ prefix \in Chunk /\ Len(prefix) <= MaxBuffer
      /\ pump = "ended" => prefix = <<>>
      /\ pump # "ended" => Hears(flac, encoder, prefix, position)
  BY <1>1, JoinsWithPrefix
<1>4. Len(prefix) \in Nat /\ <<prefix>> \in Seq(Chunk) /\ <<now>> \in Seq(0..MaxTime) /\ now \in Nat
  BY <1>3, Numbers DEF Fanout, TypeOK, Chunk
<1>5. TypeOK'
  <2>1. queue' \in [Clients -> Seq(Chunk)]
    BY <1>2, <1>4, ClosedTyped DEF Fanout, TypeOK
  <2>2. buffered' \in [Clients -> Nat] /\ published' \in [Clients -> Seq(0..MaxTime)]
    BY <1>2, <1>4, ClosedTyped DEF Fanout, TypeOK
  <2> QED BY <1>1, <2>1, <2>2 DEF Fanout, TypeOK
<1>6. Prefix' /\ Encoders'
  BY <1>1 DEF Fanout, Prefix, Encoders
<1>7. ASSUME NEW d \in Clients, d # c
      PROVE  (d \in subscribers => Served(d)') /\ (d \notin subscribers => NotServed(d)')
  <2>1. UNCHANGED <<queue[d], buffered[d], published[d], state[d], received[d]>>
    BY <1>1, <1>2, <1>7
  <2> QED BY <1>1, <1>4, <2>1, OthersKept
<1>8. Served(c)'
  <2>1. /\ queue'[c] = (IF prefix = <<>> THEN <<>> ELSE <<prefix>>) /\ buffered'[c] = Len(prefix)
        /\ published'[c] = IF prefix = <<>> THEN <<>> ELSE <<now>>
        /\ state'[c] = "open"
    BY <1>1, <1>2 DEF Fanout, TypeOK
  <2>2. FlattenSeq(queue'[c]) = prefix
    <3>1. CASE prefix = <<>>
      BY <2>1, <3>1, FlattenEmpty
    <3>2. CASE prefix # <<>>
      BY <1>3, <2>1, <3>2, FlattenOne DEF Chunk
    <3> QED BY <3>1, <3>2
  <2>3. received'[c] = <<>>
    <3>1. c \notin subscribers
      BY <1>1 DEF Fanout, Served
    <3> QED BY <1>1, <3>1 DEF Fanout, NotServed
  <2>4. Heard(c)' = prefix
    <3>1. Heard(c)' = Cat(received'[c], FlattenSeq(queue'[c]))
      BY DEF Heard, Cat
    <3>2. Cat(<<>>, prefix) = prefix
      BY <1>3, CatEmpty DEF Chunk
    <3> QED BY <2>2, <2>3, <3>1, <3>2
  <2>5. Follows(c)'
    BY <1>1, <1>3, <2>4 DEF Follows
  <2>6. Accounted(c)'
    <3>1. CASE prefix = <<>>
      <4>1. queue'[c] = <<>> /\ published'[c] = <<>> /\ buffered'[c] = 0
        BY <2>1, <3>1
      <4>2. Len(FlattenSeq(queue'[c])) = 0
        BY <2>2, <3>1
      <4> QED BY <4>1, <4>2, Numbers DEF Accounted
    <3>2. CASE prefix # <<>>
      <4>1. queue'[c] = <<prefix>> /\ published'[c] = <<now>> /\ buffered'[c] = Len(prefix)
        BY <2>1, <3>2
      <4>2. buffered'[c] = Len(FlattenSeq(queue'[c])) /\ buffered'[c] <= MaxBuffer
        BY <1>3, <2>2, <4>1
      <4>3. publishedAt' < now + MaxAge /\ now' = now /\ now \in Nat
        BY <1>1, Numbers DEF Fanout, TypeOK
      <4>4. Len(<<prefix>>) = 1 /\ Len(<<now>>) = 1 /\ <<prefix>>[1] = prefix /\ <<now>>[1] = now
            /\ Head(<<now>>) = now
        OBVIOUS
      <4>5. \A i \in 1..1 : i = 1
        OBVIOUS
      <4> QED BY <3>2, <4>1, <4>2, <4>3, <4>4, <4>5 DEF Accounted, StreamClosed
    <3> QED BY <3>1, <3>2
  <2> QED BY <2>1, <2>5, <2>6 DEF Served
<1> QED BY <1>1, <1>5, <1>6, <1>7, <1>8 DEF Fanout, TypeOK

LEMMA TailFacts ==
  ASSUME NEW T, NEW s \in Seq(T), s # <<>>
  PROVE  /\ Head(s) \in T /\ Head(s) = s[1] /\ Tail(s) \in Seq(T)
         /\ Len(s) \in Nat \ {0} /\ Len(Tail(s)) = Len(s) - 1 /\ Len(Tail(s)) \in Nat
         /\ \A i \in 1..Len(Tail(s)) : Tail(s)[i] = s[i + 1] /\ i + 1 \in 1..Len(s)
         /\ Tail(s) # <<>> => Head(Tail(s)) = s[2] /\ 2 \in 1..Len(s)
<1>1. Head(s) \in T /\ Head(s) = s[1] /\ Tail(s) \in Seq(T)
  OBVIOUS
<1>2. Len(s) \in Nat \ {0} /\ Len(Tail(s)) = Len(s) - 1 /\ Len(Tail(s)) \in Nat
  OBVIOUS
<1>3. ASSUME NEW i \in 1..Len(Tail(s)) PROVE Tail(s)[i] = s[i + 1] /\ i + 1 \in 1..Len(s)
  OBVIOUS
<1>4. ASSUME Tail(s) # <<>> PROVE Head(Tail(s)) = s[2] /\ 2 \in 1..Len(s)
  <2>1. Len(Tail(s)) >= 1
    BY <1>1, <1>4
  <2>2. 1 \in 1..Len(Tail(s)) /\ 1 + 1 = 2
    BY <1>2, <2>1
  <2>3. Tail(s)[1] = s[2] /\ 2 \in 1..Len(s)
    BY <1>3, <2>2
  <2> QED BY <2>3
<1> QED BY <1>1, <1>2, <1>3, <1>4

\* What a served connection receives moves from its queue to what it has received.
LEMMA ReceivedIsHeard ==
  ASSUME TypeOK, NEW c \in Clients, queue[c] # <<>>, queue'[c] = Tail(queue[c]),
         received'[c] = received[c] \o Head(queue[c])
  PROVE  /\ Heard(c)' = Heard(c)
         /\ Len(FlattenSeq(queue[c])) = Len(Head(queue[c])) + Len(FlattenSeq(queue'[c]))
         /\ Len(Head(queue[c])) \in Nat /\ Len(FlattenSeq(queue'[c])) \in Nat
         /\ received'[c] \in Chunk
<1>1. received[c] \in Chunk /\ queue[c] \in Seq(Chunk)
  BY DEF TypeOK
<1>2. PICK h \in Chunk : h = Head(queue[c])
  BY <1>1, TailFacts
<1>3. PICK r \in Chunk : r = FlattenSeq(Tail(queue[c]))
  <2>1. Tail(queue[c]) \in Seq(Chunk)
    BY <1>1, TailFacts
  <2>2. FlattenSeq(Tail(queue[c])) \in Chunk
    BY <2>1, FlattenTyped DEF Chunk
  <2> QED BY <2>2
<1>4. FlattenSeq(queue[c]) = Cat(h, r)
  BY <1>1, <1>2, <1>3, FlattenHead DEF Chunk
<1>5. Heard(c) = Cat(received[c], Cat(h, r))
  BY <1>4, HeardIs
<1>6. Heard(c)' = Cat(Cat(received[c], h), r)
  <2>1. Heard(c)' = Cat(received'[c], FlattenSeq(queue'[c]))
    BY DEF Heard, Cat
  <2>2. received'[c] = Cat(received[c], h)
    BY <1>2 DEF Cat
  <2> QED BY <1>3, <2>1, <2>2
<1>7. Cat(Cat(received[c], h), r) = Cat(received[c], Cat(h, r))
  BY <1>1, CatAssociative DEF Chunk
<1>8. Len(Cat(h, r)) = Len(h) + Len(r) /\ Len(h) \in Nat /\ Len(r) \in Nat
  BY CatChunks
<1>9. received'[c] \in Chunk
  <2>1. Cat(received[c], h) \in Chunk
    BY <1>1, CatChunks
  <2> QED BY <1>2, <2>1 DEF Cat
<1> QED BY <1>2, <1>3, <1>4, <1>5, <1>6, <1>7, <1>8, <1>9

LEMMA ReceiveKeeps ==
  ASSUME Fanout, NEW c \in Clients, Receive(c)
  PROVE  Fanout'
<1>1. /\ state[c] = "open" /\ queue[c] # <<>> /\ queue' = [queue EXCEPT ![c] = Tail(queue[c])]
      /\ received' = [received EXCEPT ![c] = received[c] \o Head(queue[c])]
      /\ state' = [state EXCEPT ![c] = IF Head(queue[c]) = StreamClosed THEN "closed" ELSE "open"]
      /\ buffered' = [buffered EXCEPT ![c] =
           IF c \in subscribers THEN buffered[c] - Len(Head(queue[c])) ELSE buffered[c]]
      /\ published' = [published EXCEPT ![c] =
           IF c \in subscribers /\ published[c] # <<>> THEN Tail(published[c]) ELSE published[c]]
      /\ UNCHANGED streamVars
      /\ UNCHANGED <<flac, encoder, position, pump, metadata, header, tail>>
      /\ UNCHANGED <<subscribers, now, publishedAt>>
  BY DEF Receive, streamVars, prefixVars
<1>2. /\ queue[c] \in Seq(Chunk) /\ published[c] \in Seq(0..MaxTime) /\ received[c] \in Chunk
      /\ buffered[c] \in Nat /\ now \in Nat /\ subscribers \subseteq Clients
  BY Numbers DEF Fanout, TypeOK
<1>3. /\ queue'[c] = Tail(queue[c]) /\ received'[c] = received[c] \o Head(queue[c])
      /\ state'[c] = IF Head(queue[c]) = StreamClosed THEN "closed" ELSE "open"
  BY <1>1 DEF Fanout, TypeOK
<1>4. /\ Heard(c)' = Heard(c)
      /\ Len(FlattenSeq(queue[c])) = Len(Head(queue[c])) + Len(FlattenSeq(queue'[c]))
      /\ Len(Head(queue[c])) \in Nat /\ Len(FlattenSeq(queue'[c])) \in Nat
      /\ received'[c] \in Chunk
  BY <1>1, <1>3, ReceivedIsHeard DEF Fanout
<1>5. /\ buffered'[c] = IF c \in subscribers THEN buffered[c] - Len(Head(queue[c])) ELSE buffered[c]
      /\ published'[c] = IF c \in subscribers /\ published[c] # <<>> THEN Tail(published[c])
                         ELSE published[c]
  BY <1>1 DEF Fanout, TypeOK
<1>6. ASSUME c \in subscribers
      PROVE  buffered'[c] = Len(FlattenSeq(queue'[c])) /\ buffered'[c] <= MaxBuffer
  <2>1. buffered[c] = Len(FlattenSeq(queue[c])) /\ buffered[c] <= MaxBuffer
    BY <1>6 DEF Fanout, Served, Accounted
  <2>2. buffered'[c] = buffered[c] - Len(Head(queue[c]))
    BY <1>5, <1>6
  <2>3. PICK m \in Nat : m = Len(Head(queue[c]))
    BY <1>4
  <2>4. PICK n \in Nat : n = Len(FlattenSeq(queue'[c]))
    BY <1>4
  <2>5. buffered[c] = m + n
    BY <1>4, <2>1, <2>3, <2>4
  <2>6. buffered'[c] = n /\ n <= MaxBuffer
    BY <2>1, <2>2, <2>3, <2>5, Numbers
  <2> QED BY <2>4, <2>6
<1>7. TypeOK'
  <2>1. Tail(queue[c]) \in Seq(Chunk) /\ (published[c] # <<>> => Tail(published[c]) \in Seq(0..MaxTime))
    BY <1>1, <1>2, TailFacts
  <2>2. queue' \in [Clients -> Seq(Chunk)] /\ published' \in [Clients -> Seq(0..MaxTime)]
    BY <1>1, <1>2, <2>1 DEF Fanout, TypeOK
  <2>3. buffered'[c] \in Nat /\ received'[c] \in Chunk
    BY <1>2, <1>4, <1>5, <1>6
  <2>4. received' \in [Clients -> Chunk]
    BY <1>1, <1>3, <2>3 DEF Fanout, TypeOK
  <2>5. buffered' \in [Clients -> Nat]
    BY <1>1, <1>5, <2>3 DEF Fanout, TypeOK
  <2> QED BY <1>1, <2>2, <2>4, <2>5 DEF Fanout, TypeOK
<1>8. Prefix' /\ Encoders'
  BY <1>1 DEF Fanout, Prefix, Encoders
<1>9. ASSUME NEW d \in Clients, d # c
      PROVE  (d \in subscribers => Served(d)') /\ (d \notin subscribers => NotServed(d)')
  <2>1. UNCHANGED <<queue[d], buffered[d], published[d], state[d], received[d]>>
    BY <1>1, <1>9
  <2> QED BY <1>1, <1>2, <2>1, OthersKept
<1>10. ASSUME c \in subscribers PROVE Served(c)'
  <2>1. Head(queue[c]) # StreamClosed /\ Len(published[c]) = Len(queue[c])
    <3>1. 1 \in 1..Len(queue[c]) /\ Head(queue[c]) = queue[c][1]
      BY <1>1, <1>2, TailFacts
    <3> QED BY <1>10, <3>1 DEF Fanout, Served, Accounted
  <2>2. published[c] # <<>> /\ published'[c] = Tail(published[c])
    <3>1. Len(published[c]) \in Nat \ {0}
      BY <1>1, <1>2, <2>1, TailFacts
    <3> QED BY <1>2, <1>5, <1>10, <3>1
  <2>3. Len(published'[c]) = Len(queue'[c])
    <3>1. Len(published'[c]) = Len(published[c]) - 1
      BY <1>2, <2>2, TailFacts
    <3>2. Len(queue'[c]) = Len(queue[c]) - 1
      BY <1>1, <1>2, <1>3, TailFacts
    <3> QED BY <2>1, <3>1, <3>2
  <2>4. \A i \in 1..Len(queue'[c]) : queue'[c][i] # StreamClosed
    <3>1. \A i \in 1..Len(queue[c]) : queue[c][i] # StreamClosed
      BY <1>10 DEF Fanout, Served, Accounted
    <3>a. PICK q \in Seq(Chunk) : q = queue[c]
      BY <1>2
    <3>b. \A i \in 1..Len(Tail(q)) : Tail(q)[i] = q[i + 1] /\ i + 1 \in 1..Len(q)
      BY <1>1, <3>a, TailFacts
    <3>2. \A i \in 1..Len(queue'[c]) : queue'[c][i] = queue[c][i + 1] /\ i + 1 \in 1..Len(queue[c])
      BY <1>3, <3>a, <3>b
    <3> QED BY <3>1, <3>2
  <2>5. \A i \in 1..Len(published'[c]) :
          published'[c][i] = published[c][i + 1] /\ i + 1 \in 1..Len(published[c])
    BY <1>2, <2>2, TailFacts
  <2>6. /\ \A i, j \in 1..Len(published[c]) : i <= j => published[c][i] <= published[c][j]
        /\ \A i \in 1..Len(published[c]) : published[c][i] <= now
        /\ publishedAt < Head(published[c]) + MaxAge
    BY <1>10, <2>2 DEF Fanout, Served, Accounted
  <2>7. \A i \in 1..Len(published'[c]) : published'[c][i] <= now'
    BY <1>1, <2>5, <2>6
  <2>8. \A i, j \in 1..Len(published'[c]) : i <= j => published'[c][i] <= published'[c][j]
    <3> SUFFICES ASSUME NEW i \in 1..Len(published'[c]), NEW j \in 1..Len(published'[c]), i <= j
                 PROVE  published'[c][i] <= published'[c][j]
      OBVIOUS
    <3>1. i + 1 <= j + 1
      OBVIOUS
    <3>2. published[c][i + 1] <= published[c][j + 1]
      BY <2>5, <2>6, <3>1
    <3> QED BY <2>5, <3>2
  <2>9. ASSUME published'[c] # <<>> PROVE publishedAt' < Head(published'[c]) + MaxAge
    <3>1. Head(published'[c]) = published[c][2] /\ Head(published[c]) = published[c][1]
          /\ 2 \in 1..Len(published[c]) /\ 1 \in 1..Len(published[c])
      BY <1>2, <2>2, <2>9, TailFacts
    <3>2. published[c][1] <= published[c][2]
      BY <2>6, <3>1
    <3>3. published[c][1] \in Nat /\ published[c][2] \in Nat /\ publishedAt \in Nat
      BY <1>2, <3>1, Numbers DEF Fanout, TypeOK
    <3> QED BY <1>1, <2>6, <3>1, <3>2, <3>3, Numbers
  <2>10. Accounted(c)'
    BY <1>6, <1>10, <2>3, <2>4, <2>7, <2>8, <2>9 DEF Accounted
  <2>11. Follows(c)'
    BY <1>1, <1>4, <1>10 DEF Fanout, Served, Follows
  <2>12. state'[c] = "open"
    BY <1>3, <2>1
  <2> QED BY <2>10, <2>11, <2>12 DEF Served
<1>11. ASSUME c \notin subscribers PROVE NotServed(c)'
  <2>1. queue[c] = <<StreamClosed>> /\ OneStream(received[c])
    BY <1>1, <1>11 DEF Fanout, NotServed
  <2>2. Head(queue[c]) = StreamClosed /\ Tail(queue[c]) = <<>>
    BY <2>1
  <2>3. state'[c] = "closed" /\ queue'[c] = <<>>
    BY <1>3, <2>2
  <2>4. received'[c] = received[c]
    BY <1>2, <1>3, <2>2, CatEmpty DEF Cat, StreamClosed, Chunk
  <2>5. OneStream(received[c])'
    BY <1>1, <2>1, <2>4 DEF OneStream
  <2> QED BY <2>3, <2>5 DEF NotServed
<1> QED BY <1>1, <1>2, <1>7, <1>8, <1>9, <1>10, <1>11 DEF Fanout

LEMMA AppendFacts ==
  ASSUME NEW T, NEW s \in Seq(T), NEW x \in T
  PROVE  /\ Append(s, x) \in Seq(T) /\ Len(s) \in Nat /\ Len(Append(s, x)) = Len(s) + 1
         /\ Append(s, x)[Len(s) + 1] = x /\ \A i \in 1..Len(s) : Append(s, x)[i] = s[i]
         /\ Head(Append(s, x)) = IF s = <<>> THEN x ELSE Head(s)
  OBVIOUS

\* What publish() queues for a connection is heard after everything before it.
LEMMA QueuedIsHeard ==
  ASSUME TypeOK, NEW c \in Clients, NEW chunk \in Chunk,
         queue'[c] = Append(queue[c], chunk), received'[c] = received[c]
  PROVE  /\ Heard(c)' = Cat(Heard(c), chunk)
         /\ Len(FlattenSeq(queue'[c])) = Len(FlattenSeq(queue[c])) + Len(chunk)
<1>1. received[c] \in Chunk /\ queue[c] \in Seq(Chunk) /\ FlattenSeq(queue[c]) \in Chunk
  BY HeardIs
<1>2. FlattenSeq(queue'[c]) = Cat(FlattenSeq(queue[c]), chunk)
  BY <1>1, FlattenAppend DEF Chunk
<1>3. Heard(c)' = Cat(received[c], Cat(FlattenSeq(queue[c]), chunk))
  <2>1. Heard(c)' = Cat(received'[c], FlattenSeq(queue'[c]))
    BY DEF Heard, Cat
  <2> QED BY <1>2, <2>1
<1>4. Heard(c) = Cat(received[c], FlattenSeq(queue[c]))
  BY HeardIs
<1>5. Cat(Cat(received[c], FlattenSeq(queue[c])), chunk)
        = Cat(received[c], Cat(FlattenSeq(queue[c]), chunk))
  BY <1>1, CatAssociative DEF Chunk
<1>6. Len(Cat(FlattenSeq(queue[c]), chunk)) = Len(FlattenSeq(queue[c])) + Len(chunk)
  BY <1>1, CatChunks
<1> QED BY <1>2, <1>3, <1>4, <1>5, <1>6

\* The chunk that is published now.
LEMMA ChunkIs ==
  ASSUME Fanout, pump # "ended", NEW size \in Nat \ {0}, position + size <= MaxBytes
  PROVE  LET chunk == [i \in 1..size |-> <<encoder, position + i>>]
         IN /\ chunk \in Chunk /\ Len(chunk) = size /\ chunk # <<>>
            /\ Run(encoder, chunk, position + size)
<1> DEFINE chunk == [i \in 1..size |-> <<encoder, position + i>>]
<1>1. encoder \in 1..MaxEncoders /\ position \in Nat
  BY Numbers DEF Fanout, TypeOK, Encoders
<1>2. ASSUME NEW i \in 1..size PROVE <<encoder, position + i>> \in Byte
  <2>1. position + i \in 1..MaxBytes
    BY <1>1, Numbers
  <2> QED BY <1>1, <2>1 DEF Byte
<1>3. chunk \in Seq(Byte) /\ Len(chunk) = size /\ chunk # <<>>
  BY <1>2
<1>4. \A i \in 1..size : chunk[i] = <<encoder, position + i>>
  OBVIOUS
<1> HIDE DEF chunk
<1>5. PICK q \in Nat : q = position + size
  BY <1>1
<1>6. ASSUME NEW i \in 1..Len(chunk) PROVE chunk[i] = <<encoder, q - Len(chunk) + i>>
  <2>1. q - Len(chunk) + i = position + i
    BY <1>1, <1>3, <1>5
  <2> QED BY <1>3, <1>4, <2>1
<1>7. chunk \in Chunk
  BY <1>3 DEF Chunk
<1>8. Run(encoder, chunk, q)
  BY <1>6, <1>7, RunIs
<1> QED BY <1>3, <1>5, <1>7, <1>8 DEF chunk

LEMMA PublishKeeps ==
  ASSUME Fanout, NEW size \in 1..MaxChunk, Publish(size)
  PROVE  Fanout'
<1>1. /\ pump # "ended" /\ position + size <= MaxBytes
      /\ position' = position + size /\ publishedAt' = now
      /\ subscribers' = subscribers \ Slow(size)
      /\ UNCHANGED <<flac, encoder, pump, clientVars, now>>
      /\ UNCHANGED <<flac, encoder, pump, state, received, now>>
  BY DEF Publish, clientVars
<1>2. size \in Nat \ {0}
  BY Numbers
<1>3. PICK chunk \in Chunk :
        /\ chunk = [i \in 1..size |-> <<encoder, position + i>>]
        /\ Len(chunk) = size /\ chunk # <<>> /\ Run(encoder, chunk, position + size)
  BY <1>1, <1>2, ChunkIs
<1>4. /\ queue' = [c \in Clients |-> IF c \in Slow(size) THEN <<StreamClosed>>
                                     ELSE IF c \in subscribers THEN Append(queue[c], chunk)
                                     ELSE queue[c]]
      /\ buffered' = [c \in Clients |-> IF c \in Slow(size) THEN 0
                                        ELSE IF c \in subscribers THEN buffered[c] + size
                                        ELSE buffered[c]]
      /\ published' = [c \in Clients |-> IF c \in Slow(size) THEN <<>>
                                         ELSE IF c \in subscribers THEN Append(published[c], now)
                                         ELSE published[c]]
      /\ IF flac THEN CacheJoinPrefix(chunk) ELSE UNCHANGED prefixVars
  BY <1>3 DEF Publish
<1>5. metadata' \in Chunk /\ header' \in Chunk /\ tail' \in Chunk /\ Prefix'
  BY <1>1, <1>2, <1>3, <1>4, CacheKeeps
<1>6. /\ position \in Nat /\ now \in Nat /\ now \in 0..MaxTime /\ subscribers \subseteq Clients
      /\ queue \in [Clients -> Seq(Chunk)] /\ buffered \in [Clients -> Nat]
      /\ published \in [Clients -> Seq(0..MaxTime)] /\ flac \in BOOLEAN
      /\ Slow(size) \subseteq subscribers
  BY Numbers DEF Fanout, TypeOK, Slow
<1>7. TypeOK'
  <2>1. \A c \in Clients : Append(queue[c], chunk) \in Seq(Chunk)
                           /\ Append(published[c], now) \in Seq(0..MaxTime)
    BY <1>6, AppendFacts
  <2>2. queue' \in [Clients -> Seq(Chunk)] /\ published' \in [Clients -> Seq(0..MaxTime)]
    BY <1>4, <1>6, <2>1, ClosedTyped
  <2>3. buffered' \in [Clients -> Nat]
    BY <1>2, <1>4, <1>6
  <2>4. position' \in 0..MaxBytes /\ publishedAt' \in 0..now'
    BY <1>1, <1>2, <1>6, Numbers
  <2> QED BY <1>1, <1>5, <1>6, <2>2, <2>3, <2>4 DEF Fanout, TypeOK
<1>8. Encoders'
  BY <1>1 DEF Fanout, Encoders
<1>9. ASSUME NEW c \in subscribers, c \in Slow(size) PROVE NotServed(c)'
  <2>1. queue'[c] = <<StreamClosed>> /\ c \in Clients
    BY <1>4, <1>6, <1>9
  <2> QED BY <1>1, <2>1, CloseNotServed
<1>10. ASSUME NEW c \in Clients, c \notin subscribers PROVE NotServed(c)'
  <2>1. queue'[c] = queue[c]
    BY <1>4, <1>6, <1>10
  <2> QED BY <1>1, <1>10, <2>1, CloseNotServed
<1>11. ASSUME NEW c \in subscribers, c \notin Slow(size) PROVE Served(c)'
  <2>1. /\ queue'[c] = Append(queue[c], chunk) /\ buffered'[c] = buffered[c] + size
        /\ published'[c] = Append(published[c], now) /\ received'[c] = received[c]
        /\ state'[c] = state[c] /\ c \in Clients
    BY <1>1, <1>4, <1>6, <1>11
  <2>2. /\ Heard(c)' = Cat(Heard(c), chunk)
        /\ Len(FlattenSeq(queue'[c])) = Len(FlattenSeq(queue[c])) + Len(chunk)
    BY <2>1, QueuedIsHeard DEF Fanout
  <2>3. Served(c) /\ Follows(c) /\ Heard(c) \in Chunk
    BY <2>1, HeardIs DEF Fanout, Served
  <2>4. Follows(c)'
    <3>1. Hears(flac, encoder, Heard(c), position)
      BY <1>1, <2>3 DEF Follows
    <3>2. Hears(flac, encoder, Cat(Heard(c), chunk), position + size)
      BY <1>2, <1>3, <1>6, <2>3, <3>1, HearsOn
    <3>3. Hears(flac', encoder', Heard(c)', position')
      BY <1>1, <2>2, <3>2
    <3> QED BY <1>1, <3>3 DEF Follows
  <2>5. PICK q \in Seq(Chunk) : q = queue[c]
    BY <1>6, <2>1
  <2>6. PICK times \in Seq(0..MaxTime) : times = published[c]
    BY <1>6, <2>1
  <2>7. /\ \A i \in 1..Len(q) : q[i] # StreamClosed
        /\ buffered[c] = Len(FlattenSeq(queue[c])) /\ Len(times) = Len(q)
        /\ \A i, j \in 1..Len(times) : i <= j => times[i] <= times[j]
        /\ \A i \in 1..Len(times) : times[i] <= now
    BY <2>3, <2>5, <2>6 DEF Served, Accounted
  <2>8. ~TooOld(c) /\ ~(buffered[c] + size > MaxBuffer) /\ buffered[c] \in Nat
    BY <1>6, <1>11, <2>1 DEF Slow
  <2>9. \A i \in 1..Len(queue'[c]) : queue'[c][i] # StreamClosed
    <3>1. /\ Len(q) \in Nat /\ Len(Append(q, chunk)) = Len(q) + 1
          /\ Append(q, chunk)[Len(q) + 1] = chunk
          /\ \A i \in 1..Len(q) : Append(q, chunk)[i] = q[i]
      BY AppendFacts
    <3>2. \A i \in 1..(Len(q) + 1) : i \in 1..Len(q) \/ i = Len(q) + 1
      BY <3>1
    <3>3. chunk # StreamClosed
      BY <1>3 DEF StreamClosed
    <3>4. \A i \in 1..Len(Append(q, chunk)) : Append(q, chunk)[i] # StreamClosed
      BY <2>7, <3>1, <3>2, <3>3
    <3> QED BY <2>1, <2>5, <3>4
  <2>10. buffered'[c] = Len(FlattenSeq(queue'[c])) /\ buffered'[c] <= MaxBuffer
    <3>1. buffered'[c] = Len(FlattenSeq(queue'[c]))
      BY <1>3, <2>1, <2>2, <2>7
    <3>2. buffered'[c] <= MaxBuffer
      BY <1>2, <2>1, <2>8, Numbers
    <3> QED BY <3>1, <3>2
  <2>11. /\ Len(times) \in Nat /\ Len(Append(times, now)) = Len(times) + 1
         /\ Append(times, now)[Len(times) + 1] = now
         /\ \A i \in 1..Len(times) : Append(times, now)[i] = times[i]
         /\ Head(Append(times, now)) = IF times = <<>> THEN now ELSE Head(times)
    BY <1>6, AppendFacts
  <2>12. Len(published'[c]) = Len(queue'[c])
    <3>1. Len(Append(q, chunk)) = Len(q) + 1
      BY AppendFacts
    <3> QED BY <2>1, <2>5, <2>6, <2>7, <2>11, <3>1
  <2>13. \A i \in 1..(Len(times) + 1) : i \in 1..Len(times) \/ i = Len(times) + 1
    BY <2>11
  <2>14. \A i \in 1..(Len(times) + 1) : Append(times, now)[i] <= now
    <3>1. now <= now
      BY <1>6
    <3> QED BY <2>7, <2>11, <2>13, <3>1
  <2>15. \A i, j \in 1..(Len(times) + 1) : i <= j => Append(times, now)[i] <= Append(times, now)[j]
    <3> SUFFICES ASSUME NEW i \in 1..(Len(times) + 1), NEW j \in 1..(Len(times) + 1), i <= j
                 PROVE  Append(times, now)[i] <= Append(times, now)[j]
      OBVIOUS
    <3>1. CASE j = Len(times) + 1
      BY <2>11, <2>14, <3>1
    <3>2. CASE j \in 1..Len(times)
      <4>1. i \in 1..Len(times)
        BY <2>11, <3>2
      <4> QED BY <2>7, <2>11, <3>2, <4>1
    <3> QED BY <2>13, <3>1, <3>2
  <2>16. publishedAt' < Head(published'[c]) + MaxAge
    <3>1. CASE times = <<>>
      <4>1. Head(published'[c]) = now
        BY <2>1, <2>6, <2>11, <3>1
      <4> QED BY <1>1, <1>6, <4>1, Numbers
    <3>2. CASE times # <<>>
      <4>1. Head(published'[c]) = Head(times) /\ Head(times) \in Nat
        BY <2>1, <2>6, <2>11, <3>2, Numbers, TailFacts
      <4>2. ~(now - Head(times) >= MaxAge)
        BY <2>6, <2>8, <3>2 DEF TooOld
      <4>3. PICK h \in Nat : h = Head(times) /\ h = Head(published'[c])
        BY <4>1
      <4>4. now < h + MaxAge
        BY <1>6, <4>2, <4>3, Numbers
      <4> QED BY <1>1, <4>3, <4>4
    <3> QED BY <3>1, <3>2
  <2>17. published'[c] = Append(times, now) /\ now' = now
    BY <1>1, <2>1, <2>6
  <2>18. Accounted(c)'
    BY <2>9, <2>10, <2>11, <2>12, <2>14, <2>15, <2>16, <2>17 DEF Accounted
  <2> QED BY <2>1, <2>3, <2>4, <2>18 DEF Served
<1> QED BY <1>1, <1>5, <1>6, <1>7, <1>8, <1>9, <1>10, <1>11 DEF Fanout

LEMMA StepFanout == Fanout /\ [Next]_vars => Fanout'
<1> SUFFICES ASSUME Fanout, [Next]_vars PROVE Fanout'
  OBVIOUS
<1>1. CASE StartEncoder
  BY <1>1, StartKeeps
<1>2. CASE StopEncoder
  BY <1>2, StopKeeps
<1>3. CASE OutputEnds
  BY <1>3, EndKeeps
<1>4. CASE Tick
  BY <1>4, TickKeeps
<1>5. ASSUME NEW size \in 1..MaxChunk, Publish(size) PROVE Fanout'
  BY <1>5, PublishKeeps
<1>6. ASSUME NEW c \in Clients, Subscribe(c) PROVE Fanout'
  BY <1>6, SubscribeKeeps
<1>7. ASSUME NEW c \in Clients, Receive(c) PROVE Fanout'
  BY <1>7, ReceiveKeeps
<1>8. ASSUME NEW c \in Clients, Unsubscribe(c) PROVE Fanout'
  BY <1>8, UnsubscribeKeeps
<1>9. CASE UNCHANGED vars
  BY <1>9, StutterKeeps
<1> QED BY <1>1, <1>2, <1>3, <1>4, <1>5, <1>6, <1>7, <1>8, <1>9 DEF Next

LEMMA AlwaysFanout == Spec => []Fanout
  BY InitFanout, StepFanout, PTL DEF Spec

-----------------------------------------------------------------------------
\* Every variable of the fanout stays within its type.
THEOREM TypeCorrect == Spec => []TypeOK
<1>1. Fanout => TypeOK
  BY DEF Fanout
<1> QED BY <1>1, AlwaysFanout, PTL

\* Whenever a connection joins, and whatever becomes of the encoders, it is given the bytes of
\* one encoder, in FLAC the whole header first, without a gap, and while it is subscribed all of
\* them up to now: the prefix that subscribe() hands out (audio_streams.py:191) ends where the
\* chunks that publish() queues begin, however the audio was cut into chunks.
THEOREM OneStreamIsHeard == Spec => []EachHearsOneStream
<1>1. Fanout => EachHearsOneStream
  <2> SUFFICES ASSUME Fanout, NEW c \in Clients
               PROVE  /\ OneStream(Heard(c))
                      /\ c \in subscribers /\ Heard(c) # <<>> /\ pump # "ended" /\ position > 0 =>
                           Heard(c)[Len(Heard(c))] \in {<<encoder, position>>, <<encoder, HeaderSize>>}
    BY DEF EachHearsOneStream
  <2>1. TypeOK /\ flac \in BOOLEAN /\ position \in Nat
    BY Numbers DEF Fanout, TypeOK
  <2>2. CASE c \in subscribers
    <3>1. OneStream(Heard(c))
      BY <2>1, <2>2, FollowsOneStream DEF Fanout, Served
    <3>2. ASSUME Heard(c) # <<>>, pump # "ended"
          PROVE  Heard(c)[Len(Heard(c))] \in {<<encoder, position>>, <<encoder, HeaderSize>>}
      <4>1. Hears(flac, encoder, Heard(c), position)
        BY <2>2, <3>2 DEF Fanout, Served, Follows
      <4>2. PICK b \in Chunk : b = Heard(c)
        BY <2>1, HeardIs
      <4>3. Len(b) \in 1..Len(b) /\ Len(b) \in Nat
        BY <3>2, <4>2 DEF Chunk
      <4>4. b[Len(b)] = <<encoder, IF flac /\ Len(b) <= HeaderSize THEN Len(b) ELSE position - Len(b) + Len(b)>>
        BY <4>1, <4>2, <4>3 DEF Hears
      <4>5. position - Len(b) + Len(b) = position
        BY <2>1, <4>3
      <4>6. flac /\ Len(b) <= HeaderSize => Len(b) \in {position, HeaderSize}
        BY <2>1, <4>1, <4>2, <4>3, Numbers DEF Hears
      <4> QED BY <4>2, <4>4, <4>5, <4>6
    <3> QED BY <3>1, <3>2
  <2>3. CASE c \notin subscribers
    <3>1. OneStream(received[c]) /\ (queue[c] = <<StreamClosed>> \/ queue[c] = <<>>)
      BY <2>3 DEF Fanout, NotServed
    <3>2. FlattenSeq(queue[c]) = <<>>
      <4>1. StreamClosed = <<>> /\ <<>> \in Chunk
        BY ClosedTyped DEF StreamClosed
      <4>2. FlattenSeq(<<StreamClosed>>) = <<>>
        BY <4>1, FlattenOne DEF Chunk
      <4> QED BY <3>1, <4>2, FlattenEmpty
    <3>3. Heard(c) = received[c]
      <4>1. received[c] \in Chunk
        BY <2>1, HeardIs
      <4>2. Heard(c) = Cat(received[c], <<>>)
        BY <2>1, <3>2, HeardIs
      <4>3. Cat(received[c], <<>>) = received[c]
        BY <4>1, CatEmpty DEF Chunk
      <4> QED BY <4>2, <4>3
    <3> QED BY <2>3, <3>1, <3>3
  <2> QED BY <2>2, <2>3
<1> QED BY <1>1, AlwaysFanout, PTL

\* What publish(), consumed() and close() count for a connection is what is in its queue, within
\* the limits that were set (audio_streams.py:98), and a connection that is served no longer finds
\* the sentinel and nothing else (audio_streams.py:123).
THEOREM QueuesStayWithin == Spec => []QueuesWithinLimits
<1>1. Fanout => QueuesWithinLimits
  BY DEF Fanout, Served, NotServed, Accounted, QueuesWithinLimits
<1> QED BY <1>1, AlwaysFanout, PTL

\* A chunk closes no connection that has received everything before it (audio_streams.py:97):
\* an empty queue has no oldest chunk, and one chunk fits into the limit.
THEOREM NoOtherIsClosed == Spec => SlowAlone
<1> DEFINE Step == \A c \in subscribers : queue[c] = <<>> /\ position' > position => c \in subscribers'
<1>1. Fanout /\ [Next]_vars => [Step]_vars
  <2> SUFFICES ASSUME Fanout, Next, NEW c \in subscribers, queue[c] = <<>>, position' > position
               PROVE  c \in subscribers'
    OBVIOUS
  <2>1. c \in Clients /\ position \in Nat /\ Accounted(c)
    BY Numbers DEF Fanout, TypeOK, Served
  <2>2. ASSUME NEW size \in 1..MaxChunk, Publish(size) PROVE c \in subscribers'
    <3>1. published[c] = <<>>
      <4>1. published[c] \in Seq(0..MaxTime) /\ Len(published[c]) = Len(queue[c]) /\ Len(<<>>) = 0
        BY <2>1 DEF Fanout, TypeOK, Accounted
      <4> QED BY <4>1
    <3>2. buffered[c] = 0
      BY <2>1, FlattenEmpty DEF Accounted
    <3>3. ~(buffered[c] + size > MaxBuffer)
      BY <3>2, Numbers
    <3>4. c \notin Slow(size)
      BY <3>1, <3>3 DEF Slow, TooOld
    <3> QED BY <2>2, <3>4 DEF Publish
  <2>3. CASE StartEncoder
    BY <2>1, <2>3 DEF StartEncoder
  <2>4. ASSUME position' = position PROVE FALSE
    BY <2>1, <2>4
  <2>5. ASSUME StopEncoder \/ OutputEnds \/ Tick PROVE position' = position
    BY <2>5 DEF StopEncoder, OutputEnds, Tick, streamVars
  <2>6. ASSUME NEW d \in Clients, Subscribe(d) \/ Receive(d) \/ Unsubscribe(d)
        PROVE  position' = position
    BY <2>6 DEF Subscribe, Receive, Unsubscribe, streamVars
  <2> QED BY <2>2, <2>3, <2>4, <2>5, <2>6 DEF Next
<1> QED BY <1>1, AlwaysFanout, PTL DEF Spec, SlowAlone

=============================================================================
