---------------------------- MODULE SequenceProofs ----------------------------
(***************************************************************************)
(* Facts about sequences without duplicates, which the FIFO of the store   *)
(* and the subscriber lists of PubSub are, and about what is left of a     *)
(* sequence when elements are taken out of it; that every set of positions *)
(* has a last one; and what the proofs about recursive functions and the   *)
(* ring buffer of the store need: definition by recursion, induction over  *)
(* sequences, and a sequence cut in two at a position.                     *)
(***************************************************************************)
EXTENDS Naturals, SequencesExt, SequenceTheorems, FiniteSetTheorems,
        WellFoundedInduction, TLAPS

\* Every set of numbers has a least one.
LEMMA LeastNatural ==
  ASSUME NEW T, T \subseteq Nat, T # {}
  PROVE  \E x \in T : \A y \in T : x <= y
<1> DEFINE R == OpToRel(<, Nat)
<1>1. R = {ss \in Nat \X Nat : ss[1] < ss[2]}
  BY DEF OpToRel
<1>2. IsWellFoundedOn(R, Nat)
  BY NatLessThanWellFounded
<1> HIDE DEF R
<1>3. \E x \in T : \A y \in T : ~ (<<y, x>> \in R)
  BY <1>2, WFMin, Zenon
<1>4. ASSUME NEW x \in T, NEW y \in T, ~ (<<y, x>> \in R)
      PROVE  x <= y
  BY <1>1, <1>4
<1> QED BY <1>3, <1>4

\* Every set of positions of a sequence has a last one, and Max finds it.
LEMMA LastPosition ==
  ASSUME NEW n \in Nat, NEW T, T \subseteq 1..n, T # {}
  PROVE  Max(T) \in T /\ \A y \in T : y <= Max(T)
<1> DEFINE D == {m \in Nat : n - m \in T}
<1>1. D # {}
  <2>1. PICK y \in T : TRUE
    OBVIOUS
  <2>2. y \in 1..n /\ n - y \in Nat /\ n - (n - y) = y
    OBVIOUS
  <2> QED BY <2>1, <2>2
<1>2. PICK d \in D : \A m \in D : d <= m
  BY <1>1, LeastNatural
<1>3. ASSUME NEW y \in T
      PROVE  n - d >= y
  <2>1. y \in 1..n /\ n - y \in Nat /\ n - (n - y) = y
    OBVIOUS
  <2>2. d <= n - y
    BY <1>2, <2>1
  <2> QED BY <2>1, <2>2
<1>4. n - d \in T
  OBVIOUS
<1>5. \E x \in T : \A y \in T : x >= y
  BY <1>3, <1>4
<1>6. Max(T) \in T /\ \A y \in T : Max(T) >= y
  BY <1>5 DEF Max
<1> QED BY <1>6

\* Taking out position i closes the gap and keeps the order of the rest.
LEMMA RemoveAtProperties ==
  ASSUME NEW S, NEW q \in Seq(S), NEW i \in 1..Len(q)
  PROVE  /\ RemoveAt(q, i) \in Seq(S)
         /\ Len(RemoveAt(q, i)) = Len(q) - 1
         /\ \A j \in 1..Len(q)-1 : RemoveAt(q, i)[j] = IF j < i THEN q[j] ELSE q[j+1]
<1> DEFINE front == SubSeq(q, 1, i-1)
           back  == SubSeq(q, i+1, Len(q))
<1>1. /\ front \in Seq(S)
      /\ Len(front) = i - 1
      /\ \A j \in 1..i-1 : front[j] = q[j]
  OBVIOUS
<1>2. /\ back \in Seq(S)
      /\ Len(back) = Len(q) - i
      /\ \A j \in 1..Len(q)-i : back[j] = q[j+i]
  OBVIOUS
<1>3. RemoveAt(q, i) = front \o back
  BY DEF RemoveAt
<1> HIDE DEF front, back
<1>4. /\ front \o back \in Seq(S)
      /\ Len(front \o back) = Len(q) - 1
  BY <1>1, <1>2
<1>5. ASSUME NEW j \in 1..Len(q)-1
      PROVE  (front \o back)[j] = IF j < i THEN q[j] ELSE q[j+1]
  <2>1. CASE j < i
    BY <1>1, <1>2, <2>1
  <2>2. CASE ~(j < i)
    <3>1. (front \o back)[j] = back[j - (i-1)]
      BY <1>1, <1>2, <2>2
    <3>2. j - (i-1) \in 1..Len(q)-i /\ (j - (i-1)) + i = j + 1
      BY <2>2
    <3> QED BY <1>2, <2>2, <3>1, <3>2
  <2> QED BY <2>1, <2>2
<1> QED BY <1>3, <1>4, <1>5

\* Removing the first occurrence takes the element out of a sequence without
\* duplicates and leaves every other element in it.
LEMMA RemoveFirstProperties ==
  ASSUME NEW S, NEW q \in Seq(S), IsInjective(q), NEW x
  PROVE  /\ RemoveFirst(q, x) \in Seq(S)
         /\ IsInjective(RemoveFirst(q, x))
         /\ ToSet(RemoveFirst(q, x)) = ToSet(q) \ {x}
<1>1. CASE ~ \E i \in 1..Len(q) : q[i] = x
  BY <1>1 DEF RemoveFirst, ToSet
<1>2. CASE \E i \in 1..Len(q) : q[i] = x
  <2>1. PICK i \in 1..Len(q) : q[i] = x
    BY <1>2
  <2>2. {j \in 1..Len(q) : q[j] = x} = {i}
    BY <2>1 DEF IsInjective
  <2>3. SelectInSeq(q, LAMBDA v : v = x) = i
    BY <2>2 DEF SelectInSeq, Min
  <2>4. RemoveFirst(q, x) = RemoveAt(q, i)
    BY <1>2, <2>3 DEF RemoveFirst
  <2> DEFINE r == RemoveAt(q, i)
  <2>5. /\ r \in Seq(S)
        /\ Len(r) = Len(q) - 1
        /\ \A j \in 1..Len(q)-1 : r[j] = IF j < i THEN q[j] ELSE q[j+1]
    BY RemoveAtProperties
  <2> HIDE DEF r
  <2>6. IsInjective(r)
    <3> DEFINE at(j) == IF j < i THEN j ELSE j + 1
    <3>1. \A j \in 1..Len(r) : at(j) \in 1..Len(q) /\ r[j] = q[at(j)]
      BY <2>5
    <3>2. \A j, l \in 1..Len(r) : at(j) = at(l) => j = l
      BY <2>5
    <3>3. \A j, l \in 1..Len(q) : q[j] = q[l] => j = l
      BY DEF IsInjective
    <3>4. DOMAIN r = 1..Len(r)
      BY <2>5
    <3> HIDE DEF at
    <3>5. ASSUME NEW j \in 1..Len(r), NEW l \in 1..Len(r), r[j] = r[l]
          PROVE  j = l
      <4>1. q[at(j)] = q[at(l)]
        BY <3>1, <3>5
      <4> QED BY <3>1, <3>2, <3>3, <4>1
    <3> QED BY <3>4, <3>5 DEF IsInjective
  <2>7. ToSet(r) = ToSet(q) \ {x}
    <3>1. ASSUME NEW j \in 1..Len(r)
          PROVE  r[j] \in ToSet(q) \ {x}
      <4>1. PICK l \in 1..Len(q) : l # i /\ r[j] = q[l]
        <5>1. CASE j < i
          BY <2>5, <5>1
        <5>2. CASE ~(j < i)
          <6>1. j + 1 \in 1..Len(q) /\ j + 1 # i /\ r[j] = q[j+1]
            BY <2>5, <5>2
          <6> QED BY <6>1
        <5> QED BY <5>1, <5>2
      <4> QED BY <2>1, <4>1 DEF ToSet, IsInjective
    <3>2. ASSUME NEW j \in 1..Len(q), q[j] # x
          PROVE  \E l \in 1..Len(r) : r[l] = q[j]
      <4>1. CASE j < i
        BY <2>5, <4>1
      <4>2. CASE j > i
        <5>1. j - 1 \in 1..Len(r) /\ r[j-1] = q[j]
          BY <2>5, <4>2
        <5> QED BY <5>1
      <4> QED BY <2>1, <3>2, <4>1, <4>2
    <3> QED BY <2>5, <3>1, <3>2 DEF ToSet
  <2> QED BY <2>4, <2>5, <2>6, <2>7 DEF r
<1> QED BY <1>1, <1>2

\* Appending an element a sequence without duplicates does not hold yet.
LEMMA AppendUniqueProperties ==
  ASSUME NEW S, NEW q \in Seq(S), IsInjective(q), NEW x \in S, x \notin ToSet(q)
  PROVE  /\ Append(q, x) \in Seq(S)
         /\ IsInjective(Append(q, x))
         /\ ToSet(Append(q, x)) = ToSet(q) \union {x}
<1>1. /\ Append(q, x) \in Seq(S)
      /\ Len(Append(q, x)) = Len(q) + 1
      /\ \A j \in 1..Len(q) : Append(q, x)[j] = q[j]
      /\ Append(q, x)[Len(q)+1] = x
  OBVIOUS
<1>2. IsInjective(Append(q, x))
  BY <1>1 DEF IsInjective, ToSet
<1>3. ToSet(Append(q, x)) = ToSet(q) \union {x}
  BY <1>1 DEF ToSet
<1> QED BY <1>1, <1>2, <1>3

\* Taking the head out leaves every other element.
LEMMA TailProperties ==
  ASSUME NEW S, NEW q \in Seq(S), IsInjective(q), q # <<>>
  PROVE  /\ Head(q) \in ToSet(q)
         /\ Head(q) \in S
         /\ Tail(q) \in Seq(S)
         /\ IsInjective(Tail(q))
         /\ ToSet(Tail(q)) = ToSet(q) \ {Head(q)}
<1>1. /\ Len(q) > 0
      /\ Head(q) = q[1]
      /\ Tail(q) \in Seq(S)
      /\ Len(Tail(q)) = Len(q) - 1
      /\ \A j \in 1..Len(q)-1 : Tail(q)[j] = q[j+1]
  OBVIOUS
<1>2. Head(q) \in ToSet(q) /\ Head(q) \in S
  BY <1>1 DEF ToSet
<1>3. IsInjective(Tail(q))
  BY <1>1 DEF IsInjective
<1>4. ToSet(Tail(q)) = ToSet(q) \ {Head(q)}
  <2>1. ASSUME NEW j \in 1..Len(q)-1
        PROVE  Tail(q)[j] \in ToSet(q) \ {Head(q)}
    BY <1>1 DEF ToSet, IsInjective
  <2>2. ASSUME NEW j \in 1..Len(q), q[j] # Head(q)
        PROVE  \E l \in 1..Len(q)-1 : Tail(q)[l] = q[j]
    <3>1. j - 1 \in 1..Len(q)-1 /\ Tail(q)[j-1] = q[j]
      BY <1>1, <2>2
    <3> QED BY <3>1
  <2>3. /\ DOMAIN Tail(q) = 1..Len(q)-1
        /\ DOMAIN q = 1..Len(q)
    BY <1>1
  <2>4. ToSet(Tail(q)) \subseteq ToSet(q) \ {Head(q)}
    BY <2>1, <2>3 DEF ToSet
  <2>5. ToSet(q) \ {Head(q)} \subseteq ToSet(Tail(q))
    BY <2>2, <2>3, Zenon DEF ToSet
  <2> QED BY <2>4, <2>5
<1> QED BY <1>1, <1>2, <1>3, <1>4

\* p is what is left of q when some elements are taken out and the order of
\* the others is kept.
Embeds(p, q) ==
  \E f \in [1..Len(p) -> 1..Len(q)] :
    /\ \A i, j \in 1..Len(p) : i < j => f[i] < f[j]
    /\ \A i \in 1..Len(p) : p[i] = q[f[i]]

\* Moving the head of the second part to the end of the first part changes
\* nothing in the whole.
LEMMA MoveHead ==
  ASSUME NEW S, NEW d \in Seq(S), NEW b \in Seq(S), b # <<>>
  PROVE  Append(d, Head(b)) \o Tail(b) = d \o b
OBVIOUS

\* Appending to the second part appends to the whole.
LEMMA AppendToSecond ==
  ASSUME NEW S, NEW d \in Seq(S), NEW b \in Seq(S), NEW x \in S
  PROVE  d \o Append(b, x) = Append(d \o b, x)
OBVIOUS

\* Taking the head of the first part takes the head of the whole.
LEMMA DropHeadOfFirst ==
  ASSUME NEW S, NEW d \in Seq(S), NEW b \in Seq(S), d # <<>>
  PROVE  /\ d \o b \in Seq(S) /\ d \o b # <<>>
         /\ Head(d) = Head(d \o b) /\ Head(d) \in S
         /\ Tail(d) \o b = Tail(d \o b)
<1>1. /\ d \o b \in Seq(S) /\ Len(d) > 0 /\ Len(d \o b) = Len(d) + Len(b)
      /\ (d \o b)[1] = d[1] /\ Head(d) \in S
  OBVIOUS
<1>2. d \o b # <<>> /\ Head(d) = Head(d \o b)
  BY <1>1
<1>3. Tail(d) \o b = Tail(d \o b)
  OBVIOUS
<1> QED BY <1>1, <1>2, <1>3

\* Dropping the head of the second part takes one element out of the whole.
LEMMA DropHeadEmbeds ==
  ASSUME NEW S, NEW d \in Seq(S), NEW b \in Seq(S), b # <<>>
  PROVE  Embeds(d \o Tail(b), d \o b)
<1> DEFINE p == d \o Tail(b)
           q == d \o b
           f == [i \in 1..Len(p) |-> IF i <= Len(d) THEN i ELSE i + 1]
<1>1. /\ Len(b) > 0
      /\ Len(p) = Len(d) + Len(b) - 1
      /\ Len(q) = Len(d) + Len(b)
      /\ Len(d) \in Nat
  OBVIOUS
<1>2. \A i \in 1..Len(p) : p[i] = IF i <= Len(d) THEN d[i] ELSE b[i - Len(d) + 1]
  OBVIOUS
<1>3. \A i \in 1..Len(q) : q[i] = IF i <= Len(d) THEN d[i] ELSE b[i - Len(d)]
  OBVIOUS
<1> HIDE DEF p, q
<1>4. f \in [1..Len(p) -> 1..Len(q)]
  BY <1>1
<1>5. \A i, j \in 1..Len(p) : i < j => f[i] < f[j]
  BY <1>1
<1>6. \A i \in 1..Len(p) : p[i] = q[f[i]]
  BY <1>1, <1>2, <1>3, SMTT(20)
<1> HIDE DEF f
<1>7. Embeds(p, q)
  BY <1>4, <1>5, <1>6 DEF Embeds
<1> QED BY <1>7 DEF p, q

\* Dropping the whole second part leaves the first.
LEMMA DropSecondEmbeds ==
  ASSUME NEW S, NEW d \in Seq(S), NEW b \in Seq(S)
  PROVE  Embeds(d \o <<>>, d \o b)
<1> DEFINE p == d \o <<>>
           q == d \o b
           f == [i \in 1..Len(p) |-> i]
<1>1. /\ Len(p) = Len(d)
      /\ Len(q) = Len(d) + Len(b)
      /\ Len(d) \in Nat /\ Len(b) \in Nat
      /\ \A i \in 1..Len(d) : p[i] = d[i] /\ q[i] = d[i]
  OBVIOUS
<1> HIDE DEF p, q
<1>2. /\ f \in [1..Len(p) -> 1..Len(q)]
      /\ \A i, j \in 1..Len(p) : i < j => f[i] < f[j]
      /\ \A i \in 1..Len(p) : p[i] = q[f[i]]
  BY <1>1
<1> HIDE DEF f
<1>3. Embeds(p, q)
  BY <1>2 DEF Embeds
<1> QED BY <1>3 DEF p, q

\* Nothing taken out.
LEMMA EmbedsReflexive ==
  ASSUME NEW S, NEW q \in Seq(S)
  PROVE  Embeds(q, q)
<1> DEFINE f == [i \in 1..Len(q) |-> i]
<1>1. /\ f \in [1..Len(q) -> 1..Len(q)]
      /\ \A i, j \in 1..Len(q) : i < j => f[i] < f[j]
      /\ \A i \in 1..Len(q) : q[i] = q[f[i]]
  OBVIOUS
<1> HIDE DEF f
<1> QED BY <1>1 DEF Embeds
-----------------------------------------------------------------------------
(* Sequences of commands [key, id], as a replica receives them *)

\* The commands of q, applied to a store that has b for k, leave v there.
Ends(q, k, b, v) ==
  /\ \A j \in 1..Len(q) :
       q[j].key = k /\ (\A l \in 1..Len(q) : j < l => q[l].key # k) => q[j].id = v
  /\ (\A l \in 1..Len(q) : q[l].key # k) => b = v

\* A command put at the end is what its key ends with; other keys do not
\* notice.
LEMMA EndsAppend ==
  ASSUME NEW S, NEW q \in Seq(S), NEW cmd \in S, NEW k, NEW b, NEW v,
         k = cmd.key => v = cmd.id,
         k # cmd.key => Ends(q, k, b, v)
  PROVE  Ends(Append(q, cmd), k, b, v)
<1> DEFINE p == Append(q, cmd)
<1>1. /\ Len(p) = Len(q) + 1 /\ Len(q) \in Nat
      /\ \A j \in 1..Len(q) : p[j] = q[j]
      /\ p[Len(q) + 1] = cmd
  OBVIOUS
<1> HIDE DEF p
<1>2. ASSUME NEW j \in 1..Len(p), p[j].key = k, \A l \in 1..Len(p) : j < l => p[l].key # k
      PROVE  p[j].id = v
  <2>1. CASE j = Len(q) + 1
    BY <1>1, <1>2, <2>1
  <2>2. CASE j \in 1..Len(q)
    <3>1. k # cmd.key
      BY <1>1, <1>2, <2>2
    <3>2. q[j].key = k /\ \A l \in 1..Len(q) : j < l => q[l].key # k
      BY <1>1, <1>2, <2>2
    <3> QED BY <1>1, <2>2, <3>1, <3>2 DEF Ends
  <2> QED BY <1>1, <2>1, <2>2
<1>3. ASSUME \A l \in 1..Len(p) : p[l].key # k
      PROVE  b = v
  <2>1. cmd.key # k
    BY <1>1, <1>3
  <2>2. \A l \in 1..Len(q) : q[l].key # k
    BY <1>1, <1>3
  <2> QED BY <2>1, <2>2 DEF Ends
<1>4. Ends(p, k, b, v)
  BY <1>2, <1>3 DEF Ends
<1> QED BY <1>4 DEF p

\* Applying the first command leaves what the rest ends with.
LEMMA EndsTail ==
  ASSUME NEW S, NEW q \in Seq(S), q # <<>>, NEW k, NEW b, NEW v, Ends(q, k, b, v)
  PROVE  Ends(Tail(q), k, IF Head(q).key = k THEN Head(q).id ELSE b, v)
<1> DEFINE p == Tail(q)
<1>1. /\ Len(q) \in Nat /\ Len(q) > 0 /\ Len(p) = Len(q) - 1
      /\ \A j \in 1..Len(p) : p[j] = q[j + 1]
      /\ Head(q) = q[1]
  OBVIOUS
<1> HIDE DEF p
<1>2. ASSUME NEW j \in 1..Len(p), p[j].key = k, \A l \in 1..Len(p) : j < l => p[l].key # k
      PROVE  p[j].id = v
  <2>1. j + 1 \in 1..Len(q) /\ p[j] = q[j + 1]
    BY <1>1
  <2>2. ASSUME NEW l \in 1..Len(q), j + 1 < l
        PROVE  q[l].key # k
    <3>1. l - 1 \in 1..Len(p) /\ j < l - 1 /\ q[l] = p[l - 1]
      BY <1>1, <2>2
    <3> QED BY <1>2, <3>1
  <2> QED BY <1>2, <2>1, <2>2 DEF Ends
<1>3. ASSUME \A l \in 1..Len(p) : p[l].key # k
      PROVE  (IF Head(q).key = k THEN Head(q).id ELSE b) = v
  <2>1. ASSUME NEW l \in 1..Len(q), 1 < l
        PROVE  q[l].key # k
    <3>1. l - 1 \in 1..Len(p) /\ q[l] = p[l - 1]
      BY <1>1, <2>1
    <3> QED BY <1>3, <3>1
  <2>2. 1 \in 1..Len(q)
    BY <1>1
  <2>3. CASE q[1].key = k
    BY <1>1, <2>1, <2>2, <2>3 DEF Ends
  <2>4. CASE q[1].key # k
    <3>1. \A l \in 1..Len(q) : q[l].key # k
      BY <1>1, <2>1, <2>4
    <3> QED BY <1>1, <2>4, <3>1 DEF Ends
  <2> QED BY <2>3, <2>4
<1>4. Ends(p, k, IF Head(q).key = k THEN Head(q).id ELSE b, v)
  BY <1>2, <1>3 DEF Ends
<1> QED BY <1>4 DEF p
-----------------------------------------------------------------------------
(* Recursion and induction *)

\* f starts with a and each of its values follows from the one before.
Follows(f, a, step) ==
  /\ f[0] = a
  /\ \A n \in Nat \ {0} : f[n] = step[n][f[n - 1]]

\* A function on the numbers may be defined by its value at 0 and by how each
\* value follows from the one before.
LEMMA Recursion ==
  ASSUME NEW S, NEW a \in S, NEW step \in [Nat -> [S -> S]]
  PROVE  \E f \in [Nat -> S] : Follows(f, a, step)
<1> DEFINE Upto(g, n) == /\ g \in [0..n -> S]
                         /\ g[0] = a
                         /\ \A i \in 1..n : g[i] = step[i][g[i - 1]]
           Missing == {n \in Nat : ~ \E g : Upto(g, n)}
<1>1. Missing = {}
  <2> SUFFICES ASSUME Missing # {} PROVE FALSE
    OBVIOUS
  <2>1. PICK n \in Missing : \A m \in Missing : n <= m
    BY LeastNatural
  <2>2. n # 0
    <3>1. Upto([i \in 0..0 |-> a], 0)
      OBVIOUS
    <3> QED BY <3>1
  <2>3. n \in Nat /\ n - 1 \in Nat
    BY <2>2
  <2>4. PICK g : Upto(g, n - 1)
    <3> HIDE DEF Upto
    <3>1. n - 1 \notin Missing
      BY <2>1, <2>3
    <3> QED BY <2>3, <3>1
  <2> DEFINE h == [i \in 0..n |-> IF i = n THEN step[n][g[n - 1]] ELSE g[i]]
  <2>5. step[n][g[n - 1]] \in S
    BY <2>2, <2>3, <2>4
  <2>6. Upto(h, n)
    <3>1. h \in [0..n -> S] /\ h[0] = a
      BY <2>2, <2>3, <2>4, <2>5
    <3>2. ASSUME NEW i \in 1..n PROVE h[i] = step[i][h[i - 1]]
      <4>1. CASE i = n
        BY <2>3, <4>1
      <4>2. CASE i # n
        <5>1. i \in 1..n-1 /\ i - 1 \in 0..n /\ i - 1 # n /\ i \in 0..n
          BY <2>3, <4>2
        <5> QED BY <2>4, <4>2, <5>1
      <4> QED BY <4>1, <4>2
    <3> HIDE DEF h
    <3> QED BY <3>1, <3>2
  <2> QED BY <2>6
<1>2. ASSUME NEW n \in Nat, NEW m \in 0..n, NEW g, NEW h, Upto(g, m), Upto(h, n)
      PROVE  g[m] = h[m]
  <2> DEFINE D == {i \in 0..m : g[i] # h[i]}
  <2> SUFFICES ASSUME D # {} PROVE FALSE
    OBVIOUS
  <2>1. D \subseteq Nat
    OBVIOUS
  <2>2. PICK i \in D : \A j \in D : i <= j
    BY <2>1, LeastNatural
  <2>3. i # 0
    BY <1>2
  <2>4. i - 1 \in 0..m /\ i - 1 \notin D
    BY <2>2, <2>3
  <2>5. i \in 1..m /\ i \in 1..n /\ g[i - 1] = h[i - 1]
    BY <2>3, <2>4
  <2> QED BY <1>2, <2>5
<1> DEFINE t(n) == CHOOSE g : Upto(g, n)
           f == [n \in Nat |-> t(n)[n]]
<1>3. \A n \in Nat : Upto(t(n), n)
  BY <1>1
<1> HIDE DEF t, Missing
<1>4. f \in [Nat -> S] /\ f[0] = a
  BY <1>3
<1>5. ASSUME NEW n \in Nat \ {0} PROVE f[n] = step[n][f[n - 1]]
  <2>1. n - 1 \in Nat /\ n - 1 \in 0..n /\ Upto(t(n), n) /\ Upto(t(n - 1), n - 1)
    BY <1>3
  <2>2. t(n - 1)[n - 1] = t(n)[n - 1]
    <3> HIDE DEF Upto
    <3> QED BY <1>2, <2>1
  <2> QED BY <2>1, <2>2
<1> HIDE DEF f
<1> QED BY <1>4, <1>5 DEF Follows

\* What holds of the empty sequence and is kept by Append holds of all.
LEMMA SequenceInduction ==
  ASSUME NEW S, NEW T, <<>> \in T, \A w \in Seq(S), k \in S : w \in T => Append(w, k) \in T
  PROVE  Seq(S) \subseteq T
<1> DEFINE C == {n \in Nat : \E w \in Seq(S) : Len(w) = n /\ w \notin T}
<1> SUFFICES ASSUME C # {} PROVE FALSE
  OBVIOUS
<1>1. PICK n \in C : \A m \in C : n <= m
  <2> HIDE DEF C
  <2>1. C \subseteq Nat
    BY DEF C
  <2> QED BY <2>1, LeastNatural
<1>2. PICK w \in Seq(S) : Len(w) = n /\ w \notin T
  OBVIOUS
<1>3. w # <<>>
  BY <1>2
<1> DEFINE u == SubSeq(w, 1, n - 1)
<1>4. /\ u \in Seq(S) /\ Len(u) = n - 1 /\ n - 1 \in Nat /\ n \in Nat
      /\ w[n] \in S
      /\ w = Append(u, w[n])
  BY <1>2, <1>3
<1>5. u \in T
  <2>1. n - 1 \notin C
    BY <1>1, <1>4
  <2> HIDE DEF u
  <2> QED BY <1>4, <2>1
<1> HIDE DEF u
<1> QED BY <1>2, <1>4, <1>5

\* Append adds one element.
LEMMA AppendSet ==
  ASSUME NEW S, NEW w \in Seq(S), NEW k \in S
  PROVE  ToSet(Append(w, k)) = ToSet(w) \union {k}
<1>1. /\ Append(w, k) \in Seq(S) /\ Len(Append(w, k)) = Len(w) + 1
      /\ \A j \in 1..Len(w) : Append(w, k)[j] = w[j]
      /\ Append(w, k)[Len(w)+1] = k
  OBVIOUS
<1> QED BY <1>1 DEF ToSet
-----------------------------------------------------------------------------
(* Sequences cut in two *)

\* The sequence with x between a and b.
Join(a, x, b) == Append(a, x) \o b

\* q is a, then x, then b.
IsJoin(q, a, x, b) ==
  /\ Len(q) = Len(a) + 1 + Len(b)
  /\ \A j \in 1..Len(a) : q[j] = a[j]
  /\ q[Len(a) + 1] = x
  /\ \A j \in 1..Len(b) : q[Len(a) + 1 + j] = b[j]

\* The elements of a, x and b keep their order.
LEMMA JoinProperties ==
  ASSUME NEW S, NEW a \in Seq(S), NEW x \in S, NEW b \in Seq(S)
  PROVE  Join(a, x, b) \in Seq(S) /\ IsJoin(Join(a, x, b), a, x, b)
<1> DEFINE p == Append(a, x)
<1>1. /\ p \in Seq(S) /\ Len(p) = Len(a) + 1 /\ p[Len(a) + 1] = x
      /\ \A j \in 1..Len(a) : p[j] = a[j]
      /\ Len(a) \in Nat /\ Len(b) \in Nat
  OBVIOUS
<1> HIDE DEF p
<1>2. /\ p \o b \in Seq(S) /\ Len(p \o b) = Len(p) + Len(b)
      /\ \A j \in 1..Len(p) : (p \o b)[j] = p[j]
      /\ \A j \in 1..Len(b) : (p \o b)[Len(p) + j] = b[j]
  BY <1>1, SMTT(20)
<1>3. \A j \in 1..Len(a) : j \in 1..Len(p)
  BY <1>1
<1>4. Len(a) + 1 \in 1..Len(p)
  BY <1>1
<1>5. Join(a, x, b) = p \o b
  BY DEF Join, p
<1> QED BY <1>1, <1>2, <1>3, <1>4, <1>5 DEF IsJoin

\* a is what w has before position i, and b what it has after it.
Around(w, i, a, b) ==
  /\ Len(a) = i - 1 /\ Len(b) = Len(w) - i
  /\ \A j \in 1..i-1 : a[j] = w[j]
  /\ \A j \in 1..Len(w)-i : b[j] = w[i + j]

\* Every position has something before and after it.
LEMMA AroundExists ==
  ASSUME NEW S, NEW w \in Seq(S), NEW i \in 1..Len(w)
  PROVE  \E a, b \in Seq(S) : Around(w, i, a, b)
<1> DEFINE a == SubSeq(w, 1, i-1)
           b == SubSeq(w, i+1, Len(w))
<1>1. /\ a \in Seq(S) /\ b \in Seq(S) /\ Len(a) = i - 1 /\ Len(b) = Len(w) - i
      /\ \A j \in 1..i-1 : a[j] = w[j]
      /\ \A j \in 1..Len(w)-i : b[j] = w[i + j]
  OBVIOUS
<1> HIDE DEF a, b
<1>2. Around(w, i, a, b)
  BY <1>1 DEF Around
<1> QED BY <1>1, <1>2

\* A sequence that agrees with w everywhere else.
LEMMA AroundJoin ==
  ASSUME NEW S, NEW w \in Seq(S), NEW i \in 1..Len(w), NEW a \in Seq(S), NEW b \in Seq(S),
         Around(w, i, a, b),
         NEW u \in Seq(S), Len(u) = Len(w), \A j \in 1..Len(w) : j # i => u[j] = w[j]
  PROVE  u = Join(a, u[i], b)
<1> DEFINE n == Len(w)
           c == Join(a, u[i], b)
<1>1. n \in Nat /\ i \in Nat /\ i <= n /\ 1 <= i /\ u[i] \in S
  OBVIOUS
<1>2. c \in Seq(S) /\ IsJoin(c, a, u[i], b)
  BY <1>1, JoinProperties
<1> HIDE DEF c
<1>3. /\ Len(a) = i - 1 /\ Len(b) = n - i
      /\ \A j \in 1..i-1 : a[j] = w[j]
      /\ \A j \in 1..n-i : b[j] = w[i + j]
  BY DEF Around
<1>4. Len(a) + 1 = i /\ Len(a) + 1 + Len(b) = n
  <2> HIDE DEF n
  <2> QED BY <1>1, <1>3
<1>5. /\ Len(c) = n /\ c[i] = u[i]
      /\ \A j \in 1..Len(a) : c[j] = a[j]
      /\ \A j \in 1..Len(b) : c[i + j] = b[j]
  BY <1>2, <1>4 DEF IsJoin
<1>6. ASSUME NEW j \in 1..n, j > i PROVE c[j] = w[j]
  <2> DEFINE m == j - i
  <2>1. m \in 1..n-i /\ i + m = j
    BY <1>1, <1>6
  <2>2. m \in 1..Len(b)
    BY <1>3, <2>1
  <2> HIDE DEF m
  <2>3. c[i + m] = b[m] /\ b[m] = w[i + m]
    BY <1>3, <1>5, <2>1, <2>2
  <2> QED BY <2>1, <2>3
<1>7. ASSUME NEW j \in 1..n, j < i PROVE c[j] = w[j]
  <2>1. j \in 1..i-1
    BY <1>1, <1>7
  <2>2. j \in 1..Len(a)
    BY <1>3, <2>1
  <2> QED BY <1>3, <1>5, <2>1, <2>2
<1>8. \A j \in 1..n : c[j] = u[j]
  <2> TAKE j \in 1..n
  <2>1. CASE j = i
    BY <1>5, <2>1
  <2>2. CASE j # i
    <3>1. j < i \/ j > i
      BY <1>1, <2>2
    <3>2. u[j] = w[j]
      BY <2>2
    <3> QED BY <1>6, <1>7, <3>1, <3>2
  <2> QED BY <2>1, <2>2
<1>9. Len(c) = Len(u)
  BY <1>5
<1>10. u = c
  BY <1>2, <1>8, <1>9
<1> QED BY <1>10 DEF c

\* Removing what is not there changes nothing.
LEMMA RemoveFirstAbsent ==
  ASSUME NEW S, NEW q \in Seq(S), NEW x, x \notin ToSet(q)
  PROVE  RemoveFirst(q, x) = q
BY DEF RemoveFirst, ToSet

\* The least number that satisfies the test is the one Min finds.
LEMMA MinIs ==
  ASSUME NEW T, T \subseteq Nat, NEW i \in T, \A j \in T : i <= j
  PROVE  Min(T) = i
<1>1. \E x \in T : \A y \in T : x <= y
  OBVIOUS
<1>2. Min(T) \in T /\ \A y \in T : Min(T) <= y
  BY <1>1 DEF Min
<1> DEFINE m == Min(T)
<1>3. m \in Nat /\ i \in Nat /\ m <= i /\ i <= m
  BY <1>2
<1> HIDE DEF m
<1>4. m = i
  BY <1>3
<1> QED BY <1>4 DEF m

\* Removing x, where it first occurs, leaves what is before and after it.
LEMMA RemoveFirstSplit ==
  ASSUME NEW S, NEW a \in Seq(S), NEW b \in Seq(S), NEW k \in S, k \notin ToSet(a)
  PROVE  RemoveFirst(Join(a, k, b), k) = a \o b
<1> DEFINE q == Join(a, k, b)
           i == Len(a) + 1
           I == {j \in 1..Len(q) : q[j] = k}
<1>1. /\ q \in Seq(S) /\ Len(q) = Len(a) + 1 + Len(b)
      /\ q[i] = k
      /\ \A j \in 1..Len(a) : q[j] = a[j]
      /\ i \in 1..Len(q) /\ Len(a) \in Nat
      /\ SubSeq(q, 1, i-1) = a /\ SubSeq(q, i+1, Len(q)) = b
  <2>0. q \in Seq(S) /\ IsJoin(q, a, k, b)
    BY JoinProperties
  <2> HIDE DEF q
  <2>1. /\ q \in Seq(S) /\ Len(q) = Len(a) + 1 + Len(b)
        /\ q[i] = k
        /\ \A j \in 1..Len(a) : q[j] = a[j]
        /\ \A j \in 1..Len(b) : q[Len(a) + 1 + j] = b[j]
    BY <2>0 DEF IsJoin
  <2>2. SubSeq(q, 1, i-1) = a
    BY <2>1
  <2>3. SubSeq(q, i+1, Len(q)) = b
    BY <2>1
  <2> QED BY <2>1, <2>2, <2>3
<1> HIDE DEF q
<1>2. I \subseteq Nat /\ i \in I /\ \A j \in I : i <= j
  <2>1. ASSUME NEW j \in I PROVE i <= j
    <3> SUFFICES ASSUME ~(i <= j) PROVE FALSE
      OBVIOUS
    <3>1. j \in 1..Len(a) /\ q[j] = k
      BY <1>1
    <3>2. a[j] \in ToSet(a)
      BY <3>1 DEF ToSet
    <3> QED BY <1>1, <3>1, <3>2
  <2> QED BY <1>1, <2>1
<1>3. Min(I) = i
  <2> HIDE DEF I, i
  <2> QED BY <1>2, MinIs
<1>4. SelectInSeq(q, LAMBDA v : v = k) = i
  BY <1>2, <1>3 DEF SelectInSeq
<1>5. RemoveFirst(q, k) = RemoveAt(q, i)
  BY <1>1, <1>4 DEF RemoveFirst
<1>6. RemoveAt(q, i) = SubSeq(q, 1, i-1) \o SubSeq(q, i+1, Len(q))
  BY DEF RemoveAt
<1> QED BY <1>1, <1>5, <1>6 DEF q

\* The first entry that passes a test.
LEMMA SelectFirst ==
  ASSUME NEW S, NEW w \in Seq(S), NEW k
  PROVE  LET i == SelectInSeq(w, LAMBDA x : x = k) IN
         \/ i = 0 /\ k \notin ToSet(w)
         \/ i \in 1..Len(w) /\ w[i] = k /\ \A j \in 1..i-1 : w[j] # k
<1> DEFINE I == {j \in 1..Len(w) : w[j] = k}
<1>1. SelectInSeq(w, LAMBDA x : x = k) = IF I # {} THEN Min(I) ELSE 0
  BY DEF SelectInSeq
<1>2. CASE I = {}
  <2>1. k \notin ToSet(w)
    BY <1>2 DEF ToSet
  <2> QED BY <1>1, <1>2, <2>1
<1>3. CASE I # {}
  <2>1. PICK i \in I : \A j \in I : i <= j
    <3>1. I \subseteq Nat
      OBVIOUS
    <3> HIDE DEF I
    <3> QED BY <1>3, <3>1, LeastNatural
  <2>2. Min(I) = i
    <3>1. I \subseteq Nat
      OBVIOUS
    <3> HIDE DEF I
    <3> QED BY <2>1, <3>1, MinIs
  <2>3. i \in 1..Len(w) /\ w[i] = k /\ \A j \in 1..i-1 : w[j] # k
    BY <2>1
  <2> HIDE DEF I
  <2> QED BY <1>1, <1>3, <2>2, <2>3
<1> QED BY <1>2, <1>3

\* A sequence without duplicates is as long as its set of elements.
LEMMA InjectiveLength ==
  ASSUME NEW S, NEW q \in Seq(S), IsInjective(q)
  PROVE  IsFiniteSet(ToSet(q)) /\ Cardinality(ToSet(q)) = Len(q)
<1> DEFINE n == Len(q)
           D == 1..n
           T == ToSet(q)
<1>1. n \in Nat /\ DOMAIN q = D /\ IsFiniteSet(D) /\ Cardinality(D) = n
  <2>1. n \in Nat /\ 1 \in Int /\ n \in Int
    OBVIOUS
  <2> HIDE DEF n
  <2>2. IsFiniteSet(1..n) /\ Cardinality(1..n) = IF 1 > n THEN 0 ELSE n - 1 + 1
    BY <2>1, FS_Interval
  <2> QED BY <2>1, <2>2 DEF n
<1>2. q \in [D -> T] /\ \A t \in T : \E i \in D : q[i] = t
  BY <1>1 DEF ToSet
<1>3. \A i, j \in D : q[i] = q[j] => i = j
  BY <1>1 DEF IsInjective
<1> HIDE DEF D, T
<1>4. q \in Surjection(D, T) /\ q \in Injection(D, T)
  BY <1>2, <1>3 DEF Surjection, Injection
<1>5. IsFiniteSet(T) /\ Cardinality(T) = Cardinality(D)
  BY <1>1, <1>4, FS_Surjection
<1> QED BY <1>1, <1>5 DEF T
=============================================================================
