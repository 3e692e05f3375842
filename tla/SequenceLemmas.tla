--------------------------- MODULE SequenceLemmas ---------------------------
(***************************************************************************)
(* Facts about numbers and sequences that the proofs of several components *)
(* need and the library does not state.  The library's own induction takes *)
(* an operator, which the provers cannot instantiate; here induction is an *)
(* argument by least counterexample on a set of numbers.                   *)
(***************************************************************************)
EXTENDS Integers, Sequences, SequencesExt, SequenceTheorems, WellFoundedInduction, TLAPS

(* A set of numbers has a smallest one, or is empty.                       *)
LEMMA LeastNumber ==
  ASSUME NEW T, T \subseteq Nat, T # {}
  PROVE  \E n \in T : \A l \in T : n <= l
<1> DEFINE Less == {p \in Nat \X Nat : p[1] < p[2]}
<1>1. IsWellFoundedOn(Less, Nat)
  BY NatLessThanWellFounded DEF OpToRel
<1>2. \A l, n \in Nat : l < n => <<l, n>> \in Less
  OBVIOUS
<1> HIDE DEF Less
<1>3. PICK n \in T : \A l \in T : <<l, n>> \notin Less
  BY <1>1, WFMin
<1>4. ASSUME NEW l \in T PROVE n <= l
  <2>1. l \in Nat /\ n \in Nat
    OBVIOUS
  <2>2. ~(l < n)
    BY <1>2, <1>3, <2>1, Zenon
  <2> QED
    BY <2>1, <2>2, SMT
<1> QED
  BY <1>4

(* Induction on a set of numbers.                                          *)
LEMMA SetInduction ==
  ASSUME NEW T, 0 \in T, \A n \in Nat : n \in T => n + 1 \in T
  PROVE  Nat \subseteq T
<1> SUFFICES ASSUME Nat \ T # {} PROVE FALSE
  OBVIOUS
<1>1. PICK n \in Nat \ T : \A l \in Nat \ T : n <= l
  BY LeastNumber
<1>2. n # 0 /\ n - 1 \in Nat /\ ~(n <= n - 1)
  BY <1>1
<1>3. n - 1 \in T
  BY <1>1, <1>2
<1>4. (n - 1) + 1 = n
  BY <1>2
<1> QED
  BY <1>1, <1>2, <1>3, <1>4
-----------------------------------------------------------------------------
(* f is the table of the partial concatenations of the first m elements of *)
(* s: the recursive function inside FlattenSeq.                            *)
Flattens(f, s, m) == f = [i \in 1..m |-> IF i = 1 THEN s[i] ELSE f[i - 1] \o s[i]]

LEMMA TableEntry ==
  ASSUME NEW f, NEW s, NEW m, Flattens(f, s, m), NEW i \in 1..m
  PROVE  f[i] = IF i = 1 THEN s[i] ELSE f[i - 1] \o s[i]
<1> DEFINE g == [j \in 1..m |-> IF j = 1 THEN s[j] ELSE f[j - 1] \o s[j]]
<1>1. g[i] = IF i = 1 THEN s[i] ELSE f[i - 1] \o s[i]
  OBVIOUS
<1>2. f = g
  BY DEF Flattens
<1> QED
  BY <1>1, <1>2, Zenon

(* The table exists, for any number of elements.                           *)
LEMMA FlattensExists ==
  ASSUME NEW s, NEW m \in Nat
  PROVE  \E f : Flattens(f, s, m)
<1> DEFINE T == {n \in Nat : \E f : Flattens(f, s, n)}
<1>1. 0 \in T
  <2>1. Flattens([i \in {} |-> <<>>], s, 0)
    BY DEF Flattens
  <2> QED
    BY <2>1
<1>2. ASSUME NEW n \in Nat, n \in T PROVE n + 1 \in T
  <2>1. PICK f : Flattens(f, s, n)
    BY <1>2
  <2> DEFINE g == [i \in 1..(n + 1) |->
                     IF i \in 1..n THEN f[i] ELSE IF i = 1 THEN s[i] ELSE f[i - 1] \o s[i]]
  <2>2. \A i \in 1..n : f[i] = IF i = 1 THEN s[i] ELSE f[i - 1] \o s[i]
    BY <2>1 DEF Flattens
  <2>3. \A i \in 1..(n + 1) : i # 1 => i - 1 \in 1..n /\ g[i - 1] = f[i - 1]
    OBVIOUS
  <2>4. \A i \in 1..(n + 1) : g[i] = IF i = 1 THEN s[i] ELSE g[i - 1] \o s[i]
    BY <2>2, <2>3
  <2>5. Flattens(g, s, n + 1)
    <3> HIDE DEF g
    <3>1. g = [i \in 1..(n + 1) |-> g[i]]
      BY DEF g
    <3> QED
      BY <3>1, <2>4 DEF Flattens
  <2> QED
    BY <2>5
<1> HIDE DEF T
<1>3. Nat \subseteq T
  BY <1>1, <1>2, SetInduction
<1> QED
  BY <1>3 DEF T

(* Two tables agree as far as their sequences do.                          *)
LEMMA FlattensAgree ==
  ASSUME NEW f, NEW s, NEW m \in Nat, Flattens(f, s, m),
         NEW g, NEW t, NEW n \in Nat, Flattens(g, t, n),
         m <= n, \A i \in 1..m : s[i] = t[i]
  PROVE  \A i \in 1..m : f[i] = g[i]
<1> DEFINE T == {j \in 1..m : f[j] # g[j]}
<1> SUFFICES ASSUME T # {} PROVE FALSE
  OBVIOUS
<1>1. PICK j \in T : \A l \in T : j <= l
  <2>1. T \subseteq Nat
    OBVIOUS
  <2> HIDE DEF T
  <2> QED
    BY <2>1, LeastNumber
<1>2. j \in 1..m /\ j \in 1..n /\ s[j] = t[j]
  OBVIOUS
<1>3. f[j] = IF j = 1 THEN s[j] ELSE f[j - 1] \o s[j]
  BY <1>2 DEF Flattens
<1>4. g[j] = IF j = 1 THEN t[j] ELSE g[j - 1] \o t[j]
  BY <1>2 DEF Flattens
<1>5. j # 1 => f[j - 1] = g[j - 1]
  <2>1. j # 1 => j - 1 \in 1..m /\ ~(j <= j - 1)
    BY <1>2
  <2> QED
    BY <1>1, <2>1
<1> QED
  BY <1>2, <1>3, <1>4, <1>5

(* FlattenSeq is the last entry of the table.                              *)
LEMMA FlattenIs ==
  ASSUME NEW s, Len(s) \in Nat \ {0}
  PROVE  \E f : Flattens(f, s, Len(s)) /\ FlattenSeq(s) = f[Len(s)]
<1>1. \E f : f = [i \in 1..Len(s) |-> IF i = 1 THEN s[i] ELSE f[i - 1] \o s[i]]
  BY FlattensExists DEF Flattens
<1> DEFINE h == CHOOSE f : f = [i \in 1..Len(s) |-> IF i = 1 THEN s[i] ELSE f[i - 1] \o s[i]]
<1>2. h = [i \in 1..Len(s) |-> IF i = 1 THEN s[i] ELSE h[i - 1] \o s[i]]
  BY <1>1, Zenon
<1>3. FlattenSeq(s) = h[Len(s)]
  BY DEF FlattenSeq
<1> HIDE DEF h
<1> QED
  BY <1>2, <1>3 DEF Flattens

(* Concatenating the elements of a sequence: none give the empty sequence, *)
(* and one more is put at the end of what the others give.                 *)
LEMMA FlattenEmpty ==
  FlattenSeq(<<>>) = <<>>
BY DEF FlattenSeq

LEMMA FlattenTyped ==
  ASSUME NEW S, NEW s \in Seq(Seq(S))
  PROVE  FlattenSeq(s) \in Seq(S)
<1>1. CASE s = <<>>
  <2>1. FlattenSeq(s) = <<>>
    BY <1>1, FlattenEmpty, Zenon
  <2> QED
    BY <2>1
<1>2. CASE s # <<>>
  <2>1. Len(s) \in Nat \ {0}
    BY <1>2
  <2>2. PICK f : Flattens(f, s, Len(s)) /\ FlattenSeq(s) = f[Len(s)]
    BY <2>1, FlattenIs
  <2> DEFINE T == {n \in Nat : n + 1 \in 1..Len(s) => f[n + 1] \in Seq(S)}
  <2>3. /\ \A i \in 1..Len(s) : s[i] \in Seq(S)
        /\ \A i \in 1..Len(s) : f[i] = IF i = 1 THEN s[i] ELSE f[i - 1] \o s[i]
    BY <2>2, TableEntry
  <2>4. 0 \in T
    BY <2>3
  <2>5. ASSUME NEW n \in Nat, n \in T PROVE n + 1 \in T
    <3> SUFFICES ASSUME n + 2 \in 1..Len(s) PROVE f[n + 2] \in Seq(S)
      OBVIOUS
    <3>1. f[n + 2] = f[n + 1] \o s[n + 2]
      <4>1. n + 2 # 1 /\ (n + 2) - 1 = n + 1
        OBVIOUS
      <4> QED
        BY <2>3, <4>1
    <3>2. f[n + 1] \in Seq(S) /\ s[n + 2] \in Seq(S)
      BY <2>3, <2>5
    <3> QED
      BY <3>1, <3>2
  <2> HIDE DEF T
  <2>6. Nat \subseteq T
    BY <2>4, <2>5, SetInduction
  <2>7. Len(s) - 1 \in T /\ (Len(s) - 1) + 1 = Len(s)
    BY <2>1, <2>6
  <2> QED
    BY <2>1, <2>2, <2>7 DEF T
<1> QED
  BY <1>1, <1>2

LEMMA FlattenAppend ==
  ASSUME NEW S, NEW s \in Seq(Seq(S)), NEW e \in Seq(S)
  PROVE  FlattenSeq(Append(s, e)) = FlattenSeq(s) \o e
<1> DEFINE t == Append(s, e)
<1>1. Len(t) \in Nat \ {0} /\ Len(t) = Len(s) + 1 /\ t[Len(t)] = e /\ Len(s) \in Nat
      /\ \A i \in 1..Len(s) : t[i] = s[i]
  OBVIOUS
<1> HIDE DEF t
<1>2. PICK g : Flattens(g, t, Len(t)) /\ FlattenSeq(t) = g[Len(t)]
  BY <1>1, FlattenIs
<1>3. g[Len(t)] = IF Len(t) = 1 THEN e ELSE g[Len(t) - 1] \o e
  <2>1. Len(t) \in 1..Len(t)
    BY <1>1
  <2> QED
    BY <1>1, <1>2, <2>1, TableEntry
<1>4. CASE s = <<>>
  BY <1>1, <1>2, <1>3, <1>4, FlattenEmpty DEF t
<1>5. CASE s # <<>>
  <2>1. Len(s) \in Nat \ {0}
    BY <1>5
  <2>2. PICK f : Flattens(f, s, Len(s)) /\ FlattenSeq(s) = f[Len(s)]
    BY <2>1, FlattenIs
  <2>3. \A i \in 1..Len(s) : f[i] = g[i]
    <3>1. \A i \in 1..Len(s) : s[i] = t[i]
      BY <1>1
    <3>2. Len(s) <= Len(t)
      BY <1>1
    <3>3. Len(s) \in Nat
      BY <1>1
    <3>4. Len(t) \in Nat
      BY <1>1
    <3> QED
      BY <1>2, <2>2, <3>1, <3>2, <3>3, <3>4, FlattensAgree
  <2>4. f[Len(s)] = g[Len(t) - 1] /\ Len(t) # 1
    BY <1>1, <2>1, <2>3
  <2> QED
    BY <1>2, <1>3, <2>2, <2>4 DEF t
<1> QED
  BY <1>4, <1>5

(* Elements that are all empty give the empty sequence.                    *)
LEMMA FlattenNothing ==
  ASSUME NEW s, Len(s) \in Nat, \A i \in 1..Len(s) : s[i] = <<>>, s = [i \in 1..Len(s) |-> s[i]]
  PROVE  FlattenSeq(s) = <<>>
<1>0. s \in Seq({<<>>})
  OBVIOUS
<1>1. CASE s = <<>>
  BY <1>1, FlattenEmpty
<1>2. CASE s # <<>>
  <2>1. Len(s) \in Nat \ {0}
    BY <1>0, <1>2
  <2>2. PICK f : Flattens(f, s, Len(s)) /\ FlattenSeq(s) = f[Len(s)]
    BY <2>1, FlattenIs
  <2> DEFINE T == {n \in Nat : n + 1 \in 1..Len(s) => f[n + 1] = <<>>}
  <2>3. \A i \in 1..Len(s) : f[i] = IF i = 1 THEN <<>> ELSE f[i - 1] \o <<>>
    BY <2>2 DEF Flattens
  <2>4. 0 \in T
    BY <2>3
  <2>5. ASSUME NEW n \in Nat, n \in T PROVE n + 1 \in T
    <3> SUFFICES ASSUME n + 2 \in 1..Len(s) PROVE f[n + 2] = <<>>
      OBVIOUS
    <3>1. f[n + 2] = f[n + 1] \o <<>>
      BY <2>3
    <3>2. f[n + 1] = <<>>
      BY <2>5
    <3>3. <<>> \o <<>> = <<>>
      OBVIOUS
    <3> QED
      BY <3>1, <3>2, <3>3
  <2> HIDE DEF T
  <2>6. Nat \subseteq T
    BY <2>4, <2>5, SetInduction
  <2>7. Len(s) - 1 \in T /\ (Len(s) - 1) + 1 = Len(s)
    BY <2>1, <2>6
  <2> QED
    BY <2>1, <2>2, <2>7 DEF T
<1> QED
  BY <1>1, <1>2

(* The elements of two sequences give, one after the other, what each of   *)
(* them gives.                                                             *)
LEMMA FlattenConcat ==
  ASSUME NEW S, NEW s \in Seq(Seq(S)), NEW t \in Seq(Seq(S))
  PROVE  FlattenSeq(s \o t) = FlattenSeq(s) \o FlattenSeq(t)
<1> DEFINE upto(n) == SubSeq(t, 1, n)
           T == {n \in Nat : n <= Len(t) =>
                   FlattenSeq(s \o upto(n)) = FlattenSeq(s) \o FlattenSeq(upto(n))}
<1>1. 0 \in T
  <2>1. upto(0) = <<>> /\ s \o upto(0) = s
    OBVIOUS
  <2>2. FlattenSeq(s) \in Seq(S)
    BY FlattenTyped
  <2>3. FlattenSeq(s) \o <<>> = FlattenSeq(s)
    BY <2>2
  <2>4. FlattenSeq(s \o upto(0)) = FlattenSeq(s)
    BY <2>1, Zenon
  <2>5. FlattenSeq(upto(0)) = <<>>
    BY <2>1, FlattenEmpty, Zenon
  <2> QED
    BY <2>3, <2>4, <2>5
<1>2. ASSUME NEW n \in Nat, n \in T PROVE n + 1 \in T
  <2> SUFFICES ASSUME n + 1 <= Len(t)
               PROVE  FlattenSeq(s \o upto(n + 1)) = FlattenSeq(s) \o FlattenSeq(upto(n + 1))
    OBVIOUS
  <2> DEFINE u == upto(n)
             e == t[n + 1]
  <2>1. u \in Seq(Seq(S)) /\ e \in Seq(S)
    BY SubSeqProperties
  <2>2. upto(n + 1) = Append(u, e)
    <3>1. Len(upto(n + 1)) = n + 1 /\ Len(u) = n
      OBVIOUS
    <3>2. \A k \in 1..(n + 1) : upto(n + 1)[k] = Append(u, e)[k]
      OBVIOUS
    <3>3. upto(n + 1) \in Seq(Seq(S)) /\ Append(u, e) \in Seq(Seq(S)) /\ Len(Append(u, e)) = n + 1
      BY <2>1, <3>1
    <3> HIDE DEF u, e, upto
    <3> QED
      BY <3>1, <3>2, <3>3, SeqEqual
  <2> HIDE DEF u, e
  <2>3. s \o Append(u, e) = Append(s \o u, e) /\ s \o u \in Seq(Seq(S))
    BY <2>1
  <2>4. FlattenSeq(s \o u) = FlattenSeq(s) \o FlattenSeq(u)
    BY <1>2 DEF u
  <2>5. FlattenSeq(Append(s \o u, e)) = FlattenSeq(s \o u) \o e
    BY <2>1, <2>3, FlattenAppend
  <2>6. FlattenSeq(Append(u, e)) = FlattenSeq(u) \o e
    BY <2>1, FlattenAppend
  <2>7. (FlattenSeq(s) \o FlattenSeq(u)) \o e = FlattenSeq(s) \o (FlattenSeq(u) \o e)
    <3>1. FlattenSeq(s) \in Seq(S) /\ FlattenSeq(u) \in Seq(S)
      BY <2>1, FlattenTyped
    <3> HIDE DEF upto
    <3> QED
      BY <2>1, <3>1
  <2> HIDE DEF upto, T
  <2> QED
    BY <2>2, <2>3, <2>4, <2>5, <2>6, <2>7
<1> HIDE DEF T
<1>3. Nat \subseteq T
  BY <1>1, <1>2, SetInduction
<1>4. Len(t) \in T /\ Len(t) <= Len(t)
  BY <1>3
<1>5. upto(Len(t)) = t
  OBVIOUS
<1> HIDE DEF upto
<1>6. FlattenSeq(s \o upto(Len(t))) = FlattenSeq(s) \o FlattenSeq(upto(Len(t)))
  BY <1>4 DEF T
<1> QED
  BY <1>5, <1>6

(* A tuple of three, one element after the other.                          *)
LEMMA ThreeAppended ==
  ASSUME NEW S, NEW a \in S, NEW b \in S, NEW c \in S
  PROVE  Append(Append(Append(<<>>, a), b), c) = <<a, b, c>>
<1> DEFINE r == Append(<<a>>, b)
           t == Append(r, c)
<1>0. Append(<<>>, a) = <<a>>
  OBVIOUS
<1>1. /\ <<a>> \in Seq(S) /\ Len(<<a>>) = 1 /\ <<a>>[1] = a
  OBVIOUS
<1>2. r \in Seq(S) /\ Len(r) = 2 /\ r[1] = a /\ r[2] = b
  BY <1>1
<1> HIDE DEF r
<1>3. t \in Seq(S) /\ Len(t) = 3 /\ t[1] = a /\ t[2] = b /\ t[3] = c
  <2>0. r \in Seq(S) /\ c \in S
    BY <1>2
  <2>1. /\ t \in Seq(S) /\ Len(t) = Len(r) + 1 /\ t[Len(r) + 1] = c
        /\ \A k \in 1..Len(r) : t[k] = r[k]
    BY <2>0, AppendProperties
  <2>2. 1 \in 1..Len(r) /\ 2 \in 1..Len(r)
    BY <1>2
  <2> HIDE DEF t
  <2> QED
    BY <1>2, <2>1, <2>2
<1> HIDE DEF t
<1>4. <<a, b, c>> \in Seq(S) /\ Len(<<a, b, c>>) = 3
  OBVIOUS
<1>5. <<a, b, c>>[1] = a /\ <<a, b, c>>[2] = b /\ <<a, b, c>>[3] = c
  OBVIOUS
<1>6. \A k \in 1..3 : t[k] = <<a, b, c>>[k]
  <2>1. \A k \in 1..3 : k = 1 \/ k = 2 \/ k = 3
    OBVIOUS
  <2> QED
    BY <1>3, <1>5, <2>1
<1>7. t = <<a, b, c>>
  <2> DEFINE u == <<a, b, c>>
  <2>1. u \in Seq(S) /\ Len(u) = 3 /\ \A k \in 1..3 : t[k] = u[k]
    BY <1>4, <1>6
  <2> HIDE DEF u
  <2>2. t = u
    BY <1>3, <2>1, SeqEqual
  <2> QED
    BY <2>2 DEF u
<1> QED
  BY <1>0, <1>7 DEF t, r

(* Sequences of one element each give the sequence of these elements.      *)
LEMMA FlattenSingles ==
  ASSUME NEW S, NEW s \in Seq(S)
  PROVE  FlattenSeq([n \in 1..Len(s) |-> <<s[n]>>]) = s
<1> DEFINE f(m) == [n \in 1..m |-> <<s[n]>>]
           p(m) == [n \in 1..m |-> s[n]]
           T == {m \in Nat : m <= Len(s) => FlattenSeq(f(m)) = p(m)}
<1>1. Len(s) \in Nat /\ \A n \in 1..Len(s) : s[n] \in S
  OBVIOUS
<1>2. 0 \in T
  <2>1. f(0) = <<>> /\ p(0) = <<>>
    OBVIOUS
  <2> HIDE DEF f, p
  <2> QED
    BY <2>1, FlattenEmpty
<1>3. ASSUME NEW m \in Nat, m \in T PROVE m + 1 \in T
  <2> SUFFICES ASSUME m + 1 <= Len(s) PROVE FlattenSeq(f(m + 1)) = p(m + 1)
    OBVIOUS
  <2>1. s[m + 1] \in S /\ \A n \in 1..m : s[n] \in S
    BY <1>1
  <2>2. f(m) \in Seq(Seq(S)) /\ <<s[m + 1]>> \in Seq(S) /\ p(m) \in Seq(S)
    BY <2>1
  <2>3. f(m + 1) = Append(f(m), <<s[m + 1]>>)
    BY <2>1
  <2>4. p(m + 1) = p(m) \o <<s[m + 1]>>
    BY <2>1
  <2>5. FlattenSeq(f(m)) = p(m)
    BY <1>1, <1>3
  <2> HIDE DEF f, p
  <2>6. FlattenSeq(Append(f(m), <<s[m + 1]>>)) = FlattenSeq(f(m)) \o <<s[m + 1]>>
    BY <2>2, FlattenAppend
  <2> QED
    BY <2>3, <2>4, <2>5, <2>6
<1> HIDE DEF T
<1>4. Len(s) \in T
  BY <1>1, <1>2, <1>3, SetInduction
<1>5. p(Len(s)) = s
  OBVIOUS
<1> QED
  BY <1>1, <1>4, <1>5 DEF T
=============================================================================
